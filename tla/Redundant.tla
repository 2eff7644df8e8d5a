---- MODULE Redundant ----
(* vrpn_RedundantTransmission, which sends a message over UDP several times, and   *)
(* vrpn_RedundantReceiver, which throws the repeats away: it takes messages of one *)
(* type with one time for the same, and remembers the last VRPN_RR_LENGTH times.   *)
EXTENDS Integers, Sequences, FiniteSets, Functions

CONSTANTS Type, Sender,
          Message,          \* what is sent: a type, a sender, a time, and its class of service
          RRLength,         \* VRPN_RR_LENGTH
          Handlers,         \* the handlers to choose from: a type and a sender each
          Repetitions,      \* the ways to repeat: how often, and at intervals or at once
          MaxLoss           \* bound: copies that are lost

\* Not numbers of types and senders.
AnyType == "vrpn_ANY_TYPE"
AnySender == "vrpn_ANY_SENDER"
Nobody == "nobody"

\* What the caller of pack_message gives for the defaults (-1 and NULL).
UseDefault == [num |-> -1, spaced |-> TRUE]

ASSUME RedundantAssumption ==
    /\ \A m \in Message : m.type \in Type /\ m.sender \in Sender /\ m.time \in Nat
                           /\ m.reliable \in BOOLEAN
    /\ AnyType \notin Type /\ {AnySender, Nobody} \cap Sender = {}
    /\ RRLength \in Nat \ {0}
    /\ Handlers \subseteq [type : Type \cup {AnyType}, sender : Sender \cup {AnySender}]
    /\ Repetitions \subseteq [num : Nat, spaced : BOOLEAN]
    /\ MaxLoss \in Nat

VARIABLES
    isEnabled,          \* d_isEnabled
    defaults,           \* d_numTransmissions, d_transmissionInterval
    queued,             \* d_messageList
    remaining,          \* remainingTransmissions, zero for what is not in the list
    numQueued,          \* d_numMessagesQueued
    net,                \* copies under way of each message, in any order
    handlers,           \* the entries in the lists of the receiver
    listens,            \* the sender it is registered for with the connection
    seen,               \* timestampSeen of each type, the oldest first
    \* ---- history
    packed,             \* what pack_message was called with
    copies,             \* how often each was to be sent
    sure,               \* went by TCP, which loses nothing
    expected,           \* a handler waits for it, since it was packed
    lost,         \* copies lost
    log,                \* what the receiver let through, by type
    heard               \* what a handler was called with

senderVars == <<isEnabled, defaults, queued, remaining, numQueued>>
receiverVars == <<handlers, listens, seen>>
sent == <<packed, copies, sure, expected>>
received == <<log, heard>>
vars == <<senderVars, net, receiverVars, sent, lost, received>>

----------------------------------------------------------------------------
(* The receiver's tables.                                                       *)

\* Does a message reach handle_possiblyRedundantMessage?
Reaches(m) == listens[m.type] \in {AnySender, m.sender}

\* The handlers it calls.
TakersIn(entries, m) ==
    {h \in entries : h.type \in {AnyType, m.type} /\ h.sender \in {AnySender, m.sender}}

Takers(m) == TakersIn(handlers, m)

\* Mutant: the slots are looked through from the second one.
IsRepeatOffByOne(m) == \E i \in 2 .. RRLength : m.time = seen[m.type][i]

IsRepeat(m) == m.time \in Range(seen[m.type])

\* The oldest time makes room for the newest.
Remember(times, t) == Append(Tail(times), t)

----------------------------------------------------------------------------
\* A time of zero counts as seen at first: the table starts out with zeros.
Init ==
    /\ isEnabled = FALSE
    /\ defaults = [num |-> 0, spaced |-> FALSE]
    /\ queued = {} /\ remaining = [m \in Message |-> 0] /\ numQueued = 0
    /\ net = [m \in Message |-> 0]
    /\ handlers = {} /\ listens = [t \in Type |-> Nobody]
    /\ seen = [t \in Type |-> [i \in 1 .. RRLength |-> 0]]
    /\ packed = {} /\ copies = [m \in Message |-> 0] /\ sure = {} /\ expected = {}
    /\ lost = [m \in Message |-> 0]
    /\ log = [t \in Type |-> <<>>] /\ heard = {}

----------------------------------------------------------------------------
(* vrpn_RedundantTransmission.                                                  *)

\* enable, by the program or by the controller's handle_enable
Enable(on) ==
    /\ on # isEnabled
    /\ isEnabled' = on
    /\ UNCHANGED <<defaults, queued, remaining, numQueued, net, receiverVars, sent,
                   lost, received>>

\* setDefaults, by the program or by the controller's handle_set
SetDefaults(r) ==
    /\ r # defaults
    /\ defaults' = r
    /\ UNCHANGED <<isEnabled, queued, remaining, numQueued, net, receiverVars, sent,
                   lost, received>>

Packed(m, n) ==
    /\ packed' = packed \cup {m}
    /\ copies' = [copies EXCEPT ![m] = n]
    /\ expected' = IF Reaches(m) /\ Takers(m) # {} THEN expected \cup {m} ELSE expected

\* pack_message while not enabled: as the caller says, over UDP or TCP.
PackPlain(m) ==
    /\ m \notin packed /\ ~isEnabled
    /\ net' = [net EXCEPT ![m] = @ + 1]
    /\ sure' = IF m.reliable THEN sure \cup {m} ELSE sure
    /\ Packed(m, 1)
    /\ UNCHANGED <<senderVars, receiverVars, lost, received>>

\* Mutants: the list is not counted; the copy that goes at once counts as one more.
EnqueueUncounted(m, n) ==
    /\ queued' = queued \cup {m}
    /\ remaining' = [remaining EXCEPT ![m] = n]
    /\ UNCHANGED numQueued

EnqueueOneLess(m, n) ==
    /\ queued' = queued \cup {m}
    /\ remaining' = [remaining EXCEPT ![m] = n - 1]
    /\ numQueued' = numQueued + 1

Enqueue(m, n) ==
    /\ queued' = queued \cup {m}
    /\ remaining' = [remaining EXCEPT ![m] = n]
    /\ numQueued' = numQueued + 1

\* pack_message while enabled: one copy at once, the others at once too, each in a
\* packet of its own, or from the list as their times come.
Pack(m, choice) ==
    LET r == IF choice = UseDefault THEN defaults ELSE choice IN
    /\ m \notin packed /\ isEnabled
    /\ IF r.spaced /\ r.num > 0
       THEN /\ net' = [net EXCEPT ![m] = @ + 1]
            /\ Enqueue(m, r.num)
       ELSE /\ net' = [net EXCEPT ![m] = @ + 1 + r.num]
            /\ UNCHANGED <<queued, remaining, numQueued>>
    /\ Packed(m, 1 + r.num)
    /\ UNCHANGED <<isEnabled, defaults, sure, receiverVars, lost, received>>

\* mainloop: one copy of all whose nextValidTime has passed; what has been sent often
\* enough leaves the list, and a count that does not fit the list empties it.
Mainloop(ready) ==
    LET left == [m \in Message |-> IF m \in ready THEN remaining[m] - 1 ELSE remaining[m]]
        rest == {m \in queued : left[m] > 0}
        count == numQueued - Cardinality(queued \ rest)
    IN  /\ ready \in SUBSET queued \ {{}}
        /\ net' = [m \in Message |-> IF m \in ready THEN net[m] + 1 ELSE net[m]]
        /\ remaining' = left
        /\ IF (count = 0) = (rest = {})
           THEN queued' = rest /\ numQueued' = count
           ELSE queued' = {} /\ numQueued' = 0
        /\ UNCHANGED <<isEnabled, defaults, receiverVars, sent, lost, received>>

----------------------------------------------------------------------------
(* vrpn_RedundantReceiver.                                                      *)

\* register_handler: the first handler of a type decides on the sender the receiver
\* hears; one for all types is not registered with the connection at all.
Register(h) ==
    /\ h \notin handlers
    /\ handlers' = handlers \cup {h}
    /\ listens' = IF h.type # AnyType /\ listens[h.type] = Nobody
                  THEN [listens EXCEPT ![h.type] = h.sender] ELSE listens
    /\ UNCHANGED <<senderVars, net, seen, sent, lost, received>>

\* unregister_handler: the connection goes on calling the receiver.
Unregister(h) ==
    /\ h \in handlers
    /\ handlers' = handlers \ {h}
    /\ expected' = {m \in expected : TakersIn(handlers \ {h}, m) # {}}
    /\ UNCHANGED <<senderVars, net, listens, seen, packed, copies, sure, lost, received>>

\* handle_possiblyRedundantMessage, with a copy of m
Receive(m) ==
    /\ net[m] > 0
    /\ net' = [net EXCEPT ![m] = @ - 1]
    /\ IF Reaches(m) /\ ~IsRepeat(m)
       THEN /\ seen' = [seen EXCEPT ![m.type] = Remember(@, m.time)]
            /\ log' = [log EXCEPT ![m.type] = Append(@, m)]
            /\ heard' = IF Takers(m) # {} THEN heard \cup {m} ELSE heard
       ELSE UNCHANGED <<seen, received>>
    /\ UNCHANGED <<senderVars, handlers, listens, sent, lost>>

\* The network: UDP packets are lost.
Lose(m) ==
    /\ net[m] > 0 /\ m \notin sure
    /\ FoldFunction(+, 0, lost) < MaxLoss
    /\ net' = [net EXCEPT ![m] = @ - 1]
    /\ lost' = [lost EXCEPT ![m] = @ + 1]
    /\ UNCHANGED <<senderVars, receiverVars, sent, received>>

Next ==
    \/ \E on \in BOOLEAN : Enable(on)
    \/ \E r \in Repetitions : SetDefaults(r)
    \/ \E ready \in SUBSET queued : Mainloop(ready)
    \/ \E h \in Handlers : Register(h) \/ Unregister(h)
    \/ \E m \in Message : \/ PackPlain(m)
                          \/ \E r \in Repetitions \cup {UseDefault} : Pack(m, r)
                          \/ Receive(m) \/ Lose(m)

Spec == Init /\ [][Next]_vars

\* The clock runs, and both programs call their mainloops.  (Every step of the two sends
\* or reads a copy, and there are finitely many.)
Fairness ==
    /\ WF_vars(\E ready \in SUBSET queued : Mainloop(ready))
    /\ WF_vars(\E m \in Message : Receive(m))

LiveSpec == Spec /\ Fairness

----------------------------------------------------------------------------
(* Properties.                                                                  *)

ListOK ==
    /\ queued \subseteq packed /\ packed \subseteq Message
    /\ remaining \in [Message -> Nat]
    /\ queued = {m \in Message : remaining[m] > 0}
    /\ numQueued = Cardinality(queued)

\* The list holds what is still to be sent, and d_numMessagesQueued is its length: the
\* "serious internal error" of mainloop does not happen.
TypeOK ==
    /\ ListOK
    /\ isEnabled \in BOOLEAN /\ defaults \in [num : Nat, spaced : BOOLEAN]
    /\ handlers \subseteq Handlers
    /\ listens \in [Type -> Sender \cup {AnySender, Nobody}]
    /\ seen \in [Type -> [1 .. RRLength -> Nat]]
    /\ net \in [Message -> Nat] /\ copies \in [Message -> Nat] /\ lost \in [Message -> Nat]
    /\ sure \subseteq packed /\ expected \subseteq packed
    /\ log \in [Type -> Seq(Message)] /\ heard \subseteq Message

\* Only the first copy of a message is let through, unless VRPN_RR_LENGTH other messages
\* of its type have been let through since then, however copies are reordered.
DeliveredOnce ==
    \A t \in Type : \A i, j \in 1 .. Len(log[t]) :
        i < j /\ log[t][i] = log[t][j] => j - i > RRLength

\* Two messages of one type and one time, such as two sensors in one report.
HasTwin(m) == \E x \in packed \ {m} : x.type = m.type /\ x.time = m.time

\* In the end every message that a handler waits for has been heard, unless every copy of
\* it was lost: n retransmissions make up for n lost copies.  (Messages with one type and
\* one time are taken for copies, and a time of zero for one that was seen.)
HeardDespiteLoss ==
    <>[](\A m \in expected :
            m \in heard \/ lost[m] >= copies[m] \/ HasTwin(m) \/ m.time = 0)
====
