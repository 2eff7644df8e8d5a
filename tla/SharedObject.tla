---- MODULE SharedObject ----
(* vrpn_Shared_int32, vrpn_Shared_float64 and vrpn_Shared_String: a value that a  *)
(* server and a remote share.  Either end may set it; the mode says which sets     *)
(* are ignored, and whether one end, the serializer, decides on all of them.       *)
(* Both ends run the same code, and each starts out as a serializer.               *)
EXTENDS Integers, Sequences

CONSTANTS Value, Default,   \* what is shared, and what it is at first
          Objects,          \* the kinds and modes to choose from
          Policies,         \* the serializer policies to choose from
          MaxTime,          \* bound: times of sets and of constructions
          MaxSets,          \* bound: sets
          MaxRequests,      \* bound: calls of becomeSerializer
          MaxBreaks         \* bound: broken connections

Flags == {"IGNORE_IDEMPOTENT", "IGNORE_OLD", "DEFER_UPDATES"}
Policy == {"ACCEPT", "DENY_REMOTE", "DENY_LOCAL", "CALLBACK"}

Kind == {"int32", "float64", "String"}

ASSUME SharedAssumption ==
    /\ Default \in Value
    /\ Objects \subseteq [kind : Kind, mode : SUBSET Flags]
    /\ Policies \subseteq Policy
    /\ {MaxTime, MaxSets, MaxRequests, MaxBreaks} \subseteq Nat

End == {"server", "remote"}

Other(e) == IF e = "server" THEN "remote" ELSE "server"

VARIABLES
    kind, mode,         \* the same at both ends
    policy,             \* d_policy of each end
    value, stamp,       \* d_value, d_lastUpdate of each end
    isSerializer,       \* d_isSerializer
    isNegotiating,      \* d_isNegotiatingSerializer
    up,                 \* are the ends connected?
    chan,               \* chan[e]: under way to e, over TCP
    \* ---- history
    sets, requests, breaks,     \* how many so far
    latest,             \* the set that was sent with the greatest time
    steady,             \* has a serializer been settled on, and is no other asked for?
    calls               \* the callbacks of each end since then

objVars == <<kind, mode, policy>>
serialVars == <<isSerializer, isNegotiating>>
counters == <<sets, requests, breaks>>
history == <<counters, latest, steady, calls>>
vars == <<objVars, value, stamp, serialVars, up, chan, history>>

Time == 0 .. MaxTime

Update(v, t) == [type |-> "update", value |-> v, when |-> t]
Control(type) == [type |-> type]

Msg == [type : {"update"}, value : Value, when : Time]
         \cup [type : {"request", "grant", "assume"}]

----------------------------------------------------------------------------
(* What an end does with a set.                                                 *)

\* Equal times: too old for an int32 (its clause for them comes too late); for the
\* others only where a local set is not for this end to accept.
TieIsOld(e, isLocal) == kind = "int32" \/ (isLocal /\ ~isSerializer[e])

\* A String compares addresses, which differ (unless value() itself is set again).
SameValue(e, v) == kind # "String" /\ v = value[e]

\* Mutant: all sets count as new.
IsOldNever(e, t, isLocal) == FALSE

IsOld(e, t, isLocal) == t < stamp[e] \/ (t = stamp[e] /\ TieIsOld(e, isLocal))

\* What the serializer accepts; the user's callback may say anything.
PolicyAccepts(e, isLocal) ==
    IF isLocal THEN {policy[e] # "DENY_LOCAL"}
    ELSE IF policy[e] = "CALLBACK" THEN BOOLEAN ELSE {policy[e] = "ACCEPT"}

\* Mutant: an end that does not serialize accepts its own sets, too.
ShouldAcceptLocal(e, v, t, isLocal) ==
    IF \/ "IGNORE_IDEMPOTENT" \in mode /\ SameValue(e, v)
       \/ "IGNORE_OLD" \in mode /\ IsOld(e, t, isLocal)
    THEN {FALSE}
    ELSE IF "DEFER_UPDATES" \notin mode \/ ~isSerializer[e] THEN {TRUE}
    ELSE PolicyAccepts(e, isLocal)

\* shouldAcceptUpdate: the answers it may give.
ShouldAccept(e, v, t, isLocal) ==
    IF \/ "IGNORE_IDEMPOTENT" \in mode /\ SameValue(e, v)
       \/ "IGNORE_OLD" \in mode /\ IsOld(e, t, isLocal)
    THEN {FALSE}
    ELSE IF "DEFER_UPDATES" \notin mode THEN {TRUE}
    ELSE IF ~isSerializer[e] THEN {~isLocal}
    ELSE PolicyAccepts(e, isLocal)

\* Mutant: what comes from the other end is sent back.
ShouldSendAccepted(e, isLocal, accepted) == accepted

\* shouldSendUpdate: what is accepted here first; in deferring mode also what the
\* serializer has to decide on, and what it has accepted from its peer.
ShouldSend(e, isLocal, accepted) ==
    \/ accepted /\ isLocal
    \/ /\ "DEFER_UPDATES" \in mode
       /\ \/ ~isSerializer[e] /\ isLocal
          \/ isSerializer[e] /\ ~isLocal /\ accepted

\* vrpn_Connection::pack_message: nothing is sent, or kept, without a connection.
Packed(c, e, m) == IF up THEN [c EXCEPT ![Other(e)] = Append(@, m)] ELSE c

\* The value is stored, sent on and announced to the callbacks.
Store(e, v, t, accepted) ==
    /\ value' = IF accepted THEN [value EXCEPT ![e] = v] ELSE value
    /\ stamp' = IF accepted THEN [stamp EXCEPT ![e] = t] ELSE stamp

\* One end has been settled on to serialize: nothing is under way, nobody asks, and
\* the ends agree.
Settled ==
    /\ "DEFER_UPDATES" \in mode
    /\ \A e \in End : /\ isSerializer[Other(e)] = ~isSerializer[e]
                       /\ ~isNegotiating[e]
                       /\ chan[e] = <<>>
                       /\ value[e] = value[Other(e)] /\ stamp[e] = stamp[Other(e)]

Announce(e, v, accepted) ==
    /\ calls' = IF steady /\ accepted THEN [calls EXCEPT ![e] = Append(@, v)] ELSE calls

----------------------------------------------------------------------------
Init ==
    /\ \E o \in Objects : kind = o.kind /\ mode = o.mode
    /\ policy \in [End -> Policies]
    /\ value = [e \in End |-> Default]
    /\ stamp \in [End -> {0, 1} \cap Time]
    /\ isSerializer = [e \in End |-> TRUE]
    /\ isNegotiating = [e \in End |-> FALSE]
    /\ up = FALSE
    /\ chan = [e \in End |-> <<>>]
    /\ sets = 0 /\ requests = 0 /\ breaks = 0
    /\ latest = [value |-> Default, when |-> 1, sent |-> FALSE, tied |-> FALSE]
    /\ steady = FALSE
    /\ calls = [e \in End |-> <<>>]

\* The ends are connected.  Nothing is sent: handle_gotConnection, which would send
\* the value, waits for a message from its own sender, d_myId, whereas the one that
\* announces a connection is from "VRPN Control".
Connect ==
    /\ ~up
    /\ up' = TRUE
    /\ UNCHANGED <<objVars, value, stamp, serialVars, chan, history>>

\* The connection breaks, with what is under way.
Break ==
    /\ up
    /\ breaks < MaxBreaks
    /\ breaks' = breaks + 1
    /\ up' = FALSE
    /\ chan' = [e \in End |-> <<>>]
    /\ latest' = [latest EXCEPT !.sent = FALSE]
    /\ steady' = FALSE
    /\ UNCHANGED <<objVars, value, stamp, serialVars, sets, requests, calls>>

LatestAfter(v, t, sent) ==
    IF ~sent \/ t < latest.when THEN latest
    ELSE IF t > latest.when THEN [value |-> v, when |-> t, sent |-> up, tied |-> FALSE]
    ELSE [latest EXCEPT !.tied = TRUE]

\* set(v, t), or an assignment of v, by the program at e.  (Times are compared only
\* when old sets are ignored.)
Set(e, v, t) ==
    /\ sets < MaxSets
    /\ "IGNORE_OLD" \notin mode => t = 1
    /\ sets' = sets + 1
    /\ \E accepted \in ShouldAccept(e, v, t, TRUE) :
          LET sends == ShouldSend(e, TRUE, accepted) IN
          /\ Store(e, v, t, accepted)
          /\ chan' = IF sends THEN Packed(chan, e, Update(v, t)) ELSE chan
          /\ latest' = LatestAfter(v, t, sends)
          /\ Announce(e, v, accepted)
    /\ UNCHANGED <<objVars, serialVars, up, requests, breaks, steady>>

\* becomeSerializer, also by an end that is the serializer.
BecomeSerializer(e) ==
    /\ requests < MaxRequests
    /\ ~isNegotiating[e]
    /\ requests' = requests + 1
    /\ isNegotiating' = [isNegotiating EXCEPT ![e] = TRUE]
    /\ chan' = Packed(chan, e, Control("request"))
    /\ steady' = FALSE
    /\ UNCHANGED <<objVars, value, stamp, isSerializer, up, sets, breaks, latest, calls>>

----------------------------------------------------------------------------
(* Handlers of the messages from the other end.                                 *)

Receive(e, type) == chan[e] # <<>> /\ Head(chan[e]).type = type

Rest(e) == [chan EXCEPT ![e] = Tail(@)]

\* After a handler: is it settled now who serializes?
SteadyAfter ==
    /\ steady' = (steady \/ Settled')

\* handle_update
HandleUpdate(e) ==
    /\ Receive(e, "update")
    /\ LET m == Head(chan[e]) IN
       \E accepted \in ShouldAccept(e, m.value, m.when, FALSE) :
          /\ Store(e, m.value, m.when, accepted)
          /\ chan' = IF ShouldSend(e, FALSE, accepted)
                     THEN Packed(Rest(e), e, Update(m.value, m.when)) ELSE Rest(e)
          /\ IF steady
             THEN Announce(e, m.value, accepted)
             ELSE calls' = [x \in End |-> <<>>]
    /\ UNCHANGED <<objVars, serialVars, up, counters, latest>>
    /\ SteadyAfter

\* Mutant: granted by an end that is negotiating, too.
HandleRequestAlways(e) ==
    /\ Receive(e, "request")
    /\ isNegotiating' = [isNegotiating EXCEPT ![e] = TRUE]
    /\ chan' = Packed(Rest(e), e, Control("grant"))
    /\ UNCHANGED <<objVars, value, stamp, isSerializer, up, history>>

\* handle_requestSerializer: granted by any end that is not negotiating itself, as
\* isSerializer() is always true.
HandleRequest(e) ==
    /\ Receive(e, "request")
    /\ IF isNegotiating[e]
       THEN /\ chan' = Rest(e)
            /\ UNCHANGED isNegotiating
       ELSE /\ isNegotiating' = [isNegotiating EXCEPT ![e] = TRUE]
            /\ chan' = Packed(Rest(e), e, Control("grant"))
    /\ UNCHANGED <<objVars, value, stamp, isSerializer, up, history>>

\* handle_grantSerializer
HandleGrant(e) ==
    /\ Receive(e, "grant")
    /\ isSerializer' = [isSerializer EXCEPT ![e] = TRUE]
    /\ isNegotiating' = [isNegotiating EXCEPT ![e] = FALSE]
    /\ chan' = Packed(Rest(e), e, Control("assume"))
    /\ UNCHANGED <<objVars, value, stamp, up, history>>

\* handle_assumeSerializer
HandleAssume(e) ==
    /\ Receive(e, "assume")
    /\ isSerializer' = [isSerializer EXCEPT ![e] = FALSE]
    /\ isNegotiating' = [isNegotiating EXCEPT ![e] = FALSE]
    /\ chan' = Rest(e)
    /\ calls' = [x \in End |-> <<>>]
    /\ UNCHANGED <<objVars, value, stamp, up, counters, latest>>
    /\ SteadyAfter

Handle(e) == HandleUpdate(e) \/ HandleRequest(e) \/ HandleGrant(e) \/ HandleAssume(e)

Next ==
    \/ Connect \/ Break
    \/ \E e \in End : \/ \E v \in Value, t \in Time : Set(e, v, t)
                      \/ BecomeSerializer(e)
                      \/ Handle(e)

Spec == Init /\ [][Next]_vars

\* Connections are made again and messages read, by the mainloops of both ends.
Fairness == WF_vars(Connect) /\ \A e \in End : WF_vars(Handle(e))

LiveSpec == Spec /\ Fairness

----------------------------------------------------------------------------
(* Properties.                                                                  *)

TypeOK ==
    /\ kind \in Kind /\ mode \subseteq Flags /\ policy \in [End -> Policy]
    /\ value \in [End -> Value] /\ stamp \in [End -> Time]
    /\ isSerializer \in [End -> BOOLEAN] /\ isNegotiating \in [End -> BOOLEAN]
    /\ up \in BOOLEAN
    /\ chan \in [End -> Seq(Msg)]
    /\ sets \in Nat /\ requests \in Nat /\ breaks \in Nat
    /\ latest \in [value : Value, when : Nat, sent : BOOLEAN, tied : BOOLEAN]
    /\ steady \in BOOLEAN /\ calls \in [End -> Seq(Value)]

Quiet == \A e \in End : chan[e] = <<>>

\* A pair that ignores old sets ends with the same value: the set with the greatest
\* time, if it was sent over the connection that stands, is what both ends have when
\* nothing is under way.  This needs all sets to count (no idempotent ones ignored,
\* no policy that denies them), and no two sets with one time.
Converged ==
    ( /\ "IGNORE_OLD" \in mode /\ "IGNORE_IDEMPOTENT" \notin mode
      /\ "DEFER_UPDATES" \in mode => \A e \in End : policy[e] = "ACCEPT"
      /\ Quiet /\ latest.sent /\ ~latest.tied ) =>
    \A e \in End : value[e] = latest.value /\ stamp[e] = latest.when

IsPrefix(s, t) == Len(s) <= Len(t) /\ s = SubSeq(t, 1, Len(s))

\* Once it is settled which end serializes, the other one sees the same sequence of
\* callbacks, whatever the policy.
SameSequence ==
    steady =>
        \A e \in End : ~isSerializer[e] => IsPrefix(calls[e], calls[Other(e)])

\* An end that stops serializing leaves it to the other: the two never both take the
\* other for the serializer, when each would take over the other's sets but not its own,
\* whoever asks at whatever time and whichever messages a broken connection loses.
SomeoneSerializes == \E e \in End : isSerializer[e]

\* Updates do not bounce between the ends for ever: not without deferring, not with
\* times that make an echo old, and not when one end serializes.
Settles ==
    <>[]( \/ Quiet
          \/ "DEFER_UPDATES" \in mode /\ \A e \in End : isSerializer[e]
             /\ ~("IGNORE_OLD" \in mode /\ kind = "int32"))
====
