----------------------------- MODULE Translation ----------------------------
(***************************************************************************)
(* Message types and senders: how the names registered at one connection   *)
(* become the small integers that messages carry, and how the other side   *)
(* of an endpoint turns them back (vrpn_TypeDispatcher,                    *)
(* vrpn_TranslationTable, vrpn_Endpoint and vrpn_Connection in             *)
(* vrpn_Connection.C).                                                     *)
(*                                                                         *)
(* Each node numbers the names it knows in the order it learns them, and   *)
(* describes every new name to the nodes it is connected to.  A node that  *)
(* reads a description registers the name itself, if it has to, and notes  *)
(* in the endpoint's table which of its own numbers stands for the         *)
(* sender's.  Messages carry the sender's numbers.  Descriptions travel by *)
(* TCP, other messages by TCP or UDP, and UDP may overtake TCP.            *)
(*                                                                         *)
(* An end e = <<n, m>> in Link is n's endpoint for m; tcp[e] and udp[e]    *)
(* hold what n has packed for m.  Numbers are one higher than in the code, *)
(* 0 is its -1.  What every node registers at construction has the same    *)
(* number everywhere and is left out.                                      *)
(***************************************************************************)
EXTENDS Integers, Sequences, FiniteSets

CONSTANTS Node, Link,
          TypeName, SenderName,
          NoName,
          MaxFault   \* bound: connections that break, processes that restart,
                     \* names that cannot be described to everyone

Rev(e) == <<e[2], e[1]>>

ASSUME TranslationAssumption ==
  /\ Link \subseteq Node \X Node
  /\ \A e \in Link : Rev(e) \in Link /\ Rev(e) # e
  /\ NoName \notin TypeName \cup SenderName
  /\ MaxFault \in Nat

Kind     == {"type", "sender"}
Names(k) == IF k = "type" THEN TypeName ELSE SenderName

VARIABLES
  reg,     \* reg[n][k]: d_types and d_senders of n, the names in order
  status,  \* status[e]: of the endpoint
  table,   \* table[e][k]: d_entry, up to d_numEntries, of the endpoint
  udpTo,   \* endpoints whose d_udpOutboundSocket is open
  tcp,     \* tcp[e]: what is under way by TCP, oldest first
  udp,     \* udp[e]: user messages under way by UDP
  said,    \* history, said[e]: reg[e[1]] as long as e was last CONNECTED
  untold,  \* history: endpoints passed over since they were last connected
  faults   \* counter for the bound

vars == <<reg, status, table, udpTo, tcp, udp, said, untold, faults>>

NoEntry == [name |-> NoName, local |-> 0]
Empty   == [k \in Kind |-> <<>>]

UdpPort       == [kind |-> "udp"]
Desc(k, i, x) == [kind |-> "desc", of |-> k, id |-> i, name |-> x]
\* names is history: what ids stood for when the message was packed.
User(ids, names) == [kind |-> "user", ids |-> ids, names |-> names]

Init ==
  /\ reg = [n \in Node |-> Empty]
  /\ status = [e \in Link |-> "none"]
  /\ table = [e \in Link |-> Empty]
  /\ udpTo = {}
  /\ tcp = [e \in Link |-> <<>>] /\ udp = [e \in Link |-> {}]
  /\ said = [e \in Link |-> Empty] /\ untold = {}
  /\ faults = 0

Fault == faults < MaxFault /\ faults' = faults + 1

Ends(n) == {e \in Link : e[1] = n}

\* What is packed for e goes somewhere.
Open(e) == status[e] = "CONNECTED" /\ status[Rev(e)] # "none"

Reading(e) == status[e] = "CONNECTED" /\ tcp[Rev(e)] # <<>>

-----------------------------------------------------------------------------
(* The table of an endpoint. *)

\* addRemoteEntry: entry i becomes v; entries between are unset.
SetEntry(t, i, v) ==
  [j \in 1..(IF i > Len(t) THEN i ELSE Len(t)) |->
     IF j = i THEN v ELSE IF j <= Len(t) THEN t[j] ELSE NoEntry]

\* addLocalID: the first entry named x now stands for i.
SetLocal(t, x, i) ==
  [j \in DOMAIN t |->
     IF t[j].name = x /\ \A h \in 1..(j - 1) : t[h].name # x
     THEN [t[j] EXCEPT !.local = i] ELSE t[j]]

\* mapToLocalID.  The entries from d_numEntries on are unset, so that reading
\* the first of them, which the guard admits, also gives -1.
LocalId(e, k, i) == IF i \in DOMAIN table[e][k] THEN table[e][k][i].local ELSE 0

\* dispatch, doCallbacksFor: what the handlers at e[1] are told of a user
\* message, if they are called; a sender that is not known reads as
\* vrpn_ANY_SENDER.
Dispatched(e, msg) ==
  LET id(k)    == LocalId(e, k, msg.ids[k])
      known(k) == id(k) \in DOMAIN reg[e[1]][k]
  IN IF known("type")
     THEN {[k \in Kind |-> IF known(k) THEN reg[e[1]][k][id(k)] ELSE NoName]}
     ELSE {}

-----------------------------------------------------------------------------
(* Registering a name. *)

Known(n, k, x) == \E i \in DOMAIN reg[n][k] : reg[n][k][i] = x
NextId(n, k) == Len(reg[n][k]) + 1

\* getTypeID, getSenderID.
IdOf(n, k, x) == CHOOSE i \in DOMAIN reg[n][k] : reg[n][k][i] = x

\* The queues q after n has packed msgs for each open endpoint in E.
Pack(q, E, msgs) ==
  [e \in Link |-> IF e \in E /\ Open(e) THEN q[e] \o msgs ELSE q[e]]

\* The tables of n's endpoints once it has numbered x: addLocalID in each.
Localised(n, k, x) ==
  [e \in Link |-> IF e[1] = n
     THEN [table[e] EXCEPT ![k] = SetLocal(@, x, NextId(n, k))] ELSE table[e]]

Added(n, k, x) ==
  /\ reg' = [reg EXCEPT ![n][k] = Append(@, x)]
  /\ said' = [e \in Link |-> IF e[1] = n /\ status[e] = "CONNECTED"
                             THEN [reg[n] EXCEPT ![k] = Append(@, x)] ELSE said[e]]

\* pack_type_description, pack_sender_description of the connection: d is packed
\* at one endpoint after the other, up to one that fails (it cannot log d, or
\* its buffer is full and cannot be sent).  Nobody is told of the failure.
Describe(n, d, q) ==
  \/ tcp' = Pack(q, Ends(n), <<d>>) /\ UNCHANGED <<untold, faults>>
  \/ /\ Fault
     /\ \E missed \in SUBSET {e \in Ends(n) : status[e] = "CONNECTED"} \ {{}} :
          /\ tcp' = Pack(q, Ends(n) \ missed, <<d>>)
          /\ untold' = untold \cup missed

\* Mutant of Declare: the name is described under the number before its own.
DeclareOffByOne(n, k, x, q) ==
  Added(n, k, x) /\ Describe(n, Desc(k, Len(reg[n][k]), x), q)

\* register_message_type, register_sender, for a new name: it is numbered and
\* described to everyone; q is what is under way already.
Declare(n, k, x, q) ==
  Added(n, k, x) /\ Describe(n, Desc(k, NextId(n, k), x), q)

\* The user of n registers a name.
Register(n, k, x) ==
  /\ ~Known(n, k, x)
  /\ Declare(n, k, x, tcp)
  /\ table' = Localised(n, k, x)
  /\ UNCHANGED <<status, udpTo, udp>>

-----------------------------------------------------------------------------
(* Connecting and packing. *)

\* The TCP connection exists; each end waits for the other's cookie.
Connect(e) ==
  /\ status[e] = "none" /\ status[Rev(e)] = "none"
  /\ status' = [status EXCEPT ![e] = "COOKIE_PENDING", ![Rev(e)] = "COOKIE_PENDING"]
  /\ said' = [said EXCEPT ![e] = Empty, ![Rev(e)] = Empty]
  /\ untold' = untold \ {e, Rev(e)}
  /\ UNCHANGED <<reg, table, udpTo, tcp, udp, faults>>

\* All that n knows, as descriptions: senders first.
Descriptions(n) ==
  LET all(k) == [i \in DOMAIN reg[n][k] |-> Desc(k, i, reg[n][k][i])]
  IN all("sender") \o all("type")

\* Mutant of Greeting: names known before the connection are not described.
GreetingBare(n) == <<UdpPort>>

\* What is packed when an endpoint of n becomes CONNECTED.
Greeting(n) == <<UdpPort>> \o Descriptions(n)

Without(s, i) == SubSeq(s, 1, i - 1) \o SubSeq(s, i + 1, Len(s))

\* finish_new_connection_setup: e is greeted with g.
Greet(e, g) ==
  /\ status[e] = "COOKIE_PENDING"
  /\ status' = [status EXCEPT ![e] = "CONNECTED"]
  /\ tcp' = IF status[Rev(e)] = "none" THEN tcp ELSE [tcp EXCEPT ![e] = @ \o g]
  /\ said' = [said EXCEPT ![e] = reg[e[1]]]
  /\ UNCHANGED <<reg, table, udpTo, udp>>

\* With all that e[1] knows, or without a description that could not be packed.
Finish(e) ==
  LET g == Greeting(e[1])
  IN \/ Greet(e, g) /\ UNCHANGED <<untold, faults>>
     \/ /\ Fault /\ untold' = untold \cup {e}
        /\ \E i \in 2..Len(g) : Greet(e, Without(g, i))

IsUser(msg)  == msg.kind = "user"

\* Bound: the copies of one user message are under way at a time.
Quiet == \A e \in Link : udp[e] = {} /\ \A i \in DOMAIN tcp[e] : ~IsUser(tcp[e][i])

\* The type and the sender pack_message admits.
Legal(n) == {ids \in [Kind -> UNION {DOMAIN reg[n][k] : k \in Kind}] :
               \A k \in Kind : ids[k] \in DOMAIN reg[n][k]}

\* pack_message: to every open endpoint, an unreliable message by UDP where the
\* other side's port is known.
Send(n, ids, reliable) ==
  LET byUdp == IF reliable THEN {} ELSE udpTo
      msg   == User(ids, [k \in Kind |-> reg[n][k][ids[k]]])
  IN /\ Quiet
     /\ tcp' = Pack(tcp, Ends(n) \ byUdp, <<msg>>)
     /\ udp' = [e \in Link |-> IF e \in Ends(n) \cap byUdp /\ Open(e)
                               THEN udp[e] \cup {msg} ELSE udp[e]]
     /\ UNCHANGED <<reg, status, table, udpTo, said, untold, faults>>

-----------------------------------------------------------------------------
(* Reading. *)

Popped(e) == [tcp EXCEPT ![Rev(e)] = Tail(@)]

\* handle_type_message, handle_sender_message: the name is registered if it is
\* new, then entered in the table.
ReadDescription(e) ==
  /\ Reading(e)
  /\ LET d == Head(tcp[Rev(e)])
         n == e[1]
         entered(t, i) == [t EXCEPT ![e][d.of] =
                             SetEntry(@, d.id, [name |-> d.name, local |-> i])]
     IN /\ d.kind = "desc"
        /\ \/ /\ Known(n, d.of, d.name)
              /\ table' = entered(table, IdOf(n, d.of, d.name))
              /\ tcp' = Popped(e)
              /\ UNCHANGED <<reg, said, untold, faults>>
           \/ /\ ~Known(n, d.of, d.name)
              /\ Declare(n, d.of, d.name, Popped(e))
              /\ table' = entered(Localised(n, d.of, d.name), NextId(n, d.of))
  /\ UNCHANGED <<status, udpTo, udp>>

\* handle_UDP_message: the outbound UDP socket is opened.
ReadUdpPort(e) ==
  /\ Reading(e) /\ Head(tcp[Rev(e)]) = UdpPort
  /\ udpTo' = udpTo \cup {e}
  /\ tcp' = Popped(e)
  /\ UNCHANGED <<reg, status, table, udp, said, untold, faults>>

\* A user message is dispatched.
ReadUser(e) ==
  /\ Reading(e) /\ IsUser(Head(tcp[Rev(e)]))
  /\ tcp' = Popped(e)
  /\ UNCHANGED <<reg, status, table, udpTo, udp, said, untold, faults>>

\* A message by UDP is dispatched, or the network loses it.
UdpArrivesOrNot(e) ==
  /\ \E msg \in udp[e] : udp' = [udp EXCEPT ![e] = @ \ {msg}]
  /\ UNCHANGED <<reg, status, table, udpTo, tcp, said, untold, faults>>

-----------------------------------------------------------------------------
(* Dropping connections. *)

\* Mutant of Cleared: clear_other_senders_and_types is left out.
ClearedNot(E) == table

Cleared(E) == [e \in Link |-> IF e \in E THEN Empty ELSE table[e]]

Longest == CHOOSE l \in {Len(tcp[e]) : e \in Link} :
             \A e \in Link : Len(tcp[e]) <= l

\* drop_connection of the endpoints in E: sockets closed, tables cleared.  Of
\* what they had packed a part may have left already.
Close(E) ==
  /\ status' = [e \in Link |-> IF e \in E THEN "none" ELSE status[e]]
  /\ table' = Cleared(E)
  /\ udpTo' = udpTo \ E
  /\ \E sent \in [E -> 0..Longest] :
       tcp' = [e \in Link |-> IF Rev(e) \in E THEN <<>>
                              ELSE IF e \in E /\ sent[e] < Len(tcp[e])
                              THEN SubSeq(tcp[e], 1, sent[e]) ELSE tcp[e]]
  /\ udp' = [e \in Link |-> IF Rev(e) \in E THEN {} ELSE udp[e]]

\* The other end has been closed: reading or writing fails.
Gone(e) ==
  /\ status[e] # "none" /\ status[Rev(e)] = "none"
  /\ Close({e})
  /\ UNCHANGED <<reg, said, untold, faults>>

\* The network fails, a message cannot be packed, a handler returns an error.
\* What kept an endpoint from being told may be that it is broken.
Break(e) ==
  /\ Fault \/ (e \in untold /\ UNCHANGED faults)
  /\ status[e] # "none"
  /\ Close({e})
  /\ UNCHANGED <<reg, said, untold>>

\* The process ends and a new one starts.
Restart(n) ==
  /\ Fault
  /\ Close(Ends(n))
  /\ reg' = [reg EXCEPT ![n] = Empty]
  /\ UNCHANGED <<said, untold>>

-----------------------------------------------------------------------------
Read(e) == ReadDescription(e) \/ ReadUdpPort(e) \/ ReadUser(e)

Next ==
  \/ \E n \in Node : \/ \E k \in Kind : \E x \in Names(k) : Register(n, k, x)
                     \/ \E ids \in Legal(n), reliable \in BOOLEAN :
                          Send(n, ids, reliable)
                     \/ Restart(n)
  \/ \E e \in Link : \/ Connect(e) \/ Finish(e) \/ Read(e) \/ UdpArrivesOrNot(e)
                     \/ Gone(e) \/ Break(e)

Spec == Init /\ [][Next]_vars

-----------------------------------------------------------------------------
(* Properties. *)

Entry   == [name : TypeName \cup SenderName \cup {NoName}, local : Nat]
UserMsg == [kind : {"user"}, ids : [Kind -> Nat],
            names : [Kind -> TypeName \cup SenderName]]
Message == UserMsg \cup [kind : {"udp"}]
           \cup [kind : {"desc"}, of : Kind, id : Nat, name : TypeName \cup SenderName]

\* Every variable holds what its C++ declaration admits.
TypeOK ==
  /\ reg \in [Node -> [Kind -> Seq(TypeName \cup SenderName)]]
  /\ status \in [Link -> {"none", "COOKIE_PENDING", "CONNECTED"}]
  /\ table \in [Link -> [Kind -> Seq(Entry)]]
  /\ udpTo \subseteq Link
  /\ tcp \in [Link -> Seq(Message)] /\ udp \in [Link -> SUBSET UserMsg]
  /\ said \in [Link -> [Kind -> Seq(TypeName \cup SenderName)]]
  /\ untold \subseteq Link /\ faults \in Nat

UnderWay(e) == udp[e] \cup {tcp[e][i] : i \in DOMAIN tcp[e]}

\* Whenever the other side may read it (a UDP message may overtake everything
\* else, a process may have restarted and numbered anew), a user message is
\* dispatched under the names it was packed with or not at all; only its
\* sender may be unknown.
NeverMisread ==
  \A e \in Link : \A msg \in UnderWay(e) : IsUser(msg) =>
    \A d \in Dispatched(Rev(e), msg) :
      /\ d["type"] = msg.names["type"]
      /\ d["sender"] \in {msg.names["sender"], NoName}

\* A user message sent by TCP, by an endpoint that has not been passed over, is
\* dispatched, with its sender, when it is read: what its numbers mean is in the
\* table or is under way before it.
ReliableUnderstood ==
  \A e \in Link \ untold : \A i \in DOMAIN tcp[e] : IsUser(tcp[e][i]) =>
    \A k \in Kind :
      LET id == tcp[e][i].ids[k]
      IN \/ LocalId(Rev(e), k, id) # 0
         \/ \E j \in 1..(i - 1) : /\ tcp[e][j].kind = "desc"
                                  /\ tcp[e][j].of = k /\ tcp[e][j].id = id

\* The descriptions of each kind that are under way continue the other side's
\* table: in order, none left out, none sent twice, and as long as both ends
\* are there up to the last name registered; but for an endpoint passed over.
DescribedInOrder ==
  \A e \in Link \ untold : status[Rev(e)] # "none" => \A k \in Kind :
    LET done  == Len(table[Rev(e)][k])
        at    == {i \in DOMAIN tcp[e] : tcp[e][i].kind = "desc" /\ tcp[e][i].of = k}
        id(i) == tcp[e][i].id
        told(n) == \E i \in at : id(i) = n
    IN /\ \A i \in at : /\ id(i) \in (done + 1)..Len(said[e][k])
                        /\ tcp[e][i].name = said[e][k][id(i)]
                        /\ \A j \in at : j < i => id(j) < id(i)
                        /\ \A n \in (done + 1)..id(i) : told(n)
       /\ Open(e) => \A n \in (done + 1)..Len(reg[e[1]][k]) : told(n)
=============================================================================
