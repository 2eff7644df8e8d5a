---- MODULE RedundantProofs ----
(* Theorems about Redundant, for any messages, handlers and length of the table. *)
EXTENDS Redundant, FiniteSetTheorems, TLAPS

----------------------------------------------------------------------------
(* The list of the sender.                                                      *)

ListInv == ListOK /\ IsFiniteSet(queued)

\* What a step that leaves the list alone keeps.
LEMMA ListKept ==
    ASSUME ListInv, UNCHANGED <<queued, remaining, numQueued>>,
           packed \subseteq packed', packed' \subseteq Message
    PROVE  ListInv'
BY DEF ListInv, ListOK

\* Enqueue adds an entry that is not in the list yet.
LEMMA ListGrows ==
    ASSUME ListInv, NEW m \in Message \ packed, NEW n \in Nat \ {0}, Enqueue(m, n),
           packed' = packed \cup {m}
    PROVE  ListInv'
<1>1. m \notin queued
  BY DEF ListInv, ListOK
<1>2. queued' = {x \in Message : remaining'[x] > 0} /\ remaining' \in [Message -> Nat]
  BY DEF ListInv, ListOK, Enqueue
<1>3. IsFiniteSet(queued') /\ numQueued' = Cardinality(queued')
  BY <1>1, FS_AddElement DEF ListInv, ListOK, Enqueue
<1> QED
  BY <1>2, <1>3 DEF ListInv, ListOK, Enqueue

\* The number of those that stay is the number of all less that of those that leave.
LEMMA CountRest ==
    ASSUME NEW S, IsFiniteSet(S), NEW R \in SUBSET S
    PROVE  Cardinality(S) - Cardinality(S \ R) = Cardinality(R)
<1>1. IsFiniteSet(R) /\ IsFiniteSet(S \ R)
  BY FS_Subset
<1>2. Cardinality(R \cup (S \ R)) =
        Cardinality(R) + Cardinality(S \ R) - Cardinality(R \cap (S \ R))
  BY <1>1, FS_Union
<1>3. R \cup (S \ R) = S /\ R \cap (S \ R) = {}
  OBVIOUS
<1>4. Cardinality({}) = 0
  BY FS_EmptySet
<1>5. /\ Cardinality(R) \in Nat /\ Cardinality(S \ R) \in Nat
      /\ Cardinality(S) = Cardinality(R) + Cardinality(S \ R) - 0
  BY <1>1, <1>2, <1>3, <1>4, FS_CardinalityType
<1> QED
  BY <1>5

\* mainloop keeps the count right, so that it never throws the list away.
LEMMA ListShrinks ==
    ASSUME ListInv, NEW ready, Mainloop(ready)
    PROVE  ListInv'
<1> DEFINE left == [m \in Message |-> IF m \in ready THEN remaining[m] - 1 ELSE remaining[m]]
           rest == {m \in queued : left[m] > 0}
           count == numQueued - Cardinality(queued \ rest)
<1>1. rest \in SUBSET queued /\ IsFiniteSet(queued) /\ IsFiniteSet(rest)
  <2>1. rest \in SUBSET queued
    OBVIOUS
  <2> QED
    BY <2>1, FS_Subset DEF ListInv
<1>2. count = Cardinality(rest)
  <2> HIDE DEF rest
  <2> QED
    BY <1>1, CountRest DEF ListInv, ListOK
<1>3. (count = 0) = (rest = {})
  <2> HIDE DEF rest, count
  <2> QED
    BY <1>1, <1>2, FS_EmptySet
<1>4. queued' = rest /\ numQueued' = count /\ remaining' = left /\ UNCHANGED packed
  BY <1>3 DEF Mainloop, sent
<1>5. left \in [Message -> Nat] /\ rest = {m \in Message : left[m] > 0}
  BY DEF ListInv, ListOK, Mainloop
<1> QED
  BY <1>1, <1>2, <1>4, <1>5 DEF ListInv, ListOK

----------------------------------------------------------------------------
(* The table of the receiver.                                                   *)

\* Remember shifts the table by one slot.
LEMMA Shifted ==
    ASSUME NEW times \in [1 .. RRLength -> Nat], NEW t \in Nat
    PROVE  /\ Remember(times, t) \in [1 .. RRLength -> Nat]
           /\ Remember(times, t)[RRLength] = t
           /\ \A i \in 2 .. RRLength : Remember(times, t)[i - 1] = times[i]
<1>1. RRLength \in Nat /\ RRLength >= 1
  BY RedundantAssumption
<1>2. times \in Seq(Nat) /\ Len(times) = RRLength /\ times # <<>>
  BY <1>1
<1>3. /\ Tail(times) \in Seq(Nat) /\ Len(Tail(times)) = RRLength - 1
      /\ \A i \in 1 .. RRLength - 1 : Tail(times)[i] = times[i + 1]
  BY <1>1, <1>2
<1> DEFINE rest == Tail(times)
<1> HIDE DEF rest
<1>4. /\ Append(rest, t) \in Seq(Nat) /\ Len(Append(rest, t)) = RRLength
      /\ Append(rest, t)[RRLength] = t
      /\ \A i \in 1 .. RRLength - 1 : Append(rest, t)[i] = rest[i]
  BY <1>1, <1>3 DEF rest
<1>5. Append(rest, t) \in [1 .. RRLength -> Nat]
  <2>1. \A s \in Seq(Nat) : s \in [1 .. Len(s) -> Nat]
    OBVIOUS
  <2> QED
    BY <1>4, <2>1, Zenon
<1> QED
  BY <1>1, <1>3, <1>4, <1>5 DEF Remember, rest

----------------------------------------------------------------------------
(* Types.                                                                       *)

TypeInv == TypeOK /\ ListInv

\* The types that do not concern the list.
SenderTypes == isEnabled \in BOOLEAN /\ defaults \in [num : Nat, spaced : BOOLEAN]
ReceiverTypes ==
    /\ handlers \subseteq Handlers
    /\ listens \in [Type -> Sender \cup {AnySender, Nobody}]
    /\ seen \in [Type -> [1 .. RRLength -> Nat]]
CopyTypes == net \in [Message -> Nat] /\ copies \in [Message -> Nat] /\ lost \in [Message -> Nat]
HistoryTypes ==
    /\ packed \subseteq Message /\ sure \subseteq packed /\ expected \subseteq packed
    /\ log \in [Type -> Seq(Message)] /\ heard \subseteq Message

LEMMA TypeParts ==
    /\ TypeInv <=> ListInv /\ SenderTypes /\ ReceiverTypes /\ CopyTypes /\ HistoryTypes
    /\ TypeInv' <=>
          ListInv' /\ SenderTypes' /\ ReceiverTypes' /\ CopyTypes' /\ HistoryTypes'
BY Zenon DEF TypeInv, ListInv, ListOK, TypeOK, SenderTypes, ReceiverTypes, CopyTypes,
   HistoryTypes

LEMMA TypeInit == Init => TypeInv
<1> SUFFICES ASSUME Init PROVE TypeInv
  OBVIOUS
<1>1. ListInv
  BY FS_EmptySet DEF Init, ListInv, ListOK
<1>2. SenderTypes
  <2>1. isEnabled \in BOOLEAN
    BY Zenon DEF Init
  <2> QED
    BY <2>1 DEF Init, SenderTypes
<1>3. ReceiverTypes /\ CopyTypes /\ HistoryTypes
  BY DEF Init, ReceiverTypes, CopyTypes, HistoryTypes
<1> QED
  BY <1>1, <1>2, <1>3, TypeParts

\* How a message is to be repeated.
LEMMA ChoiceType ==
    ASSUME SenderTypes, NEW choice \in Repetitions \cup {UseDefault}
    PROVE  (IF choice = UseDefault THEN defaults ELSE choice) \in [num : Nat, spaced : BOOLEAN]
BY RedundantAssumption, Zenon DEF SenderTypes

\* pack_message keeps the types.
LEMMA TypePack ==
    ASSUME TypeInv, NEW m \in Message, NEW choice \in Repetitions \cup {UseDefault},
           Pack(m, choice)
    PROVE  TypeInv'
<1> DEFINE r == IF choice = UseDefault THEN defaults ELSE choice
<1>1. r \in [num : Nat, spaced : BOOLEAN]
  BY ChoiceType, TypeParts
<1>2. r.num \in Nat
  BY <1>1
<1> HIDE DEF r
<1>3. /\ m \notin packed /\ packed' = packed \cup {m}
      /\ expected' = IF Reaches(m) /\ Takers(m) # {} THEN expected \cup {m} ELSE expected
      /\ copies' = [copies EXCEPT ![m] = 1 + r.num]
  BY DEF Pack, Packed, r
<1>4. ListInv'
  <2>1. CASE r.spaced /\ r.num > 0
    <3>1. Enqueue(m, r.num)
      BY <2>1 DEF Pack, r
    <3>2. ListInv /\ m \in Message \ packed /\ r.num \in Nat \ {0}
      BY <1>2, <1>3, <2>1, TypeParts
    <3> QED
      BY <1>3, <3>1, <3>2, ListGrows
  <2>2. CASE ~(r.spaced /\ r.num > 0)
    <3>1. UNCHANGED <<queued, remaining, numQueued>>
      BY <2>2 DEF Pack, r
    <3> QED
      BY <1>3, <3>1, ListKept, TypeParts DEF HistoryTypes
  <2> QED
    BY <2>1, <2>2
<1>5. CopyTypes'
  <2>1. \/ net' = [net EXCEPT ![m] = @ + 1]
        \/ net' = [net EXCEPT ![m] = @ + 1 + r.num]
    BY DEF Pack, r
  <2>2. UNCHANGED lost
    BY DEF Pack
  <2> QED
    BY <1>2, <1>3, <2>1, <2>2, TypeParts DEF CopyTypes
<1>6. SenderTypes' /\ ReceiverTypes'
  BY TypeParts DEF Pack, SenderTypes, ReceiverTypes, receiverVars
<1>7. HistoryTypes'
  <2>1. UNCHANGED <<sure, log, heard>>
    BY DEF Pack, received
  <2> QED
    BY <1>3, <2>1, TypeParts DEF HistoryTypes
<1> QED
  BY <1>4, <1>5, <1>6, <1>7, TypeParts

\* What is sent over the list or read keeps the types.
LEMMA TypeReceive ==
    ASSUME TypeInv, NEW m \in Message, Receive(m)
    PROVE  TypeInv'
<1>1. ListInv'
  BY ListKept, TypeParts DEF Receive, senderVars, sent, HistoryTypes
<1>2. SenderTypes' /\ CopyTypes'
  BY TypeParts DEF Receive, senderVars, sent, SenderTypes, CopyTypes
<1>3. m.type \in Type /\ m.time \in Nat
  BY RedundantAssumption
<1>4. ReceiverTypes'
  <2>1. seen[m.type] \in [1 .. RRLength -> Nat]
    BY <1>3, TypeParts DEF ReceiverTypes
  <2>2. Remember(seen[m.type], m.time) \in [1 .. RRLength -> Nat]
    BY <1>3, <2>1, Shifted
  <2> QED
    BY <2>2, TypeParts DEF Receive, ReceiverTypes
<1>5. HistoryTypes'
  <2>1. \A s \in Seq(Message) : Append(s, m) \in Seq(Message)
    OBVIOUS
  <2>2. log \in [Type -> Seq(Message)] /\ heard \subseteq Message
    BY TypeParts DEF HistoryTypes
  <2>3. log' = [log EXCEPT ![m.type] = Append(@, m)] \/ UNCHANGED log
    BY DEF Receive, received
  <2>4. log' \in [Type -> Seq(Message)]
    BY <1>3, <2>1, <2>2, <2>3
  <2>5. heard' \subseteq Message
    BY <2>2 DEF Receive, received
  <2>6. UNCHANGED <<packed, sure, expected>>
    BY DEF Receive, sent
  <2> QED
    BY <2>4, <2>5, <2>6, TypeParts DEF HistoryTypes
<1> QED
  BY <1>1, <1>2, <1>4, <1>5, TypeParts

\* Every step keeps the types.
LEMMA TypeStep == TypeInv /\ [Next]_vars => TypeInv'
<1> SUFFICES ASSUME TypeInv, [Next]_vars PROVE TypeInv'
  OBVIOUS
<1> USE TypeParts
<1>1. ASSUME NEW on \in BOOLEAN, Enable(on) PROVE TypeInv'
  <2>1. isEnabled' \in BOOLEAN
    BY <1>1, Zenon DEF Enable
  <2>2. SenderTypes'
    BY <1>1, <2>1 DEF Enable, SenderTypes
  <2>3. ListInv'
    BY <1>1, ListKept DEF Enable, sent, HistoryTypes
  <2> QED
    BY <1>1, <2>2, <2>3 DEF Enable, receiverVars, sent, received, ReceiverTypes, CopyTypes,
       HistoryTypes
<1>2. ASSUME NEW r \in Repetitions, SetDefaults(r) PROVE TypeInv'
  <2>1. r \in [num : Nat, spaced : BOOLEAN]
    BY RedundantAssumption
  <2>2. SenderTypes'
    BY <1>2, <2>1 DEF SetDefaults, SenderTypes
  <2>3. ListInv'
    BY <1>2, ListKept DEF SetDefaults, sent, HistoryTypes
  <2> QED
    BY <1>2, <2>2, <2>3 DEF SetDefaults, receiverVars, sent, received, ReceiverTypes,
       CopyTypes, HistoryTypes
<1>3. ASSUME NEW ready \in SUBSET queued, Mainloop(ready) PROVE TypeInv'
  <2>1. ListInv'
    BY <1>3, ListShrinks
  <2>2. net' \in [Message -> Nat]
    BY <1>3 DEF Mainloop, CopyTypes
  <2> QED
    BY <1>3, <2>1, <2>2 DEF Mainloop, receiverVars, sent, received, SenderTypes,
       ReceiverTypes, CopyTypes, HistoryTypes
<1>4. ASSUME NEW h \in Handlers, Register(h) PROVE TypeInv'
  <2>1. h.sender \in Sender \cup {AnySender}
    BY RedundantAssumption
  <2>2. ReceiverTypes'
    BY <1>4, <2>1 DEF Register, ReceiverTypes
  <2>3. ListInv'
    BY <1>4, ListKept DEF Register, senderVars, sent, HistoryTypes
  <2> QED
    BY <1>4, <2>2, <2>3 DEF Register, senderVars, sent, received, SenderTypes, CopyTypes,
       HistoryTypes
<1>5. ASSUME NEW h \in Handlers, Unregister(h) PROVE TypeInv'
  <2>1. ListInv'
    BY <1>5, ListKept DEF Unregister, senderVars, HistoryTypes
  <2> QED
    BY <1>5, <2>1 DEF Unregister, senderVars, received, SenderTypes, ReceiverTypes,
       CopyTypes, HistoryTypes
<1>6. ASSUME NEW m \in Message, PackPlain(m) PROVE TypeInv'
  <2>1. ListInv'
    BY <1>6, ListKept DEF PackPlain, Packed, senderVars, HistoryTypes
  <2> QED
    BY <1>6, <2>1 DEF PackPlain, Packed, senderVars, receiverVars, received, SenderTypes,
       ReceiverTypes, CopyTypes, HistoryTypes
<1>7. ASSUME NEW m \in Message, NEW r \in Repetitions \cup {UseDefault}, Pack(m, r)
      PROVE TypeInv'
  BY <1>7, TypePack
<1>8. ASSUME NEW m \in Message, Receive(m) PROVE TypeInv'
  BY <1>8, TypeReceive
<1>9. ASSUME NEW m \in Message, Lose(m) PROVE TypeInv'
  <2>1. ListInv'
    BY <1>9, ListKept DEF Lose, senderVars, sent, HistoryTypes
  <2>2. /\ net[m] > 0
        /\ net' = [net EXCEPT ![m] = @ - 1] /\ lost' = [lost EXCEPT ![m] = @ + 1]
        /\ UNCHANGED <<senderVars, receiverVars, sent, received>>
    BY <1>9, Zenon DEF Lose
  <2>3. CopyTypes'
    BY <2>2 DEF sent, CopyTypes
  <2>4. SenderTypes'
    BY <2>2 DEF senderVars, SenderTypes
  <2>5. ReceiverTypes' /\ HistoryTypes'
    BY <2>2 DEF receiverVars, sent, received, ReceiverTypes, HistoryTypes
  <2> QED
    BY <2>1, <2>3, <2>4, <2>5
<1>10. ASSUME UNCHANGED vars PROVE TypeInv'
  <2>1. ListInv'
    BY <1>10, ListKept DEF vars, senderVars, sent, HistoryTypes
  <2>2. isEnabled' = isEnabled /\ defaults' = defaults
    BY <1>10, Zenon DEF vars, senderVars
  <2>3. SenderTypes'
    BY <2>2, Zenon DEF SenderTypes
  <2>4. ReceiverTypes' /\ CopyTypes'
    BY <1>10 DEF vars, receiverVars, sent, ReceiverTypes, CopyTypes
  <2>5. HistoryTypes'
    BY <1>10 DEF vars, sent, received, HistoryTypes
  <2> QED
    BY <2>1, <2>3, <2>4, <2>5
<1> QED
  BY <1>1, <1>2, <1>3, <1>4, <1>5, <1>6, <1>7, <1>8, <1>9, <1>10, Zenon DEF Next

\* The variables have their types, the list holds what is still to be sent and
\* d_numMessagesQueued is its length, so that mainloop never throws the list away.
THEOREM TypeCorrect == Spec => []TypeOK
<1>1. TypeInv => TypeOK
  BY Zenon DEF TypeInv
<1> QED
  BY TypeInit, TypeStep, <1>1, PTL DEF Spec

----------------------------------------------------------------------------
(* No copies within the window.                                                 *)

\* The table holds the times of the last messages that were let through: without this,
\* a message that is not in the table might still be one that was let through lately.
Window ==
    \A t \in Type : \A i \in 1 .. Len(log[t]) :
        Len(log[t]) - i < RRLength =>
            seen[t][RRLength - (Len(log[t]) - i)] = log[t][i].time

IInv == TypeInv /\ Window /\ DeliveredOnce

LEMMA IInit == Init => IInv
<1>1. Init => Window /\ DeliveredOnce
  BY DEF Init, Window, DeliveredOnce
<1> QED
  BY <1>1, TypeInit DEF IInv

\* A message that is not in the table is none of the last RRLength.
LEMMA NotInWindow ==
    ASSUME TypeInv, Window, NEW m \in Message, ~IsRepeat(m),
           NEW i \in 1 .. Len(log[m.type]), log[m.type][i] = m
    PROVE  Len(log[m.type]) - i >= RRLength
<1> DEFINE n == Len(log[m.type])
           k == RRLength - (n - i)
<1>1. m.type \in Type /\ RRLength \in Nat \ {0}
  BY RedundantAssumption
<1>2. log[m.type] \in Seq(Message) /\ seen[m.type] \in [1 .. RRLength -> Nat]
  BY <1>1, TypeParts DEF HistoryTypes, ReceiverTypes
<1>3. n \in Nat /\ i \in 1 .. n
  BY <1>2
<1> SUFFICES ASSUME n - i < RRLength PROVE FALSE
  BY <1>1, <1>3
<1>4. k \in 1 .. RRLength
  BY <1>1, <1>3
<1>5. seen[m.type][k] = m.time
  BY <1>1 DEF Window
<1> HIDE DEF k
<1>6. m.time \in Range(seen[m.type])
  BY <1>2, <1>4, <1>5 DEF Range
<1> QED
  BY <1>6 DEF IsRepeat

\* A message that is let through takes the last slot and moves the others down.
LEMMA WindowReceive ==
    ASSUME TypeInv, Window, DeliveredOnce, NEW m \in Message, Receive(m),
           Reaches(m), ~IsRepeat(m)
    PROVE  Window' /\ DeliveredOnce'
<1> DEFINE s == log[m.type]
           times == seen[m.type]
<1>1. m.type \in Type /\ m.time \in Nat /\ RRLength \in Nat \ {0}
  BY RedundantAssumption
<1>2. s \in Seq(Message) /\ times \in [1 .. RRLength -> Nat]
  BY <1>1, TypeParts DEF HistoryTypes, ReceiverTypes
<1>3. /\ \A i \in 1 .. Len(s) :
           Len(s) - i < RRLength => times[RRLength - (Len(s) - i)] = s[i].time
      /\ \A i, j \in 1 .. Len(s) : i < j /\ s[i] = s[j] => j - i > RRLength
  BY <1>1 DEF Window, DeliveredOnce
<1>4. \A i \in 1 .. Len(s) : s[i] = m => Len(s) - i >= RRLength
  BY NotInWindow
<1>5. /\ log' = [log EXCEPT ![m.type] = Append(s, m)]
      /\ seen' = [seen EXCEPT ![m.type] = Remember(times, m.time)]
  BY DEF Receive
<1>6. /\ log'[m.type] = Append(s, m) /\ seen'[m.type] = Remember(times, m.time)
      /\ \A t \in Type \ {m.type} : log'[t] = log[t] /\ seen'[t] = seen[t]
  BY <1>1, <1>5, TypeParts DEF HistoryTypes, ReceiverTypes
<1> DEFINE s2 == Append(s, m)
           times2 == Remember(times, m.time)
           n == Len(s)
<1>7. /\ n \in Nat /\ Len(s2) = n + 1 /\ s2[n + 1] = m
      /\ \A i \in 1 .. n : s2[i] = s[i]
  BY <1>2
<1>8. times2[RRLength] = m.time /\ \A k \in 2 .. RRLength : times2[k - 1] = times[k]
  BY <1>1, <1>2, Shifted
<1> HIDE DEF s, times, s2, times2
<1>9. \A i \in 1 .. Len(s2) :
         Len(s2) - i < RRLength => times2[RRLength - (Len(s2) - i)] = s2[i].time
  <2> SUFFICES ASSUME NEW i \in 1 .. n + 1, n + 1 - i < RRLength
               PROVE  times2[RRLength - (n + 1 - i)] = s2[i].time
    BY <1>7
  <2>1. CASE i = n + 1
    <3>1. RRLength - (n + 1 - i) = RRLength
      BY <1>1, <1>7, <2>1
    <3> QED
      BY <1>7, <1>8, <2>1, <3>1
  <2>2. CASE i \in 1 .. n
    <3> DEFINE k == RRLength - (n - i)
    <3>1. k \in 2 .. RRLength /\ n - i < RRLength /\ RRLength - (n + 1 - i) = k - 1
      BY <1>1, <1>7, <2>2
    <3>2. times[k] = s[i].time
      BY <1>3, <2>2, <3>1
    <3> HIDE DEF k
    <3> QED
      BY <1>7, <1>8, <2>2, <3>1, <3>2
  <2> QED
    BY <1>7, <2>1, <2>2
<1>10. \A i, j \in 1 .. Len(s2) : i < j /\ s2[i] = s2[j] => j - i > RRLength
  <2> SUFFICES ASSUME NEW i \in 1 .. n + 1, NEW j \in 1 .. n + 1, i < j, s2[i] = s2[j]
               PROVE  j - i > RRLength
    BY <1>7
  <2>1. i \in 1 .. n /\ s2[i] = s[i]
    BY <1>7
  <2>2. CASE j \in 1 .. n
    BY <1>3, <1>7, <2>1, <2>2
  <2>3. CASE j = n + 1
    <3>1. s[i] = m
      BY <1>7, <2>1, <2>3
    <3> QED
      BY <1>1, <1>4, <1>7, <2>1, <2>3, <3>1
  <2> QED
    BY <1>7, <2>2, <2>3
<1>11. Window'
  <2> SUFFICES ASSUME NEW t \in Type
               PROVE  \A i \in 1 .. Len(log'[t]) : Len(log'[t]) - i < RRLength =>
                          seen'[t][RRLength - (Len(log'[t]) - i)] = log'[t][i].time
    BY DEF Window
  <2>1. CASE t = m.type
    BY <1>6, <1>9, <2>1 DEF s2, times2
  <2>2. CASE t # m.type
    BY ZenonT(30), <1>6, <2>2 DEF Window
  <2> QED
    BY <2>1, <2>2
<1>12. DeliveredOnce'
  <2> SUFFICES ASSUME NEW t \in Type
               PROVE  \A i, j \in 1 .. Len(log'[t]) :
                          i < j /\ log'[t][i] = log'[t][j] => j - i > RRLength
    BY DEF DeliveredOnce
  <2>1. CASE t = m.type
    BY <1>6, <1>10, <2>1 DEF s2
  <2>2. CASE t # m.type
    BY <1>6, <2>2 DEF DeliveredOnce
  <2> QED
    BY <2>1, <2>2
<1> QED
  BY <1>11, <1>12

\* Every step keeps the invariant: only Receive touches the table and the log.
LEMMA IStep == IInv /\ [Next]_vars => IInv'
<1> SUFFICES ASSUME IInv, [Next]_vars PROVE IInv'
  OBVIOUS
<1>1. TypeInv'
  BY TypeStep DEF IInv
<1>2. CASE UNCHANGED <<seen, log>>
  <2>1. Window' /\ DeliveredOnce'
    BY <1>2 DEF IInv, Window, DeliveredOnce
  <2> QED
    BY <1>1, <2>1 DEF IInv
<1>3. ASSUME NEW m \in Message, Receive(m) PROVE IInv'
  <2>1. CASE Reaches(m) /\ ~IsRepeat(m)
    BY <1>1, <1>3, <2>1, WindowReceive DEF IInv
  <2>2. CASE ~(Reaches(m) /\ ~IsRepeat(m))
    BY <1>2, <1>3, <2>2 DEF Receive, received
  <2> QED
    BY <2>1, <2>2
<1>4. ASSUME NEW on \in BOOLEAN, Enable(on) PROVE UNCHANGED <<seen, log>>
  BY <1>4 DEF Enable, receiverVars, received
<1>5. ASSUME NEW r \in Repetitions, SetDefaults(r) PROVE UNCHANGED <<seen, log>>
  BY <1>5 DEF SetDefaults, receiverVars, received
<1>6. ASSUME NEW ready \in SUBSET queued, Mainloop(ready) PROVE UNCHANGED <<seen, log>>
  BY <1>6 DEF Mainloop, receiverVars, received
<1>7. ASSUME NEW h \in Handlers, Register(h) \/ Unregister(h) PROVE UNCHANGED <<seen, log>>
  BY <1>7 DEF Register, Unregister, received
<1>8. ASSUME NEW m \in Message, PackPlain(m) \/ Lose(m) PROVE UNCHANGED <<seen, log>>
  BY <1>8 DEF PackPlain, Lose, receiverVars, received
<1>9. ASSUME NEW m \in Message, NEW r \in Repetitions \cup {UseDefault}, Pack(m, r)
      PROVE UNCHANGED <<seen, log>>
  BY <1>9 DEF Pack, receiverVars, received
<1>10. ASSUME UNCHANGED vars PROVE UNCHANGED <<seen, log>>
  BY <1>10 DEF vars, receiverVars, received
<1> QED
  BY <1>2, <1>3, <1>4, <1>5, <1>6, <1>7, <1>8, <1>9, <1>10, Zenon DEF Next

\* A message is let through again only after VRPN_RR_LENGTH others of its type, for any messages, repetitions, losses and orders of arrival.
THEOREM DeliveredOnceHolds == Spec => []DeliveredOnce
<1>1. IInv => DeliveredOnce
  BY DEF IInv
<1> QED
  BY IInit, IStep, <1>1, PTL DEF Spec
====
