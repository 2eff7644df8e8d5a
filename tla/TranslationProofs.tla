-------------------------- MODULE TranslationProofs --------------------------
(***************************************************************************)
(* Proofs about Translation, for any nodes, links and names.               *)
(*                                                                         *)
(* TypeOK is inductive.  NeverMisread follows from Tables, which says that *)
(* each entry of a table agrees with both nodes, and needs to be           *)
(* inductive what Sessions says of the moments between two connections and *)
(* Queued of the descriptions under way.  DescribedInOrder and             *)
(* ReliableUnderstood follow from OrderInv: what is under way to an end    *)
(* goes on where its table stops, unless the other side passed it over.    *)
(***************************************************************************)
EXTENDS Translation, SequenceTheorems, TLAPS

Symbol == TypeName \cup SenderName

LEMMA RevRev ==
  ASSUME NEW e \in Link
  PROVE  Rev(e) \in Link /\ Rev(Rev(e)) = e /\ Rev(e) # e
BY TranslationAssumption DEF Rev

LEMMA LinkEnds ==
  ASSUME NEW e \in Link
  PROVE  e[1] \in Node /\ e[2] \in Node
BY TranslationAssumption DEF Rev

-----------------------------------------------------------------------------
(* Type correctness. *)

LEMMA EntrySet ==
  ASSUME NEW t \in Seq(Entry), NEW i \in Nat, NEW v \in Entry
  PROVE  SetEntry(t, i, v) \in Seq(Entry)
<1>. DEFINE l == IF i > Len(t) THEN i ELSE Len(t)
<1>1. l \in Nat
  OBVIOUS
<1>2. ASSUME NEW j \in 1..l
      PROVE  (IF j = i THEN v ELSE IF j <= Len(t) THEN t[j] ELSE NoEntry) \in Entry
  <2>1. NoEntry \in Entry
    BY DEF NoEntry, Entry
  <2>2. j <= Len(t) => t[j] \in Entry
    OBVIOUS
  <2>. QED
    BY <2>1, <2>2
<1>3. SetEntry(t, i, v) \in [1..l -> Entry]
  BY <1>2 DEF SetEntry
<1>. QED
  BY <1>1, <1>3

LEMMA LocalSet ==
  ASSUME NEW t \in Seq(Entry), NEW x, NEW i \in Nat
  PROVE  SetLocal(t, x, i) \in Seq(Entry)
<1>1. ASSUME NEW j \in DOMAIN t
      PROVE  [t[j] EXCEPT !.local = i] \in Entry /\ t[j] \in Entry
  <2>1. t[j] \in Entry
    OBVIOUS
  <2>2. \A v \in Entry : [v EXCEPT !.local = i] \in Entry
    BY DEF Entry
  <2>. QED
    BY <2>1, <2>2
<1>2. SetLocal(t, x, i) \in [1..Len(t) -> Entry]
  BY <1>1 DEF SetLocal
<1>. QED
  BY <1>2

LEMMA NamesAreSymbols ==
  ASSUME NEW k \in Kind, NEW x \in Names(k)
  PROVE  x \in Symbol
BY DEF Names, Symbol

LEMMA MessageTypes ==
  /\ UdpPort \in Message
  /\ \A k \in Kind, i \in Nat, x \in Symbol : Desc(k, i, x) \in Message
  /\ \A ids \in [Kind -> Nat], names \in [Kind -> Symbol] :
           User(ids, names) \in UserMsg /\ User(ids, names) \in Message
BY DEF UdpPort, Desc, User, Message, UserMsg, Symbol

LEMMA GreetingType ==
  ASSUME TypeOK, NEW n \in Node
  PROVE  Greeting(n) \in Seq(Message)
<1>. DEFINE all(k) == [i \in DOMAIN reg[n][k] |-> Desc(k, i, reg[n][k][i])]
<1>1. ASSUME NEW k \in Kind
      PROVE  all(k) \in Seq(Message)
  <2>1. reg[n][k] \in Seq(Symbol)
    BY DEF TypeOK, Symbol
  <2>2. \A i \in DOMAIN reg[n][k] : Desc(k, i, reg[n][k][i]) \in Message
    BY <2>1, MessageTypes
  <2>3. all(k) \in [1..Len(reg[n][k]) -> Message]
    BY <2>1, <2>2
  <2>. QED
    BY <2>1, <2>3
<1>2. Descriptions(n) = all("sender") \o all("type")
  BY DEF Descriptions
<1>3. Descriptions(n) \in Seq(Message)
  BY <1>1, <1>2 DEF Kind
<1>. QED
  BY <1>3, MessageTypes DEF Greeting

LEMMA WithoutType ==
  ASSUME NEW g \in Seq(Message), NEW i \in 2..Len(g)
  PROVE  /\ Without(g, i) \in Seq(Message)
         /\ \A j \in DOMAIN Without(g, i) : \E h \in DOMAIN g : Without(g, i)[j] = g[h]
<1>. DEFINE x == SubSeq(g, 1, i - 1)
            y == SubSeq(g, i + 1, Len(g))
<1>1. /\ x \in Seq(Message) /\ Len(x) = i - 1
      /\ \A j \in 1..(i - 1) : x[j] = g[j] /\ j \in DOMAIN g
  OBVIOUS
<1>2. /\ y \in Seq(Message) /\ Len(y) = Len(g) - i
      /\ \A j \in 1..(Len(g) - i) : y[j] = g[j + i] /\ j + i \in DOMAIN g
  OBVIOUS
<1>. HIDE DEF x, y
<1>3. /\ x \o y \in Seq(Message) /\ Len(x \o y) = Len(x) + Len(y)
      /\ \A j \in 1..(Len(x) + Len(y)) : (x \o y)[j] = IF j <= Len(x) THEN x[j] ELSE y[j - Len(x)]
  BY <1>1, <1>2, ConcatProperties
<1>4. ASSUME NEW j \in DOMAIN (x \o y)
      PROVE  \E h \in DOMAIN g : (x \o y)[j] = g[h]
  <2>1. j \in 1..(Len(x) + Len(y))
    BY <1>3, <1>4, LenProperties
  <2>2. CASE j <= Len(x)
    BY <1>1, <1>3, <2>1, <2>2
  <2>3. CASE j > Len(x)
    <3>1. j - Len(x) \in 1..(Len(g) - i) /\ ~(j <= Len(x))
      BY <1>1, <1>2, <2>1, <2>3
    <3>2. (x \o y)[j] = y[j - Len(x)]
      BY <1>3, <2>1, <3>1
    <3>3. y[j - Len(x)] = g[(j - Len(x)) + i] /\ (j - Len(x)) + i \in DOMAIN g
      BY <1>2, <3>1
    <3>. QED
      BY <3>2, <3>3
  <2>. QED
    BY <1>1, <2>1, <2>2, <2>3
<1>5. Without(g, i) = x \o y
  BY DEF Without, x, y
<1>. QED
  BY <1>3, <1>4, <1>5

\* What is packed when an endpoint becomes CONNECTED is from the greeting.
LEMMA FinishGreets ==
  ASSUME TypeOK, NEW e \in Link, Finish(e)
  PROVE  \E g \in Seq(Message) :
           /\ Greet(e, g)
           /\ \A j \in DOMAIN g : \E h \in DOMAIN Greeting(e[1]) : g[j] = Greeting(e[1])[h]
           /\ e \notin untold' => g = Greeting(e[1])
           /\ untold \subseteq untold' /\ untold' \subseteq Link /\ faults' \in Nat
<1>. DEFINE f == Greeting(e[1])
<1>1. f \in Seq(Message)
  BY LinkEnds, GreetingType
<1>2. CASE Greet(e, f) /\ UNCHANGED <<untold, faults>>
  BY <1>1, <1>2 DEF TypeOK
<1>3. CASE /\ Fault /\ untold' = untold \cup {e}
           /\ \E i \in 2..Len(f) : Greet(e, Without(f, i))
  <2>1. PICK i \in 2..Len(f) : Greet(e, Without(f, i))
    BY <1>3
  <2>. HIDE DEF f
  <2>2. /\ Without(f, i) \in Seq(Message)
        /\ \A j \in DOMAIN Without(f, i) : \E h \in DOMAIN f : Without(f, i)[j] = f[h]
    BY <1>1, WithoutType
  <2>3. e \in untold' /\ untold \subseteq untold' /\ untold' \subseteq Link /\ faults' \in Nat
    BY <1>3 DEF Fault, TypeOK
  <2>. HIDE DEF Greet
  <2>. QED
    BY ZenonT(30), <2>1, <2>2, <2>3 DEF f
<1>. QED
  BY <1>2, <1>3 DEF Finish

LEMMA PackType ==
  ASSUME NEW q \in [Link -> Seq(Message)], NEW E, NEW msgs \in Seq(Message)
  PROVE  Pack(q, E, msgs) \in [Link -> Seq(Message)]
BY DEF Pack

\* A description reaches some endpoints; who does not get it is noted.
LEMMA DescribePacks ==
  ASSUME TypeOK, NEW n \in Node, NEW d, NEW q, Describe(n, d, q)
  PROVE  /\ \E E \in SUBSET Ends(n) :
              /\ tcp' = Pack(q, E, <<d>>)
              /\ \A e \in Ends(n) : status[e] = "CONNECTED" /\ e \notin untold' => e \in E
         /\ untold \subseteq untold' /\ untold' \subseteq Link /\ faults' \in Nat
<1>1. CASE tcp' = Pack(q, Ends(n), <<d>>) /\ UNCHANGED <<untold, faults>>
  BY <1>1 DEF TypeOK
<1>2. CASE /\ Fault
           /\ \E missed \in SUBSET {e \in Ends(n) : status[e] = "CONNECTED"} \ {{}} :
                /\ tcp' = Pack(q, Ends(n) \ missed, <<d>>)
                /\ untold' = untold \cup missed
  <2>1. PICK missed \in SUBSET {e \in Ends(n) : status[e] = "CONNECTED"} :
          tcp' = Pack(q, Ends(n) \ missed, <<d>>) /\ untold' = untold \cup missed
    BY <1>2
  <2>2. untold \subseteq untold' /\ untold' \subseteq Link /\ faults' \in Nat
    BY <1>2, <2>1 DEF Fault, TypeOK, Ends
  <2>3. Ends(n) \ missed \in SUBSET Ends(n)
    OBVIOUS
  <2>4. \A e \in Ends(n) : e \notin untold' => e \in Ends(n) \ missed
    BY <2>1
  <2>. QED
    BY ZenonT(30), <2>1, <2>2, <2>3, <2>4
<1>. QED
  BY <1>1, <1>2 DEF Describe

LEMMA DeclareType ==
  ASSUME TypeOK, NEW n \in Node, NEW k \in Kind, NEW x \in Symbol,
         NEW q \in [Link -> Seq(Message)], Declare(n, k, x, q)
  PROVE  /\ reg' \in [Node -> [Kind -> Seq(Symbol)]]
         /\ said' \in [Link -> [Kind -> Seq(Symbol)]]
         /\ tcp' \in [Link -> Seq(Message)]
         /\ untold' \subseteq Link /\ faults' \in Nat
<1>1. reg[n] \in [Kind -> Seq(Symbol)] /\ Append(reg[n][k], x) \in Seq(Symbol)
  BY DEF TypeOK, Symbol
<1>2. reg' \in [Node -> [Kind -> Seq(Symbol)]]
  BY <1>1 DEF TypeOK, Symbol, Declare, Added
<1>3. [reg[n] EXCEPT ![k] = Append(@, x)] \in [Kind -> Seq(Symbol)]
  BY <1>1
<1>4. said' \in [Link -> [Kind -> Seq(Symbol)]]
  BY <1>3 DEF TypeOK, Symbol, Declare, Added
<1>5. NextId(n, k) \in Nat
  BY <1>1 DEF NextId
<1>6. <<Desc(k, NextId(n, k), x)>> \in Seq(Message)
  BY <1>5, MessageTypes
<1>7. /\ \E E : tcp' = Pack(q, E, <<Desc(k, NextId(n, k), x)>>)
      /\ untold' \subseteq Link /\ faults' \in Nat
  BY DescribePacks DEF Declare
<1>8. PICK E : tcp' = Pack(q, E, <<Desc(k, NextId(n, k), x)>>)
  BY <1>7
<1>9. tcp' \in [Link -> Seq(Message)]
  BY <1>6, <1>8, PackType
<1>. QED
  BY <1>2, <1>4, <1>7, <1>9

LEMMA LocalisedType ==
  ASSUME TypeOK, NEW n \in Node, NEW k \in Kind, NEW x
  PROVE  Localised(n, k, x) \in [Link -> [Kind -> Seq(Entry)]]
<1>1. NextId(n, k) \in Nat
  BY DEF TypeOK, NextId
<1>2. ASSUME NEW e \in Link
      PROVE  [table[e] EXCEPT ![k] = SetLocal(@, x, NextId(n, k))] \in [Kind -> Seq(Entry)]
  <2>1. table[e] \in [Kind -> Seq(Entry)]
    BY DEF TypeOK
  <2>2. SetLocal(table[e][k], x, NextId(n, k)) \in Seq(Entry)
    BY <1>1, <2>1, LocalSet
  <2>. QED
    BY <2>1, <2>2
<1>. QED
  BY <1>2 DEF Localised, TypeOK

LEMMA CloseType ==
  ASSUME TypeOK, NEW E \in SUBSET Link, Close(E)
  PROVE  /\ status' \in [Link -> {"none", "COOKIE_PENDING", "CONNECTED"}]
         /\ table' \in [Link -> [Kind -> Seq(Entry)]]
         /\ udpTo' \subseteq Link
         /\ tcp' \in [Link -> Seq(Message)]
         /\ udp' \in [Link -> SUBSET UserMsg]
<1>1. Empty \in [Kind -> Seq(Entry)]
  BY DEF Empty
<1>2. table' \in [Link -> [Kind -> Seq(Entry)]]
  BY <1>1 DEF Close, Cleared, TypeOK
<1>3. tcp' \in [Link -> Seq(Message)]
  <2>1. PICK sent \in [E -> 0..Longest] :
          tcp' = [e \in Link |-> IF Rev(e) \in E THEN <<>>
                                 ELSE IF e \in E /\ sent[e] < Len(tcp[e])
                                 THEN SubSeq(tcp[e], 1, sent[e]) ELSE tcp[e]]
    BY DEF Close
  <2>2. ASSUME NEW e \in E, sent[e] < Len(tcp[e])
        PROVE  SubSeq(tcp[e], 1, sent[e]) \in Seq(Message)
    <3>1. sent[e] \in Nat /\ tcp[e] \in Seq(Message)
      BY DEF TypeOK
    <3>. QED
      BY <3>1, <2>2
  <2>. QED
    BY <2>1, <2>2 DEF TypeOK
<1>. QED
  BY <1>2, <1>3 DEF Close, TypeOK

LEMMA TypeInit == Init => TypeOK
<1>1. Empty \in [Kind -> Seq(Symbol)] /\ Empty \in [Kind -> Seq(Entry)]
  BY DEF Empty
<1>. QED
  BY <1>1 DEF Init, TypeOK, Symbol

LEMMA TypeOfSaid ==
  ASSUME TypeOK
  PROVE  /\ reg \in [Node -> [Kind -> Seq(Symbol)]]
         /\ said \in [Link -> [Kind -> Seq(Symbol)]]
BY DEF TypeOK, Symbol

\* Every step keeps the types.
LEMMA TypeStep == TypeOK /\ [Next]_vars => TypeOK'
<1>. SUFFICES ASSUME TypeOK, [Next]_vars PROVE TypeOK'
  OBVIOUS
<1>1. ASSUME NEW n \in Node, NEW k \in Kind, NEW x \in Names(k), Register(n, k, x)
      PROVE  TypeOK'
  <2>1. tcp \in [Link -> Seq(Message)]
    BY DEF TypeOK
  <2>2. Declare(n, k, x, tcp) /\ x \in Symbol
    BY <1>1, NamesAreSymbols DEF Register
  <2>3. /\ reg' \in [Node -> [Kind -> Seq(Symbol)]]
        /\ said' \in [Link -> [Kind -> Seq(Symbol)]]
        /\ tcp' \in [Link -> Seq(Message)]
        /\ untold' \subseteq Link /\ faults' \in Nat
    BY <2>1, <2>2, DeclareType
  <2>4. table' \in [Link -> [Kind -> Seq(Entry)]]
    BY <1>1, LocalisedType DEF Register
  <2>. QED
    BY <1>1, <2>3, <2>4 DEF Register, TypeOK, Symbol
<1>2. ASSUME NEW n \in Node, NEW ids \in Legal(n), NEW reliable \in BOOLEAN,
             Send(n, ids, reliable)
      PROVE  TypeOK'
  <2>1. \A k \in Kind : DOMAIN reg[n][k] \subseteq Nat
    BY TypeOfSaid
  <2>2. ids \in [Kind -> Nat]
    BY <2>1 DEF Legal
  <2>. DEFINE msg == User(ids, [k \in Kind |-> reg[n][k][ids[k]]])
  <2>3. msg \in UserMsg /\ <<msg>> \in Seq(Message)
    <3>1. [k \in Kind |-> reg[n][k][ids[k]]] \in [Kind -> Symbol]
      BY TypeOfSaid DEF Legal
    <3>. QED
      BY <2>2, <3>1, MessageTypes
  <2>4. tcp \in [Link -> Seq(Message)]
    BY DEF TypeOK
  <2>5. PICK E : tcp' = Pack(tcp, E, <<msg>>)
    BY <1>2 DEF Send
  <2>6. tcp' \in [Link -> Seq(Message)]
    BY <2>3, <2>4, <2>5, PackType
  <2>7. udp' \in [Link -> SUBSET UserMsg]
    BY <1>2, <2>3 DEF Send, TypeOK
  <2>. QED
    BY <1>2, <2>6, <2>7 DEF Send, TypeOK
<1>3. ASSUME NEW n \in Node, Restart(n)
      PROVE  TypeOK'
  <2>1. Ends(n) \in SUBSET Link
    BY DEF Ends
  <2>2. Empty \in [Kind -> Seq(Symbol)]
    BY DEF Empty
  <2>3. faults' \in Nat
    BY <1>3 DEF Restart, Fault, TypeOK
  <2>4. Close(Ends(n))
    BY <1>3 DEF Restart
  <2>. QED
    BY <1>3, <2>1, <2>2, <2>3, <2>4, CloseType DEF Restart, TypeOK, Symbol
<1>4. ASSUME NEW e \in Link, Connect(e)
      PROVE  TypeOK'
  <2>1. Empty \in [Kind -> Seq(Symbol)]
    BY DEF Empty
  <2>. QED
    BY <1>4, <2>1 DEF Connect, TypeOK, Symbol
<1>5. ASSUME NEW e \in Link, Finish(e)
      PROVE  TypeOK'
  <2>1. PICK g \in Seq(Message) :
          Greet(e, g) /\ untold' \subseteq Link /\ faults' \in Nat
    BY <1>5, FinishGreets
  <2>2. tcp[e] \o g \in Seq(Message)
    BY DEF TypeOK
  <2>3. tcp' \in [Link -> Seq(Message)]
    BY <2>1, <2>2 DEF Greet, TypeOK
  <2>. QED
    BY <2>1, <2>3, LinkEnds DEF Greet, TypeOK
<1>6. ASSUME NEW e \in Link, Reading(e)
      PROVE  Popped(e) \in [Link -> Seq(Message)] /\ Head(tcp[Rev(e)]) \in Message
  BY SMTT(30), <1>6, RevRev DEF Reading, Popped, TypeOK
<1>7. ASSUME NEW e \in Link, ReadDescription(e)
      PROVE  TypeOK'
  <2>. DEFINE d == Head(tcp[Rev(e)])
              n == e[1]
              entered(t, i) == [t EXCEPT ![e][d.of] =
                                  SetEntry(@, d.id, [name |-> d.name, local |-> i])]
  <2>1. Popped(e) \in [Link -> Seq(Message)] /\ d \in Message /\ d.kind = "desc"
    BY ZenonT(30), <1>6, <1>7 DEF ReadDescription
  <2>2. n \in Node /\ d.of \in Kind /\ d.id \in Nat /\ d.name \in Symbol
    BY <2>1, LinkEnds DEF Message, UserMsg, Symbol
  <2>3. ASSUME NEW t \in [Link -> [Kind -> Seq(Entry)]], NEW i \in Nat
        PROVE  entered(t, i) \in [Link -> [Kind -> Seq(Entry)]]
    <3>1. [name |-> d.name, local |-> i] \in Entry
      BY <2>2 DEF Entry, Symbol
    <3>2. t[e][d.of] \in Seq(Entry)
      BY <2>2
    <3>3. SetEntry(t[e][d.of], d.id, [name |-> d.name, local |-> i]) \in Seq(Entry)
      BY <2>2, <3>1, <3>2, EntrySet
    <3>. QED
      BY <2>2, <3>3
  <2>4. table \in [Link -> [Kind -> Seq(Entry)]]
    BY DEF TypeOK
  <2>5. CASE Known(n, d.of, d.name) /\ table' = entered(table, IdOf(n, d.of, d.name))
             /\ tcp' = Popped(e) /\ UNCHANGED <<reg, said, untold, faults>>
    <3>1. IdOf(n, d.of, d.name) \in DOMAIN reg[n][d.of]
      BY ZenonT(30), <2>5 DEF Known, IdOf
    <3>2. IdOf(n, d.of, d.name) \in Nat
      BY <2>2, <3>1, TypeOfSaid
    <3>3. table' \in [Link -> [Kind -> Seq(Entry)]]
      BY SMTT(30), <2>3, <2>4, <2>5, <3>2
    <3>. QED
      BY ZenonT(30), <1>7, <2>1, <2>5, <3>3 DEF ReadDescription, TypeOK
  <2>6. CASE Declare(n, d.of, d.name, Popped(e))
             /\ table' = entered(Localised(n, d.of, d.name), NextId(n, d.of))
    <3>1. /\ reg' \in [Node -> [Kind -> Seq(Symbol)]]
          /\ said' \in [Link -> [Kind -> Seq(Symbol)]]
          /\ tcp' \in [Link -> Seq(Message)]
          /\ untold' \subseteq Link /\ faults' \in Nat
      BY <2>1, <2>2, <2>6, DeclareType
    <3>2. NextId(n, d.of) \in Nat
      BY <2>2, TypeOfSaid DEF NextId
    <3>3. table' \in [Link -> [Kind -> Seq(Entry)]]
      BY <2>2, <2>3, <2>6, <3>2, LocalisedType
    <3>. QED
      BY ZenonT(30), <1>7, <3>1, <3>3 DEF ReadDescription, TypeOK, Symbol
  <2>. QED
    BY ZenonT(30), <1>7, <2>5, <2>6 DEF ReadDescription
<1>8. ASSUME NEW e \in Link, ReadUdpPort(e) \/ ReadUser(e)
      PROVE  TypeOK'
  BY <1>6, <1>8 DEF ReadUdpPort, ReadUser, TypeOK
<1>9. ASSUME NEW e \in Link, UdpArrivesOrNot(e)
      PROVE  TypeOK'
  BY <1>9 DEF UdpArrivesOrNot, TypeOK
<1>10. ASSUME NEW e \in Link, Gone(e) \/ Break(e)
       PROVE  TypeOK'
  <2>1. faults' \in Nat
    BY <1>10 DEF Gone, Break, Fault, TypeOK
  <2>2. {e} \in SUBSET Link /\ Close({e})
    BY <1>10 DEF Gone, Break
  <2>. QED
    BY <1>10, <2>1, <2>2, CloseType DEF Gone, Break, TypeOK
<1>11. CASE UNCHANGED vars
  BY <1>11 DEF vars, TypeOK
<1>. QED
  BY <1>1, <1>2, <1>3, <1>4, <1>5, <1>7, <1>8, <1>9, <1>10, <1>11 DEF Next, Read

\* Every variable keeps its type, for any nodes, links and names.
THEOREM TypeCorrect == Spec => []TypeOK
BY TypeInit, TypeStep, PTL DEF Spec

-----------------------------------------------------------------------------
(* Names keep their meaning.                                                *)

In(s, i, x) == i \in DOMAIN s /\ s[i] = x

\* Entry t at i agrees with the names r of the reader and s of the other side.
Right(r, s, i, t) == t = NoEntry \/ (In(r, t.local, t.name) /\ In(s, i, t.name))

\* The numbers in message m stand for its names in s.
Truthful(s, m) ==
  /\ m.kind = "desc" => In(s[m.of], m.id, m.name)
  /\ m.kind = "user" => \A k \in Kind : In(s[k], m.ids[k], m.names[k])

Tables ==
  \A e \in Link, k \in Kind : \A i \in DOMAIN table[e][k] :
    Right(reg[e[1]][k], said[Rev(e)][k], i, table[e][k][i])

Queued ==
  \A e \in Link : /\ \A j \in DOMAIN tcp[e] : Truthful(said[e], tcp[e][j])
                  /\ \A m \in udp[e] : Truthful(said[e], m)

Blank(e) == \A k \in Kind : DOMAIN table[e][k] = {}

\* Nothing is left of the last connection when a new one is opened, and no
\* message travels before its sender is CONNECTED.
Sessions ==
  \A e \in Link :
    /\ status[e] = "CONNECTED" => said[e] = reg[e[1]]
    /\ status[e] = "none" => Blank(e) /\ tcp[Rev(e)] = <<>> /\ udp[Rev(e)] = {}
    /\ status[e] = "COOKIE_PENDING" =>
         Blank(Rev(e)) /\ tcp[e] = <<>> /\ udp[e] = {}

Inv == TypeOK /\ Tables /\ Queued /\ Sessions

LEMMA InvInit == Init => Inv
<1>. SUFFICES ASSUME Init PROVE Inv
  OBVIOUS
<1>1. \A e \in Link, k \in Kind : DOMAIN table[e][k] = {}
  BY DEF Init, Empty
<1>. QED
  BY <1>1, TypeInit, RevRev DEF Init, Inv, Tables, Queued, Sessions, Blank

LEMMA EntryRight ==
  ASSUME NEW t \in Seq(Entry), NEW r, NEW s, NEW i \in Nat, NEW v,
         \A j \in DOMAIN t : Right(r, s, j, t[j]),
         Right(r, s, i, v)
  PROVE  \A j \in DOMAIN SetEntry(t, i, v) : Right(r, s, j, SetEntry(t, i, v)[j])
<1>1. \A j \in Nat : Right(r, s, j, NoEntry)
  BY DEF Right
<1>. QED
  BY <1>1 DEF SetEntry

LEMMA LocalRight ==
  ASSUME NEW t \in Seq(Entry), NEW r, NEW s, NEW i, NEW x \in Symbol,
         \A j \in DOMAIN t : Right(r, s, j, t[j]),
         In(r, i, x)
  PROVE  \A j \in DOMAIN SetLocal(t, x, i) : Right(r, s, j, SetLocal(t, x, i)[j])
<1>. SUFFICES ASSUME NEW j \in DOMAIN t
              PROVE  Right(r, s, j, SetLocal(t, x, i)[j])
  BY DEF SetLocal
<1>1. CASE t[j].name = x /\ \A h \in 1..(j - 1) : t[h].name # x
  <2>1. t[j] # NoEntry
    BY <1>1, TranslationAssumption DEF NoEntry, Symbol
  <2>2. In(s, j, x)
    BY <1>1, <2>1 DEF Right
  <2>3. t[j] \in Entry
    OBVIOUS
  <2>4. [t[j] EXCEPT !.local = i].local = i /\ [t[j] EXCEPT !.local = i].name = x
    BY <1>1, <2>3 DEF Entry
  <2>5. SetLocal(t, x, i)[j] = [t[j] EXCEPT !.local = i]
    BY <1>1 DEF SetLocal
  <2>. QED
    BY <2>2, <2>4, <2>5 DEF Right
<1>2. CASE ~(t[j].name = x /\ \A h \in 1..(j - 1) : t[h].name # x)
  <2>1. SetLocal(t, x, i)[j] = t[j]
    BY <1>2 DEF SetLocal
  <2>. QED
    BY <2>1
<1>. QED
  BY <1>1, <1>2

\* Numbering one more name changes the meaning of no number.
LEMMA AddedKeeps ==
  ASSUME TypeOK, Sessions, NEW n \in Node, NEW k \in Kind, NEW x \in Symbol,
         Added(n, k, x)
  PROVE  /\ \A m \in Node, h \in Kind : \A i, y :
              In(reg[m][h], i, y) => In(reg'[m][h], i, y)
         /\ \A e \in Link, h \in Kind : \A i, y :
              In(said[e][h], i, y) => In(said'[e][h], i, y)
         /\ In(reg'[n][k], NextId(n, k), x)
         /\ \A e \in Ends(n) : status[e] = "CONNECTED" => said'[e] = reg'[n]
         /\ \A e \in Link : e \notin Ends(n) => said'[e] = said[e]
         /\ \A m \in Node : m # n => reg'[m] = reg[m]
<1>1. reg[n] \in [Kind -> Seq(Symbol)] /\ reg[n][k] \in Seq(Symbol)
  BY TypeOfSaid
<1>2. reg' = [reg EXCEPT ![n] = [reg[n] EXCEPT ![k] = Append(@, x)]]
  BY TypeOfSaid DEF Added
<1>3. \A h \in Kind : reg'[n][h] = IF h = k THEN Append(reg[n][k], x) ELSE reg[n][h]
  BY <1>1, <1>2, TypeOfSaid
<1>4. \A m \in Node : m # n => reg'[m] = reg[m]
  BY <1>2, TypeOfSaid
<1>5. \A i, y : In(reg[n][k], i, y) => In(Append(reg[n][k], x), i, y)
  BY <1>1 DEF In
<1>6. In(Append(reg[n][k], x), NextId(n, k), x)
  BY <1>1 DEF In, NextId
<1>7. \A e \in Ends(n) : status[e] = "CONNECTED" =>
        said'[e] = reg'[n] /\ said[e] = reg[n]
  BY <1>2, TypeOfSaid DEF Added, Ends, Sessions
<1>8. \A e \in Link : ~(e \in Ends(n) /\ status[e] = "CONNECTED") => said'[e] = said[e]
  BY DEF Added, Ends
<1>9. \A m \in Node, h \in Kind : \A i, y :
        In(reg[m][h], i, y) => In(reg'[m][h], i, y)
  BY <1>3, <1>4, <1>5
<1>10. \A e \in Link, h \in Kind : \A i, y :
         In(said[e][h], i, y) => In(said'[e][h], i, y)
  <2>. SUFFICES ASSUME NEW e \in Link, NEW h \in Kind, NEW i, NEW y, In(said[e][h], i, y)
                PROVE  In(said'[e][h], i, y)
    OBVIOUS
  <2>. QED
    BY <1>7, <1>8, <1>9
<1>. QED
  BY <1>3, <1>4, <1>6, <1>7, <1>8, <1>9, <1>10

LEMMA TruthKeeps ==
  ASSUME NEW s, NEW t, NEW m \in Message, Truthful(s, m),
         \A k \in Kind : \A i, y : In(s[k], i, y) => In(t[k], i, y)
  PROVE  Truthful(t, m)
BY DEF Truthful, Message, UserMsg

\* What is packed is truthful when what was under way and the new messages are.
LEMMA PackKeeps ==
  ASSUME NEW q \in [Link -> Seq(Message)], NEW E, NEW msgs \in Seq(Message), NEW s,
         \A e \in Link : \A j \in DOMAIN q[e] : Truthful(s[e], q[e][j]),
         \A e \in E \cap Link : Open(e) => \A j \in DOMAIN msgs : Truthful(s[e], msgs[j])
  PROVE  \A e \in Link : \A j \in DOMAIN Pack(q, E, msgs)[e] :
           Truthful(s[e], Pack(q, E, msgs)[e][j])
<1>. SUFFICES ASSUME NEW e \in Link, NEW j \in DOMAIN Pack(q, E, msgs)[e]
              PROVE  Truthful(s[e], Pack(q, E, msgs)[e][j])
  OBVIOUS
<1>1. CASE e \in E /\ Open(e)
  <2>1. Pack(q, E, msgs)[e] = q[e] \o msgs /\ q[e] \in Seq(Message)
    BY <1>1 DEF Pack
  <2>2. j \in 1..(Len(q[e]) + Len(msgs))
    BY <2>1
  <2>3. CASE j <= Len(q[e])
    BY <2>1, <2>2, <2>3
  <2>4. CASE j > Len(q[e])
    <3>1. (q[e] \o msgs)[j] = msgs[j - Len(q[e])] /\ j - Len(q[e]) \in DOMAIN msgs
      BY <2>1, <2>2, <2>4
    <3>. QED
      BY <1>1, <2>1, <3>1
  <2>. QED
    BY <2>1, <2>2, <2>3, <2>4
<1>2. CASE ~(e \in E /\ Open(e))
  BY <1>2 DEF Pack
<1>. QED
  BY <1>1, <1>2

\* The queues after a description has been packed.
LEMMA DeclareKeeps ==
  ASSUME Inv, NEW n \in Node, NEW k \in Kind, NEW x \in Symbol,
         NEW q \in [Link -> Seq(Message)], Declare(n, k, x, q),
         \A e \in Link : \A j \in DOMAIN q[e] : Truthful(said[e], q[e][j])
  PROVE  /\ \A e \in Link : \A j \in DOMAIN tcp'[e] : Truthful(said'[e], tcp'[e][j])
         /\ \A e \in Link : ~Open(e) => tcp'[e] = q[e]
<1>. USE DEF Inv
<1>. DEFINE d == Desc(k, NextId(n, k), x)
<1>1. Added(n, k, x) /\ Describe(n, d, q)
  BY DEF Declare
<1>. PICK E \in SUBSET Ends(n) : tcp' = Pack(q, E, <<d>>)
  <2>. HIDE DEF d
  <2>. QED
    BY <1>1, DescribePacks
<1>2. \A e \in Link : \A j \in DOMAIN q[e] : Truthful(said'[e], q[e][j])
  <2>. SUFFICES ASSUME NEW e \in Link, NEW j \in DOMAIN q[e]
                PROVE  Truthful(said'[e], q[e][j])
    OBVIOUS
  <2>1. q[e][j] \in Message /\ Truthful(said[e], q[e][j])
    OBVIOUS
  <2>2. \A h \in Kind : \A i, y : In(said[e][h], i, y) => In(said'[e][h], i, y)
    BY <1>1, AddedKeeps
  <2>. QED
    BY <2>1, <2>2, TruthKeeps
<1>3. \A e \in E \cap Link : Open(e) =>
        \A j \in DOMAIN <<d>> : Truthful(said'[e], <<d>>[j])
  <2>. SUFFICES ASSUME NEW e \in Ends(n), Open(e)
                PROVE  Truthful(said'[e], d)
    OBVIOUS
  <2>1. said'[e] = reg'[n] /\ In(reg'[n][k], NextId(n, k), x)
    BY <1>1, AddedKeeps DEF Open
  <2>. QED
    BY <2>1 DEF Truthful, Desc
<1>4. <<d>> \in Seq(Message)
  <2>1. NextId(n, k) \in Nat
    BY TypeOfSaid DEF NextId
  <2>. QED
    BY <2>1, MessageTypes
<1>5. \A e \in Link : \A j \in DOMAIN tcp'[e] : Truthful(said'[e], tcp'[e][j])
  <2>. HIDE DEF Inv, d
  <2>. QED
    BY <1>1, <1>2, <1>3, <1>4, PackKeeps
<1>. QED
  BY <1>1, <1>5 DEF Pack

\* The tables after the name has been numbered and entered by addLocalID.
LEMMA LocalisedKeeps ==
  ASSUME Inv, NEW n \in Node, NEW k \in Kind, NEW x \in Symbol, Added(n, k, x)
  PROVE  \A e \in Link, h \in Kind :
           /\ DOMAIN Localised(n, k, x)[e][h] = DOMAIN table[e][h]
           /\ \A i \in DOMAIN Localised(n, k, x)[e][h] :
                Right(reg'[e[1]][h], said'[Rev(e)][h], i, Localised(n, k, x)[e][h][i])
<1>. SUFFICES ASSUME NEW e \in Link, NEW h \in Kind
              PROVE  /\ DOMAIN Localised(n, k, x)[e][h] = DOMAIN table[e][h]
                     /\ \A i \in DOMAIN Localised(n, k, x)[e][h] :
                          Right(reg'[e[1]][h], said'[Rev(e)][h], i,
                                Localised(n, k, x)[e][h][i])
  OBVIOUS
<1>. DEFINE r == reg'[e[1]][h]
            s == said'[Rev(e)][h]
<1>1. table[e] \in [Kind -> Seq(Entry)] /\ table[e][h] \in Seq(Entry)
  BY DEF Inv, TypeOK
<1>2. \A i \in DOMAIN table[e][h] : Right(r, s, i, table[e][h][i])
  <2>1. \A i, y : In(reg[e[1]][h], i, y) => In(r, i, y)
    BY AddedKeeps, LinkEnds DEF Inv
  <2>2. \A i, y : In(said[Rev(e)][h], i, y) => In(s, i, y)
    BY AddedKeeps, RevRev DEF Inv
  <2>. QED
    BY <2>1, <2>2 DEF Inv, Tables, Right
<1>3. CASE e[1] = n /\ h = k
  <2>1. Localised(n, k, x)[e][h] = SetLocal(table[e][h], x, NextId(n, k))
    BY <1>1, <1>3 DEF Localised
  <2>2. In(r, NextId(n, k), x)
    BY <1>3, AddedKeeps DEF Inv
  <2>3. \A i \in DOMAIN SetLocal(table[e][h], x, NextId(n, k)) :
          Right(r, s, i, SetLocal(table[e][h], x, NextId(n, k))[i])
    <3>. HIDE DEF r, s
    <3>. QED
      BY <1>1, <1>2, <2>2, LocalRight
  <2>4. DOMAIN SetLocal(table[e][h], x, NextId(n, k)) = DOMAIN table[e][h]
    BY DEF SetLocal
  <2>. QED
    BY <2>1, <2>3, <2>4
<1>4. CASE ~(e[1] = n /\ h = k)
  <2>1. Localised(n, k, x)[e][h] = table[e][h]
    BY <1>1, <1>4 DEF Localised
  <2>. QED
    BY <1>2, <2>1
<1>. QED
  BY <1>3, <1>4

\* What is left under way of what was packed before.
LEMMA CloseCuts ==
  ASSUME TypeOK, NEW E \in SUBSET Link, Close(E), NEW e \in Link
  PROVE  /\ tcp'[e] \in Seq(Message)
         /\ tcp[e] = <<>> \/ Rev(e) \in E => tcp'[e] = <<>>
         /\ \A j \in DOMAIN tcp'[e] : j \in DOMAIN tcp[e] /\ tcp'[e][j] = tcp[e][j]
         /\ e \notin E /\ Rev(e) \notin E => tcp'[e] = tcp[e]
<1>1. PICK sent \in [E -> 0..Longest] :
        tcp' = [l \in Link |-> IF Rev(l) \in E THEN <<>>
                               ELSE IF l \in E /\ sent[l] < Len(tcp[l])
                               THEN SubSeq(tcp[l], 1, sent[l]) ELSE tcp[l]]
  BY DEF Close
<1>2. tcp[e] \in Seq(Message)
  BY DEF TypeOK
<1>3. CASE Rev(e) \in E
  BY <1>1, <1>3
<1>4. CASE Rev(e) \notin E /\ e \in E /\ sent[e] < Len(tcp[e])
  <2>1. tcp'[e] = SubSeq(tcp[e], 1, sent[e]) /\ sent[e] \in Nat
    BY <1>1, <1>4
  <2>. QED
    BY <1>2, <1>4, <2>1
<1>5. CASE Rev(e) \notin E /\ ~(e \in E /\ sent[e] < Len(tcp[e]))
  BY <1>1, <1>2, <1>5
<1>. QED
  BY <1>3, <1>4, <1>5

\* Dropping connections leaves less under way and forgets whole tables.
LEMMA CloseKeeps ==
  ASSUME Inv, NEW E \in SUBSET Link, Close(E), UNCHANGED said,
         \A e \in Link : e \notin E => reg'[e[1]] = reg[e[1]]
  PROVE  Tables' /\ Queued' /\ Sessions'
<1>. USE DEF Inv
<1>1. \A e \in Link : /\ e \in E => Blank(e)'
                      /\ e \notin E => table'[e] = table[e]
  BY DEF Close, Cleared, Blank, Empty
<1>2. Tables'
  <2>. SUFFICES ASSUME NEW e \in Link, NEW k \in Kind, NEW i \in DOMAIN table'[e][k]
                PROVE  Right(reg'[e[1]][k], said'[Rev(e)][k], i, table'[e][k][i])
    BY DEF Tables
  <2>1. e \notin E /\ table'[e] = table[e]
    BY <1>1 DEF Blank
  <2>. QED
    BY <2>1 DEF Tables
<1>3. \A e \in Link : /\ tcp'[e] \in Seq(Message)
                      /\ tcp[e] = <<>> \/ Rev(e) \in E => tcp'[e] = <<>>
                      /\ \A j \in DOMAIN tcp'[e] : j \in DOMAIN tcp[e] /\ tcp'[e][j] = tcp[e][j]
  BY CloseCuts
<1>4. \A e \in Link : udp'[e] = IF Rev(e) \in E THEN {} ELSE udp[e]
  BY DEF Close
<1>5. Queued'
  BY <1>3, <1>4 DEF Queued
<1>6. \A e \in Link : status'[e] = IF e \in E THEN "none" ELSE status[e]
  BY DEF Close
<1>7. Sessions'
  <2>. SUFFICES ASSUME NEW e \in Link
                PROVE  /\ status'[e] = "CONNECTED" => said'[e] = reg'[e[1]]
                       /\ status'[e] = "none" => Blank(e)' /\ tcp'[Rev(e)] = <<>>
                                                 /\ udp'[Rev(e)] = {}
                       /\ status'[e] = "COOKIE_PENDING" =>
                            Blank(Rev(e))' /\ tcp'[e] = <<>> /\ udp'[e] = {}
    BY DEF Sessions
  <2>1. status'[e] = "CONNECTED" => said'[e] = reg'[e[1]]
    BY <1>6 DEF Sessions
  <2>2. CASE status'[e] = "none"
    <3>1. CASE e \in E
      BY <1>1, <1>3, <1>4, <2>2, <3>1, RevRev
    <3>2. CASE e \notin E
      <4>1. status[e] = "none"
        BY <1>6, <2>2, <3>2
      <4>2. Blank(e) /\ tcp[Rev(e)] = <<>> /\ udp[Rev(e)] = {}
        BY <4>1 DEF Sessions
      <4>. QED
        BY <1>1, <1>3, <1>4, <2>2, <3>2, <4>2, RevRev DEF Blank
    <3>. QED
      BY <3>1, <3>2
  <2>3. CASE status'[e] = "COOKIE_PENDING"
    <3>1. e \notin E /\ status[e] = "COOKIE_PENDING"
      BY <1>6, <2>3
    <3>2. Blank(Rev(e)) /\ tcp[e] = <<>> /\ udp[e] = {}
      BY <3>1 DEF Sessions
    <3>3. Blank(Rev(e))'
      BY <1>1, <3>2, RevRev DEF Blank
    <3>. QED
      BY <1>3, <1>4, <2>3, <3>2, <3>3
  <2>. QED
    BY <2>1, <2>2, <2>3
<1>. QED
  BY <1>2, <1>5, <1>7

LEMMA PoppedKeeps ==
  ASSUME Inv, NEW e \in Link, Reading(e)
  PROVE  /\ Popped(e) \in [Link -> Seq(Message)]
         /\ Head(tcp[Rev(e)]) \in Message
         /\ Truthful(said[Rev(e)], Head(tcp[Rev(e)]))
         /\ \A l \in Link : tcp[l] = <<>> => Popped(e)[l] = <<>>
         /\ \A l \in Link : \A j \in DOMAIN Popped(e)[l] : Truthful(said[l], Popped(e)[l][j])
<1>. USE DEF Inv
<1>1. tcp[Rev(e)] \in Seq(Message) /\ tcp[Rev(e)] # <<>> /\ Rev(e) \in Link
  BY RevRev DEF Reading, TypeOK
<1>2. Popped(e) \in [Link -> Seq(Message)]
  BY <1>1 DEF Popped, TypeOK
<1>3. /\ Head(tcp[Rev(e)]) \in Message
      /\ Truthful(said[Rev(e)], Head(tcp[Rev(e)]))
  <2>1. 1 \in DOMAIN tcp[Rev(e)] /\ Head(tcp[Rev(e)]) = tcp[Rev(e)][1]
    BY <1>1
  <2>. QED
    BY <1>1, <2>1 DEF Queued
<1>4. ASSUME NEW l \in Link
      PROVE  /\ tcp[l] = <<>> => Popped(e)[l] = <<>>
             /\ \A j \in DOMAIN Popped(e)[l] : Truthful(said[l], Popped(e)[l][j])
  <2>1. CASE l = Rev(e)
    <3>1. Popped(e)[l] = Tail(tcp[l])
      BY <2>1 DEF Popped, TypeOK
    <3>2. \A j \in DOMAIN Tail(tcp[l]) : j + 1 \in DOMAIN tcp[l] /\ Tail(tcp[l])[j] = tcp[l][j + 1]
      BY <1>1, <2>1
    <3>. QED
      BY <1>1, <2>1, <3>1, <3>2 DEF Queued
  <2>2. CASE l # Rev(e)
    BY <2>2 DEF Popped, TypeOK, Queued
  <2>. QED
    BY <2>1, <2>2
<1>. QED
  BY <1>2, <1>3, <1>4

LEMMA FinishKeeps ==
  ASSUME Inv, NEW e \in Link, Finish(e)
  PROVE  Tables' /\ Queued' /\ Sessions'
<1>. USE DEF Inv
<1>1. /\ status[e] = "COOKIE_PENDING"
      /\ Blank(Rev(e)) /\ tcp[e] = <<>> /\ udp[e] = {}
  BY DEF Finish, Greet, Sessions
<1>. PICK g \in Seq(Message) :
       /\ Greet(e, g)
       /\ \A j \in DOMAIN g : \E h \in DOMAIN Greeting(e[1]) : g[j] = Greeting(e[1])[h]
  BY FinishGreets
<1>2. said'[e] = reg[e[1]] /\ \A l \in Link : l # e => said'[l] = said[l]
  BY DEF Greet, TypeOK
<1>3. /\ status'[e] = "CONNECTED"
      /\ \A l \in Link : l # e => status'[l] = status[l]
  BY DEF Greet, TypeOK
<1>4. UNCHANGED <<reg, table, udp>>
  BY DEF Greet
<1>5. /\ status[Rev(e)] = "none" => tcp' = tcp
      /\ status[Rev(e)] # "none" => tcp' = [tcp EXCEPT ![e] = @ \o g]
  BY DEF Greet
<1>6. Tables'
  <2>. SUFFICES ASSUME NEW l \in Link, NEW k \in Kind, NEW i \in DOMAIN table[l][k]
                PROVE  Right(reg[l[1]][k], said'[Rev(l)][k], i, table[l][k][i])
    BY <1>4 DEF Tables
  <2>1. Rev(l) # e
    BY <1>1, RevRev DEF Blank
  <2>. QED
    BY <1>2, <2>1, RevRev DEF Tables
<1>7. \A j \in DOMAIN Greeting(e[1]) : Truthful(reg[e[1]], Greeting(e[1])[j])
  <2>. DEFINE n == e[1]
              all(k) == [i \in DOMAIN reg[n][k] |-> Desc(k, i, reg[n][k][i])]
  <2>1. n \in Node /\ \A k \in Kind : reg[n][k] \in Seq(Symbol)
    BY LinkEnds, TypeOfSaid
  <2>2. ASSUME NEW k \in Kind
        PROVE  /\ all(k) \in Seq(Message)
               /\ \A j \in DOMAIN all(k) : Truthful(reg[n], all(k)[j])
    <3>1. \A j \in DOMAIN reg[n][k] : /\ Desc(k, j, reg[n][k][j]) \in Message
                                      /\ Truthful(reg[n], Desc(k, j, reg[n][k][j]))
      <4>. SUFFICES ASSUME NEW j \in DOMAIN reg[n][k]
                    PROVE  /\ Desc(k, j, reg[n][k][j]) \in Message
                           /\ Truthful(reg[n], Desc(k, j, reg[n][k][j]))
        OBVIOUS
      <4>1. j \in Nat /\ reg[n][k][j] \in Symbol
        BY <2>1
      <4>2. Desc(k, j, reg[n][k][j]) \in Message
        BY <4>1, MessageTypes
      <4>3. Truthful(reg[n], Desc(k, j, reg[n][k][j]))
        BY DEF Truthful, Desc, In
      <4>. QED
        BY <4>2, <4>3
    <3>2. all(k) \in [1..Len(reg[n][k]) -> Message]
      BY <2>1, <3>1
    <3>. QED
      BY <2>1, <3>1, <3>2
  <2>3. ASSUME NEW s \in Seq(Message), NEW t \in Seq(Message),
               \A j \in DOMAIN s : Truthful(reg[n], s[j]),
               \A j \in DOMAIN t : Truthful(reg[n], t[j])
        PROVE  \A j \in DOMAIN (s \o t) : Truthful(reg[n], (s \o t)[j])
    <3>. SUFFICES ASSUME NEW j \in DOMAIN (s \o t)
                  PROVE  Truthful(reg[n], (s \o t)[j])
      OBVIOUS
    <3>1. CASE j <= Len(s)
      BY <2>3, <3>1
    <3>2. CASE j > Len(s)
      <4>1. (s \o t)[j] = t[j - Len(s)] /\ j - Len(s) \in DOMAIN t
        BY <3>2
      <4>. QED
        BY <2>3, <4>1
    <3>. QED
      BY <3>1, <3>2
  <2>4. /\ Descriptions(n) \in Seq(Message)
        /\ \A j \in DOMAIN Descriptions(n) : Truthful(reg[n], Descriptions(n)[j])
    <3>1. Descriptions(n) = all("sender") \o all("type") /\ {"sender", "type"} \subseteq Kind
      BY DEF Descriptions, Kind
    <3>. HIDE DEF all, n
    <3>. QED
      BY <2>2, <2>3, <3>1
  <2>5. /\ <<UdpPort>> \in Seq(Message)
        /\ \A j \in DOMAIN <<UdpPort>> : Truthful(reg[n], <<UdpPort>>[j])
    BY MessageTypes DEF Truthful, UdpPort
  <2>. HIDE DEF n
  <2>. QED
    BY <2>3, <2>4, <2>5 DEF Greeting, n
<1>8. tcp'[e] = <<>> \/ tcp'[e] = g
  <2>1. <<>> \o g = g
    OBVIOUS
  <2>. QED
    BY <1>1, <1>5, <2>1 DEF TypeOK
<1>9. \A l \in Link : l # e => tcp'[l] = tcp[l]
  BY <1>5 DEF TypeOK
<1>10. Queued'
  <2>. SUFFICES ASSUME NEW l \in Link
                PROVE  /\ \A j \in DOMAIN tcp'[l] : Truthful(said'[l], tcp'[l][j])
                       /\ \A m \in udp[l] : Truthful(said'[l], m)
    BY <1>4 DEF Queued
  <2>1. CASE l = e
    BY <1>1, <1>2, <1>7, <1>8, <2>1
  <2>2. CASE l # e
    BY <1>2, <1>9, <2>2 DEF Queued
  <2>. QED
    BY <2>1, <2>2
<1>11. Sessions'
  <2>. SUFFICES ASSUME NEW l \in Link
                PROVE  /\ status'[l] = "CONNECTED" => said'[l] = reg[l[1]]
                       /\ status'[l] = "none" => Blank(l) /\ tcp'[Rev(l)] = <<>>
                                                 /\ udp[Rev(l)] = {}
                       /\ status'[l] = "COOKIE_PENDING" =>
                            Blank(Rev(l)) /\ tcp'[l] = <<>> /\ udp[l] = {}
    BY <1>4 DEF Sessions, Blank
  <2>1. CASE l = e
    BY <1>2, <1>3, <2>1
  <2>2. CASE l # e
    <3>1. status'[l] = "CONNECTED" => said'[l] = reg[l[1]]
      BY <1>2, <1>3, <2>2 DEF Sessions
    <3>2. ASSUME status'[l] = "none"
          PROVE  Blank(l) /\ tcp'[Rev(l)] = <<>> /\ udp[Rev(l)] = {}
      <4>1. Blank(l) /\ tcp[Rev(l)] = <<>> /\ udp[Rev(l)] = {} /\ status[l] = "none"
        BY <1>3, <2>2, <3>2 DEF Sessions
      <4>2. Rev(l) = e => l = Rev(e)
        BY RevRev
      <4>. QED
        BY <1>5, <1>9, <4>1, <4>2, RevRev
    <3>3. status'[l] = "COOKIE_PENDING" => Blank(Rev(l)) /\ tcp'[l] = <<>> /\ udp[l] = {}
      BY <1>3, <1>9, <2>2 DEF Sessions
    <3>. QED
      BY <3>1, <3>2, <3>3
  <2>. QED
    BY <2>1, <2>2
<1>. QED
  BY <1>6, <1>10, <1>11

LEMMA UdpKeeps ==
  ASSUME Inv, NEW n \in Node, NEW k \in Kind, NEW x \in Symbol, Added(n, k, x)
  PROVE  \A e \in Link : \A m \in udp[e] : Truthful(said'[e], m)
<1>. SUFFICES ASSUME NEW e \in Link, NEW m \in udp[e]
              PROVE  Truthful(said'[e], m)
  OBVIOUS
<1>1. Truthful(said[e], m) /\ m \in Message
  BY DEF Inv, Queued, TypeOK, Message
<1>2. \A h \in Kind : \A i, y : In(said[e][h], i, y) => In(said'[e][h], i, y)
  BY AddedKeeps DEF Inv
<1>. QED
  BY <1>1, <1>2, TruthKeeps

LEMMA SaidKeeps ==
  ASSUME Inv, NEW n \in Node, NEW k \in Kind, NEW x \in Symbol, Added(n, k, x)
  PROVE  \A e \in Link : status[e] = "CONNECTED" => said'[e] = reg'[e[1]]
<1>. SUFFICES ASSUME NEW e \in Link, status[e] = "CONNECTED"
              PROVE  said'[e] = reg'[e[1]]
  OBVIOUS
<1>1. CASE e \in Ends(n)
  BY <1>1, AddedKeeps DEF Ends, Inv
<1>2. CASE e \notin Ends(n)
  <2>1. said'[e] = said[e] /\ e[1] # n /\ e[1] \in Node
    BY <1>2, AddedKeeps, LinkEnds DEF Ends, Inv
  <2>2. reg'[e[1]] = reg[e[1]]
    BY <2>1, AddedKeeps DEF Inv
  <2>. QED
    BY <2>1, <2>2 DEF Inv, Sessions
<1>. QED
  BY <1>1, <1>2

LEMMA DeclareStep ==
  ASSUME Inv, NEW n \in Node, NEW k \in Kind, NEW x \in Symbol,
         NEW q \in [Link -> Seq(Message)], Declare(n, k, x, q),
         \A e \in Link : \A j \in DOMAIN q[e] : Truthful(said[e], q[e][j]),
         \A e \in Link : tcp[e] = <<>> => q[e] = <<>>,
         table' = Localised(n, k, x), UNCHANGED <<status, udp>>
  PROVE  Tables' /\ Queued' /\ Sessions'
<1>1. Added(n, k, x)
  BY DEF Declare
<1>2. \A e \in Link, h \in Kind : DOMAIN table'[e][h] = DOMAIN table[e][h]
  BY <1>1, LocalisedKeeps
<1>3. Tables'
  <2>. SUFFICES ASSUME NEW e \in Link, NEW h \in Kind, NEW i \in DOMAIN table'[e][h]
                PROVE  Right(reg'[e[1]][h], said'[Rev(e)][h], i, table'[e][h][i])
    BY DEF Tables
  <2>. QED
    BY <1>1, LocalisedKeeps
<1>4. Queued'
  <2>. SUFFICES ASSUME NEW e \in Link
                PROVE  /\ \A j \in DOMAIN tcp'[e] : Truthful(said'[e], tcp'[e][j])
                       /\ \A m \in udp[e] : Truthful(said'[e], m)
    BY DEF Queued
  <2>1. \A j \in DOMAIN tcp'[e] : Truthful(said'[e], tcp'[e][j])
    BY DeclareKeeps
  <2>2. \A m \in udp[e] : Truthful(said'[e], m)
    BY <1>1, UdpKeeps
  <2>. QED
    BY <2>1, <2>2
<1>5. Sessions'
  <2>. SUFFICES ASSUME NEW e \in Link
                PROVE  /\ status[e] = "CONNECTED" => said'[e] = reg'[e[1]]
                       /\ status[e] = "none" => Blank(e)' /\ tcp'[Rev(e)] = <<>>
                                                 /\ udp[Rev(e)] = {}
                       /\ status[e] = "COOKIE_PENDING" =>
                            Blank(Rev(e))' /\ tcp'[e] = <<>> /\ udp[e] = {}
    BY DEF Sessions
  <2>1. status[e] = "CONNECTED" => said'[e] = reg'[e[1]]
    BY <1>1, SaidKeeps
  <2>2. \A l \in Link : ~Open(l) /\ tcp[l] = <<>> => tcp'[l] = <<>>
    BY DeclareKeeps
  <2>3. ASSUME status[e] = "none"
        PROVE  Blank(e)' /\ tcp'[Rev(e)] = <<>> /\ udp[Rev(e)] = {}
    <3>1. Blank(e) /\ tcp[Rev(e)] = <<>> /\ udp[Rev(e)] = {} /\ ~Open(Rev(e))
      BY <2>3, RevRev DEF Inv, Sessions, Open
    <3>. QED
      BY <1>2, <2>2, <3>1, RevRev DEF Blank
  <2>4. ASSUME status[e] = "COOKIE_PENDING"
        PROVE  Blank(Rev(e))' /\ tcp'[e] = <<>> /\ udp[e] = {}
    <3>1. Blank(Rev(e)) /\ tcp[e] = <<>> /\ udp[e] = {} /\ ~Open(e)
      BY <2>4 DEF Inv, Sessions, Open
    <3>. QED
      BY <1>2, <2>2, <3>1, RevRev DEF Blank
  <2>. QED
    BY <2>1, <2>3, <2>4
<1>. QED
  BY <1>3, <1>4, <1>5

LEMMA SendKeeps ==
  ASSUME Inv, NEW n \in Node, NEW ids \in Legal(n), NEW reliable \in BOOLEAN,
         Send(n, ids, reliable)
  PROVE  Tables' /\ Queued' /\ Sessions'
<1>. DEFINE byUdp == IF reliable THEN {} ELSE udpTo
            msg == User(ids, [k \in Kind |-> reg[n][k][ids[k]]])
<1>1. /\ tcp' = Pack(tcp, Ends(n) \ byUdp, <<msg>>)
      /\ udp' = [e \in Link |-> IF e \in Ends(n) \cap byUdp /\ Open(e)
                                THEN udp[e] \cup {msg} ELSE udp[e]]
      /\ UNCHANGED <<reg, status, table, said>>
  BY DEF Send
<1>2. msg \in Message
  <2>1. \A k \in Kind : DOMAIN reg[n][k] \subseteq Nat
    BY TypeOfSaid DEF Inv
  <2>2. ids \in [Kind -> Nat] /\ [k \in Kind |-> reg[n][k][ids[k]]] \in [Kind -> Symbol]
    BY <2>1, TypeOfSaid DEF Legal, Inv
  <2>. QED
    BY <2>2, MessageTypes
<1>3. ASSUME NEW e \in Ends(n), Open(e)
      PROVE  Truthful(said[e], msg)
  <2>1. said[e] = reg[n]
    BY <1>3 DEF Inv, Sessions, Open, Ends
  <2>. QED
    BY <2>1 DEF Truthful, User, In, Legal
<1>. HIDE DEF msg
<1>4. \A e \in Link : \A j \in DOMAIN tcp'[e] : Truthful(said[e], tcp'[e][j])
  <2>1. tcp \in [Link -> Seq(Message)] /\ <<msg>> \in Seq(Message)
    BY <1>2 DEF Inv, TypeOK
  <2>2. \A e \in Link : \A j \in DOMAIN tcp[e] : Truthful(said[e], tcp[e][j])
    BY DEF Inv, Queued
  <2>3. \A e \in (Ends(n) \ byUdp) \cap Link : Open(e) =>
          \A j \in DOMAIN <<msg>> : Truthful(said[e], <<msg>>[j])
    BY <1>3
  <2>. QED
    BY <1>1, <2>1, <2>2, <2>3, PackKeeps
<1>5. Queued'
  BY <1>1, <1>3, <1>4 DEF Queued, Inv
<1>6. \A e \in Link : ~Open(e) => tcp'[e] = tcp[e] /\ udp'[e] = udp[e]
  BY <1>1 DEF Pack
<1>7. Sessions'
  <2>. SUFFICES ASSUME NEW e \in Link
                PROVE  /\ status[e] = "CONNECTED" => said[e] = reg[e[1]]
                       /\ status[e] = "none" => Blank(e) /\ tcp'[Rev(e)] = <<>>
                                                 /\ udp'[Rev(e)] = {}
                       /\ status[e] = "COOKIE_PENDING" =>
                            Blank(Rev(e)) /\ tcp'[e] = <<>> /\ udp'[e] = {}
    BY <1>1 DEF Sessions, Blank
  <2>. QED
    BY <1>6, RevRev DEF Inv, Sessions, Open
<1>. QED
  BY <1>1, <1>5, <1>7 DEF Inv, Tables

LEMMA ConnectKeeps ==
  ASSUME Inv, NEW e \in Link, Connect(e)
  PROVE  Tables' /\ Queued' /\ Sessions'
<1>1. /\ status[e] = "none" /\ status[Rev(e)] = "none"
      /\ UNCHANGED <<reg, table, tcp, udp>>
  BY DEF Connect
<1>2. ASSUME NEW l \in {e, Rev(e)}
      PROVE  Blank(l) /\ tcp[l] = <<>> /\ udp[l] = {}
  BY <1>1, <1>2, RevRev DEF Inv, Sessions
<1>3. ASSUME NEW l \in Link, l # e, l # Rev(e)
      PROVE  said'[l] = said[l] /\ status'[l] = status[l]
  BY <1>3 DEF Connect, Inv, TypeOK
<1>4. \A l \in Link : Rev(l) \in {e, Rev(e)} => l \in {e, Rev(e)}
  BY RevRev
<1>5. Tables'
  <2>. SUFFICES ASSUME NEW l \in Link, NEW k \in Kind, NEW i \in DOMAIN table[l][k]
                PROVE  Right(reg[l[1]][k], said'[Rev(l)][k], i, table[l][k][i])
    BY <1>1 DEF Tables
  <2>1. l \notin {e, Rev(e)}
    BY <1>2 DEF Blank
  <2>. QED
    BY <1>3, <1>4, <2>1, RevRev DEF Inv, Tables
<1>6. Queued'
  BY <1>1, <1>2, <1>3 DEF Inv, Queued
<1>7. status'[e] = "COOKIE_PENDING" /\ status'[Rev(e)] = "COOKIE_PENDING"
  BY RevRev DEF Connect, Inv, TypeOK
<1>8. Sessions'
  <2>. SUFFICES ASSUME NEW l \in Link
                PROVE  /\ status'[l] = "CONNECTED" => said'[l] = reg[l[1]]
                       /\ status'[l] = "none" => Blank(l) /\ tcp[Rev(l)] = <<>>
                                                 /\ udp[Rev(l)] = {}
                       /\ status'[l] = "COOKIE_PENDING" =>
                            Blank(Rev(l)) /\ tcp[l] = <<>> /\ udp[l] = {}
    BY <1>1 DEF Sessions, Blank
  <2>1. CASE l \in {e, Rev(e)}
    BY <1>2, <1>7, <2>1, RevRev
  <2>2. CASE l \notin {e, Rev(e)}
    BY SMTT(30), <1>3, <2>2 DEF Inv, Sessions
  <2>. QED
    BY <2>1, <2>2
<1>. QED
  BY <1>5, <1>6, <1>8

LEMMA ReadKeeps ==
  ASSUME Inv, NEW e \in Link, ReadDescription(e)
  PROVE  Tables' /\ Queued' /\ Sessions'
<1>. DEFINE d == Head(tcp[Rev(e)])
            n == e[1]
            k == d.of
            entry(i) == [name |-> d.name, local |-> i]
            entered(t, i) == [t EXCEPT ![e][k] = SetEntry(@, d.id, entry(i))]
<1>1. Reading(e) /\ d.kind = "desc" /\ status[e] = "CONNECTED" /\ Rev(e) \in Link
  BY ZenonT(30), RevRev DEF ReadDescription, Reading
<1>2. /\ Popped(e) \in [Link -> Seq(Message)]
      /\ d \in Message /\ Truthful(said[Rev(e)], d)
      /\ \A l \in Link : tcp[l] = <<>> => Popped(e)[l] = <<>>
      /\ \A l \in Link : \A j \in DOMAIN Popped(e)[l] : Truthful(said[l], Popped(e)[l][j])
  BY <1>1, PoppedKeeps
<1>3. n \in Node /\ k \in Kind /\ d.id \in Nat /\ d.name \in Symbol
  BY <1>1, <1>2, LinkEnds DEF Message, UserMsg, Symbol
<1>4. In(said[Rev(e)][k], d.id, d.name)
  BY <1>1, <1>2 DEF Truthful
<1>. HIDE DEF d, n, k
\* The table that is written to belongs to a connection that carries messages.
<1>5. status[Rev(e)] # "COOKIE_PENDING"
  BY <1>1, RevRev DEF Inv, Sessions, Reading
<1>6. ASSUME NEW t \in [Link -> [Kind -> Seq(Entry)]], NEW i \in Nat,
             NEW r, NEW s,
             \A j \in DOMAIN t[e][k] : Right(r, s, j, t[e][k][j]),
             In(r, i, d.name), In(s, d.id, d.name)
      PROVE  \A j \in DOMAIN entered(t, i)[e][k] : Right(r, s, j, entered(t, i)[e][k][j])
  <2>1. entered(t, i)[e][k] = SetEntry(t[e][k], d.id, entry(i)) /\ t[e][k] \in Seq(Entry)
    BY <1>3
  <2>2. Right(r, s, d.id, entry(i))
    BY <1>6 DEF Right
  <2>. HIDE DEF entered, entry
  <2>. QED
    BY <1>3, <1>6, <2>1, <2>2, EntryRight
<1>7. ASSUME NEW t \in [Link -> [Kind -> Seq(Entry)]], NEW i,
             NEW l \in Link, NEW h \in Kind, ~(l = e /\ h = k)
      PROVE  entered(t, i)[l][h] = t[l][h]
  BY <1>3, <1>7
<1>. HIDE DEF entered, entry
<1>8. CASE /\ Known(n, k, d.name)
           /\ table' = entered(table, IdOf(n, k, d.name))
           /\ tcp' = Popped(e)
           /\ UNCHANGED <<reg, said>>
  <2>. DEFINE i == IdOf(n, k, d.name)
  <2>1. In(reg[n][k], i, d.name)
    BY <1>8 DEF Known, IdOf, In
  <2>2. i \in Nat
    BY <1>3, <2>1, TypeOfSaid DEF In, Inv
  <2>. HIDE DEF i
  <2>3. table \in [Link -> [Kind -> Seq(Entry)]]
    BY DEF Inv, TypeOK
  <2>4. table' = entered(table, i)
    BY <1>8 DEF i
  <2>5. Tables'
    <3>. SUFFICES ASSUME NEW l \in Link, NEW h \in Kind, NEW j \in DOMAIN table'[l][h]
                  PROVE  Right(reg[l[1]][h], said[Rev(l)][h], j, table'[l][h][j])
      BY <1>8 DEF Tables
    <3>1. \A m \in DOMAIN table[l][h] :
            Right(reg[l[1]][h], said[Rev(l)][h], m, table[l][h][m])
      BY DEF Inv, Tables
    <3>2. CASE l = e /\ h = k
      BY <1>4, <1>6, <2>1, <2>2, <2>3, <2>4, <3>1, <3>2 DEF n
    <3>3. CASE ~(l = e /\ h = k)
      BY <1>7, <2>3, <2>4, <3>1, <3>3
    <3>. QED
      BY <3>2, <3>3
  <2>6. UNCHANGED <<status, udp>>
    BY DEF ReadDescription
  <2>7. Queued'
    BY <1>2, <1>8, <2>6 DEF Inv, Queued
  <2>8. \A l \in Link : l # e => (Blank(l) => Blank(l)')
    <3>. SUFFICES ASSUME NEW l \in Link, l # e, NEW h \in Kind
                  PROVE  table'[l][h] = table[l][h]
      BY DEF Blank
    <3>. QED
      BY <1>7, <2>3, <2>4
  <2>9. Sessions'
    <3>. SUFFICES ASSUME NEW l \in Link
                  PROVE  /\ status[l] = "CONNECTED" => said[l] = reg[l[1]]
                         /\ status[l] = "none" => Blank(l)' /\ tcp'[Rev(l)] = <<>>
                                                   /\ udp[Rev(l)] = {}
                         /\ status[l] = "COOKIE_PENDING" =>
                              Blank(Rev(l))' /\ tcp'[l] = <<>> /\ udp[l] = {}
      BY <1>8, <2>6 DEF Sessions
    <3>1. status[l] = "none" => l # e
      BY <1>1
    <3>2. status[l] = "COOKIE_PENDING" => Rev(l) # e
      BY <1>5, RevRev
    <3>. QED
      BY <1>2, <1>8, <2>8, <3>1, <3>2, RevRev DEF Inv, Sessions
  <2>. QED
    BY <2>5, <2>7, <2>9
<1>9. CASE /\ Declare(n, k, d.name, Popped(e))
           /\ table' = entered(Localised(n, k, d.name), NextId(n, k))
  <2>. DEFINE x == d.name
              t == Localised(n, k, x)
              i == NextId(n, k)
  <2>1. Added(n, k, x)
    BY <1>9 DEF Declare
  <2>2. t \in [Link -> [Kind -> Seq(Entry)]] /\ i \in Nat
    BY <1>3, LocalisedType, TypeOfSaid DEF Inv, NextId
  <2>3. \A l \in Link, h \in Kind :
          /\ DOMAIN t[l][h] = DOMAIN table[l][h]
          /\ \A j \in DOMAIN t[l][h] :
               Right(reg'[l[1]][h], said'[Rev(l)][h], j, t[l][h][j])
    BY <1>3, <2>1, LocalisedKeeps
  <2>4. In(reg'[n][k], i, x)
    BY <1>3, <2>1, AddedKeeps DEF Inv
  <2>5. In(said'[Rev(e)][k], d.id, x)
    BY <1>1, <1>3, <1>4, <2>1, AddedKeeps DEF Inv
  <2>6. table' = entered(t, i)
    BY <1>9
  <2>. HIDE DEF t, i, x
  <2>7. Tables'
    <3>. SUFFICES ASSUME NEW l \in Link, NEW h \in Kind, NEW j \in DOMAIN table'[l][h]
                  PROVE  Right(reg'[l[1]][h], said'[Rev(l)][h], j, table'[l][h][j])
      BY DEF Tables
    <3>1. CASE l = e /\ h = k
      BY <1>6, <2>2, <2>3, <2>4, <2>5, <2>6, <3>1 DEF n, x
    <3>2. CASE ~(l = e /\ h = k)
      <4>1. table'[l][h] = t[l][h]
        BY <1>7, <2>2, <2>6, <3>2
      <4>. QED
        BY <2>3, <4>1
    <3>. QED
      BY <3>1, <3>2
  <2>8. UNCHANGED <<status, udp>>
    BY DEF ReadDescription
  <2>9. Queued'
    <3>. SUFFICES ASSUME NEW l \in Link
                  PROVE  /\ \A j \in DOMAIN tcp'[l] : Truthful(said'[l], tcp'[l][j])
                         /\ \A m \in udp[l] : Truthful(said'[l], m)
      BY <2>8 DEF Queued
    <3>1. \A j \in DOMAIN tcp'[l] : Truthful(said'[l], tcp'[l][j])
      BY <1>2, <1>3, <1>9, DeclareKeeps
    <3>2. \A m \in udp[l] : Truthful(said'[l], m)
      BY <1>3, <2>1, UdpKeeps DEF x
    <3>. QED
      BY <3>1, <3>2
  <2>10. \A l \in Link : l # e => (Blank(l) => Blank(l)')
    <3>. SUFFICES ASSUME NEW l \in Link, l # e, NEW h \in Kind
                  PROVE  DOMAIN table'[l][h] = DOMAIN table[l][h]
      BY DEF Blank
    <3>1. table'[l][h] = t[l][h]
      BY <1>7, <2>2, <2>6
    <3>. QED
      BY <2>3, <3>1
  <2>11. \A l \in Link : ~Open(l) /\ tcp[l] = <<>> => tcp'[l] = <<>>
    BY <1>2, <1>3, <1>9, DeclareKeeps
  <2>12. Sessions'
    <3>. SUFFICES ASSUME NEW l \in Link
                  PROVE  /\ status[l] = "CONNECTED" => said'[l] = reg'[l[1]]
                         /\ status[l] = "none" => Blank(l)' /\ tcp'[Rev(l)] = <<>>
                                                   /\ udp[Rev(l)] = {}
                         /\ status[l] = "COOKIE_PENDING" =>
                              Blank(Rev(l))' /\ tcp'[l] = <<>> /\ udp[l] = {}
      BY <2>8 DEF Sessions
    <3>1. status[l] = "CONNECTED" => said'[l] = reg'[l[1]]
      BY <1>3, <2>1, SaidKeeps DEF x
    <3>2. status[l] = "none" => l # e /\ ~Open(Rev(l))
      BY <1>1, RevRev DEF Open
    <3>3. status[l] = "COOKIE_PENDING" => Rev(l) # e /\ ~Open(l)
      BY <1>5, RevRev DEF Open
    <3>. QED
      BY <2>10, <2>11, <3>1, <3>2, <3>3, RevRev DEF Inv, Sessions
  <2>. QED
    BY <2>7, <2>9, <2>12
<1>. QED
  BY ZenonT(30), <1>8, <1>9 DEF ReadDescription, d, n, k, entered, entry

\* Every step keeps the invariant.
LEMMA InvStep == Inv /\ [Next]_vars => Inv'
<1>. SUFFICES ASSUME Inv, [Next]_vars PROVE Tables' /\ Queued' /\ Sessions'
  BY TypeStep DEF Inv
<1>1. ASSUME NEW n \in Node, NEW k \in Kind, NEW x \in Names(k), Register(n, k, x)
      PROVE  Tables' /\ Queued' /\ Sessions'
  <2>1. x \in Symbol /\ Declare(n, k, x, tcp) /\ Added(n, k, x)
    BY <1>1, NamesAreSymbols DEF Register, Declare
  <2>2. /\ table' = Localised(n, k, x)
        /\ UNCHANGED <<status, udp>>
    BY <1>1 DEF Register
  <2>3. tcp \in [Link -> Seq(Message)]
    BY DEF Inv, TypeOK
  <2>4. \A e \in Link : \A j \in DOMAIN tcp[e] : Truthful(said[e], tcp[e][j])
    BY DEF Inv, Queued
  <2>. QED
    BY <2>1, <2>2, <2>3, <2>4, DeclareStep
<1>2. ASSUME NEW n \in Node, NEW ids \in Legal(n), NEW reliable \in BOOLEAN,
             Send(n, ids, reliable)
      PROVE  Tables' /\ Queued' /\ Sessions'
  BY <1>2, SendKeeps
<1>3. ASSUME NEW n \in Node, Restart(n)
      PROVE  Tables' /\ Queued' /\ Sessions'
  <2>1. Ends(n) \in SUBSET Link /\ Close(Ends(n)) /\ UNCHANGED said
    BY <1>3 DEF Restart, Ends
  <2>2. \A e \in Link : e \notin Ends(n) => reg'[e[1]] = reg[e[1]]
    BY <1>3, LinkEnds DEF Restart, Ends, Inv, TypeOK
  <2>. QED
    BY <2>1, <2>2, CloseKeeps
<1>4. ASSUME NEW e \in Link, Connect(e)
      PROVE  Tables' /\ Queued' /\ Sessions'
  BY <1>4, ConnectKeeps
<1>5. ASSUME NEW e \in Link, Finish(e)
      PROVE  Tables' /\ Queued' /\ Sessions'
  BY <1>5, FinishKeeps
<1>6. ASSUME NEW e \in Link, ReadDescription(e)
      PROVE  Tables' /\ Queued' /\ Sessions'
  BY <1>6, ReadKeeps
<1>7. ASSUME NEW e \in Link, ReadUdpPort(e) \/ ReadUser(e)
      PROVE  Tables' /\ Queued' /\ Sessions'
  <2>1. Reading(e) /\ tcp' = Popped(e) /\ UNCHANGED <<reg, status, table, udp, said>>
    BY <1>7 DEF ReadUdpPort, ReadUser
  <2>. QED
    BY <2>1, PoppedKeeps, RevRev DEF Inv, Tables, Queued, Sessions, Blank
<1>8. ASSUME NEW e \in Link, UdpArrivesOrNot(e)
      PROVE  Tables' /\ Queued' /\ Sessions'
  <2>1. /\ \A l \in Link : udp'[l] \subseteq udp[l]
        /\ UNCHANGED <<reg, status, table, tcp, said>>
    BY <1>8 DEF UdpArrivesOrNot, Inv, TypeOK
  <2>. QED
    BY <2>1, RevRev DEF Inv, Tables, Queued, Sessions, Blank
<1>9. ASSUME NEW e \in Link, Gone(e) \/ Break(e)
      PROVE  Tables' /\ Queued' /\ Sessions'
  <2>1. {e} \in SUBSET Link /\ Close({e}) /\ UNCHANGED <<reg, said>>
    BY <1>9 DEF Gone, Break
  <2>. QED
    BY <2>1, CloseKeeps
<1>10. CASE UNCHANGED vars
  BY <1>10 DEF vars, Inv, Tables, Queued, Sessions, Blank
<1>. QED
  BY <1>1, <1>2, <1>3, <1>4, <1>5, <1>6, <1>7, <1>8, <1>9, <1>10 DEF Next, Read

LEMMA InvIsEnough == Inv => NeverMisread
<1>. SUFFICES ASSUME Inv, NEW e \in Link, NEW msg \in UnderWay(e), IsUser(msg),
                     NEW d \in Dispatched(Rev(e), msg)
              PROVE  /\ d["type"] = msg.names["type"]
                     /\ d["sender"] \in {msg.names["sender"], NoName}
  BY DEF NeverMisread
<1>. DEFINE r == Rev(e)
            n == r[1]
            id(k) == LocalId(r, k, msg.ids[k])
            known(k) == id(k) \in DOMAIN reg[n][k]
<1>1. r \in Link /\ Rev(r) = e /\ n \in Node
  BY RevRev, LinkEnds
<1>2. \A k \in Kind : In(said[e][k], msg.ids[k], msg.names[k])
  <2>1. Truthful(said[e], msg)
    BY SMTT(30) DEF Inv, Queued, UnderWay
  <2>. QED
    BY <2>1 DEF Truthful, IsUser
<1>3. ASSUME NEW k \in Kind, known(k)
      PROVE  reg[n][k][id(k)] = msg.names[k]
  <2>. DEFINE i == msg.ids[k]
  <2>1. id(k) # 0
    BY <1>1, <1>3, TypeOfSaid DEF Inv
  <2>2. i \in DOMAIN table[r][k] /\ id(k) = table[r][k][i].local
    BY <2>1 DEF LocalId
  <2>3. table[r][k][i] # NoEntry
    BY <2>1, <2>2 DEF NoEntry
  <2>4. Right(reg[n][k], said[e][k], i, table[r][k][i])
    BY <1>1, <2>2 DEF Inv, Tables
  <2>. QED
    BY ZenonT(30), <1>2, <2>2, <2>3, <2>4 DEF Right, In
<1>4. /\ known("type")
      /\ d = [k \in Kind |-> IF known(k) THEN reg[n][k][id(k)] ELSE NoName]
  BY DEF Dispatched
<1>5. {"type", "sender"} \subseteq Kind
  BY DEF Kind
<1>. HIDE DEF n, id, r
<1>. QED
  BY <1>3, <1>4, <1>5

\* Whatever connections break and processes restart, in whatever order
\* messages arrive, a user message is never taken for one of another type or
\* from another sender.
THEOREM MessagesKeepTheirMeaning == Spec => []NeverMisread
BY InvInit, InvStep, InvIsEnough, PTL DEF Spec

-----------------------------------------------------------------------------
(* Descriptions come in order.                                              *)

DescOf(m, k)  == m.kind = "desc" /\ m.of = k
Told(q, k, n) == \E j \in DOMAIN q : DescOf(q[j], k) /\ q[j].id = n

\* The descriptions of kind k in q go on after d, one after the other.
Continues(q, k, d) ==
  /\ \A i \in DOMAIN q : DescOf(q[i], k) =>
       q[i].id > d /\ \A n \in (d + 1)..q[i].id : Told(q, k, n)
  /\ \A i, j \in DOMAIN q : DescOf(q[i], k) /\ DescOf(q[j], k) /\ i < j => q[i].id < q[j].id

\* They reach to l.
Complete(q, k, d, l) == \A n \in (d + 1)..l : Told(q, k, n)

\* Who reads a user message in q knows its number of kind k by then.
Announced(q, k, d) ==
  \A i \in DOMAIN q : q[i].kind = "user" =>
    \/ q[i].ids[k] \in 1..d
    \/ \E j \in 1..(i - 1) : DescOf(q[j], k) /\ q[j].id = q[i].ids[k]

\* Every place of a table is taken by a name that the reader has numbered.
Filled ==
  \A e \in Link \ untold, k \in Kind : \A i \in DOMAIN table[Rev(e)][k] :
    table[Rev(e)][k][i].local # 0

Ordered(q, k, d, l, open) ==
  Continues(q, k, d) /\ Announced(q, k, d) /\ (open => Complete(q, k, d, l))

OrderInv ==
  /\ Filled
  /\ \A e \in Link \ untold : status[Rev(e)] # "none" => \A k \in Kind :
       Ordered(tcp[e], k, Len(table[Rev(e)][k]), Len(said[e][k]), Open(e))

LEMMA Fields ==
  ASSUME NEW m \in Message
  PROVE  /\ m.kind = "desc" => m.of \in Kind /\ m.id \in Nat /\ m.name \in Symbol
         /\ m.kind = "user" => m.ids \in [Kind -> Nat]
BY DEF Message, UserMsg, Symbol

\* One more message at the end of a queue.
LEMMA OrderPushed ==
  ASSUME NEW q \in Seq(Message), NEW m \in Message, NEW k \in Kind, NEW d \in Nat, NEW l \in Nat,
         Continues(q, k, d), Announced(q, k, d)
  PROVE  /\ ~DescOf(m, k) => Continues(Append(q, m), k, d)
         /\ Complete(q, k, d, l) => Complete(Append(q, m), k, d, l)
         /\ m.kind # "user" => Announced(Append(q, m), k, d)
         /\ m.kind = "user" /\ m.ids[k] \in 1..l /\ Complete(q, k, d, l) =>
              Announced(Append(q, m), k, d)
         /\ /\ DescOf(m, k) /\ m.id = l + 1 /\ d <= l /\ Complete(q, k, d, l)
            /\ \A i \in DOMAIN q : DescOf(q[i], k) => q[i].id <= l
            => Continues(Append(q, m), k, d) /\ Complete(Append(q, m), k, d, l + 1)
<1>. DEFINE t == Append(q, m)
            z == Len(q) + 1
<1>1. /\ z \in Nat /\ t[z] = m /\ DOMAIN t = 1..z /\ DOMAIN q = 1..(z - 1) /\ z > 0
      /\ \A i \in DOMAIN q : t[i] = q[i] /\ q[i] \in Message
  OBVIOUS
<1>. HIDE DEF t, z
<1>2. /\ \A i \in DOMAIN t : i = z \/ (i \in DOMAIN q /\ t[i] = q[i])
      /\ \A i \in DOMAIN q : i \in DOMAIN t /\ i < z
      /\ z \in DOMAIN t
  BY <1>1
<1>3. \A n : Told(q, k, n) => Told(t, k, n)
  BY <1>1, <1>2 DEF Told
<1>4. \A i \in DOMAIN q : DescOf(q[i], k) => q[i].id \in Nat
  BY <1>1, Fields DEF DescOf
<1>5. \A i, j \in DOMAIN t : i < j => i \in DOMAIN q
  BY <1>1, <1>2
<1>6. ~DescOf(m, k) => Continues(t, k, d)
  BY <1>1, <1>2, <1>3 DEF Continues
<1>7. Complete(q, k, d, l) => Complete(t, k, d, l)
  BY <1>3 DEF Complete
<1>8. ASSUME NEW i \in DOMAIN q, q[i].kind = "user"
      PROVE  \/ t[i].ids[k] \in 1..d
             \/ \E j \in 1..(i - 1) : DescOf(t[j], k) /\ t[j].id = t[i].ids[k]
  <2>1. CASE q[i].ids[k] \in 1..d
    BY <1>1, <2>1
  <2>2. CASE \E j \in 1..(i - 1) : DescOf(q[j], k) /\ q[j].id = q[i].ids[k]
    <3>1. PICK j \in 1..(i - 1) : DescOf(q[j], k) /\ q[j].id = q[i].ids[k]
      BY <2>2
    <3>2. j \in DOMAIN q
      BY <1>1, <3>1
    <3>. QED
      BY <1>1, <3>1, <3>2
  <2>. QED
    BY <1>8, <2>1, <2>2 DEF Announced
<1>9. m.kind # "user" => Announced(t, k, d)
  BY <1>1, <1>2, <1>8 DEF Announced
<1>10. m.kind = "user" /\ m.ids[k] \in 1..l /\ Complete(q, k, d, l) => Announced(t, k, d)
  <2>. SUFFICES ASSUME m.kind = "user", m.ids[k] \in 1..l, Complete(q, k, d, l)
                PROVE  Announced(t, k, d)
    OBVIOUS
  <2>1. \/ m.ids[k] \in 1..d
        \/ \E j \in 1..(z - 1) : DescOf(t[j], k) /\ t[j].id = m.ids[k]
    <3>1. m.ids[k] \in 1..d \/ m.ids[k] \in (d + 1)..l
      OBVIOUS
    <3>2. m.ids[k] \in (d + 1)..l => \E j \in DOMAIN q : DescOf(q[j], k) /\ q[j].id = m.ids[k]
      BY DEF Complete, Told
    <3>. QED
      BY <1>1, <3>1, <3>2
  <2>. QED
    BY <1>1, <1>2, <1>8, <2>1 DEF Announced
<1>11. ASSUME DescOf(m, k), m.id = l + 1, d <= l, Complete(q, k, d, l),
              \A i \in DOMAIN q : DescOf(q[i], k) => q[i].id <= l
       PROVE  Continues(t, k, d) /\ Complete(t, k, d, l + 1)
  <2>1. Told(t, k, l + 1)
    BY <1>1, <1>2, <1>11 DEF Told
  <2>2. \A n \in (d + 1)..(l + 1) : Told(t, k, n)
    <3>. SUFFICES ASSUME NEW n \in (d + 1)..(l + 1), n # l + 1 PROVE Told(t, k, n)
      BY <2>1
    <3>1. n \in (d + 1)..l
      OBVIOUS
    <3>. QED
      BY <1>3, <1>11, <3>1 DEF Complete
  <2>3. \A i \in DOMAIN t : DescOf(t[i], k) =>
          t[i].id > d /\ \A n \in (d + 1)..t[i].id : Told(t, k, n)
    <3>. SUFFICES ASSUME NEW i \in DOMAIN t, DescOf(t[i], k)
                  PROVE  t[i].id > d /\ \A n \in (d + 1)..t[i].id : Told(t, k, n)
      OBVIOUS
    <3>1. CASE i = z
      BY <1>1, <1>11, <2>2, <3>1
    <3>2. CASE i \in DOMAIN q
      BY <1>1, <1>3, <3>2 DEF Continues
    <3>. QED
      BY <1>2, <3>1, <3>2
  <2>4. \A i, j \in DOMAIN t : DescOf(t[i], k) /\ DescOf(t[j], k) /\ i < j => t[i].id < t[j].id
    <3>. SUFFICES ASSUME NEW i \in DOMAIN t, NEW j \in DOMAIN t, i < j,
                         DescOf(t[i], k), DescOf(t[j], k)
                  PROVE  t[i].id < t[j].id
      OBVIOUS
    <3>1. i \in DOMAIN q /\ t[i] = q[i] /\ q[i].id \in Nat /\ q[i].id <= l
      BY <1>1, <1>4, <1>5, <1>11
    <3>2. CASE j = z
      BY <1>1, <1>11, <3>1, <3>2
    <3>3. CASE j \in DOMAIN q
      BY <1>1, <3>1, <3>3 DEF Continues
    <3>. QED
      BY <1>2, <3>2, <3>3
  <2>5. Continues(t, k, d)
    BY <2>3, <2>4 DEF Continues
  <2>. QED
    BY <2>2, <2>5 DEF Complete
<1>. QED
  BY <1>6, <1>7, <1>9, <1>10, <1>11 DEF t

\* The first message of a queue has been read.
LEMMA OrderPopped ==
  ASSUME NEW q \in Seq(Message), q # <<>>, NEW k \in Kind, NEW d \in Nat, NEW l \in Nat,
         Continues(q, k, d), Announced(q, k, d)
  PROVE  /\ ~DescOf(Head(q), k) =>
              /\ Continues(Tail(q), k, d) /\ Announced(Tail(q), k, d)
              /\ Complete(q, k, d, l) => Complete(Tail(q), k, d, l)
         /\ DescOf(Head(q), k) =>
              /\ Head(q).id = d + 1
              /\ Continues(Tail(q), k, d + 1) /\ Announced(Tail(q), k, d + 1)
              /\ Complete(q, k, d, l) => Complete(Tail(q), k, d + 1, l)
<1>. DEFINE t == Tail(q)
            h == Head(q)
            c == IF DescOf(h, k) THEN d + 1 ELSE d
<1>1. /\ Len(q) \in Nat \ {0} /\ DOMAIN q = 1..Len(q) /\ DOMAIN t = 1..(Len(q) - 1) /\ h = q[1]
      /\ \A i \in DOMAIN t : t[i] = q[i + 1]
      /\ \A i \in DOMAIN q : q[i] \in Message
  OBVIOUS
<1>. HIDE DEF t, h
<1>2. /\ \A i \in DOMAIN q : i = 1 \/ (i - 1 \in DOMAIN t /\ t[i - 1] = q[i])
      /\ \A i \in DOMAIN t : i + 1 \in DOMAIN q /\ t[i] = q[i + 1] /\ 1 < i + 1
      /\ 1 \in DOMAIN q /\ q[1] = h
      /\ \A i, j \in DOMAIN t : i < j => i + 1 < j + 1
      /\ \A i \in DOMAIN q : i \in Nat /\ i >= 1
  BY <1>1
<1>3. \A i \in DOMAIN q : DescOf(q[i], k) => q[i].id \in Nat
  BY <1>1, Fields DEF DescOf
<1>4. DescOf(h, k) => h.id = d + 1
  <2>. SUFFICES ASSUME DescOf(h, k), h.id # d + 1 PROVE FALSE
    OBVIOUS
  <2>1. h.id \in Nat /\ h.id > d /\ \A n \in (d + 1)..h.id : Told(q, k, n)
    BY <1>2, <1>3 DEF Continues
  <2>2. Told(q, k, d + 1) /\ h.id > d + 1
    BY <2>1
  <2>3. PICK j \in DOMAIN q : DescOf(q[j], k) /\ q[j].id = d + 1
    BY <2>2 DEF Told
  <2>4. 1 < j
    BY <1>2, <2>2, <2>3
  <2>5. DescOf(q[1], k) /\ 1 \in DOMAIN q /\ q[1].id = h.id
    BY <1>2
  <2>6. q[1].id < q[j].id
    BY <2>3, <2>4, <2>5 DEF Continues
  <2>. QED
    BY <2>1, <2>2, <2>3, <2>5, <2>6
<1>5. c \in Nat /\ c >= d /\ (c = d \/ c = d + 1)
  OBVIOUS
<1>6. \A n \in Nat : n > c /\ Told(q, k, n) => Told(t, k, n)
  <2>. SUFFICES ASSUME NEW n \in Nat, n > c, NEW j \in DOMAIN q, DescOf(q[j], k), q[j].id = n
                PROVE  Told(t, k, n)
    BY DEF Told
  <2>1. j # 1
    BY <1>2, <1>4, <1>5
  <2>. QED
    BY <1>2, <2>1 DEF Told
<1>7. \A i \in DOMAIN t : DescOf(t[i], k) =>
         t[i].id > c /\ \A n \in (c + 1)..t[i].id : Told(t, k, n)
  <2>. SUFFICES ASSUME NEW i \in DOMAIN t, DescOf(t[i], k)
                PROVE  t[i].id > c /\ \A n \in (c + 1)..t[i].id : Told(t, k, n)
    OBVIOUS
  <2>1. /\ t[i].id \in Nat /\ t[i].id > d /\ \A n \in (d + 1)..t[i].id : Told(q, k, n)
        /\ DescOf(h, k) => h.id < t[i].id
    BY <1>2, <1>3 DEF Continues
  <2>2. t[i].id > c
    BY <1>4, <1>5, <2>1
  <2>3. ASSUME NEW n \in (c + 1)..t[i].id PROVE Told(t, k, n)
    <3>1. n \in Nat /\ n > c /\ n \in (d + 1)..t[i].id
      BY <1>5, <2>1
    <3>. HIDE DEF c
    <3>. QED
      BY <1>6, <2>1, <3>1
  <2>. QED
    BY <2>2, <2>3
<1>8. Continues(t, k, c)
  <2>1. \A i, j \in DOMAIN t : DescOf(t[i], k) /\ DescOf(t[j], k) /\ i < j => t[i].id < t[j].id
    BY <1>2 DEF Continues
  <2>. HIDE DEF c
  <2>. QED
    BY <1>7, <2>1 DEF Continues
<1>9. Announced(t, k, c)
  <2>. SUFFICES ASSUME NEW i \in DOMAIN t, t[i].kind = "user"
                PROVE  \/ t[i].ids[k] \in 1..c
                       \/ \E j \in 1..(i - 1) : DescOf(t[j], k) /\ t[j].id = t[i].ids[k]
    BY DEF Announced
  <2>1. \/ t[i].ids[k] \in 1..d
        \/ \E j \in 1..i : DescOf(q[j], k) /\ q[j].id = t[i].ids[k]
    <3>1. i + 1 \in DOMAIN q /\ q[i + 1] = t[i]
      BY <1>2
    <3>2. i + 1 - 1 = i
      BY <1>1
    <3>3. PICK z \in DOMAIN q : z = i + 1 /\ q[z] = t[i] /\ z - 1 = i
      BY <3>1, <3>2
    <3>4. \/ q[z].ids[k] \in 1..d
          \/ \E j \in 1..(z - 1) : DescOf(q[j], k) /\ q[j].id = q[z].ids[k]
      BY ZenonT(30), <3>3 DEF Announced
    <3>. QED
      BY ZenonT(30), <3>3, <3>4
  <2>2. CASE t[i].ids[k] \in 1..d
    BY <1>5, <2>2
  <2>3. CASE \E j \in 1..i : DescOf(q[j], k) /\ q[j].id = t[i].ids[k]
    <3>1. PICK j \in 1..i : DescOf(q[j], k) /\ q[j].id = t[i].ids[k]
      BY <2>3
    <3>2. CASE j = 1
      BY <1>2, <1>4, <1>5, <3>1, <3>2
    <3>3. CASE j # 1
      <4>1. j - 1 \in 1..(i - 1) /\ j - 1 \in DOMAIN t /\ t[j - 1] = q[j]
        BY <1>1, <3>3
      <4>. QED
        BY <3>1, <4>1
    <3>. QED
      BY <3>2, <3>3
  <2>. QED
    BY <2>1, <2>2, <2>3
<1>10. Complete(q, k, d, l) => Complete(t, k, c, l)
  <2>. SUFFICES ASSUME Complete(q, k, d, l), NEW n \in (c + 1)..l PROVE Told(t, k, n)
    BY DEF Complete
  <2>1. n \in Nat /\ n > c /\ n \in (d + 1)..l
    BY <1>5
  <2>. HIDE DEF c
  <2>. QED
    BY <1>6, <2>1 DEF Complete
<1>. QED
  BY <1>4, <1>8, <1>9, <1>10 DEF t, h

\* The end of a queue has been cut off.
LEMMA OrderCut ==
  ASSUME NEW q \in Seq(Message), NEW t \in Seq(Message), NEW k \in Kind, NEW d \in Nat,
         \A j \in DOMAIN t : j \in DOMAIN q /\ t[j] = q[j],
         Continues(q, k, d), Announced(q, k, d)
  PROVE  Continues(t, k, d) /\ Announced(t, k, d)
<1>1. /\ \A i \in DOMAIN t : i \in Nat /\ \A j \in 1..i : j \in DOMAIN t
      /\ \A i \in DOMAIN q : i \in Nat /\ i >= 1 /\ q[i] \in Message
  OBVIOUS
<1>2. \A i \in DOMAIN q : DescOf(q[i], k) => q[i].id \in Nat
  BY <1>1, Fields DEF DescOf
<1>3. ASSUME NEW i \in DOMAIN t, DescOf(t[i], k)
      PROVE  t[i].id > d /\ \A n \in (d + 1)..t[i].id : Told(t, k, n)
  <2>1. t[i].id \in Nat /\ t[i].id > d /\ \A n \in (d + 1)..t[i].id : Told(q, k, n)
    BY <1>2, <1>3 DEF Continues
  <2>2. ASSUME NEW n \in (d + 1)..t[i].id PROVE Told(t, k, n)
    <3>1. PICK j \in DOMAIN q : DescOf(q[j], k) /\ q[j].id = n
      BY <2>1, <2>2 DEF Told
    <3>2. i \in DOMAIN q /\ t[i] = q[i] /\ i \in Nat /\ j \in Nat /\ j >= 1
      BY <1>1
    <3>3. ~(i < j)
      <4>. SUFFICES ASSUME i < j PROVE FALSE
        OBVIOUS
      <4>1. q[i].id < q[j].id
        BY <1>3, <3>1, <3>2 DEF Continues
      <4>. QED
        BY <1>2, <2>1, <2>2, <3>1, <3>2, <4>1
    <3>4. j \in DOMAIN t
      BY <1>1, <3>2, <3>3
    <3>. QED
      BY <3>1, <3>4 DEF Told
  <2>. QED
    BY <2>1, <2>2
<1>4. \A i, j \in DOMAIN t : DescOf(t[i], k) /\ DescOf(t[j], k) /\ i < j => t[i].id < t[j].id
  BY DEF Continues
<1>5. ASSUME NEW i \in DOMAIN t, t[i].kind = "user"
      PROVE  \/ t[i].ids[k] \in 1..d
             \/ \E j \in 1..(i - 1) : DescOf(t[j], k) /\ t[j].id = t[i].ids[k]
  <2>1. \/ t[i].ids[k] \in 1..d
        \/ \E j \in 1..(i - 1) : DescOf(q[j], k) /\ q[j].id = t[i].ids[k]
    BY <1>5 DEF Announced
  <2>2. \A j \in 1..(i - 1) : t[j] = q[j]
    BY <1>1
  <2>. QED
    BY <2>1, <2>2
<1>. QED
  BY <1>3, <1>4, <1>5 DEF Continues, Announced

LEMMA ListLength ==
  ASSUME NEW S, NEW n \in Nat, NEW f \in [1..n -> S]
  PROVE  f \in Seq(S) /\ Len(f) = n
OBVIOUS

\* g is u, then x, then y.
Parts(g, u, x, y) ==
  /\ DOMAIN g = 1..(Len(x) + Len(y) + 1) /\ g[1] = u
  /\ \A i \in 2..(Len(x) + 1) : i - 1 \in 1..Len(x) /\ g[i] = x[i - 1]
  /\ \A i \in (Len(x) + 2)..(Len(x) + Len(y) + 1) :
       i - Len(x) - 1 \in 1..Len(y) /\ g[i] = y[i - Len(x) - 1]

LEMMA ThreeParts ==
  ASSUME NEW S, NEW u \in S, NEW x \in Seq(S), NEW y \in Seq(S), NEW g, g = <<u>> \o (x \o y)
  PROVE  Parts(g, u, x, y)
<1>. DEFINE z == x \o y
            w == <<u>>
<1>1. w \in Seq(S) /\ Len(w) = 1 /\ w[1] = u /\ Len(x) \in Nat /\ Len(y) \in Nat
  OBVIOUS
<1>2. /\ z \in Seq(S) /\ Len(z) = Len(x) + Len(y)
      /\ \A i \in 1..(Len(x) + Len(y)) : z[i] = IF i <= Len(x) THEN x[i] ELSE y[i - Len(x)]
  BY ConcatProperties
<1>. HIDE DEF z, w
<1>3. /\ g \in Seq(S) /\ Len(g) = Len(w) + Len(z)
      /\ \A i \in 1..(Len(w) + Len(z)) : g[i] = IF i <= Len(w) THEN w[i] ELSE z[i - Len(w)]
  <2>1. /\ w \o z \in Seq(S) /\ Len(w \o z) = Len(w) + Len(z)
        /\ \A i \in 1..(Len(w) + Len(z)) : (w \o z)[i] = IF i <= Len(w) THEN w[i] ELSE z[i - Len(w)]
    <3>1. w \in Seq(S) /\ z \in Seq(S)
      BY <1>1, <1>2
    <3>. QED
      BY <3>1, ConcatProperties
  <2>2. g = w \o z
    BY DEF w, z
  <2>. QED
    BY <2>1, <2>2
<1>4. DOMAIN g = 1..(Len(x) + Len(y) + 1) /\ g[1] = u
  <2>1. DOMAIN g = 1..Len(g) /\ Len(g) = Len(x) + Len(y) + 1
    BY <1>1, <1>2, <1>3, LenProperties
  <2>. QED
    BY <1>1, <1>2, <1>3, <2>1
<1>5. ASSUME NEW i \in 2..(Len(x) + 1) PROVE i - 1 \in 1..Len(x) /\ g[i] = x[i - 1]
  <2>1. /\ i \in 1..(Len(w) + Len(z)) /\ ~(i <= Len(w)) /\ i - Len(w) = i - 1
        /\ i - 1 \in 1..(Len(x) + Len(y)) /\ i - 1 <= Len(x) /\ i - 1 \in 1..Len(x)
    BY <1>1, <1>2
  <2>2. g[i] = z[i - 1]
    BY <1>3, <2>1
  <2>. QED
    BY <1>2, <2>1, <2>2
<1>6. ASSUME NEW i \in (Len(x) + 2)..(Len(x) + Len(y) + 1)
      PROVE  i - Len(x) - 1 \in 1..Len(y) /\ g[i] = y[i - Len(x) - 1]
  <2>1. /\ i \in 1..(Len(w) + Len(z)) /\ ~(i <= Len(w)) /\ i - Len(w) = i - 1
        /\ i - 1 \in 1..(Len(x) + Len(y)) /\ ~(i - 1 <= Len(x))
        /\ (i - 1) - Len(x) = i - Len(x) - 1 /\ i - Len(x) - 1 \in 1..Len(y)
    BY <1>1, <1>2
  <2>2. g[i] = z[i - 1]
    BY <1>3, <2>1
  <2>. QED
    BY <1>2, <2>1, <2>2
<1>. QED
  BY <1>4, <1>5, <1>6 DEF Parts

\* What a node packs for one that has just connected, for a senders and b types.
Greets(n, g, a, b) ==
  /\ a \in Nat /\ b \in Nat /\ DOMAIN g = 1..(a + b + 1) /\ g[1] = UdpPort
  /\ \A i \in 2..(a + 1) : g[i] = Desc("sender", i - 1, reg[n]["sender"][i - 1])
  /\ \A i \in (a + 2)..(a + b + 1) :
       g[i] = Desc("type", i - a - 1, reg[n]["type"][i - a - 1])

LEMMA GreetingParts ==
  ASSUME TypeOK, NEW n \in Node, NEW a, NEW b, NEW g,
         a = Len(reg[n]["sender"]), b = Len(reg[n]["type"]), g = Greeting(n)
  PROVE  Greets(n, g, a, b)
<1>. DEFINE all(h) == [i \in DOMAIN reg[n][h] |-> Desc(h, i, reg[n][h][i])]
            x == all("sender")
            y == all("type")
<1>1. ASSUME NEW h \in Kind
      PROVE  /\ Len(reg[n][h]) \in Nat /\ DOMAIN reg[n][h] = 1..Len(reg[n][h])
             /\ all(h) \in [1..Len(reg[n][h]) -> Message]
  <2>1. reg[n][h] \in Seq(Symbol)
    BY TypeOfSaid
  <2>. QED
    BY <2>1, MessageTypes
<1>2. a \in Nat /\ b \in Nat /\ x \in [1..a -> Message] /\ y \in [1..b -> Message]
  BY <1>1 DEF Kind
<1>3. /\ \A i \in 1..a : x[i] = Desc("sender", i, reg[n]["sender"][i])
      /\ \A i \in 1..b : y[i] = Desc("type", i, reg[n]["type"][i])
  BY <1>1 DEF Kind
<1>4. g = <<UdpPort>> \o (x \o y)
  BY DEF Greeting, Descriptions
<1>. HIDE DEF x, y
<1>5. x \in Seq(Message) /\ y \in Seq(Message) /\ Len(x) = a /\ Len(y) = b
  BY <1>2, ListLength
<1>6. UdpPort \in Message
  BY MessageTypes
<1>7. Parts(g, UdpPort, x, y)
  <2>1. x \in Seq(Message) /\ y \in Seq(Message)
    BY <1>5
  <2>. QED
    BY <1>4, <1>6, <2>1, ThreeParts, Zenon
<1>. QED
  BY <1>2, <1>3, <1>5, <1>7 DEF Parts, Greets

LEMMA OrderGreeting ==
  ASSUME TypeOK, NEW n \in Node, NEW k \in Kind
  PROVE  Ordered(Greeting(n), k, 0, Len(reg[n][k]), TRUE)
<1>. DEFINE a == Len(reg[n]["sender"])
            b == Len(reg[n]["type"])
            g == Greeting(n)
            o == IF k = "sender" THEN 1 ELSE a + 1
            c == IF k = "sender" THEN a ELSE b
<1>1. c = Len(reg[n][k])
  BY DEF Kind
<1>2. Greets(n, g, a, b)
  <2>1. a = Len(reg[n]["sender"]) /\ b = Len(reg[n]["type"]) /\ g = Greeting(n)
    OBVIOUS
  <2>. HIDE DEF g, a, b
  <2>. QED
    BY <2>1, GreetingParts, Zenon
<1>. HIDE DEF g, a, b
<1>. USE DEF Greets
<1>3. o \in Nat /\ c \in Nat /\ (o + 1)..(o + c) \subseteq DOMAIN g
  BY <1>2
<1>4. ASSUME NEW i \in DOMAIN g
      PROVE  /\ g[i].kind # "user"
             /\ DescOf(g[i], k) => i \in (o + 1)..(o + c) /\ g[i].id = i - o
             /\ i \in (o + 1)..(o + c) => DescOf(g[i], k)
  <2>1. CASE i = 1
    <3>1. g[i].kind = "udp" /\ i \notin (o + 1)..(o + c)
      BY <1>2, <1>3, <2>1 DEF UdpPort
    <3>. QED
      BY <3>1 DEF DescOf
  <2>2. CASE i \in 2..(a + 1)
    <3>1. g[i] = Desc("sender", i - 1, reg[n]["sender"][i - 1])
      BY <1>2, <2>2
    <3>2. g[i].kind = "desc" /\ g[i].of = "sender" /\ g[i].id = i - 1
      BY <3>1 DEF Desc
    <3>3. IF k = "sender" THEN i \in (o + 1)..(o + c) /\ i - 1 = i - o
                          ELSE i \notin (o + 1)..(o + c)
      BY <1>2, <2>2
    <3>. QED
      BY <3>2, <3>3 DEF DescOf
  <2>3. CASE i \in (a + 2)..(a + b + 1)
    <3>1. g[i] = Desc("type", i - a - 1, reg[n]["type"][i - a - 1])
      BY <1>2, <2>3
    <3>2. g[i].kind = "desc" /\ g[i].of = "type" /\ g[i].id = i - a - 1
      BY <3>1 DEF Desc
    <3>3. IF k = "sender" THEN i \notin (o + 1)..(o + c)
                          ELSE i \in (o + 1)..(o + c) /\ i - a - 1 = i - o /\ k = "type"
      BY <1>2, <2>3 DEF Kind
    <3>. QED
      BY <3>2, <3>3 DEF DescOf
  <2>. QED
    BY <1>2, <2>1, <2>2, <2>3
<1>. HIDE DEF o, c
<1>5. \A m \in 1..c : Told(g, k, m)
  <2>. SUFFICES ASSUME NEW m \in 1..c PROVE Told(g, k, m)
    OBVIOUS
  <2>1. o + m \in (o + 1)..(o + c) /\ (o + m) - o = m
    BY <1>3
  <2>. QED
    BY <1>3, <1>4, <2>1 DEF Told
<1>6. Continues(g, k, 0)
  <2>1. \A i \in DOMAIN g : DescOf(g[i], k) => g[i].id > 0 /\ g[i].id <= c /\ g[i].id \in Nat
    BY <1>3, <1>4
  <2>2. \A i, j \in DOMAIN g : DescOf(g[i], k) /\ DescOf(g[j], k) /\ i < j => g[i].id < g[j].id
    BY <1>3, <1>4
  <2>3. \A i \in DOMAIN g : DescOf(g[i], k) => \A m \in (0 + 1)..g[i].id : Told(g, k, m)
    BY <1>3, <1>5, <2>1
  <2>. QED
    BY <2>1, <2>2, <2>3 DEF Continues
<1>7. Announced(g, k, 0) /\ Complete(g, k, 0, c)
  BY <1>4, <1>5 DEF Announced, Complete
<1>. QED
  BY <1>1, <1>6, <1>7 DEF Ordered, g

LEMMA OrderEmpty ==
  ASSUME NEW k, NEW d, NEW l, NEW open, ~open
  PROVE  Ordered(<<>>, k, d, l, open)
<1>1. DOMAIN <<>> = {}
  OBVIOUS
<1>. QED
  BY <1>1 DEF Ordered, Continues, Announced

LEMMA NothingLong ==
  ASSUME NEW S, NEW t \in Seq(S), DOMAIN t = {}
  PROVE  Len(t) = 0
<1>1. Len(t) \in Nat /\ DOMAIN t = 1..Len(t)
  BY LenProperties
<1>2. 1 \notin 1..Len(t)
  BY <1>1
<1>. QED
  BY <1>1, <1>2

\* A table never reaches beyond what the other side has described.
LEMMA Reach ==
  ASSUME Inv, Filled, NEW e \in Link \ untold, NEW k \in Kind
  PROVE  /\ Len(table[Rev(e)][k]) \in Nat /\ Len(said[e][k]) \in Nat
         /\ Len(table[Rev(e)][k]) <= Len(said[e][k])
         /\ tcp[e] \in Seq(Message)
<1>. DEFINE t == table[Rev(e)][k]
            s == said[e][k]
<1>1. Rev(e) \in Link /\ Rev(Rev(e)) = e
  BY RevRev
<1>2. t \in Seq(Entry) /\ s \in Seq(Symbol) /\ tcp[e] \in Seq(Message)
  BY SMTT(30), <1>1, TypeOfSaid DEF Inv, TypeOK
<1>3. \A i \in DOMAIN t : i \in DOMAIN s
  <2>. SUFFICES ASSUME NEW i \in DOMAIN t PROVE i \in DOMAIN s
    OBVIOUS
  <2>1. t[i] # NoEntry
    BY <1>1 DEF Filled, NoEntry
  <2>2. Right(reg[Rev(e)[1]][k], s, i, t[i])
    BY <1>1 DEF Inv, Tables
  <2>. QED
    BY <2>1, <2>2 DEF Right, In
<1>. HIDE DEF t, s
<1>4. Len(t) \in DOMAIN t \/ Len(t) = 0
  BY <1>2
<1>5. Len(t) <= Len(s)
  BY <1>2, <1>3, <1>4
<1>. QED
  BY <1>2, <1>5 DEF t, s

\* A queue after a description has been packed.
LEMMA OrderDeclare ==
  ASSUME Inv, NEW n \in Node, NEW k \in Kind, NEW x \in Symbol,
         NEW q \in [Link -> Seq(Message)], Declare(n, k, x, q),
         NEW e \in Link \ untold', NEW h \in Kind, NEW d \in Nat, d <= Len(said[e][h]),
         \A j \in DOMAIN q[e] : Truthful(said[e], q[e][j]),
         Ordered(q[e], h, d, Len(said[e][h]), Open(e))
  PROVE  Ordered(tcp'[e], h, d, Len(said'[e][h]), Open(e))
<1>. DEFINE m == Desc(k, NextId(n, k), x)
            l == Len(said[e][h])
<1>1. said[e][h] \in Seq(Symbol) /\ reg[n][k] \in Seq(Symbol) /\ q[e] \in Seq(Message)
  BY TypeOfSaid DEF Inv
<1>2. l \in Nat /\ NextId(n, k) = Len(reg[n][k]) + 1 /\ NextId(n, k) \in Nat
  BY <1>1 DEF NextId
<1>3. m \in Message /\ m.kind = "desc" /\ m.of = k /\ m.id = NextId(n, k)
  BY <1>2, MessageTypes DEF Desc
<1>4. \A i \in DOMAIN q[e] : DescOf(q[e][i], h) => q[e][i].id <= l
  BY <1>1 DEF DescOf, Truthful, In
<1>5. Describe(n, m, q) /\ Added(n, k, x)
  BY DEF Declare
<1>. HIDE DEF m
<1>. PICK E \in SUBSET Ends(n) :
       /\ tcp' = Pack(q, E, <<m>>)
       /\ \A f \in Ends(n) : status[f] = "CONNECTED" /\ f \notin untold' => f \in E
  BY <1>5, DescribePacks DEF Inv
<1>6. CASE e \in Ends(n) /\ Open(e)
  <2>1. tcp'[e] = Append(q[e], m)
    <3>1. tcp'[e] = q[e] \o <<m>>
      BY <1>6 DEF Pack, Open
    <3>. QED
      BY <1>1, <1>3, <3>1, AppendIsConcat
  <2>2. said[e] = reg[n] /\ said'[e] = [reg[n] EXCEPT ![k] = Append(@, x)]
    BY <1>5, <1>6 DEF Added, Ends, Open, Inv, Sessions
  <2>3. reg[n] \in [Kind -> Seq(Symbol)]
    BY TypeOfSaid DEF Inv
  <2>4. Continues(q[e], h, d) /\ Announced(q[e], h, d) /\ Complete(q[e], h, d, l)
    BY <1>6 DEF Ordered
  <2>5. CASE h = k
    <3>1. said'[e][h] = Append(reg[n][k], x)
      BY <2>2, <2>3, <2>5
    <3>2. Len(said'[e][h]) = l + 1 /\ m.id = l + 1
      BY <1>1, <1>2, <1>3, <2>2, <2>5, <3>1
    <3>3. DescOf(m, h) /\ m.kind # "user"
      BY <1>3, <2>5 DEF DescOf
    <3>. HIDE DEF l
    <3>4. /\ Announced(Append(q[e], m), h, d)
          /\ Continues(Append(q[e], m), h, d) /\ Complete(Append(q[e], m), h, d, l + 1)
      BY <1>1, <1>2, <1>3, <1>4, <2>4, <3>2, <3>3, OrderPushed DEF l
    <3>. QED
      BY <2>1, <3>2, <3>4 DEF Ordered
  <2>6. CASE h # k
    <3>1. said'[e][h] = said[e][h]
      BY <2>2, <2>3, <2>6
    <3>2. ~DescOf(m, h) /\ m.kind # "user"
      BY <1>3, <2>6 DEF DescOf
    <3>3. /\ Announced(Append(q[e], m), h, d)
          /\ Continues(Append(q[e], m), h, d) /\ Complete(Append(q[e], m), h, d, l)
      BY <1>1, <1>2, <1>3, <2>4, <3>2, OrderPushed
    <3>. QED
      BY <2>1, <3>1, <3>3 DEF Ordered
  <2>. QED
    BY <2>5, <2>6
<1>7. CASE ~(e \in Ends(n) /\ Open(e))
  <2>1. tcp'[e] = q[e]
    BY <1>7 DEF Pack
  <2>2. Open(e) => said'[e] = said[e]
    BY <1>5, <1>7, AddedKeeps DEF Inv
  <2>. QED
    BY <2>1, <2>2 DEF Ordered
<1>. QED
  BY <1>6, <1>7

\* addLocalID unsets no number.
LEMMA FilledLocalised ==
  ASSUME TypeOK, Filled, NEW n \in Node, NEW k \in Kind, NEW x \in Symbol,
         NEW e \in Link, NEW h \in Kind
  PROVE  /\ Len(Localised(n, k, x)[e][h]) = Len(table[e][h])
         /\ Rev(e) \notin untold => \A i \in DOMAIN Localised(n, k, x)[e][h] : Localised(n, k, x)[e][h][i].local # 0
<1>. DEFINE t == Localised(n, k, x)[e][h]
<1>1. table[e] \in [Kind -> Seq(Entry)] /\ table[e][h] \in Seq(Entry)
  BY DEF TypeOK
<1>2. t \in Seq(Entry)
  BY LocalisedType
<1>. HIDE DEF t
<1>3. CASE e[1] = n /\ h = k
  <2>1. t = SetLocal(table[e][h], x, NextId(n, k))
    BY <1>1, <1>3 DEF Localised, t
  <2>2. NextId(n, k) \in Nat \ {0}
    BY TypeOfSaid DEF NextId
  <2>3. DOMAIN t = DOMAIN table[e][h]
    BY <2>1 DEF SetLocal
  <2>4. Len(t) = Len(table[e][h])
    BY <1>1, <1>2, <2>3, LenProperties
  <2>5. ASSUME Rev(e) \notin untold, NEW i \in DOMAIN t PROVE t[i].local # 0
    <3>1. table[e][h][i] \in Entry /\ table[e][h][i].local # 0
      BY <1>1, <2>3, <2>5, RevRev DEF Filled
    <3>2. [table[e][h][i] EXCEPT !.local = NextId(n, k)].local = NextId(n, k)
      BY <3>1 DEF Entry
    <3>3. t[i] = table[e][h][i] \/ t[i] = [table[e][h][i] EXCEPT !.local = NextId(n, k)]
      BY <2>1, <2>3, <2>5 DEF SetLocal
    <3>. QED
      BY <2>2, <3>1, <3>2, <3>3
  <2>. QED
    BY <1>2, <2>4, <2>5 DEF t
<1>4. CASE ~(e[1] = n /\ h = k)
  <2>1. t = table[e][h]
    BY <1>1, <1>4 DEF Localised, t
  <2>. QED
    BY <1>1, <2>1, RevRev DEF Filled, t
<1>. QED
  BY <1>3, <1>4

\* A description that continues a table makes it longer by one.
LEMMA EntryNext ==
  ASSUME NEW t \in Seq(Entry), NEW i, i = Len(t) + 1, NEW v \in Entry, v.local # 0,
         \A j \in DOMAIN t : t[j].local # 0
  PROVE  /\ Len(SetEntry(t, i, v)) = i
         /\ \A j \in DOMAIN SetEntry(t, i, v) : SetEntry(t, i, v)[j].local # 0
<1>1. Len(t) \in Nat /\ i \in Nat /\ i > Len(t) /\ DOMAIN t = 1..Len(t)
  OBVIOUS
<1>2. /\ DOMAIN SetEntry(t, i, v) = 1..i
      /\ \A j \in 1..i : SetEntry(t, i, v)[j] = IF j = i THEN v ELSE IF j <= Len(t) THEN t[j] ELSE NoEntry
  BY <1>1 DEF SetEntry
<1>3. SetEntry(t, i, v) \in Seq(Entry)
  BY <1>1, EntrySet
<1>4. Len(SetEntry(t, i, v)) = i
  <2>. DEFINE u == SetEntry(t, i, v)
  <2>1. DOMAIN u = 1..Len(u) /\ Len(u) \in Nat
    BY <1>3, LenProperties
  <2>2. DOMAIN u = 1..i
    BY <1>2
  <2>. HIDE DEF u
  <2>3. i \in 1..Len(u)
    BY <1>1, <2>1, <2>2
  <2>4. Len(u) \in 1..i
    BY <1>1, <2>1, <2>2, <2>3
  <2>5. Len(u) \in Nat /\ i \in Nat
    BY <1>1, <2>1
  <2>6. Len(u) = i
    BY <2>3, <2>4, <2>5
  <2>. QED
    BY <2>6 DEF u
<1>5. \A j \in 1..i : j = i \/ (j <= Len(t) /\ j \in DOMAIN t)
  BY <1>1
<1>. QED
  BY <1>2, <1>4, <1>5

\* The queues after e has read a message; what has to be in the table then.
LEMMA OrderRead ==
  ASSUME Inv, OrderInv, NEW e \in Link, Reading(e),
         NEW l \in Link \ untold, status[Rev(l)] # "none", NEW h \in Kind
  PROVE  /\ l # Rev(e) \/ ~DescOf(Head(tcp[l]), h) =>
              Ordered(Popped(e)[l], h, Len(table[Rev(l)][h]), Len(said[l][h]), Open(l))
         /\ l = Rev(e) /\ DescOf(Head(tcp[l]), h) =>
              /\ Head(tcp[l]).id = Len(table[Rev(l)][h]) + 1
              /\ Ordered(Popped(e)[l], h, Len(table[Rev(l)][h]) + 1, Len(said[l][h]), Open(l))
<1>. DEFINE d == Len(table[Rev(l)][h])
            s == Len(said[l][h])
<1>1. Filled /\ Ordered(tcp[l], h, d, s, Open(l))
  BY DEF OrderInv
<1>2. d \in Nat /\ s \in Nat /\ tcp[l] \in Seq(Message)
  BY <1>1, Reach
<1>. HIDE DEF d, s
<1>3. CASE l = Rev(e)
  <2>1. tcp[l] # <<>>
    BY <1>3 DEF Reading
  <2>2. Popped(e)[l] = Tail(tcp[l])
    BY <1>3, RevRev DEF Popped, Inv, TypeOK
  <2>3. Continues(tcp[l], h, d) /\ Announced(tcp[l], h, d)
    BY <1>1 DEF Ordered
  <2>4. ~DescOf(Head(tcp[l]), h) => Ordered(Tail(tcp[l]), h, d, s, Open(l))
    BY <1>1, <1>2, <2>1, <2>3, OrderPopped DEF Ordered
  <2>5. DescOf(Head(tcp[l]), h) =>
          Head(tcp[l]).id = d + 1 /\ Ordered(Tail(tcp[l]), h, d + 1, s, Open(l))
    BY <1>1, <1>2, <2>1, <2>3, OrderPopped DEF Ordered
  <2>. QED
    BY <1>3, <2>2, <2>4, <2>5 DEF d, s
<1>4. CASE l # Rev(e)
  <2>1. Popped(e)[l] = tcp[l]
    BY <1>4 DEF Popped, Inv, TypeOK
  <2>. QED
    BY <1>1, <1>4, <2>1 DEF d, s
<1>. QED
  BY <1>3, <1>4

\* The user of n registers a name.
LEMMA OrderRegister ==
  ASSUME Inv, OrderInv, NEW n \in Node, NEW k \in Kind, NEW x \in Names(k), Register(n, k, x)
  PROVE  OrderInv'
<1>1. /\ x \in Symbol /\ Declare(n, k, x, tcp) /\ table' = Localised(n, k, x)
      /\ UNCHANGED status
  BY NamesAreSymbols DEF Register
<1>2. TypeOK /\ Filled
  BY DEF Inv, OrderInv
<1>. HIDE DEF Register
<1>0. untold \subseteq untold'
  BY <1>1, <1>2, DescribePacks DEF Declare
<1>3. Filled'
  BY <1>0, <1>1, <1>2, RevRev, FilledLocalised DEF Filled
<1>4. ASSUME NEW e \in Link \ untold', status[Rev(e)] # "none", NEW h \in Kind
      PROVE  Ordered(tcp'[e], h, Len(table'[Rev(e)][h]), Len(said'[e][h]), Open(e))
  <2>1. Len(table'[Rev(e)][h]) = Len(table[Rev(e)][h])
    BY <1>1, <1>2, RevRev, FilledLocalised
  <2>2. /\ Ordered(tcp[e], h, Len(table[Rev(e)][h]), Len(said[e][h]), Open(e))
        /\ \A j \in DOMAIN tcp[e] : Truthful(said[e], tcp[e][j])
        /\ tcp \in [Link -> Seq(Message)]
    BY <1>0, <1>4 DEF OrderInv, Inv, Queued, TypeOK
  <2>3. Len(table[Rev(e)][h]) \in Nat /\ Len(table[Rev(e)][h]) <= Len(said[e][h])
    BY <1>0, <1>2, Reach
  <2>. QED
    BY <1>1, <2>1, <2>2, <2>3, OrderDeclare
<1>. QED
  BY <1>1, <1>3, <1>4 DEF OrderInv, Open

\* The far end reads a description, and describes the name to others if it is new.
LEMMA OrderReadDescription ==
  ASSUME Inv, OrderInv, NEW e \in Link, ReadDescription(e)
  PROVE  OrderInv'
<1>. DEFINE l == Rev(e)
            d == Head(tcp[l])
            n == e[1]
            k == d.of
            q == Popped(e)
            entry(i) == [name |-> d.name, local |-> i]
            entered(t, i) == [t EXCEPT ![e][k] = SetEntry(@, d.id, entry(i))]
            R == {m \in Link : Rev(m) \notin untold}
<1>1. /\ Reading(e) /\ d.kind = "desc" /\ status[e] = "CONNECTED"
      /\ l \in Link /\ Rev(l) = e /\ l # e /\ UNCHANGED status
  BY ZenonT(30), RevRev DEF ReadDescription, Reading
<1>2. /\ q \in [Link -> Seq(Message)] /\ d \in Message /\ Truthful(said[l], d)
      /\ \A m \in Link : \A j \in DOMAIN q[m] : Truthful(said[m], q[m][j])
  BY <1>1, PoppedKeeps
<1>3. n \in Node /\ k \in Kind /\ d.id \in Nat /\ d.name \in Symbol /\ DescOf(d, k)
  BY <1>1, <1>2, Fields, LinkEnds DEF DescOf
<1>4. TypeOK /\ Filled /\ table \in [Link -> [Kind -> Seq(Entry)]]
  BY SMTT(30) DEF Inv, TypeOK, OrderInv
<1>0. /\ untold \subseteq untold'
      /\ \A m \in R : Rev(m) \in Link \ untold /\ Rev(Rev(m)) = m
      /\ \A m \in Link \ untold : Rev(m) \in R
  <2>1. untold \subseteq untold'
    <3>1. CASE UNCHANGED untold
      BY <3>1
    <3>2. CASE Declare(n, k, d.name, q)
      <4>. HIDE DEF n, k, d, q
      <4>. QED
        BY <1>3, <1>4, <3>2, DescribePacks DEF Declare
    <3>. QED
      BY ZenonT(30), <3>1, <3>2 DEF ReadDescription
  <2>. QED
    BY <2>1, RevRev
<1>5. ASSUME e \in R
      PROVE  d.id = Len(table[e][k]) + 1 /\ d.id <= Len(said[l][k])
  <2>1. d.id = Len(table[e][k]) + 1
    BY <1>1, <1>3, <1>5, OrderRead
  <2>2. said[l][k] \in Seq(Symbol) /\ In(said[l][k], d.id, d.name)
    BY <1>1, <1>2, <1>3, <1>4, TypeOfSaid DEF Truthful
  <2>. QED
    BY <2>1, <2>2 DEF In
<1>6. ASSUME NEW m \in Link \ untold, status[Rev(m)] # "none", NEW h \in Kind
      PROVE  LET c == IF m = l /\ h = k THEN d.id ELSE Len(table[Rev(m)][h]) IN
             /\ c \in Nat /\ c <= Len(said[m][h])
             /\ Ordered(q[m], h, c, Len(said[m][h]), Open(m))
  <2>1. CASE m = l /\ h = k
    <3>1. e \in R
      BY <1>1, <1>6, <2>1
    <3>. QED
      BY <1>1, <1>3, <1>5, <1>6, <2>1, <3>1, OrderRead
  <2>2. CASE ~(m = l /\ h = k)
    <3>1. m # l \/ ~DescOf(Head(tcp[m]), h)
      BY <2>2 DEF DescOf
    <3>2. Ordered(q[m], h, Len(table[Rev(m)][h]), Len(said[m][h]), Open(m))
      BY <1>1, <1>6, <3>1, OrderRead
    <3>3. Len(table[Rev(m)][h]) \in Nat /\ Len(table[Rev(m)][h]) <= Len(said[m][h])
      BY <1>4, Reach
    <3>. QED
      BY <2>2, <3>2, <3>3
  <2>. QED
    BY <2>1, <2>2
\* Entering the name makes that one table longer.
<1>. HIDE DEF R
<1>7. ASSUME NEW t \in [Link -> [Kind -> Seq(Entry)]], NEW i \in Nat \ {0},
             \A m \in Link, h \in Kind : Len(t[m][h]) = Len(table[m][h]),
             \A m \in R, h \in Kind : \A j \in DOMAIN t[m][h] : t[m][h][j].local # 0,
             table' = entered(t, i)
      PROVE  /\ \A m \in R, h \in Kind : \A j \in DOMAIN table'[m][h] : table'[m][h][j].local # 0
             /\ \A m \in R, h \in Kind :
                  Len(table'[m][h]) = IF m = e /\ h = k THEN d.id ELSE Len(table[m][h])
  <2>1. t[e][k] \in Seq(Entry) /\ entry(i) \in Entry /\ entry(i).local # 0
    BY <1>3 DEF Entry, Symbol
  <2>. HIDE DEF entry
  <2>2. /\ table'[e][k] = SetEntry(t[e][k], d.id, entry(i))
        /\ \A m \in Link, h \in Kind : ~(m = e /\ h = k) => table'[m][h] = t[m][h]
        /\ R \subseteq Link
    BY <1>3, <1>7 DEF R
  <2>3. ASSUME e \in R
        PROVE  /\ Len(table'[e][k]) = d.id
               /\ \A j \in DOMAIN table'[e][k] : table'[e][k][j].local # 0
    <3>. DEFINE i1 == d.id
                v  == entry(i)
                r  == t[e][k]
    <3>1. \A j \in DOMAIN r : r[j].local # 0
      BY <1>3, <1>7, <2>3
    <3>2. r \in Seq(Entry) /\ i1 = Len(r) + 1 /\ v \in Entry /\ v.local # 0
      BY <1>3, <1>5, <1>7, <2>1, <2>3
    <3>3. table'[e][k] = SetEntry(r, i1, v)
      BY <2>2
    <3>. HIDE DEF i1, v, r
    <3>4. /\ Len(SetEntry(r, i1, v)) = i1
          /\ \A j \in DOMAIN SetEntry(r, i1, v) : SetEntry(r, i1, v)[j].local # 0
      BY <3>1, <3>2, EntryNext
    <3>. QED
      BY <3>3, <3>4 DEF i1
  <2>4. ASSUME NEW m \in R, NEW h \in Kind
        PROVE  /\ \A j \in DOMAIN table'[m][h] : table'[m][h][j].local # 0
               /\ Len(table'[m][h]) = IF m = e /\ h = k THEN d.id ELSE Len(table[m][h])
    <3>. HIDE DEF k, d, entered
    <3>. QED
      BY SMTT(30), <1>7, <2>2, <2>3
  <2>. QED
    BY <2>4
<1>8. /\ Filled'
      /\ \A m \in R, h \in Kind :
           Len(table'[m][h]) = IF m = e /\ h = k THEN d.id ELSE Len(table[m][h])
  <2>0. ASSUME \A m \in R, h \in Kind : \A j \in DOMAIN table'[m][h] : table'[m][h][j].local # 0
        PROVE  Filled'
    BY <1>0, <2>0 DEF Filled
  <2>1. CASE Known(n, k, d.name) /\ table' = entered(table, IdOf(n, k, d.name))
    <3>1. IdOf(n, k, d.name) \in Nat \ {0}
      <4>1. IdOf(n, k, d.name) \in DOMAIN reg[n][k] /\ reg[n][k] \in Seq(Symbol)
        BY ZenonT(30), <1>3, <1>4, <2>1, TypeOfSaid DEF Known, IdOf
      <4>. QED
        BY SMTT(30), <4>1
    <3>2. \A m \in R, h \in Kind : \A j \in DOMAIN table[m][h] : table[m][h][j].local # 0
      BY <1>0, <1>4 DEF Filled
    <3>. HIDE DEF entered, k, d
    <3>. QED
      BY <1>4, <1>7, <2>0, <2>1, <3>1, <3>2
  <2>2. CASE table' = entered(Localised(n, k, d.name), NextId(n, k))
    <3>1. NextId(n, k) \in Nat \ {0}
      BY SMTT(30), <1>3, <1>4, TypeOfSaid DEF NextId
    <3>2. Localised(n, k, d.name) \in [Link -> [Kind -> Seq(Entry)]]
      BY <1>3, <1>4, LocalisedType
    <3>3. \A m \in Link, h \in Kind :
            /\ Len(Localised(n, k, d.name)[m][h]) = Len(table[m][h])
            /\ m \in R => \A j \in DOMAIN Localised(n, k, d.name)[m][h] :
                 Localised(n, k, d.name)[m][h][j].local # 0
      <4>. DEFINE x == d.name
      <4>1. x \in Symbol /\ n \in Node /\ k \in Kind
        BY <1>3
      <4>. HIDE DEF n, k, x
      <4>2. ASSUME NEW m \in Link, NEW h \in Kind
            PROVE  /\ Len(Localised(n, k, x)[m][h]) = Len(table[m][h])
                   /\ m \in R => \A j \in DOMAIN Localised(n, k, x)[m][h] :
                        Localised(n, k, x)[m][h][j].local # 0
        BY SMTT(30), <1>0, <1>4, <4>1, FilledLocalised
      <4>. QED
        BY <4>2 DEF x
    <3>4. R \subseteq Link
      BY DEF R
    <3>. HIDE DEF entered, k, d
    <3>. QED
      BY <1>7, <2>0, <2>2, <3>1, <3>2, <3>3, <3>4
  <2>. QED
    BY ZenonT(30), <2>1, <2>2 DEF ReadDescription
<1>9. ASSUME NEW m \in Link \ untold', status[Rev(m)] # "none", NEW h \in Kind
      PROVE  Ordered(tcp'[m], h, Len(table'[Rev(m)][h]), Len(said'[m][h]), Open(m))
  <2>. DEFINE c == IF m = l /\ h = k THEN d.id ELSE Len(table[Rev(m)][h])
  <2>1. c \in Nat /\ c <= Len(said[m][h]) /\ Ordered(q[m], h, c, Len(said[m][h]), Open(m))
    BY <1>0, <1>6, <1>9
  <2>2. Len(table'[Rev(m)][h]) = c
    <3>1. Rev(m) \in R /\ (Rev(m) = e <=> m = l)
      BY <1>0, <1>1, RevRev
    <3>. HIDE DEF k, d, l
    <3>. QED
      BY <1>8, <3>1
  <2>. HIDE DEF c
  <2>3. CASE tcp' = q /\ UNCHANGED said
    BY <2>1, <2>2, <2>3
  <2>4. CASE Declare(n, k, d.name, q)
    <3>1. \A j \in DOMAIN q[m] : Truthful(said[m], q[m][j])
      BY <1>2
    <3>. HIDE DEF n, k, d, q
    <3>. QED
      BY <1>2, <1>3, <2>1, <2>2, <2>4, <3>1, OrderDeclare
  <2>. QED
    BY <2>3, <2>4 DEF ReadDescription
<1>. QED
  BY SMTT(30), <1>1, <1>8, <1>9 DEF OrderInv, Open

\* A message that is not a description is read.
LEMMA OrderReadOther ==
  ASSUME Inv, OrderInv, NEW e \in Link, ReadUdpPort(e) \/ ReadUser(e)
  PROVE  OrderInv'
<1>1. /\ Reading(e) /\ tcp' = Popped(e) /\ Head(tcp[Rev(e)]).kind # "desc"
      /\ UNCHANGED <<status, table, said, untold>>
  BY DEF ReadUdpPort, ReadUser, UdpPort, IsUser
<1>2. ASSUME NEW l \in Link \ untold, status[Rev(l)] # "none", NEW h \in Kind
      PROVE  Ordered(tcp'[l], h, Len(table[Rev(l)][h]), Len(said[l][h]), Open(l))
  <2>1. l # Rev(e) \/ ~DescOf(Head(tcp[l]), h)
    BY <1>1 DEF DescOf
  <2>. QED
    BY <1>1, <1>2, <2>1, OrderRead
<1>. QED
  BY <1>1, <1>2 DEF OrderInv, Filled, Open

\* A user message is packed behind the descriptions of its type and its sender.
LEMMA OrderSend ==
  ASSUME Inv, OrderInv, NEW n \in Node, NEW ids \in Legal(n), NEW reliable \in BOOLEAN,
         Send(n, ids, reliable)
  PROVE  OrderInv'
<1>. DEFINE msg == User(ids, [k \in Kind |-> reg[n][k][ids[k]]])
            byUdp == IF reliable THEN {} ELSE udpTo
<1>1. tcp' = Pack(tcp, Ends(n) \ byUdp, <<msg>>) /\ UNCHANGED <<status, table, said, untold>>
  BY DEF Send
<1>2. /\ msg \in Message /\ msg.kind = "user" /\ msg.ids = ids
      /\ \A k \in Kind : ids[k] \in 1..Len(reg[n][k])
  <2>1. \A k \in Kind : ids[k] \in DOMAIN reg[n][k] /\ reg[n][k] \in Seq(Symbol)
    BY TypeOfSaid DEF Legal, Inv
  <2>2. ids \in [Kind -> Nat]
    BY <2>1 DEF Legal
  <2>3. [k \in Kind |-> reg[n][k][ids[k]]] \in [Kind -> Symbol]
    BY <2>1
  <2>4. msg.kind = "user" /\ msg.ids = ids
    BY DEF User
  <2>5. msg \in Message
    <3>. DEFINE names == [k \in Kind |-> reg[n][k][ids[k]]]
    <3>1. names \in [Kind -> Symbol] /\ msg = User(ids, names)
      BY <2>3
    <3>. HIDE DEF names, msg
    <3>. QED
      BY <2>2, <3>1, MessageTypes
  <2>6. \A k \in Kind : ids[k] \in 1..Len(reg[n][k])
    BY <2>1
  <2>. HIDE DEF msg
  <2>. QED
    BY <2>4, <2>5, <2>6
<1>. HIDE DEF msg, byUdp
<1>3. ASSUME NEW e \in Link \ untold, status[Rev(e)] # "none", NEW h \in Kind
      PROVE  Ordered(tcp'[e], h, Len(table[Rev(e)][h]), Len(said[e][h]), Open(e))
  <2>. DEFINE d == Len(table[Rev(e)][h])
              s == Len(said[e][h])
  <2>1. Ordered(tcp[e], h, d, s, Open(e)) /\ Filled
    BY <1>3 DEF OrderInv
  <2>2. d \in Nat /\ s \in Nat /\ tcp[e] \in Seq(Message)
    BY <2>1, Reach
  <2>3. CASE e \in Ends(n) \ byUdp /\ Open(e)
    <3>1. tcp'[e] = Append(tcp[e], msg)
      <4>1. tcp'[e] = tcp[e] \o <<msg>>
        BY <1>1, <2>3 DEF Pack
      <4>. QED
        BY <1>2, <2>2, <4>1, AppendIsConcat
    <3>2. msg.ids[h] \in 1..s
      BY <1>2, <2>3 DEF Inv, Sessions, Open, Ends
    <3>3. Continues(tcp[e], h, d) /\ Announced(tcp[e], h, d) /\ Complete(tcp[e], h, d, s)
      BY <2>1, <2>3 DEF Ordered
    <3>4. ~DescOf(msg, h)
      BY <1>2 DEF DescOf
    <3>. HIDE DEF d, s
    <3>5. /\ Continues(Append(tcp[e], msg), h, d) /\ Announced(Append(tcp[e], msg), h, d)
          /\ Complete(Append(tcp[e], msg), h, d, s)
      BY <1>2, <2>2, <3>2, <3>3, <3>4, OrderPushed
    <3>. QED
      BY <3>1, <3>5 DEF Ordered, d, s
  <2>4. CASE ~(e \in Ends(n) \ byUdp /\ Open(e))
    <3>1. tcp'[e] = tcp[e]
      BY <1>1, <2>4 DEF Pack
    <3>. QED
      BY <2>1, <3>1
  <2>. QED
    BY <2>3, <2>4
<1>. QED
  BY <1>1, <1>3 DEF OrderInv, Filled, Open

LEMMA OrderConnect ==
  ASSUME Inv, OrderInv, NEW e \in Link, Connect(e)
  PROVE  OrderInv'
<1>1. /\ status[e] = "none" /\ status[Rev(e)] = "none"
      /\ status' = [status EXCEPT ![e] = "COOKIE_PENDING", ![Rev(e)] = "COOKIE_PENDING"]
      /\ said' = [said EXCEPT ![e] = Empty, ![Rev(e)] = Empty]
      /\ untold' = untold \ {e, Rev(e)}
      /\ UNCHANGED <<table, tcp>>
  BY DEF Connect
<1>2. /\ status \in [Link -> {"none", "COOKIE_PENDING", "CONNECTED"}]
      /\ DOMAIN said = Link
  BY DEF Inv, TypeOK
<1>3. ASSUME NEW l \in Link \ untold', status'[Rev(l)] # "none", NEW h \in Kind
      PROVE  Ordered(tcp[l], h, Len(table[Rev(l)][h]), Len(said'[l][h]), Open(l)')
  <2>1. CASE l = e \/ l = Rev(e)
    <3>1. Rev(l) \in {e, Rev(e)} /\ status[l] = "none" /\ status[Rev(l)] = "none" /\ Rev(l) \in Link
      BY <1>1, <2>1, RevRev
    <3>2. tcp[l] = <<>>
      BY <3>1, RevRev DEF Inv, Sessions
    <3>3. ~Open(l)'
      BY <1>1, <1>2, <2>1, RevRev DEF Open
    <3>. QED
      BY <3>2, <3>3, OrderEmpty
  <2>2. CASE l # e /\ l # Rev(e)
    <3>1. /\ Rev(l) # e /\ Rev(l) # Rev(e) /\ Rev(l) \in Link
      BY <2>2, RevRev
    <3>2. /\ l \notin untold /\ status'[l] = status[l] /\ status'[Rev(l)] = status[Rev(l)]
          /\ said'[l] = said[l]
      BY <1>1, <1>2, <2>2, <3>1
    <3>. QED
      BY <1>3, <3>2 DEF OrderInv, Open
  <2>. QED
    BY <2>1, <2>2
<1>4. Filled'
  <2>. SUFFICES ASSUME NEW l \in Link \ untold', NEW k \in Kind, NEW i \in DOMAIN table[Rev(l)][k]
                PROVE  table[Rev(l)][k][i].local # 0
    BY <1>1 DEF Filled
  <2>1. CASE l \in untold
    <3>1. status[Rev(l)] = "none" /\ Rev(l) \in Link
      BY <1>1, <2>1, RevRev
    <3>. QED
      BY <3>1 DEF Inv, Sessions, Blank
  <2>2. CASE l \notin untold
    BY <2>2 DEF OrderInv, Filled
  <2>. QED
    BY <2>1, <2>2
<1>. QED
  BY <1>1, <1>3, <1>4 DEF OrderInv

LEMMA OrderFinish ==
  ASSUME Inv, OrderInv, NEW e \in Link, Finish(e)
  PROVE  OrderInv'
<1>. PICK g \in Seq(Message) :
       /\ Greet(e, g) /\ untold \subseteq untold'
       /\ e \notin untold' => g = Greeting(e[1])
  BY FinishGreets DEF Inv
<1>1. /\ status[e] = "COOKIE_PENDING"
      /\ status' = [status EXCEPT ![e] = "CONNECTED"]
      /\ said' = [said EXCEPT ![e] = reg[e[1]]]
      /\ tcp' = IF status[Rev(e)] = "none" THEN tcp ELSE [tcp EXCEPT ![e] = @ \o g]
      /\ UNCHANGED table
  BY DEF Greet
<1>2. /\ status \in [Link -> {"none", "COOKIE_PENDING", "CONNECTED"}]
      /\ DOMAIN said = Link /\ DOMAIN tcp = Link /\ TypeOK
  BY DEF Inv, TypeOK
<1>3. ASSUME NEW l \in Link \ untold', status'[Rev(l)] # "none", NEW h \in Kind
      PROVE  Ordered(tcp'[l], h, Len(table[Rev(l)][h]), Len(said'[l][h]), Open(l)')
  <2>1. status[Rev(l)] # "none"
    BY <1>1, <1>2, <1>3, RevRev
  <2>2. CASE l = e
    <3>1. tcp[e] = <<>> /\ Blank(Rev(e)) /\ Rev(e) \in Link
      BY <1>1, RevRev DEF Inv, Sessions
    <3>2. DOMAIN table[Rev(e)][h] = {} /\ table[Rev(e)][h] \in Seq(Entry)
      BY <1>2, <3>1 DEF Blank, TypeOK
    <3>3. Len(table[Rev(e)][h]) = 0
      BY <3>2, NothingLong
    <3>4. Greeting(e[1]) \in Seq(Message) /\ e[1] \in Node
      BY <1>2, LinkEnds, GreetingType
    <3>5. tcp'[e] = Greeting(e[1]) /\ said'[e] = reg[e[1]]
      BY <1>1, <1>2, <1>3, <2>1, <2>2, <3>1, <3>4, ConcatEmptySeq
    <3>6. Ordered(Greeting(e[1]), h, 0, Len(reg[e[1]][h]), TRUE)
      BY <1>2, <3>4, OrderGreeting
    <3>. QED
      BY <2>2, <3>3, <3>5, <3>6 DEF Ordered
  <2>3. CASE l # e
    <3>1. tcp'[l] = tcp[l] /\ said'[l] = said[l] /\ (Open(l)' => Open(l))
      BY <1>1, <1>2, <2>1, <2>3, RevRev DEF Open
    <3>2. Ordered(tcp[l], h, Len(table[Rev(l)][h]), Len(said[l][h]), Open(l))
      BY <2>1 DEF OrderInv
    <3>. QED
      BY <3>1, <3>2 DEF Ordered
  <2>. QED
    BY <2>2, <2>3
<1>. QED
  BY <1>1, <1>3 DEF OrderInv, Filled

\* Sockets are closed; what was packed may be cut off.
LEMMA OrderClose ==
  ASSUME Inv, OrderInv, NEW E \in SUBSET Link, Close(E), UNCHANGED <<said, untold>>
  PROVE  OrderInv'
<1>1. /\ status' = [e \in Link |-> IF e \in E THEN "none" ELSE status[e]]
      /\ table' = [e \in Link |-> IF e \in E THEN Empty ELSE table[e]]
  BY DEF Close, Cleared
<1>2. Filled'
  <2>. SUFFICES ASSUME NEW e \in Link \ untold, NEW k \in Kind, NEW i \in DOMAIN table'[Rev(e)][k]
                PROVE  table'[Rev(e)][k][i].local # 0
    BY DEF Filled
  <2>1. Rev(e) \in Link /\ Rev(e) \notin E
    BY <1>1, RevRev DEF Empty
  <2>. QED
    BY <1>1, <2>1 DEF OrderInv, Filled
<1>3. ASSUME NEW l \in Link \ untold, status'[Rev(l)] # "none", NEW h \in Kind
      PROVE  Ordered(tcp'[l], h, Len(table'[Rev(l)][h]), Len(said[l][h]), Open(l)')
  <2>1. /\ Rev(l) \in Link /\ Rev(l) \notin E /\ status[Rev(l)] # "none"
        /\ table'[Rev(l)] = table[Rev(l)]
    BY <1>1, <1>3, RevRev
  <2>. DEFINE d == Len(table[Rev(l)][h])
              s == Len(said[l][h])
  <2>2. Ordered(tcp[l], h, d, s, Open(l)) /\ Filled
    BY <2>1 DEF OrderInv
  <2>3. d \in Nat /\ tcp[l] \in Seq(Message)
    BY <2>2, Reach
  <2>4. /\ tcp'[l] \in Seq(Message)
        /\ \A j \in DOMAIN tcp'[l] : j \in DOMAIN tcp[l] /\ tcp'[l][j] = tcp[l][j]
        /\ l \notin E => tcp'[l] = tcp[l]
    BY <2>1, CloseCuts DEF Inv
  <2>5. Open(l)' => l \notin E /\ Open(l)
    BY <1>1, <2>1 DEF Open
  <2>6. Continues(tcp[l], h, d) /\ Announced(tcp[l], h, d) /\ (Open(l) => Complete(tcp[l], h, d, s))
    BY <2>2 DEF Ordered
  <2>. HIDE DEF d, s
  <2>7. Continues(tcp'[l], h, d) /\ Announced(tcp'[l], h, d)
    BY <2>3, <2>4, <2>6, OrderCut
  <2>8. Open(l)' => Complete(tcp'[l], h, d, s)
    BY <2>4, <2>5, <2>6
  <2>9. Ordered(tcp'[l], h, d, s, Open(l)')
    BY <2>7, <2>8 DEF Ordered
  <2>. QED
    BY <2>1, <2>9 DEF d, s
<1>. QED
  BY <1>2, <1>3 DEF OrderInv

\* Every step keeps the order of the descriptions.
LEMMA OrderStep == Inv /\ OrderInv /\ [Next]_vars => OrderInv'
<1>. SUFFICES ASSUME Inv, OrderInv, [Next]_vars PROVE OrderInv'
  OBVIOUS
<1>1. ASSUME NEW n \in Node, NEW k \in Kind, NEW x \in Names(k), Register(n, k, x)
      PROVE  OrderInv'
  BY <1>1, OrderRegister
<1>2. ASSUME NEW n \in Node, NEW ids \in Legal(n), NEW reliable \in BOOLEAN,
             Send(n, ids, reliable)
      PROVE  OrderInv'
  BY <1>2, OrderSend
<1>3. ASSUME NEW n \in Node, Restart(n)
      PROVE  OrderInv'
  <2>1. Ends(n) \in SUBSET Link /\ Close(Ends(n)) /\ UNCHANGED <<said, untold>>
    BY <1>3 DEF Restart, Ends
  <2>. QED
    BY <2>1, OrderClose
<1>4. ASSUME NEW e \in Link, Connect(e) \/ Finish(e)
      PROVE  OrderInv'
  BY <1>4, OrderConnect, OrderFinish
<1>5. ASSUME NEW e \in Link, Read(e)
      PROVE  OrderInv'
  BY <1>5, OrderReadDescription, OrderReadOther DEF Read
<1>6. ASSUME NEW e \in Link, UdpArrivesOrNot(e)
      PROVE  OrderInv'
  <2>1. UNCHANGED <<status, table, tcp, said, untold>>
    BY <1>6 DEF UdpArrivesOrNot
  <2>. QED
    BY <2>1 DEF OrderInv, Filled, Open
<1>7. ASSUME NEW e \in Link, Gone(e) \/ Break(e)
      PROVE  OrderInv'
  <2>1. {e} \in SUBSET Link /\ Close({e}) /\ UNCHANGED <<said, untold>>
    BY <1>7 DEF Gone, Break
  <2>. QED
    BY <2>1, OrderClose
<1>8. CASE UNCHANGED vars
  BY <1>8 DEF vars, OrderInv, Filled, Open
<1>. QED
  BY <1>1, <1>2, <1>3, <1>4, <1>5, <1>6, <1>7, <1>8 DEF Next

LEMMA OrderInit == Init => OrderInv
<1>. SUFFICES ASSUME Init PROVE OrderInv
  OBVIOUS
<1>1. \A e \in Link : status[e] = "none" /\ \A k \in Kind : table[e][k] = <<>>
  BY DEF Init, Empty
<1>. QED
  BY <1>1, RevRev DEF OrderInv, Filled

LEMMA OrderAlways == Spec => [](Inv /\ OrderInv)
BY InvInit, InvStep, OrderInit, OrderStep, PTL DEF Spec

LEMMA OrderIsEnough == Inv /\ OrderInv => DescribedInOrder
<1>. SUFFICES ASSUME Inv, OrderInv, NEW e \in Link \ untold, status[Rev(e)] # "none", NEW k \in Kind
              PROVE  LET done  == Len(table[Rev(e)][k])
                         at    == {i \in DOMAIN tcp[e] : tcp[e][i].kind = "desc" /\ tcp[e][i].of = k}
                         id(i) == tcp[e][i].id
                         told(n) == \E i \in at : id(i) = n
                     IN /\ \A i \in at : /\ id(i) \in (done + 1)..Len(said[e][k])
                                         /\ tcp[e][i].name = said[e][k][id(i)]
                                         /\ \A j \in at : j < i => id(j) < id(i)
                                         /\ \A n \in (done + 1)..id(i) : told(n)
                        /\ Open(e) => \A n \in (done + 1)..Len(reg[e[1]][k]) : told(n)
  BY DEF DescribedInOrder
<1>. DEFINE done  == Len(table[Rev(e)][k])
            at    == {i \in DOMAIN tcp[e] : tcp[e][i].kind = "desc" /\ tcp[e][i].of = k}
            id(i) == tcp[e][i].id
            told(n) == \E i \in at : id(i) = n
            s == Len(said[e][k])
<1>1. Continues(tcp[e], k, done) /\ (Open(e) => Complete(tcp[e], k, done, s)) /\ Filled
  BY DEF OrderInv, Ordered
<1>2. /\ done \in Nat /\ s \in Nat /\ tcp[e] \in Seq(Message)
  BY <1>1, Reach
<1>3. Open(e) => s = Len(reg[e[1]][k])
  BY DEF Open, Inv, Sessions
<1>4. \A n : Told(tcp[e], k, n) <=> told(n)
  BY DEF Told, DescOf
<1>5. ASSUME NEW i \in at
      PROVE  /\ id(i) \in 1..s /\ tcp[e][i].name = said[e][k][id(i)]
             /\ i \in DOMAIN tcp[e] /\ DescOf(tcp[e][i], k)
  <2>1. Truthful(said[e], tcp[e][i]) /\ said[e][k] \in Seq(Symbol)
    BY TypeOfSaid DEF Inv, Queued
  <2>. QED
    BY <2>1 DEF Truthful, In, DescOf
<1>6. ASSUME NEW i \in at
      PROVE  /\ id(i) \in (done + 1)..s /\ \A n \in (done + 1)..id(i) : told(n)
             /\ \A j \in at : j < i => id(j) < id(i)
  <2>. HIDE DEF done, s
  <2>1. id(i) > done /\ \A n \in (done + 1)..id(i) : Told(tcp[e], k, n)
    BY <1>1, <1>5 DEF Continues
  <2>2. \A j \in at : j < i => id(j) < id(i)
    BY <1>1, <1>5 DEF Continues
  <2>3. id(i) \in (done + 1)..s
    BY <1>2, <1>5, <2>1
  <2>4. \A n \in (done + 1)..id(i) : told(n)
    BY <1>4, <2>1
  <2>. QED
    BY <2>2, <2>3, <2>4
<1>7. Open(e) => \A n \in (done + 1)..Len(reg[e[1]][k]) : told(n)
  BY <1>1, <1>3, <1>4 DEF Complete
<1>. QED
  BY <1>5, <1>6, <1>7

LEMMA OrderTells == Inv /\ OrderInv => ReliableUnderstood
<1>. SUFFICES ASSUME Inv, OrderInv, NEW e \in Link \ untold, NEW i \in DOMAIN tcp[e], IsUser(tcp[e][i]),
                     NEW k \in Kind,
                     LocalId(Rev(e), k, tcp[e][i].ids[k]) = 0
              PROVE  \E j \in 1..(i - 1) : /\ tcp[e][j].kind = "desc"
                                           /\ tcp[e][j].of = k /\ tcp[e][j].id = tcp[e][i].ids[k]
  BY DEF ReliableUnderstood
<1>1. Rev(e) \in Link /\ Rev(Rev(e)) = e
  BY RevRev
<1>2. status[Rev(e)] # "none"
  BY <1>1 DEF Inv, Sessions
<1>3. Announced(tcp[e], k, Len(table[Rev(e)][k]))
  BY <1>2 DEF OrderInv, Ordered
<1>4. tcp[e][i].ids[k] \notin 1..Len(table[Rev(e)][k])
  <2>1. table[Rev(e)][k] \in Seq(Entry)
    BY <1>1 DEF Inv, TypeOK
  <2>. QED
    BY <1>1, <2>1 DEF LocalId, OrderInv, Filled
<1>. QED
  BY <1>3, <1>4 DEF Announced, IsUser, DescOf

\* However often connections break and are made again and processes restart, and whoever
\* registers what when, a node describes its names to each node it is connected to in order,
\* none twice, and none left out once the handshake is over, but for an endpoint passed over.
THEOREM DescriptionsInOrder == Spec => []DescribedInOrder
BY OrderAlways, OrderIsEnough, PTL

\* Whoever reads a user message sent by TCP knows its type and its sender, or has their
\* descriptions before it in the queue, unless the endpoint that sent it was passed over.
THEOREM ReliableIsUnderstood == Spec => []ReliableUnderstood
BY OrderAlways, OrderTells, PTL
=============================================================================
