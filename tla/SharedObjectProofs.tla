---- MODULE SharedObjectProofs ----
(* Theorems about SharedObject, for any values, objects, policies and bounds. *)
EXTENDS SharedObject, SequenceTheorems, TLAPS

----------------------------------------------------------------------------
(* The types of the messages under way to an end.                               *)

TypesOf(s) == {s[i].type : i \in 1 .. Len(s)}

\* No two messages of a type, other than updates.
Single(s) ==
    \A i, j \in 1 .. Len(s) : s[i].type # "update" /\ s[i].type = s[j].type => i = j

Has(e, type) == type \in TypesOf(chan[e])

\* One negotiation at a time: a request stands for an end that negotiates, a grant for
\* two, and an assumption comes from a serializer to an end that negotiates; they exclude
\* each other, except for the next request right behind an assumption.
Negotiation ==
    /\ \A e \in End : Single(chan[e])
    /\ \A e \in End : Has(e, "request") => isNegotiating[Other(e)]
    /\ \A e \in End : Has(e, "grant") =>
          /\ isNegotiating[e] /\ isNegotiating[Other(e)]
          /\ ~Has(Other(e), "grant")
          /\ \A x \in End : ~Has(x, "request") /\ ~Has(x, "assume")
    /\ \A e \in End : Has(e, "assume") =>
          /\ isNegotiating[e] /\ isSerializer[Other(e)]
          /\ ~Has(Other(e), "assume") /\ ~Has(Other(e), "request")

IInv == TypeOK /\ Negotiation /\ SomeoneSerializes

LEMMA Ends ==
    /\ End = {"server", "remote"}
    /\ \A e \in End : Other(e) \in End /\ Other(e) # e /\ Other(Other(e)) = e
    /\ \A e, x \in End : x = e \/ x = Other(e)
BY DEF End, Other

\* A message is added to a channel.
LEMMA SentOne ==
    ASSUME NEW s \in Seq(Msg), NEW m \in Msg
    PROVE  /\ Append(s, m) \in Seq(Msg)
           /\ TypesOf(Append(s, m)) = TypesOf(s) \cup {m.type}
           /\ Single(s) /\ (m.type = "update" \/ m.type \notin TypesOf(s))
                => Single(Append(s, m))
<1>1. /\ Append(s, m) \in Seq(Msg) /\ Len(Append(s, m)) = Len(s) + 1 /\ Len(s) \in Nat
      /\ Append(s, m)[Len(s) + 1] = m
      /\ \A i \in 1 .. Len(s) : Append(s, m)[i] = s[i]
  OBVIOUS
<1> DEFINE s2 == Append(s, m)
<1> HIDE DEF s2
<1>2. /\ Len(s2) = Len(s) + 1 /\ Len(s) \in Nat /\ s2[Len(s) + 1] = m
      /\ \A i \in 1 .. Len(s) : s2[i] = s[i]
  BY <1>1 DEF s2
<1>3. TypesOf(s2) = TypesOf(s) \cup {m.type}
  <2>1. \A i \in 1 .. Len(s2) : s2[i].type \in TypesOf(s) \cup {m.type}
    BY <1>2 DEF TypesOf
  <2>2. \A i \in 1 .. Len(s) : i \in 1 .. Len(s2) /\ s2[i].type = s[i].type
    BY <1>2
  <2>3. Len(s) + 1 \in 1 .. Len(s2)
    BY <1>2
  <2> QED
    BY <1>2, <2>1, <2>2, <2>3 DEF TypesOf
<1>4. ASSUME Single(s), m.type = "update" \/ m.type \notin TypesOf(s)
      PROVE  Single(s2)
  <2> SUFFICES ASSUME NEW i \in 1 .. Len(s2), NEW j \in 1 .. Len(s2),
                      s2[i].type # "update", s2[i].type = s2[j].type
               PROVE  i = j
    BY DEF Single
  <2>1. \A k \in 1 .. Len(s) : s2[k].type \in TypesOf(s)
    BY <1>2 DEF TypesOf
  <2>2. CASE i \in 1 .. Len(s) /\ j \in 1 .. Len(s)
    BY <1>2, <1>4, <2>2 DEF Single
  <2>3. CASE i = Len(s) + 1 \/ j = Len(s) + 1
    BY <1>2, <1>4, <2>1, <2>3
  <2> QED
    BY <1>2, <2>2, <2>3
<1> QED
  BY <1>1, <1>3, <1>4 DEF s2

\* The first message is taken from a channel.
LEMMA TookOne ==
    ASSUME NEW s \in Seq(Msg), s # <<>>
    PROVE  /\ Tail(s) \in Seq(Msg) /\ Head(s) \in Msg
           /\ TypesOf(s) = TypesOf(Tail(s)) \cup {Head(s).type}
           /\ Single(s) => Single(Tail(s))
           /\ Single(s) /\ Head(s).type # "update" => Head(s).type \notin TypesOf(Tail(s))
<1>1. /\ Tail(s) \in Seq(Msg) /\ Head(s) \in Msg /\ Len(s) \in Nat \ {0}
      /\ Len(Tail(s)) = Len(s) - 1 /\ Head(s) = s[1]
      /\ \A i \in 1 .. Len(s) - 1 : Tail(s)[i] = s[i + 1]
  OBVIOUS
<1> DEFINE t == Tail(s)
           h == Head(s)
<1> HIDE DEF t, h
<1>2. /\ Len(s) \in Nat \ {0} /\ Len(t) = Len(s) - 1 /\ h = s[1]
      /\ \A i \in 1 .. Len(t) : t[i] = s[i + 1] /\ i + 1 \in 1 .. Len(s)
  BY <1>1 DEF t, h
<1>3. \A i \in 1 .. Len(s) : i = 1 \/ (i - 1 \in 1 .. Len(t) /\ t[i - 1] = s[i])
  BY <1>2
<1>4. TypesOf(s) = TypesOf(t) \cup {h.type}
  <2>1. TypesOf(s) \subseteq TypesOf(t) \cup {h.type}
    BY <1>2, <1>3 DEF TypesOf
  <2>2. 1 \in 1 .. Len(s)
    BY <1>2
  <2>3. TypesOf(t) \subseteq TypesOf(s) /\ h.type \in TypesOf(s)
    BY <1>2, <2>2 DEF TypesOf
  <2> QED
    BY <2>1, <2>3
<1>5. ASSUME Single(s) PROVE Single(t)
  <2> SUFFICES ASSUME NEW i \in 1 .. Len(t), NEW j \in 1 .. Len(t),
                      t[i].type # "update", t[i].type = t[j].type
               PROVE  i = j
    BY DEF Single
  <2>1. i + 1 = j + 1
    BY <1>2, <1>5 DEF Single
  <2> QED
    BY <1>2, <2>1
<1>6. ASSUME Single(s), h.type # "update", h.type \in TypesOf(t) PROVE FALSE
  <2>1. PICK i \in 1 .. Len(t) : t[i].type = h.type
    BY <1>6 DEF TypesOf
  <2>2. i + 1 = 1
    BY <1>2, <1>6, <2>1 DEF Single
  <2> QED
    BY <1>2, <2>2
<1> QED
  BY <1>1, <1>4, <1>5, <1>6 DEF t, h

----------------------------------------------------------------------------
(* Types.                                                                       *)

ObjTypes == kind \in Kind /\ mode \subseteq Flags /\ policy \in [End -> Policy]
ValueTypes == value \in [End -> Value] /\ stamp \in [End -> Time]
SerialTypes == isSerializer \in [End -> BOOLEAN] /\ isNegotiating \in [End -> BOOLEAN]
NetTypes == up \in BOOLEAN /\ chan \in [End -> Seq(Msg)]
CountTypes == sets \in Nat /\ requests \in Nat /\ breaks \in Nat
LatestType == latest \in [value : Value, when : Nat, sent : BOOLEAN, tied : BOOLEAN]
CallTypes == steady \in BOOLEAN /\ calls \in [End -> Seq(Value)]

LEMMA TypeParts ==
    /\ TypeOK <=> /\ ObjTypes /\ ValueTypes /\ SerialTypes /\ NetTypes /\ CountTypes
                  /\ LatestType /\ CallTypes
    /\ TypeOK' <=> /\ ObjTypes' /\ ValueTypes' /\ SerialTypes' /\ NetTypes' /\ CountTypes'
                   /\ LatestType' /\ CallTypes'
BY Zenon DEF TypeOK, ObjTypes, ValueTypes, SerialTypes, NetTypes, CountTypes, LatestType,
   CallTypes

LEMMA TypeInit == Init => TypeOK
<1> SUFFICES ASSUME Init PROVE TypeOK
  OBVIOUS
<1>1. ObjTypes
  BY SharedAssumption DEF Init, ObjTypes
<1>2. ValueTypes /\ CountTypes /\ SerialTypes
  BY SharedAssumption DEF Init, ValueTypes, CountTypes, SerialTypes, Time
<1>3. up \in BOOLEAN /\ steady \in BOOLEAN
  BY Zenon DEF Init
<1>4. NetTypes /\ CallTypes
  BY <1>3 DEF Init, NetTypes, CallTypes
<1>5. LatestType
  BY SharedAssumption DEF Init, LatestType
<1> QED
  BY <1>1, <1>2, <1>4, <1>5, TypeParts

\* What an end packs has a type.
LEMMA PackedType ==
    ASSUME NetTypes, NEW e \in End, NEW m \in Msg,
           NEW c \in [End -> Seq(Msg)]
    PROVE  Packed(c, e, m) \in [End -> Seq(Msg)]
<1>1. Append(c[Other(e)], m) \in Seq(Msg)
  BY Ends
<1> QED
  BY <1>1, Ends DEF Packed

LEMMA Messages ==
    /\ \A v \in Value, t \in Time : Update(v, t) \in Msg /\ Update(v, t).type = "update"
    /\ \A c \in {"request", "grant", "assume"} : Control(c) \in Msg /\ Control(c).type = c
    /\ \A m \in Msg : m.type = "update" => m.value \in Value /\ m.when \in Time
BY DEF Update, Control, Msg

\* What is left of the channels when the first message to e is taken.
LEMMA RestType ==
    ASSUME NetTypes, NEW e \in End, chan[e] # <<>>
    PROVE  Rest(e) \in [End -> Seq(Msg)] /\ Head(chan[e]) \in Msg
BY TookOne DEF NetTypes, Rest

LEMMA StoreType ==
    ASSUME ValueTypes, NEW e \in End, NEW v \in Value, NEW t \in Time, NEW accepted,
           Store(e, v, t, accepted)
    PROVE  ValueTypes'
BY DEF ValueTypes, Store

LEMMA AnnounceType ==
    ASSUME CallTypes, NEW e \in End, NEW v \in Value, NEW accepted, Announce(e, v, accepted)
    PROVE  calls' \in [End -> Seq(Value)]
<1>1. \A s \in Seq(Value) : Append(s, v) \in Seq(Value)
  OBVIOUS
<1> QED
  BY <1>1 DEF CallTypes, Announce

LEMMA LatestAfterType ==
    ASSUME LatestType, NetTypes, NEW v \in Value, NEW t \in Time, NEW sent
    PROVE  LatestAfter(v, t, sent) \in [value : Value, when : Nat, sent : BOOLEAN, tied : BOOLEAN]
<1>1. t \in Nat
  BY SharedAssumption DEF Time
<1>2. [value |-> v, when |-> t, sent |-> up, tied |-> FALSE]
        \in [value : Value, when : Nat, sent : BOOLEAN, tied : BOOLEAN]
  BY <1>1, Zenon DEF NetTypes
<1>3. [latest EXCEPT !.tied = TRUE]
        \in [value : Value, when : Nat, sent : BOOLEAN, tied : BOOLEAN]
  BY DEF LatestType
<1> QED
  BY <1>2, <1>3, Zenon DEF LatestAfter, LatestType

LEMMA TypeSet ==
    ASSUME TypeOK, NEW e \in End, NEW v \in Value, NEW t \in Time, Set(e, v, t)
    PROVE  TypeOK'
<1>1. PICK accepted \in ShouldAccept(e, v, t, TRUE) :
         /\ Store(e, v, t, accepted)
         /\ chan' = IF ShouldSend(e, TRUE, accepted) THEN Packed(chan, e, Update(v, t)) ELSE chan
         /\ latest' = LatestAfter(v, t, ShouldSend(e, TRUE, accepted))
         /\ Announce(e, v, accepted)
  BY DEF Set
<1>2. /\ sets' = sets + 1
      /\ UNCHANGED <<objVars, serialVars, up, requests, breaks, steady>>
  BY DEF Set
<1>3. ValueTypes'
  BY <1>1, StoreType, TypeParts
<1>4. chan' \in [End -> Seq(Msg)]
  <2>1. Packed(chan, e, Update(v, t)) \in [End -> Seq(Msg)]
    BY Messages, PackedType, TypeParts DEF NetTypes
  <2> QED
    BY <1>1, <2>1, TypeParts DEF NetTypes
<1>5. NetTypes'
  BY <1>2, <1>4, TypeParts, Zenon DEF NetTypes
<1>6. LatestType'
  BY <1>1, LatestAfterType, TypeParts, Zenon DEF LatestType
<1>7. calls' \in [End -> Seq(Value)]
  BY <1>1, AnnounceType, TypeParts
<1>8. CallTypes'
  BY <1>2, <1>7, TypeParts, Zenon DEF CallTypes
<1>9. ObjTypes' /\ SerialTypes' /\ CountTypes'
  BY <1>2, TypeParts DEF objVars, serialVars, ObjTypes, SerialTypes, CountTypes
<1> QED
  BY <1>3, <1>5, <1>6, <1>8, <1>9, TypeParts

LEMMA TypeHandleUpdate ==
    ASSUME TypeOK, NEW e \in End, HandleUpdate(e)
    PROVE  TypeOK'
<1> DEFINE m == Head(chan[e])
<1>1. PICK accepted \in ShouldAccept(e, m.value, m.when, FALSE) :
         /\ Store(e, m.value, m.when, accepted)
         /\ chan' = IF ShouldSend(e, FALSE, accepted)
                    THEN Packed(Rest(e), e, Update(m.value, m.when)) ELSE Rest(e)
         /\ IF steady
            THEN Announce(e, m.value, accepted)
            ELSE calls' = [x \in End |-> <<>>]
  BY DEF HandleUpdate
<1>2. /\ chan[e] # <<>> /\ m.type = "update" /\ steady' = (steady \/ Settled')
      /\ UNCHANGED <<objVars, serialVars, up, counters, latest>>
  BY DEF HandleUpdate, Receive, SteadyAfter
<1>3. Rest(e) \in [End -> Seq(Msg)] /\ m.value \in Value /\ m.when \in Time
  BY <1>2, Messages, RestType, TypeParts
<1>4. ValueTypes'
  BY <1>1, <1>3, StoreType, TypeParts
<1>5. chan' \in [End -> Seq(Msg)]
  <2>1. Packed(Rest(e), e, Update(m.value, m.when)) \in [End -> Seq(Msg)]
    BY <1>3, Messages, PackedType, TypeParts
  <2> QED
    BY <1>1, <1>3, <2>1
<1>6. NetTypes'
  BY <1>2, <1>5, TypeParts, Zenon DEF NetTypes
<1>7. calls' \in [End -> Seq(Value)]
  <2>1. Announce(e, m.value, accepted) \/ calls' = [x \in End |-> <<>>]
    BY <1>1, Zenon
  <2>2. [x \in End |-> <<>>] \in [End -> Seq(Value)]
    OBVIOUS
  <2>3. CASE Announce(e, m.value, accepted)
    BY <1>3, <2>3, AnnounceType, TypeParts
  <2> QED
    BY <2>1, <2>2, <2>3
<1>8. steady' \in BOOLEAN
  BY <1>2, Zenon
<1>9. ObjTypes' /\ SerialTypes' /\ CountTypes'
  BY <1>2, TypeParts DEF objVars, serialVars, counters, ObjTypes, SerialTypes, CountTypes
<1>10. LatestType'
  BY <1>2, TypeParts, Zenon DEF LatestType
<1> QED
  BY <1>4, <1>6, <1>7, <1>8, <1>9, <1>10, TypeParts DEF CallTypes

\* The messages of a negotiation keep the types.
LEMMA TypeRequest ==
    ASSUME TypeOK, NEW e \in End, HandleRequest(e)
    PROVE  TypeOK'
<1>1. Rest(e) \in [End -> Seq(Msg)]
  BY RestType, TypeParts DEF HandleRequest, Receive
<1>2. Packed(Rest(e), e, Control("grant")) \in [End -> Seq(Msg)]
  BY <1>1, Messages, PackedType, TypeParts
<1>3. chan' \in [End -> Seq(Msg)]
  BY <1>1, <1>2 DEF HandleRequest
<1>4. UNCHANGED <<objVars, value, stamp, isSerializer, up, history>>
  BY DEF HandleRequest
<1>5. NetTypes' /\ LatestType' /\ CallTypes'
  BY <1>3, <1>4, TypeParts, Zenon DEF NetTypes, LatestType, CallTypes, history
<1>6. SerialTypes'
  <2>1. isNegotiating' \in [End -> BOOLEAN]
    BY TypeParts DEF HandleRequest, SerialTypes
  <2> QED
    BY <1>4, <2>1, TypeParts, Zenon DEF SerialTypes
<1>7. ObjTypes' /\ ValueTypes' /\ CountTypes'
  BY <1>4, TypeParts DEF objVars, history, counters, ObjTypes, ValueTypes, CountTypes
<1> QED
  BY <1>5, <1>6, <1>7, TypeParts

LEMMA TypeGrant ==
    ASSUME TypeOK, NEW e \in End, HandleGrant(e)
    PROVE  TypeOK'
<1>1. Rest(e) \in [End -> Seq(Msg)]
  BY RestType, TypeParts DEF HandleGrant, Receive
<1>2. Packed(Rest(e), e, Control("assume")) \in [End -> Seq(Msg)]
  BY <1>1, Messages, PackedType, TypeParts
<1>3. chan' \in [End -> Seq(Msg)]
  BY <1>2 DEF HandleGrant
<1>4. UNCHANGED <<objVars, value, stamp, up, history>>
  BY DEF HandleGrant
<1>5. NetTypes' /\ LatestType' /\ CallTypes'
  BY <1>3, <1>4, TypeParts, Zenon DEF NetTypes, LatestType, CallTypes, history
<1>6. SerialTypes'
  BY TypeParts DEF HandleGrant, SerialTypes
<1>7. ObjTypes' /\ ValueTypes' /\ CountTypes'
  BY <1>4, TypeParts DEF objVars, history, counters, ObjTypes, ValueTypes, CountTypes
<1> QED
  BY <1>5, <1>6, <1>7, TypeParts

LEMMA TypeAssume ==
    ASSUME TypeOK, NEW e \in End, HandleAssume(e)
    PROVE  TypeOK'
<1>1. Rest(e) \in [End -> Seq(Msg)]
  BY RestType, TypeParts DEF HandleAssume, Receive
<1>2. /\ chan' = Rest(e) /\ calls' = [x \in End |-> <<>>] /\ steady' = (steady \/ Settled')
      /\ UNCHANGED <<objVars, value, stamp, up, counters, latest>>
  BY DEF HandleAssume, SteadyAfter
<1>3. NetTypes' /\ LatestType'
  BY <1>1, <1>2, TypeParts, Zenon DEF NetTypes, LatestType
<1>4. steady' \in BOOLEAN
  BY <1>2, Zenon
<1>5. calls' \in [End -> Seq(Value)]
  BY <1>2
<1>6. SerialTypes'
  BY TypeParts DEF HandleAssume, SerialTypes
<1>7. ObjTypes' /\ ValueTypes' /\ CountTypes'
  BY <1>2, TypeParts DEF objVars, counters, ObjTypes, ValueTypes, CountTypes
<1> QED
  BY <1>3, <1>4, <1>5, <1>6, <1>7, TypeParts DEF CallTypes

LEMMA TypeAsk ==
    ASSUME TypeOK, NEW e \in End, BecomeSerializer(e)
    PROVE  TypeOK'
<1>1. Packed(chan, e, Control("request")) \in [End -> Seq(Msg)]
  BY Messages, PackedType, TypeParts DEF NetTypes
<1>2. chan' \in [End -> Seq(Msg)]
  BY <1>1 DEF BecomeSerializer
<1>3. /\ requests' = requests + 1 /\ steady' = FALSE
      /\ UNCHANGED <<objVars, value, stamp, isSerializer, up, sets, breaks, latest, calls>>
  BY DEF BecomeSerializer
<1>4. NetTypes' /\ LatestType'
  BY <1>2, <1>3, TypeParts, Zenon DEF NetTypes, LatestType
<1>5. CallTypes'
  BY <1>3, TypeParts, Zenon DEF CallTypes
<1>6. SerialTypes'
  BY TypeParts DEF BecomeSerializer, SerialTypes
<1>7. ObjTypes' /\ ValueTypes' /\ CountTypes'
  BY <1>3, TypeParts DEF objVars, ObjTypes, ValueTypes, CountTypes
<1> QED
  BY <1>4, <1>5, <1>6, <1>7, TypeParts

\* A connection that is made or breaks keeps the types.
LEMMA TypeConnection ==
    ASSUME TypeOK, Connect \/ Break
    PROVE  TypeOK'
<1>1. CASE Connect
  <2>1. up' = TRUE /\ UNCHANGED <<objVars, value, stamp, serialVars, chan, history>>
    BY <1>1 DEF Connect
  <2>2. NetTypes' /\ LatestType' /\ CallTypes'
    BY <2>1, TypeParts, Zenon DEF NetTypes, LatestType, CallTypes, history
  <2>3. ObjTypes' /\ ValueTypes' /\ CountTypes' /\ SerialTypes'
    BY <2>1, TypeParts DEF objVars, serialVars, history, counters, ObjTypes, ValueTypes,
       CountTypes, SerialTypes
  <2> QED
    BY <2>2, <2>3, TypeParts
<1>2. CASE Break
  <2>1. /\ breaks' = breaks + 1 /\ up' = FALSE /\ chan' = [e \in End |-> <<>>]
        /\ latest' = [latest EXCEPT !.sent = FALSE] /\ steady' = FALSE
        /\ UNCHANGED <<objVars, value, stamp, serialVars, sets, requests, calls>>
    BY <1>2 DEF Break
  <2>2. chan' \in [End -> Seq(Msg)]
    BY <2>1
  <2>3. NetTypes' /\ CallTypes'
    BY <2>1, <2>2, TypeParts, Zenon DEF NetTypes, CallTypes
  <2>4. LatestType'
    BY <2>1, TypeParts DEF LatestType
  <2>5. ObjTypes' /\ ValueTypes' /\ CountTypes' /\ SerialTypes'
    BY <2>1, TypeParts DEF objVars, serialVars, ObjTypes, ValueTypes, CountTypes, SerialTypes
  <2> QED
    BY <2>3, <2>4, <2>5, TypeParts
<1> QED
  BY <1>1, <1>2

LEMMA TypeStutter ==
    ASSUME TypeOK, UNCHANGED vars
    PROVE  TypeOK'
<1>1. NetTypes' /\ LatestType' /\ CallTypes'
  BY TypeParts, Zenon DEF vars, history, NetTypes, LatestType, CallTypes
<1>2. SerialTypes'
  BY TypeParts, Zenon DEF vars, serialVars, SerialTypes
<1>3. ObjTypes' /\ ValueTypes' /\ CountTypes'
  BY TypeParts DEF vars, objVars, history, counters, ObjTypes, ValueTypes, CountTypes
<1> QED
  BY <1>1, <1>2, <1>3, TypeParts

LEMMA TypeStep == TypeOK /\ [Next]_vars => TypeOK'
<1> SUFFICES ASSUME TypeOK, [Next]_vars PROVE TypeOK'
  OBVIOUS
<1>1. ASSUME NEW e \in End, Handle(e) PROVE TypeOK'
  BY <1>1, TypeHandleUpdate, TypeRequest, TypeGrant, TypeAssume DEF Handle
<1> QED
  BY <1>1, TypeConnection, TypeSet, TypeAsk, TypeStutter DEF Next

\* Type correctness of SharedObject.
THEOREM TypeCorrect == Spec => []TypeOK
BY TypeInit, TypeStep, PTL DEF Spec

----------------------------------------------------------------------------
(* Negotiations.                                                                *)

LEMMA IInit == Init => IInv
<1>1. Init => Negotiation /\ SomeoneSerializes
  BY Ends DEF Init, Negotiation, SomeoneSerializes, Has, TypesOf, Single
<1> QED
  BY <1>1, TypeInit DEF IInv

\* What a step keeps that only takes messages away or adds updates.
LEMMA NegotiationKept ==
    ASSUME Negotiation, SomeoneSerializes, UNCHANGED serialVars,
           \A x \in End : /\ Single(chan'[x])
                          /\ TypesOf(chan'[x]) \subseteq TypesOf(chan[x]) \cup {"update"}
    PROVE  Negotiation' /\ SomeoneSerializes'
<1>1. \A x \in End, type \in {"request", "grant", "assume"} : Has(x, type)' => Has(x, type)
  BY DEF Has
<1>2. \A x \in End : isSerializer'[x] = isSerializer[x] /\ isNegotiating'[x] = isNegotiating[x]
  BY DEF serialVars
<1> QED
  BY <1>1, <1>2, Ends DEF Negotiation, SomeoneSerializes

\* The channels after e has packed a message: as they were if there is no connection.
LEMMA PackedHas ==
    ASSUME NEW c \in [End -> Seq(Msg)], NEW e \in End, NEW m \in Msg,
           NEW type, m.type = type, \A x \in End : Single(c[x]),
           type = "update" \/ type \notin TypesOf(c[Other(e)])
    PROVE  /\ \A x \in End : Single(Packed(c, e, m)[x])
           /\ Packed(c, e, m)[e] = c[e]
           /\ TypesOf(Packed(c, e, m)[Other(e)]) \subseteq TypesOf(c[Other(e)]) \cup {type}
<1>1. Other(e) \in End /\ Other(e) # e /\ \A x \in End : x = e \/ x = Other(e)
  BY Ends
<1>2. /\ Single(Append(c[Other(e)], m))
      /\ TypesOf(Append(c[Other(e)], m)) = TypesOf(c[Other(e)]) \cup {m.type}
  BY <1>1, SentOne
<1> QED
  BY <1>1, <1>2 DEF Packed

\* The channels after the first message to e has been taken.
LEMMA RestHas ==
    ASSUME TypeOK, Negotiation, NEW e \in End, NEW type, Receive(e, type)
    PROVE  /\ Rest(e) \in [End -> Seq(Msg)]
           /\ \A x \in End : Single(Rest(e)[x])
           /\ Rest(e)[Other(e)] = chan[Other(e)]
           /\ TypesOf(chan[e]) = TypesOf(Rest(e)[e]) \cup {type}
           /\ type # "update" => type \notin TypesOf(Rest(e)[e])
<1>1. Other(e) \in End /\ Other(e) # e /\ \A x \in End : x = e \/ x = Other(e)
  BY Ends
<1>2. /\ chan \in [End -> Seq(Msg)] /\ chan[e] # <<>> /\ Head(chan[e]).type = type
      /\ \A x \in End : Single(chan[x])
  BY TypeParts DEF Receive, NetTypes, Negotiation
<1>3. /\ Single(Tail(chan[e]))
      /\ TypesOf(chan[e]) = TypesOf(Tail(chan[e])) \cup {type}
      /\ type # "update" => type \notin TypesOf(Tail(chan[e]))
  BY <1>2, TookOne
<1>4. Rest(e)[e] = Tail(chan[e]) /\ Rest(e)[Other(e)] = chan[Other(e)]
  BY <1>1, <1>2 DEF Rest
<1> QED
  BY <1>1, <1>2, <1>3, <1>4, RestType, TypeParts

LEMMA NegotiationSet ==
    ASSUME IInv, NEW e \in End, NEW v \in Value, NEW t \in Time, Set(e, v, t)
    PROVE  Negotiation' /\ SomeoneSerializes'
<1>1. UNCHANGED serialVars /\ (chan' = Packed(chan, e, Update(v, t)) \/ chan' = chan)
  BY DEF Set
<1>2. \A x \in End : Single(chan[x])
  BY DEF IInv, Negotiation
<1>3. chan \in [End -> Seq(Msg)] /\ Update(v, t) \in Msg /\ Update(v, t).type = "update"
  BY Messages, TypeParts DEF IInv, NetTypes
<1>4. \A x \in End : /\ Single(chan'[x])
                      /\ TypesOf(chan'[x]) \subseteq TypesOf(chan[x]) \cup {"update"}
  <2>1. CASE chan' = chan
    BY <1>2, <2>1
  <2>2. CASE chan' = Packed(chan, e, Update(v, t))
    <3> DEFINE d == Packed(chan, e, Update(v, t))
    <3>1. /\ \A x \in End : Single(d[x])
          /\ d[e] = chan[e] /\ TypesOf(d[Other(e)]) \subseteq TypesOf(chan[Other(e)]) \cup {"update"}
      BY <1>2, <1>3, PackedHas
    <3> HIDE DEF d
    <3>2. chan' = d
      BY <2>2 DEF d
    <3> QED
      BY <3>1, <3>2, Ends
  <2> QED
    BY <1>1, <2>1, <2>2
<1> QED
  BY <1>1, <1>4, NegotiationKept DEF IInv

LEMMA NegotiationUpdate ==
    ASSUME IInv, NEW e \in End, HandleUpdate(e)
    PROVE  Negotiation' /\ SomeoneSerializes'
<1> DEFINE m == Head(chan[e])
           echo == Update(m.value, m.when)
<1>1. /\ Receive(e, "update") /\ UNCHANGED serialVars
      /\ chan' = Packed(Rest(e), e, echo) \/ chan' = Rest(e)
  BY DEF HandleUpdate
<1>2. /\ Rest(e) \in [End -> Seq(Msg)] /\ \A x \in End : Single(Rest(e)[x])
      /\ Rest(e)[Other(e)] = chan[Other(e)]
      /\ TypesOf(Rest(e)[e]) \subseteq TypesOf(chan[e])
  BY <1>1, RestHas DEF IInv
<1>3. echo \in Msg /\ echo.type = "update"
  <2>1. m \in Msg /\ m.type = "update"
    BY <1>1, RestType, TypeParts DEF IInv, Receive
  <2> QED
    BY <2>1, Messages
<1> HIDE DEF echo
<1>4. \A x \in End : /\ Single(chan'[x])
                      /\ TypesOf(chan'[x]) \subseteq TypesOf(chan[x]) \cup {"update"}
  <2>1. CASE chan' = Rest(e)
    BY <1>2, <2>1, Ends
  <2>2. CASE chan' = Packed(Rest(e), e, echo)
    <3> DEFINE d == Packed(Rest(e), e, echo)
    <3>1. /\ \A x \in End : Single(d[x])
          /\ d[e] = Rest(e)[e]
          /\ TypesOf(d[Other(e)]) \subseteq TypesOf(Rest(e)[Other(e)]) \cup {"update"}
      BY <1>2, <1>3, PackedHas
    <3> HIDE DEF d
    <3>2. chan' = d
      BY <2>2 DEF d
    <3> QED
      BY <1>2, <3>1, <3>2, Ends
  <2> QED
    BY <1>1, <2>1, <2>2
<1> QED
  BY <1>1, <1>4, NegotiationKept DEF IInv

\* A request is packed by an end that did not negotiate, so that no other is under way.
LEMMA NegotiationAsk ==
    ASSUME IInv, NEW e \in End, BecomeSerializer(e)
    PROVE  Negotiation' /\ SomeoneSerializes'
<1> DEFINE o == Other(e)
<1>1. /\ o \in End /\ o # e /\ Other(e) = o /\ Other(o) = e
      /\ \A x \in End : x = e \/ x = o
  BY Ends
<1>2. /\ chan' = Packed(chan, e, Control("request")) /\ ~isNegotiating[e]
      /\ isNegotiating' = [isNegotiating EXCEPT ![e] = TRUE] /\ UNCHANGED isSerializer
  BY DEF BecomeSerializer
<1>3. ~Has(o, "request") /\ ~Has(e, "grant") /\ ~Has(o, "grant") /\ ~Has(e, "assume")
  BY <1>1, <1>2 DEF IInv, Negotiation
<1>4. /\ \A x \in End : Single(chan'[x])
      /\ chan'[e] = chan[e] /\ TypesOf(chan'[o]) \subseteq TypesOf(chan[o]) \cup {"request"}
  <2>1. chan \in [End -> Seq(Msg)] /\ Control("request") \in Msg
        /\ Control("request").type = "request"
    BY Messages, TypeParts DEF IInv, NetTypes
  <2>2. \A x \in End : Single(chan[x])
    BY DEF IInv, Negotiation
  <2>3. "request" \notin TypesOf(chan[Other(e)])
    BY <1>3 DEF Has
  <2> DEFINE d == Packed(chan, e, Control("request"))
  <2>4. /\ \A x \in End : Single(d[x])
        /\ d[e] = chan[e] /\ TypesOf(d[Other(e)]) \subseteq TypesOf(chan[Other(e)]) \cup {"request"}
    BY <2>1, <2>2, <2>3, PackedHas
  <2> HIDE DEF d
  <2>5. chan' = d
    BY <1>2 DEF d
  <2> QED
    BY <2>4, <2>5
<1>5. isNegotiating'[e] /\ isNegotiating'[o] = isNegotiating[o]
  BY <1>1, <1>2, TypeParts DEF IInv, SerialTypes
<1>6. \A type : Has(e, type)' = Has(e, type)
  BY <1>4 DEF Has
<1>7. \A type : Has(o, type)' => type = "request" \/ Has(o, type)
  BY <1>4 DEF Has
<1> HIDE DEF o
<1>8. \A x \in End : Has(x, "request")' => isNegotiating'[Other(x)]
  <2>1. Has(e, "request") => isNegotiating[o]
    BY <1>1 DEF IInv, Negotiation, o
  <2>2. Has(e, "request")' => isNegotiating'[o]
    BY <1>5, <1>6, <2>1
  <2> QED
    BY <1>1, <1>5, <2>2
<1>9. \A x \in End : ~Has(x, "grant")'
  BY <1>1, <1>3, <1>6, <1>7
<1>10. \A x \in End : Has(x, "assume")' =>
          /\ isNegotiating'[x] /\ isSerializer'[Other(x)]
          /\ ~Has(Other(x), "assume")' /\ ~Has(Other(x), "request")'
  <2>1. ~Has(e, "assume")'
    BY <1>3, <1>6
  <2>2. ASSUME Has(o, "assume")'
        PROVE /\ isNegotiating'[o] /\ isSerializer'[e]
              /\ ~Has(e, "assume")' /\ ~Has(e, "request")'
    BY <1>1, <1>2, <1>5, <1>6, <1>7, <2>2 DEF IInv, Negotiation
  <2> QED
    BY <1>1, <2>1, <2>2
<1>11. SomeoneSerializes'
  BY <1>2 DEF IInv, SomeoneSerializes
<1> QED
  BY <1>4, <1>8, <1>9, <1>10, <1>11 DEF Negotiation

\* An end that grants did not negotiate before: no grant or assumption is under way, and
\* the request was the only one.
LEMMA NegotiationRequest ==
    ASSUME IInv, NEW e \in End, HandleRequest(e)
    PROVE  Negotiation' /\ SomeoneSerializes'
<1> DEFINE o == Other(e)
<1>1. /\ o \in End /\ o # e /\ Other(e) = o /\ Other(o) = e
      /\ \A x \in End : x = e \/ x = o
  BY Ends
<1>2. Receive(e, "request") /\ UNCHANGED isSerializer
  BY DEF HandleRequest
<1>3. /\ Rest(e) \in [End -> Seq(Msg)] /\ \A x \in End : Single(Rest(e)[x])
      /\ Rest(e)[o] = chan[o]
      /\ TypesOf(chan[e]) = TypesOf(Rest(e)[e]) \cup {"request"}
      /\ "request" \notin TypesOf(Rest(e)[e])
  BY <1>2, RestHas DEF IInv
<1>4. CASE isNegotiating[e]
  <2>1. chan' = Rest(e) /\ UNCHANGED serialVars
    BY <1>2, <1>4 DEF HandleRequest, serialVars
  <2>2. \A x \in End : /\ Single(chan'[x])
                        /\ TypesOf(chan'[x]) \subseteq TypesOf(chan[x]) \cup {"update"}
    BY <1>1, <1>3, <2>1
  <2> QED
    BY <2>1, <2>2, NegotiationKept DEF IInv
<1>5. CASE ~isNegotiating[e]
  <2>1. /\ chan' = Packed(Rest(e), e, Control("grant"))
        /\ isNegotiating' = [isNegotiating EXCEPT ![e] = TRUE]
    BY <1>5 DEF HandleRequest
  <2>2. Has(e, "request")
    BY <1>3 DEF Has
  <2>3. /\ isNegotiating[o] /\ ~Has(o, "request") /\ ~Has(e, "grant") /\ ~Has(o, "grant")
        /\ ~Has(e, "assume") /\ ~Has(o, "assume")
    BY <1>1, <1>5, <2>2 DEF IInv, Negotiation
  <2>4. /\ \A x \in End : Single(chan'[x])
        /\ chan'[e] = Rest(e)[e] /\ TypesOf(chan'[o]) \subseteq TypesOf(chan[o]) \cup {"grant"}
    <3>1. Control("grant") \in Msg /\ Control("grant").type = "grant"
      BY Messages
    <3>2. "grant" \notin TypesOf(Rest(e)[Other(e)])
      BY <1>3, <2>3 DEF Has
    <3> DEFINE d == Packed(Rest(e), e, Control("grant"))
    <3>3. /\ \A x \in End : Single(d[x])
          /\ d[e] = Rest(e)[e]
          /\ TypesOf(d[Other(e)]) \subseteq TypesOf(Rest(e)[Other(e)]) \cup {"grant"}
      BY <1>3, <3>1, <3>2, PackedHas
    <3> HIDE DEF d
    <3>4. chan' = d
      BY <2>1 DEF d
    <3> QED
      BY <1>3, <3>3, <3>4
  <2>5. isNegotiating'[e] /\ isNegotiating'[o]
    BY <1>1, <2>1, <2>3, TypeParts DEF IInv, SerialTypes
  <2>6. ~Has(e, "request")' /\ ~Has(e, "grant")' /\ ~Has(e, "assume")'
    BY <1>3, <2>3, <2>4 DEF Has
  <2>7. ~Has(o, "request")' /\ ~Has(o, "assume")'
    BY <2>3, <2>4 DEF Has
  <2>8. SomeoneSerializes'
    BY <1>2 DEF IInv, SomeoneSerializes
  <2> HIDE DEF o
  <2> QED
    BY <1>1, <2>4, <2>5, <2>6, <2>7, <2>8 DEF Negotiation
<1> QED
  BY <1>4, <1>5

\* The end that was granted becomes the serializer and tells the other.
LEMMA NegotiationGrant ==
    ASSUME IInv, NEW e \in End, HandleGrant(e)
    PROVE  Negotiation' /\ SomeoneSerializes'
<1> DEFINE o == Other(e)
<1>1. /\ o \in End /\ o # e /\ Other(e) = o /\ Other(o) = e
      /\ \A x \in End : x = e \/ x = o
  BY Ends
<1>2. /\ Receive(e, "grant") /\ chan' = Packed(Rest(e), e, Control("assume"))
      /\ isSerializer' = [isSerializer EXCEPT ![e] = TRUE]
      /\ isNegotiating' = [isNegotiating EXCEPT ![e] = FALSE]
  BY DEF HandleGrant
<1>3. /\ Rest(e) \in [End -> Seq(Msg)] /\ \A x \in End : Single(Rest(e)[x])
      /\ Rest(e)[o] = chan[o]
      /\ TypesOf(chan[e]) = TypesOf(Rest(e)[e]) \cup {"grant"}
      /\ "grant" \notin TypesOf(Rest(e)[e])
  BY <1>2, RestHas DEF IInv
<1>4. Has(e, "grant")
  BY <1>3 DEF Has
<1>5. /\ isNegotiating[o] /\ ~Has(o, "grant") /\ ~Has(e, "request") /\ ~Has(o, "request")
      /\ ~Has(e, "assume") /\ ~Has(o, "assume")
  BY <1>1, <1>4 DEF IInv, Negotiation
<1>6. /\ \A x \in End : Single(chan'[x])
      /\ chan'[e] = Rest(e)[e] /\ TypesOf(chan'[o]) \subseteq TypesOf(chan[o]) \cup {"assume"}
  <2>1. Control("assume") \in Msg /\ Control("assume").type = "assume"
    BY Messages
  <2>2. "assume" \notin TypesOf(Rest(e)[Other(e)])
    BY <1>3, <1>5 DEF Has
  <2> DEFINE d == Packed(Rest(e), e, Control("assume"))
  <2>3. /\ \A x \in End : Single(d[x])
        /\ d[e] = Rest(e)[e]
        /\ TypesOf(d[Other(e)]) \subseteq TypesOf(Rest(e)[Other(e)]) \cup {"assume"}
    BY <1>3, <2>1, <2>2, PackedHas
  <2> HIDE DEF d
  <2>4. chan' = d
    BY <1>2 DEF d
  <2> QED
    BY <1>3, <2>3, <2>4
<1>7. isSerializer'[e] /\ isNegotiating'[o]
  BY <1>1, <1>2, <1>5, TypeParts DEF IInv, SerialTypes
<1>8. ~Has(e, "request")' /\ ~Has(e, "grant")' /\ ~Has(e, "assume")'
  BY <1>3, <1>5, <1>6 DEF Has
<1>9. ~Has(o, "request")' /\ ~Has(o, "grant")'
  BY <1>5, <1>6 DEF Has
<1>10. SomeoneSerializes'
  BY <1>7 DEF SomeoneSerializes
<1> HIDE DEF o
<1> QED
  BY <1>1, <1>6, <1>7, <1>8, <1>9, <1>10 DEF Negotiation

\* The end that gives the role up has heard so from the end that has it.
LEMMA NegotiationAssume ==
    ASSUME IInv, NEW e \in End, HandleAssume(e)
    PROVE  Negotiation' /\ SomeoneSerializes'
<1> DEFINE o == Other(e)
<1>1. /\ o \in End /\ o # e /\ Other(e) = o /\ Other(o) = e
      /\ \A x \in End : x = e \/ x = o
  BY Ends
<1>2. /\ Receive(e, "assume") /\ chan' = Rest(e)
      /\ isSerializer' = [isSerializer EXCEPT ![e] = FALSE]
      /\ isNegotiating' = [isNegotiating EXCEPT ![e] = FALSE]
  BY DEF HandleAssume
<1>3. /\ \A x \in End : Single(Rest(e)[x])
      /\ Rest(e)[o] = chan[o]
      /\ TypesOf(chan[e]) = TypesOf(Rest(e)[e]) \cup {"assume"}
      /\ "assume" \notin TypesOf(Rest(e)[e])
  BY <1>2, RestHas DEF IInv
<1>4. Has(e, "assume")
  BY <1>3 DEF Has
<1>5. /\ isSerializer[o] /\ ~Has(o, "assume") /\ ~Has(o, "request")
      /\ ~Has(e, "grant") /\ ~Has(o, "grant")
  BY <1>1, <1>4 DEF IInv, Negotiation
<1>6. isSerializer'[o] /\ isNegotiating'[o] = isNegotiating[o]
  BY <1>1, <1>2, <1>5, TypeParts DEF IInv, SerialTypes
<1>7. ~Has(e, "grant")' /\ ~Has(e, "assume")' /\ (Has(e, "request")' => Has(e, "request"))
  BY <1>2, <1>3, <1>5 DEF Has
<1>8. ~Has(o, "request")' /\ ~Has(o, "grant")' /\ ~Has(o, "assume")'
  BY <1>2, <1>3, <1>5 DEF Has
<1>9. SomeoneSerializes'
  BY <1>1, <1>6 DEF SomeoneSerializes
<1>10. Has(e, "request")' => isNegotiating'[o]
  BY <1>1, <1>6, <1>7 DEF IInv, Negotiation
<1>11. \A x \in End : Single(chan'[x])
  BY <1>2, <1>3
<1> HIDE DEF o
<1>12. \A x \in End : Has(x, "request")' => isNegotiating'[Other(x)]
  BY <1>1, <1>8, <1>10
<1>13. \A x \in End : ~Has(x, "grant")' /\ ~Has(x, "assume")'
  BY <1>1, <1>7, <1>8
<1> QED
  BY <1>9, <1>11, <1>12, <1>13 DEF Negotiation

\* Every step keeps the invariant.
LEMMA IStep == IInv /\ [Next]_vars => IInv'
<1> SUFFICES ASSUME IInv, [Next]_vars PROVE Negotiation' /\ SomeoneSerializes'
  BY TypeStep DEF IInv
<1>1. CASE UNCHANGED <<serialVars, chan>>
  <2>1. \A x \in End : Single(chan'[x]) /\ TypesOf(chan'[x]) \subseteq TypesOf(chan[x])
    BY <1>1 DEF IInv, Negotiation
  <2> QED
    BY <1>1, <2>1, NegotiationKept DEF IInv
<1>2. CASE Connect
  BY <1>1, <1>2 DEF Connect
<1>3. CASE Break
  <2>1. UNCHANGED serialVars /\ \A x \in End : chan'[x] = <<>>
    BY <1>3 DEF Break
  <2>2. Single(<<>>) /\ TypesOf(<<>>) = {}
    BY DEF Single, TypesOf
  <2>3. \A x \in End : /\ Single(chan'[x])
                        /\ TypesOf(chan'[x]) \subseteq TypesOf(chan[x]) \cup {"update"}
    BY <2>1, <2>2
  <2> QED
    BY <2>1, <2>3, NegotiationKept DEF IInv
<1>4. ASSUME NEW e \in End, Handle(e) PROVE Negotiation' /\ SomeoneSerializes'
  BY <1>4, NegotiationUpdate, NegotiationRequest, NegotiationGrant, NegotiationAssume
     DEF Handle
<1>5. CASE UNCHANGED vars
  BY <1>1, <1>5 DEF vars
<1> QED
  BY <1>2, <1>3, <1>4, <1>5, NegotiationSet, NegotiationAsk DEF Next

\* At every moment, and whatever a broken connection loses, one of the ends takes itself
\* for the serializer.
THEOREM SomeoneSerializesHolds == Spec => []SomeoneSerializes
<1>1. IInv => SomeoneSerializes
  BY DEF IInv
<1> QED
  BY IInit, IStep, <1>1, PTL DEF Spec

----------------------------------------------------------------------------
(* The newest set.  Of all the sets that were sent the one with the greatest time  *)
(* replaces every other one where it arrives, and it arrives at both ends.          *)

Newest(m, t) == m.type = "update" /\ m.when = t

Coming(c, t) == \E i \in 1 .. Len(c) : Newest(c[i], t)

\* It comes before the end that reads it may stop to serialize.
ComingFirst(c, t) ==
    \E i \in 1 .. Len(c) : Newest(c[i], t) /\ \A j \in 1 .. i - 1 : c[j].type # "assume"

NoneLater(c, t) == \A i \in 1 .. Len(c) : c[i].type = "update" => c[i].when <= t

OnlyOne(c, t, v) == \A i \in 1 .. Len(c) : Newest(c[i], t) => c[i].value = v

UpWhenUnderWay == \A e \in End : chan[e] # <<>> => up

Bounded == \A e \in End : stamp[e] <= latest.when /\ NoneLater(chan[e], latest.when)

Untied == latest.sent /\ ~latest.tied

Alone == Untied => \A e \in End : /\ stamp[e] = latest.when => value[e] = latest.value
                                  /\ OnlyOne(chan[e], latest.when, latest.value)

\* All sets count for the order of their times.
AllCount ==
    /\ "IGNORE_OLD" \in mode /\ "IGNORE_IDEMPOTENT" \notin mode
    /\ "DEFER_UPDATES" \in mode => \A e \in End : policy[e] = "ACCEPT"

\* It waits for the decision of the serializer, which will send it back.
Deferred(e) ==
    /\ "DEFER_UPDATES" \in mode /\ isSerializer[Other(e)]
    /\ stamp[Other(e)] < latest.when
    /\ ComingFirst(chan[Other(e)], latest.when)

Arrives(e) == stamp[e] = latest.when \/ Coming(chan[e], latest.when) \/ Deferred(e)

Arriving == (AllCount /\ Untied) => \A e \in End : Arrives(e)

NewestInv == UpWhenUnderWay /\ Bounded /\ Alone /\ Arriving

LEMMA AddedComing ==
    ASSUME NEW c \in Seq(Msg), NEW m \in Msg, NEW t, NEW v
    PROVE  /\ Coming(c, t) => Coming(Append(c, m), t)
           /\ Newest(m, t) => Coming(Append(c, m), t)
           /\ ComingFirst(c, t) => ComingFirst(Append(c, m), t)
           /\ Newest(m, t) /\ "assume" \notin TypesOf(c) => ComingFirst(Append(c, m), t)
           /\ NoneLater(c, t) /\ (m.type = "update" => m.when <= t) => NoneLater(Append(c, m), t)
           /\ OnlyOne(c, t, v) /\ (Newest(m, t) => m.value = v) => OnlyOne(Append(c, m), t, v)
<1> DEFINE d == Append(c, m)
<1>1. /\ Len(d) = Len(c) + 1 /\ Len(c) \in Nat /\ d[Len(c) + 1] = m
      /\ \A i \in 1 .. Len(c) : d[i] = c[i]
  OBVIOUS
<1> HIDE DEF d
<1>2. \A i \in 1 .. Len(d) : i \in 1 .. Len(c) \/ i = Len(c) + 1
  BY <1>1
<1>3. \A i \in 1 .. Len(c) : i \in 1 .. Len(d)
  BY <1>1
<1>4. Len(c) + 1 \in 1 .. Len(d)
  BY <1>1
<1>5. (Coming(c, t) => Coming(d, t)) /\ (Newest(m, t) => Coming(d, t))
  BY <1>1, <1>3, <1>4 DEF Coming
<1>6. ComingFirst(c, t) => ComingFirst(d, t)
  <2> SUFFICES ASSUME NEW i \in 1 .. Len(c), Newest(c[i], t),
                      \A j \in 1 .. i - 1 : c[j].type # "assume"
               PROVE  ComingFirst(d, t)
    BY DEF ComingFirst
  <2>1. \A j \in 1 .. i - 1 : j \in 1 .. Len(c) /\ d[j] = c[j]
    BY <1>1
  <2> QED
    BY <1>1, <1>3, <2>1 DEF ComingFirst
<1>7. ASSUME Newest(m, t), "assume" \notin TypesOf(c) PROVE ComingFirst(d, t)
  <2>1. \A j \in 1 .. (Len(c) + 1) - 1 : d[j].type # "assume"
    BY <1>1, <1>7 DEF TypesOf
  <2> QED
    BY <1>1, <1>4, <1>7, <2>1 DEF ComingFirst
<1>8. NoneLater(c, t) /\ (m.type = "update" => m.when <= t) => NoneLater(d, t)
  BY <1>1, <1>2 DEF NoneLater
<1>9. OnlyOne(c, t, v) /\ (Newest(m, t) => m.value = v) => OnlyOne(d, t, v)
  BY <1>1, <1>2 DEF OnlyOne
<1> QED
  BY <1>5, <1>6, <1>7, <1>8, <1>9 DEF d

LEMMA TakenComing ==
    ASSUME NEW c \in Seq(Msg), c # <<>>, NEW t, NEW v
    PROVE  /\ Coming(c, t) => Newest(Head(c), t) \/ Coming(Tail(c), t)
           /\ ComingFirst(c, t) =>
                Newest(Head(c), t) \/ (Head(c).type # "assume" /\ ComingFirst(Tail(c), t))
           /\ NoneLater(c, t) =>
                NoneLater(Tail(c), t) /\ (Head(c).type = "update" => Head(c).when <= t)
           /\ OnlyOne(c, t, v) =>
                OnlyOne(Tail(c), t, v) /\ (Newest(Head(c), t) => Head(c).value = v)
<1> DEFINE d == Tail(c)
           h == Head(c)
<1>1. /\ Len(c) \in Nat \ {0} /\ Len(d) = Len(c) - 1 /\ h = c[1]
      /\ \A i \in 1 .. Len(d) : d[i] = c[i + 1] /\ i + 1 \in 1 .. Len(c)
  OBVIOUS
<1> HIDE DEF d, h
<1>2. \A i \in 1 .. Len(c) : i = 1 \/ (i - 1 \in 1 .. Len(d) /\ d[i - 1] = c[i])
  BY <1>1
<1>3. 1 \in 1 .. Len(c)
  BY <1>1
<1>4. Coming(c, t) => Newest(h, t) \/ Coming(d, t)
  BY <1>1, <1>2 DEF Coming
<1>5. ComingFirst(c, t) => Newest(h, t) \/ (h.type # "assume" /\ ComingFirst(d, t))
  <2> SUFFICES ASSUME NEW i \in 1 .. Len(c), Newest(c[i], t),
                      \A j \in 1 .. i - 1 : c[j].type # "assume", i # 1
               PROVE  h.type # "assume" /\ ComingFirst(d, t)
    BY <1>1 DEF ComingFirst
  <2>1. h.type # "assume" /\ i - 1 \in 1 .. Len(d) /\ Newest(d[i - 1], t)
    BY <1>1, <1>2
  <2>2. ASSUME NEW j \in 1 .. (i - 1) - 1 PROVE d[j].type # "assume"
    <3>1. j \in 1 .. Len(d) /\ j + 1 \in 1 .. i - 1
      BY <1>1
    <3> QED
      BY <1>1, <3>1
  <2> QED
    BY <2>1, <2>2 DEF ComingFirst
<1>6. NoneLater(c, t) => NoneLater(d, t) /\ (h.type = "update" => h.when <= t)
  BY <1>1, <1>3 DEF NoneLater
<1>7. OnlyOne(c, t, v) => OnlyOne(d, t, v) /\ (Newest(h, t) => h.value = v)
  BY <1>1, <1>3 DEF OnlyOne
<1> QED
  BY <1>4, <1>5, <1>6, <1>7 DEF d, h

\* What an end decides on a set.
LEMMA Decided ==
    ASSUME TypeOK, NEW e \in End, NEW v \in Value, NEW t \in Time, NEW isLocal \in BOOLEAN,
           NEW accepted \in ShouldAccept(e, v, t, isLocal)
    PROVE  /\ accepted \in BOOLEAN
           /\ accepted /\ "IGNORE_OLD" \in mode => ~IsOld(e, t, isLocal)
           /\ accepted /\ "IGNORE_IDEMPOTENT" \in mode => ~SameValue(e, v)
           /\ accepted /\ "DEFER_UPDATES" \in mode => isSerializer[e] \/ ~isLocal
           /\ AllCount /\ ~IsOld(e, t, isLocal) =>
                (accepted <=> "DEFER_UPDATES" \notin mode \/ isSerializer[e] \/ ~isLocal)
           /\ /\ ~("IGNORE_OLD" \in mode /\ IsOld(e, t, isLocal))
              /\ ~("IGNORE_IDEMPOTENT" \in mode /\ SameValue(e, v))
              /\ "DEFER_UPDATES" \in mode /\ ~isSerializer[e] /\ ~isLocal
              => accepted
<1> DEFINE old == "IGNORE_OLD" \in mode /\ IsOld(e, t, isLocal)
           same == "IGNORE_IDEMPOTENT" \in mode /\ SameValue(e, v)
           defers == "DEFER_UPDATES" \in mode
           s == isSerializer[e]
<1>1. s \in BOOLEAN /\ policy[e] \in Policy
  BY TypeParts DEF SerialTypes, ObjTypes
<1>2. CASE old \/ same
  <2>1. accepted = FALSE
    BY <1>2 DEF ShouldAccept
  <2>2. AllCount => "IGNORE_IDEMPOTENT" \notin mode /\ "IGNORE_OLD" \in mode
    BY DEF AllCount
  <2> QED
    BY <1>2, <2>1, <2>2
<1>3. CASE ~(old \/ same) /\ ~defers
  <2>1. accepted = TRUE
    BY <1>3 DEF ShouldAccept
  <2> QED
    BY <1>3, <2>1
<1>4. CASE ~(old \/ same) /\ defers /\ ~s
  <2>1. accepted = ~isLocal
    BY <1>4 DEF ShouldAccept
  <2> QED
    BY <1>4, <2>1
<1>5. CASE ~(old \/ same) /\ defers /\ s
  <2>1. accepted \in PolicyAccepts(e, isLocal)
    BY <1>5 DEF ShouldAccept
  <2>2. accepted \in BOOLEAN
    BY <2>1 DEF PolicyAccepts
  <2>3. AllCount => accepted
    <3> SUFFICES ASSUME AllCount PROVE accepted
      OBVIOUS
    <3>1. policy[e] = "ACCEPT"
      BY <1>5 DEF AllCount
    <3> QED
      BY <2>1, <3>1 DEF PolicyAccepts
  <2> QED
    BY <1>5, <2>2, <2>3
<1> QED
  BY <1>1, <1>2, <1>3, <1>4, <1>5

\* A message of a negotiation is read by e, or sent by it, or both.
LEMMA NewestControl ==
    ASSUME IInv, NewestInv, NEW e \in End,
           UNCHANGED <<objVars, value, stamp, latest, up>>,
           \A x \in End : isSerializer[x] =>
               isSerializer'[x] \/ (x = e /\ chan[e] # <<>> /\ Head(chan[e]).type = "assume"),
           \/ chan'[e] = chan[e]
           \/ chan[e] # <<>> /\ Head(chan[e]).type # "update" /\ chan'[e] = Tail(chan[e]),
           \/ chan'[Other(e)] = chan[Other(e)]
           \/ /\ up
              /\ \E m \in Msg : m.type # "update" /\ chan'[Other(e)] = Append(chan[Other(e)], m)
    PROVE  NewestInv'
<1> DEFINE t == latest.when
           v == latest.value
<1>1. /\ Other(e) \in End /\ \A x \in End : x = e \/ x = Other(e)
      /\ \A x \in End : chan[x] \in Seq(Msg)
  BY Ends, TypeParts DEF IInv, NetTypes
<1>2. UNCHANGED <<mode, policy, kind>> /\ latest' = latest
  BY DEF objVars
<1>3. ASSUME NEW x \in End
      PROVE  /\ Coming(chan[x], t) => Coming(chan'[x], t)
             /\ NoneLater(chan[x], t) => NoneLater(chan'[x], t)
             /\ OnlyOne(chan[x], t, v) => OnlyOne(chan'[x], t, v)
             /\ ComingFirst(chan[x], t) => ComingFirst(chan'[x], t)
             /\ chan'[x] # <<>> => up
  <2>1. CASE chan'[x] = chan[x]
    BY <2>1 DEF NewestInv, UpWhenUnderWay
  <2>2. CASE x = e /\ chan[e] # <<>> /\ Head(chan[e]).type # "update" /\ chan'[e] = Tail(chan[e])
    <3>1. ~Newest(Head(chan[e]), t)
      BY <2>2 DEF Newest
    <3>2. up
      BY <2>2 DEF NewestInv, UpWhenUnderWay
    <3> QED
      BY <1>1, <2>2, <3>1, <3>2, TakenComing
  <2>3. CASE x = Other(e) /\ up /\ \E m \in Msg : m.type # "update" /\ chan'[x] = Append(chan[x], m)
    <3>1. PICK m \in Msg : m.type # "update" /\ chan'[x] = Append(chan[x], m)
      BY <2>3
    <3>2. ~Newest(m, t) /\ x # e
      BY <3>1, <2>3, Ends DEF Newest
    <3> QED
      BY ZenonT(30), <1>1, <2>3, <3>1, <3>2, AddedComing
  <2> QED
    BY <1>1, <2>1, <2>2, <2>3
<1>4. UpWhenUnderWay' /\ Bounded' /\ Alone'
  BY <1>2, <1>3 DEF NewestInv, UpWhenUnderWay, Bounded, Alone, Untied
<1>5. ASSUME NEW x \in End, Arrives(x) PROVE Arrives(x)'
  <2>1. CASE stamp[x] = t
    BY <1>2, <2>1 DEF Arrives
  <2>2. CASE Coming(chan[x], t)
    BY <1>2, <1>3, <2>2 DEF Arrives
  <2>3. CASE Deferred(x)
    <3>1. Other(x) \in End /\ ComingFirst(chan[Other(x)], t) /\ isSerializer[Other(x)]
      BY <2>3, Ends DEF Deferred
    <3>2. isSerializer'[Other(x)]
      <4>1. (chan[e] # <<>> /\ ComingFirst(chan[e], t)) => Head(chan[e]).type # "assume"
        BY <1>1, TakenComing DEF Newest
      <4> QED
        BY <3>1, <4>1
    <3> QED
      BY <1>2, <1>3, <2>3, <3>1, <3>2 DEF Arrives, Deferred
  <2> QED
    BY <1>5, <2>1, <2>2, <2>3 DEF Arrives
<1>6. Arriving'
  <2>1. (AllCount' <=> AllCount) /\ (Untied' <=> Untied)
    BY <1>2 DEF AllCount, Untied
  <2> QED
    BY <1>5, <2>1 DEF NewestInv, Arriving
<1> QED
  BY <1>4, <1>6 DEF NewestInv

\* An update is read by e, which stores it or not and, if it decides, passes it on.
LEMMA NewestUpdate ==
    ASSUME IInv, NewestInv, NEW e \in End, HandleUpdate(e)
    PROVE  NewestInv'
<1> DEFINE m == Head(chan[e])
           o == Other(e)
           echo == Update(m.value, m.when)
           t == latest.when
           v == latest.value
<1>1. PICK accepted \in ShouldAccept(e, m.value, m.when, FALSE) :
         /\ Store(e, m.value, m.when, accepted)
         /\ chan' = IF ShouldSend(e, FALSE, accepted) THEN Packed(Rest(e), e, echo) ELSE Rest(e)
  BY DEF HandleUpdate
<1>2. /\ chan[e] # <<>> /\ m.type = "update" /\ up
      /\ UNCHANGED <<objVars, serialVars, up, latest>>
  BY DEF HandleUpdate, Receive, NewestInv, UpWhenUnderWay
<1>3. /\ o \in End /\ o # e /\ Other(o) = e /\ \A x \in End : x = e \/ x = o
      /\ \A x \in End : chan[x] \in Seq(Msg)
      /\ m \in Msg /\ m.value \in Value /\ m.when \in Time
  <2>1. m \in Msg /\ m.value \in Value /\ m.when \in Time
    BY <1>2, RestType, Messages, TypeParts DEF IInv
  <2>2. \A x \in End : chan[x] \in Seq(Msg)
    BY TypeParts DEF IInv, NetTypes
  <2> QED
    BY <2>1, <2>2, Ends
<1>0. m.when \in Int /\ t \in Int /\ stamp[e] \in Int /\ stamp[o] \in Int
  <2>1. Time \subseteq Int
    BY SharedAssumption DEF Time
  <2>2. stamp[e] \in Time /\ stamp[o] \in Time
    BY <1>3, TypeParts DEF IInv, ValueTypes
  <2>3. t \in Nat
    BY TypeParts DEF IInv, LatestType
  <2>4. m.when \in Int
    BY <1>3, <2>1
  <2>5. stamp[e] \in Int /\ stamp[o] \in Int
    BY <2>1, <2>2
  <2>6. t \in Int
    BY <2>3
  <2> QED
    BY <2>4, <2>5, <2>6
<1>4. echo \in Msg /\ echo.type = "update" /\ echo.value = m.value /\ echo.when = m.when
  BY <1>3, Messages DEF Update
<1>5. /\ chan'[e] = Tail(chan[e])
      /\ chan'[o] = IF ShouldSend(e, FALSE, accepted) THEN Append(chan[o], echo) ELSE chan[o]
  <2>1. chan \in [End -> Seq(Msg)]
    BY TypeParts DEF IInv, NetTypes
  <2>2. Rest(e) \in [End -> Seq(Msg)] /\ Rest(e)[e] = Tail(chan[e]) /\ Rest(e)[o] = chan[o]
    BY <1>2, <1>3, <2>1, RestType, TypeParts DEF Rest, IInv
  <2> HIDE DEF o, echo
  <2>3. Packed(Rest(e), e, echo)[e] = Rest(e)[e]
        /\ Packed(Rest(e), e, echo)[o] = Append(Rest(e)[o], echo)
    BY <1>2, <1>3, <2>2 DEF Packed, o
  <2> QED
    BY <1>1, <2>2, <2>3
<1>6. /\ accepted \in BOOLEAN
      /\ accepted /\ "IGNORE_OLD" \in mode => ~IsOld(e, m.when, FALSE)
      /\ AllCount /\ ~IsOld(e, m.when, FALSE) => accepted
  BY <1>3, Decided DEF IInv
<1>7. /\ stamp'[e] = (IF accepted THEN m.when ELSE stamp[e]) /\ stamp'[o] = stamp[o]
      /\ value'[e] = (IF accepted THEN m.value ELSE value[e]) /\ value'[o] = value[o]
  BY <1>1, <1>3, TypeParts DEF Store, IInv, ValueTypes
<1>8. UNCHANGED <<mode, policy, kind, isSerializer>> /\ latest' = latest /\ up' = up
  BY <1>2 DEF objVars, serialVars
<1> HIDE DEF m, o, echo
<1>9. NoneLater(chan[e], t) /\ NoneLater(chan[o], t) /\ stamp[e] <= t /\ stamp[o] <= t
  BY <1>3 DEF NewestInv, Bounded
<1>10. m.when <= t /\ NoneLater(chan'[e], t) /\ NoneLater(chan'[o], t)
  <2>1. NoneLater(chan'[e], t) /\ m.when <= t
    BY <1>2, <1>3, <1>5, <1>9, TakenComing DEF m
  <2>2. NoneLater(chan'[o], t)
    BY <1>3, <1>4, <1>5, <1>9, <2>1, AddedComing
  <2> QED
    BY <2>1, <2>2
<1>11. UpWhenUnderWay' /\ Bounded'
  BY <1>2, <1>3, <1>7, <1>8, <1>9, <1>10 DEF UpWhenUnderWay, Bounded
<1>12. Alone'
  <2> SUFFICES ASSUME Untied
               PROVE  \A x \in End : /\ stamp'[x] = t => value'[x] = v
                                     /\ OnlyOne(chan'[x], t, v)
    <3>1. Untied' <=> Untied
      BY <1>8 DEF Untied
    <3> QED
      BY <1>8, <3>1 DEF Alone
  <2>1. \A x \in End : (stamp[x] = t => value[x] = v) /\ OnlyOne(chan[x], t, v)
    BY DEF NewestInv, Alone
  <2>2. OnlyOne(chan'[e], t, v) /\ (Newest(m, t) => m.value = v)
    BY <1>2, <1>3, <1>5, <2>1, TakenComing DEF m
  <2>3. OnlyOne(chan'[o], t, v)
    <3>1. Newest(echo, t) => echo.value = v
      BY <1>2, <1>4, <2>2 DEF Newest
    <3> QED
      BY <1>3, <1>4, <1>5, <2>1, <3>1, AddedComing
  <2>4. m.when = t => m.value = v
    BY <1>2, <2>2 DEF Newest
  <2>5. (stamp'[e] = t => value'[e] = v) /\ (stamp'[o] = t => value'[o] = v)
    BY <1>0, <1>3, <1>6, <1>7, <2>1, <2>4
  <2> QED
    BY <1>3, <2>2, <2>3, <2>5
<1>13. Arriving'
  <2>1. (AllCount' <=> AllCount) /\ (Untied' <=> Untied)
    BY <1>8 DEF AllCount, Untied
  <2> SUFFICES ASSUME AllCount, Untied PROVE Arrives(e)' /\ Arrives(o)'
    BY <1>3, <2>1 DEF Arriving
  <2>2. Arrives(e) /\ Arrives(o)
    BY <1>3 DEF NewestInv, Arriving
  <2>3. accepted => m.when >= stamp[e]
    <3>1. "IGNORE_OLD" \in mode
      BY DEF AllCount
    <3>2. accepted => ~(m.when < stamp[e])
      BY <1>6, <3>1 DEF IsOld
    <3> QED
      BY <1>0, <3>2
  <2>4. m.when = t => stamp'[e] = t
    <3>1. m.when = t /\ stamp[e] # t => ~(m.when < stamp[e]) /\ m.when # stamp[e]
      BY <1>0, <1>9
    <3>2. m.when = t /\ stamp[e] # t => ~IsOld(e, m.when, FALSE)
      BY <3>1, Zenon DEF IsOld
    <3> QED
      BY <1>6, <1>7, <3>2
  <2>5. stamp[e] = t => stamp'[e] = t
    BY <1>0, <1>7, <1>10, <2>3
  <2>6. Newest(m, t) <=> m.when = t
    BY <1>2 DEF Newest, m
  <2>7. Coming(chan[o], t) => Coming(chan'[o], t)
    BY <1>3, <1>4, <1>5, AddedComing
  <2>8. ComingFirst(chan[o], t) => ComingFirst(chan'[o], t)
    BY <1>3, <1>4, <1>5, AddedComing
  <2>9. Coming(chan[e], t) => m.when = t \/ Coming(chan'[e], t)
    BY <1>2, <1>3, <1>5, <2>6, TakenComing DEF m
  <2>10. ComingFirst(chan[e], t) => m.when = t \/ ComingFirst(chan'[e], t)
    BY <1>2, <1>3, <1>5, <2>6, TakenComing DEF m
  <2>11. Deferred(e) => Deferred(e)'
    BY <1>7, <1>8, <2>8 DEF Deferred, o
  <2>12. Arrives(e)'
    BY <1>8, <2>2, <2>4, <2>5, <2>9, <2>11 DEF Arrives
  <2>13. Deferred(o) => Coming(chan'[o], t) \/ Deferred(o)'
    <3> SUFFICES ASSUME Deferred(o) PROVE Coming(chan'[o], t) \/ Deferred(o)'
      OBVIOUS
    <3>1. "DEFER_UPDATES" \in mode /\ isSerializer[e] /\ stamp[e] < t /\ ComingFirst(chan[e], t)
      BY <1>3 DEF Deferred
    <3>2. CASE m.when = t
      <4>1. accepted
        <5>1. ~(m.when < stamp[e]) /\ m.when # stamp[e]
          BY <1>0, <3>1, <3>2
        <5>2. ~IsOld(e, m.when, FALSE)
          BY <5>1, Zenon DEF IsOld
        <5> QED
          BY <1>6, <5>2
      <4>2. ShouldSend(e, FALSE, accepted) /\ Newest(echo, t)
        BY <1>4, <3>1, <3>2, <4>1 DEF ShouldSend, Newest
      <4> QED
        BY ZenonT(30), <1>3, <1>4, <1>5, <4>2, AddedComing
    <3>3. CASE m.when # t
      <4>1. stamp'[e] < t
        BY <1>0, <1>7, <1>10, <3>1, <3>3
      <4> QED
        BY <1>3, <1>8, <2>10, <3>1, <3>3, <4>1 DEF Deferred
    <3> QED
      BY <3>2, <3>3
  <2>14. Arrives(o)'
    BY <1>7, <1>8, <2>2, <2>7, <2>13 DEF Arrives
  <2> QED
    BY <2>12, <2>14
<1> QED
  BY <1>11, <1>12, <1>13 DEF NewestInv

LEMMA LaterThanAll ==
    ASSUME NEW c \in Seq(Msg), NEW t \in Int, NEW w \in Int, t < w, NoneLater(c, t), NEW v
    PROVE  NoneLater(c, w) /\ OnlyOne(c, w, v)
<1>1. \A i \in 1 .. Len(c) : c[i].type = "update" => c[i].when \in Int
  <2>1. \A i \in 1 .. Len(c) : c[i] \in Msg
    OBVIOUS
  <2> QED
    BY <2>1, Messages, SharedAssumption DEF Time
<1>2. \A i \in 1 .. Len(c) : c[i].type = "update" => c[i].when < w
  BY <1>1 DEF NoneLater
<1> QED
  BY <1>1, <1>2 DEF NoneLater, OnlyOne, Newest

\* A set is stored, sent to the other end, or both; one that is sent and newer than all
\* others is on its way to where it is not yet.
LEMMA NewestSet ==
    ASSUME IInv, NewestInv, NEW e \in End, NEW v \in Value, NEW t \in Time, Set(e, v, t)
    PROVE  NewestInv'
<1> DEFINE o == Other(e)
           u == Update(v, t)
           w == latest.when
<1>1. PICK accepted \in ShouldAccept(e, v, t, TRUE) :
         /\ Store(e, v, t, accepted)
         /\ chan' = IF ShouldSend(e, TRUE, accepted) THEN Packed(chan, e, Update(v, t)) ELSE chan
         /\ latest' = LatestAfter(v, t, ShouldSend(e, TRUE, accepted))
  BY DEF Set
<1> DEFINE sends == ShouldSend(e, TRUE, accepted)
<1>2. UNCHANGED <<mode, policy, kind, isSerializer, up>>
  BY DEF Set, objVars, serialVars
<1>3. /\ o \in End /\ o # e /\ Other(o) = e /\ \A x \in End : x = e \/ x = o
      /\ \A x \in End : chan[x] \in Seq(Msg)
      /\ u \in Msg /\ u.type = "update" /\ u.value = v /\ u.when = t
  <2>1. u \in Msg /\ u.type = "update" /\ u.value = v /\ u.when = t
    BY Messages DEF Update
  <2>2. \A x \in End : chan[x] \in Seq(Msg)
    BY TypeParts DEF IInv, NetTypes
  <2> QED
    BY <2>1, <2>2, Ends
<1>4. t \in Int /\ w \in Int /\ stamp[e] \in Int /\ stamp[o] \in Int
  <2>1. Time \subseteq Int
    BY SharedAssumption DEF Time
  <2>2. stamp[e] \in Time /\ stamp[o] \in Time
    BY <1>3, TypeParts DEF IInv, ValueTypes
  <2>3. w \in Nat
    BY TypeParts DEF IInv, LatestType
  <2>4. t \in Int
    BY <2>1
  <2>5. stamp[e] \in Int /\ stamp[o] \in Int
    BY <2>1, <2>2
  <2>6. w \in Int
    BY <2>3
  <2> QED
    BY <2>4, <2>5, <2>6
<1>5. /\ accepted \in BOOLEAN
      /\ accepted /\ "IGNORE_OLD" \in mode => ~IsOld(e, t, TRUE)
      /\ AllCount /\ ~IsOld(e, t, TRUE) =>
           (accepted <=> "DEFER_UPDATES" \notin mode \/ isSerializer[e])
  <2>1. TypeOK /\ TRUE \in BOOLEAN
    BY DEF IInv
  <2> QED
    BY <2>1, Decided
<1>6. /\ accepted => sends
      /\ ~accepted /\ sends => "DEFER_UPDATES" \in mode /\ ~isSerializer[e]
      /\ "DEFER_UPDATES" \in mode /\ ~isSerializer[e] => sends
  BY <1>5 DEF ShouldSend
<1>7. /\ stamp'[e] = (IF accepted THEN t ELSE stamp[e]) /\ stamp'[o] = stamp[o]
      /\ value'[e] = (IF accepted THEN v ELSE value[e]) /\ value'[o] = value[o]
  BY <1>1, <1>3, TypeParts DEF Store, IInv, ValueTypes
<1>8. /\ chan'[e] = chan[e]
      /\ chan'[o] = IF sends /\ up THEN Append(chan[o], u) ELSE chan[o]
  BY <1>1, <1>3, TypeParts DEF Packed, IInv, NetTypes
<1>9. /\ ~sends => latest' = latest
      /\ sends /\ t < w => latest' = latest
      /\ sends /\ t > w =>
           latest'.value = v /\ latest'.when = t /\ latest'.sent = up /\ latest'.tied = FALSE
      /\ sends /\ t = w => latest'.when = w /\ latest'.tied = TRUE
  <2>1. latest' = LatestAfter(v, t, sends)
    BY <1>1
  <2> HIDE DEF sends
  <2> QED
    BY <1>4, <2>1, TypeParts DEF LatestAfter, IInv, LatestType
<1> HIDE DEF o, u, sends
<1>10. NoneLater(chan[e], w) /\ NoneLater(chan[o], w) /\ stamp[e] <= w /\ stamp[o] <= w
  BY <1>3 DEF NewestInv, Bounded
<1>11. UpWhenUnderWay'
  BY <1>2, <1>3, <1>8 DEF NewestInv, UpWhenUnderWay
<1>12. CASE ~sends
  <2>1. /\ latest' = latest
        /\ \A x \in End : stamp'[x] = stamp[x] /\ value'[x] = value[x] /\ chan'[x] = chan[x]
    BY <1>3, <1>6, <1>7, <1>8, <1>9, <1>12
  <2>2. Bounded' /\ Alone'
    BY <2>1 DEF NewestInv, Bounded, Alone, Untied
  <2>3. \A x \in End : Arrives(x) => Arrives(x)'
    BY <1>2, <2>1, Ends DEF Arrives, Deferred
  <2>4. (AllCount' <=> AllCount) /\ (Untied' <=> Untied)
    BY <1>2, <2>1 DEF AllCount, Untied
  <2>5. Arriving'
    BY <2>3, <2>4 DEF NewestInv, Arriving
  <2> QED
    BY <1>11, <2>2, <2>5 DEF NewestInv
<1>13. CASE sends /\ t < w
  <2>1. latest' = latest
    BY <1>9, <1>13
  <2>2. ~Newest(u, w)
    BY <1>3, <1>4, <1>13 DEF Newest
  <2>3. /\ NoneLater(chan'[o], w) /\ NoneLater(chan'[e], w)
        /\ Coming(chan[o], w) => Coming(chan'[o], w)
        /\ ComingFirst(chan[o], w) => ComingFirst(chan'[o], w)
        /\ \A x : OnlyOne(chan[o], w, x) => OnlyOne(chan'[o], w, x)
    <3>1. u.when <= w
      BY <1>3, <1>4, <1>13
    <3> QED
      BY <1>3, <1>8, <1>10, <2>2, <3>1, AddedComing
  <2>4. stamp'[e] <= w /\ (stamp'[e] = w <=> ~accepted /\ stamp[e] = w)
    BY <1>4, <1>5, <1>7, <1>10, <1>13
  <2>5. Bounded'
    BY <1>3, <1>7, <1>10, <2>1, <2>3, <2>4 DEF Bounded
  <2>6. (AllCount' <=> AllCount) /\ (Untied' <=> Untied)
    BY <1>2, <2>1 DEF AllCount, Untied
  <2>7. ASSUME Untied
        PROVE  \A x \in End : /\ stamp'[x] = w => value'[x] = latest.value
                              /\ OnlyOne(chan'[x], w, latest.value)
    BY <1>3, <1>7, <1>8, <2>3, <2>4, <2>7 DEF NewestInv, Alone
  <2>8. Alone'
    BY <2>1, <2>6, <2>7 DEF Alone
  <2>9. ASSUME AllCount, Untied PROVE Arrives(e)' /\ Arrives(o)'
    <3>1. Arrives(e) /\ Arrives(o) /\ "IGNORE_OLD" \in mode
      BY <1>3, <2>9 DEF NewestInv, Arriving, AllCount
    <3>2. stamp[e] = w => stamp'[e] = w
      <4>1. stamp[e] = w => IsOld(e, t, TRUE)
        BY <1>13 DEF IsOld
      <4> QED
        BY <1>5, <1>7, <3>1, <4>1
    <3>3. Deferred(e) => Deferred(e)'
      BY <1>2, <1>7, <2>1, <2>3 DEF Deferred, o
    <3>4. stamp[e] < w => stamp'[e] < w
      BY <1>4, <1>7, <1>13
    <3>5. Deferred(o) => Deferred(o)'
      BY <1>2, <1>3, <1>8, <2>1, <3>4 DEF Deferred
    <3>6. Arrives(e)'
      BY <1>8, <2>1, <3>1, <3>2, <3>3 DEF Arrives
    <3>7. Arrives(o)'
      BY <1>7, <2>1, <2>3, <3>1, <3>5 DEF Arrives
    <3> QED
      BY <3>6, <3>7
  <2>10. Arriving'
    BY <1>3, <2>6, <2>9 DEF Arriving
  <2> QED
    BY <1>11, <2>5, <2>8, <2>10 DEF NewestInv
<1>14. CASE sends /\ t = w
  <2>1. latest'.when = w /\ ~Untied'
    BY <1>9, <1>14 DEF Untied
  <2>2. NoneLater(chan'[o], w)
    <3>1. u.when <= w
      BY <1>3, <1>4, <1>14
    <3> QED
      BY <1>3, <1>8, <1>10, <3>1, AddedComing
  <2>3. stamp'[e] <= w
    BY <1>4, <1>7, <1>10, <1>14
  <2>4. Bounded'
    BY <1>3, <1>7, <1>8, <1>10, <2>1, <2>2, <2>3 DEF Bounded
  <2>5. Alone' /\ Arriving'
    BY <2>1 DEF Alone, Arriving
  <2> QED
    BY <1>11, <2>4, <2>5 DEF NewestInv
<1>15. CASE sends /\ t > w
  <2>1. latest'.value = v /\ latest'.when = t /\ latest'.sent = up /\ latest'.tied = FALSE
    BY <1>9, <1>15
  <2>2. /\ NoneLater(chan[e], t) /\ OnlyOne(chan[e], t, v)
        /\ NoneLater(chan[o], t) /\ OnlyOne(chan[o], t, v)
    <3>1. w < t
      BY <1>4, <1>15
    <3> HIDE DEF w
    <3> QED
      BY <1>3, <1>4, <1>10, <3>1, LaterThanAll
  <2>3. NoneLater(chan'[o], t) /\ OnlyOne(chan'[o], t, v)
    <3>1. u.when <= t /\ u.value = v
      BY <1>3, <1>4
    <3> QED
      BY <1>3, <1>8, <2>2, <3>1, AddedComing
  <2>4. stamp[e] < t /\ stamp[o] < t /\ stamp'[e] <= t /\ (stamp'[e] = t <=> accepted)
    BY <1>4, <1>5, <1>7, <1>10, <1>15
  <2>5. Bounded'
    <3>1. stamp'[o] <= t
      BY <1>4, <1>7, <2>4
    <3> QED
      BY <1>3, <1>8, <2>1, <2>2, <2>3, <2>4, <3>1 DEF Bounded
  <2>6. \A x \in End : /\ stamp'[x] = t => value'[x] = v
                       /\ OnlyOne(chan'[x], t, v)
    <3>1. stamp'[o] # t
      BY <1>4, <1>7, <2>4
    <3> QED
      BY <1>3, <1>7, <1>8, <2>2, <2>3, <2>4, <3>1
  <2>7. Alone'
    BY <2>1, <2>6 DEF Alone
  <2>8. ASSUME AllCount, up PROVE Arrives(e)' /\ Arrives(o)'
    <3>1. Coming(chan'[o], t)
      <4>1. Newest(u, t)
        BY <1>3 DEF Newest
      <4> QED
        BY <1>3, <1>8, <1>15, <2>8, <4>1, AddedComing
    <3>2. ~IsOld(e, t, TRUE)
      <4>1. ~(t < stamp[e]) /\ t # stamp[e]
        BY <1>4, <2>4
      <4> QED
        BY <4>1, Zenon DEF IsOld
    <3>3. accepted \/ ("DEFER_UPDATES" \in mode /\ ~isSerializer[e])
      BY <1>5, <2>8, <3>2
    <3>4. ASSUME "DEFER_UPDATES" \in mode, ~isSerializer[e] PROVE Deferred(e)'
      <4>1. isSerializer[o]
        BY <1>3, <3>4 DEF IInv, SomeoneSerializes
      <4>2. "assume" \notin TypesOf(chan[o])
        BY <1>3, <3>4 DEF IInv, Negotiation, Has
      <4>3. ComingFirst(chan'[o], t)
        <5>1. Newest(u, t)
          BY <1>3 DEF Newest
        <5> QED
          BY <1>3, <1>8, <1>15, <2>8, <4>2, <5>1, AddedComing
      <4>4. stamp'[o] < t
        BY <1>7, <2>4
      <4> QED
        BY <1>2, <2>1, <3>4, <4>1, <4>3, <4>4 DEF Deferred, o
    <3> QED
      BY <2>1, <2>4, <3>1, <3>3, <3>4 DEF Arrives
  <2>9. (AllCount' <=> AllCount) /\ (Untied' <=> up)
    BY <1>2, <2>1 DEF AllCount, Untied
  <2>10. Arriving'
    BY <1>3, <2>8, <2>9 DEF Arriving
  <2> QED
    BY <1>11, <2>5, <2>7, <2>10 DEF NewestInv
<1> QED
  BY <1>4, <1>12, <1>13, <1>14, <1>15

LEMMA NewestInit == Init => NewestInv
<1> SUFFICES ASSUME Init PROVE NewestInv
  OBVIOUS
<1>1. /\ \A e \in End : chan[e] = <<>> /\ stamp[e] \in {0, 1}
      /\ latest.when = 1 /\ latest.sent = FALSE
  BY DEF Init
<1>2. \A e \in End : NoneLater(chan[e], 1) /\ stamp[e] <= 1
  BY <1>1 DEF NoneLater
<1> QED
  BY <1>1, <1>2 DEF NewestInv, UpWhenUnderWay, Bounded, Alone, Arriving, Untied

\* The steps that negotiate.
LEMMA NewestNegotiation ==
    ASSUME IInv, NewestInv, NEW e \in End,
           BecomeSerializer(e) \/ HandleRequest(e) \/ HandleGrant(e) \/ HandleAssume(e)
    PROVE  NewestInv'
<1> DEFINE o == Other(e)
<1>1. /\ o \in End /\ o # e /\ chan \in [End -> Seq(Msg)] /\ NewestInv
      /\ isSerializer \in [End -> BOOLEAN]
  BY Ends, TypeParts DEF IInv, NetTypes, SerialTypes
<1>2. \A c \in {"request", "grant", "assume"} :
         Control(c) \in Msg /\ Control(c).type # "update"
  BY Messages
<1>3. ASSUME chan[e] # <<>>
      PROVE  /\ up /\ Rest(e) \in [End -> Seq(Msg)]
             /\ Rest(e)[e] = Tail(chan[e]) /\ Rest(e)[o] = chan[o]
  <2>1. Rest(e) \in [End -> Seq(Msg)]
    BY <1>3, RestType, TypeParts DEF IInv
  <2> QED
    BY <1>1, <1>3, <2>1 DEF Rest, NewestInv, UpWhenUnderWay
<1>4. UNCHANGED <<objVars, value, stamp, latest, up>>
  BY DEF BecomeSerializer, HandleRequest, HandleGrant, HandleAssume, history
<1>5. CASE BecomeSerializer(e)
  <2>1. chan' = Packed(chan, e, Control("request")) /\ isSerializer' = isSerializer
    BY <1>5 DEF BecomeSerializer
  <2>2. /\ chan'[e] = chan[e]
        /\ \/ chan'[o] = chan[o]
           \/ up /\ chan'[o] = Append(chan[o], Control("request"))
    BY <1>1, <2>1 DEF Packed
  <2> QED
    BY <1>2, <1>4, <2>1, <2>2, NewestControl
<1>6. CASE HandleRequest(e)
  <2>1. /\ chan[e] # <<>> /\ Head(chan[e]).type = "request" /\ isSerializer' = isSerializer
        /\ chan' = Rest(e) \/ chan' = Packed(Rest(e), e, Control("grant"))
    BY <1>6 DEF HandleRequest, Receive
  <2>2. /\ chan'[e] = Tail(chan[e])
        /\ \/ chan'[o] = chan[o]
           \/ up /\ chan'[o] = Append(chan[o], Control("grant"))
    BY <1>1, <1>3, <2>1 DEF Packed
  <2> QED
    BY <1>2, <1>4, <2>1, <2>2, NewestControl
<1>7. CASE HandleGrant(e)
  <2>1. /\ chan[e] # <<>> /\ Head(chan[e]).type = "grant"
        /\ isSerializer' = [isSerializer EXCEPT ![e] = TRUE]
        /\ chan' = Packed(Rest(e), e, Control("assume"))
    BY <1>7 DEF HandleGrant, Receive
  <2>2. /\ chan'[e] = Tail(chan[e])
        /\ \/ chan'[o] = chan[o]
           \/ up /\ chan'[o] = Append(chan[o], Control("assume"))
    BY <1>1, <1>3, <2>1 DEF Packed
  <2>3. \A x \in End : isSerializer[x] => isSerializer'[x]
    BY <1>1, <2>1
  <2> QED
    BY <1>2, <1>4, <2>1, <2>2, <2>3, NewestControl
<1>8. CASE HandleAssume(e)
  <2>1. /\ chan[e] # <<>> /\ Head(chan[e]).type = "assume"
        /\ isSerializer' = [isSerializer EXCEPT ![e] = FALSE]
        /\ chan' = Rest(e)
    BY <1>8 DEF HandleAssume, Receive
  <2>2. chan'[e] = Tail(chan[e]) /\ chan'[o] = chan[o]
    BY <1>3, <2>1
  <2>3. \A x \in End : isSerializer[x] => isSerializer'[x] \/ x = e
    BY <1>1, <2>1
  <2> QED
    BY <1>4, <2>1, <2>2, <2>3, NewestControl
<1> QED
  BY <1>5, <1>6, <1>7, <1>8

LEMMA NewestConnection ==
    ASSUME IInv, NewestInv, Connect \/ Break
    PROVE  NewestInv'
<1>1. CASE Connect
  <2>1. up' = TRUE /\ UNCHANGED <<mode, policy, value, stamp, isSerializer, chan, latest>>
    BY <1>1 DEF Connect, objVars, serialVars, history
  <2>2. UpWhenUnderWay'
    BY <2>1 DEF UpWhenUnderWay
  <2>3. Bounded' /\ Alone' /\ Arriving'
    BY <2>1 DEF NewestInv, Bounded, Alone, Arriving, Untied, AllCount, Arrives, Deferred
  <2> QED
    BY <2>2, <2>3 DEF NewestInv
<1>2. CASE Break
  <2>1. /\ chan' = [e \in End |-> <<>>] /\ stamp' = stamp
        /\ latest' = [latest EXCEPT !.sent = FALSE]
    BY <1>2 DEF Break
  <2>2. latest'.when = latest.when /\ latest'.sent = FALSE
    BY <2>1, TypeParts DEF IInv, LatestType
  <2>3. \A e \in End : chan'[e] = <<>> /\ NoneLater(chan'[e], latest.when)
    BY <2>1 DEF NoneLater
  <2>4. UpWhenUnderWay' /\ Bounded'
    BY <2>1, <2>2, <2>3 DEF NewestInv, UpWhenUnderWay, Bounded
  <2>5. Alone' /\ Arriving'
    BY <2>2 DEF Alone, Arriving, Untied
  <2> QED
    BY <2>4, <2>5 DEF NewestInv
<1> QED
  BY <1>1, <1>2

LEMMA NewestStep == IInv /\ NewestInv /\ [Next]_vars => NewestInv'
<1> SUFFICES ASSUME IInv, NewestInv, [Next]_vars PROVE NewestInv'
  OBVIOUS
<1>1. CASE Connect \/ Break
  BY <1>1, NewestConnection
<1>2. CASE \E e \in End, v \in Value, t \in Time : Set(e, v, t)
  BY <1>2, NewestSet
<1>3. CASE \E e \in End : HandleUpdate(e)
  BY <1>3, NewestUpdate
<1>4. CASE \E e \in End :
              BecomeSerializer(e) \/ HandleRequest(e) \/ HandleGrant(e) \/ HandleAssume(e)
  BY <1>4, NewestNegotiation
<1>5. CASE UNCHANGED vars
  <2>1. UNCHANGED <<mode, policy, value, stamp, isSerializer, up, chan, latest>>
    BY <1>5 DEF vars, objVars, serialVars, history
  <2> QED
    BY <2>1 DEF NewestInv, UpWhenUnderWay, Bounded, Alone, Arriving, Untied, AllCount, Arrives,
       Deferred
<1> QED
  BY <1>1, <1>2, <1>3, <1>4, <1>5 DEF Next, Handle

LEMMA NewestAlways == Spec => [](IInv /\ NewestInv)
BY IInit, IStep, NewestInit, NewestStep, PTL DEF Spec

\* When nothing is under way, both ends have the set with the greatest time, if that was
\* sent over this connection and all sets count: whoever set what when, and whoever asked
\* to decide in the meantime.
THEOREM ConvergedHolds == Spec => []Converged
<1>1. ASSUME NewestInv PROVE Converged
  <2> SUFFICES ASSUME AllCount, Quiet, Untied, NEW e \in End
               PROVE  value[e] = latest.value /\ stamp[e] = latest.when
    BY DEF Converged, AllCount, Untied
  <2>1. \A x \in End : ~Coming(chan[x], latest.when) /\ ~ComingFirst(chan[x], latest.when)
    BY DEF Quiet, Coming, ComingFirst
  <2>2. stamp[e] = latest.when
    BY <1>1, <2>1, Ends DEF NewestInv, Arriving, Arrives, Deferred
  <2> QED
    BY <1>1, <2>2 DEF NewestInv, Alone
<1> QED
  BY <1>1, NewestAlways, PTL

----------------------------------------------------------------------------
(* The sequence of callbacks.  While one end serializes, what is under way to the   *)
(* other are the sets it has accepted since what the other has; each of them counts *)
(* where it is read, after those before it.                                         *)

\* What an end that starts from v and t has when it comes to the i-th message of c.
ValueBefore(c, v, i) == IF i = 1 THEN v ELSE c[i - 1].value
TimeBefore(c, t, i) == IF i = 1 THEN t ELSE c[i - 1].when

Counts(v, t, wasValue, wasTime) ==
    /\ ~("IGNORE_IDEMPOTENT" \in mode /\ kind # "String" /\ v = wasValue)
    /\ ~("IGNORE_OLD" \in mode /\ (t < wasTime \/ (t = wasTime /\ kind = "int32")))

\* The messages of c lead from v and t to w and x.
Leads(c, v, t, w, x) ==
    /\ \A i \in 1 .. Len(c) :
          /\ c[i].type = "update"
          /\ Counts(c[i].value, c[i].when, ValueBefore(c, v, i), TimeBefore(c, t, i))
    /\ w = ValueBefore(c, v, Len(c) + 1) /\ x = TimeBefore(c, t, Len(c) + 1)

\* The callbacks p of one end are those, q, of the other, but for the messages of c.
Behind(p, q, c) ==
    /\ Len(q) = Len(p) + Len(c)
    /\ \A i \in 1 .. Len(p) : q[i] = p[i]
    /\ \A i \in 1 .. Len(c) : q[Len(p) + i] = c[i].value

Follows(e) ==
    /\ Leads(chan[e], value[e], stamp[e], value[Other(e)], stamp[Other(e)])
    /\ Behind(calls[e], calls[Other(e)], chan[e])

OneSerializes ==
    /\ up /\ "DEFER_UPDATES" \in mode
    /\ \A e \in End : ~isNegotiating[e] /\ isSerializer[Other(e)] = ~isSerializer[e]

SteadyInv == steady => OneSerializes /\ \A e \in End : ~isSerializer[e] => Follows(e)

LEMMA LeadsOn ==
    ASSUME NEW c \in Seq(Msg), NEW m \in Msg, m.type = "update", NEW v, NEW t, NEW w, NEW x,
           Leads(c, v, t, w, x), Counts(m.value, m.when, w, x)
    PROVE  Leads(Append(c, m), v, t, m.value, m.when)
<1> DEFINE d == Append(c, m)
<1>1. /\ Len(d) = Len(c) + 1 /\ Len(c) \in Nat /\ d[Len(c) + 1] = m
      /\ \A i \in 1 .. Len(c) : d[i] = c[i]
  OBVIOUS
<1> HIDE DEF d
<1>2. \A i \in 1 .. Len(c) + 1 :
         ValueBefore(d, v, i) = ValueBefore(c, v, i) /\ TimeBefore(d, t, i) = TimeBefore(c, t, i)
  <2> SUFFICES ASSUME NEW i \in 1 .. Len(c) + 1, i # 1 PROVE d[i - 1] = c[i - 1]
    BY DEF ValueBefore, TimeBefore
  <2>1. i - 1 \in 1 .. Len(c)
    BY <1>1
  <2> QED
    BY <1>1, <2>1
<1>3. ASSUME NEW i \in 1 .. Len(d)
      PROVE  /\ d[i].type = "update"
             /\ Counts(d[i].value, d[i].when, ValueBefore(d, v, i), TimeBefore(d, t, i))
  <2>1. CASE i \in 1 .. Len(c)
    <3>1. d[i] = c[i] /\ i \in 1 .. Len(c) + 1
      BY <1>1, <2>1
    <3> QED
      BY <1>2, <2>1, <3>1 DEF Leads
  <2>2. CASE i = Len(c) + 1
    <3>1. d[i] = m /\ i \in 1 .. Len(c) + 1
      BY <1>1, <2>2
    <3>2. ValueBefore(d, v, i) = w /\ TimeBefore(d, t, i) = x
      BY <1>2, <2>2, <3>1 DEF Leads
    <3> QED
      BY <3>1, <3>2
  <2> QED
    BY <1>1, <2>1, <2>2
<1>4. m.value = ValueBefore(d, v, Len(d) + 1) /\ m.when = TimeBefore(d, t, Len(d) + 1)
  <2>1. Len(d) + 1 # 1 /\ (Len(d) + 1) - 1 = Len(c) + 1
    BY <1>1
  <2> QED
    BY <1>1, <2>1 DEF ValueBefore, TimeBefore
<1>5. Leads(d, v, t, m.value, m.when)
  BY <1>3, <1>4 DEF Leads
<1> QED
  BY <1>5 DEF d

LEMMA LeadsFrom ==
    ASSUME NEW c \in Seq(Msg), c # <<>>, NEW v, NEW t, NEW w, NEW x, Leads(c, v, t, w, x)
    PROVE  /\ Head(c).type = "update" /\ Counts(Head(c).value, Head(c).when, v, t)
           /\ Leads(Tail(c), Head(c).value, Head(c).when, w, x)
<1> DEFINE d == Tail(c)
           h == Head(c)
<1>1. /\ Len(c) \in Nat \ {0} /\ Len(d) = Len(c) - 1 /\ h = c[1]
      /\ \A i \in 1 .. Len(d) : d[i] = c[i + 1] /\ i + 1 \in 1 .. Len(c)
  OBVIOUS
<1> HIDE DEF d, h
<1>2. 1 \in 1 .. Len(c) /\ ValueBefore(c, v, 1) = v /\ TimeBefore(c, t, 1) = t
  BY <1>1 DEF ValueBefore, TimeBefore
<1>3. h.type = "update" /\ Counts(h.value, h.when, v, t)
  BY <1>1, <1>2 DEF Leads
<1>4. \A i \in 1 .. Len(d) + 1 : /\ ValueBefore(d, h.value, i) = ValueBefore(c, v, i + 1)
                                 /\ TimeBefore(d, h.when, i) = TimeBefore(c, t, i + 1)
  <2> SUFFICES ASSUME NEW i \in 1 .. Len(d) + 1
               PROVE  /\ ValueBefore(d, h.value, i) = ValueBefore(c, v, i + 1)
                      /\ TimeBefore(d, h.when, i) = TimeBefore(c, t, i + 1)
    OBVIOUS
  <2>1. i + 1 # 1 /\ (i + 1) - 1 = i /\ i \in Int
    BY <1>1
  <2>2. CASE i = 1
    BY <1>1, <2>1, <2>2 DEF ValueBefore, TimeBefore
  <2>3. CASE i # 1
    <3>1. i - 1 \in 1 .. Len(d) /\ (i - 1) + 1 = i
      BY <1>1, <2>3
    <3>2. d[i - 1] = c[i]
      BY <1>1, <3>1
    <3> QED
      BY <2>1, <2>3, <3>2 DEF ValueBefore, TimeBefore
  <2> QED
    BY <2>2, <2>3
<1>5. ASSUME NEW i \in 1 .. Len(d)
      PROVE  /\ d[i].type = "update"
             /\ Counts(d[i].value, d[i].when, ValueBefore(d, h.value, i), TimeBefore(d, h.when, i))
  <2>1. d[i] = c[i + 1] /\ i + 1 \in 1 .. Len(c) /\ i \in 1 .. Len(d) + 1
    BY <1>1
  <2>2. /\ ValueBefore(d, h.value, i) = ValueBefore(c, v, i + 1)
        /\ TimeBefore(d, h.when, i) = TimeBefore(c, t, i + 1)
    BY <1>4, <2>1
  <2>3. /\ c[i + 1].type = "update"
        /\ Counts(c[i + 1].value, c[i + 1].when, ValueBefore(c, v, i + 1), TimeBefore(c, t, i + 1))
    BY <2>1 DEF Leads
  <2> QED
    BY <2>1, <2>2, <2>3
<1>6. w = ValueBefore(d, h.value, Len(d) + 1) /\ x = TimeBefore(d, h.when, Len(d) + 1)
  <2>1. Len(d) + 1 \in 1 .. Len(d) + 1 /\ Len(c) + 1 = (Len(d) + 1) + 1
    BY <1>1
  <2>2. /\ ValueBefore(d, h.value, Len(d) + 1) = ValueBefore(c, v, (Len(d) + 1) + 1)
        /\ TimeBefore(d, h.when, Len(d) + 1) = TimeBefore(c, t, (Len(d) + 1) + 1)
    BY <1>4, <2>1
  <2> QED
    BY <2>1, <2>2 DEF Leads
<1>7. Leads(d, h.value, h.when, w, x)
  BY <1>5, <1>6 DEF Leads
<1> QED
  BY <1>3, <1>7 DEF d, h

LEMMA BehindOn ==
    ASSUME NEW p \in Seq(Value), NEW q \in Seq(Value), NEW c \in Seq(Msg), Behind(p, q, c),
           NEW m \in Msg, m.value \in Value
    PROVE  Behind(p, Append(q, m.value), Append(c, m))
<1> DEFINE d == Append(c, m)
           r == Append(q, m.value)
<1>1. /\ Len(d) = Len(c) + 1 /\ Len(c) \in Nat /\ d[Len(c) + 1] = m
      /\ \A i \in 1 .. Len(c) : d[i] = c[i]
  OBVIOUS
<1>2. /\ Len(r) = Len(q) + 1 /\ Len(q) \in Nat /\ r[Len(q) + 1] = m.value
      /\ \A i \in 1 .. Len(q) : r[i] = q[i]
  OBVIOUS
<1>3. Len(p) \in Nat
  OBVIOUS
<1> HIDE DEF d, r
<1>4. Len(q) = Len(p) + Len(c)
  BY DEF Behind
<1>5. ASSUME NEW i \in 1 .. Len(p) PROVE r[i] = p[i]
  <2>1. i \in 1 .. Len(q)
    BY <1>1, <1>3, <1>4
  <2> QED
    BY <1>2, <2>1 DEF Behind
<1>6. ASSUME NEW i \in 1 .. Len(d) PROVE r[Len(p) + i] = d[i].value
  <2>1. CASE i \in 1 .. Len(c)
    <3>1. Len(p) + i \in 1 .. Len(q)
      BY <1>1, <1>3, <1>4, <2>1
    <3> QED
      BY <1>1, <1>2, <2>1, <3>1 DEF Behind
  <2>2. CASE i = Len(c) + 1
    <3>1. Len(p) + i = Len(q) + 1
      BY <1>1, <1>3, <1>4, <2>2
    <3> QED
      BY <1>1, <1>2, <2>2, <3>1
  <2> QED
    BY <1>1, <2>1, <2>2
<1>7. Behind(p, r, d)
  BY <1>1, <1>2, <1>3, <1>4, <1>5, <1>6 DEF Behind
<1> QED
  BY <1>7 DEF d, r

LEMMA BehindLess ==
    ASSUME NEW p \in Seq(Value), NEW q \in Seq(Value), NEW c \in Seq(Msg), c # <<>>,
           Behind(p, q, c), Head(c).value \in Value
    PROVE  Behind(Append(p, Head(c).value), q, Tail(c))
<1> DEFINE d == Tail(c)
           h == Head(c)
           r == Append(p, h.value)
<1>1. /\ Len(c) \in Nat \ {0} /\ Len(d) = Len(c) - 1 /\ h = c[1]
      /\ \A i \in 1 .. Len(d) : d[i] = c[i + 1] /\ i + 1 \in 1 .. Len(c)
  OBVIOUS
<1>2. /\ Len(r) = Len(p) + 1 /\ Len(p) \in Nat /\ r[Len(p) + 1] = h.value
      /\ \A i \in 1 .. Len(p) : r[i] = p[i]
  OBVIOUS
<1> HIDE DEF d, h, r
<1>3. Len(q) = Len(p) + Len(c) /\ 1 \in 1 .. Len(c)
  BY <1>1 DEF Behind
<1>4. ASSUME NEW i \in 1 .. Len(r) PROVE q[i] = r[i]
  <2>1. CASE i \in 1 .. Len(p)
    BY <1>2, <2>1 DEF Behind
  <2>2. CASE i = Len(p) + 1
    BY <1>1, <1>2, <1>3, <2>2 DEF Behind
  <2> QED
    BY <1>2, <2>1, <2>2
<1>5. ASSUME NEW i \in 1 .. Len(d) PROVE q[Len(r) + i] = d[i].value
  <2>1. i + 1 \in 1 .. Len(c) /\ Len(r) + i = Len(p) + (i + 1) /\ d[i] = c[i + 1]
    BY <1>1, <1>2
  <2>2. q[Len(p) + (i + 1)] = c[i + 1].value
    BY <2>1 DEF Behind
  <2> QED
    BY <2>1, <2>2
<1>6. Len(q) = Len(r) + Len(d)
  BY <1>1, <1>2, <1>3
<1>7. Behind(r, q, d)
  BY <1>4, <1>5, <1>6 DEF Behind
<1> QED
  BY <1>7 DEF d, h, r

\* When it is settled, nobody is behind.
LEMMA SteadySettledNext ==
    ASSUME Settled', up', calls' = [x \in End |-> <<>>]
    PROVE  SteadyInv'
<1>1. OneSerializes'
  BY DEF Settled, OneSerializes
<1>2. ASSUME NEW e \in End PROVE Follows(e)'
  <2>1. /\ chan'[e] = <<>> /\ calls'[e] = <<>> /\ calls'[Other(e)] = <<>>
        /\ value'[e] = value'[Other(e)] /\ stamp'[e] = stamp'[Other(e)]
    BY <1>2, Ends DEF Settled
  <2> QED
    BY <2>1 DEF Follows, Leads, Behind, ValueBefore, TimeBefore
<1> QED
  BY <1>1, <1>2 DEF SteadyInv

\* While it is settled no message of a negotiation is under way.
LEMMA SteadyUpdates ==
    ASSUME IInv, OneSerializes
    PROVE  \A e \in End : /\ ~Receive(e, "request") /\ ~Receive(e, "grant")
                          /\ ~Receive(e, "assume")
<1> SUFFICES ASSUME NEW e \in End, NEW type \in {"request", "grant", "assume"},
                    Receive(e, type)
             PROVE  FALSE
  OBVIOUS
<1>1. Has(e, type)
  BY TookOne, TypeParts DEF IInv, NetTypes, Receive, Has
<1> QED
  BY <1>1, Ends DEF IInv, Negotiation, OneSerializes

\* What an accepted update does to what it counts against.
LEMMA AcceptedCounts ==
    ASSUME TypeOK, NEW e \in End, NEW v \in Value, NEW t \in Time, NEW isLocal \in BOOLEAN,
           NEW accepted \in ShouldAccept(e, v, t, isLocal)
    PROVE  /\ accepted /\ (isSerializer[e] \/ ~isLocal) => Counts(v, t, value[e], stamp[e])
           /\ /\ Counts(v, t, value[e], stamp[e])
              /\ "DEFER_UPDATES" \in mode /\ ~isSerializer[e] /\ ~isLocal
              => accepted
<1>1. isSerializer[e] \/ ~isLocal =>
         (IsOld(e, t, isLocal) <=>
             t < stamp[e] \/ (t = stamp[e] /\ kind = "int32"))
  BY Zenon DEF IsOld, TieIsOld
<1>2. SameValue(e, v) <=> kind # "String" /\ v = value[e]
  BY DEF SameValue
<1>3. isSerializer[e] \/ ~isLocal =>
         ( Counts(v, t, value[e], stamp[e]) <=>
             /\ ~("IGNORE_OLD" \in mode /\ IsOld(e, t, isLocal))
             /\ ~("IGNORE_IDEMPOTENT" \in mode /\ SameValue(e, v)) )
  BY <1>1, <1>2, Zenon DEF Counts
<1>4. /\ accepted /\ "IGNORE_OLD" \in mode => ~IsOld(e, t, isLocal)
      /\ accepted /\ "IGNORE_IDEMPOTENT" \in mode => ~SameValue(e, v)
      /\ /\ ~("IGNORE_OLD" \in mode /\ IsOld(e, t, isLocal))
         /\ ~("IGNORE_IDEMPOTENT" \in mode /\ SameValue(e, v))
         /\ "DEFER_UPDATES" \in mode /\ ~isSerializer[e] /\ ~isLocal
         => accepted
  BY Decided
<1> QED
  BY <1>3, <1>4

\* An end takes an update, from a call or from its channel: the serializer adds it, if it
\* accepts it, to what is under way to the other end; the other end takes what comes from
\* the serializer, and nothing of its own.
LEMMA SteadyTaken ==
    ASSUME IInv, SteadyInv, steady, NEW e \in End, NEW v \in Value, NEW t \in Time,
           NEW isLocal \in BOOLEAN, NEW accepted \in ShouldAccept(e, v, t, isLocal),
           Store(e, v, t, accepted), Announce(e, v, accepted),
           UNCHANGED <<mode, kind, serialVars, up, steady>>,
           isLocal => chan'[e] = chan[e],
           ~isLocal => /\ chan[e] # <<>> /\ chan'[e] = Tail(chan[e])
                       /\ Head(chan[e]).value = v /\ Head(chan[e]).when = t,
           chan'[Other(e)] = IF ShouldSend(e, isLocal, accepted)
                             THEN Append(chan[Other(e)], Update(v, t)) ELSE chan[Other(e)]
    PROVE  SteadyInv'
<1> DEFINE o == Other(e)
           u == Update(v, t)
<1>1. /\ o \in End /\ o # e /\ Other(o) = e /\ \A x \in End : x = e \/ x = o
      /\ \A x \in End : chan[x] \in Seq(Msg) /\ calls[x] \in Seq(Value)
      /\ u \in Msg /\ u.type = "update" /\ u.value = v /\ u.when = t
  <2>1. u \in Msg /\ u.type = "update" /\ u.value = v /\ u.when = t
    BY Messages DEF Update
  <2>2. \A x \in End : chan[x] \in Seq(Msg) /\ calls[x] \in Seq(Value)
    BY TypeParts DEF IInv, NetTypes, CallTypes
  <2> QED
    BY <2>1, <2>2, Ends
<1>2. /\ stamp'[e] = (IF accepted THEN t ELSE stamp[e]) /\ stamp'[o] = stamp[o]
      /\ value'[e] = (IF accepted THEN v ELSE value[e]) /\ value'[o] = value[o]
      /\ calls'[e] = (IF accepted THEN Append(calls[e], v) ELSE calls[e])
      /\ calls'[o] = calls[o]
  BY <1>1, TypeParts DEF Store, Announce, IInv, ValueTypes, CallTypes
<1>3. OneSerializes /\ \A x \in End : ~isSerializer[x] => Follows(x)
  BY DEF SteadyInv
<1>4. OneSerializes' /\ isSerializer' = isSerializer
  BY <1>3 DEF OneSerializes, serialVars
<1>5. /\ accepted /\ (isSerializer[e] \/ ~isLocal) => Counts(v, t, value[e], stamp[e])
      /\ /\ Counts(v, t, value[e], stamp[e])
         /\ "DEFER_UPDATES" \in mode /\ ~isSerializer[e] /\ ~isLocal
         => accepted
      /\ accepted \in BOOLEAN
      /\ accepted => isSerializer[e] \/ ~isLocal
  <2>1. TypeOK
    BY DEF IInv
  <2>2. /\ accepted \in BOOLEAN
        /\ accepted /\ "DEFER_UPDATES" \in mode => isSerializer[e] \/ ~isLocal
    BY <2>1, Decided
  <2> QED
    BY <1>3, <2>1, <2>2, AcceptedCounts DEF OneSerializes
<1>6. \A c, w, x, y, z : Leads(c, w, x, y, z)' <=> Leads(c, w, x, y, z)
  BY DEF Leads, Counts
<1>7. isSerializer[o] <=> ~isSerializer[e]
  BY <1>1, <1>3, TypeParts DEF OneSerializes, IInv, SerialTypes
<1> HIDE DEF o, u
<1>8. CASE isSerializer[e]
  <2>1. Follows(o)
    BY <1>1, <1>3, <1>7, <1>8
  <2>2. /\ Leads(chan[o], value[o], stamp[o], value[e], stamp[e])
        /\ Behind(calls[o], calls[e], chan[o])
    BY <1>1, <2>1 DEF Follows
  <2>3. CASE accepted
    <3>1. ShouldSend(e, isLocal, accepted)
      BY <1>3, <1>8, <2>3 DEF ShouldSend, OneSerializes
    <3>2. chan'[o] = Append(chan[o], u)
      BY <3>1 DEF o, u
    <3>3. Leads(chan'[o], value[o], stamp[o], v, t)
      <4>1. Counts(u.value, u.when, value[e], stamp[e])
        BY <1>1, <1>5, <1>8, <2>3
      <4>2. Leads(Append(chan[o], u), value[o], stamp[o], u.value, u.when)
        BY <1>1, <2>2, <4>1, LeadsOn
      <4> QED
        BY <1>1, <3>2, <4>2
    <3>4. Behind(calls[o], calls'[e], chan'[o])
      BY <1>1, <1>2, <2>2, <2>3, <3>2, BehindOn
    <3>5. Follows(o)'
      <4>1. Leads(chan'[o], value'[o], stamp'[o], value'[e], stamp'[e])
        BY <1>2, <2>3, <3>3
      <4>2. Behind(calls'[o], calls'[e], chan'[o])
        BY <1>2, <3>4
      <4> QED
        BY <1>1, <1>6, <4>1, <4>2 DEF Follows
    <3> QED
      BY <1>1, <1>4, <1>7, <1>8, <3>5 DEF SteadyInv
  <2>4. CASE ~accepted
    <3>1. ~ShouldSend(e, isLocal, accepted)
      BY <1>8, <2>4 DEF ShouldSend
    <3>2. chan'[o] = chan[o]
      BY <3>1 DEF o
    <3>3. Follows(o)'
      <4>1. Leads(chan'[o], value'[o], stamp'[o], value'[e], stamp'[e])
        BY <1>2, <2>2, <2>4, <3>2
      <4>2. Behind(calls'[o], calls'[e], chan'[o])
        BY <1>2, <2>2, <2>4, <3>2
      <4> QED
        BY <1>1, <1>6, <4>1, <4>2 DEF Follows
    <3> QED
      BY <1>1, <1>4, <1>7, <1>8, <3>3 DEF SteadyInv
  <2> QED
    BY <2>3, <2>4
<1>9. CASE ~isSerializer[e]
  <2>1. /\ Leads(chan[e], value[e], stamp[e], value[o], stamp[o])
        /\ Behind(calls[e], calls[o], chan[e])
    BY <1>3, <1>9 DEF Follows, o
  <2>2. CASE isLocal
    <3>1. ~accepted /\ chan'[e] = chan[e]
      BY <1>5, <1>9, <2>2
    <3>2. Follows(e)'
      <4>1. Leads(chan'[e], value'[e], stamp'[e], value'[o], stamp'[o])
        BY <1>2, <2>1, <3>1
      <4>2. Behind(calls'[e], calls'[o], chan'[e])
        BY <1>2, <2>1, <3>1
      <4> QED
        BY <1>6, <4>1, <4>2 DEF Follows, o
    <3> QED
      BY <1>1, <1>4, <1>7, <1>9, <3>2 DEF SteadyInv
  <2>3. CASE ~isLocal
    <3>1. /\ Counts(v, t, value[e], stamp[e])
          /\ Leads(Tail(chan[e]), v, t, value[o], stamp[o])
          /\ Behind(Append(calls[e], v), calls[o], Tail(chan[e]))
      BY <1>1, <2>1, <2>3, LeadsFrom, BehindLess
    <3>2. accepted
      BY <1>3, <1>5, <1>9, <2>3, <3>1 DEF OneSerializes
    <3>3. Follows(e)'
      <4>1. Leads(chan'[e], value'[e], stamp'[e], value'[o], stamp'[o])
        BY <1>2, <2>3, <3>1, <3>2
      <4>2. Behind(calls'[e], calls'[o], chan'[e])
        BY <1>2, <2>3, <3>1, <3>2
      <4> QED
        BY <1>6, <4>1, <4>2 DEF Follows, o
    <3> QED
      BY <1>1, <1>4, <1>7, <1>9, <3>3 DEF SteadyInv
  <2> QED
    BY <2>2, <2>3
<1> QED
  BY <1>8, <1>9

LEMMA SteadySet ==
    ASSUME IInv, SteadyInv, NEW e \in End, NEW v \in Value, NEW t \in Time, Set(e, v, t)
    PROVE  SteadyInv'
<1>1. PICK accepted \in ShouldAccept(e, v, t, TRUE) :
         /\ Store(e, v, t, accepted)
         /\ chan' = IF ShouldSend(e, TRUE, accepted) THEN Packed(chan, e, Update(v, t)) ELSE chan
         /\ Announce(e, v, accepted)
  BY DEF Set
<1>2. UNCHANGED <<mode, kind, serialVars, up, steady>>
  BY DEF Set, objVars
<1>3. CASE steady
  <2>1. up
    BY <1>3 DEF SteadyInv, OneSerializes
  <2>2. /\ chan'[e] = chan[e]
        /\ chan'[Other(e)] = IF ShouldSend(e, TRUE, accepted)
                             THEN Append(chan[Other(e)], Update(v, t)) ELSE chan[Other(e)]
    BY <1>1, <2>1, Ends, TypeParts DEF Packed, IInv, NetTypes
  <2>3. TRUE \in BOOLEAN /\ TRUE
    OBVIOUS
  <2> QED
    BY <1>1, <1>2, <1>3, <2>2, <2>3, SteadyTaken
<1>4. CASE ~steady
  BY <1>2, <1>4 DEF SteadyInv
<1> QED
  BY <1>3, <1>4

LEMMA SteadyUpdate ==
    ASSUME IInv, SteadyInv, UpWhenUnderWay, NEW e \in End, HandleUpdate(e)
    PROVE  SteadyInv'
<1> DEFINE m == Head(chan[e])
<1>1. PICK accepted \in ShouldAccept(e, m.value, m.when, FALSE) :
         /\ Store(e, m.value, m.when, accepted)
         /\ chan' = IF ShouldSend(e, FALSE, accepted)
                    THEN Packed(Rest(e), e, Update(m.value, m.when)) ELSE Rest(e)
         /\ steady => Announce(e, m.value, accepted)
         /\ ~steady => calls' = [x \in End |-> <<>>]
  BY DEF HandleUpdate
<1>2. /\ chan[e] # <<>> /\ up /\ up' /\ steady' = (steady \/ Settled')
      /\ UNCHANGED <<mode, kind, serialVars, up>>
      /\ m.value \in Value /\ m.when \in Time
  <2>1. chan[e] # <<>> /\ m.type = "update" /\ up
    BY DEF HandleUpdate, Receive, UpWhenUnderWay
  <2>2. m.value \in Value /\ m.when \in Time
    BY <2>1, RestType, Messages, TypeParts DEF IInv
  <2>3. UNCHANGED <<mode, kind, serialVars, up>> /\ steady' = (steady \/ Settled')
    BY DEF HandleUpdate, objVars, SteadyAfter
  <2> QED
    BY <2>1, <2>2, <2>3
<1>3. CASE steady
  <2>1. /\ chan'[e] = Tail(chan[e])
        /\ chan'[Other(e)] = IF ShouldSend(e, FALSE, accepted)
                             THEN Append(chan[Other(e)], Update(m.value, m.when))
                             ELSE chan[Other(e)]
    <3>1. Rest(e) \in [End -> Seq(Msg)]
      BY <1>2, RestType, TypeParts DEF IInv
    <3>2. Rest(e)[e] = Tail(chan[e]) /\ Rest(e)[Other(e)] = chan[Other(e)]
      BY <1>2, Ends, TypeParts DEF Rest, IInv, NetTypes
    <3> DEFINE u == Update(m.value, m.when)
    <3> HIDE DEF m, u
    <3>3. /\ Packed(Rest(e), e, u)[e] = Rest(e)[e]
          /\ Packed(Rest(e), e, u)[Other(e)] = Append(Rest(e)[Other(e)], u)
      BY <1>2, <3>1, Ends DEF Packed
    <3> QED
      BY <1>1, <3>2, <3>3 DEF m, u
  <2>2. FALSE \in BOOLEAN /\ ~FALSE /\ steady' = steady
    BY <1>2, <1>3
  <2> DEFINE v == m.value
             t == m.when
  <2>3. /\ v \in Value /\ t \in Time /\ accepted \in ShouldAccept(e, v, t, FALSE)
        /\ Store(e, v, t, accepted) /\ Announce(e, v, accepted)
        /\ Head(chan[e]).value = v /\ Head(chan[e]).when = t
        /\ chan'[Other(e)] = IF ShouldSend(e, FALSE, accepted)
                             THEN Append(chan[Other(e)], Update(v, t)) ELSE chan[Other(e)]
    BY <1>1, <1>2, <1>3, <2>1
  <2> HIDE DEF m, v, t
  <2> QED
    BY <1>2, <1>3, <2>1, <2>2, <2>3, SteadyTaken
<1>4. CASE ~steady
  <2>0. calls' = [x \in End |-> <<>>]
    BY <1>1, <1>4
  <2>1. steady' => Settled'
    BY <1>2, <1>4, Zenon
  <2>2. CASE Settled'
    <3>1. Settled' /\ up' /\ calls' = [x \in End |-> <<>>]
      BY <1>2, <2>0, <2>2
    <3> QED
      BY <3>1, SteadySettledNext
  <2>3. CASE ~Settled'
    BY <2>1, <2>3 DEF SteadyInv
  <2> QED
    BY <2>2, <2>3
<1> QED
  BY <1>3, <1>4

LEMMA SteadyNegotiation ==
    ASSUME IInv, SteadyInv, UpWhenUnderWay, NEW e \in End,
           BecomeSerializer(e) \/ HandleRequest(e) \/ HandleGrant(e) \/ HandleAssume(e)
    PROVE  SteadyInv'
<1>1. CASE BecomeSerializer(e)
  BY <1>1 DEF BecomeSerializer, SteadyInv
<1>2. CASE HandleRequest(e) \/ HandleGrant(e)
  <2>1. ~steady
    BY <1>2, SteadyUpdates DEF SteadyInv, HandleRequest, HandleGrant
  <2>2. steady' = steady
    BY <1>2 DEF HandleRequest, HandleGrant, history
  <2> QED
    BY <2>1, <2>2 DEF SteadyInv
<1>3. CASE HandleAssume(e)
  <2>1. Receive(e, "assume") /\ up' = up /\ calls' = [x \in End |-> <<>>]
        /\ steady' = (steady \/ Settled')
    BY <1>3 DEF HandleAssume, SteadyAfter
  <2>2. ~steady /\ up'
    BY <2>1, SteadyUpdates DEF SteadyInv, Receive, UpWhenUnderWay
  <2>3. steady' => Settled'
    BY <2>1, <2>2, Zenon
  <2>4. CASE Settled'
    BY <2>1, <2>2, <2>4, SteadySettledNext
  <2>5. CASE ~Settled'
    BY <2>3, <2>5 DEF SteadyInv
  <2> QED
    BY <2>4, <2>5
<1> QED
  BY <1>1, <1>2, <1>3

LEMMA SteadyStep == IInv /\ UpWhenUnderWay /\ SteadyInv /\ [Next]_vars => SteadyInv'
<1> SUFFICES ASSUME IInv, UpWhenUnderWay, SteadyInv, [Next]_vars PROVE SteadyInv'
  OBVIOUS
<1>1. CASE Connect
  <2>1. ~steady
    BY <1>1 DEF Connect, SteadyInv, OneSerializes
  <2>2. steady' = steady
    BY <1>1 DEF Connect, history
  <2> QED
    BY <2>1, <2>2 DEF SteadyInv
<1>2. CASE Break
  BY <1>2 DEF Break, SteadyInv
<1>3. CASE \E e \in End, v \in Value, t \in Time : Set(e, v, t)
  BY <1>3, SteadySet
<1>4. CASE \E e \in End : HandleUpdate(e)
  BY <1>4, SteadyUpdate
<1>5. CASE \E e \in End :
              BecomeSerializer(e) \/ HandleRequest(e) \/ HandleGrant(e) \/ HandleAssume(e)
  BY <1>5, SteadyNegotiation
<1>6. CASE UNCHANGED vars
  <2>1. UNCHANGED <<mode, kind, value, stamp, isSerializer, isNegotiating, up, chan, steady, calls>>
    BY <1>6 DEF vars, objVars, serialVars, history
  <2> QED
    BY <2>1 DEF SteadyInv, OneSerializes, Follows, Leads, Counts
<1> QED
  BY <1>1, <1>2, <1>3, <1>4, <1>5, <1>6 DEF Next, Handle

LEMMA SteadyInit == Init => SteadyInv
BY DEF Init, SteadyInv

\* Once it is settled which end serializes, the callbacks of the other end are a prefix of
\* those of the serializer: whatever the policy ignores or denies there, neither end sees a
\* value the other does not, or in another order, until the connection breaks or an end
\* asks to serialize.
THEOREM SameSequenceHolds == Spec => []SameSequence
<1>1. ASSUME IInv, SteadyInv PROVE SameSequence
  <2> SUFFICES ASSUME steady, NEW e \in End, ~isSerializer[e]
               PROVE  IsPrefix(calls[e], calls[Other(e)])
    BY DEF SameSequence
  <2> DEFINE p == calls[e]
             q == calls[Other(e)]
  <2>1. p \in Seq(Value) /\ q \in Seq(Value) /\ Len(chan[e]) \in Nat
    <3>1. /\ calls[e] \in Seq(Value) /\ calls[Other(e)] \in Seq(Value)
          /\ chan[e] \in Seq(Msg)
      BY <1>1, Ends, TypeParts DEF IInv, CallTypes, NetTypes
    <3> QED
      BY <3>1
  <2>2. Behind(p, q, chan[e])
    BY <1>1 DEF SteadyInv, Follows
  <2> HIDE DEF p, q
  <2>3. Len(p) <= Len(q) /\ \A i \in 1 .. Len(p) : q[i] = p[i] /\ q[i] \in Value
    BY <2>1, <2>2 DEF Behind
  <2>4. p = SubSeq(q, 1, Len(p))
    <3>1. /\ SubSeq(q, 1, Len(p)) \in Seq(Value)
          /\ Len(SubSeq(q, 1, Len(p))) = Len(p)
          /\ \A i \in 1 .. Len(p) : SubSeq(q, 1, Len(p))[i] = q[i]
      BY <2>1, <2>3
    <3> QED
      BY <2>1, <2>3, <3>1, SeqEqual
  <2> QED
    BY <2>3, <2>4 DEF IsPrefix, p, q
<1> QED
  BY <1>1, IInit, IStep, NewestInit, NewestStep, SteadyInit, SteadyStep, PTL DEF Spec, NewestInv
====
