--------------------------- MODULE PeerMutexProofs ---------------------------
(* Theorems about PeerMutex.  Types and TakenOnce hold for every finite set   *)
(* of peers and any number of requests and lost connections.  Mutual          *)
(* exclusion does not: it is proved for two peers, of which all that can be   *)
(* under way is listed (Phase), and for any peers that ask once each, where   *)
(* of two that compete at most one has the grant of the other (Compete).      *)
EXTENDS PeerMutex, FiniteSetTheorems, SequenceTheorems, TLAPS

-----------------------------------------------------------------------------
(* Types. *)

Channels == [Peer -> [Peer -> Seq(Msg)]]

LEMMA SendTyped ==
  ASSUME chan \in Channels, NEW p \in Peer, NEW m \in Msg
  PROVE  ToPeers(p, m) \in [Peer -> Seq(Msg)]
BY DEF Channels, ToPeers

LEMMA RestTyped ==
  ASSUME chan \in Channels, NEW q \in Peer, NEW p \in Peer, chan[q][p] # <<>>
  PROVE  /\ Rest(q, p) \in Channels
         /\ Head(chan[q][p]) \in Msg
BY DEF Channels, Rest

LEMMA PeersCounted ==
  ASSUME d_peer \in [Peer -> SUBSET Peer], NEW p \in Peer
  PROVE  numPeers(p) \in Nat
BY PeerAssumption, FS_Subset, FS_CardinalityType DEF numPeers

States == {"OURS", "REQUESTING", "AVAILABLE", "HELD_REMOTELY"}

\* The winner of a check is OURS, the others keep their state.
LEMMA CheckTyped ==
  ASSUME NEW st \in States, NEW g, NEW n
  PROVE  StateAfterCheck(st, g, n) \in States
BY DEF StateAfterCheck, States

LEMMA TakesTyped ==
  ASSUME takes \in [Peer -> Nat], NEW p \in Peer, NEW taken, CountTake(p, taken)
  PROVE  takes' \in [Peer -> Nat]
<1>1. CASE taken
  BY <1>1 DEF CountTake
<1>2. CASE ~taken
  BY <1>2 DEF CountTake
<1> QED
  BY <1>1, <1>2

LEMMA TypeInit == Init => TypeOK
BY PeerAssumption DEF Init, TypeOK

LEMMA TypeStep == TypeOK /\ [Next]_vars => TypeOK'
<1> SUFFICES ASSUME TypeOK, [Next]_vars PROVE TypeOK'
  OBVIOUS
<1> USE DEF TypeOK
<1>0. chan \in Channels
  BY DEF Channels
<1>1. ASSUME NEW p \in Peer, Request(p) PROVE TypeOK'
  <2>1. [type |-> "Request", of |-> p] \in Msg
    BY DEF Msg
  <2>2. chan' \in Channels
    BY <1>0, <1>1, <2>1, SendTyped DEF Request, SendToPeers, Channels
  <2>3. StateAfterCheck("REQUESTING", 0, numPeers(p)) \in States
    BY CheckTyped DEF States
  <2>4. takes' \in [Peer -> Nat]
    BY <1>1, TakesTyped DEF Request
  <2> QED
    BY <1>1, <2>2, <2>3, <2>4 DEF Request, CountTake, ResetGrants, Channels, States
<1>2. ASSUME NEW p \in Peer, Release(p) PROVE TypeOK'
  <2>1. [type |-> "Release", of |-> p] \in Msg
    BY DEF Msg
  <2>2. chan' \in Channels
    BY <1>0, <1>2, <2>1, SendTyped DEF Release, SendToPeers, Channels
  <2> QED
    BY <1>2, <2>2 DEF Release, Channels
<1>3. ASSUME NEW q \in Peer, NEW p \in Peer, HandleRequest(q, p) PROVE TypeOK'
  <2>1. Rest(q, p) \in Channels /\ Subject(q, p) \in Peer
    BY <1>0, <1>3, RestTyped DEF HandleRequest, Reads, Subject, Msg
  <2>2. ASSUME NEW t \in {"Grant", "Deny"}, Reply(q, p, t) PROVE chan' \in Channels
    <3>1. [type |-> t, of |-> q] \in Msg
      BY DEF Msg
    <3> QED
      BY <1>0, <2>1, <2>2, <3>1, SendTyped DEF Reply, Channels
  <2>3. chan' \in Channels
    BY <1>3, <2>2 DEF HandleRequest
  <2>4. takes' \in [Peer -> Nat]
    BY <1>3, TakesTyped DEF HandleRequest
  <2>5. /\ d_holder' \in [Peer -> Peer \cup {NoHolder}]
        /\ d_state' \in [Peer -> {"OURS", "REQUESTING", "AVAILABLE", "HELD_REMOTELY"}]
    <3>1. CASE Yields(p, Subject(q, p))
      <4>1. /\ d_holder' = [d_holder EXCEPT ![p] = Subject(q, p)]
            /\ d_state' = [d_state EXCEPT ![p] = "HELD_REMOTELY"]
        BY <1>3, <3>1, Zenon DEF HandleRequest
      <4> QED
        BY <2>1, <4>1
    <3>2. CASE ~Yields(p, Subject(q, p))
      <4>1. UNCHANGED <<d_holder, d_state>>
        BY <1>3, <3>2, Zenon DEF HandleRequest
      <4> QED
        BY <4>1
    <3> QED
      BY <3>1, <3>2
  <2>6. UNCHANGED <<d_numPeersGrantingLock, d_peer, requests, losses>>
    BY <1>3, Zenon DEF HandleRequest
  <2> QED
    BY <2>3, <2>4, <2>5, <2>6 DEF Channels
<1>4. ASSUME NEW q \in Peer, NEW p \in Peer, HandleRelease(q, p) PROVE TypeOK'
  BY <1>0, <1>4, RestTyped DEF HandleRelease, Reads, Channels
<1>5. ASSUME NEW q \in Peer, NEW p \in Peer, HandleGrantRequest(q, p) PROVE TypeOK'
  <2>0. UNCHANGED <<d_holder, d_peer, requests, losses>>
    BY <1>5 DEF HandleGrantRequest
  <2>1. chan' \in Channels
    BY <1>0, <1>5, RestTyped DEF HandleGrantRequest, Reads
  <2>2. takes' \in [Peer -> Nat]
    BY <1>5, TakesTyped DEF HandleGrantRequest
  <2>3. CASE Subject(q, p) = p
    <3>1. /\ d_numPeersGrantingLock' =
               [d_numPeersGrantingLock EXCEPT ![p] = @ + 1]
          /\ d_state' = [d_state EXCEPT ![p] =
               StateAfterCheck(@, d_numPeersGrantingLock[p] + 1, numPeers(p))]
      BY <1>5, <2>3 DEF HandleGrantRequest
    <3>2. d_state' \in [Peer -> States]
      BY <3>1, CheckTyped DEF States
    <3>3. d_numPeersGrantingLock' \in [Peer -> Nat]
      BY <3>1
    <3> QED
      BY <2>0, <2>1, <2>2, <3>2, <3>3 DEF Channels, States
  <2>4. CASE Subject(q, p) # p
    <3>1. UNCHANGED d_numPeersGrantingLock /\ UNCHANGED d_state
      BY <1>5, <2>4 DEF HandleGrantRequest
    <3> QED
      BY <2>0, <2>1, <2>2, <3>1 DEF Channels
  <2> QED
    BY <2>3, <2>4
<1>6. ASSUME NEW q \in Peer, NEW p \in Peer, HandleDenyRequest(q, p) PROVE TypeOK'
  <2>0. UNCHANGED <<d_holder, d_peer, requests, losses, takes>>
    BY <1>6 DEF HandleDenyRequest
  <2>1. chan' \in Channels
    BY <1>0, <1>6, RestTyped DEF HandleDenyRequest, Reads
  <2>2. CASE Subject(q, p) = p
    <3>1. /\ d_numPeersGrantingLock' = [d_numPeersGrantingLock EXCEPT ![p] = 0]
          /\ d_state' = [d_state EXCEPT ![p] = "HELD_REMOTELY"]
      BY <1>6, <2>2 DEF HandleDenyRequest, ResetGrants
    <3> QED
      BY <2>0, <2>1, <3>1 DEF Channels
  <2>3. CASE Subject(q, p) # p
    <3>1. UNCHANGED d_numPeersGrantingLock /\ UNCHANGED d_state
      BY <1>6, <2>3 DEF HandleDenyRequest
    <3> QED
      BY <2>0, <2>1, <3>1 DEF Channels
  <2> QED
    BY <2>2, <2>3
<1>7. ASSUME NEW p \in Peer, NEW lost \in SUBSET d_peer[p], LosePeers(p, lost)
      PROVE  TypeOK'
  <2>1. Cardinality(lost) \in Nat
    BY PeerAssumption, FS_Subset, FS_CardinalityType
  <2>2. chan' \in Channels
    <3>1. PICK kept \in Kept(p, lost) :
            chan' = [chan EXCEPT ![p] =
                       [q \in Peer |-> IF q \in lost THEN SubSeq(@[q], 1, kept[q])
                                                    ELSE @[q]]]
      BY <1>7 DEF LosePeers
    <3>2. ASSUME NEW q \in lost
          PROVE  SubSeq(chan[p][q], 1, kept[q]) \in Seq(Msg)
      <4>1. q \in Peer /\ chan[p][q] \in Seq(Msg)
        BY <1>0, <1>7 DEF Channels, LosePeers
      <4>2. kept[q] \in Nat /\ kept[q] <= Len(chan[p][q])
        BY <3>2 DEF Kept
      <4> QED
        BY <4>1, <4>2
    <3> QED
      BY <1>0, <3>1, <3>2 DEF Channels
  <2>3. takes' \in [Peer -> Nat]
    BY <1>7, TakesTyped DEF LosePeers
  <2>4. \A n : StateAfterCheck(d_state[p], d_numPeersGrantingLock[p], n) \in States
    BY CheckTyped DEF States
  <2>5. d_state' \in [Peer -> States]
    <3>1. \E n : d_state' = [d_state EXCEPT ![p] =
                    StateAfterCheck(@, d_numPeersGrantingLock[p], n)]
      BY <1>7, Zenon DEF LosePeers
    <3> QED
      BY <3>1, <2>4 DEF States
  <2>6. losses' \in Nat /\ d_peer' \in [Peer -> SUBSET Peer]
    BY <1>7, <2>1 DEF LosePeers
  <2> QED
    BY <1>7, <2>2, <2>3, <2>5, <2>6 DEF LosePeers, Channels, States
<1>8. ASSUME UNCHANGED vars PROVE TypeOK'
  BY <1>8 DEF vars
<1> QED
  BY <1>1, <1>2, <1>3, <1>4, <1>5, <1>6, <1>7, <1>8 DEF Next, Work, Handle

\* Every variable keeps its type, for any number of peers.
THEOREM TypeCorrect == Spec => []TypeOK
BY TypeInit, TypeStep, PTL DEF Spec

-----------------------------------------------------------------------------
(* Take callbacks.  None has run since the last release of a peer that still *)
(* believes the lock is available or asks for it, so the take callbacks due  *)
(* when it grants or wins the lock are the first.                            *)

TakeInv == /\ TypeOK
           /\ \A p \in Peer : d_state[p] \in {"AVAILABLE", "REQUESTING"}
                                => takes[p] = 0
           /\ TakenOnce

LEMMA TakeInit == Init => TakeInv
BY TypeInit DEF Init, TakeInv, TakenOnce

\* One peer p moves to state st and has then seen k take callbacks.
LEMMA OneMoves ==
  ASSUME TakeInv, TypeOK', NEW p \in Peer, NEW st, NEW k \in {0, 1},
         d_state' = [d_state EXCEPT ![p] = st],
         takes' = [takes EXCEPT ![p] = k],
         st \in {"AVAILABLE", "REQUESTING"} => k = 0
  PROVE  TakeInv'
<1>1. d_state \in [Peer -> States] /\ takes \in [Peer -> Nat]
  BY DEF TakeInv, TypeOK, States
<1>2. TakenOnce'
  BY <1>1 DEF TakeInv, TakenOnce
<1>3. \A q \in Peer : d_state'[q] \in {"AVAILABLE", "REQUESTING"} => takes'[q] = 0
  BY <1>1 DEF TakeInv
<1> QED
  BY <1>2, <1>3 DEF TakeInv

\* A peer whose take callbacks run if it wins, and which wins only from
\* REQUESTING.
LEMMA WinnerTakes ==
  ASSUME TakeInv, NEW p \in Peer, NEW g, NEW n,
         d_state' = [d_state EXCEPT ![p] = StateAfterCheck(@, g, n)],
         CountTake(p, Wins(d_state[p], g, n)), TypeOK'
  PROVE  TakeInv'
<1>1. CASE Wins(d_state[p], g, n)
  <2>1. d_state' = [d_state EXCEPT ![p] = "OURS"]
    BY <1>1 DEF StateAfterCheck
  <2>2. takes[p] = 0
    BY <1>1 DEF Wins, TakeInv
  <2>3. takes' = [takes EXCEPT ![p] = 1]
    BY <1>1, <2>2 DEF CountTake
  <2> QED
    BY <2>1, <2>3, OneMoves
<1>2. CASE ~Wins(d_state[p], g, n)
  <2>1. d_state' = d_state /\ takes' = takes
    BY <1>2 DEF StateAfterCheck, CountTake, TakeInv, TypeOK
  <2> QED
    BY <2>1 DEF TakeInv, TakenOnce
<1> QED
  BY <1>1, <1>2

LEMMA TakeStep == TakeInv /\ [Next]_vars => TakeInv'
<1> SUFFICES ASSUME TakeInv, [Next]_vars PROVE TakeInv'
  OBVIOUS
<1>0. TypeOK /\ TypeOK'
  BY TypeStep DEF TakeInv
<1>1. ASSUME NEW p \in Peer, Request(p) PROVE TakeInv'
  <2>1. takes[p] = 0
    BY <1>1 DEF Request, TakeInv
  <2>2. CASE numPeers(p) = 0
    <3>1. takes' = [takes EXCEPT ![p] = 1]
      BY <1>1, <2>1, <2>2 DEF Request, CountTake
    <3>2. d_state' = [d_state EXCEPT ![p] = "OURS"]
      BY <1>1, <2>2 DEF Request, StateAfterCheck, Wins
    <3> QED
      BY <1>0, <3>1, <3>2, OneMoves
  <2>3. CASE numPeers(p) # 0
    <3>1. takes' = [takes EXCEPT ![p] = 0]
      BY <1>0, <1>1, <2>1, <2>3 DEF Request, CountTake, TypeOK
    <3>2. d_state' = [d_state EXCEPT ![p] = "REQUESTING"]
      BY <1>1, <2>3 DEF Request, StateAfterCheck, Wins
    <3> QED
      BY <1>0, <3>1, <3>2, OneMoves
  <2> QED
    BY <2>2, <2>3
<1>2. ASSUME NEW p \in Peer, Release(p) PROVE TakeInv'
  BY <1>0, <1>2, OneMoves DEF Release
<1>3. ASSUME NEW q \in Peer, NEW p \in Peer, HandleRequest(q, p) PROVE TakeInv'
  <2>1. CASE Yields(p, Subject(q, p))
    <3>1. d_state' = [d_state EXCEPT ![p] = "HELD_REMOTELY"]
      BY <1>3, <2>1 DEF HandleRequest
    <3>0. CountTake(p, TakeIsNews(p))
      BY <1>3, <2>1 DEF HandleRequest
    <3>2. d_state[p] \in {"AVAILABLE", "REQUESTING", "HELD_REMOTELY"}
      BY <2>1 DEF Yields
    <3>3. CASE d_state[p] = "HELD_REMOTELY"
      <4>1. takes' = [takes EXCEPT ![p] = takes[p]]
        BY <1>0, <3>0, <3>3 DEF CountTake, TakeIsNews
      <4>2. takes[p] \in {0, 1}
        BY DEF TakeInv, TakenOnce, TypeOK
      <4> QED
        BY <1>0, <3>1, <4>1, <4>2, OneMoves
    <3>4. CASE d_state[p] # "HELD_REMOTELY"
      <4>1. takes[p] = 0
        BY <3>2, <3>4 DEF TakeInv
      <4>2. takes' = [takes EXCEPT ![p] = 1]
        BY <3>0, <3>4, <4>1 DEF CountTake, TakeIsNews
      <4> QED
        BY <1>0, <3>1, <4>2, OneMoves
    <3> QED
      BY <3>3, <3>4
  <2>2. CASE ~Yields(p, Subject(q, p))
    <3>1. d_state' = d_state /\ takes' = takes
      BY <1>3, <2>2 DEF HandleRequest
    <3> QED
      BY <1>0, <3>1 DEF TakeInv, TakenOnce
  <2> QED
    BY <2>1, <2>2
<1>4. ASSUME NEW q \in Peer, NEW p \in Peer, HandleRelease(q, p) PROVE TakeInv'
  <2>1. /\ d_state' = [d_state EXCEPT ![p] = "AVAILABLE"]
        /\ takes' = [takes EXCEPT ![p] = 0]
    BY <1>4 DEF HandleRelease
  <2> QED
    BY <1>0, <2>1, OneMoves
<1>5. ASSUME NEW q \in Peer, NEW p \in Peer, HandleGrantRequest(q, p) PROVE TakeInv'
  <2>1. CASE Subject(q, p) = p
    <3> DEFINE g == d_numPeersGrantingLock[p] + 1
    <3>1. /\ d_state' = [d_state EXCEPT ![p] = StateAfterCheck(@, g, numPeers(p))]
          /\ CountTake(p, Wins(d_state[p], g, numPeers(p)))
      BY <1>5, <2>1, Zenon DEF HandleGrantRequest
    <3> HIDE DEF g
    <3> QED
      BY <1>0, <3>1, WinnerTakes
  <2>2. CASE Subject(q, p) # p
    <3>1. d_state' = d_state /\ takes' = takes
      BY <1>5, <2>2 DEF HandleGrantRequest
    <3> QED
      BY <1>0, <3>1 DEF TakeInv, TakenOnce
  <2> QED
    BY <2>1, <2>2
<1>6. ASSUME NEW q \in Peer, NEW p \in Peer, HandleDenyRequest(q, p) PROVE TakeInv'
  <2>1. takes' = takes
    BY <1>6 DEF HandleDenyRequest
  <2>2. CASE Subject(q, p) = p
    <3>1. d_state' = [d_state EXCEPT ![p] = "HELD_REMOTELY"]
      BY <1>6, <2>2 DEF HandleDenyRequest
    <3>2. takes' = [takes EXCEPT ![p] = takes[p]] /\ takes[p] \in {0, 1}
      BY SMTT(30), <1>0, <2>1 DEF TakeInv, TakenOnce, TypeOK
    <3> QED
      BY <1>0, <3>1, <3>2, OneMoves
  <2>3. CASE Subject(q, p) # p
    <3>1. d_state' = d_state
      BY <1>6, <2>3 DEF HandleDenyRequest
    <3> QED
      BY <1>0, <2>1, <3>1 DEF TakeInv, TakenOnce
  <2> QED
    BY <2>2, <2>3
<1>7. ASSUME NEW p \in Peer, NEW lost \in SUBSET d_peer[p], LosePeers(p, lost)
      PROVE  TakeInv'
  <2> DEFINE g == d_numPeersGrantingLock[p]
             n == numPeers(p) - Cardinality(lost)
  <2>1. /\ d_state' = [d_state EXCEPT ![p] = StateAfterCheck(@, g, n)]
        /\ CountTake(p, Wins(d_state[p], g, n))
    BY <1>7, Zenon DEF LosePeers
  <2> HIDE DEF g, n
  <2> QED
    BY <1>0, <2>1, WinnerTakes
<1>8. ASSUME UNCHANGED vars PROVE TakeInv'
  BY <1>0, <1>8 DEF vars, TakeInv, TakenOnce
<1> QED
  BY <1>1, <1>2, <1>3, <1>4, <1>5, <1>6, <1>7, <1>8 DEF Next, Work, Handle

\* Take callbacks run at most once between two runs of the release callbacks
\* (vrpn_Mutex.h:243), for any number of peers, requests and lost peers.
THEOREM TakenAtMostOnce == Spec => []TakenOnce
<1>1. TakeInv => TakenOnce
  BY DEF TakeInv
<1> QED
  BY <1>1, TakeInit, TakeStep, PTL DEF Spec

-----------------------------------------------------------------------------
(* Two peers.  All that they can be doing is one of the phases below, with p  *)
(* and q for the peers in one order or the other.                             *)

Ask(p)  == [type |-> "Request", of |-> p]
Free(p) == [type |-> "Release", of |-> p]
Yes(p)  == [type |-> "Grant", of |-> p]
No(p)   == [type |-> "Deny", of |-> p]

\* The states of p and q, what is under way to q, and what to p.
Are(p, q, st, su, toQ, toP) ==
  /\ d_state[p] = st /\ d_state[q] = su /\ chan[p][q] = toQ /\ chan[q][p] = toP

Idle(p, q)   == Are(p, q, "AVAILABLE", "AVAILABLE", <<>>, <<>>)
Asks(p, q)   == Are(p, q, "REQUESTING", "AVAILABLE", <<Ask(p)>>, <<>>)
Clash(p, q)  == Are(p, q, "REQUESTING", "REQUESTING", <<Ask(p)>>, <<Ask(q)>>)
Denied(p, q) == p < q /\ Are(p, q, "REQUESTING", "REQUESTING", <<Ask(p), No(q)>>, <<>>)
Granted(p, q) ==
  \/ Are(p, q, "REQUESTING", "HELD_REMOTELY", <<>>, <<Yes(p)>>)
  \/ Are(p, q, "REQUESTING", "HELD_REMOTELY", <<No(q)>>, <<Yes(p)>>)
  \/ p < q /\ Are(p, q, "REQUESTING", "HELD_REMOTELY", <<>>, <<Ask(q), Yes(p)>>)
Owns(p, q) ==
  \/ Are(p, q, "OURS", "HELD_REMOTELY", <<>>, <<>>)
  \/ Are(p, q, "OURS", "HELD_REMOTELY", <<No(q)>>, <<>>)
Released(p, q) ==
  \/ Are(p, q, "AVAILABLE", "HELD_REMOTELY", <<Free(p)>>, <<>>)
  \/ Are(p, q, "AVAILABLE", "HELD_REMOTELY", <<No(q), Free(p)>>, <<>>)
AsksAgain(p, q) ==
  \/ Are(p, q, "REQUESTING", "HELD_REMOTELY", <<Free(p), Ask(p)>>, <<>>)
  \/ Are(p, q, "REQUESTING", "HELD_REMOTELY", <<No(q), Free(p), Ask(p)>>, <<>>)

Phase(p, q) == \/ Idle(p, q)    \/ Asks(p, q) \/ Clash(p, q)    \/ Denied(p, q)
               \/ Granted(p, q) \/ Owns(p, q) \/ Released(p, q) \/ AsksAgain(p, q)

\* Nobody is lost, and who asks has no grants yet.
Whole ==
  /\ losses = 0
  /\ \A p \in Peer : d_peer[p] = Peer \ {p} /\ chan[p][p] = <<>>
  /\ \A p \in Peer : d_state[p] = "REQUESTING"
                       => d_holder[p] = p /\ d_numPeersGrantingLock[p] = 0

TwoInv == losses = 0 => Whole /\ \E p, q \in Peer : p # q /\ Phase(p, q)

LEMMA Two ==
  ASSUME Cardinality(Peer) = 2, NEW p \in Peer, NEW q \in Peer, p # q
  PROVE  Peer = {p, q} /\ Peer \ {p} = {q} /\ Peer \ {q} = {p}
<1>1. IsFiniteSet(Peer) /\ IsFiniteSet(Peer \ {p}) /\ Cardinality(Peer \ {p}) = 1
  BY PeerAssumption, FS_RemoveElement
<1>2. IsFiniteSet((Peer \ {p}) \ {q}) /\ Cardinality((Peer \ {p}) \ {q}) = 0
  BY <1>1, FS_RemoveElement
<1>3. (Peer \ {p}) \ {q} = {}
  BY <1>2, FS_EmptySet
<1> QED
  BY <1>3

\* Short queues: what is added to them, and what is left.
LEMMA Pushed ==
  /\ \A a : Append(<<>>, a) = <<a>>
  /\ \A a, b : Append(<<a>>, b) = <<a, b>>
  /\ \A a, b, c : Append(<<a, b>>, c) = <<a, b, c>>
<1>1. ASSUME NEW a PROVE Append(<<>>, a) = <<a>>
  OBVIOUS
<1>2. ASSUME NEW a, NEW b PROVE Append(<<a>>, b) = <<a, b>>
  <2>1. <<a>> \in Seq({a, b}) /\ b \in {a, b} /\ Len(<<a>>) = 1
    OBVIOUS
  <2>2. /\ Append(<<a>>, b) \in Seq({a, b}) /\ Len(Append(<<a>>, b)) = 2
        /\ Append(<<a>>, b)[1] = a /\ Append(<<a>>, b)[2] = b
    BY <2>1
  <2>3. <<a, b>> \in Seq({a, b}) /\ Len(<<a, b>>) = 2 /\ <<a, b>>[1] = a /\ <<a, b>>[2] = b
    OBVIOUS
  <2>4. \A i \in 1 .. 2 : i = 1 \/ i = 2
    OBVIOUS
  <2> QED
    BY <2>2, <2>3, <2>4, SeqEqual
<1>3. ASSUME NEW a, NEW b, NEW c PROVE Append(<<a, b>>, c) = <<a, b, c>>
  <2>1. <<a, b>> \in Seq({a, b, c}) /\ c \in {a, b, c} /\ Len(<<a, b>>) = 2
    OBVIOUS
  <2>2. /\ Append(<<a, b>>, c) \in Seq({a, b, c}) /\ Len(Append(<<a, b>>, c)) = 3
        /\ Append(<<a, b>>, c)[1] = a /\ Append(<<a, b>>, c)[2] = b
        /\ Append(<<a, b>>, c)[3] = c
    BY <2>1
  <2>3. /\ <<a, b, c>> \in Seq({a, b, c}) /\ Len(<<a, b, c>>) = 3
        /\ <<a, b, c>>[1] = a /\ <<a, b, c>>[2] = b /\ <<a, b, c>>[3] = c
    OBVIOUS
  <2>4. \A i \in 1 .. 3 : i = 1 \/ i = 2 \/ i = 3
    OBVIOUS
  <2> QED
    BY <2>2, <2>3, <2>4, SeqEqual
<1> QED
  BY <1>1, <1>2, <1>3

LEMMA Popped ==
  /\ \A a : <<a>> # <<>> /\ Head(<<a>>) = a /\ Tail(<<a>>) = <<>>
  /\ \A a, b : <<a, b>> # <<>> /\ Head(<<a, b>>) = a /\ Tail(<<a, b>>) = <<b>>
  /\ \A a, b, c : <<a, b, c>> # <<>> /\ Head(<<a, b, c>>) = a /\ Tail(<<a, b, c>>) = <<b, c>>
<1>1. ASSUME NEW a PROVE <<a>> # <<>> /\ Head(<<a>>) = a /\ Tail(<<a>>) = <<>>
  OBVIOUS
<1>2. ASSUME NEW a, NEW b PROVE <<a, b>> # <<>> /\ Head(<<a, b>>) = a /\ Tail(<<a, b>>) = <<b>>
  OBVIOUS
<1>3. ASSUME NEW a, NEW b, NEW c
      PROVE  <<a, b, c>> # <<>> /\ Head(<<a, b, c>>) = a /\ Tail(<<a, b, c>>) = <<b, c>>
  OBVIOUS
<1> QED
  BY <1>1, <1>2, <1>3

LEMMA MessageTypes ==
  \A p : /\ Ask(p).type = "Request" /\ Ask(p).of = p
         /\ Free(p).type = "Release" /\ Free(p).of = p
         /\ Yes(p).type = "Grant" /\ Yes(p).of = p
         /\ No(p).type = "Deny" /\ No(p).of = p
BY DEF Ask, Free, Yes, No

\* What the calls and handlers of one of two peers do to them.
Pair(p, q) == TypeOK /\ Whole /\ Cardinality(Peer) = 2 /\ {p, q} \subseteq Peer /\ p # q

LEMMA PairFacts ==
  ASSUME NEW p, NEW q, Pair(p, q)
  PROVE  /\ p \in Peer /\ q \in Peer /\ \A x \in Peer : x = p \/ x = q
         /\ d_peer[p] = {q} /\ numPeers(p) = 1 /\ numPeers(p) # 0
         /\ chan \in [Peer -> [Peer -> Seq(Msg)]]
         /\ d_state \in [Peer -> States] /\ d_holder \in [Peer -> Peer \cup {NoHolder}]
         /\ d_numPeersGrantingLock \in [Peer -> Nat]
<1>1. p \in Peer /\ q \in Peer /\ Peer = {p, q} /\ Peer \ {p} = {q}
  BY Two DEF Pair
<1>2. d_peer[p] = {q}
  BY <1>1 DEF Pair, Whole
<1>3. numPeers(p) = 1
  BY <1>2, FS_Singleton DEF numPeers
<1>4. /\ chan \in [Peer -> [Peer -> Seq(Msg)]]
      /\ d_state \in [Peer -> States] /\ d_holder \in [Peer -> Peer \cup {NoHolder}]
      /\ d_numPeersGrantingLock \in [Peer -> Nat]
  BY DEF Pair, TypeOK, States
<1>5. \A x \in Peer : x = p \/ x = q
  BY <1>1
<1> QED
  BY <1>1, <1>2, <1>3, <1>4, <1>5

LEMMA PairWhole ==
  ASSUME NEW p, NEW q, Pair(p, q), UNCHANGED <<losses, d_peer>>,
         chan'[p][p] = chan[p][p], chan'[q][q] = chan[q][q],
         \A x \in {p, q} : d_state'[x] = "REQUESTING"
                             => d_holder'[x] = x /\ d_numPeersGrantingLock'[x] = 0
  PROVE  Whole'
<1>0. \A x \in Peer : x = p \/ x = q
  BY PairFacts
<1>1. losses' = 0
  BY DEF Pair, Whole
<1>2. \A x \in Peer : d_peer'[x] = Peer \ {x} /\ chan'[x][x] = <<>>
  <2>1. \A x \in Peer : d_peer[x] = Peer \ {x} /\ chan[x][x] = <<>>
    BY DEF Pair, Whole
  <2>2. \A x \in Peer : chan'[x][x] = chan[x][x]
    BY <1>0
  <2> QED
    BY <2>1, <2>2
<1>3. \A x \in Peer : d_state'[x] = "REQUESTING"
                        => d_holder'[x] = x /\ d_numPeersGrantingLock'[x] = 0
  BY <1>0
<1> QED
  BY <1>1, <1>2, <1>3 DEF Whole

\* Nothing is said of a peer that asks but what Whole says.
LEMMA PairAsks ==
  ASSUME NEW p, NEW q, Pair(p, q)
  PROVE  /\ p # q
         /\ d_state[p] = "REQUESTING" => d_holder[p] = p /\ d_numPeersGrantingLock[p] = 0
         /\ d_state[q] = "REQUESTING" => d_holder[q] = q /\ d_numPeersGrantingLock[q] = 0
BY DEF Pair, Whole

LEMMA PairSends ==
  ASSUME NEW p, NEW q, Pair(p, q), NEW m
  PROVE  ToPeers(p, m) = [x \in Peer |-> IF x = q THEN Append(chan[p][q], m) ELSE chan[p][x]]
BY PairFacts DEF ToPeers

LEMMA PairRequest ==
  ASSUME NEW p, NEW q, Pair(p, q), Request(p)
  PROVE  /\ Whole' /\ d_state[p] = "AVAILABLE"
         /\ d_state'[p] = "REQUESTING" /\ d_state'[q] = d_state[q]
         /\ chan'[p][q] = Append(chan[p][q], Ask(p)) /\ chan'[q][p] = chan[q][p]
<1> USE PairFacts
<1>1. /\ d_state' = [d_state EXCEPT ![p] = "REQUESTING"]
      /\ d_holder' = [d_holder EXCEPT ![p] = p]
      /\ d_numPeersGrantingLock' = [d_numPeersGrantingLock EXCEPT ![p] = 0]
      /\ chan' = [chan EXCEPT ![p] = ToPeers(p, Ask(p))]
      /\ UNCHANGED <<d_peer, losses>>
  BY DEF Request, StateAfterCheck, Wins, ResetGrants, SendToPeers, Ask
<1>2. /\ chan'[p][q] = Append(chan[p][q], Ask(p)) /\ chan'[q][p] = chan[q][p]
      /\ chan'[p][p] = chan[p][p] /\ chan'[q][q] = chan[q][q]
  BY <1>1, PairSends DEF Pair
<1>3. Whole'
  <2>1. \A x \in {p, q} : d_state'[x] = "REQUESTING"
                           => d_holder'[x] = x /\ d_numPeersGrantingLock'[x] = 0
    BY <1>1, PairAsks
  <2> QED
    BY <1>1, <1>2, <2>1, PairWhole
<1> QED
  BY <1>1, <1>2, <1>3 DEF Request, Pair

LEMMA PairRelease ==
  ASSUME NEW p, NEW q, Pair(p, q), Release(p)
  PROVE  /\ Whole' /\ d_state[p] = "OURS"
         /\ d_state'[p] = "AVAILABLE" /\ d_state'[q] = d_state[q]
         /\ chan'[p][q] = Append(chan[p][q], Free(p)) /\ chan'[q][p] = chan[q][p]
<1> USE PairFacts
<1>1. /\ d_state' = [d_state EXCEPT ![p] = "AVAILABLE"]
      /\ d_holder' = [d_holder EXCEPT ![p] = NoHolder]
      /\ chan' = [chan EXCEPT ![p] = ToPeers(p, Free(p))]
      /\ UNCHANGED <<d_numPeersGrantingLock, d_peer, losses>>
  BY DEF Release, SendToPeers, Free
<1>2. /\ chan'[p][q] = Append(chan[p][q], Free(p)) /\ chan'[q][p] = chan[q][p]
      /\ chan'[p][p] = chan[p][p] /\ chan'[q][q] = chan[q][q]
  BY <1>1, PairSends DEF Pair
<1>3. Whole'
  <2>1. \A x \in {p, q} : d_state'[x] = "REQUESTING"
                           => d_holder'[x] = x /\ d_numPeersGrantingLock'[x] = 0
    BY <1>1, PairAsks
  <2> QED
    BY <1>1, <1>2, <2>1, PairWhole
<1> QED
  BY <1>1, <1>2, <1>3 DEF Release, Pair

\* p reads the request of q.
LEMMA PairReadsRequest ==
  ASSUME NEW p, NEW q, Pair(p, q), HandleRequest(q, p), Subject(q, p) = q
  PROVE  /\ Whole' /\ chan[q][p] # <<>> /\ Head(chan[q][p]).type = "Request"
         /\ chan'[q][p] = Tail(chan[q][p])
         /\ d_state'[q] = d_state[q]
         /\ Yields(p, q) => /\ d_state'[p] = "HELD_REMOTELY"
                            /\ chan'[p][q] = Append(chan[p][q], Yes(q))
         /\ ~Yields(p, q) => /\ d_state'[p] = d_state[p]
                             /\ chan'[p][q] = Append(chan[p][q], No(q))
<1> USE PairFacts
<1>1. /\ chan[q][p] # <<>> /\ Head(chan[q][p]).type = "Request"
      /\ UNCHANGED <<d_numPeersGrantingLock, d_peer, losses>>
  BY DEF HandleRequest, Reads
<1>2. ASSUME NEW t, Reply(q, p, t)
      PROVE  /\ chan'[q][p] = Tail(chan[q][p])
             /\ chan'[p][q] = Append(chan[p][q], [type |-> t, of |-> q])
             /\ chan'[p][p] = chan[p][p] /\ chan'[q][q] = chan[q][q]
  <2> DEFINE m == [type |-> t, of |-> q]
  <2>1. chan' = [Rest(q, p) EXCEPT ![p] = ToPeers(p, m)]
    BY <1>2 DEF Reply
  <2> HIDE DEF m
  <2>2. ToPeers(p, m) = [x \in Peer |-> IF x = q THEN Append(chan[p][q], m) ELSE chan[p][x]]
    BY PairSends
  <2>3. /\ chan'[q] = [chan[q] EXCEPT ![p] = Tail(@)] /\ chan'[p] = ToPeers(p, m)
    <3>1. chan \in [Peer -> [Peer -> Seq(Msg)]] /\ p \in Peer /\ q \in Peer /\ p # q
      BY DEF Pair, TypeOK
    <3>2. Rest(q, p)[q] = [chan[q] EXCEPT ![p] = Tail(@)] /\ DOMAIN Rest(q, p) = Peer
      BY <3>1 DEF Rest
    <3> QED
      BY <2>1, <3>1, <3>2
  <2>4. chan'[q][p] = Tail(chan[q][p]) /\ chan'[q][q] = chan[q][q]
    BY <2>3 DEF Pair
  <2>5. chan'[p][q] = Append(chan[p][q], m) /\ chan'[p][p] = chan[p][p]
    BY <2>2, <2>3 DEF Pair
  <2> QED
    BY <2>4, <2>5 DEF m
<1>3. CASE Yields(p, q)
  <2>1. /\ d_holder' = [d_holder EXCEPT ![p] = q]
        /\ d_state' = [d_state EXCEPT ![p] = "HELD_REMOTELY"] /\ Reply(q, p, "Grant")
    BY <1>3 DEF HandleRequest
  <2>2. Whole'
    <3>1. \A x \in {p, q} : d_state'[x] = "REQUESTING"
                             => d_holder'[x] = x /\ d_numPeersGrantingLock'[x] = 0
      BY <1>1, <2>1, PairAsks
    <3>2. chan'[p][p] = chan[p][p] /\ chan'[q][q] = chan[q][q]
      BY <1>2, <2>1
    <3> QED
      BY <1>1, <3>1, <3>2, PairWhole
  <2> QED
    BY <1>1, <1>2, <1>3, <2>1, <2>2 DEF Yes, Pair
<1>4. CASE ~Yields(p, q)
  <2>1. d_holder' = d_holder /\ d_state' = d_state /\ Reply(q, p, "Deny")
    BY <1>4 DEF HandleRequest
  <2>2. Whole'
    <3>1. \A x \in {p, q} : d_state'[x] = "REQUESTING"
                             => d_holder'[x] = x /\ d_numPeersGrantingLock'[x] = 0
      BY <1>1, <2>1, PairAsks
    <3>2. chan'[p][p] = chan[p][p] /\ chan'[q][q] = chan[q][q]
      BY <1>2, <2>1
    <3> QED
      BY <1>1, <3>1, <3>2, PairWhole
  <2> QED
    BY <1>1, <1>2, <1>4, <2>1, <2>2 DEF No, Pair
<1> QED
  BY <1>3, <1>4

\* p reads another message of q: a release, or an answer to its own request.
LEMMA PairReads ==
  ASSUME NEW p, NEW q, Pair(p, q),
         \/ HandleRelease(q, p)
         \/ Subject(q, p) = p /\ d_state[p] = "REQUESTING" /\ HandleGrantRequest(q, p)
         \/ Subject(q, p) = p /\ HandleDenyRequest(q, p)
  PROVE  /\ Whole' /\ chan[q][p] # <<>>
         /\ chan'[q][p] = Tail(chan[q][p]) /\ chan'[p][q] = chan[p][q]
         /\ d_state'[q] = d_state[q]
         /\ \/ Head(chan[q][p]).type = "Release" /\ d_state'[p] = "AVAILABLE"
            \/ Head(chan[q][p]).type = "Grant" /\ d_state'[p] = "OURS"
            \/ Head(chan[q][p]).type = "Deny" /\ d_state'[p] = "HELD_REMOTELY"
<1> USE PairFacts
<1>1. chan[q][p] # <<>> /\ chan' = Rest(q, p) /\ UNCHANGED <<d_peer, losses>>
  BY DEF HandleRelease, HandleGrantRequest, HandleDenyRequest, Reads
<1>2. /\ chan'[q][p] = Tail(chan[q][p]) /\ chan'[p][q] = chan[p][q]
      /\ chan'[p][p] = chan[p][p] /\ chan'[q][q] = chan[q][q]
  <2>1. TypeOK /\ p \in Peer /\ q \in Peer /\ p # q
    BY DEF Pair
  <2>2. /\ Rest(q, p)[q][p] = Tail(chan[q][p])
        /\ \A x, y \in Peer : x # q \/ y # p => Rest(q, p)[x][y] = chan[x][y]
    BY <2>1 DEF TypeOK, Rest
  <2> QED
    BY <1>1, <2>1, <2>2
<1>3. ASSUME NEW st \in States, st # "REQUESTING",
             d_state' = [d_state EXCEPT ![p] = st],
             d_holder'[q] = d_holder[q],
             d_numPeersGrantingLock'[q] = d_numPeersGrantingLock[q]
      PROVE  Whole' /\ d_state'[p] = st /\ d_state'[q] = d_state[q]
  <2>1. d_state'[p] = st /\ d_state'[q] = d_state[q]
    BY <1>3, PairAsks
  <2>2. \A x \in {p, q} : d_state'[x] = "REQUESTING"
                           => d_holder'[x] = x /\ d_numPeersGrantingLock'[x] = 0
    BY <1>3, <2>1, PairAsks
  <2> QED
    BY <1>1, <1>2, <2>1, <2>2, PairWhole
<1>4. CASE HandleRelease(q, p)
  <2>1. /\ d_state' = [d_state EXCEPT ![p] = "AVAILABLE"]
        /\ d_holder' = [d_holder EXCEPT ![p] = NoHolder]
        /\ UNCHANGED d_numPeersGrantingLock /\ Head(chan[q][p]).type = "Release"
    BY <1>4 DEF HandleRelease, Reads
  <2>9. d_holder'[q] = d_holder[q] /\ d_numPeersGrantingLock'[q] = d_numPeersGrantingLock[q]
    BY <2>1, PairAsks
  <2> QED
    BY <1>1, <1>2, <1>3, <2>1, <2>9 DEF States
<1>5. CASE Subject(q, p) = p /\ d_state[p] = "REQUESTING" /\ HandleGrantRequest(q, p)
  <2>1. d_numPeersGrantingLock[p] + 1 = numPeers(p)
    BY <1>5 DEF Pair, Whole
  <2>2. /\ d_state' = [d_state EXCEPT ![p] = "OURS"]
        /\ d_numPeersGrantingLock' =
             [d_numPeersGrantingLock EXCEPT ![p] = d_numPeersGrantingLock[p] + 1]
        /\ UNCHANGED d_holder /\ Head(chan[q][p]).type = "Grant"
    BY <1>5, <2>1 DEF HandleGrantRequest, Reads, StateAfterCheck, Wins
  <2>9. d_holder'[q] = d_holder[q] /\ d_numPeersGrantingLock'[q] = d_numPeersGrantingLock[q]
    BY <2>2, PairAsks
  <2> QED
    BY <1>1, <1>2, <1>3, <2>2, <2>9 DEF States
<1>6. CASE Subject(q, p) = p /\ HandleDenyRequest(q, p)
  <2>1. /\ d_state' = [d_state EXCEPT ![p] = "HELD_REMOTELY"]
        /\ d_numPeersGrantingLock' = [d_numPeersGrantingLock EXCEPT ![p] = 0]
        /\ UNCHANGED d_holder /\ Head(chan[q][p]).type = "Deny"
    BY <1>6 DEF HandleDenyRequest, ResetGrants, Reads
  <2>9. d_holder'[q] = d_holder[q] /\ d_numPeersGrantingLock'[q] = d_numPeersGrantingLock[q]
    BY <2>1, PairAsks
  <2> QED
    BY <1>1, <1>2, <1>3, <2>1, <2>9 DEF States
<1> QED
  BY <1>4, <1>5, <1>6

\* From phase to phase.
LEMMA PhaseRequest ==
  ASSUME NEW p, NEW q, Pair(p, q), Phase(p, q) \/ Phase(q, p), Request(p)
  PROVE  Phase(p, q)' \/ Phase(q, p)'
<1>1. /\ d_state[p] = "AVAILABLE"
      /\ d_state'[p] = "REQUESTING" /\ d_state'[q] = d_state[q]
      /\ chan'[p][q] = Append(chan[p][q], Ask(p)) /\ chan'[q][p] = chan[q][p]
  BY PairRequest
<1>2. Idle(p, q) \/ Idle(q, p) \/ Asks(q, p) \/ Released(p, q)
  BY <1>1 DEF Phase, Are, Idle, Asks, Clash, Denied, Granted, Owns, Released, AsksAgain
<1>3. CASE Idle(p, q) \/ Idle(q, p)
  <2>1. Asks(p, q)'
    BY <1>1, <1>3, Pushed DEF Are, Idle, Asks
  <2> QED
    BY <2>1 DEF Phase
<1>4. CASE Asks(q, p)
  <2>1. Clash(q, p)'
    BY <1>1, <1>4, Pushed DEF Are, Asks, Clash
  <2> QED
    BY <2>1 DEF Phase
<1>5. CASE Released(p, q)
  <2>1. AsksAgain(p, q)'
    BY ZenonT(30), <1>1, <1>5, Pushed DEF Are, Released, AsksAgain
  <2> QED
    BY <2>1 DEF Phase
<1> QED
  BY <1>2, <1>3, <1>4, <1>5

LEMMA PhaseRelease ==
  ASSUME NEW p, NEW q, Pair(p, q), Phase(p, q) \/ Phase(q, p), Release(p)
  PROVE  Phase(p, q)'
<1>1. /\ d_state[p] = "OURS"
      /\ d_state'[p] = "AVAILABLE" /\ d_state'[q] = d_state[q]
      /\ chan'[p][q] = Append(chan[p][q], Free(p)) /\ chan'[q][p] = chan[q][p]
  BY PairRelease
<1>2. Owns(p, q)
  BY <1>1 DEF Phase, Are, Idle, Asks, Clash, Denied, Granted, Owns, Released, AsksAgain
<1>3. Released(p, q)'
  BY <1>1, <1>2, Pushed DEF Are, Owns, Released
<1> QED
  BY <1>3 DEF Phase

\* What comes first in a queue.
LEMMA FirstOf ==
  ASSUME NEW p, NEW q, Phase(p, q) \/ Phase(q, p), chan[q][p] # <<>>
  PROVE  /\ Head(chan[q][p]) \in {Ask(q), Free(q), Yes(p), No(p)}
         /\ Head(chan[q][p]).type = "Request" =>
              \/ Asks(q, p) \/ Clash(p, q) \/ Clash(q, p) \/ Denied(q, p)
              \/ /\ p < q
                 /\ Are(p, q, "REQUESTING", "HELD_REMOTELY", <<>>, <<Ask(q), Yes(p)>>)
         /\ Head(chan[q][p]).type = "Release" =>
              \/ Are(q, p, "AVAILABLE", "HELD_REMOTELY", <<Free(q)>>, <<>>)
              \/ Are(q, p, "REQUESTING", "HELD_REMOTELY", <<Free(q), Ask(q)>>, <<>>)
         /\ Head(chan[q][p]).type = "Grant" =>
              \/ Are(p, q, "REQUESTING", "HELD_REMOTELY", <<>>, <<Yes(p)>>)
              \/ Are(p, q, "REQUESTING", "HELD_REMOTELY", <<No(q)>>, <<Yes(p)>>)
         /\ Head(chan[q][p]).type = "Deny" =>
              \/ Are(q, p, "REQUESTING", "HELD_REMOTELY", <<No(p)>>, <<Yes(q)>>)
              \/ Are(q, p, "OURS", "HELD_REMOTELY", <<No(p)>>, <<>>)
              \/ Are(q, p, "AVAILABLE", "HELD_REMOTELY", <<No(p), Free(q)>>, <<>>)
              \/ Are(q, p, "REQUESTING", "HELD_REMOTELY", <<No(p), Free(q), Ask(q)>>, <<>>)
<1> DEFINE h == Head(chan[q][p])
<1>1. CASE Idle(p, q) \/ Idle(q, p)
  BY <1>1 DEF Idle, Are
<1>2. CASE Asks(p, q) \/ Asks(q, p)
  <2>1. Asks(q, p) /\ h = Ask(q)
    BY <1>2, Popped DEF Asks, Are
  <2> QED
    BY <2>1, MessageTypes
<1>3. CASE Clash(p, q) \/ Clash(q, p)
  <2>1. h = Ask(q)
    BY <1>3, Popped DEF Clash, Are
  <2> QED
    BY <1>3, <2>1, MessageTypes
<1>4. CASE Denied(p, q) \/ Denied(q, p)
  <2>1. Denied(q, p) /\ h = Ask(q)
    BY <1>4, Popped DEF Denied, Are
  <2> QED
    BY <2>1, MessageTypes
<1>5. CASE Granted(p, q)
  <2>1. \/ Are(p, q, "REQUESTING", "HELD_REMOTELY", <<>>, <<Yes(p)>>) /\ h = Yes(p)
        \/ Are(p, q, "REQUESTING", "HELD_REMOTELY", <<No(q)>>, <<Yes(p)>>) /\ h = Yes(p)
        \/ /\ Are(p, q, "REQUESTING", "HELD_REMOTELY", <<>>, <<Ask(q), Yes(p)>>) /\ h = Ask(q)
           /\ p < q
    BY <1>5, Popped DEF Granted, Are
  <2> QED
    BY <2>1, MessageTypes
<1>6. CASE Granted(q, p)
  <2>1. Are(q, p, "REQUESTING", "HELD_REMOTELY", <<No(p)>>, <<Yes(q)>>) /\ h = No(p)
    BY <1>6, Popped DEF Granted, Are
  <2> QED
    BY <2>1, MessageTypes
<1>7. CASE Owns(p, q) \/ Owns(q, p)
  <2>1. Are(q, p, "OURS", "HELD_REMOTELY", <<No(p)>>, <<>>) /\ h = No(p)
    BY <1>7, Popped DEF Owns, Are
  <2> QED
    BY <2>1, MessageTypes
<1>8. CASE Released(p, q) \/ Released(q, p)
  <2>1. \/ Are(q, p, "AVAILABLE", "HELD_REMOTELY", <<Free(q)>>, <<>>) /\ h = Free(q)
        \/ Are(q, p, "AVAILABLE", "HELD_REMOTELY", <<No(p), Free(q)>>, <<>>) /\ h = No(p)
    BY <1>8, Popped DEF Released, Are
  <2> QED
    BY <2>1, MessageTypes
<1>9. CASE AsksAgain(p, q) \/ AsksAgain(q, p)
  <2>1. \/ /\ Are(q, p, "REQUESTING", "HELD_REMOTELY", <<Free(q), Ask(q)>>, <<>>)
           /\ h = Free(q)
        \/ /\ Are(q, p, "REQUESTING", "HELD_REMOTELY", <<No(p), Free(q), Ask(q)>>, <<>>)
           /\ h = No(p)
    BY <1>9, Popped DEF AsksAgain, Are
  <2> QED
    BY <2>1, MessageTypes
<1> QED
  BY <1>1, <1>2, <1>3, <1>4, <1>5, <1>6, <1>7, <1>8, <1>9 DEF Phase

LEMMA PhaseReadsRequest ==
  ASSUME NEW p, NEW q, Pair(p, q), Phase(p, q) \/ Phase(q, p), HandleRequest(q, p)
  PROVE  Whole' /\ (Phase(p, q)' \/ Phase(q, p)')
<1>0. chan[q][p] # <<>> /\ Head(chan[q][p]).type = "Request"
  BY DEF HandleRequest, Reads
<1>1. Subject(q, p) = q
  <2>1. Head(chan[q][p]) \in {Ask(q), Free(q), Yes(p), No(p)}
    BY <1>0, FirstOf
  <2>2. Head(chan[q][p]) = Ask(q)
    BY <1>0, <2>1, MessageTypes
  <2> QED
    BY <2>2, MessageTypes DEF Subject
<1>2. /\ Whole' /\ chan'[q][p] = Tail(chan[q][p]) /\ d_state'[q] = d_state[q]
      /\ Yields(p, q) => /\ d_state'[p] = "HELD_REMOTELY"
                         /\ chan'[p][q] = Append(chan[p][q], Yes(q))
      /\ ~Yields(p, q) => /\ d_state'[p] = d_state[p]
                          /\ chan'[p][q] = Append(chan[p][q], No(q))
  BY <1>1, PairReadsRequest
<1>3. d_state[p] = "REQUESTING" => (Yields(p, q) <=> q < p)
  BY PairAsks DEF Yields
<1>4. p < q \/ q < p
  BY PairFacts, PairAsks, PeerAssumption
<1>5. ~(p < q /\ q < p)
  BY PairFacts, PeerAssumption
<1>6. CASE Asks(q, p)
  <2>1. Yields(p, q)
    BY <1>6 DEF Asks, Are, Yields
  <2>2. Granted(q, p)'
    BY <1>2, <1>6, <2>1, Pushed, Popped DEF Asks, Are, Granted
  <2> QED
    BY <1>2, <2>2 DEF Phase
<1>7. CASE Clash(p, q) \/ Clash(q, p)
  <2>1. /\ d_state[p] = "REQUESTING" /\ d_state[q] = "REQUESTING"
        /\ chan[p][q] = <<Ask(p)>> /\ chan[q][p] = <<Ask(q)>>
    BY <1>7 DEF Clash, Are
  <2>2. CASE q < p
    <3>1. Granted(q, p)'
      BY <1>2, <1>3, <2>1, <2>2, Pushed, Popped DEF Are, Granted
    <3> QED
      BY <1>2, <3>1 DEF Phase
  <2>3. CASE p < q
    <3>1. Denied(p, q)'
      BY <1>2, <1>3, <1>5, <2>1, <2>3, Pushed, Popped DEF Are, Denied
    <3> QED
      BY <1>2, <3>1 DEF Phase
  <2> QED
    BY <1>4, <2>2, <2>3
<1>8. CASE Denied(q, p)
  <2>1. Yields(p, q)
    BY <1>3, <1>8 DEF Denied, Are
  <2>2. Granted(q, p)'
    BY <1>2, <1>8, <2>1, Pushed, Popped DEF Denied, Are, Granted
  <2> QED
    BY <1>2, <2>2 DEF Phase
<1>9. CASE p < q /\ Are(p, q, "REQUESTING", "HELD_REMOTELY", <<>>, <<Ask(q), Yes(p)>>)
  <2>1. ~Yields(p, q)
    BY <1>3, <1>5, <1>9 DEF Are
  <2>2. Granted(p, q)'
    BY <1>2, <1>9, <2>1, Pushed, Popped DEF Are, Granted
  <2> QED
    BY <1>2, <2>2 DEF Phase
<1> QED
  BY <1>0, <1>6, <1>7, <1>8, <1>9, FirstOf

LEMMA PhaseReads ==
  ASSUME NEW p, NEW q, Pair(p, q), Phase(p, q) \/ Phase(q, p),
         HandleRelease(q, p) \/ HandleGrantRequest(q, p) \/ HandleDenyRequest(q, p)
  PROVE  Whole' /\ (Phase(p, q)' \/ Phase(q, p)')
<1>0. /\ chan[q][p] # <<>>
      /\ HandleRelease(q, p) => Head(chan[q][p]).type = "Release"
      /\ HandleGrantRequest(q, p) => Head(chan[q][p]).type = "Grant"
      /\ HandleDenyRequest(q, p) => Head(chan[q][p]).type = "Deny"
  BY DEF HandleRelease, HandleGrantRequest, HandleDenyRequest, Reads
<1>1. /\ HandleGrantRequest(q, p) => Subject(q, p) = p /\ d_state[p] = "REQUESTING"
      /\ HandleDenyRequest(q, p) => Subject(q, p) = p
  <2>1. Head(chan[q][p]).type \in {"Grant", "Deny"} => Head(chan[q][p]).of = p
    <3>1. Head(chan[q][p]) \in {Ask(q), Free(q), Yes(p), No(p)}
      BY <1>0, FirstOf
    <3> QED
      BY <3>1, MessageTypes
  <2>2. Head(chan[q][p]).type = "Grant" => d_state[p] = "REQUESTING"
    BY <1>0, FirstOf DEF Are
  <2> QED
    BY <1>0, <2>1, <2>2 DEF Subject
<1>2. /\ Whole' /\ chan'[q][p] = Tail(chan[q][p]) /\ chan'[p][q] = chan[p][q]
      /\ d_state'[q] = d_state[q]
      /\ \/ Head(chan[q][p]).type = "Release" /\ d_state'[p] = "AVAILABLE"
         \/ Head(chan[q][p]).type = "Grant" /\ d_state'[p] = "OURS"
         \/ Head(chan[q][p]).type = "Deny" /\ d_state'[p] = "HELD_REMOTELY"
  BY <1>1, PairReads
<1>3. CASE Head(chan[q][p]).type = "Release"
  <2>1. d_state'[p] = "AVAILABLE"
    BY <1>2, <1>3
  <2>2. \/ Are(q, p, "AVAILABLE", "HELD_REMOTELY", <<Free(q)>>, <<>>)
        \/ Are(q, p, "REQUESTING", "HELD_REMOTELY", <<Free(q), Ask(q)>>, <<>>)
    BY <1>0, <1>3, FirstOf
  <2>3. Idle(q, p)' \/ Asks(q, p)'
    BY <1>2, <2>1, <2>2, Popped DEF Are, Idle, Asks
  <2> QED
    BY <1>2, <2>3 DEF Phase
<1>4. CASE Head(chan[q][p]).type = "Grant"
  <2>1. d_state'[p] = "OURS"
    BY <1>2, <1>4
  <2>2. \/ Are(p, q, "REQUESTING", "HELD_REMOTELY", <<>>, <<Yes(p)>>)
        \/ Are(p, q, "REQUESTING", "HELD_REMOTELY", <<No(q)>>, <<Yes(p)>>)
    BY <1>0, <1>4, FirstOf
  <2>3. Owns(p, q)'
    BY <1>2, <2>1, <2>2, Popped DEF Are, Owns
  <2> QED
    BY <1>2, <2>3 DEF Phase
<1>5. CASE Head(chan[q][p]).type = "Deny"
  <2>1. d_state'[p] = "HELD_REMOTELY"
    BY <1>2, <1>5
  <2>2. \/ Are(q, p, "REQUESTING", "HELD_REMOTELY", <<No(p)>>, <<Yes(q)>>)
        \/ Are(q, p, "OURS", "HELD_REMOTELY", <<No(p)>>, <<>>)
        \/ Are(q, p, "AVAILABLE", "HELD_REMOTELY", <<No(p), Free(q)>>, <<>>)
        \/ Are(q, p, "REQUESTING", "HELD_REMOTELY", <<No(p), Free(q), Ask(q)>>, <<>>)
    BY <1>0, <1>5, FirstOf
  <2>3. CASE Are(q, p, "REQUESTING", "HELD_REMOTELY", <<No(p)>>, <<Yes(q)>>)
    BY <1>2, <2>1, <2>3, Popped DEF Are, Granted, Phase
  <2>4. CASE Are(q, p, "OURS", "HELD_REMOTELY", <<No(p)>>, <<>>)
    BY <1>2, <2>1, <2>4, Popped DEF Are, Owns, Phase
  <2>5. CASE Are(q, p, "AVAILABLE", "HELD_REMOTELY", <<No(p), Free(q)>>, <<>>)
    BY <1>2, <2>1, <2>5, Popped DEF Are, Released, Phase
  <2>6. CASE Are(q, p, "REQUESTING", "HELD_REMOTELY", <<No(p), Free(q), Ask(q)>>, <<>>)
    BY <1>2, <2>1, <2>6, Popped DEF Are, AsksAgain, Phase
  <2> QED
    BY <1>2, <2>2, <2>3, <2>4, <2>5, <2>6
<1> QED
  BY <1>2, <1>3, <1>4, <1>5

\* The first lost connection ends it.
LEMMA LostSome ==
  ASSUME TypeOK, NEW p \in Peer, NEW lost \in SUBSET d_peer[p], LosePeers(p, lost)
  PROVE  losses' # 0
<1>1. IsFiniteSet(lost) /\ lost # {}
  BY PeerAssumption, FS_Subset DEF TypeOK, LosePeers
<1>2. Cardinality(lost) \in Nat /\ Cardinality(lost) # 0
  BY <1>1, FS_CardinalityType, FS_EmptySet
<1> QED
  BY <1>2 DEF TypeOK, LosePeers

LEMMA TwoStep ==
  Cardinality(Peer) = 2 => (TypeOK /\ TwoInv /\ [Next]_vars => TwoInv')
<1> SUFFICES ASSUME Cardinality(Peer) = 2, TypeOK, TwoInv, [Next]_vars, losses' = 0
             PROVE  Whole' /\ \E p, q \in Peer : p # q /\ Phase(p, q)'
  BY DEF TwoInv
<1>1. losses = 0
  <2>1. losses' # losses => losses' # 0
    BY LostSome DEF Next, Work, Handle, Request, Release, HandleRequest, HandleRelease,
       HandleGrantRequest, HandleDenyRequest, vars
  <2> QED
    BY <2>1
<1>2. PICK a, b \in Peer : Whole /\ a # b /\ Phase(a, b)
  BY <1>1 DEF TwoInv
<1>3. Pair(a, b) /\ Pair(b, a) /\ \A x \in Peer : x = a \/ x = b
  BY <1>2, PairFacts DEF Pair
<1>4. ASSUME NEW p \in Peer, NEW q \in Peer, p # q,
             Request(p) \/ Release(p) \/ Handle(q, p)
      PROVE  Whole' /\ \E x, y \in Peer : x # y /\ Phase(x, y)'
  <2>1. Pair(p, q) /\ (Phase(p, q) \/ Phase(q, p))
    BY <1>2, <1>3, <1>4
  <2>2. Whole' /\ (Phase(p, q)' \/ Phase(q, p)')
    BY <1>4, <2>1, PhaseRequest, PairRequest, PhaseRelease, PairRelease, PhaseReadsRequest,
       PhaseReads DEF Handle
  <2> QED
    BY <1>4, <2>2
<1>5. ASSUME NEW p \in Peer, Handle(p, p) PROVE FALSE
  BY <1>2, <1>5 DEF Whole, Handle, HandleRequest, HandleRelease, HandleGrantRequest,
     HandleDenyRequest, Reads
<1>6. CASE Work
  <2>1. \A p \in Peer : \E q \in Peer : p # q
    BY <1>2
  <2> QED
    BY <1>4, <1>5, <1>6, <2>1 DEF Work
<1>7. CASE \E p \in Peer : \E lost \in SUBSET d_peer[p] : LosePeers(p, lost)
  BY <1>7, LostSome
<1>8. CASE UNCHANGED vars
  <2>1. UNCHANGED <<d_state, d_holder, d_numPeersGrantingLock, d_peer, chan, losses>>
    BY <1>8 DEF vars
  <2>2. Phase(a, b)' /\ Whole'
    BY <1>2, <2>1 DEF Whole, Phase, Are, Idle, Asks, Clash, Denied, Granted, Owns, Released,
       AsksAgain
  <2> QED
    BY <1>2, <2>2
<1> QED
  BY <1>6, <1>7, <1>8 DEF Next

LEMMA TwoInit == Cardinality(Peer) = 2 => (Init => TwoInv)
<1> SUFFICES ASSUME Cardinality(Peer) = 2, Init PROVE Whole /\ \E p, q \in Peer : p # q /\ Phase(p, q)
  BY DEF TwoInv
<1>1. Whole
  BY DEF Init, Whole
<1>2. PICK a \in Peer : TRUE
  BY FS_EmptySet
<1>3. PICK b \in Peer : a # b
  <2>1. IsFiniteSet(Peer \ {a}) /\ Cardinality(Peer \ {a}) = 1
    BY PeerAssumption, FS_RemoveElement
  <2>2. Peer \ {a} # {}
    BY <2>1, FS_EmptySet
  <2> QED
    BY <2>2
<1>4. Idle(a, b)
  BY DEF Init, Idle, Are
<1> QED
  BY <1>1, <1>3, <1>4 DEF Phase

LEMMA TwoAlways == Cardinality(Peer) = 2 => (Spec => []TwoInv)
<1> SUFFICES ASSUME Cardinality(Peer) = 2 PROVE Spec => []TwoInv
  OBVIOUS
<1>1. Init => TwoInv
  BY TwoInit
<1>2. TypeOK /\ TwoInv /\ [Next]_vars => TwoInv'
  BY TwoStep
<1> QED
  BY <1>1, <1>2, TypeInit, TypeStep, PTL DEF Spec

LEMMA TwoStates ==
  ASSUME TwoInv, losses = 0, Cardinality(Peer) = 2, NEW p \in Peer, NEW q \in Peer, p # q
  PROVE  Phase(p, q) \/ Phase(q, p)
<1>1. PICK a, b \in Peer : a # b /\ Phase(a, b)
  BY DEF TwoInv
<1>2. Peer = {a, b}
  BY <1>1, Two
<1> QED
  BY <1>1, <1>2

\* Of two peers at most one owns the lock ("Provides distributed mutual exclusion",
\* vrpn_Mutex.h:148), however often they ask, whoever asks first and whenever, as long as
\* they are connected.
THEOREM TwoExclude == Cardinality(Peer) = 2 => (Spec => []ExclusionUntilLoss)
<1> SUFFICES ASSUME Cardinality(Peer) = 2 PROVE Spec => []ExclusionUntilLoss
  OBVIOUS
<1>1. TwoInv => ExclusionUntilLoss
  BY TwoStates DEF ExclusionUntilLoss, MutualExclusion, Phase, Are, Idle, Asks, Clash, Denied,
     Granted, Owns, Released, AsksAgain
<1>2. Spec => []TwoInv
  BY TwoAlways
<1> QED
  BY <1>1, <1>2, PTL

LEMMA NeverLost == MaxLoss = 0 => (Spec => [](losses = 0))
<1> SUFFICES ASSUME MaxLoss = 0 PROVE Spec => [](losses = 0)
  OBVIOUS
<1>1. Init => losses = 0
  BY DEF Init
<1>2. TypeOK /\ TypeOK' /\ losses = 0 /\ [Next]_vars => (losses = 0)'
  <2> SUFFICES ASSUME TypeOK, TypeOK', losses = 0, [Next]_vars PROVE losses' = 0
    OBVIOUS
  <2>1. ASSUME NEW p \in Peer, NEW lost \in SUBSET d_peer[p], LosePeers(p, lost) PROVE FALSE
    <3>1. losses' \in Nat /\ losses' <= 0
      BY <2>1 DEF LosePeers, TypeOK
    <3> QED
      BY <2>1, <3>1, LostSome
  <2> QED
    BY <2>1 DEF Next, Work, Handle, Request, Release, HandleRequest, HandleRelease,
       HandleGrantRequest, HandleDenyRequest, vars
<1> QED
  BY <1>1, <1>2, TypeCorrect, PTL DEF Spec

\* Where connections are never lost, two peers exclude each other without further condition.
THEOREM TwoExcludeAlways ==
  Cardinality(Peer) = 2 /\ MaxLoss = 0 => (Spec => []MutualExclusion)
<1> SUFFICES ASSUME Cardinality(Peer) = 2, MaxLoss = 0 PROVE Spec => []MutualExclusion
  OBVIOUS
<1>1. ExclusionUntilLoss /\ losses = 0 => MutualExclusion
  BY DEF ExclusionUntilLoss
<1>2. Spec => []ExclusionUntilLoss
  BY TwoExclude
<1>3. Spec => [](losses = 0)
  BY NeverLost
<1> QED
  BY <1>1, <1>2, <1>3, PTL

\* While one of two peers owns the lock, the other knows.
THEOREM TwoKnowOwner == Cardinality(Peer) = 2 => (Spec => [](losses = 0 => OwnerIsKnown))
<1> SUFFICES ASSUME Cardinality(Peer) = 2 PROVE Spec => [](losses = 0 => OwnerIsKnown)
  OBVIOUS
<1>1. TwoInv => (losses = 0 => OwnerIsKnown)
  <2> SUFFICES ASSUME TwoInv, losses = 0, NEW p \in Peer, NEW q \in Peer,
                      d_state[p] = "OURS", p # q
               PROVE  d_state[q] = "HELD_REMOTELY"
    BY DEF OwnerIsKnown
  <2>1. Phase(p, q) \/ Phase(q, p)
    BY TwoStates
  <2> QED
    BY <2>1 DEF Phase, Are, Idle, Asks, Clash, Denied, Granted, Owns, Released, AsksAgain
<1>2. Spec => []TwoInv
  BY TwoAlways
<1> QED
  BY <1>1, <1>2, PTL

\* A peer that believes the other has the lock is right, or is going to hear of its release:
\* neither of the two waits for a release that never comes (vrpn_Mutex.h:86).
THEOREM TwoHeldBySomeone == Cardinality(Peer) = 2 => (Spec => [](losses = 0 => HeldBySomeone))
<1> SUFFICES ASSUME Cardinality(Peer) = 2 PROVE Spec => [](losses = 0 => HeldBySomeone)
  OBVIOUS
<1>1. TwoInv => (losses = 0 => HeldBySomeone)
  <2> SUFFICES ASSUME TwoInv, losses = 0, NothingUnderWay, NEW p \in Peer,
                      d_state[p] = "HELD_REMOTELY"
               PROVE  \E q \in Peer : d_state[q] = "OURS"
    BY DEF HeldBySomeone
  <2>1. PICK a, b \in Peer : a # b /\ Phase(a, b)
    BY DEF TwoInv
  <2>2. p = a \/ p = b
    BY <2>1, Two
  <2>3. chan[a][b] = <<>> /\ chan[b][a] = <<>>
    BY DEF NothingUnderWay
  <2>4. Idle(a, b) \/ Owns(a, b)
    BY <2>1, <2>3, Popped DEF Phase, Are, Idle, Asks, Clash, Denied, Granted, Owns, Released,
       AsksAgain
  <2> QED
    BY <2>2, <2>4 DEF Idle, Owns, Are
<1>2. Spec => []TwoInv
  BY TwoAlways
<1> QED
  BY <1>1, <1>2, PTL

\* Nobody takes the lock away from one of two peers that owns it ("The process has the lock
\* until it explicitly calls release()", vrpn_Mutex.h:153): no release and no denial is on its
\* way to an owner.
THEOREM TwoHoldUntilRelease ==
  Cardinality(Peer) = 2 /\ MaxLoss = 0 => (Spec => HeldUntilRelease)
<1> SUFFICES ASSUME Cardinality(Peer) = 2, MaxLoss = 0 PROVE Spec => HeldUntilRelease
  OBVIOUS
<1>1. TypeOK /\ TwoInv /\ losses = 0 /\ [Next]_vars
        => [\A p \in Peer : d_state[p] = "OURS" /\ d_state'[p] # "OURS" => Release(p)]_vars
  <2> SUFFICES ASSUME TypeOK, TwoInv, losses = 0, Next, NEW p \in Peer,
                      d_state[p] = "OURS", d_state'[p] # "OURS"
               PROVE  Release(p)
    OBVIOUS
  <2>1. d_state \in [Peer -> States]
    BY DEF TypeOK, States
  <2>2. \A q \in Peer : chan[q][p] = <<>>
    <3>1. chan[p][p] = <<>>
      BY DEF TwoInv, Whole
    <3>2. ASSUME NEW q \in Peer, q # p PROVE chan[q][p] = <<>>
      <4>1. Phase(p, q) \/ Phase(q, p)
        BY <3>2, TwoStates
      <4> QED
        BY <4>1 DEF Phase, Are, Idle, Asks, Clash, Denied, Granted, Owns, Released, AsksAgain
    <3> QED
      BY <3>1, <3>2
  <2>3. ASSUME NEW r \in Peer, Request(r) PROVE FALSE
    BY <2>1, <2>3 DEF Request
  <2>4. ASSUME NEW r \in Peer, Release(r) PROVE r = p
    BY <2>1, <2>4 DEF Release
  <2>5. ASSUME NEW q \in Peer, NEW r \in Peer, Handle(q, r) PROVE FALSE
    <3>1. chan[q][r] # <<>>
      BY <2>5 DEF Handle, HandleRequest, HandleRelease, HandleGrantRequest,
         HandleDenyRequest, Reads
    <3>2. r # p
      BY <2>2, <3>1
    <3>3. d_state'[p] = d_state[p]
      BY <2>1, <2>5, <3>2 DEF Handle, HandleRequest, HandleRelease, HandleGrantRequest,
         HandleDenyRequest
    <3> QED
      BY <3>3
  <2>6. ASSUME NEW r \in Peer, NEW lost \in SUBSET d_peer[r], LosePeers(r, lost) PROVE FALSE
    BY <2>1, <2>6 DEF LosePeers, StateAfterCheck, Wins
  <2> QED
    BY <2>3, <2>4, <2>5, <2>6 DEF Next, Work
<1>2. Spec => []TwoInv
  BY TwoAlways
<1>3. Spec => [](losses = 0)
  BY NeverLost
<1> QED
  BY <1>1, <1>2, <1>3, TypeCorrect, PTL DEF Spec, HeldUntilRelease

-----------------------------------------------------------------------------
(* Any number of peers. Once a peer grants the lock to another it can only get it  *)
(* itself by a new request, which the other reads after its own; so the first  *)
(* requests of all peers exclude each other.  (Later ones need not: an answer   *)
(* to an earlier request may still be under way.)                             *)

\* No request in s; at most one.  No answer to p; at most one; a grant for p.
NoAsk(s)  == \A i \in 1 .. Len(s) : s[i].type # "Request"
OneAsk(s) ==
  \A i, j \in 1 .. Len(s) : s[i].type = "Request" /\ s[j].type = "Request" => i = j

Answers(m, p) == m.type \in {"Grant", "Deny"} /\ m.of = p

NoAnswer(s, p)  == \A i \in 1 .. Len(s) : ~Answers(s[i], p)
OneAnswer(s, p) == \A i, j \in 1 .. Len(s) : Answers(s[i], p) /\ Answers(s[j], p) => i = j
HasGrant(s, p)  == \E i \in 1 .. Len(s) : s[i].type = "Grant" /\ s[i].of = p
AsksFor(s, p)   == \A i \in 1 .. Len(s) : s[i].type = "Request" => s[i].of = p

\* Between p and q neither p's request nor an answer to it is under way.
Through(p, q) == NoAsk(chan[p][q]) /\ NoAnswer(chan[q][p], p)

\* The one request of p is under way to q, then the answer to it, then neither.
Exchange(p, q) ==
  /\ OneAsk(chan[p][q]) /\ AsksFor(chan[p][q], p) /\ OneAnswer(chan[q][p], p)
  /\ NoAsk(chan[p][q]) \/ NoAnswer(chan[q][p], p)
  /\ requests[p] = 0 => Through(p, q)

\* p has the lock, or may still get it.
Live(p) == d_state[p] \in {"REQUESTING", "OURS"}

Answered(p) == {q \in Peer \ {p} : Through(p, q)}

\* q has granted p the lock: p has read it, or is going to.
GrantedBy(p, q) == Through(p, q) \/ HasGrant(chan[q][p], p)

\* Every grant counted was read, and who has the lock has read an answer from everybody.
Counted(p) ==
  /\ Live(p) => requests[p] # 0 /\ d_numPeersGrantingLock[p] <= Cardinality(Answered(p))
  /\ d_state[p] = "OURS" => Answered(p) = Peer \ {p}

\* Of two peers that may get the lock one has not granted it to the other.
Compete(p, q) == Live(p) /\ Live(q) => ~(GrantedBy(p, q) /\ GrantedBy(q, p))

OnceInv ==
  losses = 0 =>
    /\ \A p \in Peer : d_peer[p] = Peer \ {p} /\ chan[p][p] = <<>> /\ Counted(p)
    /\ \A p, q \in Peer : p # q => Exchange(p, q) /\ Compete(p, q)

SameAsks(s, t) == /\ NoAsk(t) <=> NoAsk(s)
                  /\ OneAsk(s) => OneAsk(t)
                  /\ \A p : AsksFor(s, p) => AsksFor(t, p)

SameAnswers(s, t, p) == /\ NoAnswer(t, p) <=> NoAnswer(s, p)
                        /\ OneAnswer(s, p) => OneAnswer(t, p)
                        /\ HasGrant(t, p) <=> HasGrant(s, p)

LEMMA Added ==
  ASSUME NEW s \in Seq(Msg), NEW m \in Msg, NEW p
  PROVE  /\ m.type # "Request" => SameAsks(s, Append(s, m))
         /\ ~Answers(m, p) => SameAnswers(s, Append(s, m), p)
         /\ NoAsk(s) => OneAsk(Append(s, m))
         /\ NoAsk(s) /\ m.of = p => AsksFor(Append(s, m), p)
         /\ NoAsk(Append(s, m)) => m.type # "Request"
         /\ NoAnswer(s, p) => OneAnswer(Append(s, m), p)
         /\ NoAnswer(Append(s, m), p) => ~Answers(m, p)
         /\ NoAnswer(s, p) /\ HasGrant(Append(s, m), p) => m.type = "Grant"
<1> DEFINE t == Append(s, m)
<1>1. /\ Len(t) = Len(s) + 1 /\ Len(s) \in Nat /\ t[Len(s) + 1] = m
      /\ \A i \in 1 .. Len(s) : t[i] = s[i]
  OBVIOUS
<1> HIDE DEF t
<1>2. /\ \A i \in 1 .. Len(t) : i \in 1 .. Len(s) \/ i = Len(s) + 1
      /\ \A i \in 1 .. Len(s) : i \in 1 .. Len(t)
      /\ Len(s) + 1 \in 1 .. Len(t)
  BY <1>1
<1>3. m.type # "Request" => SameAsks(s, t)
  BY <1>1, <1>2 DEF SameAsks, NoAsk, OneAsk, AsksFor
<1>4. ~Answers(m, p) => SameAnswers(s, t, p)
  <2> SUFFICES ASSUME ~Answers(m, p) PROVE SameAnswers(s, t, p)
    OBVIOUS
  <2>1. NoAnswer(t, p) <=> NoAnswer(s, p)
    BY <1>1, <1>2 DEF NoAnswer
  <2>2. OneAnswer(s, p) => OneAnswer(t, p)
    BY <1>1, <1>2 DEF OneAnswer
  <2>3. HasGrant(t, p) <=> HasGrant(s, p)
    BY <1>1, <1>2 DEF HasGrant, Answers
  <2> QED
    BY <2>1, <2>2, <2>3 DEF SameAnswers
<1>5. NoAsk(s) => OneAsk(t)
  BY <1>1, <1>2 DEF NoAsk, OneAsk
<1>6. NoAsk(s) /\ m.of = p => AsksFor(t, p)
  BY <1>1, <1>2 DEF NoAsk, AsksFor
<1>7. (NoAsk(t) => m.type # "Request") /\ (NoAnswer(t, p) => ~Answers(m, p))
  BY <1>1, <1>2 DEF NoAsk, NoAnswer
<1>8. NoAnswer(s, p) => OneAnswer(t, p)
  BY <1>1, <1>2 DEF NoAnswer, OneAnswer
<1>9. NoAnswer(s, p) /\ HasGrant(t, p) => m.type = "Grant"
  BY <1>1, <1>2 DEF NoAnswer, HasGrant, Answers
<1> QED
  BY <1>3, <1>4, <1>5, <1>6, <1>7, <1>8, <1>9 DEF t

LEMMA Taken ==
  ASSUME NEW s \in Seq(Msg), s # <<>>, NEW p
  PROVE  /\ Head(s).type # "Request" => SameAsks(s, Tail(s))
         /\ ~Answers(Head(s), p) => SameAnswers(s, Tail(s), p)
         /\ Head(s).type = "Request" => ~NoAsk(s) /\ ~Answers(Head(s), p)
         /\ OneAsk(s) => OneAsk(Tail(s))
         /\ OneAsk(s) /\ Head(s).type = "Request" => NoAsk(Tail(s))
         /\ AsksFor(s, p) =>
              AsksFor(Tail(s), p) /\ (Head(s).type = "Request" => Head(s).of = p)
         /\ Answers(Head(s), p) => ~NoAnswer(s, p) /\ Head(s).type # "Request"
         /\ OneAnswer(s, p) => OneAnswer(Tail(s), p)
         /\ OneAnswer(s, p) /\ Answers(Head(s), p) => NoAnswer(Tail(s), p)
         /\ Head(s).type = "Grant" /\ Head(s).of = p => HasGrant(s, p)
<1> DEFINE t == Tail(s)
           h == Head(s)
<1>1. /\ Len(s) \in Nat \ {0} /\ Len(t) = Len(s) - 1 /\ h = s[1]
      /\ \A i \in 1 .. Len(t) : t[i] = s[i + 1] /\ i + 1 \in 1 .. Len(s)
  OBVIOUS
<1> HIDE DEF t, h
<1>2. /\ \A i \in 1 .. Len(s) : i = 1 \/ (i - 1 \in 1 .. Len(t) /\ t[i - 1] = s[i])
      /\ 1 \in 1 .. Len(s)
  BY <1>1
<1>3. OneAsk(s) => OneAsk(t)
  <2> SUFFICES ASSUME OneAsk(s), NEW i \in 1 .. Len(t), NEW j \in 1 .. Len(t),
                      t[i].type = "Request", t[j].type = "Request"
               PROVE  i = j
    BY DEF OneAsk
  <2>1. i + 1 = j + 1
    BY <1>1 DEF OneAsk
  <2> QED
    BY <2>1
<1>4. h.type # "Request" => SameAsks(s, t)
  <2> SUFFICES ASSUME h.type # "Request" PROVE SameAsks(s, t)
    OBVIOUS
  <2>1. NoAsk(t) <=> NoAsk(s)
    BY <1>1, <1>2 DEF NoAsk
  <2>2. OneAsk(s) => OneAsk(t)
    BY <1>3
  <2>3. \A x : AsksFor(s, x) => AsksFor(t, x)
    BY <1>1, <1>2 DEF AsksFor
  <2> QED
    BY <2>1, <2>2, <2>3 DEF SameAsks
<1>5. OneAnswer(s, p) => OneAnswer(t, p)
  BY <1>1, <1>2 DEF OneAnswer
<1>6. ~Answers(h, p) => SameAnswers(s, t, p)
  <2> SUFFICES ASSUME ~Answers(h, p) PROVE SameAnswers(s, t, p)
    OBVIOUS
  <2>1. NoAnswer(t, p) <=> NoAnswer(s, p)
    BY <1>1, <1>2 DEF NoAnswer
  <2>2. HasGrant(t, p) <=> HasGrant(s, p)
    BY <1>1, <1>2 DEF HasGrant, Answers
  <2> QED
    BY <1>5, <2>1, <2>2 DEF SameAnswers
<1>7. h.type = "Request" => ~NoAsk(s) /\ ~Answers(h, p)
  BY <1>1, <1>2 DEF NoAsk, Answers
<1>8. OneAsk(s) /\ h.type = "Request" => NoAsk(t)
  <2> SUFFICES ASSUME OneAsk(s), h.type = "Request", NEW i \in 1 .. Len(t), t[i].type = "Request"
               PROVE  FALSE
    BY DEF NoAsk
  <2>1. i + 1 = 1
    BY <1>1, <1>2 DEF OneAsk
  <2> QED
    BY <1>1, <2>1
<1>9. AsksFor(s, p) => AsksFor(t, p) /\ (h.type = "Request" => h.of = p)
  BY <1>1, <1>2 DEF AsksFor
<1>10. Answers(h, p) => ~NoAnswer(s, p) /\ h.type # "Request"
  BY <1>1, <1>2 DEF NoAnswer, Answers
<1>11. OneAnswer(s, p) /\ Answers(h, p) => NoAnswer(t, p)
  <2> SUFFICES ASSUME OneAnswer(s, p), Answers(h, p), NEW i \in 1 .. Len(t), Answers(t[i], p)
               PROVE  FALSE
    BY DEF NoAnswer
  <2>1. i + 1 = 1
    BY <1>1, <1>2 DEF OneAnswer
  <2> QED
    BY <1>1, <2>1
<1>12. h.type = "Grant" /\ h.of = p => HasGrant(s, p)
  BY <1>1, <1>2 DEF HasGrant
<1> QED
  BY <1>4, <1>5, <1>6, <1>7, <1>3, <1>8, <1>9, <1>10, <1>11, <1>12 DEF t, h

LEMMA NoGrant ==
  ASSUME NEW s, NEW p, NoAnswer(s, p)
  PROVE  ~HasGrant(s, p)
BY DEF NoAnswer, HasGrant, Answers

\* A step that does not touch the exchange of p with q.
LEMMA Untouched ==
  ASSUME NEW p \in Peer, NEW q \in Peer, Exchange(p, q), requests'[p] = requests[p],
         SameAsks(chan[p][q], chan'[p][q]), SameAnswers(chan[q][p], chan'[q][p], p)
  PROVE  /\ Exchange(p, q)'
         /\ Through(p, q)' <=> Through(p, q)
         /\ GrantedBy(p, q)' <=> GrantedBy(p, q)
BY DEF Exchange, Through, GrantedBy, SameAsks, SameAnswers

LEMMA SameSame == \A s, p : SameAsks(s, s) /\ SameAnswers(s, s, p)
BY DEF SameAsks, SameAnswers

LEMMA CountedKept ==
  ASSUME NEW p \in Peer, Counted(p), TypeOK,
         Live(p)' => /\ Live(p) /\ requests'[p] = requests[p]
                     /\ d_numPeersGrantingLock'[p] = d_numPeersGrantingLock[p],
         d_state'[p] = "OURS" => d_state[p] = "OURS",
         \A q \in Peer \ {p} : Through(p, q) => Through(p, q)'
  PROVE  Counted(p)'
<1>1. Answered(p) \subseteq Answered(p)' /\ Answered(p)' \subseteq Peer \ {p}
  BY DEF Answered
<1>2. IsFiniteSet(Peer \ {p})
  BY PeerAssumption, FS_RemoveElement
<1>3. IsFiniteSet(Answered(p)')
  BY <1>1, <1>2, FS_Subset
<1>4. /\ Cardinality(Answered(p)) <= Cardinality(Answered(p)')
      /\ Cardinality(Answered(p)) \in Nat /\ Cardinality(Answered(p)') \in Nat
  BY <1>1, <1>3, FS_Subset, FS_CardinalityType
<1>5. d_numPeersGrantingLock[p] \in Nat
  BY DEF TypeOK
<1>6. Live(p)' => /\ requests'[p] # 0
                  /\ d_numPeersGrantingLock'[p] <= Cardinality(Answered(p)')
  BY <1>4, <1>5 DEF Counted
<1>7. d_state'[p] = "OURS" => Answered(p)' = Peer \ {p}
  BY <1>1 DEF Counted
<1> QED
  BY <1>6, <1>7 DEF Counted

\* Who holds or may get the lock does not become more.
LEMMA OnceKept ==
  ASSUME OnceInv, losses = 0, UNCHANGED d_peer,
         \A x \in Peer : chan'[x][x] = chan[x][x] /\ Counted(x)' /\ (Live(x)' => Live(x)),
         \A x, y \in Peer : x # y =>
            /\ Exchange(x, y)'
            /\ GrantedBy(x, y)' => GrantedBy(x, y) \/ ~Live(x)' \/ ~Live(y)'
  PROVE  OnceInv'
<1>1. ASSUME NEW x \in Peer, NEW y \in Peer, x # y PROVE Compete(x, y)'
  BY <1>1 DEF OnceInv, Compete
<1>2. \A x \in Peer : d_peer'[x] = Peer \ {x} /\ chan'[x][x] = <<>>
  BY DEF OnceInv
<1> QED
  BY <1>1, <1>2 DEF OnceInv

\* A step that touches no exchange.
LEMMA OnceQuiet ==
  ASSUME TypeOK, OnceInv, losses = 0, UNCHANGED <<d_peer, requests>>,
         \A x \in Peer : /\ chan'[x][x] = chan[x][x]
                         /\ d_state'[x] = "OURS" => d_state[x] = "OURS"
                         /\ Live(x)' =>
                              /\ Live(x)
                              /\ d_numPeersGrantingLock'[x] = d_numPeersGrantingLock[x],
         \A x, y \in Peer : x # y => /\ SameAsks(chan[x][y], chan'[x][y])
                                     /\ SameAnswers(chan[y][x], chan'[y][x], x)
  PROVE  OnceInv'
<1>1. \A x, y \in Peer : x # y => /\ Exchange(x, y)'
                                  /\ Through(x, y)' <=> Through(x, y)
                                  /\ GrantedBy(x, y)' <=> GrantedBy(x, y)
  <2> SUFFICES ASSUME NEW x \in Peer, NEW y \in Peer, x # y
               PROVE  /\ Exchange(x, y)'
                      /\ Through(x, y)' <=> Through(x, y)
                      /\ GrantedBy(x, y)' <=> GrantedBy(x, y)
    OBVIOUS
  <2>1. Exchange(x, y)
    BY DEF OnceInv
  <2> QED
    BY <2>1, Untouched
<1>2. ASSUME NEW x \in Peer PROVE Counted(x)'
  <2>1. Counted(x)
    BY DEF OnceInv
  <2>2. \A y \in Peer \ {x} : Through(x, y) => Through(x, y)'
    BY <1>1
  <2> QED
    BY <2>1, <2>2, CountedKept
<1> QED
  BY <1>1, <1>2, OnceKept

\* What p adds to its queues, and what it takes from one.
LEMMA Sent ==
  ASSUME TypeOK, OnceInv, losses = 0, NEW p \in Peer, NEW m, chan' = [chan EXCEPT ![p] = ToPeers(p, m)]
  PROVE  /\ \A y \in Peer : y # p => chan'[p][y] = Append(chan[p][y], m)
         /\ chan'[p][p] = chan[p][p]
         /\ \A x, y \in Peer : x # p => chan'[x][y] = chan[x][y]
BY DEF TypeOK, OnceInv, ToPeers

LEMMA Read ==
  ASSUME TypeOK, NEW p \in Peer, NEW q \in Peer
  PROVE  /\ Rest(q, p)[q][p] = Tail(chan[q][p])
         /\ \A x, y \in Peer : x # q \/ y # p => Rest(q, p)[x][y] = chan[x][y]
BY DEF TypeOK, Rest

LEMMA AddedOther ==
  ASSUME NEW s \in Seq(Msg), NEW m \in Msg
  PROVE  /\ m.type # "Request" => SameAsks(s, Append(s, m))
         /\ \A p : ~Answers(m, p) => SameAnswers(s, Append(s, m), p)
<1>1. m.type # "Request" => SameAsks(s, Append(s, m))
  <2>1. ASSUME NEW p PROVE m.type # "Request" => SameAsks(s, Append(s, m))
    BY Added
  <2> QED
    BY <2>1
<1>2. ASSUME NEW p PROVE ~Answers(m, p) => SameAnswers(s, Append(s, m), p)
  BY Added
<1> QED
  BY <1>1, <1>2

LEMMA TakenOther ==
  ASSUME NEW s \in Seq(Msg), s # <<>>
  PROVE  /\ Head(s).type # "Request" => SameAsks(s, Tail(s))
         /\ \A p : ~Answers(Head(s), p) => SameAnswers(s, Tail(s), p)
<1>1. Head(s).type # "Request" => SameAsks(s, Tail(s))
  <2>1. ASSUME NEW p PROVE Head(s).type # "Request" => SameAsks(s, Tail(s))
    BY Taken
  <2> QED
    BY <2>1
<1>2. ASSUME NEW p PROVE ~Answers(Head(s), p) => SameAnswers(s, Tail(s), p)
  BY Taken
<1> QED
  BY <1>1, <1>2

LEMMA OnceRelease ==
  ASSUME TypeOK, OnceInv, losses = 0, NEW p \in Peer, Release(p)
  PROVE  OnceInv'
<1> DEFINE m == [type |-> "Release", of |-> p]
<1>1. /\ chan' = [chan EXCEPT ![p] = ToPeers(p, m)]
      /\ d_state' = [d_state EXCEPT ![p] = "AVAILABLE"]
      /\ UNCHANGED <<d_numPeersGrantingLock, d_peer, requests>>
  BY DEF Release, SendToPeers
<1>2. m \in Msg /\ m.type = "Release"
  BY DEF Msg
<1>3. \A x \in Peer : ~Answers(m, x)
  BY DEF Answers
<1> HIDE DEF m
<1>4. \A x, y \in Peer : chan[x][y] \in Seq(Msg)
  BY DEF TypeOK
<1>0. /\ \A b \in Peer : b # p => chan'[p][b] = Append(chan[p][b], m)
      /\ chan'[p][p] = chan[p][p]
      /\ \A a, b \in Peer : a # p => chan'[a][b] = chan[a][b]
  BY <1>1, Sent
<1>5. ASSUME NEW x \in Peer, NEW y \in Peer, x # y
      PROVE  /\ SameAsks(chan[x][y], chan'[x][y])
             /\ SameAnswers(chan[y][x], chan'[y][x], x)
  <2>1. SameAsks(chan[x][y], chan'[x][y])
    <3>1. CASE x = p
      <4>1. chan'[x][y] = Append(chan[x][y], m)
        BY <1>0, <1>5, <3>1
      <4> QED
        BY <1>2, <1>4, <4>1, AddedOther
    <3>2. CASE x # p
      <4>1. chan'[x][y] = chan[x][y]
        BY <1>0, <3>2
      <4> QED
        BY <4>1, SameSame
    <3> QED
      BY <3>1, <3>2
  <2>2. SameAnswers(chan[y][x], chan'[y][x], x)
    <3>1. CASE y = p
      <4>1. chan'[y][x] = Append(chan[y][x], m)
        BY <1>0, <1>5, <3>1
      <4> QED
        BY <1>2, <1>3, <1>4, <4>1, AddedOther
    <3>2. CASE y # p
      <4>1. chan'[y][x] = chan[y][x]
        BY <1>0, <3>2
      <4> QED
        BY <4>1, SameSame
    <3> QED
      BY <3>1, <3>2
  <2> QED
    BY <2>1, <2>2
<1>6. \A x \in Peer : chan'[x][x] = chan[x][x]
  BY <1>0
<1>7. \A x \in Peer : /\ d_state'[x] = "OURS" => d_state[x] = "OURS"
                      /\ Live(x)' =>
                           /\ Live(x)
                           /\ d_numPeersGrantingLock'[x] = d_numPeersGrantingLock[x]
  BY <1>1 DEF Live, TypeOK
<1> QED
  BY <1>1, <1>5, <1>6, <1>7, OnceQuiet

\* A release, or an answer to somebody else.
LEMMA OnceReadsOther ==
  ASSUME TypeOK, OnceInv, losses = 0, NEW q \in Peer, NEW p \in Peer,
         \/ HandleRelease(q, p)
         \/ Subject(q, p) # p /\ (HandleGrantRequest(q, p) \/ HandleDenyRequest(q, p))
  PROVE  OnceInv'
<1>1. /\ chan[q][p] # <<>> /\ chan' = Rest(q, p) /\ UNCHANGED <<d_peer, requests>>
      /\ UNCHANGED d_numPeersGrantingLock
      /\ d_state' = d_state \/ d_state' = [d_state EXCEPT ![p] = "AVAILABLE"]
      /\ Head(chan[q][p]).type # "Request" /\ ~Answers(Head(chan[q][p]), p)
  BY DEF HandleRelease, HandleGrantRequest, HandleDenyRequest, Reads, Subject, Answers
<1>2. q # p
  BY <1>1 DEF OnceInv
<1>3. \A x, y \in Peer : chan[x][y] \in Seq(Msg)
  BY DEF TypeOK
<1>4. ASSUME NEW x \in Peer, NEW y \in Peer, x # y
      PROVE  /\ SameAsks(chan[x][y], chan'[x][y])
             /\ SameAnswers(chan[y][x], chan'[y][x], x)
  <2>1. /\ chan'[q][p] = Tail(chan[q][p])
        /\ \A a, b \in Peer : a # q \/ b # p => chan'[a][b] = chan[a][b]
    BY <1>1, Read
  <2>2. SameAsks(chan[x][y], chan'[x][y])
    <3>1. CASE x = q /\ y = p
      BY <1>1, <1>3, <2>1, <3>1, TakenOther
    <3>2. CASE x # q \/ y # p
      <4>1. chan'[x][y] = chan[x][y]
        BY <2>1, <3>2
      <4> QED
        BY <4>1, SameSame
    <3> QED
      BY <3>1, <3>2
  <2>3. SameAnswers(chan[y][x], chan'[y][x], x)
    <3>1. CASE y = q /\ x = p
      BY <1>1, <1>3, <2>1, <3>1, TakenOther
    <3>2. CASE y # q \/ x # p
      <4>1. chan'[y][x] = chan[y][x]
        BY <2>1, <3>2
      <4> QED
        BY <4>1, SameSame
    <3> QED
      BY <3>1, <3>2
  <2> QED
    BY <2>2, <2>3
<1>5. \A x \in Peer : chan'[x][x] = chan[x][x]
  BY <1>1, <1>2, Read
<1>6. \A x \in Peer : /\ d_state'[x] = "OURS" => d_state[x] = "OURS"
                      /\ Live(x)' =>
                           /\ Live(x)
                           /\ d_numPeersGrantingLock'[x] = d_numPeersGrantingLock[x]
  BY <1>1 DEF Live, TypeOK
<1> QED
  BY <1>1, <1>4, <1>5, <1>6, OnceQuiet

\* The first request of p: nobody has granted it yet.
LEMMA OnceRequest ==
  ASSUME TypeOK, OnceInv, losses = 0, MaxRequest <= 1, NEW p \in Peer, Request(p)
  PROVE  OnceInv'
<1> DEFINE m == [type |-> "Request", of |-> p]
<1>1. /\ chan' = [chan EXCEPT ![p] = ToPeers(p, m)]
      /\ d_numPeersGrantingLock' = [d_numPeersGrantingLock EXCEPT ![p] = 0]
      /\ d_state' = [d_state EXCEPT ![p] = StateAfterCheck("REQUESTING", 0, numPeers(p))]
      /\ requests' = [requests EXCEPT ![p] = @ + 1]
      /\ requests[p] < MaxRequest /\ UNCHANGED d_peer
  BY DEF Request, SendToPeers, ResetGrants
<1>2. m \in Msg /\ m.type = "Request" /\ m.of = p
  BY DEF Msg
<1>3. \A x \in Peer : ~Answers(m, x)
  BY DEF Answers
<1> HIDE DEF m
<1>4. requests[p] = 0 /\ requests'[p] = 1 /\ \A x \in Peer : x # p => requests'[x] = requests[x]
  BY <1>1, PeerAssumption DEF TypeOK
<1>5. \A x, y \in Peer : chan[x][y] \in Seq(Msg)
  BY DEF TypeOK
<1>6. /\ \A y \in Peer : y # p => chan'[p][y] = Append(chan[p][y], m)
      /\ chan'[p][p] = chan[p][p]
      /\ \A x, y \in Peer : x # p => chan'[x][y] = chan[x][y]
  BY <1>1, Sent
<1>7. ASSUME NEW y \in Peer, y # p PROVE Exchange(p, y)' /\ ~GrantedBy(p, y)'
  <2>1. Through(p, y) /\ OneAnswer(chan[y][p], p)
    BY <1>4, <1>7 DEF OnceInv, Exchange
  <2>2. NoAsk(chan[p][y]) /\ NoAnswer(chan[y][p], p) /\ ~HasGrant(chan[y][p], p)
    BY <2>1, NoGrant DEF Through
  <2>3. /\ OneAsk(chan'[p][y]) /\ AsksFor(chan'[p][y], p) /\ ~NoAsk(chan'[p][y])
        /\ chan'[y][p] = chan[y][p]
    BY <1>2, <1>5, <1>6, <1>7, <2>2, Added
  <2> QED
    BY <1>4, <2>1, <2>2, <2>3 DEF Exchange, GrantedBy, Through
<1>8. ASSUME NEW x \in Peer, NEW y \in Peer, x # y, x # p
      PROVE  /\ Exchange(x, y)'
             /\ Through(x, y)' <=> Through(x, y)
             /\ GrantedBy(x, y)' <=> GrantedBy(x, y)
  <2>1. SameAsks(chan[x][y], chan'[x][y]) /\ SameAnswers(chan[y][x], chan'[y][x], x)
    <3>1. /\ chan'[x][y] = chan[x][y]
          /\ chan'[y][x] = chan[y][x] \/ chan'[y][x] = Append(chan[y][x], m)
      BY <1>6, <1>8
    <3> QED
      BY <1>2, <1>3, <1>5, <3>1, AddedOther, SameSame
  <2>2. Exchange(x, y) /\ requests'[x] = requests[x]
    BY <1>4, <1>8 DEF OnceInv
  <2> QED
    BY <2>1, <2>2, Untouched
<1>9. Counted(p)'
  <2>1. IsFiniteSet(Peer \ {p}) /\ Answered(p)' \subseteq Peer \ {p}
    BY PeerAssumption, FS_RemoveElement DEF Answered
  <2>2. Cardinality(Answered(p)') \in Nat
    BY <2>1, FS_Subset, FS_CardinalityType
  <2>3. d_numPeersGrantingLock'[p] <= Cardinality(Answered(p)') /\ requests'[p] # 0
    BY <1>1, <1>4, <2>2 DEF TypeOK
  <2>4. d_state'[p] = "OURS" => Answered(p)' = Peer \ {p}
    <3>1. d_state'[p] = "OURS" => numPeers(p) = 0
      BY <1>1 DEF StateAfterCheck, Wins, TypeOK
    <3>2. numPeers(p) = 0 => Peer \ {p} = {}
      BY <2>1, FS_EmptySet DEF numPeers, OnceInv
    <3> QED
      BY <2>1, <3>1, <3>2
  <2> QED
    BY <2>3, <2>4 DEF Counted
<1>10. ASSUME NEW x \in Peer, x # p
       PROVE  Counted(x)' /\ (Live(x)' <=> Live(x))
  <2>1. /\ d_state'[x] = d_state[x] /\ requests'[x] = requests[x]
        /\ d_numPeersGrantingLock'[x] = d_numPeersGrantingLock[x]
    BY <1>1, <1>4, <1>10 DEF TypeOK
  <2>2. Counted(x) /\ \A y \in Peer \ {x} : Through(x, y) => Through(x, y)'
    BY <1>8, <1>10 DEF OnceInv
  <2>3. Live(x)' <=> Live(x)
    BY <2>1 DEF Live
  <2> QED
    BY <2>1, <2>2, <2>3, CountedKept
<1>11. ASSUME NEW x \in Peer, NEW y \in Peer, x # y PROVE Exchange(x, y)' /\ Compete(x, y)'
  <2>1. CASE x = p \/ y = p
    BY <1>7, <1>8, <1>11, <2>1 DEF Compete
  <2>2. CASE x # p /\ y # p
    <3>1. Compete(x, y)
      BY <1>11 DEF OnceInv
    <3> QED
      BY <1>8, <1>10, <1>11, <2>2, <3>1 DEF Compete
  <2> QED
    BY <2>1, <2>2
<1>12. \A x \in Peer : d_peer'[x] = Peer \ {x} /\ chan'[x][x] = <<>>
  BY <1>1, <1>6 DEF OnceInv
<1> QED
  BY <1>9, <1>10, <1>11, <1>12 DEF OnceInv

\* p reads the request of q and answers it: the grant of q is p's, or it gets none.
LEMMA OnceReadsRequest ==
  ASSUME TypeOK, OnceInv, losses = 0, NEW q \in Peer, NEW p \in Peer, HandleRequest(q, p)
  PROVE  OnceInv'
<1>1. /\ chan[q][p] # <<>> /\ Head(chan[q][p]).type = "Request"
      /\ UNCHANGED <<d_numPeersGrantingLock, d_peer, requests>>
  BY DEF HandleRequest, Reads
<1>2. q # p
  BY <1>1 DEF OnceInv
<1>3. \A x, y \in Peer : chan[x][y] \in Seq(Msg)
  BY DEF TypeOK
<1>4. Exchange(q, p)
  BY <1>2 DEF OnceInv
<1>5. Subject(q, p) = q
  BY <1>1, <1>3, <1>4, Taken DEF Exchange, Subject
<1>6. PICK m \in {Yes(q), No(q)} :
        /\ chan' = [Rest(q, p) EXCEPT ![p] = ToPeers(p, m)]
        /\ \/ m = Yes(q) /\ d_state' = [d_state EXCEPT ![p] = "HELD_REMOTELY"]
           \/ m = No(q) /\ d_state' = d_state
  BY <1>5 DEF HandleRequest, Reply, Yes, No
<1>7. /\ m \in Msg /\ m.type # "Request" /\ m.of = q
      /\ \A x \in Peer : x # q => ~Answers(m, x)
      /\ m.type = "Grant" => ~Live(p)'
      /\ \A x \in Peer : /\ Live(x)' => Live(x)
                         /\ d_state'[x] = "OURS" => d_state[x] = "OURS"
  <2>1. d_state \in [Peer -> States]
    BY DEF TypeOK, States
  <2>2. m \in Msg /\ m.type # "Request" /\ m.of = q
    BY <1>6 DEF Msg, Yes, No
  <2>3. \A x \in Peer : x # q => ~Answers(m, x)
    BY <2>2 DEF Answers
  <2>4. CASE m = Yes(q) /\ d_state' = [d_state EXCEPT ![p] = "HELD_REMOTELY"]
    BY <2>1, <2>2, <2>3, <2>4 DEF Live
  <2>5. CASE m = No(q) /\ d_state' = d_state
    <3>1. m.type # "Grant"
      BY <2>5 DEF No
    <3> QED
      BY <2>2, <2>3, <2>5, <3>1 DEF Live
  <2> QED
    BY <1>6, <2>4, <2>5
<1>8. /\ chan'[q][p] = Tail(chan[q][p])
      /\ \A y \in Peer : y # p => chan'[p][y] = Append(chan[p][y], m)
      /\ chan'[p][p] = chan[p][p]
      /\ \A x, y \in Peer : x # p /\ (x # q \/ y # p) => chan'[x][y] = chan[x][y]
  BY <1>2, <1>6 DEF Rest, ToPeers, TypeOK, OnceInv
<1>9. Exchange(q, p)' /\ (GrantedBy(q, p)' => ~Live(p)')
  <2>1. /\ OneAsk(chan[q][p]) /\ AsksFor(chan[q][p], q) /\ ~NoAsk(chan[q][p])
        /\ NoAsk(chan'[q][p]) /\ OneAsk(chan'[q][p]) /\ AsksFor(chan'[q][p], q)
    BY <1>1, <1>3, <1>4, <1>8, Taken DEF Exchange
  <2>2. NoAnswer(chan[p][q], q)
    BY <1>4, <2>1 DEF Exchange
  <2>3. chan'[p][q] = Append(chan[p][q], m)
    BY <1>2, <1>8
  <2>4. /\ OneAnswer(chan'[p][q], q) /\ ~NoAnswer(chan'[p][q], q)
        /\ HasGrant(chan'[p][q], q) => m.type = "Grant"
    <3>1. Answers(m, q)
      BY <1>6 DEF Answers, Yes, No
    <3> QED
      BY <1>3, <1>7, <2>2, <2>3, <3>1, Added
  <2>5. requests'[q] # 0
    BY <1>1, <1>4, <2>1 DEF Exchange, Through
  <2> QED
    BY <1>7, <2>1, <2>4, <2>5 DEF Exchange, GrantedBy, Through
<1>10. ASSUME NEW x \in Peer, NEW y \in Peer, x # y, x # q \/ y # p
       PROVE  /\ Exchange(x, y)'
              /\ Through(x, y)' <=> Through(x, y)
              /\ GrantedBy(x, y)' <=> GrantedBy(x, y)
  <2>1. SameAsks(chan[x][y], chan'[x][y])
    <3>1. CASE x = p
      BY <1>3, <1>7, <1>8, <1>10, <3>1, AddedOther
    <3>2. CASE x # p
      <4>1. chan'[x][y] = chan[x][y]
        BY <1>8, <1>10, <3>2
      <4> QED
        BY <4>1, SameSame
    <3> QED
      BY <3>1, <3>2
  <2>2. SameAnswers(chan[y][x], chan'[y][x], x)
    <3>1. CASE y = p
      <4>1. x # q /\ ~Answers(m, x) /\ chan'[y][x] = Append(chan[y][x], m)
        BY <1>7, <1>8, <1>10, <3>1
      <4> QED
        BY <1>3, <1>7, <4>1, AddedOther
    <3>2. CASE y = q /\ x = p
      <4>1. ~Answers(Head(chan[q][p]), p)
        BY <1>1, <1>3, Taken
      <4> QED
        BY <1>1, <1>3, <1>8, <3>2, <4>1, TakenOther
    <3>3. CASE y # p /\ (y # q \/ x # p)
      <4>1. chan'[y][x] = chan[y][x]
        BY <1>8, <3>3
      <4> QED
        BY <4>1, SameSame
    <3> QED
      BY <3>1, <3>2, <3>3
  <2>3. Exchange(x, y) /\ requests'[x] = requests[x]
    BY <1>1, <1>10 DEF OnceInv
  <2> QED
    BY <2>1, <2>2, <2>3, Untouched
<1>11. ASSUME NEW x \in Peer PROVE Counted(x)'
  <2>1. \A y \in Peer \ {x} : Through(x, y) => Through(x, y)'
    <3>1. ~Through(q, p)
      BY <1>1, <1>3, Taken DEF Through
    <3> QED
      BY <1>10, <3>1
  <2>2. Counted(x)
    BY DEF OnceInv
  <2> QED
    <3>1. Live(x)' => /\ Live(x) /\ requests'[x] = requests[x]
                      /\ d_numPeersGrantingLock'[x] = d_numPeersGrantingLock[x]
      BY <1>1, <1>7
    <3>2. d_state'[x] = "OURS" => d_state[x] = "OURS"
      BY <1>7
    <3> QED
      BY <2>1, <2>2, <3>1, <3>2, CountedKept
<1>12. ASSUME NEW x \in Peer, NEW y \in Peer, x # y
       PROVE  /\ Exchange(x, y)'
              /\ GrantedBy(x, y)' => GrantedBy(x, y) \/ ~Live(x)' \/ ~Live(y)'
  BY <1>9, <1>10, <1>12
<1>13. \A x \in Peer : chan'[x][x] = chan[x][x]
  BY <1>2, <1>8
<1>14. \A x \in Peer : chan'[x][x] = chan[x][x] /\ Counted(x)' /\ (Live(x)' => Live(x))
  BY <1>7, <1>11, <1>13
<1> QED
  BY <1>1, <1>12, <1>14, OnceKept

\* p reads the answer of q to its request.
LEMMA OnceReadsAnswer ==
  ASSUME TypeOK, OnceInv, losses = 0, NEW q \in Peer, NEW p \in Peer, Subject(q, p) = p,
         HandleGrantRequest(q, p) \/ HandleDenyRequest(q, p)
  PROVE  OnceInv'
<1> DEFINE h == Head(chan[q][p])
           g == d_numPeersGrantingLock[p] + 1
<1>1. /\ chan[q][p] # <<>> /\ chan' = Rest(q, p) /\ UNCHANGED <<d_peer, requests>>
      /\ Answers(h, p) /\ h.of = p /\ h.type # "Request"
  BY DEF HandleGrantRequest, HandleDenyRequest, Reads, Subject, Answers
<1>2. \/ /\ h.type = "Deny"
         /\ d_state' = [d_state EXCEPT ![p] = "HELD_REMOTELY"]
         /\ \A x \in Peer : x # p => d_numPeersGrantingLock'[x] = d_numPeersGrantingLock[x]
      \/ /\ h.type = "Grant"
         /\ d_numPeersGrantingLock' = [d_numPeersGrantingLock EXCEPT ![p] = g]
         /\ d_state' = [d_state EXCEPT ![p] = StateAfterCheck(d_state[p], g, numPeers(p))]
  BY DEF HandleGrantRequest, HandleDenyRequest, Reads, Subject, TypeOK, ResetGrants
<1>3. q # p
  BY <1>1 DEF OnceInv
<1>4. \A x, y \in Peer : chan[x][y] \in Seq(Msg)
  BY DEF TypeOK
<1>5. Exchange(p, q)
  BY <1>3 DEF OnceInv
<1>6. /\ chan'[q][p] = Tail(chan[q][p])
      /\ \A x, y \in Peer : x # q \/ y # p => chan'[x][y] = chan[x][y]
  BY <1>1, Read
<1>7. /\ ~NoAnswer(chan[q][p], p) /\ OneAnswer(chan'[q][p], p) /\ NoAnswer(chan'[q][p], p)
      /\ h.type = "Grant" => HasGrant(chan[q][p], p)
  BY <1>1, <1>4, <1>5, <1>6, Taken DEF Exchange
<1>8. chan'[p][q] = chan[p][q]
  BY <1>3, <1>6
<1>9. Exchange(p, q)' /\ Through(p, q)' /\ ~Through(p, q)
  BY <1>1, <1>5, <1>7, <1>8 DEF Exchange, Through
<1>10. ASSUME NEW x \in Peer, NEW y \in Peer, x # y, x # p \/ y # q
       PROVE  /\ Exchange(x, y)'
              /\ Through(x, y)' <=> Through(x, y)
              /\ GrantedBy(x, y)' <=> GrantedBy(x, y)
  <2>1. SameAsks(chan[x][y], chan'[x][y])
    <3>1. CASE x = q /\ y = p
      BY <1>1, <1>4, <1>6, <3>1, TakenOther
    <3>2. CASE x # q \/ y # p
      <4>1. chan'[x][y] = chan[x][y]
        BY <1>6, <3>2
      <4> QED
        BY <4>1, SameSame
    <3> QED
      BY <3>1, <3>2
  <2>2. SameAnswers(chan[y][x], chan'[y][x], x)
    <3>1. chan'[y][x] = chan[y][x]
      BY <1>6, <1>10
    <3> QED
      BY <3>1, SameSame
  <2>3. Exchange(x, y) /\ requests'[x] = requests[x]
    BY <1>1, <1>10 DEF OnceInv
  <2> QED
    BY <2>1, <2>2, <2>3, Untouched
<1>11. ASSUME NEW x \in Peer, x # p PROVE Counted(x)' /\ (Live(x)' <=> Live(x))
  <2>1. /\ d_state'[x] = d_state[x] /\ requests'[x] = requests[x]
        /\ d_numPeersGrantingLock'[x] = d_numPeersGrantingLock[x]
    BY <1>1, <1>2, <1>11 DEF TypeOK
  <2>2. Counted(x) /\ \A y \in Peer \ {x} : Through(x, y) => Through(x, y)'
    BY <1>10, <1>11 DEF OnceInv
  <2>3. Live(x)' <=> Live(x)
    BY <2>1 DEF Live
  <2> QED
    BY <2>1, <2>2, <2>3, CountedKept
<1>12. Live(p)' => h.type = "Grant" /\ Live(p)
  BY <1>2 DEF Live, StateAfterCheck, Wins, TypeOK
<1>13. Counted(p)'
  <2>1. CASE ~Live(p)'
    BY <2>1 DEF Counted, Live
  <2>2. CASE Live(p)'
    <3>1. Counted(p) /\ Live(p) /\ h.type = "Grant" /\ d_peer[p] = Peer \ {p}
      BY <1>12, <2>2 DEF OnceInv
    <3>2. IsFiniteSet(Peer \ {p})
      BY PeerAssumption, FS_RemoveElement
    <3>3. Answered(p) \subseteq Peer \ {p} /\ q \notin Answered(p)
      BY <1>9 DEF Answered
    <3>4. Answered(p)' = Answered(p) \cup {q}
      <4>1. \A y \in Peer \ {p} : y # q => (Through(p, y)' <=> Through(p, y))
        BY <1>10
      <4> QED
        BY <1>3, <1>9, <4>1 DEF Answered
    <3>5. IsFiniteSet(Answered(p))
      BY <3>2, <3>3, FS_Subset
    <3>6. /\ Cardinality(Answered(p)') = Cardinality(Answered(p)) + 1
          /\ Cardinality(Answered(p)) \in Nat
      BY <3>3, <3>4, <3>5, FS_AddElement, FS_CardinalityType
    <3>7. /\ d_numPeersGrantingLock'[p] = g /\ g <= Cardinality(Answered(p)')
          /\ d_numPeersGrantingLock[p] \in Nat
      BY <1>2, <3>1, <3>6 DEF Counted, TypeOK
    <3>8. requests'[p] # 0
      BY <1>1, <3>1 DEF Counted
    <3>9. d_state'[p] = "OURS" => Answered(p)' = Peer \ {p}
      <4> SUFFICES ASSUME d_state'[p] = "OURS" PROVE Answered(p)' = Peer \ {p}
        OBVIOUS
      <4>1. d_state[p] = "OURS" \/ g = Cardinality(Peer \ {p})
        BY <1>2, <3>1 DEF StateAfterCheck, Wins, TypeOK, numPeers
      <4>2. Answered(p)' \subseteq Peer \ {p}
        BY <1>3, <3>3, <3>4
      <4>3. CASE d_state[p] = "OURS"
        BY <3>1, <3>4, <4>2, <4>3 DEF Counted
      <4>4. CASE g = Cardinality(Peer \ {p})
        <5>1. /\ Cardinality(Answered(p)') <= Cardinality(Peer \ {p})
              /\ Cardinality(Answered(p)') = Cardinality(Peer \ {p}) =>
                   Answered(p)' = Peer \ {p}
          BY <3>2, <4>2, FS_Subset
        <5>2. Cardinality(Answered(p)') \in Nat
          BY <3>6
        <5> QED
          BY <3>6, <3>7, <4>4, <5>1, <5>2
      <4> QED
        BY <4>1, <4>3, <4>4
    <3> QED
      BY <3>7, <3>8, <3>9 DEF Counted
  <2> QED
    BY <2>1, <2>2
<1>14. Live(p)' => GrantedBy(p, q)
  BY <1>7, <1>12 DEF GrantedBy
<1>15. ASSUME NEW x \in Peer, NEW y \in Peer, x # y
       PROVE  /\ Exchange(x, y)'
              /\ GrantedBy(x, y)' => GrantedBy(x, y) \/ ~Live(x)' \/ ~Live(y)'
  BY <1>9, <1>10, <1>14, <1>15
<1>16. \A x \in Peer : chan'[x][x] = chan[x][x] /\ Counted(x)' /\ (Live(x)' => Live(x))
  BY <1>3, <1>6, <1>11, <1>12, <1>13
<1> QED
  BY <1>1, <1>15, <1>16, OnceKept

LEMMA OnceStep == MaxRequest <= 1 => (TypeOK /\ OnceInv /\ [Next]_vars => OnceInv')
<1> SUFFICES ASSUME MaxRequest <= 1, TypeOK, OnceInv, [Next]_vars, losses' = 0 PROVE OnceInv'
  BY DEF OnceInv
<1>1. losses = 0
  <2>1. losses' # losses => losses' # 0
    BY LostSome DEF Next, Work, Handle, Request, Release, HandleRequest, HandleRelease,
       HandleGrantRequest, HandleDenyRequest, vars
  <2> QED
    BY <2>1
<1>2. ASSUME NEW p \in Peer, Request(p) PROVE OnceInv'
  BY <1>1, <1>2, OnceRequest
<1>3. ASSUME NEW p \in Peer, Release(p) PROVE OnceInv'
  BY <1>1, <1>3, OnceRelease
<1>4. ASSUME NEW p \in Peer, NEW q \in Peer, Handle(q, p) PROVE OnceInv'
  <2>1. CASE HandleRequest(q, p)
    BY <1>1, <2>1, OnceReadsRequest
  <2>2. CASE HandleRelease(q, p)
    BY <1>1, <2>2, OnceReadsOther
  <2>3. CASE HandleGrantRequest(q, p) \/ HandleDenyRequest(q, p)
    <3>1. CASE Subject(q, p) = p
      BY <1>1, <2>3, <3>1, OnceReadsAnswer
    <3>2. CASE Subject(q, p) # p
      BY <1>1, <2>3, <3>2, OnceReadsOther
    <3> QED
      BY <3>1, <3>2
  <2> QED
    BY <1>4, <2>1, <2>2, <2>3 DEF Handle
<1>5. ASSUME NEW p \in Peer, NEW lost \in SUBSET d_peer[p], LosePeers(p, lost)
      PROVE  OnceInv'
  BY <1>5, LostSome
<1>6. CASE UNCHANGED vars
  <2>1. UNCHANGED <<d_state, d_numPeersGrantingLock, d_peer, chan, requests>>
    BY <1>6 DEF vars
  <2>2. \A x, y \in Peer : /\ SameAsks(chan[x][y], chan'[x][y])
                           /\ SameAnswers(chan[y][x], chan'[y][x], x)
    BY <2>1, SameSame
  <2>3. \A x \in Peer : /\ chan'[x][x] = chan[x][x] /\ d_state'[x] = d_state[x]
                        /\ d_numPeersGrantingLock'[x] = d_numPeersGrantingLock[x]
                        /\ Live(x)' <=> Live(x)
    BY <2>1 DEF Live
  <2> QED
    BY <1>1, <2>1, <2>2, <2>3, OnceQuiet
<1> QED
  BY <1>2, <1>3, <1>4, <1>5, <1>6 DEF Next, Work

LEMMA OnceInit == Init => OnceInv
<1> SUFFICES ASSUME Init PROVE OnceInv
  OBVIOUS
<1>1. \A p, q \in Peer : chan[p][q] = <<>> /\ requests[p] = 0 /\ ~Live(p)
  BY DEF Init, Live
<1>2. \A p \in Peer : Counted(p) /\ d_peer[p] = Peer \ {p}
  BY <1>1 DEF Init, Counted, Live
<1>3. ASSUME NEW p \in Peer, NEW q \in Peer PROVE Exchange(p, q) /\ Compete(p, q)
  <2>1. chan[p][q] = <<>> /\ chan[q][p] = <<>> /\ Len(<<>>) = 0
    BY <1>1
  <2>2. 1 .. 0 = {}
    OBVIOUS
  <2>3. Exchange(p, q)
    BY <2>1, <2>2 DEF Exchange, Through, OneAsk, AsksFor, OneAnswer, NoAsk, NoAnswer
  <2> QED
    BY <1>1, <2>3 DEF Compete
<1> QED
  BY <1>1, <1>2, <1>3 DEF OnceInv

\* Of any number of peers at most one owns the lock as long as each has asked for it at most
\* once and no connection was lost, in whatever order their requests and the answers to them
\* are read: one of two that clash has the lower address, and denies the other's request.
THEOREM OnceExclude == MaxRequest <= 1 => (Spec => []ExclusionUntilLoss)
<1> SUFFICES ASSUME MaxRequest <= 1 PROVE Spec => []ExclusionUntilLoss
  OBVIOUS
<1>1. OnceInv => ExclusionUntilLoss
  <2> SUFFICES ASSUME OnceInv, losses = 0, NEW p \in Peer, NEW q \in Peer,
                      d_state[p] = "OURS", d_state[q] = "OURS", p # q
               PROVE  FALSE
    BY DEF ExclusionUntilLoss, MutualExclusion
  <2>1. Through(p, q) /\ Through(q, p)
    BY DEF OnceInv, Counted, Answered
  <2> QED
    BY <2>1 DEF OnceInv, Compete, Live, GrantedBy
<1>2. TypeOK /\ OnceInv /\ [Next]_vars => OnceInv'
  BY OnceStep
<1> QED
  BY <1>1, <1>2, OnceInit, TypeInit, TypeStep, PTL DEF Spec
=============================================================================
