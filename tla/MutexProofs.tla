----------------------------- MODULE MutexProofs -----------------------------
(***************************************************************************)
(* Theorems about Mutex, for any number of sessions, requests and faults.  *)
(*                                                                         *)
(* Types hold for any remotes.  Mutual exclusion is for remotes that live  *)
(* in processes of their own: the lock is a token that is in at most one   *)
(* place, in a GrantRequest on its way to the remote it names, in the      *)
(* state of a remote, or in a Release on its way to the server, and in     *)
(* none while the server says FREE.  That no GrantRequest becomes a token  *)
(* late (when a remote takes an index) needs the indexes to be known: who  *)
(* has been issued what.  Where connections never break, every remote that *)
(* settles learns that the lock is free: what the server has said last is  *)
(* still on its way to it, or it has acted on it.                          *)
(***************************************************************************)
EXTENDS Mutex, SequenceTheorems, TLAPS

-----------------------------------------------------------------------------
(* Types. *)

ToServerQueues == [Conn -> Seq(ToServerMsg)]
ToClientQueues == [Remote -> Seq(ToClientMsg)]

LEMMA SendTyped ==
  ASSUME TypeOK, NEW r \in Remote, NEW m \in ToServerMsg, Send(r, m)
  PROVE  toServer' \in ToServerQueues
<1>1. CASE r \in cUp
  <2>1. Link(r) \in Conn
    BY <1>1, BoundAssumption DEF Link, Conn, Session, TypeOK
  <2> QED
    BY <1>1, <2>1 DEF Send, TypeOK, ToServerQueues
<1>2. CASE r \notin cUp
  BY <1>2 DEF Send, TypeOK, ToServerQueues
<1> QED
  BY <1>1, <1>2

LEMMA BroadcastTyped ==
  ASSUME TypeOK, NEW m \in ToClientMsg, Broadcast(m)
  PROVE  toClient' \in ToClientQueues
BY DEF Broadcast, TypeOK, ToClientQueues

LEMMA PopTyped ==
  ASSUME TypeOK, NEW c \in Conn, toServer[c] # <<>>, Pop(c)
  PROVE  toServer' \in ToServerQueues /\ Head(toServer[c]) \in ToServerMsg
BY DEF Pop, TypeOK, ToServerQueues

LEMMA TakeTyped ==
  ASSUME TypeOK, NEW r \in Remote, toClient[r] # <<>>, Take(r)
  PROVE  toClient' \in ToClientQueues /\ Head(toClient[r]) \in ToClientMsg
BY DEF Take, TypeOK, ToClientQueues

LEMMA CutTyped ==
  ASSUME NEW S, NEW q \in Seq(S), NEW n \in 0..Len(q)
  PROVE  /\ Cut(q, n) \in Seq(S) /\ Len(Cut(q, n)) = n
         /\ \A i \in 1..n : Cut(q, n)[i] = q[i]
BY DEF Cut

LEMMA MessagesTyped ==
  /\ ReleaseMsg \in ToServerMsg /\ ReleaseNotification \in ToClientMsg
  /\ \A p \in Process : RequestIndex(p) \in ToServerMsg
  /\ \A i \in Nat : /\ RequestMutex(i) \in ToServerMsg
                    /\ GrantRequest(i) \in ToClientMsg
                    /\ DenyRequest(i) \in ToClientMsg
  /\ \A p \in Process, i \in Nat : Initialize(p, i) \in ToClientMsg
BY DEF ReleaseMsg, ReleaseNotification, RequestIndex, RequestMutex, GrantRequest,
       DenyRequest, Initialize, ToServerMsg, ToClientMsg

LEMMA TypeInit == Init => TypeOK
<1>1. Init => forgot \in BOOLEAN
  BY Zenon DEF Init
<1> QED
  BY <1>1, BoundAssumption DEF Init, TypeOK

LEMMA TypeUser ==
  ASSUME TypeOK, NEW r \in Remote, UserStep(r)
  PROVE  TypeOK'
<1> USE DEF TypeOK, server, remotes, links, bounds
<1>1. CASE Request(r)
  <2>1. CASE d_myIndex[r] = -1
    BY <1>1, <2>1 DEF Request, SendRequest
  <2>2. CASE d_myIndex[r] # -1
    <3>1. SendRequest(r, d_myIndex[r]) /\ UNCHANGED d_requestBeforeInit
      BY <1>1, <2>2 DEF Request
    <3>2. RequestMutex(d_myIndex[r]) \in ToServerMsg
      BY <2>2, MessagesTyped
    <3>3. toServer' \in ToServerQueues
      BY <3>1, <3>2, SendTyped DEF SendRequest
    <3> QED
      BY <1>1, <3>1, <3>3 DEF Request, SendRequest, ToServerQueues
  <2> QED
    BY <2>1, <2>2
<1>2. CASE Release(r)
  <2>1. toServer' \in ToServerQueues
    BY <1>2, SendTyped, MessagesTyped DEF Release
  <2> QED
    BY <1>2, <2>1 DEF Release, ToServerQueues
<1> QED
  BY <1>1, <1>2 DEF UserStep

LEMMA TypeServer ==
  ASSUME TypeOK, NEW c \in Conn, ServerStep(c)
  PROVE  TypeOK'
<1> USE DEF TypeOK, server, remotes, links, bounds
<1>0. toServer' \in ToServerQueues /\ Head(toServer[c]) \in ToServerMsg
  BY PopTyped DEF ServerStep, HandleRequestIndex, HandleRequestMutex,
                  HandleRelease, ServerReads
<1>1. CASE HandleRequestIndex(c)
  <2> DEFINE p == Head(toServer[c]).proc
  <2>1. p \in Process
    BY <1>0, <1>1 DEF HandleRequestIndex, ServerReads, ToServerMsg, ReleaseMsg
  <2>2. Broadcast(Initialize(p, d_remoteIndex)) /\ issued' = Append(issued, p)
    BY <1>1 DEF HandleRequestIndex
  <2>3. toClient' \in ToClientQueues
    BY <2>1, <2>2, MessagesTyped, BroadcastTyped
  <2>4. issued' \in Seq(Process)
    BY <2>1, <2>2
  <2> QED
    BY <1>0, <1>1, <2>3, <2>4 DEF HandleRequestIndex, ToClientQueues, ToServerQueues
<1>2. CASE HandleRequestMutex(c)
  <2> DEFINE i == Head(toServer[c]).index
  <2>1. i \in Nat
    BY <1>0, <1>2 DEF HandleRequestMutex, ServerReads, ToServerMsg, ReleaseMsg
  <2>2. CASE srvState = "FREE"
    <3>1. Broadcast(GrantRequest(i)) /\ srvState' = "HELD"
      BY <1>2, <2>2 DEF HandleRequestMutex
    <3>2. toClient' \in ToClientQueues
      BY <2>1, <3>1, MessagesTyped, BroadcastTyped
    <3> QED
      BY <1>0, <1>2, <3>1, <3>2 DEF HandleRequestMutex, ToClientQueues, ToServerQueues
  <2>3. CASE srvState # "FREE"
    <3>1. Broadcast(DenyRequest(i)) /\ srvState' = srvState
      BY <1>2, <2>3 DEF HandleRequestMutex
    <3>2. toClient' \in ToClientQueues
      BY <2>1, <3>1, MessagesTyped, BroadcastTyped
    <3> QED
      BY <1>0, <1>2, <3>1, <3>2 DEF HandleRequestMutex, ToClientQueues, ToServerQueues
  <2> QED
    BY <2>2, <2>3
<1>3. CASE HandleRelease(c)
  <2>1. toClient' \in ToClientQueues
    BY <1>3, MessagesTyped, BroadcastTyped DEF HandleRelease
  <2> QED
    BY <1>0, <1>3, <2>1 DEF HandleRelease, ToClientQueues, ToServerQueues
<1> QED
  BY <1>1, <1>2, <1>3 DEF ServerStep

LEMMA TypeRemote ==
  ASSUME TypeOK, NEW r \in Remote, RemoteStep(r)
  PROVE  TypeOK'
<1> USE DEF TypeOK, server, remotes, links, bounds
<1>0. toClient' \in ToClientQueues /\ Head(toClient[r]) \in ToClientMsg
  BY TakeTyped DEF RemoteStep, HandleInitialize, HandleGrantRequest,
                   HandleDenyRequest, HandleReleaseNotification, RemoteReads
<1>1. CASE HandleInitialize(r)
  <2> DEFINE m == Head(toClient[r])
  <2>1. m.index \in Nat
    BY <1>0, <1>1 DEF HandleInitialize, RemoteReads, ToClientMsg, ReleaseNotification
  <2>2. CASE Mine(r, m) /\ d_requestBeforeInit[r] /\ state[r] = "AVAILABLE"
    <3>1. SendRequest(r, m.index) /\ d_myIndex' = [d_myIndex EXCEPT ![r] = m.index]
      BY <1>1, <2>2 DEF HandleInitialize
    <3>2. toServer' \in ToServerQueues
      BY <2>1, <3>1, SendTyped, MessagesTyped DEF SendRequest
    <3> QED
      BY SMTT(30), <1>0, <1>1, <2>1, <3>1, <3>2
         DEF HandleInitialize, SendRequest, ToClientQueues, ToServerQueues
  <2>3. CASE Mine(r, m) /\ ~(d_requestBeforeInit[r] /\ state[r] = "AVAILABLE")
    <3>1. /\ d_myIndex' = [d_myIndex EXCEPT ![r] = m.index]
          /\ UNCHANGED <<state, sent, toServer>>
      BY <1>1, <2>3 DEF HandleInitialize
    <3> QED
      BY <1>0, <1>1, <2>1, <3>1 DEF HandleInitialize, ToClientQueues
  <2>4. CASE ~Mine(r, m)
    <3>1. UNCHANGED <<d_myIndex, state, sent, toServer>>
      BY <1>1, <2>4 DEF HandleInitialize
    <3> QED
      BY <1>0, <1>1, <3>1 DEF HandleInitialize, ToClientQueues
  <2> QED
    BY <2>2, <2>3, <2>4
<1>2. CASE HandleGrantRequest(r)
  <2>1. answered' \in [Remote -> Nat]
    BY <1>2 DEF HandleGrantRequest, CountAnswer
  <2>2. state' \in [Remote -> {"OURS", "REQUESTING", "AVAILABLE", "HELD_REMOTELY"}]
    BY <1>2 DEF HandleGrantRequest
  <2> QED
    BY <1>0, <1>2, <2>1, <2>2 DEF HandleGrantRequest, ToClientQueues
<1>3. CASE HandleDenyRequest(r)
  <2>1. answered' \in [Remote -> Nat]
    BY <1>3 DEF HandleDenyRequest, CountAnswer
  <2>2. state' \in [Remote -> {"OURS", "REQUESTING", "AVAILABLE", "HELD_REMOTELY"}]
    BY <1>3 DEF HandleDenyRequest
  <2> QED
    BY <1>0, <1>3, <2>1, <2>2 DEF HandleDenyRequest, ToClientQueues
<1>4. CASE HandleReleaseNotification(r)
  BY <1>0, <1>4 DEF HandleReleaseNotification, ToClientQueues
<1> QED
  BY <1>1, <1>2, <1>3, <1>4 DEF RemoteStep

LEMMA TypeConnect ==
  ASSUME TypeOK, NEW r \in Remote, Connect(r)
  PROVE  TypeOK'
<1> USE DEF TypeOK, server, remotes, links, bounds
<1> DEFINE c == <<r, session[r] + 1>>
<1>1. c \in Conn
  BY BoundAssumption DEF Connect, Conn, Session
<1>2. RequestIndex(procOf[r]) \in ToServerMsg
  BY MessagesTyped, ProcOfAssumption
<1>3. toServer' \in ToServerQueues
  BY <1>1, <1>2 DEF Connect, ToServerQueues
<1>4. session' \in [Remote -> 0..MaxSession] /\ \A s \in cUp' : session'[s] # 0
  BY BoundAssumption DEF Connect
<1>5. /\ srvUp' = srvUp \cup {c} /\ cUp' = cUp \cup {r}
      /\ numConnected' = numConnected + 1
  BY DEF Connect
<1>6. /\ srvUp \subseteq Conn /\ cUp \subseteq Remote /\ numConnected \in Int
  OBVIOUS
<1>7. srvUp' \subseteq Conn
  <2> HIDE DEF c
  <2> QED
    BY <1>1, <1>5, <1>6, Zenon
<1>8. cUp' \subseteq Remote
  BY <1>5, <1>6, Zenon
<1>9. numConnected' \in Int
  BY <1>5, <1>6
<1>10. UNCHANGED <<srvState, d_remoteIndex, issued, forgot, remotes, bounds,
                   toClient>>
  BY DEF Connect
<1> QED
  BY <1>3, <1>4, <1>7, <1>8, <1>9, <1>10 DEF ToServerQueues

\* The count of endpoints and what the Mutex_Server makes of it.
LEMMA TypeCountDrop ==
  ASSUME TypeOK, CountDrop
  PROVE  /\ srvState' \in {"FREE", "HELD"} /\ d_remoteIndex' \in Nat
         /\ numConnected' \in Int /\ issued' \in Seq(Process)
         /\ forgot' \in BOOLEAN
<1>1. CASE numConnected = 1
  <2>1. forgot' \in BOOLEAN
    BY <1>1, Zenon DEF CountDrop
  <2> QED
    BY <1>1, <2>1 DEF CountDrop, TypeOK
<1>2. CASE numConnected # 1
  BY <1>2 DEF CountDrop, TypeOK
<1> QED
  BY <1>1, <1>2

LEMMA TypeFault ==
  ASSUME TypeOK, Fault
  PROVE  TypeOK'
<1> USE DEF TypeOK, server, remotes, links, bounds
<1>1. ASSUME NEW r \in Remote, ClientDrop(r) PROVE TypeOK'
  <2>1. faults' \in Nat
    BY <1>1 DEF ClientDrop, CountBreak, CountFault
  <2>2. Link(r) \in Conn
    BY <1>1, BoundAssumption DEF ClientDrop, Link, Conn, Session
  <2>3. PICK n \in 0..Len(toServer[Link(r)]) :
          toServer' = [toServer EXCEPT ![Link(r)] = Cut(@, n)]
    BY <1>1 DEF ClientDrop
  <2>4. Cut(toServer[Link(r)], n) \in Seq(ToServerMsg)
    BY <2>2, CutTyped
  <2>5. toServer' \in ToServerQueues
    BY <2>2, <2>3, <2>4 DEF ToServerQueues
  <2>6. toClient' \in ToClientQueues
    BY <1>1 DEF ClientDrop, ToClientQueues
  <2> QED
    BY <1>1, <2>1, <2>5, <2>6 DEF ClientDrop, ToServerQueues, ToClientQueues
<1>2. ASSUME NEW c \in Conn, ServerDrop(c) PROVE TypeOK'
  <2>1. faults' \in Nat
    BY <1>2 DEF ServerDrop, CountBreak, CountFault
  <2>2. CASE Live(c)
    <3>1. c[1] \in Remote
      BY DEF Conn
    <3>2. PICK n \in 0..Len(toClient[c[1]]) :
            toClient' = [toClient EXCEPT ![c[1]] = Cut(@, n)]
      BY <1>2, <2>2 DEF ServerDrop
    <3>3. Cut(toClient[c[1]], n) \in Seq(ToClientMsg)
      BY <3>1, CutTyped
    <3>4. toClient' \in ToClientQueues
      BY <3>1, <3>2, <3>3 DEF ToClientQueues
    <3> QED
      BY SMTT(30), <1>2, <2>1, <3>4, TypeCountDrop DEF ServerDrop, ToClientQueues
  <2>3. CASE ~Live(c)
    <3>1. toClient' = toClient
      BY <1>2, <2>3 DEF ServerDrop
    <3> QED
      BY <1>2, <2>1, <3>1, TypeCountDrop DEF ServerDrop
  <2> QED
    BY <2>2, <2>3
<1>3. ASSUME FailedHandshake PROVE TypeOK'
  BY <1>3, TypeCountDrop DEF FailedHandshake, CountFault
<1>4. ASSUME ServerRestart PROVE TypeOK'
  <2>1. forgot' \in BOOLEAN
    BY <1>4, Zenon DEF ServerRestart
  <2> QED
    BY <1>4, <2>1 DEF ServerRestart, CountFault
<1> QED
  BY <1>1, <1>2, <1>3, <1>4 DEF Fault

LEMMA TypeStep == TypeOK /\ [Next]_vars => TypeOK'
<1> SUFFICES ASSUME TypeOK, [Next]_vars PROVE TypeOK'
  OBVIOUS
<1>1. CASE Next
  BY <1>1, TypeUser, TypeServer, TypeRemote, TypeConnect, TypeFault DEF Next, Work
<1>2. CASE UNCHANGED vars
  BY <1>2 DEF vars, server, remotes, links, bounds, TypeOK
<1> QED
  BY <1>1, <1>2

\* Every variable keeps its type, for any remotes, requests and faults.
THEOREM TypeCorrect == Spec => []TypeOK
BY TypeInit, TypeStep, PTL DEF Spec

OneRemotePerProcess ==
  \A r, s \in Remote : procOf[r] = procOf[s] => r = s

-----------------------------------------------------------------------------
(* The inductive invariant. *)

\* Where r's token may be: place 0, 0 is its state, place 0, i the i-th
\* message to it, place k, i the i-th message from its session k.
TokenAt(r, k, i) == \/ k = 0 /\ i = 0 /\ state[r] = "OURS"
                    \/ k = 0 /\ GrantAt(r, i)
                    \/ ReleaseAt(r, k, i)

OneToken ==
  \A r, s \in Remote : \A k, l, i, j \in Nat :
    TokenAt(r, k, i) /\ TokenAt(s, l, j) => r = s /\ k = l /\ i = j

NoToken == \A r \in Remote : \A k, i \in Nat : ~TokenAt(r, k, i)

Issued(n, p) == n < Len(issued) /\ issued[n + 1] = p

IndexesKnown ==
  /\ d_remoteIndex = Len(issued)
  /\ \A r \in Remote : d_myIndex[r] # -1 => Issued(d_myIndex[r], procOf[r])

InitializesKnown ==
  \A r \in Remote : \A i \in 1..Len(toClient[r]) : \A p \in Process, n \in Nat :
    toClient[r][i] = Initialize(p, n) => Issued(n, p)

GrantsKnown ==
  \A r \in Remote : \A i \in 1..Len(toClient[r]) : \A n \in Nat :
    toClient[r][i] = GrantRequest(n) => \E s \in Remote : d_myIndex[s] = n

RequestsKnown ==
  \A r \in Remote, k \in Session :
    \A i \in 1..Len(toServer[<<r, k>>]) : \A n \in Nat :
      toServer[<<r, k>>][i] = RequestMutex(n) => d_myIndex[r] = n

Known == IndexesKnown /\ InitializesKnown /\ GrantsKnown /\ RequestsKnown

TokenKept == OneToken /\ (srvState = "FREE" => NoToken)

Tracked == Known /\ TokenKept

SafetyInv == ~forgot => Tracked

HasToken(r) == \E k, i \in Nat : TokenAt(r, k, i)

\* What a step may do to a lock the server has given out: the remote that has
\* the token may lose it, and the server frees the lock only while one has it.
LockMoves ==
  /\ srvState = "HELD" /\ srvState' = "HELD" =>
       \A r \in Remote : HasToken(r)' => HasToken(r)
  /\ srvState = "HELD" /\ srvState' = "FREE" => \E r \in Remote : HasToken(r)

-----------------------------------------------------------------------------
(* Messages are told apart by their type and fields. *)

LEMMA ToClientForms ==
  ASSUME NEW m \in ToClientMsg
  PROVE  /\ m.type = "Initialize" =>
              /\ m.proc \in Process /\ m.index \in Nat
              /\ m = Initialize(m.proc, m.index)
         /\ m.type = "GrantRequest" => m.index \in Nat /\ m = GrantRequest(m.index)
         /\ m.type = "DenyRequest" => m.index \in Nat /\ m = DenyRequest(m.index)
         /\ m.type = "ReleaseNotification" => m = ReleaseNotification
BY DEF ToClientMsg, Initialize, GrantRequest, DenyRequest, ReleaseNotification

LEMMA ToServerForms ==
  ASSUME NEW m \in ToServerMsg
  PROVE  /\ m.type = "RequestIndex" => m.proc \in Process /\ m = RequestIndex(m.proc)
         /\ m.type = "RequestMutex" => m.index \in Nat /\ m = RequestMutex(m.index)
         /\ m.type = "Release" => m = ReleaseMsg
BY DEF ToServerMsg, RequestIndex, RequestMutex, ReleaseMsg

LEMMA ToClientDiffer ==
  ASSUME NEW p, NEW n, NEW q, NEW k
  PROVE  /\ Initialize(p, n) # GrantRequest(k) /\ Initialize(p, n) # DenyRequest(k)
         /\ Initialize(p, n) # ReleaseNotification
         /\ GrantRequest(n) # DenyRequest(k) /\ GrantRequest(n) # ReleaseNotification
         /\ Initialize(p, n) = Initialize(q, k) => p = q /\ n = k
         /\ GrantRequest(n) = GrantRequest(k) => n = k
BY DEF Initialize, GrantRequest, DenyRequest, ReleaseNotification

LEMMA ToServerDiffer ==
  ASSUME NEW p, NEW n, NEW k
  PROVE  /\ RequestIndex(p) # RequestMutex(n) /\ RequestIndex(p) # ReleaseMsg
         /\ RequestMutex(n) # ReleaseMsg
         /\ RequestMutex(n) = RequestMutex(k) => n = k
BY DEF RequestIndex, RequestMutex, ReleaseMsg

-----------------------------------------------------------------------------
(* What a step makes of the queues. *)

LEMMA Broadcasted ==
  ASSUME TypeOK, NEW m \in ToClientMsg, Broadcast(m), NEW r \in Remote,
         NEW i \in 1..Len(toClient'[r])
  PROVE  \/ i \in 1..Len(toClient[r]) /\ toClient'[r][i] = toClient[r][i]
         \/ i = Len(toClient[r]) + 1 /\ toClient'[r][i] = m
BY DEF Broadcast, TypeOK

LEMMA Taken ==
  ASSUME TypeOK, NEW s \in Remote, toClient[s] # <<>>, Take(s)
  PROVE  /\ \A r \in Remote \ {s} : toClient'[r] = toClient[r]
         /\ Head(toClient[s]) = toClient[s][1] /\ 1 \in 1..Len(toClient[s])
         /\ \A i \in 1..Len(toClient'[s]) :
              i + 1 \in 1..Len(toClient[s]) /\ toClient'[s][i] = toClient[s][i + 1]
BY DEF Take, TypeOK

LEMMA Sent ==
  ASSUME TypeOK, NEW s \in Remote, NEW m \in ToServerMsg, Send(s, m),
         NEW c \in Conn, NEW i \in 1..Len(toServer'[c])
  PROVE  \/ i \in 1..Len(toServer[c]) /\ toServer'[c][i] = toServer[c][i]
         \/ /\ c = Link(s) /\ i = Len(toServer[c]) + 1
            /\ toServer'[c][i] = m
<1>1. CASE s \in cUp
  <2>1. toServer' = [toServer EXCEPT ![Link(s)] = Append(@, m)]
    BY <1>1 DEF Send
  <2>2. toServer \in [Conn -> Seq(ToServerMsg)]
    BY DEF TypeOK
  <2> QED
    BY <2>1, <2>2
<1>2. CASE s \notin cUp
  BY <1>2 DEF Send
<1> QED
  BY <1>1, <1>2

LEMMA Popped ==
  ASSUME TypeOK, NEW c \in Conn, toServer[c] # <<>>, Pop(c)
  PROVE  /\ \A d \in Conn \ {c} : toServer'[d] = toServer[d]
         /\ Head(toServer[c]) = toServer[c][1] /\ 1 \in 1..Len(toServer[c])
         /\ \A i \in 1..Len(toServer'[c]) :
              i + 1 \in 1..Len(toServer[c]) /\ toServer'[c][i] = toServer[c][i + 1]
BY DEF Pop, TypeOK

-----------------------------------------------------------------------------
(* Steps that bring no news, and steps that only move the token. *)

OldToClient ==
  \A r \in Remote : \A i \in 1..Len(toClient'[r]) :
    \/ \E j \in 1..Len(toClient[r]) : toClient'[r][i] = toClient[r][j]
    \/ \A p, n : toClient'[r][i] # Initialize(p, n) /\ toClient'[r][i] # GrantRequest(n)

OldToServer ==
  \A r \in Remote, k \in Session : \A i \in 1..Len(toServer'[<<r, k>>]) :
    \/ \E j \in 1..Len(toServer[<<r, k>>]) :
         toServer'[<<r, k>>][i] = toServer[<<r, k>>][j]
    \/ \A n : toServer'[<<r, k>>][i] = RequestMutex(n) => d_myIndex[r] = n

LEMMA RequestsKept ==
  ASSUME RequestsKnown, OldToServer, UNCHANGED d_myIndex
  PROVE  RequestsKnown'
BY DEF RequestsKnown, OldToServer

LEMMA KnownKept ==
  ASSUME Known, UNCHANGED <<issued, d_remoteIndex, d_myIndex>>,
         OldToClient, OldToServer
  PROVE  Known'
<1>1. IndexesKnown'
  BY DEF Known, IndexesKnown, Issued
<1>2. InitializesKnown'
  BY DEF Known, InitializesKnown, Issued, OldToClient
<1>3. GrantsKnown'
  BY DEF Known, GrantsKnown, OldToClient
<1>4. RequestsKnown'
  BY RequestsKept DEF Known
<1> QED
  BY <1>1, <1>2, <1>3, <1>4 DEF Known

LEMMA TokenMoved ==
  ASSUME TokenKept, srvState' = "FREE" => srvState = "FREE",
         NEW s \in Remote, NEW l \in Nat, NEW b \in Nat,
         \A r \in Remote : \A k, i \in Nat :
           TokenAt(r, k, i)' =>
             TokenAt(r, k, IF r = s /\ k = l /\ i >= b THEN i + 1 ELSE i)
  PROVE  TokenKept' /\ LockMoves
BY DEF TokenKept, OneToken, NoToken, LockMoves, HasToken

LEMMA TokenStays ==
  ASSUME TokenKept, srvState' = "FREE" => srvState = "FREE",
         \A r \in Remote : \A k, i \in Nat : TokenAt(r, k, i)' => TokenAt(r, k, i)
  PROVE  TokenKept' /\ LockMoves
BY DEF TokenKept, OneToken, NoToken, LockMoves, HasToken

-----------------------------------------------------------------------------
(* Calls of the user. *)

LEMMA SendRequestSafe ==
  ASSUME TypeOK, NEW r \in Remote, NEW n \in Nat, SendRequest(r, n)
  PROVE  /\ \A q \in Remote, k \in Session : \A i \in 1..Len(toServer'[<<q, k>>]) :
              \/ /\ i \in 1..Len(toServer[<<q, k>>])
                 /\ toServer'[<<q, k>>][i] = toServer[<<q, k>>][i]
              \/ q = r /\ toServer'[<<q, k>>][i] = RequestMutex(n)
         /\ \A q \in Remote : state'[q] = "OURS" => state[q] = "OURS"
<1>1. RequestMutex(n) \in ToServerMsg /\ Send(r, RequestMutex(n))
  BY MessagesTyped DEF SendRequest
<1>2. ASSUME NEW q \in Remote, NEW k \in Session,
             NEW i \in 1..Len(toServer'[<<q, k>>])
      PROVE  \/ /\ i \in 1..Len(toServer[<<q, k>>])
                /\ toServer'[<<q, k>>][i] = toServer[<<q, k>>][i]
             \/ q = r /\ toServer'[<<q, k>>][i] = RequestMutex(n)
  <2>1. <<q, k>> \in Conn
    BY DEF Conn
  <2>2. <<q, k>> = Link(r) => q = r
    BY DEF Link
  <2> QED
    BY <1>1, <2>1, <2>2, Sent
<1>3. \A q \in Remote : state'[q] = "OURS" => state[q] = "OURS"
  BY DEF SendRequest, TypeOK
<1> QED
  BY <1>2, <1>3

LEMMA RequestSafe ==
  ASSUME TypeOK, Tracked, NEW r \in Remote, Request(r)
  PROVE  Tracked' /\ LockMoves
<1>1. UNCHANGED <<issued, d_remoteIndex, d_myIndex, srvState, toClient>>
  BY DEF Request, server
<1>2. OldToClient
  BY <1>1 DEF OldToClient
<1>3. CASE d_myIndex[r] = -1
  <2>1. UNCHANGED <<toServer, state>>
    BY <1>3 DEF Request, SendRequest
  <2>2. OldToServer
    BY <2>1 DEF OldToServer
  <2>3. \A q \in Remote : \A k, i \in Nat : TokenAt(q, k, i)' => TokenAt(q, k, i)
    BY <1>1, <2>1 DEF TokenAt, GrantAt, ReleaseAt
  <2> QED
    BY <1>1, <1>2, <2>2, <2>3, KnownKept, TokenStays DEF Tracked
<1>4. CASE d_myIndex[r] # -1
  <2>1. d_myIndex[r] \in Nat /\ SendRequest(r, d_myIndex[r])
    BY <1>4 DEF Request, TypeOK
  <2>2. OldToServer
    <3> SUFFICES ASSUME NEW q \in Remote, NEW k \in Session,
                        NEW i \in 1..Len(toServer'[<<q, k>>]),
                        NEW n, toServer'[<<q, k>>][i] = RequestMutex(n),
                        d_myIndex[q] # n
                 PROVE  /\ i \in 1..Len(toServer[<<q, k>>])
                        /\ toServer'[<<q, k>>][i] = toServer[<<q, k>>][i]
      BY ZenonT(30) DEF OldToServer
    <3>1. RequestMutex(d_myIndex[r]) = RequestMutex(n) => d_myIndex[r] = n
      BY ToServerDiffer
    <3> QED
      BY <2>1, <3>1, SendRequestSafe
  <2>3. \A q \in Remote : \A k, i \in Nat : TokenAt(q, k, i)' => TokenAt(q, k, i)
    BY SMTT(30), <1>1, <2>1, SendRequestSafe, ToServerDiffer DEF TokenAt, GrantAt, ReleaseAt
  <2> QED
    BY <1>1, <1>2, <2>2, <2>3, KnownKept, TokenStays DEF Tracked
<1> QED
  BY <1>3, <1>4

\* The token leaves the state of r for a Release on its way to the server.
LEMMA ReleaseSafe ==
  ASSUME TypeOK, Tracked, NEW r \in Remote, Release(r)
  PROVE  Tracked' /\ LockMoves
<1>1. UNCHANGED <<issued, d_remoteIndex, d_myIndex, srvState, toClient>>
  BY DEF Release, server
<1>2. Send(r, ReleaseMsg) /\ TokenAt(r, 0, 0)
  BY DEF Release, TokenAt
<1>3. ASSUME NEW q \in Remote, NEW k \in Session,
             NEW i \in 1..Len(toServer'[<<q, k>>])
      PROVE  \/ /\ i \in 1..Len(toServer[<<q, k>>])
                /\ toServer'[<<q, k>>][i] = toServer[<<q, k>>][i]
             \/ /\ q = r /\ k = session[r] /\ i = Len(toServer[<<q, k>>]) + 1
                /\ toServer'[<<q, k>>][i] = ReleaseMsg
  <2>1. <<q, k>> \in Conn
    BY DEF Conn
  <2>2. <<q, k>> = Link(r) => q = r /\ k = session[r]
    BY DEF Link
  <2> QED
    BY <1>2, <2>1, <2>2, Sent, MessagesTyped
<1>4. OldToClient /\ OldToServer
  BY <1>1, <1>3, ToServerDiffer DEF OldToClient, OldToServer
<1>5. state'[r] # "OURS" /\ \A q \in Remote \ {r} : state'[q] = state[q]
  BY DEF Release, TypeOK
<1>6. \A q \in Remote : \A k, i \in Nat :
        TokenAt(q, k, i)' =>
          \/ TokenAt(q, k, i) /\ ~(q = r /\ k = 0 /\ i = 0)
          \/ q = r /\ k = session[r] /\ i = Len(toServer[<<q, k>>]) + 1
  BY <1>1, <1>3, <1>5 DEF TokenAt, GrantAt, ReleaseAt
<1>7. srvState # "FREE"
  BY <1>2 DEF Tracked, TokenKept, NoToken
<1>8. \A q \in Remote : \A k, i \in Nat :
        TokenAt(q, k, i) => q = r /\ k = 0 /\ i = 0
  BY <1>2 DEF Tracked, TokenKept, OneToken
<1>9. OneToken'
  <2> DEFINE e == Len(toServer[<<r, session[r]>>]) + 1
  <2>1. \A q \in Remote : \A k, i \in Nat :
          TokenAt(q, k, i)' => q = r /\ k = session[r] /\ i = e
    BY <1>6, <1>8
  <2> HIDE DEF e
  <2> QED
    BY <2>1 DEF OneToken
<1>10. TokenKept' /\ LockMoves
  <2>1. \A q \in Remote : HasToken(q)' => q = r
    BY <1>6, <1>8 DEF HasToken
  <2>2. HasToken(r)
    BY <1>2 DEF HasToken
  <2>3. LockMoves
    BY <1>1, <2>1, <2>2 DEF LockMoves
  <2> QED
    BY <1>1, <1>7, <1>9, <2>3 DEF TokenKept
<1> QED
  BY <1>1, <1>4, <1>10, KnownKept DEF Tracked

-----------------------------------------------------------------------------
(* Handlers of the server, reading session l of remote s. *)

LEMMA PoppedPlaces ==
  ASSUME TypeOK, NEW s \in Remote, NEW l \in Session,
         toServer[<<s, l>>] # <<>>, Pop(<<s, l>>),
         NEW q \in Remote, NEW k \in Session, NEW i \in 1..Len(toServer'[<<q, k>>])
  PROVE  /\ (IF q = s /\ k = l THEN i + 1 ELSE i) \in 1..Len(toServer[<<q, k>>])
         /\ toServer'[<<q, k>>][i]
              = toServer[<<q, k>>][IF q = s /\ k = l THEN i + 1 ELSE i]
<1>1. <<s, l>> \in Conn /\ <<q, k>> \in Conn
  BY DEF Conn
<1>2. CASE q = s /\ k = l
  BY <1>1, <1>2, Popped
<1>3. CASE ~(q = s /\ k = l)
  <2>1. <<q, k>> # <<s, l>>
    BY <1>3
  <2>2. toServer'[<<q, k>>] = toServer[<<q, k>>]
    BY <1>1, <2>1, Popped
  <2> QED
    BY <1>3, <2>2
<1> QED
  BY <1>2, <1>3

LEMMA PoppedOld ==
  ASSUME TypeOK, NEW s \in Remote, NEW l \in Session,
         toServer[<<s, l>>] # <<>>, Pop(<<s, l>>)
  PROVE  OldToServer
<1> SUFFICES ASSUME NEW q \in Remote, NEW k \in Session,
                    NEW i \in 1..Len(toServer'[<<q, k>>])
             PROVE  \E j \in 1..Len(toServer[<<q, k>>]) :
                      toServer'[<<q, k>>][i] = toServer[<<q, k>>][j]
  BY DEF OldToServer
<1> DEFINE j == IF q = s /\ k = l THEN i + 1 ELSE i
<1>1. j \in 1..Len(toServer[<<q, k>>]) /\ toServer'[<<q, k>>][i] = toServer[<<q, k>>][j]
  BY PoppedPlaces
<1> HIDE DEF j
<1> QED
  BY <1>1

LEMMA IndexIdentifies ==
  ASSUME OneRemotePerProcess, IndexesKnown, NEW r \in Remote, NEW s \in Remote,
         d_myIndex[r] = d_myIndex[s], d_myIndex[r] # -1
  PROVE  r = s
BY DEF IndexesKnown, Issued, OneRemotePerProcess

LEMMA IssuedGrows ==
  ASSUME TypeOK, NEW p \in Process, issued' = Append(issued, p)
  PROVE  /\ Len(issued) \in Nat /\ Len(issued') = Len(issued) + 1
         /\ issued'[Len(issued) + 1] = p
         /\ \A n \in Nat : n < Len(issued) => issued'[n + 1] = issued[n + 1]
<1>1. issued \in Seq(Process)
  BY DEF TypeOK
<1>2. \A n \in Nat : n < Len(issued) => n + 1 \in 1..Len(issued)
  BY <1>1
<1> QED
  BY <1>1, <1>2

LEMMA HandleRequestIndexSafe ==
  ASSUME TypeOK, Tracked, NEW s \in Remote, NEW l \in Session,
         HandleRequestIndex(<<s, l>>)
  PROVE  Tracked' /\ LockMoves
<1> DEFINE p == Head(toServer[<<s, l>>]).proc
<1>1. /\ UNCHANGED <<d_myIndex, srvState, state>>
      /\ toServer[<<s, l>>] # <<>> /\ Pop(<<s, l>>)
      /\ issued' = Append(issued, p) /\ d_remoteIndex' = d_remoteIndex + 1
      /\ Broadcast(Initialize(p, d_remoteIndex))
  BY DEF HandleRequestIndex, ServerReads, remotes
<1>2. p \in Process
  <2>1. <<s, l>> \in Conn
    BY DEF Conn
  <2>2. Head(toServer[<<s, l>>]) \in ToServerMsg
    BY <1>1, <2>1, PopTyped
  <2> QED
    BY <2>2, ToServerForms DEF HandleRequestIndex, ServerReads
<1> HIDE DEF p
<1>3. d_remoteIndex = Len(issued) /\ d_remoteIndex \in Nat
  BY DEF Tracked, Known, IndexesKnown, TypeOK
<1>4. Initialize(p, d_remoteIndex) \in ToClientMsg
  BY <1>2, <1>3, MessagesTyped
<1>5. IndexesKnown'
  <2>1. \A r \in Remote : d_myIndex[r] # -1 => d_myIndex[r] \in Nat
    BY DEF TypeOK
  <2> QED
    BY <1>1, <1>2, <1>3, <2>1, IssuedGrows DEF Tracked, Known, IndexesKnown, Issued
<1>6. InitializesKnown'
  <2> SUFFICES ASSUME NEW r \in Remote, NEW i \in 1..Len(toClient'[r]),
                      NEW q \in Process, NEW n \in Nat,
                      toClient'[r][i] = Initialize(q, n)
               PROVE  Issued(n, q)'
    BY DEF InitializesKnown
  <2>1. CASE i \in 1..Len(toClient[r]) /\ toClient'[r][i] = toClient[r][i]
    <3>1. Issued(n, q)
      BY <2>1 DEF Tracked, Known, InitializesKnown
    <3> QED
      BY <1>1, <1>2, <3>1, IssuedGrows DEF Issued
  <2>2. CASE toClient'[r][i] = Initialize(p, d_remoteIndex)
    <3>1. q = p /\ n = Len(issued)
      BY <1>3, <2>2 DEF Initialize
    <3> QED
      BY <1>1, <1>2, <3>1, IssuedGrows DEF Issued
  <2> QED
    BY <1>1, <1>4, <2>1, <2>2, Broadcasted
<1>7. \A r \in Remote : \A i \in 1..Len(toClient'[r]) : \A n :
        toClient'[r][i] = GrantRequest(n) =>
          i \in 1..Len(toClient[r]) /\ toClient'[r][i] = toClient[r][i]
  <2>1. \A n : Initialize(p, d_remoteIndex) # GrantRequest(n)
    BY DEF Initialize, GrantRequest
  <2> QED
    BY <1>1, <1>4, <2>1, Broadcasted
<1>8. GrantsKnown'
  BY <1>1, <1>7 DEF Tracked, Known, GrantsKnown
<1>9. RequestsKnown'
  BY <1>1, PoppedOld, RequestsKept DEF Tracked, Known
<1>10. \A q \in Remote : \A k, i \in Nat :
         TokenAt(q, k, i)' =>
           TokenAt(q, k, IF q = s /\ k = l /\ i >= 1 THEN i + 1 ELSE i)
  <2>1. \A q \in Remote : \A i : GrantAt(q, i)' => GrantAt(q, i)
    BY <1>1, <1>7 DEF GrantAt
  <2>2. \A q \in Remote : \A k, i \in Nat :
          ReleaseAt(q, k, i)' =>
            ReleaseAt(q, k, IF q = s /\ k = l /\ i >= 1 THEN i + 1 ELSE i)
    BY SMTT(30), <1>1, PoppedPlaces DEF ReleaseAt
  <2>3. l # 0
    BY DEF Session
  <2> QED
    BY <1>1, <2>1, <2>2, <2>3 DEF TokenAt
<1>11. TokenKept' /\ LockMoves
  <2>1. l \in Nat
    BY DEF Session
  <2> QED
    BY <1>1, <1>10, <2>1, TokenMoved DEF Tracked
<1> QED
  BY <1>5, <1>6, <1>8, <1>9, <1>11 DEF Tracked, Known

\* The first message of a session of s is one s has sent.
LEMMA HeadOfSession ==
  ASSUME TypeOK, NEW s \in Remote, NEW l \in Session, toServer[<<s, l>>] # <<>>
  PROVE  /\ 1 \in 1..Len(toServer[<<s, l>>])
         /\ Head(toServer[<<s, l>>]) = toServer[<<s, l>>][1]
         /\ Head(toServer[<<s, l>>]) \in ToServerMsg
<1>1. <<s, l>> \in Conn
  BY DEF Conn
<1>2. toServer[<<s, l>>] \in Seq(ToServerMsg)
  BY <1>1 DEF TypeOK
<1> QED
  BY <1>2

\* A denied request moves at most the token behind it in the queue.
LEMMA DenySafe ==
  ASSUME TypeOK, Tracked, NEW s \in Remote, NEW l \in Session, NEW n \in Nat,
         toServer[<<s, l>>] # <<>>, Pop(<<s, l>>), Broadcast(DenyRequest(n)),
         UNCHANGED <<issued, d_remoteIndex, d_myIndex, srvState, state>>
  PROVE  Tracked' /\ LockMoves
<1>1. \A r \in Remote : \A i \in 1..Len(toClient'[r]) :
        \/ i \in 1..Len(toClient[r]) /\ toClient'[r][i] = toClient[r][i]
        \/ toClient'[r][i] = DenyRequest(n)
  BY MessagesTyped, Broadcasted
<1>2. OldToClient
  <2>1. \A p, k : DenyRequest(n) # Initialize(p, k) /\ DenyRequest(n) # GrantRequest(k)
    BY DEF DenyRequest, Initialize, GrantRequest
  <2> QED
    BY <1>1, <2>1 DEF OldToClient
<1>3. OldToServer
  BY PoppedOld
<1>4. \A q \in Remote : \A k, i \in Nat :
        TokenAt(q, k, i)' =>
          TokenAt(q, k, IF q = s /\ k = l /\ i >= 1 THEN i + 1 ELSE i)
  <2>1. \A k : DenyRequest(n) # GrantRequest(k)
    BY DEF DenyRequest, GrantRequest
  <2>2. \A q \in Remote : \A i : GrantAt(q, i)' => GrantAt(q, i)
    BY <1>1, <2>1 DEF GrantAt
  <2>3. \A q \in Remote : \A k, i \in Nat :
          ReleaseAt(q, k, i)' =>
            ReleaseAt(q, k, IF q = s /\ k = l /\ i >= 1 THEN i + 1 ELSE i)
    BY PoppedPlaces DEF ReleaseAt
  <2>4. l # 0
    BY DEF Session
  <2> QED
    BY <2>2, <2>3, <2>4 DEF TokenAt
<1>5. TokenKept' /\ LockMoves
  <2>1. l \in Nat
    BY DEF Session
  <2> QED
    BY <1>4, <2>1, TokenMoved DEF Tracked
<1> QED
  BY <1>2, <1>3, <1>5, KnownKept DEF Tracked

\* The token appears at the end of the queue to the remote that has asked.
LEMMA GrantSafe ==
  ASSUME TypeOK, Tracked, OneRemotePerProcess,
         NEW s \in Remote, NEW l \in Session, NEW n \in Nat,
         toServer[<<s, l>>] # <<>>, Head(toServer[<<s, l>>]) = RequestMutex(n),
         srvState = "FREE", srvState' = "HELD",
         Pop(<<s, l>>), Broadcast(GrantRequest(n)),
         UNCHANGED <<issued, d_remoteIndex, d_myIndex, state>>
  PROVE  Tracked' /\ LockMoves
<1>1. d_myIndex[s] = n
  BY HeadOfSession DEF Tracked, Known, RequestsKnown
<1>2. \A r \in Remote : \A i \in 1..Len(toClient'[r]) :
        \/ i \in 1..Len(toClient[r]) /\ toClient'[r][i] = toClient[r][i]
        \/ i = Len(toClient[r]) + 1 /\ toClient'[r][i] = GrantRequest(n)
  BY MessagesTyped, Broadcasted
<1>3. IndexesKnown' /\ RequestsKnown'
  <2>1. IndexesKnown'
    BY DEF Tracked, Known, IndexesKnown, Issued
  <2>2. RequestsKnown'
    BY PoppedOld, RequestsKept DEF Tracked, Known
  <2> QED
    BY <2>1, <2>2
<1>4. InitializesKnown'
  <2>1. \A p, k : GrantRequest(n) # Initialize(p, k)
    BY DEF Initialize, GrantRequest
  <2> QED
    BY <1>2, <2>1 DEF Tracked, Known, InitializesKnown, Issued
<1>5. GrantsKnown'
  <2> SUFFICES ASSUME NEW r \in Remote, NEW i \in 1..Len(toClient'[r]), NEW k \in Nat,
                      toClient'[r][i] = GrantRequest(k)
               PROVE  \E q \in Remote : d_myIndex[q] = k
    BY DEF GrantsKnown
  <2>1. GrantRequest(n) = GrantRequest(k) => k = n
    BY DEF GrantRequest
  <2>2. CASE i \in 1..Len(toClient[r]) /\ toClient'[r][i] = toClient[r][i]
    BY <2>2 DEF Tracked, Known, GrantsKnown
  <2>3. CASE toClient'[r][i] = GrantRequest(n)
    BY <1>1, <2>1, <2>3
  <2> QED
    BY <1>2, <2>2, <2>3
<1>6. \A q \in Remote : \A k, i \in Nat :
        TokenAt(q, k, i)' => q = s /\ k = 0 /\ i = Len(toClient[s]) + 1
  <2> SUFFICES ASSUME NEW q \in Remote, NEW k \in Nat, NEW i \in Nat,
                      TokenAt(q, k, i)'
               PROVE  q = s /\ k = 0 /\ i = Len(toClient[s]) + 1
    OBVIOUS
  <2>1. NoToken
    BY DEF Tracked, TokenKept
  <2>2. ~(state[q] = "OURS") /\ \A j \in Nat : ~GrantAt(q, j)
    BY <2>1 DEF NoToken, TokenAt
  <2>3. \A j \in Nat : k \in Session => ~ReleaseAt(q, k, j)
    BY <2>1 DEF NoToken, TokenAt
  <2>4. ~ReleaseAt(q, k, i)'
    BY SMTT(30), <2>3, PoppedPlaces DEF ReleaseAt
  <2>5. k = 0 /\ GrantAt(q, i)'
    BY <2>2, <2>4 DEF TokenAt
  <2>6. i = Len(toClient[q]) + 1 /\ GrantRequest(n) = GrantRequest(d_myIndex[q])
    BY <1>2, <2>2, <2>5 DEF GrantAt
  <2>7. d_myIndex[q] = d_myIndex[s] /\ d_myIndex[q] # -1
    BY <1>1, <2>6 DEF GrantRequest
  <2>8. q = s
    BY <2>7, IndexIdentifies DEF Tracked, Known
  <2> QED
    BY <2>5, <2>6, <2>8
<1>7. OneToken'
  <2> DEFINE e == Len(toClient[s]) + 1
  <2>1. \A q \in Remote : \A k, i \in Nat :
          TokenAt(q, k, i)' => q = s /\ k = 0 /\ i = e
    BY <1>6
  <2> HIDE DEF e
  <2> QED
    BY <2>1 DEF OneToken
<1> QED
  BY <1>3, <1>4, <1>5, <1>7 DEF Tracked, Known, TokenKept, LockMoves

LEMMA HandleRequestMutexSafe ==
  ASSUME TypeOK, Tracked, OneRemotePerProcess,
         NEW s \in Remote, NEW l \in Session, HandleRequestMutex(<<s, l>>)
  PROVE  Tracked' /\ LockMoves
<1> DEFINE n == Head(toServer[<<s, l>>]).index
<1>1. /\ UNCHANGED <<issued, d_remoteIndex, d_myIndex, state>>
      /\ toServer[<<s, l>>] # <<>> /\ Pop(<<s, l>>)
      /\ \/ srvState = "FREE" /\ srvState' = "HELD" /\ Broadcast(GrantRequest(n))
         \/ srvState # "FREE" /\ UNCHANGED srvState /\ Broadcast(DenyRequest(n))
  BY DEF HandleRequestMutex, ServerReads, remotes
<1>2. n \in Nat /\ Head(toServer[<<s, l>>]) = RequestMutex(n)
  BY <1>1, HeadOfSession, ToServerForms DEF HandleRequestMutex, ServerReads
<1> HIDE DEF n
<1>3. CASE srvState = "FREE"
  BY <1>1, <1>2, <1>3, GrantSafe
<1>4. CASE srvState # "FREE"
  BY <1>1, <1>2, <1>4, DenySafe
<1> QED
  BY <1>3, <1>4

\* The token comes back to the server: none is left.
LEMMA HandleReleaseSafe ==
  ASSUME TypeOK, Tracked, NEW s \in Remote, NEW l \in Session,
         HandleRelease(<<s, l>>)
  PROVE  Tracked' /\ LockMoves
<1>1. /\ UNCHANGED <<issued, d_remoteIndex, d_myIndex, state>>
      /\ toServer[<<s, l>>] # <<>> /\ Pop(<<s, l>>)
      /\ Broadcast(ReleaseNotification)
  BY DEF HandleRelease, ServerReads, remotes
<1>2. \A r \in Remote : \A i \in 1..Len(toClient'[r]) :
        \/ i \in 1..Len(toClient[r]) /\ toClient'[r][i] = toClient[r][i]
        \/ toClient'[r][i] = ReleaseNotification
  BY <1>1, MessagesTyped, Broadcasted
<1>3. OldToClient
  <2>1. \A p, k : /\ ReleaseNotification # Initialize(p, k)
                 /\ ReleaseNotification # GrantRequest(k)
    BY DEF ReleaseNotification, Initialize, GrantRequest
  <2> QED
    BY <1>2, <2>1 DEF OldToClient
<1>4. OldToServer
  BY <1>1, PoppedOld
<1>5. l \in Nat /\ l # 0 /\ TokenAt(s, l, 1)
  <2>1. toServer[<<s, l>>][1] = ReleaseMsg /\ 1 \in 1..Len(toServer[<<s, l>>])
    BY <1>1, HeadOfSession, ToServerForms DEF HandleRelease, ServerReads
  <2> QED
    BY <2>1 DEF TokenAt, ReleaseAt, Session
<1>6. \A q \in Remote : \A k, i \in Nat :
        TokenAt(q, k, i) => q = s /\ k = l /\ i = 1
  BY <1>5 DEF Tracked, TokenKept, OneToken
<1>7. NoToken'
  <2> SUFFICES ASSUME NEW q \in Remote, NEW k \in Nat, NEW i \in Nat,
                      TokenAt(q, k, i)'
               PROVE  FALSE
    BY DEF NoToken
  <2>1. CASE ReleaseAt(q, k, i)'
    <3> DEFINE j == IF q = s /\ k = l THEN i + 1 ELSE i
    <3>1. ReleaseAt(q, k, j) /\ j \in Nat
      BY <1>1, <2>1, PoppedPlaces DEF ReleaseAt
    <3>2. i # 0
      BY <2>1 DEF ReleaseAt
    <3>3. TokenAt(q, k, j)
      BY <3>1 DEF TokenAt
    <3>4. q = s /\ k = l /\ j = 1
      BY <1>6, <3>1, <3>3
    <3> QED
      BY <3>2, <3>4
  <2>2. CASE ~ReleaseAt(q, k, i)'
    <3>1. \A n : ReleaseNotification # GrantRequest(n)
      BY DEF ReleaseNotification, GrantRequest
    <3>2. k = 0 /\ TokenAt(q, k, i)
      BY <1>1, <1>2, <2>2, <3>1 DEF TokenAt, GrantAt
    <3> QED
      BY <1>5, <1>6, <3>2
  <2> QED
    BY <2>1, <2>2
<1>8. TokenKept' /\ LockMoves
  <2>1. HasToken(s)
    BY <1>5 DEF HasToken
  <2>2. LockMoves
    BY <1>7, <2>1 DEF LockMoves, NoToken, HasToken
  <2> QED
    BY <1>7, <2>2 DEF TokenKept, OneToken, NoToken
<1> QED
  BY <1>1, <1>3, <1>4, <1>8, KnownKept DEF Tracked

-----------------------------------------------------------------------------
(* Handlers of remote r. *)

LEMMA TakenOld ==
  ASSUME TypeOK, NEW r \in Remote, toClient[r] # <<>>, Take(r)
  PROVE  /\ OldToClient
         /\ \A q \in Remote, i \in Nat : \A m :
              i \in 1..Len(toClient'[q]) /\ toClient'[q][i] = m =>
                LET j == IF q = r THEN i + 1 ELSE i IN
                j \in 1..Len(toClient[q]) /\ toClient[q][j] = m
         /\ \A q \in Remote : \A i \in 1..Len(toClient'[q]) :
              \E j \in 1..Len(toClient[q]) : toClient'[q][i] = toClient[q][j]
<1>1. ASSUME NEW q \in Remote, NEW i \in 1..Len(toClient'[q])
      PROVE  LET j == IF q = r THEN i + 1 ELSE i IN
             j \in 1..Len(toClient[q]) /\ toClient'[q][i] = toClient[q][j]
  BY Taken
<1>2. \A q \in Remote : \A i \in 1..Len(toClient'[q]) :
        \E j \in 1..Len(toClient[q]) : toClient'[q][i] = toClient[q][j]
  <2> TAKE q \in Remote
  <2> TAKE i \in 1..Len(toClient'[q])
  <2> DEFINE j == IF q = r THEN i + 1 ELSE i
  <2>1. j \in 1..Len(toClient[q]) /\ toClient'[q][i] = toClient[q][j]
    BY <1>1
  <2> HIDE DEF j
  <2> QED
    BY <2>1
<1>3. OldToClient
  BY <1>2 DEF OldToClient
<1> QED
  BY <1>1, <1>2, <1>3

\* The first message to r.
LEMMA HeadOfQueue ==
  ASSUME TypeOK, NEW r \in Remote, toClient[r] # <<>>
  PROVE  /\ 1 \in 1..Len(toClient[r]) /\ Head(toClient[r]) = toClient[r][1]
         /\ Head(toClient[r]) \in ToClientMsg
<1>1. toClient[r] \in Seq(ToClientMsg)
  BY DEF TypeOK
<1> QED
  BY <1>1

\* A message that does not give r the lock.
LEMMA ReadSafe ==
  ASSUME TypeOK, Tracked, NEW r \in Remote, toClient[r] # <<>>, Take(r),
         UNCHANGED <<issued, d_remoteIndex, d_myIndex, srvState, toServer>>,
         \A q \in Remote : state'[q] = "OURS" => state[q] = "OURS"
  PROVE  Tracked' /\ LockMoves
<1>1. OldToServer
  BY DEF OldToServer
<1>2. \A q \in Remote : \A k, i \in Nat :
        TokenAt(q, k, i)' =>
          TokenAt(q, k, IF q = r /\ k = 0 /\ i >= 1 THEN i + 1 ELSE i)
  <2>1. \A q \in Remote : \A i \in Nat :
          GrantAt(q, i)' => GrantAt(q, IF q = r THEN i + 1 ELSE i)
    <3> TAKE q \in Remote
    <3> TAKE i \in Nat
    <3> HAVE GrantAt(q, i)'
    <3>1. i \in 1..Len(toClient'[q]) /\ toClient'[q][i] = GrantRequest(d_myIndex[q])
      BY DEF GrantAt
    <3> QED
      BY <3>1, TakenOld DEF GrantAt
  <2>2. \A q \in Remote : \A i \in Nat : GrantAt(q, i)' => i >= 1
    BY DEF GrantAt
  <2>3. \A q \in Remote : \A k, i \in Nat :
          ReleaseAt(q, k, i)' => ReleaseAt(q, k, i) /\ k # 0
    BY DEF ReleaseAt, Session
  <2> QED
    BY <2>1, <2>2, <2>3 DEF TokenAt
<1>3. TokenKept' /\ LockMoves
  BY <1>2, TokenMoved DEF Tracked
<1> QED
  BY <1>1, <1>3, TakenOld, KnownKept DEF Tracked

\* The token passes from the message that grants the lock to r's state.
LEMMA HandleGrantRequestSafe ==
  ASSUME TypeOK, Tracked, NEW r \in Remote, HandleGrantRequest(r)
  PROVE  Tracked' /\ LockMoves
<1> DEFINE n == Head(toClient[r]).index
<1>1. /\ UNCHANGED <<issued, d_remoteIndex, d_myIndex, srvState, toServer>>
      /\ toClient[r] # <<>> /\ Take(r)
      /\ state' = [state EXCEPT ![r] = IF n = d_myIndex[r]
                                      THEN "OURS" ELSE "HELD_REMOTELY"]
  BY DEF HandleGrantRequest, Answers, RemoteReads, server
<1>2. 1 \in 1..Len(toClient[r]) /\ toClient[r][1] = GrantRequest(n)
  BY <1>1, HeadOfQueue, ToClientForms DEF HandleGrantRequest, RemoteReads
<1>3. OldToServer
  BY <1>1 DEF OldToServer
<1>4. \A q \in Remote : \A k, i \in Nat :
        TokenAt(q, k, i)' =>
          TokenAt(q, k, IF q = r /\ k = 0 /\ i >= 0 THEN i + 1 ELSE i)
  <2>1. \A q \in Remote : \A i \in Nat :
          GrantAt(q, i)' => GrantAt(q, IF q = r THEN i + 1 ELSE i)
    BY <1>1, TakenOld DEF GrantAt
  <2>2. \A q \in Remote : \A k, i \in Nat :
          ReleaseAt(q, k, i)' => ReleaseAt(q, k, i) /\ k # 0
    BY <1>1 DEF ReleaseAt, Session
  <2>3. state'[r] = "OURS" => GrantAt(r, 1)
    BY <1>1, <1>2 DEF GrantAt, TypeOK
  <2>4. \A q \in Remote : q # r => state'[q] = state[q]
    BY <1>1 DEF TypeOK
  <2> QED
    BY <2>1, <2>2, <2>3, <2>4 DEF TokenAt
<1>5. TokenKept' /\ LockMoves
  BY <1>1, <1>4, TokenMoved DEF Tracked
<1> QED
  BY <1>1, <1>3, <1>5, TakenOld, KnownKept DEF Tracked

LEMMA HandleDenyRequestSafe ==
  ASSUME TypeOK, Tracked, NEW r \in Remote, HandleDenyRequest(r)
  PROVE  Tracked' /\ LockMoves
<1>1. /\ UNCHANGED <<issued, d_remoteIndex, d_myIndex, srvState, toServer>>
      /\ toClient[r] # <<>> /\ Take(r)
  BY DEF HandleDenyRequest, RemoteReads, server
<1>2. \A q \in Remote : state'[q] = "OURS" => state[q] = "OURS"
  BY DEF HandleDenyRequest, TypeOK
<1> QED
  BY <1>1, <1>2, ReadSafe

LEMMA HandleReleaseNotificationSafe ==
  ASSUME TypeOK, Tracked, NEW r \in Remote, HandleReleaseNotification(r)
  PROVE  Tracked' /\ LockMoves
<1>1. /\ UNCHANGED <<issued, d_remoteIndex, d_myIndex, srvState, toServer>>
      /\ toClient[r] # <<>> /\ Take(r)
  BY DEF HandleReleaseNotification, RemoteReads, server
<1>2. \A q \in Remote : state'[q] = "OURS" => state[q] = "OURS"
  BY DEF HandleReleaseNotification, TypeOK
<1> QED
  BY <1>1, <1>2, ReadSafe

\* No grant under way names an index that its owner has not taken yet, so
\* taking one makes no message a token.
LEMMA InitializeSafe ==
  ASSUME TypeOK, Tracked, OneRemotePerProcess, NEW r \in Remote, NEW n \in Nat,
         toClient[r] # <<>>, toClient[r][1] = Initialize(procOf[r], n), Take(r),
         d_myIndex[r] = -1, d_myIndex' = [d_myIndex EXCEPT ![r] = n],
         UNCHANGED <<issued, d_remoteIndex, srvState>>,
         \/ SendRequest(r, n)
         \/ UNCHANGED <<state, toServer>>
  PROVE  Tracked' /\ LockMoves
<1>0. \A q \in Remote : \A i \in 1..Len(toClient'[q]) :
        \E j \in 1..Len(toClient[q]) : toClient'[q][i] = toClient[q][j]
  BY TakenOld, Zenon
<1>1. Issued(n, procOf[r])
  BY HeadOfQueue, ProcOfAssumption DEF Tracked, Known, InitializesKnown
<1>2. \A s \in Remote : d_myIndex[s] # n
  BY <1>1 DEF Tracked, Known, IndexesKnown, Issued, OneRemotePerProcess
<1>3. d_myIndex'[r] = n /\ \A q \in Remote \ {r} : d_myIndex'[q] = d_myIndex[q]
  BY DEF TypeOK
<1>4. \A q \in Remote, k \in Session : \A i \in 1..Len(toServer'[<<q, k>>]) :
        \/ i \in 1..Len(toServer[<<q, k>>]) /\ toServer'[<<q, k>>][i] = toServer[<<q, k>>][i]
        \/ q = r /\ toServer'[<<q, k>>][i] = RequestMutex(n)
  BY SendRequestSafe
<1>5. \A q \in Remote : state'[q] = "OURS" => state[q] = "OURS"
  BY SendRequestSafe
<1>6. IndexesKnown'
  BY <1>1, <1>3 DEF Tracked, Known, IndexesKnown, Issued
<1>7. InitializesKnown'
  <2> SUFFICES ASSUME NEW q \in Remote, NEW i \in 1..Len(toClient'[q]),
                      NEW p \in Process, NEW k \in Nat,
                      toClient'[q][i] = Initialize(p, k)
               PROVE  Issued(k, p)
    BY DEF InitializesKnown, Issued
  <2>1. PICK j \in 1..Len(toClient[q]) : toClient[q][j] = Initialize(p, k)
    BY <1>0, Zenon
  <2> QED
    BY <2>1 DEF Tracked, Known, InitializesKnown
<1>8. GrantsKnown'
  <2> SUFFICES ASSUME NEW q \in Remote, NEW i \in 1..Len(toClient'[q]), NEW k \in Nat,
                      toClient'[q][i] = GrantRequest(k)
               PROVE  \E s \in Remote : d_myIndex'[s] = k
    BY DEF GrantsKnown
  <2>1. PICK j \in 1..Len(toClient[q]) : toClient[q][j] = GrantRequest(k)
    BY <1>0, Zenon
  <2>2. \E s \in Remote : d_myIndex[s] = k
    BY <2>1 DEF Tracked, Known, GrantsKnown
  <2> QED
    BY <1>3, <2>2
<1>9. RequestsKnown'
  <2> SUFFICES ASSUME NEW q \in Remote, NEW k \in Session,
                      NEW i \in 1..Len(toServer'[<<q, k>>]), NEW j \in Nat,
                      toServer'[<<q, k>>][i] = RequestMutex(j)
               PROVE  d_myIndex'[q] = j
    BY DEF RequestsKnown
  <2>1. CASE i \in 1..Len(toServer[<<q, k>>]) /\ toServer'[<<q, k>>][i] = toServer[<<q, k>>][i]
    <3>1. RequestsKnown
      BY DEF Tracked, Known
    <3>2. i \in 1..Len(toServer[<<q, k>>]) /\ toServer[<<q, k>>][i] = RequestMutex(j)
      BY <2>1
    <3>3. d_myIndex[q] = j
      BY <3>1, <3>2, Zenon DEF RequestsKnown
    <3>4. q # r
      BY <3>3
    <3> QED
      BY <1>3, <3>3, <3>4
  <2>2. CASE q = r /\ toServer'[<<q, k>>][i] = RequestMutex(n)
    BY <1>3, <2>2 DEF RequestMutex
  <2> QED
    BY <1>4, <2>1, <2>2
<1>10. \A q \in Remote : \A k, i \in Nat :
        TokenAt(q, k, i)' =>
          TokenAt(q, k, IF q = r /\ k = 0 /\ i >= 1 THEN i + 1 ELSE i)
  <2>1. \A i \in Nat : ~GrantAt(r, i)'
    <3> SUFFICES ASSUME NEW i \in Nat, i \in 1..Len(toClient'[r]),
                        toClient'[r][i] = GrantRequest(n)
                 PROVE  FALSE
      BY <1>3 DEF GrantAt
    <3> QED
      BY <1>2, TakenOld DEF Tracked, Known, GrantsKnown
  <2>2. \A q \in Remote : \A i \in Nat : q # r /\ GrantAt(q, i)' => GrantAt(q, i)
    BY <1>3, TakenOld DEF GrantAt
  <2>3. \A q \in Remote : \A k, i \in Nat :
          ReleaseAt(q, k, i)' => ReleaseAt(q, k, i) /\ k # 0
    <3>1. RequestMutex(n) # ReleaseMsg
      BY DEF RequestMutex, ReleaseMsg
    <3> QED
      BY <1>4, <3>1 DEF ReleaseAt, Session
  <2> QED
    BY <1>5, <2>1, <2>2, <2>3 DEF TokenAt
<1>11. TokenKept' /\ LockMoves
  BY <1>10, TokenMoved DEF Tracked
<1> QED
  BY <1>6, <1>7, <1>8, <1>9, <1>11 DEF Tracked, Known

LEMMA HandleInitializeSafe ==
  ASSUME TypeOK, Tracked, OneRemotePerProcess, NEW r \in Remote, HandleInitialize(r)
  PROVE  Tracked' /\ LockMoves
<1> DEFINE m == Head(toClient[r])
<1>1. /\ UNCHANGED <<issued, d_remoteIndex, srvState>>
      /\ toClient[r] # <<>> /\ Take(r)
  BY DEF HandleInitialize, RemoteReads, server
<1>2. m = toClient[r][1] /\ m.index \in Nat /\ m = Initialize(m.proc, m.index)
  BY <1>1, HeadOfQueue, ToClientForms DEF HandleInitialize, RemoteReads
<1>3. CASE Mine(r, m)
  <2>1. d_myIndex[r] = -1 /\ m = Initialize(procOf[r], m.index)
    BY <1>2, <1>3 DEF Mine
  <2>2. /\ d_myIndex' = [d_myIndex EXCEPT ![r] = m.index]
        /\ SendRequest(r, m.index) \/ UNCHANGED <<state, toServer>>
    BY <1>3 DEF HandleInitialize
  <2> DEFINE n == m.index
  <2>3. n \in Nat /\ toClient[r][1] = Initialize(procOf[r], n)
    BY <1>2, <2>1
  <2>4. /\ d_myIndex' = [d_myIndex EXCEPT ![r] = n]
        /\ SendRequest(r, n) \/ UNCHANGED <<state, toServer>>
    BY <2>2
  <2> HIDE DEF n, m
  <2> QED
    BY <1>1, <2>1, <2>3, <2>4, InitializeSafe
<1>4. CASE ~Mine(r, m)
  <2>1. UNCHANGED <<d_myIndex, state, toServer>>
    BY <1>4 DEF HandleInitialize
  <2> QED
    BY <1>1, <2>1, ReadSafe
<1> QED
  BY <1>3, <1>4

-----------------------------------------------------------------------------
(* Connections: a message may be lost, and the token with it. *)

LEMMA ConnectSafe ==
  ASSUME TypeOK, Tracked, NEW r \in Remote, Connect(r)
  PROVE  Tracked' /\ LockMoves
<1>1. UNCHANGED <<issued, d_remoteIndex, d_myIndex, srvState, state, toClient>>
  BY DEF Connect, remotes
<1>2. \A q \in Remote, k \in Session :
        \/ toServer'[<<q, k>>] = toServer[<<q, k>>]
        \/ toServer'[<<q, k>>] = <<RequestIndex(procOf[r])>>
  BY DEF Connect, Conn, TypeOK
<1>3. \A n : RequestIndex(procOf[r]) # RequestMutex(n) /\ RequestIndex(procOf[r]) # ReleaseMsg
  BY DEF RequestIndex, RequestMutex, ReleaseMsg
<1>4. OldToClient
  BY <1>1 DEF OldToClient
<1>5. ASSUME NEW q \in Remote, NEW k \in Session, NEW i \in 1..Len(toServer'[<<q, k>>])
      PROVE  \/ /\ i \in 1..Len(toServer[<<q, k>>])
                /\ toServer'[<<q, k>>][i] = toServer[<<q, k>>][i]
             \/ toServer'[<<q, k>>][i] = RequestIndex(procOf[r])
  BY <1>2
<1>6. OldToServer
  BY <1>3, <1>5 DEF OldToServer
<1>7. \A q \in Remote : \A k, i \in Nat : TokenAt(q, k, i)' => TokenAt(q, k, i)
  BY <1>1, <1>3, <1>5 DEF TokenAt, GrantAt, ReleaseAt
<1> QED
  BY <1>1, <1>4, <1>6, <1>7, KnownKept, TokenStays DEF Tracked

\* What is left of the queues is a prefix of each.
LEMMA LossSafe ==
  ASSUME TypeOK, Tracked,
         UNCHANGED <<issued, d_remoteIndex, d_myIndex, state>>,
         srvState' = "FREE" => srvState = "FREE",
         \A r \in Remote : \A i \in 1..Len(toClient'[r]) :
           i \in 1..Len(toClient[r]) /\ toClient'[r][i] = toClient[r][i],
         \A r \in Remote, k \in Session : \A i \in 1..Len(toServer'[<<r, k>>]) :
           /\ i \in 1..Len(toServer[<<r, k>>])
           /\ toServer'[<<r, k>>][i] = toServer[<<r, k>>][i]
  PROVE  Tracked' /\ LockMoves
<1>1. OldToClient /\ OldToServer
  BY DEF OldToClient, OldToServer
<1>2. \A q \in Remote : \A k, i \in Nat : TokenAt(q, k, i)' => TokenAt(q, k, i)
  BY DEF TokenAt, GrantAt, ReleaseAt
<1> QED
  BY <1>1, <1>2, KnownKept, TokenStays DEF Tracked

LEMMA ClientDropSafe ==
  ASSUME TypeOK, Tracked, NEW r \in Remote, ClientDrop(r)
  PROVE  Tracked' /\ LockMoves
<1>1. UNCHANGED <<issued, d_remoteIndex, d_myIndex, srvState, state>>
  BY DEF ClientDrop, server, remotes
<1>2. Link(r) \in Conn
  BY BoundAssumption DEF ClientDrop, Link, Conn, Session, TypeOK
<1>3. PICK n \in 0..Len(toServer[Link(r)]) :
        toServer' = [toServer EXCEPT ![Link(r)] = Cut(@, n)]
  BY DEF ClientDrop
<1>4. \A c \in Conn : \A i \in 1..Len(toServer'[c]) :
        i \in 1..Len(toServer[c]) /\ toServer'[c][i] = toServer[c][i]
  <2>1. toServer[Link(r)] \in Seq(ToServerMsg)
    BY <1>2 DEF TypeOK
  <2>2. /\ Len(Cut(toServer[Link(r)], n)) = n
        /\ \A i \in 1..n : Cut(toServer[Link(r)], n)[i] = toServer[Link(r)][i]
    BY <2>1, CutTyped
  <2> QED
    BY <1>2, <1>3, <2>2 DEF TypeOK
<1>5. \A q \in Remote, k \in Session : \A i \in 1..Len(toServer'[<<q, k>>]) :
        /\ i \in 1..Len(toServer[<<q, k>>])
        /\ toServer'[<<q, k>>][i] = toServer[<<q, k>>][i]
  BY <1>4 DEF Conn
<1>6. \A q \in Remote : \A i \in 1..Len(toClient'[q]) :
        i \in 1..Len(toClient[q]) /\ toClient'[q][i] = toClient[q][i]
  BY DEF ClientDrop, TypeOK
<1> QED
  BY <1>1, <1>5, <1>6, LossSafe

\* Unless it forgets a lock it gave out, the server frees no lock when the
\* count of endpoints drops to zero.
LEMMA CountDropFreesNothing ==
  ASSUME TypeOK, CountDrop, ~forgot'
  PROVE  srvState' = "FREE" => srvState = "FREE"
<1>1. CASE numConnected = 1
  <2>1. ~(srvState = "HELD")
    BY <1>1, Zenon DEF CountDrop
  <2> QED
    BY <2>1 DEF TypeOK
<1>2. CASE numConnected # 1
  BY <1>2 DEF CountDrop
<1> QED
  BY <1>1, <1>2

LEMMA ServerDropSafe ==
  ASSUME TypeOK, Tracked, NEW c \in Conn, ServerDrop(c), ~forgot'
  PROVE  Tracked' /\ LockMoves
<1>1. UNCHANGED <<issued, d_remoteIndex, d_myIndex, state>>
  BY DEF ServerDrop, CountDrop, remotes
<1>2. srvState' = "FREE" => srvState = "FREE"
  BY CountDropFreesNothing DEF ServerDrop
<1>3. \A q \in Remote, k \in Session : \A i \in 1..Len(toServer'[<<q, k>>]) :
        /\ i \in 1..Len(toServer[<<q, k>>])
        /\ toServer'[<<q, k>>][i] = toServer[<<q, k>>][i]
  <2>1. toServer' = [toServer EXCEPT ![c] = <<>>]
    BY DEF ServerDrop
  <2> QED
    BY <2>1 DEF Conn, TypeOK
<1>4. \A q \in Remote : \A i \in 1..Len(toClient'[q]) :
        i \in 1..Len(toClient[q]) /\ toClient'[q][i] = toClient[q][i]
  <2>1. CASE Live(c)
    <3>1. c[1] \in Remote
      BY DEF Conn
    <3>2. PICK n \in 0..Len(toClient[c[1]]) :
            toClient' = [toClient EXCEPT ![c[1]] = Cut(@, n)]
      BY <2>1 DEF ServerDrop
    <3>3. toClient[c[1]] \in Seq(ToClientMsg)
      BY <3>1 DEF TypeOK
    <3>4. /\ Len(Cut(toClient[c[1]], n)) = n
          /\ \A i \in 1..n : Cut(toClient[c[1]], n)[i] = toClient[c[1]][i]
      BY <3>3, CutTyped
    <3> QED
      BY <3>1, <3>2, <3>4 DEF TypeOK
  <2>2. CASE ~Live(c)
    BY <2>2 DEF ServerDrop
  <2> QED
    BY <2>1, <2>2
<1> QED
  BY <1>1, <1>2, <1>3, <1>4, LossSafe

LEMMA FailedHandshakeSafe ==
  ASSUME TypeOK, Tracked, FailedHandshake, ~forgot'
  PROVE  Tracked' /\ LockMoves
<1>1. UNCHANGED <<issued, d_remoteIndex, d_myIndex, state, toClient, toServer>>
  BY DEF FailedHandshake, CountDrop, remotes
<1>2. srvState' = "FREE" => srvState = "FREE"
  BY CountDropFreesNothing DEF FailedHandshake
<1> QED
  BY <1>1, <1>2, LossSafe

-----------------------------------------------------------------------------
(* The invariant and what follows from it. *)

LEMMA SafetyInit == Init => Tracked
<1> SUFFICES ASSUME Init PROVE Tracked
  OBVIOUS
<1>1. Known
  BY DEF Init, Known, IndexesKnown, InitializesKnown, GrantsKnown, RequestsKnown, Conn
<1>2. NoToken
  BY DEF Init, NoToken, TokenAt, GrantAt, ReleaseAt, Conn
<1> QED
  BY <1>1, <1>2 DEF Tracked, TokenKept, OneToken, NoToken

LEMMA ServerSafe ==
  ASSUME TypeOK, Tracked, OneRemotePerProcess, NEW c \in Conn, ServerStep(c)
  PROVE  Tracked' /\ LockMoves
<1>1. PICK s \in Remote, l \in Session : c = <<s, l>>
  BY DEF Conn
<1>2. ServerStep(<<s, l>>)
  BY <1>1
<1> QED
  BY <1>2, HandleRequestIndexSafe, HandleRequestMutexSafe, HandleReleaseSafe
     DEF ServerStep

LEMMA UnchangedSafe ==
  ASSUME Tracked, UNCHANGED vars
  PROVE  Tracked' /\ LockMoves
<1>1. UNCHANGED <<srvState, d_remoteIndex, issued, state, d_myIndex, toServer,
                  toClient>>
  BY DEF vars, server, remotes
<1> QED
  BY <1>1 DEF Tracked, Known, IndexesKnown, InitializesKnown,
       GrantsKnown, RequestsKnown, Issued, TokenKept, OneToken, NoToken, TokenAt,
       GrantAt, ReleaseAt, LockMoves, HasToken

\* What the server has forgotten stays forgotten.
LEMMA ForgotStays ==
  ASSUME [Next]_vars, ~forgot'
  PROVE  ~forgot
<1>1. CASE UNCHANGED vars
  BY <1>1, Zenon DEF vars, server
<1>2. CASE Work
  BY <1>2, Zenon DEF Work, ServerStep, RemoteStep, UserStep, Request, Release,
     HandleRequestIndex, HandleRequestMutex, HandleRelease, HandleInitialize,
     HandleGrantRequest, HandleDenyRequest, HandleReleaseNotification, Connect, server
<1>3. CASE Fault
  BY <1>3, Zenon DEF Fault, ClientDrop, ServerDrop, FailedHandshake, ServerRestart,
     CountDrop, server
<1> QED
  BY <1>1, <1>2, <1>3 DEF Next

LEMMA SafetyStep ==
  ASSUME TypeOK, Tracked, OneRemotePerProcess, [Next]_vars, ~forgot'
  PROVE  Tracked' /\ LockMoves
<1>1. CASE UNCHANGED vars
  BY <1>1, UnchangedSafe
<1>2. CASE \E c \in Conn : ServerStep(c)
  BY <1>2, ServerSafe
<1>3. ASSUME NEW r \in Remote, RemoteStep(r) \/ UserStep(r) \/ Connect(r)
      PROVE  Tracked' /\ LockMoves
  BY <1>3, HandleInitializeSafe, HandleGrantRequestSafe, HandleDenyRequestSafe,
     HandleReleaseNotificationSafe, RequestSafe, ReleaseSafe, ConnectSafe
     DEF RemoteStep, UserStep
<1>4. CASE Fault
  <2>1. ~ServerRestart
    BY Zenon DEF ServerRestart
  <2> QED
    BY <1>4, <2>1, ClientDropSafe, ServerDropSafe, FailedHandshakeSafe DEF Fault
<1> QED
  BY <1>1, <1>2, <1>3, <1>4 DEF Next, Work

\* At any moment the lock is in one place at most, and in none while the
\* server says FREE, as long as the server has not lost track of it.
THEOREM TokenInvariant == OneRemotePerProcess => (Spec => []SafetyInv)
<1> SUFFICES ASSUME OneRemotePerProcess PROVE Spec => []SafetyInv
  OBVIOUS
<1>1. Init => SafetyInv
  BY SafetyInit DEF SafetyInv
<1>2. TypeOK /\ SafetyInv /\ [Next]_vars => SafetyInv'
  <2> SUFFICES ASSUME TypeOK, SafetyInv, [Next]_vars, ~forgot' PROVE Tracked'
    BY DEF SafetyInv
  <2>1. Tracked
    BY ForgotStays DEF SafetyInv
  <2> QED
    BY <2>1, SafetyStep
<1> QED
  BY <1>1, <1>2, TypeCorrect, PTL DEF Spec

\* No two remotes hold the lock at once (isHeldLocally),
\* for any number of remotes and whatever connections break.
THEOREM MutualExclusionHolds == OneRemotePerProcess => (Spec => []MutualExclusion)
<1> SUFFICES ASSUME OneRemotePerProcess PROVE Spec => []MutualExclusion
  OBVIOUS
<1>1. SafetyInv => MutualExclusion
  BY DEF SafetyInv, Tracked, TokenKept, OneToken, TokenAt, MutualExclusion
<1> QED
  BY <1>1, TokenInvariant, PTL

\* While the server says FREE, the lock is not held, nor on its way to or
\* from a remote.
THEOREM FreeIsUnclaimed == OneRemotePerProcess => (Spec => []FreeMeansUnclaimed)
<1> SUFFICES ASSUME OneRemotePerProcess PROVE Spec => []FreeMeansUnclaimed
  OBVIOUS
<1>1. SafetyInv => FreeMeansUnclaimed
  <2> SUFFICES ASSUME NoToken, NEW r \in Remote PROVE ~Claims(r)
    BY DEF SafetyInv, Tracked, TokenKept, FreeMeansUnclaimed
  <2>1. \A i \in 1..Len(toClient[r]) : ~GrantAt(r, i)
    BY DEF NoToken, TokenAt
  <2>2. state[r] # "OURS"
    BY DEF NoToken, TokenAt
  <2>3. \A k \in Session : \A i \in 1..Len(toServer[<<r, k>>]) : ~ReleaseAt(r, k, i)
    BY DEF NoToken, TokenAt, Session
  <2> QED
    BY <2>1, <2>2, <2>3 DEF Claims, GrantUnderWay, ReleaseUnderWay
<1> QED
  BY <1>1, TokenInvariant, PTL

\* An index identifies one remote until the server forgets what it issued.
THEOREM IndexesAreUnique == OneRemotePerProcess => (Spec => []UniqueIndexWhileKept)
<1> SUFFICES ASSUME OneRemotePerProcess PROVE Spec => []UniqueIndexWhileKept
  OBVIOUS
<1>1. SafetyInv => UniqueIndexWhileKept
  BY IndexIdentifies DEF SafetyInv, Tracked, Known, UniqueIndexWhileKept, UniqueIndex
<1> QED
  BY <1>1, TokenInvariant, PTL

-----------------------------------------------------------------------------
(* The server's lock implements Lock. *)

\* The claims on the lock are the places its token may be in.
LEMMA ClaimsAreTokens ==
  ASSUME NEW r \in Remote
  PROVE  Claims(r) <=> HasToken(r)
<1>1. ASSUME Claims(r) PROVE HasToken(r)
  <2>1. CASE GrantUnderWay(r)
    <3>1. PICK i \in 1..Len(toClient[r]) : GrantAt(r, i)
      BY <2>1 DEF GrantUnderWay
    <3>2. i \in Nat /\ TokenAt(r, 0, i)
      BY <3>1 DEF TokenAt
    <3> QED
      BY <3>2 DEF HasToken
  <2>2. CASE state[r] = "OURS"
    BY <2>2 DEF TokenAt, HasToken
  <2>3. CASE ReleaseUnderWay(r)
    <3>1. PICK k \in Session : \E i \in 1..Len(toServer[<<r, k>>]) : ReleaseAt(r, k, i)
      BY <2>3 DEF ReleaseUnderWay
    <3>2. PICK i \in 1..Len(toServer[<<r, k>>]) : ReleaseAt(r, k, i)
      BY <3>1
    <3>3. i \in Nat /\ k \in Nat /\ TokenAt(r, k, i)
      BY <3>2 DEF TokenAt, Session
    <3> QED
      BY <3>3 DEF HasToken
  <2> QED
    BY <1>1, <2>1, <2>2, <2>3 DEF Claims
<1>2. ASSUME HasToken(r) PROVE Claims(r)
  <2>1. PICK k \in Nat, i \in Nat : TokenAt(r, k, i)
    BY <1>2 DEF HasToken
  <2>2. CASE GrantAt(r, i)
    BY <2>2 DEF GrantAt, GrantUnderWay, Claims
  <2>3. CASE ReleaseAt(r, k, i)
    BY <2>3 DEF ReleaseAt, ReleaseUnderWay, Claims
  <2> QED
    BY <2>1, <2>2, <2>3 DEF TokenAt, Claims
<1> QED
  BY <1>1, <1>2

\* The owner is whoever has the token.
OwnerOfToken ==
  /\ forgot \/ srvState = "FREE" => owner = NoOne
  /\ OneToken /\ ~forgot /\ srvState = "HELD" =>
       \A r \in Remote : HasToken(r) => owner = r
  /\ ~forgot /\ srvState = "HELD" /\ (\A r \in Remote : ~HasToken(r)) => owner = Lost

LEMMA OwnerRule == OwnerOfToken
<1>1. forgot \/ srvState = "FREE" => owner = NoOne
  BY Zenon DEF owner
<1>2. ASSUME OneToken, ~forgot, srvState = "HELD", NEW r \in Remote, HasToken(r)
      PROVE  owner = r
  <2>1. \A s \in Remote : HasToken(s) => s = r
    BY <1>2 DEF HasToken, OneToken
  <2>2. Claims(r) /\ \A s \in Remote : Claims(s) => s = r
    BY <1>2, <2>1, ClaimsAreTokens
  <2>3. (CHOOSE s \in Remote : Claims(s)) = r
    BY <2>2
  <2>4. ~(srvState = "FREE") /\ \E s \in Remote : Claims(s)
    BY <1>2, <2>2
  <2> QED
    BY <1>2, <2>3, <2>4 DEF owner
<1>3. ASSUME ~forgot, srvState = "HELD", \A r \in Remote : ~HasToken(r)
      PROVE  owner = Lost
  <2>1. ~(srvState = "FREE") /\ ~\E s \in Remote : Claims(s)
    BY <1>3, ClaimsAreTokens
  <2> QED
    BY <1>3, <2>1 DEF owner
<1> QED
  BY <1>1, <1>2, <1>3 DEF OwnerOfToken

\* Every step of Mutex is a step of Lock or leaves its variables alone.
LEMMA StepImplementsLock ==
  ASSUME TypeOK, TypeOK', SafetyInv, SafetyInv', OneRemotePerProcess, [Next]_vars
  PROVE  [AsLock!LockNext]_(AsLock!lockVars)
<1> USE DEF AsLock!LockNext, AsLock!lockVars
<1>0. OwnerOfToken /\ OwnerOfToken'
  BY OwnerRule, PTL
<1>1. CASE forgot
  <2>1. forgot'
    BY <1>1, ForgotStays, Zenon
  <2>2. owner = NoOne /\ owner' = NoOne
    BY <1>0, <1>1, <2>1, Zenon DEF OwnerOfToken
  <2>3. UNCHANGED AsLock!lockVars
    BY <1>1, <2>1, <2>2, Zenon
  <2> QED
    BY <2>3, Zenon
<1>2. CASE ~forgot /\ forgot'
  <2>1. owner' = NoOne
    BY <1>0, <1>2, Zenon DEF OwnerOfToken
  <2>2. AsLock!Forget
    BY <1>2, <2>1, Zenon DEF AsLock!Forget
  <2> QED
    BY <2>2, Zenon
<1>3. CASE ~forgot /\ ~forgot'
  <2>1. Tracked /\ Tracked' /\ LockMoves
    BY <1>3, SafetyStep DEF SafetyInv
  <2>2. OneToken /\ OneToken'
    BY <2>1 DEF Tracked, TokenKept
  <2>3. (~forgot)' = ~forgot
    BY <1>3, Zenon
  <2>4. CASE srvState = "FREE" /\ srvState' = "FREE"
    <3>1. owner = NoOne /\ owner' = NoOne
      BY <1>0, <2>4, Zenon DEF OwnerOfToken
    <3> QED
      BY <2>3, <3>1, Zenon
  <2>5. CASE srvState = "FREE" /\ srvState' = "HELD"
    <3>1. owner = NoOne
      BY <1>0, <2>5, Zenon DEF OwnerOfToken
    <3>2. ASSUME NEW r \in Remote, HasToken(r)' PROVE AsLock!Acquire(r)
      <4>1. owner' = r
        BY <1>0, <1>3, <2>2, <2>5, <3>2, Zenon DEF OwnerOfToken
      <4> QED
        BY <1>3, <2>3, <3>1, <4>1, Zenon DEF AsLock!Acquire
    <3>3. ASSUME \A r \in Remote : ~HasToken(r)' PROVE AsLock!Waste
      <4>1. owner' = Lost
        BY <1>0, <1>3, <2>5, <3>3, Zenon DEF OwnerOfToken
      <4> QED
        BY <1>3, <2>3, <3>1, <4>1, Zenon DEF AsLock!Waste
    <3> QED
      BY <3>2, <3>3, Zenon
  <2>6. CASE srvState = "HELD" /\ srvState' = "FREE"
    <3>1. PICK r \in Remote : HasToken(r)
      BY <2>1, <2>6, Zenon DEF LockMoves
    <3>2. owner = r /\ owner' = NoOne
      BY <1>0, <1>3, <2>2, <2>6, <3>1, Zenon DEF OwnerOfToken
    <3>3. AsLock!Free(r)
      BY <1>3, <2>3, <3>2, Zenon DEF AsLock!Free
    <3> QED
      BY <3>3, Zenon
  <2>7. CASE srvState = "HELD" /\ srvState' = "HELD"
    <3>1. \A r \in Remote : HasToken(r)' => HasToken(r)
      BY <2>1, <2>7, Zenon DEF LockMoves
    <3>2. ASSUME NEW r \in Remote, HasToken(r)' PROVE UNCHANGED AsLock!lockVars
      <4>1. owner = r /\ owner' = r
        BY <1>0, <1>3, <2>2, <2>7, <3>1, <3>2, Zenon DEF OwnerOfToken
      <4> QED
        BY <2>3, <4>1, Zenon
    <3>3. ASSUME \A r \in Remote : ~HasToken(r)', NEW s \in Remote, HasToken(s)
          PROVE  AsLock!Lose(s)
      <4>1. owner = s /\ owner' = Lost
        BY <1>0, <1>3, <2>2, <2>7, <3>3, Zenon DEF OwnerOfToken
      <4> QED
        BY <1>3, <2>3, <4>1, Zenon DEF AsLock!Lose
    <3>4. ASSUME \A r \in Remote : ~HasToken(r)', \A r \in Remote : ~HasToken(r)
          PROVE  UNCHANGED AsLock!lockVars
      <4>1. owner = Lost /\ owner' = Lost
        BY <1>0, <1>3, <2>7, <3>4, Zenon DEF OwnerOfToken
      <4> QED
        BY <2>3, <4>1, Zenon
    <3> QED
      BY <3>2, <3>3, <3>4, Zenon
  <2>8. srvState \in {"FREE", "HELD"} /\ srvState' \in {"FREE", "HELD"}
    BY DEF TypeOK
  <2> QED
    BY <2>4, <2>5, <2>6, <2>7, <2>8, Zenon
<1> QED
  BY <1>1, <1>2, <1>3, Zenon

\* What the server's clients see of the lock is the abstract Lock: ownership
\* passes from remote to remote only through FREE at the server.
THEOREM MutexImplementsLock == OneRemotePerProcess => (Spec => ImplementsLock)
<1> SUFFICES ASSUME OneRemotePerProcess PROVE Spec => ImplementsLock
  OBVIOUS
<1>1. Init => AsLock!LockInit
  <2> SUFFICES ASSUME Init PROVE AsLock!LockInit
    OBVIOUS
  <2>1. srvState = "FREE" /\ ~forgot
    BY Zenon DEF Init
  <2>2. owner = NoOne
    BY <2>1, OwnerRule, Zenon DEF OwnerOfToken
  <2> QED
    BY <2>1, <2>2, Zenon DEF AsLock!LockInit
<1>2. /\ TypeOK /\ TypeOK' /\ SafetyInv /\ SafetyInv' /\ [Next]_vars
      => [AsLock!LockNext]_(AsLock!lockVars)
  BY StepImplementsLock
<1> QED
  BY <1>1, <1>2, TypeCorrect, TokenInvariant, PTL DEF Spec, ImplementsLock, AsLock!LockSpec

-----------------------------------------------------------------------------
(* Connections that never break: every remote learns of a release.          *)

RequestUnderWay(r) ==
  \E k \in Session : \E i \in 1..Len(toServer[<<r, k>>]) :
    toServer[<<r, k>>][i].type = "RequestMutex"

\* A remote has one session or has not connected, and then has done nothing.
LinksWhole ==
  \A r \in Remote :
    /\ r \in cUp => session[r] = 1 /\ <<r, 1>> \in srvUp
    /\ r \notin cUp => /\ session[r] = 0 /\ toClient[r] = <<>>
                       /\ state[r] = "AVAILABLE" /\ d_myIndex[r] = -1

Settled(r) == \/ state[r] = "AVAILABLE"
              \/ state[r] = "REQUESTING" /\ RequestUnderWay(r)

\* Behind place i r is told of no grant and no refusal.
QuietAfter(r, i) ==
  \A j \in 1..Len(toClient[r]) : j > i => toClient[r][j].type = "Initialize"

\* The last r is told of the lock is its release; or it knows already.
Informed(r) ==
  \/ Settled(r) /\ QuietAfter(r, 0)
  \/ \E i \in 1..Len(toClient[r]) :
       toClient[r][i] = ReleaseNotification /\ QuietAfter(r, i)

ReleaseKnown == srvState = "FREE" => \A r \in Remote : Informed(r)

LEMMA RequestSent ==
  ASSUME TypeOK, NEW s \in Remote, NEW m \in ToServerMsg, Send(s, m),
         NEW r \in Remote, RequestUnderWay(r)
  PROVE  RequestUnderWay(r)'
<1>1. PICK k \in Session : \E i \in 1..Len(toServer[<<r, k>>]) :
        toServer[<<r, k>>][i].type = "RequestMutex"
  BY DEF RequestUnderWay
<1>2. PICK i \in 1..Len(toServer[<<r, k>>]) :
        toServer[<<r, k>>][i].type = "RequestMutex"
  BY <1>1
<1>3. <<r, k>> \in Conn /\ toServer \in [Conn -> Seq(ToServerMsg)]
  BY DEF Conn, TypeOK
<1>4. /\ i \in 1..Len(toServer'[<<r, k>>])
      /\ toServer'[<<r, k>>][i] = toServer[<<r, k>>][i]
  <2>1. \/ toServer'[<<r, k>>] = toServer[<<r, k>>]
        \/ toServer'[<<r, k>>] = Append(toServer[<<r, k>>], m)
    BY <1>3 DEF Send
  <2>2. toServer[<<r, k>>] \in Seq(ToServerMsg)
    BY <1>3
  <2>3. toServer'[<<r, k>>] = Append(toServer[<<r, k>>], m) =>
          /\ Len(toServer'[<<r, k>>]) = Len(toServer[<<r, k>>]) + 1
          /\ \A j \in 1..Len(toServer[<<r, k>>]) :
               toServer'[<<r, k>>][j] = toServer[<<r, k>>][j]
    BY <2>2
  <2>4. CASE toServer'[<<r, k>>] = toServer[<<r, k>>]
    BY <1>2, <2>4
  <2>5. CASE toServer'[<<r, k>>] = Append(toServer[<<r, k>>], m)
    <3>1. Len(toServer[<<r, k>>]) \in Nat
      BY <2>2
    <3> QED
      BY <1>2, <2>3, <2>5, <3>1
  <2> QED
    BY <2>1, <2>4, <2>5
<1> QED
  BY <1>2, <1>4 DEF RequestUnderWay

\* What a remote asks for is under way until the server has read it.
LEMMA RequestPacked ==
  ASSUME TypeOK, LinksWhole, NEW r \in cUp, NEW n \in Nat, Send(r, RequestMutex(n))
  PROVE  RequestUnderWay(r)'
<1>1. Link(r) = <<r, 1>> /\ <<r, 1>> \in Conn /\ 1 \in Session
  BY DEF LinksWhole, Link, TypeOK, Conn
<1>2. toServer' = [toServer EXCEPT ![<<r, 1>>] = Append(@, RequestMutex(n))]
  BY <1>1 DEF Send
<1>3. toServer[<<r, 1>>] \in Seq(ToServerMsg) /\ toServer \in [Conn -> Seq(ToServerMsg)]
  BY <1>1 DEF TypeOK
<1>4. toServer'[<<r, 1>>] = Append(toServer[<<r, 1>>], RequestMutex(n))
  BY <1>1, <1>2, <1>3
<1>5. RequestMutex(n).type = "RequestMutex" /\ RequestMutex(n) \in ToServerMsg
  BY MessagesTyped DEF RequestMutex
<1> DEFINE i == Len(toServer[<<r, 1>>]) + 1
<1>6. i \in 1..Len(toServer'[<<r, 1>>]) /\ toServer'[<<r, 1>>][i] = RequestMutex(n)
  BY <1>3, <1>4, <1>5
<1> QED
  BY <1>1, <1>5, <1>6 DEF RequestUnderWay

LEMMA RequestNotPopped ==
  ASSUME TypeOK, NEW c \in Conn, toServer[c] # <<>>, Pop(c),
         Head(toServer[c]).type # "RequestMutex",
         NEW r \in Remote, RequestUnderWay(r)
  PROVE  RequestUnderWay(r)'
<1>1. PICK k \in Session : \E i \in 1..Len(toServer[<<r, k>>]) :
        toServer[<<r, k>>][i].type = "RequestMutex"
  BY DEF RequestUnderWay
<1>2. PICK i \in 1..Len(toServer[<<r, k>>]) :
        toServer[<<r, k>>][i].type = "RequestMutex"
  BY <1>1
<1>3. <<r, k>> \in Conn /\ toServer \in [Conn -> Seq(ToServerMsg)]
  BY DEF Conn, TypeOK
<1>4. CASE <<r, k>> # c
  <2>1. toServer'[<<r, k>>] = toServer[<<r, k>>]
    BY <1>3, <1>4 DEF Pop
  <2> QED
    BY <1>2, <2>1 DEF RequestUnderWay
<1>5. CASE <<r, k>> = c
  <2>1. toServer'[<<r, k>>] = Tail(toServer[<<r, k>>])
    BY <1>3, <1>5 DEF Pop
  <2>2. toServer[<<r, k>>] \in Seq(ToServerMsg) /\ i # 1
    <3>1. toServer[<<r, k>>] \in Seq(ToServerMsg) /\ toServer[<<r, k>>] # <<>>
      BY <1>3, <1>5
    <3>2. Head(toServer[<<r, k>>]) = toServer[<<r, k>>][1]
      BY <3>1
    <3> QED
      BY <1>2, <1>5, <3>1, <3>2
  <2>3. i - 1 \in 1..Len(toServer'[<<r, k>>])
    BY <2>1, <2>2
  <2>4. toServer'[<<r, k>>][i - 1] = toServer[<<r, k>>][i]
    BY <2>1, <2>2, <2>3
  <2> QED
    BY <1>2, <2>3, <2>4 DEF RequestUnderWay
<1> QED
  BY <1>4, <1>5

\* A remote that is told nothing stays informed while it stays settled.
LEMMA InformedKept ==
  ASSUME NEW r \in Remote, Informed(r), toClient'[r] = toClient[r],
         Settled(r) => Settled(r)'
  PROVE  Informed(r)'
BY DEF Informed, QuietAfter

LEMMA SettledKept ==
  ASSUME NEW r \in Remote, state'[r] = state[r],
         RequestUnderWay(r) => RequestUnderWay(r)'
  PROVE  Settled(r) => Settled(r)'
BY DEF Settled

LEMMA InformedUser ==
  ASSUME TypeOK, LinksWhole, ReleaseKnown, NEW s \in Remote, UserStep(s)
  PROVE  LinksWhole' /\ ReleaseKnown'
<1>1. CASE Request(s)
  <2>1. CASE d_myIndex[s] = -1
    <3>1. UNCHANGED <<srvState, state, toServer, toClient, cUp, srvUp, session,
                      d_myIndex>>
      BY <1>1, <2>1 DEF Request, server, links
    <3> QED
      BY ZenonT(30), <3>1 DEF LinksWhole, ReleaseKnown, Informed, Settled, QuietAfter,
                  RequestUnderWay
  <2>2. CASE d_myIndex[s] # -1
    <3>1. /\ state' = [state EXCEPT ![s] = "REQUESTING"]
          /\ Send(s, RequestMutex(d_myIndex[s]))
          /\ UNCHANGED <<srvState, toClient, cUp, srvUp, session, d_myIndex>>
      BY <1>1, <2>2 DEF Request, SendRequest, server, links
    <3>2. s \in cUp /\ d_myIndex[s] \in Nat
      BY <2>2 DEF LinksWhole, TypeOK
    <3>3. RequestUnderWay(s)'
      BY <3>1, <3>2, RequestPacked
    <3>4. state \in [Remote -> {"OURS", "REQUESTING", "AVAILABLE", "HELD_REMOTELY"}]
      BY DEF TypeOK
    <3>5. ASSUME NEW r \in Remote PROVE Settled(r) => Settled(r)'
      <4>1. CASE r = s
        BY <3>1, <3>3, <3>4, <4>1 DEF Settled
      <4>2. CASE r # s
        <5>1. state'[r] = state[r]
          BY <3>1, <3>4, <4>2
        <5>2. RequestUnderWay(r) => RequestUnderWay(r)'
          BY <3>1, <3>2, RequestSent, MessagesTyped
        <5> QED
          BY <5>1, <5>2, SettledKept
      <4> QED
        BY <4>1, <4>2
    <3>6. LinksWhole'
      BY <3>1, <3>2, <3>4 DEF LinksWhole
    <3>7. ReleaseKnown'
      BY <3>1, <3>5, InformedKept DEF ReleaseKnown
    <3> QED
      BY <3>6, <3>7
  <2> QED
    BY <2>1, <2>2
<1>2. CASE Release(s)
  <2>1. /\ state[s] = "OURS" /\ state' = [state EXCEPT ![s] = "AVAILABLE"]
        /\ Send(s, ReleaseMsg)
        /\ UNCHANGED <<srvState, toClient, cUp, srvUp, session, d_myIndex>>
    BY <1>2 DEF Release, server, links
  <2>2. state \in [Remote -> {"OURS", "REQUESTING", "AVAILABLE", "HELD_REMOTELY"}]
    BY DEF TypeOK
  <2>3. ASSUME NEW r \in Remote PROVE Settled(r) => Settled(r)'
    <3>1. RequestUnderWay(r) => RequestUnderWay(r)'
      BY <2>1, RequestSent, MessagesTyped
    <3> QED
      BY <2>1, <2>2, <3>1 DEF Settled
  <2>4. LinksWhole'
    BY <2>1, <2>2 DEF LinksWhole
  <2>5. ReleaseKnown'
    BY <2>1, <2>3, InformedKept DEF ReleaseKnown
  <2> QED
    BY <2>4, <2>5
<1> QED
  BY <1>1, <1>2 DEF UserStep

\* An answer reaches every remote that is connected.
LEMMA BroadcastReaches ==
  ASSUME TypeOK, LinksWhole, NEW m \in ToClientMsg, Broadcast(m), NEW r \in Remote
  PROVE  toClient'[r] = IF r \in cUp THEN Append(toClient[r], m) ELSE toClient[r]
BY DEF LinksWhole, Broadcast, Reaches, Link, TypeOK

LEMMA BroadcastLinks ==
  ASSUME TypeOK, LinksWhole, NEW m \in ToClientMsg, Broadcast(m),
         UNCHANGED <<remotes, links>>
  PROVE  LinksWhole'
BY BroadcastReaches DEF LinksWhole, remotes, links

LEMMA InformedServer ==
  ASSUME TypeOK, LinksWhole, ReleaseKnown, NEW c \in Conn, ServerStep(c)
  PROVE  LinksWhole' /\ ReleaseKnown'
<1>0. /\ Head(toServer[c]) \in ToServerMsg /\ toServer[c] # <<>> /\ Pop(c)
      /\ UNCHANGED <<remotes, links>>
  BY PopTyped DEF ServerStep, HandleRequestIndex, HandleRequestMutex,
                  HandleRelease, ServerReads
<1>00. \A r \in Remote : toClient[r] \in Seq(ToClientMsg)
  BY DEF TypeOK
<1>1. CASE HandleRequestIndex(c)
  <2> DEFINE m == Initialize(Head(toServer[c]).proc, d_remoteIndex)
  <2>1. m \in ToClientMsg /\ m.type = "Initialize"
    <3>1. Head(toServer[c]).proc \in Process /\ d_remoteIndex \in Nat
      BY <1>0, <1>1 DEF HandleRequestIndex, ServerReads, ToServerMsg, ReleaseMsg, TypeOK
    <3> QED
      BY <3>1, MessagesTyped DEF Initialize
  <2>2. Broadcast(m) /\ srvState' = srvState /\ Head(toServer[c]).type = "RequestIndex"
    BY <1>1 DEF HandleRequestIndex, ServerReads
  <2> HIDE DEF m
  <2>3. LinksWhole'
    BY <1>0, <2>1, <2>2, BroadcastLinks
  <2>4. ASSUME NEW r \in Remote, Informed(r) PROVE Informed(r)'
    <3>1. Settled(r) => Settled(r)'
      BY <1>0, <2>2, RequestNotPopped, SettledKept DEF remotes
    <3>2. ASSUME NEW j \in 1..Len(toClient'[r])
          PROVE  \/ j \in 1..Len(toClient[r]) /\ toClient'[r][j] = toClient[r][j]
                 \/ toClient'[r][j].type = "Initialize"
      BY <2>1, <2>2, Broadcasted
    <3>3. ASSUME NEW i \in Nat, QuietAfter(r, i) PROVE QuietAfter(r, i)'
      BY <3>2, <3>3 DEF QuietAfter
    <3>4. ASSUME NEW i \in 1..Len(toClient[r])
          PROVE  i \in 1..Len(toClient'[r]) /\ toClient'[r][i] = toClient[r][i]
      <4>1. \/ toClient'[r] = toClient[r]
            \/ toClient'[r] = Append(toClient[r], m)
        BY <2>1, <2>2, BroadcastReaches
      <4> QED
        BY <1>00, <2>1, <4>1
    <3>5. CASE Settled(r) /\ QuietAfter(r, 0)
      BY <3>1, <3>3, <3>5 DEF Informed
    <3>6. ASSUME NEW i \in 1..Len(toClient[r]),
                 toClient[r][i] = ReleaseNotification, QuietAfter(r, i)
          PROVE  Informed(r)'
      BY <3>3, <3>4, <3>6 DEF Informed
    <3> QED
      BY <2>4, <3>5, <3>6 DEF Informed
  <2> QED
    BY <2>2, <2>3, <2>4 DEF ReleaseKnown
<1>2. CASE HandleRequestMutex(c)
  <2> DEFINE n == Head(toServer[c]).index
  <2>1. n \in Nat
    BY <1>0, <1>2 DEF HandleRequestMutex, ServerReads, ToServerMsg, ReleaseMsg
  <2>2. srvState' # "FREE"
    BY <1>2 DEF HandleRequestMutex
  <2>3. Broadcast(GrantRequest(n)) \/ Broadcast(DenyRequest(n))
    BY <1>2 DEF HandleRequestMutex
  <2>4. LinksWhole'
    BY <1>0, <2>1, <2>3, BroadcastLinks, MessagesTyped
  <2> QED
    BY <2>2, <2>4 DEF ReleaseKnown
<1>3. CASE HandleRelease(c)
  <2>1. Broadcast(ReleaseNotification) /\ ReleaseNotification \in ToClientMsg
    BY <1>3, MessagesTyped DEF HandleRelease
  <2>2. LinksWhole'
    BY <1>0, <2>1, BroadcastLinks
  <2>3. ASSUME NEW r \in Remote PROVE Informed(r)'
    <3>1. CASE r \in cUp
      <4>1. toClient'[r] = Append(toClient[r], ReleaseNotification)
        BY <2>1, <3>1, BroadcastReaches
      <4>0. PICK i \in Nat : i = Len(toClient[r]) + 1
        BY <1>00
      <4>2. /\ i \in 1..Len(toClient'[r]) /\ i = Len(toClient'[r])
            /\ toClient'[r][i] = ReleaseNotification
        BY <1>00, <2>1, <4>0, <4>1
      <4>3. QuietAfter(r, i)'
        BY <4>2 DEF QuietAfter
      <4>4. \E j \in 1..Len(toClient'[r]) :
              toClient'[r][j] = ReleaseNotification /\ QuietAfter(r, j)'
        BY <4>2, <4>3
      <4> QED
        BY <4>4 DEF Informed, ReleaseNotification
    <3>2. CASE r \notin cUp
      <4>1. toClient'[r] = <<>> /\ state'[r] = "AVAILABLE"
        BY <1>0, <2>2, <3>2 DEF LinksWhole, links
      <4>2. QuietAfter(r, 0)'
        BY <4>1 DEF QuietAfter
      <4> QED
        BY <4>1, <4>2 DEF Informed, Settled
    <3> QED
      BY <3>1, <3>2
  <2> QED
    BY <2>2, <2>3 DEF ReleaseKnown
<1> QED
  BY <1>1, <1>2, <1>3 DEF ServerStep

\* What the message a remote reads leaves behind.
LEMMA ReadInformed ==
  ASSUME TypeOK, NEW s \in Remote, toClient[s] # <<>>, Take(s), Informed(s)
  PROVE  \/ Informed(s)'
         \/ Head(toClient[s]) = ReleaseNotification /\ QuietAfter(s, 0)'
         \/ /\ Settled(s) /\ QuietAfter(s, 0)'
            /\ Head(toClient[s]).type = "Initialize"
<1>1. /\ Head(toClient[s]) = toClient[s][1] /\ 1 \in 1..Len(toClient[s])
      /\ \A i \in 1..Len(toClient'[s]) :
           i + 1 \in 1..Len(toClient[s]) /\ toClient'[s][i] = toClient[s][i + 1]
  BY Taken
<1>2. ASSUME NEW i \in Nat, QuietAfter(s, i + 1) PROVE QuietAfter(s, i)'
  BY <1>1, <1>2 DEF QuietAfter
<1>3. CASE Settled(s) /\ QuietAfter(s, 0)
  <2>1. QuietAfter(s, 1) /\ Head(toClient[s]).type = "Initialize"
    BY <1>1, <1>3 DEF QuietAfter
  <2> QED
    BY <1>2, <1>3, <2>1
<1>4. ASSUME NEW i \in 1..Len(toClient[s]),
             toClient[s][i] = ReleaseNotification, QuietAfter(s, i)
      PROVE  \/ Informed(s)'
             \/ Head(toClient[s]) = ReleaseNotification /\ QuietAfter(s, 0)'
  <2>1. CASE i = 1
    BY <1>1, <1>2, <1>4, <2>1
  <2>2. CASE i # 1
    <3>1. toClient[s] \in Seq(ToClientMsg)
          /\ toClient' = [toClient EXCEPT ![s] = Tail(@)]
      BY DEF TypeOK, Take
    <3>2. toClient'[s] = Tail(toClient[s])
      BY <3>1 DEF TypeOK
    <3>3. PICK j \in Nat : i = j + 1 /\ j \in 1..Len(toClient'[s])
      BY <2>2, <3>1, <3>2
    <3>4. toClient'[s][j] = ReleaseNotification /\ QuietAfter(s, j)'
      BY <1>1, <1>2, <1>4, <3>3
    <3> QED
      BY <3>3, <3>4 DEF Informed, ReleaseNotification
  <2> QED
    BY <2>1, <2>2
<1> QED
  BY <1>3, <1>4 DEF Informed

LEMMA InformedRemote ==
  ASSUME TypeOK, LinksWhole, ReleaseKnown, NEW s \in Remote, RemoteStep(s)
  PROVE  LinksWhole' /\ ReleaseKnown'
<1>1. s \in cUp /\ toClient[s] # <<>> /\ Take(s)
      /\ UNCHANGED <<srvState, cUp, srvUp, session>>
  BY DEF RemoteStep, HandleInitialize, HandleGrantRequest, HandleDenyRequest,
         HandleReleaseNotification, RemoteReads, server, links
<1>2. /\ \A r \in Remote \ {s} : /\ state'[r] = state[r]
                                 /\ d_myIndex'[r] = d_myIndex[r]
      /\ state \in [Remote -> {"OURS", "REQUESTING", "AVAILABLE", "HELD_REMOTELY"}]
  BY DEF RemoteStep, HandleInitialize, HandleGrantRequest, HandleDenyRequest,
         HandleReleaseNotification, SendRequest, TypeOK
<1>3. \A r \in Remote \ {s} : toClient'[r] = toClient[r]
  BY <1>1, Taken
<1>4. LinksWhole'
  BY <1>1, <1>2, <1>3 DEF LinksWhole
<1>5. ASSUME NEW r \in Remote PROVE RequestUnderWay(r) => RequestUnderWay(r)'
  <2>1. CASE toServer' = toServer
    BY <2>1 DEF RequestUnderWay
  <2>2. CASE toServer' # toServer
    <3>1. HandleInitialize(s) /\ SendRequest(s, Head(toClient[s]).index)
      BY <2>2 DEF RemoteStep, HandleInitialize, HandleGrantRequest,
                  HandleDenyRequest, HandleReleaseNotification
    <3>2. Head(toClient[s]).index \in Nat
      BY <1>1, <3>1, TakeTyped DEF HandleInitialize, RemoteReads, ToClientMsg,
                                   ReleaseNotification
    <3> QED
      BY <3>1, <3>2, RequestSent, MessagesTyped DEF SendRequest
  <2> QED
    BY <2>1, <2>2
<1>6. ASSUME NEW r \in Remote \ {s}, Informed(r) PROVE Informed(r)'
  BY <1>2, <1>3, <1>5, <1>6, SettledKept, InformedKept
<1>7. ASSUME Informed(s) PROVE Informed(s)'
  <2>1. CASE Head(toClient[s]) = ReleaseNotification /\ QuietAfter(s, 0)'
    <3>1. HandleReleaseNotification(s)
      BY <2>1 DEF RemoteStep, HandleInitialize, HandleGrantRequest,
                  HandleDenyRequest, RemoteReads, ReleaseNotification
    <3>2. state'[s] = "AVAILABLE"
      BY <1>2, <3>1 DEF HandleReleaseNotification
    <3> QED
      BY <2>1, <3>2 DEF Informed, Settled
  <2>2. CASE /\ Settled(s) /\ QuietAfter(s, 0)'
             /\ Head(toClient[s]).type = "Initialize"
    <3>1. HandleInitialize(s)
      BY <2>2 DEF RemoteStep, HandleGrantRequest, HandleDenyRequest,
                  HandleReleaseNotification, RemoteReads
    <3>2. Settled(s)'
      <4>1. CASE state' = state
        BY <1>5, <2>2, <4>1, SettledKept
      <4>2. CASE state' # state
        <5>1. SendRequest(s, Head(toClient[s]).index)
          BY <3>1, <4>2 DEF HandleInitialize
        <5>2. Head(toClient[s]).index \in Nat
          BY <1>1, <2>2, TakeTyped DEF ToClientMsg, ReleaseNotification
        <5>3. RequestUnderWay(s)'
          BY <1>1, <5>1, <5>2, RequestPacked DEF SendRequest
        <5>4. state'[s] = "REQUESTING"
          BY <1>2, <5>1 DEF SendRequest
        <5> QED
          BY <5>3, <5>4 DEF Settled
      <4> QED
        BY <4>1, <4>2
    <3> QED
      BY <2>2, <3>2 DEF Informed
  <2> QED
    BY <1>1, <1>7, <2>1, <2>2, ReadInformed
<1> QED
  BY <1>1, <1>4, <1>6, <1>7 DEF ReleaseKnown

LEMMA InformedConnect ==
  ASSUME TypeOK, LinksWhole, ReleaseKnown, NEW s \in Remote, Connect(s)
  PROVE  LinksWhole' /\ ReleaseKnown'
<1>1. /\ s \notin cUp /\ session' = [session EXCEPT ![s] = @ + 1]
      /\ cUp' = cUp \cup {s} /\ srvUp' = srvUp \cup {<<s, session[s] + 1>>}
      /\ UNCHANGED <<srvState, state, d_myIndex, toClient>>
  BY DEF Connect, remotes
<1>2. session[s] = 0 /\ d_myIndex[s] = -1 /\ session \in [Remote -> 0..MaxSession]
  BY <1>1 DEF LinksWhole, TypeOK
<1>3. LinksWhole'
  <2>1. session'[s] = 1 /\ <<s, 1>> \in srvUp'
    BY <1>1, <1>2
  <2>2. \A r \in Remote \ {s} : session'[r] = session[r] /\ (r \in cUp' <=> r \in cUp)
    BY <1>1, <1>2
  <2>3. srvUp \subseteq srvUp'
    BY <1>1
  <2> QED
    BY <1>1, <2>1, <2>2, <2>3 DEF LinksWhole
<1>4. ASSUME NEW r \in Remote, Informed(r) PROVE Informed(r)'
  <2>1. CASE r = s
    <3>1. toClient'[s] = <<>> /\ state'[s] = "AVAILABLE"
      BY <1>1 DEF LinksWhole
    <3>2. QuietAfter(s, 0)'
      BY <3>1 DEF QuietAfter
    <3> QED
      BY <2>1, <3>1, <3>2 DEF Informed, Settled
  <2>2. CASE r # s
    <3>1. \A k \in Session : toServer'[<<r, k>>] = toServer[<<r, k>>]
      BY <1>2, <2>2 DEF Connect, TypeOK, Conn
    <3>2. RequestUnderWay(r) => RequestUnderWay(r)'
      BY <3>1 DEF RequestUnderWay
    <3> QED
      BY <1>1, <1>4, <3>2, SettledKept, InformedKept
  <2> QED
    BY <2>1, <2>2
<1> QED
  BY <1>1, <1>3, <1>4 DEF ReleaseKnown

\* While no connection breaks, a release of the lock is the last that every
\* remote is told of it, or every remote knows.
THEOREM ReleasesAreKnown == Init /\ [][Work]_vars => [](LinksWhole /\ ReleaseKnown)
<1>1. Init => LinksWhole /\ ReleaseKnown
  BY DEF Init, LinksWhole, ReleaseKnown, Informed, Settled, QuietAfter
<1>2. TypeOK /\ LinksWhole /\ ReleaseKnown /\ [Work]_vars
        => LinksWhole' /\ ReleaseKnown'
  <2> SUFFICES ASSUME TypeOK, LinksWhole, ReleaseKnown, [Work]_vars
               PROVE  LinksWhole' /\ ReleaseKnown'
    OBVIOUS
  <2>1. CASE Work
    BY <2>1, InformedUser, InformedServer, InformedRemote, InformedConnect DEF Work
  <2>2. CASE UNCHANGED vars
    BY <2>2 DEF vars, server, remotes, links, LinksWhole, ReleaseKnown, Informed,
                Settled, QuietAfter, RequestUnderWay
  <2> QED
    BY <2>1, <2>2
<1>3. TypeOK /\ [Work]_vars => TypeOK'
  BY TypeStep DEF Next
<1> QED
  BY <1>1, <1>2, <1>3, TypeInit, PTL

\* While no connection breaks: once every message has been read, the remotes
\* agree with the server that a free lock is available, so that nobody missed
\* a release; for any remotes, also several in one process, and any requests.
THEOREM FreeIsKnownHolds == ReliableSpec => []FreeIsKnown
<1>1. LinksWhole /\ ReleaseKnown => FreeIsKnown
  <2> SUFFICES ASSUME ReleaseKnown, NothingUnderWay, srvState = "FREE",
                      NEW r \in Remote
               PROVE  state[r] = "AVAILABLE"
    BY DEF FreeIsKnown
  <2>1. toClient[r] = <<>> /\ \A k \in Session : toServer[<<r, k>>] = <<>>
    BY DEF NothingUnderWay, Conn
  <2>2. Settled(r)
    BY <2>1 DEF ReleaseKnown, Informed
  <2>3. \A k \in Session : 1..Len(toServer[<<r, k>>]) = {}
    BY <2>1
  <2>4. ~RequestUnderWay(r)
    BY <2>3 DEF RequestUnderWay
  <2> QED
    BY <2>2, <2>4 DEF Settled
<1> QED
  BY <1>1, ReleasesAreKnown, PTL DEF ReliableSpec
=============================================================================
