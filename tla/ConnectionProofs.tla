-------------------------- MODULE ConnectionProofs --------------------------
(* Theorems about Connection, for every set of clients and sockets. *)
EXTENDS Connection, FiniteSetTheorems, TLAPS

-----------------------------------------------------------------------------
(* Types.  The socket of an endpoint that is past TRYING_TO_CONNECT is a     *)
(* real one: CliDrop closes sock[c].                                         *)

HasSock == \A c \in Client : cli[c] # "TRYING_TO_CONNECT" => sock[c] \in Sock

TypeInv == TypeOK /\ HasSock

LEMMA TypeInit == Init => TypeInv
<1>1. Init => inUse \in BOOLEAN
  BY Zenon DEF Init
<1>2. (CHOOSE c \in Client : TRUE) \in Client
  BY ConnectionAssumption
<1> QED
  BY <1>1, <1>2 DEF Init, TypeInv, TypeOK, HasSock

\* Every step keeps the types, and the sockets of the endpoints real.
LEMMA TypeStep == TypeInv /\ [Next]_vars => TypeInv'
<1> SUFFICES ASSUME TypeInv, [Next]_vars PROVE TypeInv'
  OBVIOUS
<1> USE ConnectionAssumption DEF TypeInv, TypeOK, HasSock
<1>1. ASSUME NEW c \in Client, ClientLob(c) PROVE TypeInv'
  BY <1>1 DEF ClientLob, srvVars, cliVars
<1>2. ASSUME NEW c \in Client, ClientAccept(c) PROVE TypeInv'
  BY <1>2 DEF ClientAccept, QueuedAtClient, srvVars
<1>3. ASSUME NEW c \in Client, ClientTcpConnect(c) PROVE TypeInv'
  BY <1>3 DEF ClientTcpConnect, Establish
<1>4. ASSUME NEW c \in Client, ClientTryFails(c) PROVE TypeInv'
  BY <1>4 DEF ClientTryFails, CliAdd, Fault, QueuedAtClient, srvVars
<1>5. ASSUME NEW c \in Client, ClientCookie(c) PROVE TypeInv'
  BY <1>5 DEF ClientCookie, CliAdd, srvVars
<1>6. ASSUME NEW c \in Client, ClientHandshakeFails(c) PROVE TypeInv'
  BY <1>6 DEF ClientHandshakeFails, CliDrop, CliAdd, Fault, srvVars
<1>7. ASSUME NEW c \in Client, ClientDrop(c) PROVE TypeInv'
  BY <1>7 DEF ClientDrop, CliDrop, CliAdd, Fault, srvVars
<1>8. ASSUME NEW c \in Client, ServeLob(c) PROVE TypeInv'
  BY <1>8 DEF ServeLob, Establish
<1>9. ASSUME NEW c \in Client, IgnoreLob(c) \/ LoseLob(c) PROVE TypeInv'
  BY <1>9 DEF IgnoreLob, LoseLob, srvVars, cliVars
<1>10. ASSUME NEW c \in Client, ServeLobFails(c) PROVE TypeInv'
  BY <1>10 DEF ServeLobFails, SrvLost, Fault, cliVars
<1>11. ASSUME NEW s \in Sock,
              ServerAccept(s) \/ ServerIgnores(s) \/ ServerAcceptFails(s)
       PROVE  TypeInv'
  BY <1>11 DEF ServerAccept, ServerIgnores, ServerAcceptFails, Fault, netVars,
               cliVars
<1>12. ASSUME NEW s \in Sock, ServerCookie(s) PROVE TypeInv'
  BY <1>12 DEF ServerCookie, SrvGot, cliVars
<1>13. ASSUME NEW s \in Sock, ServerHandshakeFails(s) PROVE TypeInv'
  BY <1>13 DEF ServerHandshakeFails, SrvDrop, SrvLost, Fault, cliVars
<1>14. ASSUME NEW s \in Sock, ServerDrop(s) PROVE TypeInv'
  BY <1>14 DEF ServerDrop, SrvDrop, SrvLost, Fault, cliVars
<1>15. ASSUME ServerRestart PROVE TypeInv'
  <2>1. inUse' \in BOOLEAN
    BY <1>15, Zenon DEF ServerRestart
  <2> QED
    BY <1>15, <2>1 DEF ServerRestart, Fault, cliVars
<1>16. ASSUME UNCHANGED vars PROVE TypeInv'
  BY <1>16 DEF vars, netVars, srvVars, cliVars
<1> QED
  BY <1>1, <1>2, <1>3, <1>4, <1>5, <1>6, <1>7, <1>8, <1>9, <1>10, <1>11,
     <1>12, <1>13, <1>14, <1>15, <1>16 DEF Next, ClientStep, ServerStep

\* Every variable keeps its type, for any number of clients and sockets.
THEOREM TypeCorrect == Spec => []TypeOK
<1>1. TypeInv => TypeOK
  BY DEF TypeInv
<1> QED
  BY <1>1, TypeInit, TypeStep, PTL DEF Spec

-----------------------------------------------------------------------------
(* The counters.                                                            *)

LEMMA ConnectedFinite == IsFiniteSet(Connected) /\ Cardinality(Connected) \in Nat
<1>1. Connected \subseteq Sock
  BY DEF Connected
<1> QED
  BY <1>1, ConnectionAssumption, FS_Subset, FS_CardinalityType

LEMMA OneMore ==
  ASSUME TypeInv, NEW s \in Sock, srv[s] # "CONNECTED",
         srv' = [srv EXCEPT ![s] = "CONNECTED"]
  PROVE  Cardinality(Connected') = Cardinality(Connected) + 1
<1>1. Connected' = Connected \cup {s}
  BY DEF Connected, TypeInv, TypeOK
<1>2. s \notin Connected
  BY DEF Connected
<1> QED
  BY <1>1, <1>2, ConnectedFinite, FS_AddElement

LEMMA OneLess ==
  ASSUME TypeInv, NEW s \in Sock, srv[s] = "CONNECTED",
         srv' = [srv EXCEPT ![s] = "none"]
  PROVE  Cardinality(Connected') = Cardinality(Connected) - 1
<1>1. Connected' = Connected \ {s}
  BY DEF Connected, TypeInv, TypeOK
<1>2. s \in Connected
  BY DEF Connected
<1> QED
  BY <1>1, <1>2, ConnectedFinite, FS_RemoveElement

\* A step that moves an end between states other than CONNECTED.
LEMMA NoneMore ==
  ASSUME TypeInv, NEW s \in Sock, srv[s] # "CONNECTED", NEW st, st # "CONNECTED",
         srv' = [srv EXCEPT ![s] = st]
  PROVE  Connected' = Connected
BY DEF Connected, TypeInv, TypeOK

CliAccounts(c) ==
  cliCount[c] = (IF cli[c] = "CONNECTED" THEN 1 ELSE 0) - cliFailed[c]

SrvAccounts == srvCount = Cardinality(Connected) - failed

\* What FirstLastBracket needs of a step: the counts are right before it.
CountInv == /\ TypeInv /\ FirstLastBracket
            /\ SrvAccounts /\ \A c \in Client : CliAccounts(c)

LEMMA CountInit == Init => CountInv
<1> SUFFICES ASSUME Init PROVE CountInv
  OBVIOUS
<1>1. Connected = {}
  BY DEF Init, Connected
<1>2. SrvAccounts
  BY <1>1, FS_EmptySet DEF Init, SrvAccounts
<1>3. FirstLastBracket
  BY <1>1, Zenon DEF Init, FirstLastBracket
<1>4. \A c \in Client : CliAccounts(c)
  BY DEF Init, CliAccounts
<1> QED
  BY <1>2, <1>3, <1>4, TypeInit DEF CountInv

\* A step that leaves the server's endpoints and counters alone.
LEMMA ServerSame ==
  ASSUME CountInv, UNCHANGED <<srvCount, failed, inUse>>, Connected' = Connected
  PROVE  SrvAccounts' /\ FirstLastBracket'
BY DEF CountInv, SrvAccounts, FirstLastBracket

\* A step that leaves the clients' endpoints and counters alone.
LEMMA ClientsSame ==
  ASSUME CountInv, UNCHANGED <<cli, cliCount, cliFailed>>
  PROVE  \A c \in Client : CliAccounts(c)'
BY DEF CountInv, CliAccounts

\* A step that moves one client's endpoint and its counter accordingly.
LEMMA OneClient ==
  ASSUME CountInv, NEW c \in Client, NEW st, NEW n \in Int, NEW m \in Nat,
         cli' = [cli EXCEPT ![c] = st],
         cliCount' = [cliCount EXCEPT ![c] = @ + n],
         cliFailed' = [cliFailed EXCEPT ![c] = @ + m],
         n + m = (IF st = "CONNECTED" THEN 1 ELSE 0)
                 - (IF cli[c] = "CONNECTED" THEN 1 ELSE 0)
  PROVE  \A d \in Client : CliAccounts(d)'
BY DEF CountInv, CliAccounts, TypeInv, TypeOK

\* SrvGot and SrvLost keep FirstLastBracket: while no handshake has failed the
\* counter is the number of CONNECTED endpoints, so it is zero exactly when
\* got_first_connection is due and one when dropped_last_connection is.
LEMMA GotFirst ==
  ASSUME CountInv, NEW s \in Sock, srv[s] # "CONNECTED", SrvGot,
         srv' = [srv EXCEPT ![s] = "CONNECTED"], UNCHANGED failed
  PROVE  SrvAccounts' /\ FirstLastBracket'
<1>1. Cardinality(Connected') = Cardinality(Connected) + 1
  BY OneMore DEF CountInv
<1>2. SrvAccounts'
  BY <1>1, ConnectedFinite DEF CountInv, SrvAccounts, SrvGot, TypeInv, TypeOK
<1>3. Connected' # {}
  BY DEF Connected, CountInv, TypeInv, TypeOK
<1>4. failed = 0 => (inUse \/ srvCount = 0)
  <2>1. failed = 0 /\ Connected = {} => srvCount = 0
    BY FS_EmptySet DEF CountInv, SrvAccounts
  <2> QED
    BY <2>1 DEF CountInv, FirstLastBracket
<1>5. failed = 0 => inUse'
  BY <1>4, Zenon DEF SrvGot
<1> QED
  BY <1>2, <1>3, <1>5, Zenon DEF FirstLastBracket

LEMMA DroppedLast ==
  ASSUME CountInv, NEW s \in Sock, srv[s] = "CONNECTED", SrvLost,
         srv' = [srv EXCEPT ![s] = "none"], UNCHANGED failed
  PROVE  SrvAccounts' /\ FirstLastBracket'
<1>1. Cardinality(Connected') = Cardinality(Connected) - 1
  BY OneLess DEF CountInv
<1>2. SrvAccounts'
  BY <1>1, ConnectedFinite DEF CountInv, SrvAccounts, SrvLost, TypeInv, TypeOK
<1>3. IsFiniteSet(Connected')
  <2>1. Connected' \subseteq Connected
    BY DEF Connected, CountInv, TypeInv, TypeOK
  <2> QED
    BY <2>1, ConnectedFinite, FS_Subset
<1>4. failed = 0 => (srvCount = 1 <=> Connected' = {})
  BY <1>1, <1>3, ConnectedFinite, FS_EmptySet
     DEF CountInv, SrvAccounts, TypeInv, TypeOK
<1>5. failed = 0 => inUse
  <2>1. Connected # {}
    BY DEF Connected
  <2> QED
    BY <2>1 DEF CountInv, FirstLastBracket
<1>6. failed = 0 => (inUse' <=> Connected' # {})
  BY <1>4, <1>5, Zenon DEF SrvLost
<1> QED
  BY <1>2, <1>6, Zenon DEF FirstLastBracket

\* An endpoint that was never CONNECTED is counted down.
LEMMA NeverCounted ==
  ASSUME CountInv, Connected' = Connected, SrvLost, failed' = failed + 1
  PROVE  SrvAccounts' /\ FirstLastBracket'
<1>1. SrvAccounts'
  BY ConnectedFinite DEF CountInv, SrvAccounts, SrvLost, TypeInv, TypeOK
<1>2. failed' # 0
  BY DEF CountInv, TypeInv, TypeOK
<1> QED
  BY <1>1, <1>2 DEF FirstLastBracket

LEMMA CountStep == CountInv /\ [Next]_vars => CountInv'
<1> SUFFICES ASSUME CountInv, [Next]_vars PROVE CountInv'
  OBVIOUS
<1>0. TypeInv /\ TypeInv'
  BY TypeStep DEF CountInv
<1> DEFINE Server  == SrvAccounts' /\ FirstLastBracket'
           Clients == \A c \in Client : CliAccounts(c)'
<1>1. ASSUME NEW c \in Client, ClientLob(c) \/ IgnoreLob(c) \/ LoseLob(c)
      PROVE  Server /\ Clients
  <2>1. UNCHANGED <<srvVars, cliVars>> /\ Connected' = Connected
    BY <1>1 DEF ClientLob, IgnoreLob, LoseLob, srvVars, Connected
  <2> QED
    BY <2>1, ServerSame, ClientsSame DEF srvVars, cliVars
<1>2. ASSUME NEW c \in Client, ClientAccept(c) PROVE Server /\ Clients
  <2>1. Server
    BY <1>2, ServerSame DEF ClientAccept, srvVars, Connected
  <2>2. Clients
    BY <1>2, <1>0 DEF ClientAccept, CountInv, CliAccounts, TypeInv, TypeOK
  <2> QED
    BY <2>1, <2>2
<1>3. ASSUME NEW c \in Client, ClientTcpConnect(c) PROVE Server /\ Clients
  <2>1. PICK s \in Sock : Establish(s, c, "QUEUED", "OPEN")
    BY <1>3 DEF ClientTcpConnect
  <2>2. Connected' = Connected
    BY <2>1, <1>0, NoneMore DEF Establish, Unused
  <2>3. Server
    BY <1>3, <2>2, ServerSame DEF ClientTcpConnect
  <2>4. Clients
    BY <1>3, <1>0 DEF ClientTcpConnect, CountInv, CliAccounts, TypeInv, TypeOK
  <2> QED
    BY <2>3, <2>4
<1>4. ASSUME NEW c \in Client, ClientTryFails(c) PROVE Server /\ Clients
  <2>1. Server
    BY <1>4, ServerSame DEF ClientTryFails, srvVars, Connected
  <2>2. Clients
    BY <1>4, <1>0 DEF ClientTryFails, CliAdd, CountInv, CliAccounts, TypeInv, TypeOK
  <2> QED
    BY <2>1, <2>2
<1>5. ASSUME NEW c \in Client, ClientCookie(c) PROVE Server /\ Clients
  <2>1. Server
    BY <1>5, ServerSame DEF ClientCookie, srvVars, Connected
  <2>2. Clients
    BY <1>5, <1>0 DEF ClientCookie, CliAdd, CountInv, CliAccounts, TypeInv, TypeOK
  <2> QED
    BY <2>1, <2>2
<1>6. ASSUME NEW c \in Client, ClientHandshakeFails(c) \/ ClientDrop(c)
      PROVE  Server /\ Clients
  <2>1. Server
    BY <1>6, ServerSame
       DEF ClientHandshakeFails, ClientDrop, CliDrop, srvVars, Connected
  <2>2. Clients
    BY <1>6, <1>0 DEF ClientHandshakeFails, ClientDrop, CliDrop, CliAdd,
                      CountInv, CliAccounts, TypeInv, TypeOK
  <2> QED
    BY <2>1, <2>2
<1>7. ASSUME NEW c \in Client, ServeLob(c) PROVE Server /\ Clients
  <2>1. PICK s \in Sock : Establish(s, c, "COOKIE_PENDING", "QUEUED")
    BY <1>7 DEF ServeLob
  <2>2. Connected' = Connected
    BY <2>1, <1>0, NoneMore DEF Establish, Unused
  <2> QED
    BY <1>7, <2>2, ServerSame, ClientsSame DEF ServeLob
<1>8. ASSUME NEW c \in Client, ServeLobFails(c) PROVE Server /\ Clients
  <2>1. Connected' = Connected
    BY <1>8 DEF ServeLobFails, Connected
  <2> QED
    BY <1>8, <2>1, NeverCounted, ClientsSame DEF ServeLobFails, cliVars
<1>9. ASSUME NEW s \in Sock,
             ServerAccept(s) \/ ServerIgnores(s) \/ ServerAcceptFails(s)
      PROVE  Server /\ Clients
  <2>1. Connected' = Connected
    BY <1>9, <1>0, NoneMore DEF ServerAccept, ServerIgnores, ServerAcceptFails
  <2> QED
    BY <1>9, <2>1, ServerSame, ClientsSame
       DEF ServerAccept, ServerIgnores, ServerAcceptFails, cliVars
<1>10. ASSUME NEW s \in Sock, ServerCookie(s) PROVE Server /\ Clients
  BY <1>10, GotFirst, ClientsSame DEF ServerCookie, cliVars
<1>11. ASSUME NEW s \in Sock, ServerHandshakeFails(s) PROVE Server /\ Clients
  <2>1. Connected' = Connected
    BY <1>11, <1>0, NoneMore DEF ServerHandshakeFails, SrvDrop
  <2> QED
    BY <1>11, <2>1, NeverCounted, ClientsSame
       DEF ServerHandshakeFails, SrvDrop, cliVars
<1>12. ASSUME NEW s \in Sock, ServerDrop(s) PROVE Server /\ Clients
  BY <1>12, DroppedLast, ClientsSame DEF ServerDrop, SrvDrop, cliVars
<1>13. ASSUME ServerRestart PROVE Server /\ Clients
  <2>1. Connected' = {}
    BY <1>13 DEF ServerRestart, Connected
  <2>2. SrvAccounts'
    BY <1>13, <2>1, FS_EmptySet DEF ServerRestart, SrvAccounts
  <2>3. FirstLastBracket'
    BY <1>13, <2>1, Zenon DEF ServerRestart, FirstLastBracket
  <2> QED
    BY <1>13, <2>2, <2>3, ClientsSame DEF ServerRestart, cliVars
<1>14. ASSUME UNCHANGED vars PROVE Server /\ Clients
  <2>1. UNCHANGED <<srvVars, cliVars>> /\ Connected' = Connected
    BY <1>14 DEF vars, srvVars, Connected
  <2> QED
    BY <2>1, ServerSame, ClientsSame DEF srvVars, cliVars
<1>15. Server /\ Clients
  BY <1>1, <1>2, <1>3, <1>4, <1>5, <1>6, <1>7, <1>8, <1>9, <1>10, <1>11,
     <1>12, <1>13, <1>14 DEF Next, ClientStep, ServerStep
<1> QED
  BY <1>0, <1>15 DEF CountInv

LEMMA CountAlways == Spec => []CountInv
BY CountInit, CountStep, PTL DEF Spec

\* d_numConnectedEndpoints is the number of CONNECTED endpoints less the
\* attempts and handshakes that ever failed (vrpn_Connection.C:3887, 4158).
THEOREM CountsAreAccountedFor == Spec => []CountAccounts
<1>1. CountInv => CountAccounts
  BY DEF CountInv, CountAccounts, SrvAccounts, CliAccounts
<1> QED
  BY <1>1, CountAlways, PTL

\* As long as no handshake fails, got_first_connection and
\* dropped_last_connection bracket the time some client is connected.
THEOREM FirstAndLastAreRight == Spec => []FirstLastBracket
<1>1. CountInv => FirstLastBracket
  BY DEF CountInv
<1> QED
  BY <1>1, CountAlways, PTL

-----------------------------------------------------------------------------
(* The two ends of a TCP connection.  An endpoint and the open end of its   *)
(* socket belong to each other, and a cookie is under way only from an end  *)
(* that the program behind it has accepted.                                 *)

EndsMatch ==
  /\ \A c \in Client : cli[c] # "TRYING_TO_CONNECT" =>
       cliEnd[sock[c]] = "OPEN" /\ peer[sock[c]] = c
  /\ \A s \in Sock : cliEnd[s] = "OPEN" =>
       sock[peer[s]] = s /\ cli[peer[s]] # "TRYING_TO_CONNECT"

CookiesAreSent ==
  /\ \A s \in toSrv : cliEnd[s] # "QUEUED"
  /\ \A s \in toCli : srv[s] \notin {"QUEUED", "IGNORED"}

SocketInv == TypeInv /\ EndsMatch /\ CookiesAreSent /\ BothTookPart

LEMMA SocketInit == Init => SocketInv
BY TypeInit DEF Init, SocketInv, EndsMatch, CookiesAreSent, BothTookPart, Connected

LEMMA SocketStep == SocketInv /\ [Next]_vars => SocketInv'
<1> SUFFICES ASSUME SocketInv, [Next]_vars PROVE SocketInv'
  OBVIOUS
<1>0. TypeInv'
  BY TypeStep DEF SocketInv
<1> DEFINE Goal == EndsMatch' /\ CookiesAreSent' /\ BothTookPart'
<1> USE <1>0 DEF SocketInv, TypeInv, TypeOK, HasSock, EndsMatch, CookiesAreSent,
                 BothTookPart, Connected
<1>1. ASSUME NEW c \in Client, ClientLob(c) \/ IgnoreLob(c) \/ LoseLob(c)
      PROVE  Goal
  BY <1>1 DEF ClientLob, IgnoreLob, LoseLob, srvVars, cliVars
<1>2. ASSUME NEW c \in Client, ClientAccept(c) PROVE Goal
  BY <1>2 DEF ClientAccept, QueuedAtClient, srvVars
<1>3. ASSUME NEW c \in Client, ClientTcpConnect(c) PROVE Goal
  BY <1>3 DEF ClientTcpConnect, Establish, Unused
<1>4. ASSUME NEW c \in Client, ClientTryFails(c) PROVE Goal
  BY <1>4 DEF ClientTryFails, QueuedAtClient, srvVars
<1>5. ASSUME NEW c \in Client, ClientCookie(c) PROVE Goal
  BY <1>5 DEF ClientCookie, srvVars
<1>6. ASSUME NEW c \in Client, ClientHandshakeFails(c) \/ ClientDrop(c) PROVE Goal
  BY <1>6 DEF ClientHandshakeFails, ClientDrop, CliDrop, srvVars
<1>7. ASSUME NEW c \in Client, ServeLob(c) PROVE Goal
  BY <1>7 DEF ServeLob, Establish, Unused
<1>8. ASSUME NEW c \in Client, ServeLobFails(c) PROVE Goal
  BY <1>8 DEF ServeLobFails, cliVars
<1>9. ASSUME NEW s \in Sock,
             ServerAccept(s) \/ ServerIgnores(s) \/ ServerAcceptFails(s)
      PROVE  Goal
  BY <1>9 DEF ServerAccept, ServerIgnores, ServerAcceptFails, netVars, cliVars
<1>10. ASSUME NEW s \in Sock, ServerCookie(s) PROVE Goal
  BY <1>10 DEF ServerCookie, cliVars
<1>11. ASSUME NEW s \in Sock, ServerHandshakeFails(s) \/ ServerDrop(s) PROVE Goal
  BY <1>11 DEF ServerHandshakeFails, ServerDrop, SrvDrop, cliVars
<1>12. ASSUME ServerRestart PROVE Goal
  BY <1>12 DEF ServerRestart, cliVars
<1>13. ASSUME UNCHANGED vars PROVE Goal
  BY <1>13 DEF vars, netVars, srvVars, cliVars
<1>14. Goal
  BY <1>1, <1>2, <1>3, <1>4, <1>5, <1>6, <1>7, <1>8, <1>9, <1>10, <1>11,
     <1>12, <1>13 DEF Next, ClientStep, ServerStep
<1> QED
  BY <1>14

LEMMA SocketAlways == Spec => []SocketInv
BY SocketInit, SocketStep, PTL DEF Spec

\* Both ends have taken part in the handshake of a connection in use: what an end
\* counts as connected the other has accepted, and a client's end is still open
\* (vrpn_Connection.C:3114-3143, 3830-3899).
THEOREM HandshakesAreMutual == Spec => []BothTookPart
<1>1. SocketInv => BothTookPart
  BY DEF SocketInv
<1> QED
  BY <1>1, SocketAlways, PTL

\* No endpoint of the server is left waiting for a client that has turned away
\* from it without closing its end.
THEOREM NobodyIsOrphaned == Spec => []NoOrphan
<1>1. SocketInv => NoOrphan
  BY DEF SocketInv, EndsMatch, NoOrphan, Endpoints
<1> QED
  BY <1>1, SocketAlways, PTL
=============================================================================
