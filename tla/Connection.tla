----------------------------- MODULE Connection -----------------------------
(***************************************************************************)
(* The life of the connections between one server (a vrpn_Connection_IP    *)
(* that listens) and its clients (vrpn_Connection_IPs with one endpoint    *)
(* each): vrpn_Connection.C, vrpn_EndpointContainer.C.                     *)
(*                                                                         *)
(* A client that is TRYING_TO_CONNECT lobs UDP requests at the server; the *)
(* server answers one by opening a TCP connection back to the port the     *)
(* client listens on.  A tcp-only client opens the TCP connection itself.  *)
(* Either way both ends then write a cookie and wait for the other's; the  *)
(* end that has read it is CONNECTED, fires got_connection and counts      *)
(* itself.  A BROKEN endpoint is dropped in the same pass of mainloop that *)
(* found it broken: at a client it goes back to TRYING_TO_CONNECT, at the  *)
(* server it is deleted.                                                   *)
(*                                                                         *)
(* A socket s in Sock is one TCP connection and is reused when both its    *)
(* ends are closed.  An end in state QUEUED is established in the kernel   *)
(* but not yet accepted by the program.                                    *)
(***************************************************************************)
EXTENDS Integers, FiniteSets

CONSTANTS Client,
          TcpOnly,       \* clients with d_tcp_only set
          Sock,          \* TCP connections that can exist at once
          NoSock,
          MaxEndpoints,  \* vrpn_MAX_ENDPOINTS
          Backlog,       \* pending connections listen() admits
          MaxFault      \* bound: attempts and handshakes that fail, connections
                        \* that break, restarts of the server process

ASSUME ConnectionAssumption ==
  /\ Client # {} /\ TcpOnly \subseteq Client
  /\ NoSock \notin Sock /\ IsFiniteSet(Sock)
  /\ MaxEndpoints \in Nat /\ Backlog \in Nat /\ MaxFault \in Nat

VARIABLES
  srv,        \* srv[s]: the server's end of s
  srvCount,   \* d_numConnectedEndpoints of the server
  cliEnd,     \* cliEnd[s]: the client's end of s
  peer,       \* peer[s]: the client at the other end of s
  cli,        \* cli[c]: status of the client's endpoint
  sock,       \* sock[c]: its d_tcpSocket
  cliCount,   \* d_numConnectedEndpoints of the client
  lobs,       \* clients whose UDP request waits at the server
  toCli, toSrv,  \* sockets whose cookie is under way to the client, server
  failed, cliFailed,  \* history: attempts and handshakes that failed at each end
  faults,     \* counter for the bound
  inUse       \* history: got_first_connection seen, dropped_last not yet

netVars == <<lobs, toCli, toSrv>>
srvVars == <<srv, srvCount, failed, inUse>>
cliVars == <<cli, sock, cliEnd, cliCount, cliFailed>>
vars    == <<netVars, srvVars, cliVars, peer, faults>>

Unused(s)  == srv[s] = "none" /\ cliEnd[s] = "none"
Endpoints  == {s \in Sock : srv[s] \in {"COOKIE_PENDING", "CONNECTED"}}
Connected  == {s \in Sock : srv[s] = "CONNECTED"}

\* EndpointContainer::full
Full == Cardinality(Endpoints) >= MaxEndpoints - 1

Init ==
  /\ srv = [s \in Sock |-> "none"] /\ cliEnd = [s \in Sock |-> "none"]
  /\ peer = [s \in Sock |-> CHOOSE c \in Client : TRUE]
  /\ cli = [c \in Client |-> "TRYING_TO_CONNECT"]
  /\ sock = [c \in Client |-> NoSock]
  /\ srvCount = 0 /\ cliCount = [c \in Client |-> 0]
  /\ lobs = {} /\ toCli = {} /\ toSrv = {}
  /\ failed = 0 /\ cliFailed = [c \in Client |-> 0] /\ inUse = FALSE
  /\ faults = 0

-----------------------------------------------------------------------------
(* The counters and the callbacks they decide on. *)

\* Mutant of SrvGot: the endpoint is not counted.
SrvGotUncounted == /\ inUse' = (inUse \/ srvCount = 0)
                   /\ UNCHANGED srvCount

\* finish_new_connection_setup, the end: got_first_connection is fired when
\* the count is zero, then the endpoint is counted.
SrvGot == /\ inUse' = (inUse \/ srvCount = 0)
          /\ srvCount' = srvCount + 1

\* Mutant of SrvLost: dropped_last_connection is fired at the wrong count.
SrvLostEarly == /\ srvCount' = srvCount - 1
                /\ inUse' = (inUse /\ srvCount # 2)

\* drop_connection, the end: the count goes down, whether or not the endpoint
\* had been counted, and dropped_last_connection is fired when it is zero.
SrvLost == /\ srvCount' = srvCount - 1
           /\ inUse' = (inUse /\ srvCount # 1)

CliAdd(c, n) == cliCount' = [cliCount EXCEPT ![c] = @ + n]

Fault == faults < MaxFault /\ faults' = faults + 1

\* The state of an unused socket s that c and the server now share.
Establish(s, c, srvState, cliState) ==
  /\ Unused(s)
  /\ srv' = [srv EXCEPT ![s] = srvState]
  /\ cliEnd' = [cliEnd EXCEPT ![s] = cliState]
  /\ peer' = [peer EXCEPT ![s] = c]

-----------------------------------------------------------------------------
(* The client's endpoint, status TRYING_TO_CONNECT. *)

QueuedAtClient(c) == {s \in Sock : cliEnd[s] = "QUEUED" /\ peer[s] = c}

\* Every two seconds, unless a connection is waiting to be accepted.
ClientLob(c) ==
  /\ cli[c] = "TRYING_TO_CONNECT" /\ c \notin TcpOnly
  /\ QueuedAtClient(c) = {} /\ c \notin lobs
  /\ lobs' = lobs \cup {c}
  /\ UNCHANGED <<toCli, toSrv, srvVars, cliVars, peer, faults>>

\* accept(), setup_new_connection: the cookie goes out.
ClientAccept(c) ==
  /\ cli[c] = "TRYING_TO_CONNECT" /\ c \notin TcpOnly
  /\ \E s \in QueuedAtClient(c) :
       /\ cliEnd' = [cliEnd EXCEPT ![s] = "OPEN"]
       /\ sock' = [sock EXCEPT ![c] = s]
       /\ toSrv' = toSrv \cup {s}
  /\ cli' = [cli EXCEPT ![c] = "COOKIE_PENDING"]
  /\ UNCHANGED <<lobs, toCli, srvVars, cliCount, cliFailed, peer, faults>>

\* connect_tcp_to the server, then as ClientAccept.
ClientTcpConnect(c) ==
  /\ cli[c] = "TRYING_TO_CONNECT" /\ c \in TcpOnly
  /\ Cardinality({s \in Sock : srv[s] = "QUEUED"}) < Backlog
  /\ \E s \in Sock :
       /\ Establish(s, c, "QUEUED", "OPEN")
       /\ sock' = [sock EXCEPT ![c] = s]
       /\ toSrv' = toSrv \cup {s}
       /\ toCli' = toCli \ {s}
  /\ cli' = [cli EXCEPT ![c] = "COOKIE_PENDING"]
  /\ UNCHANGED <<lobs, srvCount, failed, inUse, cliCount, cliFailed, faults>>

\* A request that cannot be lobbed, a listening socket that cannot be polled, a
\* connection that is accepted and closed again at once, a connect that fails:
\* each leaves the endpoint BROKEN without a handshake, so that it is dropped
\* (and counted down) and tries again.
ClientTryFails(c) ==
  /\ cli[c] = "TRYING_TO_CONNECT"
  /\ Fault
  /\ \/ UNCHANGED <<cliEnd, toCli>>
     \/ \E s \in QueuedAtClient(c) : /\ cliEnd' = [cliEnd EXCEPT ![s] = "none"]
                                    /\ toCli' = toCli \ {s}
  /\ CliAdd(c, -1)
  /\ cliFailed' = [cliFailed EXCEPT ![c] = @ + 1]
  /\ UNCHANGED <<lobs, toSrv, srvVars, cli, sock, peer>>

-----------------------------------------------------------------------------
(* The client's endpoint, status COOKIE_PENDING and CONNECTED. *)

\* poll_for_cookie, finish_new_connection_setup.
ClientCookie(c) ==
  /\ cli[c] = "COOKIE_PENDING" /\ sock[c] \in toCli
  /\ toCli' = toCli \ {sock[c]}
  /\ cli' = [cli EXCEPT ![c] = "CONNECTED"]
  /\ CliAdd(c, 1)
  /\ UNCHANGED <<lobs, toSrv, srvVars, sock, cliEnd, cliFailed, peer, faults>>

\* Mutant of CliDrop: the endpoint is not sent back to TRYING_TO_CONNECT.
CliDropBroken(c) ==
  /\ cliEnd' = [cliEnd EXCEPT ![sock[c]] = "none"]
  /\ toCli' = toCli \ {sock[c]}
  /\ sock' = [sock EXCEPT ![c] = NoSock]
  /\ cli' = [cli EXCEPT ![c] = "BROKEN"]
  /\ CliAdd(c, -1)
  /\ UNCHANGED <<lobs, toSrv, srvVars, peer>>

\* Mutant of CliDrop: the socket is forgotten but not closed.
CliDropLeaks(c) ==
  /\ toCli' = toCli \ {sock[c]}
  /\ sock' = [sock EXCEPT ![c] = NoSock]
  /\ cli' = [cli EXCEPT ![c] = "TRYING_TO_CONNECT"]
  /\ CliAdd(c, -1)
  /\ UNCHANGED <<lobs, toSrv, srvVars, cliEnd, peer>>

\* drop_connection at a client: close the socket, count down, try again.
CliDrop(c) ==
  /\ cliEnd' = [cliEnd EXCEPT ![sock[c]] = "none"]
  /\ toCli' = toCli \ {sock[c]}
  /\ sock' = [sock EXCEPT ![c] = NoSock]
  /\ cli' = [cli EXCEPT ![c] = "TRYING_TO_CONNECT"]
  /\ CliAdd(c, -1)
  /\ UNCHANGED <<lobs, toSrv, srvVars, peer>>

SrvGone(c) == srv[sock[c]] = "none"

\* No cookie comes any more, or a wrong one came.
ClientHandshakeFails(c) ==
  /\ cli[c] = "COOKIE_PENDING"
  /\ \/ SrvGone(c) /\ sock[c] \notin toCli /\ UNCHANGED faults
     \/ Fault
  /\ cliFailed' = [cliFailed EXCEPT ![c] = @ + 1]
  /\ CliDrop(c)

\* The server has closed its end, or the connection breaks.
ClientDrop(c) ==
  /\ cli[c] = "CONNECTED"
  /\ \/ SrvGone(c) /\ UNCHANGED faults
     \/ Fault
  /\ UNCHANGED cliFailed
  /\ CliDrop(c)

-----------------------------------------------------------------------------
(* server_check_for_incoming_connections. *)

\* The request of c is read; there is no room.
IgnoreLob(c) ==
  /\ c \in lobs /\ Full
  /\ lobs' = lobs \ {c}
  /\ UNCHANGED <<toCli, toSrv, srvVars, cliVars, peer, faults>>

\* The request of c is answered with a TCP connection and a cookie; every
\* other request that has arrived by then is thrown away.
ServeLob(c) ==
  /\ c \in lobs /\ ~Full
  /\ Cardinality(QueuedAtClient(c)) < Backlog
  /\ \E s \in Sock :
       /\ Establish(s, c, "COOKIE_PENDING", "QUEUED")
       /\ toCli' = toCli \cup {s}
       /\ toSrv' = toSrv \ {s}
  /\ lobs' = {}
  /\ UNCHANGED <<srvCount, failed, inUse, cli, sock, cliCount, cliFailed, faults>>

\* The server cannot connect back: handle_connection drops the new endpoint.
ServeLobFails(c) ==
  /\ c \in lobs /\ ~Full
  /\ Fault
  /\ lobs' = {}
  /\ SrvLost /\ failed' = failed + 1
  /\ UNCHANGED <<toCli, toSrv, srv, cliVars, peer>>

\* A tcp-only client's connection is accepted, the cookie goes out.
ServerAccept(s) ==
  /\ srv[s] = "QUEUED" /\ ~Full
  /\ srv' = [srv EXCEPT ![s] = "COOKIE_PENDING"]
  /\ toCli' = IF cliEnd[s] = "OPEN" THEN toCli \cup {s} ELSE toCli
  /\ UNCHANGED <<lobs, toSrv, srvCount, failed, inUse, cliVars, peer, faults>>

\* The connection is accepted and, for an error, closed again at once.
ServerAcceptFails(s) ==
  /\ srv[s] = "QUEUED"
  /\ Fault
  /\ srv' = [srv EXCEPT ![s] = "none"]
  /\ toSrv' = toSrv \ {s}
  /\ UNCHANGED <<lobs, toCli, srvCount, failed, inUse, cliVars, peer>>

\* There is no room: the accepted socket is neither used nor closed.
ServerIgnores(s) ==
  /\ srv[s] = "QUEUED" /\ Full
  /\ srv' = [srv EXCEPT ![s] = "IGNORED"]
  /\ UNCHANGED <<netVars, srvCount, failed, inUse, cliVars, peer, faults>>

\* The network loses a request.
LoseLob(c) ==
  /\ c \in lobs /\ lobs' = lobs \ {c}
  /\ UNCHANGED <<toCli, toSrv, srvVars, cliVars, peer, faults>>

-----------------------------------------------------------------------------
(* The server's endpoints. *)

\* Mutant of ServerCookie: the client's cookie is not waited for.
ServerCookieUnread(s) ==
  /\ srv[s] = "COOKIE_PENDING"
  /\ srv' = [srv EXCEPT ![s] = "CONNECTED"]
  /\ toSrv' = toSrv \ {s}
  /\ SrvGot
  /\ UNCHANGED <<lobs, toCli, failed, cliVars, peer, faults>>

ServerCookie(s) ==
  /\ srv[s] = "COOKIE_PENDING" /\ s \in toSrv
  /\ srv' = [srv EXCEPT ![s] = "CONNECTED"]
  /\ toSrv' = toSrv \ {s}
  /\ SrvGot
  /\ UNCHANGED <<lobs, toCli, failed, cliVars, peer, faults>>

\* drop_connection at the server: count down, delete the endpoint.
SrvDrop(s) ==
  /\ srv' = [srv EXCEPT ![s] = "none"]
  /\ toSrv' = toSrv \ {s}
  /\ SrvLost
  /\ UNCHANGED <<lobs, toCli, cliVars, peer>>

\* Mutant of CliGone: the end of the stream is not noticed.
CliGoneUnseen(s) == FALSE

\* The stream from the client has ended.
CliGone(s) == cliEnd[s] = "none"

\* No cookie comes any more, a wrong one came, or the client has gone by the
\* time the descriptions are sent.
ServerHandshakeFails(s) ==
  /\ srv[s] = "COOKIE_PENDING"
  /\ \/ CliGone(s) /\ s \notin toSrv /\ UNCHANGED faults
     \/ Fault
  /\ failed' = failed + 1
  /\ SrvDrop(s)

\* The client has closed its end, or the connection breaks.
ServerDrop(s) ==
  /\ srv[s] = "CONNECTED"
  /\ \/ CliGone(s) /\ UNCHANGED faults
     \/ Fault
  /\ UNCHANGED failed
  /\ SrvDrop(s)

\* The server process ends, its sockets are closed, a new one starts.
ServerRestart ==
  /\ Fault
  /\ srv' = [s \in Sock |-> "none"] /\ srvCount' = 0
  /\ failed' = 0 /\ inUse' = FALSE
  /\ lobs' = {} /\ toSrv' = {}
  /\ UNCHANGED <<toCli, cliVars, peer>>

-----------------------------------------------------------------------------
ClientStep(c) == \/ ClientAccept(c) \/ ClientTcpConnect(c) \/ ClientCookie(c)
                 \/ ClientHandshakeFails(c) \/ ClientDrop(c)

ServerStep(s) == \/ ServerAccept(s) \/ ServerIgnores(s) \/ ServerCookie(s)
                 \/ ServerHandshakeFails(s) \/ ServerDrop(s)

Next == \/ \E c \in Client : \/ ClientLob(c) \/ ClientStep(c) \/ ClientTryFails(c)
                             \/ ServeLob(c) \/ IgnoreLob(c) \/ ServeLobFails(c)
                             \/ LoseLob(c)
        \/ \E s \in Sock : ServerStep(s) \/ ServerAcceptFails(s)
        \/ ServerRestart

Spec == Init /\ [][Next]_vars

\* Mainloops keep running and the network does not lose every request.
LiveSpec == /\ Spec
            /\ \A c \in Client : /\ WF_vars(ClientLob(c))
                                 /\ WF_vars(ClientStep(c))
                                 /\ SF_vars(ServeLob(c))
            /\ \A s \in Sock : WF_vars(ServerStep(s))

-----------------------------------------------------------------------------
(* Properties. *)

\* Every variable holds what its C++ declaration admits.
TypeOK ==
  /\ srv \in [Sock -> {"none", "QUEUED", "COOKIE_PENDING", "CONNECTED", "IGNORED"}]
  /\ cliEnd \in [Sock -> {"none", "QUEUED", "OPEN"}]
  /\ peer \in [Sock -> Client]
  /\ cli \in [Client -> {"TRYING_TO_CONNECT", "COOKIE_PENDING", "CONNECTED"}]
  /\ sock \in [Client -> Sock \cup {NoSock}]
  /\ srvCount \in Int /\ cliCount \in [Client -> Int]
  /\ lobs \subseteq Client /\ toCli \subseteq Sock /\ toSrv \subseteq Sock
  /\ failed \in Nat /\ cliFailed \in [Client -> Nat] /\ inUse \in BOOLEAN
  /\ faults \in Nat

\* d_numConnectedEndpoints counts the CONNECTED endpoints, less one for every
\* attempt or handshake that ever failed: drop_connection counts down whatever
\* is BROKEN, counted before or not.
CountAccounts ==
  /\ srvCount = Cardinality(Connected) - failed
  /\ \A c \in Client :
       cliCount[c] = (IF cli[c] = "CONNECTED" THEN 1 ELSE 0) - cliFailed[c]

\* As long as no handshake has failed, the server is between a
\* got_first_connection and the next dropped_last_connection exactly while
\* some endpoint is CONNECTED.
FirstLastBracket == failed = 0 => (inUse <=> Connected # {})

\* An end is CONNECTED only after the other end has taken part in the
\* handshake on the same TCP connection.
BothTookPart ==
  /\ \A s \in Connected : cliEnd[s] # "QUEUED"
  /\ \A c \in Client : cli[c] = "CONNECTED" =>
       /\ srv[sock[c]] \notin {"QUEUED", "IGNORED"}
       /\ cliEnd[sock[c]] = "OPEN" /\ peer[sock[c]] = c

\* Each endpoint of the server leads to a client that waits in its accept
\* queue, uses the connection now, or has closed it: none waits for ever for
\* a client that has turned to another connection without closing this one.
NoOrphan ==
  \A s \in Endpoints : cliEnd[s] = "OPEN" => sock[peer[s]] = s

\* A client that is not connected is connected in the end, also after the
\* server has been restarted.
Reconnects == \A c \in Client : cli[c] # "CONNECTED" ~> cli[c] = "CONNECTED"

\* The server gets rid of the endpoint of a client that has gone.
NoticesDrop == \A s \in Sock : srv[s] = "CONNECTED" /\ cliEnd[s] = "none"
                                ~> srv[s] # "CONNECTED"
=============================================================================
