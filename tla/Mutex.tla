-------------------------------- MODULE Mutex --------------------------------
(***************************************************************************)
(* vrpn_Mutex_Server and its vrpn_Mutex_Remotes (vrpn_Mutex.C, .h).        *)
(*                                                                         *)
(* The server object lives in one process; every remote lives in a process *)
(* of its own and reaches it over one vrpn_Connection at a time.  A TCP    *)
(* connection is a pair <<remote, session>>: a remote that reconnects      *)
(* opens its next session, possibly before the server has noticed that the *)
(* previous one is gone.  Reliable messages of one session arrive in the   *)
(* order in which they were packed; a dropped connection loses a suffix of *)
(* what was still under way.  The server packs every answer to all of its  *)
(* endpoints, so each remote sees the answers meant for the others.        *)
(*                                                                         *)
(* One action is one call of the user (request, release), one message      *)
(* handler, or one connection event.                                       *)
(***************************************************************************)
EXTENDS Integers, Sequences

CONSTANTS Remote,       \* the vrpn_Mutex_Remote objects
          Process,      \* identities (IP address, process id)
          procOf,       \* the process in which a remote lives
          MaxSession,   \* bound: connections a remote opens
          MaxRequest,   \* bound: request messages a remote sends
          MaxFault      \* bound: connections that break, handshakes that fail
                        \* at the server and restarts of the server process

ASSUME ProcOfAssumption == procOf \in [Remote -> Process]
ASSUME BoundAssumption ==
  MaxSession \in Nat /\ MaxRequest \in Nat /\ MaxFault \in Nat

VARIABLES
  srvState,       \* vrpn_Mutex_Server::d_state
  d_remoteIndex,  \* next index the server hands out
  numConnected,   \* d_numConnectedEndpoints of the server's connection
  srvUp,          \* sessions with a CONNECTED endpoint at the server
  toServer,       \* toServer[c]: messages under way from session c
  state,          \* vrpn_Mutex_Remote::d_state
  d_myIndex,      \* -1 until the server's Initialize is taken
  d_requestBeforeInit,
  cUp,            \* remotes whose connection is CONNECTED on their side
  session,        \* the current (latest) session of each remote, 0 if none
  toClient,       \* toClient[r]: messages under way to r's current session
  sent, faults,   \* counters for the bounds
  answered,       \* history: grants and denials of its own each remote read
  issued,         \* history: issued[i+1] is the process given index i
  forgot          \* history: the server has lost track of a lock it gave out

server  == <<srvState, d_remoteIndex, numConnected, issued, forgot>>
remotes == <<state, d_myIndex, d_requestBeforeInit>>
links   == <<srvUp, cUp, session>>
bounds  == <<sent, answered, faults>>
vars    == <<server, remotes, links, bounds, toServer, toClient>>

Session == 1..MaxSession
Conn    == Remote \X Session

-----------------------------------------------------------------------------
(* Messages. *)

RequestIndex(p)     == [type |-> "RequestIndex", proc |-> p]
RequestMutex(i)     == [type |-> "RequestMutex", index |-> i]
ReleaseMsg          == [type |-> "Release"]
Initialize(p, i)    == [type |-> "Initialize", proc |-> p, index |-> i]
GrantRequest(i)     == [type |-> "GrantRequest", index |-> i]
DenyRequest(i)      == [type |-> "DenyRequest", index |-> i]
ReleaseNotification == [type |-> "ReleaseNotification"]

ToServerMsg == [type : {"RequestIndex"}, proc : Process]
               \cup [type : {"RequestMutex"}, index : Nat]
               \cup {ReleaseMsg}

ToClientMsg == [type : {"Initialize"}, proc : Process, index : Nat]
               \cup [type : {"GrantRequest", "DenyRequest"}, index : Nat]
               \cup {ReleaseNotification}

\* r's current session, and whether the server's answers still reach it.
Link(r)    == <<r, session[r]>>
Reaches(r) == r \in cUp /\ Link(r) \in srvUp

\* pack_message at the server: one copy into every CONNECTED endpoint.
Broadcast(m) ==
  toClient' = [r \in Remote |-> IF Reaches(r) THEN Append(toClient[r], m)
                                              ELSE toClient[r]]

\* pack_message at a remote: silently dropped unless CONNECTED.
Send(r, m) ==
  toServer' = IF r \in cUp
              THEN [toServer EXCEPT ![Link(r)] = Append(@, m)]
              ELSE toServer

\* What of a queue survives a connection that breaks.
Cut(q, n) == SubSeq(q, 1, n)

-----------------------------------------------------------------------------
Init ==
  /\ srvState = "FREE" /\ d_remoteIndex = 0 /\ numConnected = 0
  /\ issued = <<>> /\ forgot = FALSE
  /\ srvUp = {} /\ cUp = {} /\ session = [r \in Remote |-> 0]
  /\ toServer = [c \in Conn |-> <<>>]
  /\ toClient = [r \in Remote |-> <<>>]
  /\ state = [r \in Remote |-> "AVAILABLE"]
  /\ d_myIndex = [r \in Remote |-> -1]
  /\ d_requestBeforeInit = [r \in Remote |-> FALSE]
  /\ sent = [r \in Remote |-> 0] /\ answered = [r \in Remote |-> 0]
  /\ faults = 0

-----------------------------------------------------------------------------
(* Calls of the user of a remote. *)

\* The part of request() beyond its two early returns.
SendRequest(r, i) ==
  /\ state' = [state EXCEPT ![r] = "REQUESTING"]
  /\ Send(r, RequestMutex(i))
  /\ sent' = [sent EXCEPT ![r] = @ + 1]

\* request() of a lock that is not AVAILABLE only triggers the deny
\* callbacks; before initialization it is deferred.
Request(r) ==
  /\ state[r] = "AVAILABLE"
  /\ sent[r] < MaxRequest
  /\ \/ /\ d_myIndex[r] = -1
        /\ d_requestBeforeInit' = [d_requestBeforeInit EXCEPT ![r] = TRUE]
        /\ UNCHANGED <<state, sent, toServer>>
     \/ /\ d_myIndex[r] # -1
        /\ SendRequest(r, d_myIndex[r])
        /\ UNCHANGED d_requestBeforeInit
  /\ UNCHANGED <<server, links, answered, faults, d_myIndex, toClient>>

\* Mutant of Release: the lock is given back but the state is not reset.
ReleaseKeepsState(r) ==
  /\ state[r] = "OURS"
  /\ Send(r, ReleaseMsg)
  /\ UNCHANGED <<server, remotes, links, bounds, toClient>>

\* release() does nothing unless the lock is held locally.
Release(r) ==
  /\ state[r] = "OURS"
  /\ state' = [state EXCEPT ![r] = "AVAILABLE"]
  /\ Send(r, ReleaseMsg)
  /\ UNCHANGED <<server, links, bounds, d_myIndex, d_requestBeforeInit,
                 toClient>>

-----------------------------------------------------------------------------
(* Handlers of the server. *)

Pop(c) == toServer' = [toServer EXCEPT ![c] = Tail(@)]

ServerReads(c, type) ==
  c \in srvUp /\ toServer[c] # <<>> /\ Head(toServer[c]).type = type

HandleRequestIndex(c) ==
  /\ ServerReads(c, "RequestIndex")
  /\ LET p == Head(toServer[c]).proc IN
       /\ Broadcast(Initialize(p, d_remoteIndex))
       /\ issued' = Append(issued, p)
  /\ d_remoteIndex' = d_remoteIndex + 1
  /\ Pop(c)
  /\ UNCHANGED <<srvState, numConnected, forgot, remotes, links, bounds>>

\* Mutant of HandleRequestMutex: a request for a lock that is held is
\* dropped; the remote learns of the lock when it is released.
HandleRequestMutexNoDeny(c) ==
  /\ ServerReads(c, "RequestMutex")
  /\ \/ /\ srvState = "FREE"
        /\ srvState' = "HELD"
        /\ Broadcast(GrantRequest(Head(toServer[c]).index))
     \/ /\ srvState # "FREE"
        /\ UNCHANGED <<srvState, toClient>>
  /\ Pop(c)
  /\ UNCHANGED <<d_remoteIndex, numConnected, issued, forgot, remotes, links,
                 bounds>>

HandleRequestMutex(c) ==
  /\ ServerReads(c, "RequestMutex")
  /\ LET i == Head(toServer[c]).index IN
       \/ /\ srvState = "FREE"
          /\ srvState' = "HELD"
          /\ Broadcast(GrantRequest(i))
       \/ /\ srvState # "FREE"
          /\ Broadcast(DenyRequest(i))
          /\ UNCHANGED srvState
  /\ Pop(c)
  /\ UNCHANGED <<d_remoteIndex, numConnected, issued, forgot, remotes, links,
                 bounds>>

\* Mutant of HandleRelease: the remotes are not notified.
HandleReleaseQuiet(c) ==
  /\ ServerReads(c, "Release")
  /\ srvState' = "FREE"
  /\ Pop(c)
  /\ UNCHANGED <<d_remoteIndex, numConnected, issued, forgot, remotes, links,
                 bounds, toClient>>

HandleRelease(c) ==
  /\ ServerReads(c, "Release")
  /\ srvState' = "FREE"
  /\ Broadcast(ReleaseNotification)
  /\ Pop(c)
  /\ UNCHANGED <<d_remoteIndex, numConnected, issued, forgot, remotes, links,
                 bounds>>

-----------------------------------------------------------------------------
(* Handlers of a remote. *)

RemoteReads(r, type) ==
  r \in cUp /\ toClient[r] # <<>> /\ Head(toClient[r]).type = type

Take(r) == toClient' = [toClient EXCEPT ![r] = Tail(@)]

\* Mutant of Mine: the process is not compared.
MineAnyProcess(r, m) == d_myIndex[r] = -1

\* Does r take the index that Initialize message m carries?
Mine(r, m) == d_myIndex[r] = -1 /\ m.proc = procOf[r]

\* An index is taken once, from the first Initialize that names the remote's
\* process; a request deferred until then is made at once (and denied on the
\* spot when another remote's grant has been seen meanwhile).
HandleInitialize(r) ==
  /\ RemoteReads(r, "Initialize")
  /\ LET m == Head(toClient[r]) IN
       \/ /\ Mine(r, m)
          /\ d_myIndex' = [d_myIndex EXCEPT ![r] = m.index]
          /\ \/ /\ d_requestBeforeInit[r] /\ state[r] = "AVAILABLE"
                /\ SendRequest(r, m.index)
             \/ /\ ~(d_requestBeforeInit[r] /\ state[r] = "AVAILABLE")
                /\ UNCHANGED <<state, sent, toServer>>
       \/ /\ ~Mine(r, m)
          /\ UNCHANGED <<d_myIndex, state, sent, toServer>>
  /\ Take(r)
  /\ UNCHANGED <<server, links, answered, faults, d_requestBeforeInit>>

\* Is the message r reads an answer to a request of its own?
Answers(r) == Head(toClient[r]).index = d_myIndex[r]

CountAnswer(r) ==
  answered' = [answered EXCEPT ![r] = IF Answers(r) THEN @ + 1 ELSE @]

HandleGrantRequest(r) ==
  /\ RemoteReads(r, "GrantRequest")
  /\ state' = [state EXCEPT ![r] =
                 IF Answers(r) THEN "OURS" ELSE "HELD_REMOTELY"]
  /\ CountAnswer(r)
  /\ Take(r)
  /\ UNCHANGED <<server, links, sent, faults, d_myIndex, d_requestBeforeInit,
                 toServer>>

HandleDenyRequest(r) ==
  /\ RemoteReads(r, "DenyRequest")
  /\ state' = [state EXCEPT ![r] =
                 IF Answers(r) THEN "HELD_REMOTELY" ELSE @]
  /\ CountAnswer(r)
  /\ Take(r)
  /\ UNCHANGED <<server, links, sent, faults, d_myIndex, d_requestBeforeInit,
                 toServer>>

HandleReleaseNotification(r) ==
  /\ RemoteReads(r, "ReleaseNotification")
  /\ state' = [state EXCEPT ![r] = "AVAILABLE"]
  /\ Take(r)
  /\ UNCHANGED <<server, links, bounds, d_myIndex, d_requestBeforeInit,
                 toServer>>

-----------------------------------------------------------------------------
(* Connection events. *)

\* Both ends reach CONNECTED and the remote's got_connection handler runs.
Connect(r) ==
  /\ r \notin cUp /\ session[r] < MaxSession
  /\ session' = [session EXCEPT ![r] = @ + 1]
  /\ cUp' = cUp \cup {r}
  /\ LET c == <<r, session[r] + 1>> IN
       /\ srvUp' = srvUp \cup {c}
       /\ toServer' = IF d_myIndex[r] = -1
                      THEN [toServer EXCEPT ![c] = <<RequestIndex(procOf[r])>>]
                      ELSE toServer
  /\ numConnected' = numConnected + 1
  /\ UNCHANGED <<srvState, d_remoteIndex, issued, forgot, remotes, bounds,
                 toClient>>

\* Is c the connection both ends use?  Breaking one is counted; that the
\* other end notices afterwards is not.
Live(c) == c[1] \in cUp /\ c = Link(c[1]) /\ c \in srvUp

CountFault == faults < MaxFault /\ faults' = faults + 1

CountBreak(c) == IF Live(c) THEN CountFault ELSE UNCHANGED faults

\* The remote's endpoint breaks; nothing tells the Mutex_Remote.
ClientDrop(r) ==
  /\ r \in cUp
  /\ CountBreak(Link(r))
  /\ cUp' = cUp \ {r}
  /\ toClient' = [toClient EXCEPT ![r] = <<>>]
  /\ \E n \in 0..Len(toServer[Link(r)]) :
       toServer' = [toServer EXCEPT ![Link(r)] = Cut(@, n)]
  /\ UNCHANGED <<server, remotes, srvUp, session, sent, answered>>

\* drop_connection at the server: one endpoint fewer, and the Mutex_Server
\* frees the lock when the count of endpoints reaches zero.
CountDrop ==
  /\ numConnected' = numConnected - 1
  /\ \/ /\ numConnected = 1
        /\ srvState' = "FREE"
        /\ forgot' = (forgot \/ srvState = "HELD")
     \/ /\ numConnected # 1
        /\ UNCHANGED <<srvState, forgot>>
  /\ UNCHANGED <<d_remoteIndex, issued>>

ServerDrop(c) ==
  /\ c \in srvUp
  /\ CountBreak(c)
  /\ srvUp' = srvUp \ {c}
  /\ toServer' = [toServer EXCEPT ![c] = <<>>]
  /\ \/ /\ Live(c)
        /\ \E n \in 0..Len(toClient[c[1]]) :
             toClient' = [toClient EXCEPT ![c[1]] = Cut(@, n)]
     \/ /\ ~Live(c)
        /\ UNCHANGED toClient
  /\ CountDrop
  /\ UNCHANGED <<remotes, cUp, session, sent, answered>>

\* An endpoint that never became CONNECTED is dropped, and counted.
FailedHandshake ==
  /\ CountFault
  /\ CountDrop
  /\ UNCHANGED <<remotes, links, sent, answered, toServer, toClient>>

\* The server process ends and a new one with fresh objects takes its place.
ServerRestart ==
  /\ CountFault
  /\ srvState' = "FREE" /\ d_remoteIndex' = 0 /\ numConnected' = 0
  /\ issued' = <<>> /\ forgot' = TRUE
  /\ srvUp' = {}
  /\ toServer' = [c \in Conn |-> <<>>]
  /\ UNCHANGED <<remotes, cUp, session, sent, answered, toClient>>

-----------------------------------------------------------------------------
ServerStep(c) == \/ HandleRequestIndex(c)
                 \/ HandleRequestMutex(c)
                 \/ HandleRelease(c)

RemoteStep(r) == \/ HandleInitialize(r) \/ HandleGrantRequest(r)
                 \/ HandleDenyRequest(r) \/ HandleReleaseNotification(r)

UserStep(r) == Request(r) \/ Release(r)

Fault == \/ \E r \in Remote : ClientDrop(r)
         \/ \E c \in Conn : ServerDrop(c)
         \/ FailedHandshake
         \/ ServerRestart

Work == \/ \E c \in Conn : ServerStep(c)
        \/ \E r \in Remote : RemoteStep(r) \/ UserStep(r) \/ Connect(r)

Next == Work \/ Fault

Spec == Init /\ [][Next]_vars

\* Every mainloop keeps reading its endpoints, remotes (re)connect while the
\* bound on sessions allows it, and a holder releases the lock in the end.
Fairness == /\ \A c \in Conn : WF_vars(ServerStep(c))
            /\ \A r \in Remote : /\ WF_vars(RemoteStep(r))
                                 /\ WF_vars(Connect(r))
                                 /\ WF_vars(Release(r))

\* Connections that never break.
ReliableSpec == Init /\ [][Work]_vars /\ Fairness

-----------------------------------------------------------------------------
(* Properties. *)

\* Every variable holds what its C++ declaration admits.
TypeOK ==
  /\ srvState \in {"FREE", "HELD"} /\ d_remoteIndex \in Nat
  /\ numConnected \in Int /\ issued \in Seq(Process) /\ forgot \in BOOLEAN
  /\ srvUp \subseteq Conn /\ cUp \subseteq Remote
  /\ session \in [Remote -> 0..MaxSession]
  /\ \A r \in cUp : session[r] # 0
  /\ toServer \in [Conn -> Seq(ToServerMsg)]
  /\ toClient \in [Remote -> Seq(ToClientMsg)]
  /\ state \in [Remote -> {"OURS", "REQUESTING", "AVAILABLE", "HELD_REMOTELY"}]
  /\ d_myIndex \in [Remote -> Nat \cup {-1}]
  /\ d_requestBeforeInit \in [Remote -> BOOLEAN]
  /\ sent \in [Remote -> Nat] /\ answered \in [Remote -> Nat]
  /\ faults \in Nat

\* A remote's claims on the lock: the server's grant on its way to it, its
\* own state, its release on its way to the server.
GrantAt(r, i) == /\ i \in 1..Len(toClient[r])
                 /\ toClient[r][i] = GrantRequest(d_myIndex[r])
ReleaseAt(r, k, i) == /\ k \in Session /\ i \in 1..Len(toServer[<<r, k>>])
                      /\ toServer[<<r, k>>][i] = ReleaseMsg
GrantUnderWay(r)   == \E i \in 1..Len(toClient[r]) : GrantAt(r, i)
ReleaseUnderWay(r) == \E k \in Session :
                        \E i \in 1..Len(toServer[<<r, k>>]) : ReleaseAt(r, k, i)
Claims(r) == GrantUnderWay(r) \/ state[r] = "OURS" \/ ReleaseUnderWay(r)

\* As long as the server has not lost track of a lock it gave out, no two
\* remotes hold the lock (isHeldLocally) at once, whatever connections break.
MutualExclusion ==
  ~forgot => \A r, s \in Remote :
               state[r] = "OURS" /\ state[s] = "OURS" => r = s

\* The server says FREE only when the lock is nowhere: not held, not granted
\* in a message still under way, not in a release still under way.  (A late
\* or repeated release would otherwise free a lock someone else holds.)
FreeMeansUnclaimed ==
  ~forgot /\ srvState = "FREE" => \A r \in Remote : ~Claims(r)

\* The index a server hands out identifies one remote (vrpn_Mutex.h:11).
UniqueIndex ==
  \A r, s \in Remote :
    d_myIndex[r] = d_myIndex[s] /\ d_myIndex[r] # -1 => r = s

\* The same until the server forgets what it has issued: a remote keeps its
\* index over a restart of the server, which counts from 0 again.
UniqueIndexWhileKept == ~forgot => UniqueIndex

\* Without faults, once every message has been read the remotes and the
\* server agree that a free lock is available: nobody missed a release.
NothingUnderWay == /\ \A r \in Remote : toClient[r] = <<>>
                   /\ \A c \in Conn : toServer[c] = <<>>
FreeIsKnown ==
  NothingUnderWay /\ srvState = "FREE"
    => \A r \in Remote : state[r] = "AVAILABLE"

\* Every request message is answered by a grant or a denial to the remote that
\* sent it: it reads as many answers as it has sent requests.  (The release of
\* another remote, which also ends REQUESTING, is no answer.)  A request made
\* before initialization is made and answered, too.
Answered ==
  \A r \in Remote :
    /\ \A n \in 1..MaxRequest : sent[r] >= n ~> answered[r] >= n
    /\ d_requestBeforeInit[r] ~> d_myIndex[r] # -1 /\ state[r] # "REQUESTING"

-----------------------------------------------------------------------------
(* The lock as the server's clients see it implements Lock: the owner is    *)
(* the one remote with a claim while the server says HELD.                  *)

CONSTANTS NoOne, Lost

owner == CASE forgot \/ srvState = "FREE" -> NoOne
           [] ~forgot /\ srvState = "HELD" /\ \E r \in Remote : Claims(r)
                -> CHOOSE r \in Remote : Claims(r)
           [] OTHER -> Lost

AsLock == INSTANCE Lock WITH Client <- Remote, owner <- owner, kept <- ~forgot

\* Ownership passes from remote to remote only through FREE at the server.
ImplementsLock == AsLock!LockSpec
=============================================================================
