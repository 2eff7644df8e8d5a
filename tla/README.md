# A TLA+ model of VRPN

VRPN (the Virtual-Reality Peripheral Network) connects programs to devices:
trackers, buttons, force-feedback arms. A *server* object owns a device, *remote*
objects in other processes mirror it, and both sit on a `vrpn_Connection` that
carries named messages between named senders. On top of that transport the
library offers a few coordination services: locks, shared variables, redundant
transmission, logging.

This directory specifies the parts of VRPN whose correctness depends on the order
in which several programs act: who holds a lock, which end of a connection
believes what, what is left after something breaks. The specifications are
translated from the C++ source; TLC checks them on small instances and TLAPS
proves the theorems listed below for every instance.

## 1. Inventory

| Component | State | Operations | Interacts with | What makes it correct |
|---|---|---|---|---|
| `vrpn_Mutex_Server`, `vrpn_Mutex_Remote` (`vrpn_Mutex.C:116-761`) | server: `d_state`, `d_remoteIndex`; remote: `d_state`, `d_myIndex`, `d_requestBeforeInit` | `request`, `release`, handlers of seven message types, got-connection and dropped-last-connection handlers | connection (messages, counters) | exclusion; no lost or phantom holder; every request answered |
| `vrpn_PeerMutex` (`vrpn_Mutex.C:764-1471`) | `d_state`, `d_holderIP/Port`, `d_numPeersGrantingLock`, `d_peer[]` | `request`, `release`, `addPeer`, `mainloop`, four message handlers, `handle_losePeer` | one connection per peer | exclusion without a server; answers; no wait for nobody |
| Connection life cycle (`vrpn_Connection.C:2950-4161, 5580-6510`, `vrpn_EndpointContainer.C`) | `status` of each endpoint, table of endpoints, `d_numConnectedEndpoints`, sockets | UDP "lob" and TCP connect, accept, cookie handshake, `drop_connection`, system messages got/dropped (first/last) | every service registers handlers for the system messages | both ends agree; counters right; reconnects; nothing leaks |
| Type dispatcher, translation tables (`vrpn_Connection.C:343-462, 1043-1476`) | local and remote ids of senders and types, callback lists | register, describe, dispatch | endpoints translate ids of incoming messages | messages reach the handlers of the same name; no out-of-range id |
| Output buffers (`vrpn_Connection.C:3247-3600`) | TCP/UDP buffers with fill counts | `pack_message`, `send_pending_reports` | endpoint | order kept, nothing half sent, overflow handled |
| Logs and file connections (`vrpn_Connection.C:464-1030`, `vrpn_FileConnection.C`) | list of messages in memory, current one, position in the file, file time, clock | log, write; play, reset, jump, bookmark, pause | connection, dispatcher, translation tables | what is replayed is what happened, in order, under its names |
| Connection manager (`vrpn_Connection.C:1479-1602, 5418-5502`) | known connections, reference counts | get by name, add, delete | all remotes | shared by name, freed once |
| Device base class (`vrpn_BaseClass.C`) | ping times, warned flags, handler list | `client_mainloop`, ping, pong | connection | silence is noticed, recovery too |
| Shared objects (`vrpn_SharedObject.C`, `vrpn_LamportClock.C`) | value, time of the last update, serializer and negotiation flags | set, receive, become serializer | connection | replicas converge; somebody serializes |
| Redundant transmission (`vrpn_RedundantTransmission.C`) | list of messages to repeat, times seen last | send, repeat, receive | connection | repeats are invisible, losses made up for |
| Threads, semaphores (`vrpn_Shared.C`, `vrpn_Thread.C`) | semaphore count, thread id | `p`, `v`, `condP`, start, kill | imager | nobody waits for ever for a thread or a semaphore |
| Imager, stream buffer (`vrpn_Imager.C`, `vrpn_Imager_Stream_Buffer.C`) | credit for frames, queue and request slots between two threads | send frame, throttle, discard, swap log files | threads, connections | frames whole and counted, credit kept, answers true |
| Forwarders (`vrpn_Forwarder*.C`) | list of forwarded (type, sender) pairs | forward, unforward | two connections | each message forwarded once |
| Auxiliary logger (`vrpn_Auxiliary_Logger.C`) | connection that logs | request, report | logs | a report answers each request |
| Device classes (`vrpn_Button.C`, `vrpn_Analog.C`, `vrpn_Tracker.C`, `vrpn_ForceDevice.C`, ...) | last values | encode, decode, report changes | connection | changes reported once |
| Device drivers (about a hundred files) | parser state | read hardware | device classes | parse correctly |
| Serial ports, programs, bindings, bundled libraries | - | I/O, wrappers | - | - |

Behaviour that is hard to get right and hard to test, with the place where it bites,
is listed under "hazards" in `PROJECT.json`. The themes are:

* *Answers without a question.* Grants, denials and release notifications carry no
  request identity, and most are broadcast; they arrive during a later request, or
  at a remote that they were not meant for.
* *State that survives its connection.* A remote keeps its index and its view of
  the lock when it reconnects, and a restarted server starts from nothing.
* *The count of connected endpoints.* `drop_connection` counts down whatever it
  drops; services free their state when the count says that the last client left.
* *Half-open connections.* Either end notices late that the other has gone, and
  may meanwhile have a newer connection to it; requests to connect are lost,
  duplicated or thrown away.
* *No liveness on the server's side.* Everything that must happen happens because
  a mainloop retries.
* *Two threads, one step at a time.* The stream buffer protects each accessor of
  its shared state, not what is done with two of them in a row; requests and
  answers have one slot each, and a time-out ends the wait but not the work.
* *Copies.* Messages that are sent several times are lost and reordered one by one,
  and the receiver's memory of them is short.
* *A position in three parts.* A recording that is replayed stands at an entry, at a place
  in the file and at a time, and the names of what is played depend on what was played before;
  each call moves some of them.
* *Two ends that decide.* Both ends of a shared object may set it, or ask to be the
  one that decides, at the same time, and messages about it may be lost.

## 2. Plan

Modules in the order in which they were written, what matters most first:

1. `Lock` (abstract), `Mutex` with `MutexProofs`: the lock with a server.
2. `PeerMutex` with `PeerMutexProofs`: the lock without one.
3. `Connection` with `ConnectionProofs`: what a server and its clients believe
   about the connections between them.
4. `Translation` with `TranslationProofs`: sender and type descriptions,
   translation of ids, UDP messages that overtake TCP ones.
5. `SharedObject` with `SharedObjectProofs`: a value set at both ends.
6. `Redundant` with `RedundantProofs`: copies sent and thrown away.
7. `ImagerStream` with `ImagerStreamProofs`: the two threads of the stream buffer,
   with the semaphores and threads it uses.
8. `FileConnection` with `FileConnectionProofs`: the replay of a recording.

`Mutex` refines `Lock`. The services do not extend `Connection`: what they see of it
is that messages of one connection arrive in order or not at all, and when ends
are told of a drop, and each module states that part itself. `Mutex` in
particular over-approximates the count of connected endpoints that `Connection`
has in detail (`FailedHandshake`, `ServerDrop`), so that what holds of `Mutex` holds
with the real counter.

Each safety property was checked by TLC first and then proved (section 6). What would be worth
having next is more abstract specifications of the kind of `Lock`: a channel between two nodes
that delivers names, for `Translation`; a player that goes through a recording, for
`FileConnection`. Section 7 says what is left of the code, and why it has no module.

Every property has a mutant, a plausible bug in one definition, that breaks it.

## 3. The modules

### `Lock`, `Mutex`, `MCMutex`

`Lock` is what any lock service of VRPN promises: one owner at a time, passed on only
through a moment at which nobody owns it. Two weaknesses of the code are admitted
in it. The owner may be *Lost*: the server has given the lock out and nobody
knows that he has it (the grant or the release was lost with a connection). And
the server may *Forget* an owner: when it believes that the last client has left
(`vrpn_Mutex.C:356-370`), or when it restarts.

`Mutex` is the server and its remotes. `srvState`, `d_remoteIndex`, `numConnected`
are the server's; `state`, `d_myIndex`, `d_requestBeforeInit` are each remote's.
A remote has a sequence of connections, its *sessions*. `toServer[<<r, k>>]` is
what is under way from session `k` of `r`, so that the server can still be reading
an old session while the remote uses a new one; `toClient[r]` is what is under way
to the current session. `Connect` opens a session, on which the remote asks for
an index if it has none; `ClientDrop` and `ServerDrop` are each end's discovery
that a session has ended, with the loss of what had not been delivered;
`FailedHandshake` is an endpoint that is dropped before it was ever connected,
which counts like any other; `ServerRestart` replaces the server process.
`Request`, `Release` and the `Handle...` actions are the functions of the same
names; the server's answers go to every connected remote, as `pack_message` sends
them. Three variables are history: `issued` (who got which index), `forgot` (the
server has freed a lock whose holder may not know) and `answered` (the grants and
denials of its own each remote has read, which `Answered` compares with the requests
it has sent: a release by another remote also ends `REQUESTING`, and is no answer).

The refinement mapping of `ImplementsLock` takes as owner the one remote that has a
*claim* while the server says HELD: a grant on its way to it, `OURS`, or its
release on its way to the server.

### `PeerMutex`, `MCPeerMutex`

`chan[p][q]` is the connection from `p` to `q`: `p` sends its requests, releases and
replies over it. Replies go to all peers and name the one they are meant for. A
peer owns the lock when the grants it has counted equal the number of its peers;
`Wins` and `StateAfterCheck` are `checkGrantMutex`, which runs after every grant and
in every `mainloop`. `LosePeers` is one pass of `mainloop` in which some
connections are found dead; `handle_losePeer` runs for each of them before the
check, and any first part of what was under way on each is still delivered. The handler
means to abort a request that is open, but the `release()` it calls does nothing before
the lock is held (section 4). Addresses are numbers since only their order matters. `takes` is history.

### `Connection`, `MCConnection`

A member of `Sock` is one TCP connection with a server's end `srv[s]` and a client's
end `cliEnd[s]`; `QUEUED` means that the kernel has completed it and the program
has not accepted it. `cli[c]` is the status of the client's one endpoint. A client
either lobs UDP requests (`ClientLob`), of which the server answers one per pass by
connecting back (`ServeLob`) and throws the others away, or connects itself
(`ClientTcpConnect`). `toCli` and `toSrv` hold the cookies under way; reading the
other's cookie makes an end `CONNECTED`. A broken endpoint is dropped in the pass
of `mainloop` that found it broken, so `BROKEN` is never seen between actions:
`SrvDrop` deletes it, `CliDrop` sends it back to `TRYING_TO_CONNECT`, and both count
down. `SrvGot` and `SrvLost` are the ends of `finish_new_connection_setup` and
`drop_connection`, where the counter decides whether first/last is announced.
`failed`, `cliFailed` and `inUse` are history. Attempts fail at either end:
`ClientTryFails` is a request that cannot be lobbed (`vrpn_Connection.C:3161-3169`), a
listening socket that cannot be polled or whose connection is accepted and closed again
(3121-3126, 3135), and a tcp-only connect that fails, all of which leave the endpoint
`BROKEN`, to be dropped and counted down with no handshake at all; `ServeLobFails` and
`ServerAcceptFails` are their counterparts at the server, of which the second counts
nothing. Not modelled: a client that has no listening socket to begin with (3116-3120),
which is `BROKEN` again in every pass.

### `Translation`, `MCTranslation`

A message names its type and sender by the numbers they have at the node that packs
it. `reg[n]` is what node `n` has registered (`d_types`, `d_senders`: a name's number
is its position), `table[<<n, m>>]` is the translation table of `n`'s endpoint for `m`,
`tcp` and `udp` what an end has packed and the other has not read. `Register` is
`register_message_type` and `register_sender` by the program; `ReadDescription` is
`handle_type_message` and `handle_sender_message`, which register an unknown name in the
same way and so describe it onwards to all endpoints, the one it came from
included. A description is packed at one endpoint after the other and the loop returns at the
first that fails (`vrpn_Connection.C:4698`, `4711`), which `register_*` ignores: the second
disjunct of `Describe` is that some connected endpoints are passed over, and `untold` remembers
them until they are connected anew. `Finish` makes an end `CONNECTED` and packs the UDP port and all
descriptions, or, as the greeting ignores failures too (`vrpn_Connection.C:4122`, `4125`), leaves one
of them out (one in a greeting is a bound: several would leave the same endpoint `untold`); what is packed earlier is thrown away (`Pack`, `Open`). An endpoint whose buffer cannot
be sent is `BROKEN`, and dropped in its own mainloop: `Break` may take any endpoint in `untold`
at any later time. `Send` goes by UDP once
the other side's port is known (`ReadUdpPort`). `Close` is `drop_connection`: a part of
what was packed has left already and may still be read at the other end.
`Restart` is a new process, which numbers names anew. History: `names` in a user
message is what its numbers stood for when it was packed; `said[e]` is what the
packing end had registered, as long as it was last `CONNECTED`. `Dispatched` is what
handlers are told if the message is read in the current state, so that the
invariant `NeverMisread` speaks of every order in which a UDP message may arrive.

### `SharedObject`, `MCSharedObject`

`value`, `stamp`, `isSerializer`, `isNegotiating` and `policy` of an end are `d_value`,
`d_lastUpdate`, `d_isSerializer`, `d_isNegotiatingSerializer` and `d_policy`; `chan[e]` is
what is under way to it. `ShouldAccept` and `ShouldSend` are the two tests that every
set goes through, by whichever end (`Set`, `HandleUpdate`), with the differences between
the kinds: `TieIsOld` for times that are equal, `SameValue` for values. `BecomeSerializer`
and the three other handlers are the negotiation. `Break` loses what is under way.
`latest`, `steady` and `calls` are history: the set with the greatest time among those
sent since the connection stands, whether one serializer has been settled on, and the
callbacks since.

What the code does here, and the model with it:

* Both ends start as serializers (`vrpn_SharedObject.C:46`), so a remote that defers
  accepts its own sets until someone calls `becomeSerializer`, whereas
  `vrpn_SharedObject.h:84-86` says that they are not reflected until the server has sent them
  back, and `:194` that a remote is no serializer at first.
* `handle_gotConnection`, which is to send the value to a new peer, never runs: it is
  registered for the object's own sender (`:392`), and the message that announces a
  connection is from "VRPN Control". A late remote learns the value with the next set.
* An int32 takes a set with the time of the last one for old (`:584`); a float64 or String
  accepts it unless it is a local one where another end decides. When two sets with one
  time cross, the ends are left with different values, whatever the kind. `Converged`
  excludes such times.
* A String compares the address of the new text with that of the old (`:1392`): only
  `set(value())` counts as idempotent.
* With the policy `CALLBACK` a callback accepts by a result other than 0;
  `vrpn_SharedObject.h:72` has it the other way round. Local sets are accepted without it.
* `isSerializer()` is always true, so any end that does not negotiate itself grants the
  role. Both ends may ask at once; both then negotiate for ever. If a connection
  takes the grant or the assumption with it, the asking end stays so, or both ends
  serialize. In that state an accepted set is sent to and fro without end, unless its
  time makes the echo old; `Settles` says when this cannot happen.

### `FileConnection`, `MCFileConnection`

The recording `file` is any sequence of descriptions, disconnect messages, user messages with
times, and system messages that their handler refuses (`refused`: a name that is too long, a
remote number beyond the table, a type that is not known). The order of a log is that in which
messages were packed or came, so a user message may be there without a description: an
outgoing log has what was packed between two connections, behind the disconnect message
(`vrpn_Connection.C:3262` is before the test of the status), and an incoming one has the
UDP messages that overtook their description (`:4297`). `tape` is what is in memory and where it stands: `list` are the entries from `d_logHead`
to `d_logTail`, `cur` is `d_currentLogEntry`, `next` the position of the file, `time` is
`d_time`, `table` what the endpoint knows of types. A function of the code that moves the tape
is an operator from tape to tape (`ReadEntry`, `Advance`, `PlayOne`, `PlayToUserMessage`,
`Reset`, `ReturnToBookmark`), since the functions call each other; loops are `Loop`. Playing is
in steps, one per message (`PlayNext`, `PlayDone`), because handlers run in between and
may reset (`PlayNextResets`) or fail (`PlayNextFails`; also where the message cannot be put into
the log of what is replayed); `play` is the running call of `play_to_filetime`. `Mainloop` decides
whether a message is due by the file time accumulated since the last one (`accum`, and `idle` for
the clock since the last accumulation). `PlayToTime`, `PlayOneCall`, `JumpToTime`, `GetLength`,
`SetReplayRate` and `ResetCall` are the calls of a program. `straight`, `calls` and `doubled`
are history.

What the code does here, and the model with it:

* A question for the length, also as part of `time_since_connection_open`, resets the
  connection, and restores position and time but not the tables of names, of which it
  plays the first descriptions only, nor the clock. In accumulate mode it sets the file back under
  the entries it has just read, and the rest of the recording is then played twice (`doubled`).
* `jump_to_time` passes over descriptions. Backwards it calls `reset`, which overwrites the
  time that is looked for (`vrpn_FileConnection.C:271`, `:1261`), so it ends just behind the
  beginning and reports success. It stops at the first message that is strictly later,
  where its comment says "greater than or equal". In a preloaded file it follows NULL at the end
  (`crashed`).
* When a handler resets, the message that `reset` came to is passed over (`:732`).
* `need_to_play` tests ">" where its comment says "LESSTHAN OR EQUAL", so a group of messages
  with one time is begun only once the time has passed.
* A message whose handler fails ends the call of `play_to_filetime` and stays the current one
  (`:696-728`), so the next call plays it again, for the handlers that did not fail too. A
  system message that is refused fails each time, and the replay does not get past it
  but by a jump. `play_to_user_message` does not look at the result of `playone` (`:190`): where
  such a message comes before the first user message, the constructor does not return
  (`Hung`).
* The end of a connection is told to the log of outgoing messages only
  (`vrpn_Connection.C:3869`). A client's log of a server that came back has the descriptions
  of the second connection behind those of the first, and a UDP message that overtook its
  description is replayed under the name its number had before, while the client itself had
  cleared its table and gave it to no handler. `NamesKept` says
  what the replay does do: it gives a number the name the recording gives it.
* The last message of a file that is not preloaded is played and reported as an error (`:750`).

### `Redundant`, `MCRedundant`

The sender keeps a list (`queued`) with what is left to be sent of each message
(`remaining`) and a count of it (`numQueued`); the receiver keeps, for each type, the times
of the last `RRLength` messages it let through (`seen`). `net` counts the copies of each
message under way, which arrive in any order. `Pack`, `Mainloop`, `Register`, `Unregister`,
`Receive` are the functions of those names (`handle_possiblyRedundantMessage` is the
last); `Enable` and `SetDefaults` are called by the program or by the controller's messages.
Intervals are abstracted to *spaced* and *at once*, and which of the listed messages are due
in a pass is any nonempty subset.

What the code does here:

* Messages of one type and one time are copies to the receiver, whoever sent them. A
  device that reports several sensors with one time, as `vrpn_Tracker_NULL` does
  (`vrpn_Tracker.C:655-690`), has all but the first dropped. `HasTwin` is that case.
* The table starts out with zeros, so a message with time 0 is never let through.
* The sender named by the first handler of a type decides what the receiver hears for
  that type; handlers for all types are never registered with the connection, and
  unregistering leaves the registration. `Reaches` is what is left of the handlers' intent.
* A copy that is delayed past `VRPN_RR_LENGTH` (8) others of its type is delivered
  again; `DeliveredOnce` says that nothing else is.
* `vrpn_RedundantRemote`'s constructor sets its two message types to 0 after `init()` has
  registered them (`vrpn_RedundantTransmission.C:340-346`), so its set and enable messages
  go out under another type. In the model both are calls, by whomever.

### `ImagerStream`, `MCImagerStream`

The initial thread is `main`: `idle` between handlers, otherwise the name of the wait or
loop it is in. The logging thread is `log`: `off`, or the place in
`logging_thread_func` at which it next touches the shared state. Each accessor of
`vrpn_Imager_Stream_Shared_State` holds its semaphore throughout and so is one step; a
function with two accessors is two steps, between which the other thread runs. The
fields of the shared state are `exit`, `descr`, `request`, `result`, `throttle`, `frames`,
`queue`. `conn`, `described` and `pos` are the connection to the imager and what will be
read from it next: a frame is its begin message and one part that stands for regions and
end. `NewConnection` may miss messages; `ServeReconnect` is a connection that breaks and
comes back unseen by the thread. A request for log files names all four or none (a
request with some names empty is none to the code that opens them); requests are told
apart by number.

`Kill` is `vrpn_Thread::kill`, with its three outcomes. `KillThread`: with Windows threads it
ends the thread wherever it is; a semaphore it holds is lost (`semLost`), and then the initial
thread waits in its next accessor for ever. `KillProcess`: with Posix threads SIGKILL ends
the process (`main = "killed"`). `KillFails`: the call returns false, the thread runs on and
the callers do not look. `StopKill` is possible only when the thread does not answer within
three seconds. `HandleGotFirst` kills a thread that an earlier session has left, and then
starts none, so that these clients get no frames; if the thread could not be killed they
are served by the old one (`leftover`). `go()` may fail: the thread's object is deleted
(`log = "none"`), and the next to use it is `stop_logging_thread`, through a NULL pointer
(`StopCrash`, `main = "crashed"`).

`ServeDiscarded` is the imager's own report of frames it has not sent, which is passed on
always; `ServeBegin` sends the thread's report of those it has dropped itself. Reports reach the
clients from both, so each message carries the frame that a client expects after it (`next`), which
is history: what `FramesWhole` adds the reports up with.

History: `stale` counts frames in the queue that `d_frames_in_queue` knows nothing of.
`init()` resets the counter and not the queue, so that frames left by an earlier
session make the counter negative, and one or two more than planned are then queued.
`wrapped` is the 16 bit counter of dropped frames coming back to 0, after which the other
parts of a dropped frame are passed on. `ledger` is the credit spent. `overwrote` says that a
throttle request was replaced before it was read; `expect` is the frame that follows what is
queued, -1 on a connection from which nothing was queued yet; `recent` is the message sent
last.

## 4. Runs

All bounds are CONSTANTS that appear in guards. `CHECK_DEADLOCK FALSE` everywhere:
a bounded system stops when its users have made their requests.

| Run | Instance | Shows |
|---|---|---|
| `Mutex_faults` | 2 remotes, 2 sessions and 2 requests each, 1 fault; symmetry in the remotes | `MutualExclusion`, `FreeMeansUnclaimed`, `UniqueIndexWhileKept`, and `Lock` is implemented |
| `Mutex_reliable` | 2 remotes, 2 requests each, no fault | every request is `Answered`; `FreeIsKnown` when nothing is under way |
| `PeerMutex_two` | 2 peers, 3 requests each | exclusion, `OwnerIsKnown`, `HeldBySomeone`, `HeldUntilRelease` |
| `PeerMutex_loss` | 3 peers, 1 request each, 1 lost connection | `TakenOnce`; exclusion, and `EveryRequestEnds` (granted or denied), until a connection is lost |
| `PeerMutex_stale` | 3 peers, 2 requests each | *violated:* `MutualExclusion` |
| `Connection_safety` | 2 clients (1 tcp-only), 3 sockets, room for 2 endpoints, 3 faults | counters, first/last, both ends agree, no orphan |
| `Connection_live` | 3 clients (1 tcp-only), 3 sockets, 1 fault | `Reconnects`, `NoticesDrop` |
| `Translation_pair` | 2 nodes, 2 types, 1 sender, 2 faults | `NeverMisread`, `ReliableUnderstood`, `DescribedInOrder` |
| `ImagerStream_threads` | 3 frames, 1 message missed, 2 connections, 2 requests, throttles -1 and 1, counter of 2 values | `FramesCounted`, `FramesWhole`, `CreditsKept`, `StatusHonest` |
| `Redundant_copies` | 3 messages of one type (times 0, 1, 1), 2 handlers, 2 repetitions, a table of 1, 1 loss | types, `DeliveredOnce`, `HeardDespiteLoss` |
| `SharedObject_pair` | 7 pairs of kind and mode, 3 policies, times 0 to 2, 2 sets, 2 requests, 1 break | `Converged`, `SameSequence`, `SomeoneSerializes`, `Settles` |
| `FileConnection_replay` | 6 recordings of up to 6 messages, all 3 ways to load, skipping to user messages or not, limits 0 and 1, 3 calls or failures of handlers, times 0 to 2 | types, `ListFollowsFile`, `NamesKept`, `QueryKeepsPlace`, `PlaysOut` |

The type invariants of `Mutex`, `PeerMutex`, `Connection`, `Translation`, `ImagerStream` and
`SharedObject` are proved (section 6), so no run repeats them.

Why these bounds are enough to be interesting. Two sessions per remote let an old
session's release reach the server after the new session's request, and let the
server notice a drop after the reconnection. Two requests let an answer to the
first meet the second. With two peers every reply
answers the latest request, which is why the peer lock works there; three peers
and two requests are the smallest instance in which it does not. Three sockets
let a client have a connection in use, one in its accept queue, and one that the
server has not yet given up; room for two endpoints (`MaxEndpoints = 3`, as
`full()` leaves one free) makes the table overflow. Two types registered in
either order at both ends give them different numbers at the two nodes, and after
a restart different ones at the same node, with old messages still under way;
`Quiet` lets the copies of one user message be under way at a time, as messages
do not affect each other, and a UDP copy may stay under way for as long as it takes
to be overtaken by everything else. A fault is a break, a restart or a description that cannot be
packed, so that two of them let an endpoint be passed over and then reconnect, or the process restart. Three frames with a limit of one make the
thread or the imager drop a frame, report it and go on; two connections put the swap of log files
or a reconnection in the middle of a frame; a counter of dropped frames with two
values wraps with two, where the real one needs 65536; two requests overwrite
each other in their slot, or answer a wait that has run out. A table of one time and three
messages make a late copy come through again. The three messages are one with
a time of its own that counts as seen, and two with the same time by two senders, one of
them by TCP. Two sets that cross, with two requests for the role and a break at
any point, are the smallest instance in which both ends of a shared object decide. Each recording
has a case of its own: a type that is used before it is described, and described at a time that
has messages before and behind; a server that reconnects, sends, and numbers its types anew; times that
go backwards, so that the first message is not the earliest; a message that is refused; and no
user message at all. Three
calls let a question for the length come between two others.

One run ends in a violation. It states what the repository says of itself and shows a
behaviour of the code that disagrees: in `PeerMutex_stale` grants do not say which request they
answer, so grants to an earlier, denied request complete a later one.

Other things the code does that a reader of its comments would not expect, which the
models have and the properties take into account:

* A release notification makes any remote AVAILABLE (`vrpn_Mutex.C:643`), also one that
  has requested the lock again meanwhile; a denial of its next request then ends a
  tenure that the server still counts, whereas `vrpn_Mutex.h:84` has it last until
  `release()`.
* When the last connection drops the server frees the lock "to avoid deadlock"
  (`vrpn_Mutex.C:361`); nobody is told, and a remote that reconnects goes on believing
  that the lock is held remotely.
* A peer that answers late grants the lock to a requester another peer has denied
  (`vrpn_Mutex.C:1163`), and waits for a release that is never sent.
* A peer that loses another while its request is open is to abort the
  request ("Need to abort a request", `vrpn_Mutex.C:1298`), but `release()` returns at once unless
  the lock is held (`:979`); the request goes on, counts the grant of the lost peer against one peer
  fewer, and wins although a peer that is still connected owns the lock (`LosePeers`).
* The counter that is to "prevent region and end-of-frame messages until the next begin_frame
  message" (`vrpn_Imager_Stream_Buffer.C:466`) is 16 bits wide; when it comes back to 0 the rest of a dropped
  frame is sent behind the frame before it (`wrapped`).
* `vrpn_Thread::kill` detaches a thread so that its "resources will be freed automatically when it
  is killed" (`vrpn_Thread.C:547`); `pthread_kill(threadID, SIGKILL)` ends the process (`KillProcess`).
* `d_logging_thread` is deleted when `go()` fails (`vrpn_Imager_Stream_Buffer.C:228`) and used through NULL when
  the last client drops (`StopCrash`).
* The log of incoming messages is not told of a disconnection (`vrpn_Connection.C:3869`), and
  `play_to_user_message` loops for ever at a system message that is refused
  (`vrpn_FileConnection.C:190`); both are described with `FileConnection` in section 3.
* `drop_connection` counts down endpoints that were never counted
  (`vrpn_Connection.C:3887`, against `:4142`), so that the last connection may seem to have
  dropped while there is another.

`UniqueIndexWhileKept` has its condition for the same kind of reason: `vrpn_Mutex.h:11`
promises a unique index on every connection, but a remote keeps its index when it
reconnects, while a restarted server counts from 0. Two remotes in one process
(`vrpn_Mutex.C:683`) share an index even without a restart.

## 5. Fairness

`Mutex.Fairness`: weak fairness of every endpoint's handling of its next message
(mainloops run for ever and read what has arrived), of connecting, and of the
holder's `Release` (the user's obligation; without it nobody else is served).
No fairness of `Request` nor of faults. `PeerMutex.Fairness` is the
same for peers. `Connection.LiveSpec`: weak fairness of every step of a client's
and of the server's endpoints, weak fairness of lobbing (a retry every two
seconds, `vrpn_Connection.C:3148-3170`), and strong fairness of `ServeLob(c)`: the
server may read another client's request first, and datagrams may be lost, but
not for ever. `Redundant.Fairness`: the clock runs, so that repetitions come
due, and both programs call their mainloops. `SharedObject.Fairness`: connections are made
again and messages read. `FileConnection.Fairness`: the clock runs and the program calls
`mainloop`, which plays what is due; that the replay is not paused for ever is the hypothesis
of `PlaysOut`, and a handler of a user message fails a bounded number of times (`MaxCalls`). A fault is never required to happen.

## 6. Proofs

Every safety property that a passing run checks, `HeldUntilRelease` and `QueryKeepsPlace` among
them, and the refinement of `Lock`, is stated by a theorem. Where a theorem has a
hypothesis, it is named below with the reason. Each module extends the one it is about.

`ConnectionProofs`, for any finite set of sockets, any clients and any faults:

* `TypeCorrect`, from `TypeInv`: `TypeOK` and that an endpoint past
  `TRYING_TO_CONNECT` has a real socket (needed because `CliDrop` closes it).
* `CountsAreAccountedFor`, `FirstAndLastAreRight`: `CountInv` is inductive. That
  first/last are announced at the right time needs the counter to be the number of
  connected endpoints; the lemmas `OneMore`, `OneLess`, `NoneMore` say what a step does
  to that number, and `GotFirst`, `DroppedLast`, `NeverCounted` what it does to the counter.
* `HandshakesAreMutual` (`BothTookPart`) and `NobodyIsOrphaned` (`NoOrphan`): `SocketInv` says
  that an open end and an active endpoint belong to each other, and that a cookie is
  under way only from an end that has been accepted.

`PeerMutexProofs`, for any finite set of peers, any requests and lost connections:

* `TypeCorrect`; `TakenAtMostOnce`: no take callback has run at a peer that is
  AVAILABLE or REQUESTING, and callbacks run only on leaving those states.

Exclusion is false for three peers that ask repeatedly (`PeerMutex_stale`). What is true of it
is proved in two cases, each as far as it goes:

* *Two peers*, any number of requests (`Cardinality(Peer) = 2`): `TwoExclude`,
  `TwoKnowOwner`, `TwoHeldBySomeone` until the connection is lost, `TwoExcludeAlways` and
  `TwoHoldUntilRelease` where it never is (`MaxLoss = 0`). `TwoInv` lists all that two peers
  can be doing (`Phase`: both states and both queues in full), up to their order. However often
  two peers ask, an answer is always to the latest request.
* *Any number of peers that ask once each* (`MaxRequest <= 1`): `OnceExclude`. `OnceInv` says of
  two peers what has been asked and answered between them (`Exchange`), that the
  grants counted are of peers whose answer has been read (`Counted`), and that of two
  that may get the lock one has not granted it to the other, nor ever will (`Compete`).

`MutexProofs` has `TypeCorrect`, for any remotes, and the safety of the lock for any
remotes that each live in a process of their own (`OneRemotePerProcess`, the one
hypothesis; two remotes in one process take the same index, and then both take the
same grant), any sessions, requests and faults:

* `TokenInvariant`: `SafetyInv` is inductive. None of the properties is: a grant for
  index i becomes a claim of r's the moment r takes index i, and a release of an old
  session is still read after its sender has asked again. So the lock is followed as
  a token: `TokenAt(r, k, i)` names every place it can be in (r's state, a
  `GrantRequest` on its way to r, a `Release` in one of r's sessions), `OneToken` says
  that two such places are the same, and there is none while the server says FREE.
  `Known` says what the indexes in messages mean: who has been issued what
  (`InitializesKnown`, with the history `issued`), that a grant names an index someone
  has taken, and a request its sender's. It all holds until the server forgets
  (`forgot`): nothing is claimed afterwards.
* Each action has a lemma `...Safe`: the token is moved (`TokenMoved`: a queue loses its
  head, and every position in it shifts), stays, is made by a grant when there is
  none (`GrantSafe`), or is consumed by the release the server reads
  (`HandleReleaseSafe`, which shows that no other is left).
* `MutualExclusionHolds`, `FreeIsUnclaimed`, `IndexesAreUnique` follow from it.
* `MutexImplementsLock`: the refinement. `LockMoves`, proved with each action, says
  that a remote with the token may lose it but no other acquires it while the server
  says HELD, and that HELD turns to FREE only while someone has it; `OwnerRule`
  computes the `CHOOSE` of the mapping from `OneToken`; `StepImplementsLock` maps each
  step to `Acquire`, `Free`, `Lose`, `Waste`, `Forget` or a stutter.
* `FreeIsKnownHolds`, of `ReliableSpec` (no connection breaks), for any remotes, also several
  in one process. `ReleaseKnown` says what a remote is still going to be told while the
  server says FREE: the last word to it about the lock is a release, or it knows
  (`Informed`). A remote that asks meanwhile is no exception, since its request is under way.

`TranslationProofs`, for any nodes, links (symmetric, none to oneself), names and faults:

* `TypeCorrect`; `MessagesKeepTheirMeaning`, from `Inv`, which is `TypeOK` and three
  parts. `Tables`: an entry of a table says what the other side calls by that number
  (according to `said`), and its local number is this side's for the same name, or 0.
  `Queued`: descriptions and user messages under way agree with `said`, so that a
  message of an earlier connection or process is never read against a newer one.
  `Sessions`: what relates `said`, `reg`, the status of both ends and what is under way; a
  new connection starts only when both ends have closed, and closing empties table
  and queues. None of them says that a node has been told anything, so descriptions that are never
  packed do not matter. `NeverMisread` follows from the first two alone, whatever the order of
  arrival: no step compares the places of two messages.
* `AddedKeeps` (registering only appends), `LocalRight` and `EntryRight` (what
  `addLocalID` and `addRemoteEntry` do to a right table) and `CloseKeeps` carry the steps.
* `DescriptionsInOrder`, `ReliableIsUnderstood`, from `OrderInv`, which speaks of the endpoints
  that are not `untold`: the descriptions in a queue
  continue the table of its reader without a gap (`Continues`) and reach to the last
  name said while both ends are there (`Complete`), and each user message stands behind
  the descriptions of its numbers (`Announced`). Here the places of messages do
  matter; the hard step is the one in which reading a description makes the reader register a
  name and describe it onwards.

`SharedObjectProofs`, for any values, kinds, modes, policies, times and breaks:

* `TypeCorrect`; `SomeoneSerializesHolds`, from `IInv`. `SomeoneSerializes` alone is not
  inductive, as an end gives the role up when it reads an assumption. `Negotiation`
  says that there is one negotiation at a time: a request under way stands for an end
  that negotiates, a grant for two, an assumption for one and for a sender that
  serializes, and at most one of these is under way.
* `ConvergedHolds`, from `NewestInv`: an end that does not have the newest set yet will get
  it (`Arrives`). It has it, or it is coming, or it is on its way to the serializer,
  ahead of any message that makes that end stop serializing (`ComingFirst`).
* `SameSequenceHolds`, from `SteadyInv`: once one end serializes, what is under way to the
  other are exactly the updates that lead from its value to the serializer's, each
  of which it will take (`Leads`), and the callbacks it lacks (`Behind`).

`RedundantProofs`, for any messages, handlers, losses and any length of the table:

* `TypeCorrect`, which has in it that the list and its count agree
  (`ListOK`), so that `mainloop` never finds its "serious internal error".
* `DeliveredOnceHolds`, from `Window`: the table of a type holds the times of the last
  `RRLength` messages let through, so one that is let through has a time none of them has.

`ImagerStreamProofs`, for any throttles, size of the counter and bounds:

* `TypeCorrect`; `FramesCountedHolds`, which is inductive with types once the places of
  both threads are related to the counter: who is between queueing and counting, and
  that a frame is queued only where fewer than two were counted.
* `ThreadFollowsClients`: a logging thread that runs without a client has been told to exit,
  also when it could not be killed.
* `CreditsKeptHolds`, from `CreditInv`: the copy of the credit that the base class keeps
  follows the thread's through a request that is not read yet (`ShadowFollows`) and
  through the place where a frame is paid for (`ThreadCredit`).
* `StatusHonestHolds`, from `StatusInv`: what is in the slot of the answer at each place of the
  logging thread, also while it ends.
* `FramesWholeHolds`, from `WholeInv`: what was sent and what is queued are one sequence; `Fits`
  says how its last message goes together with what the thread reads next, in the middle of a
  frame that is passed on (`Amid`) or not, and `Agrees` that what a client expects and what the
  thread reads next differ by the frames that are dropped and not yet reported.

`FileConnectionProofs`, for any recordings, ways of loading, limits and calls:

* Induction. A tape moves by loops along the recording, which `Loop` defines as a recursive
  function. `SetInduction` is induction over the members of a set of numbers, from the
  well-foundedness of finite sets; with it `Repeats` shows that a recursive function
  exists, `LoopRuns` that the runs of `Loop` are what their steps say and keep what a
  step keeps, and `LoopReaches` that they end before their bound: `play_to_user_message` comes to
  a user message or to the end, unless it is refused one before (`Hung`).
* `TypeCorrect`, `ListFollowsFileHolds`, `NamesKeptHolds`, from `IInv`: `Sound` (the
  list in memory follows the file; also of a tape that has been set back, whose first
  entries are those of the file), `NamesRight` (the table holds for each number what the
  entries before the current one say of it last, and nothing where that is a disconnect or there
  is none: `Described`; nothing is assumed of the recording) and `Begun` (a tape that skips to user messages
  is never before the first one). `AdvanceSound`, `DispatchKept`, `PassOverKept`,
  `PlayToUserKept`, `ResetKept`, `ScanKept` say what each function of the tape does to them.
* `QueryKeepsPlaceHolds`: `AskedKept` follows the tape from the bookmark through `reset` and
  `find_superlative_user_times` back; `Begun` is there for this step, because what `reset`
  plays must be no more than what had been played before.
* A handler that resets while its message is played (`PlayNextResets`) is followed by an
  advance of the new current entry; that there is one (`ResetKept`) comes from the
  message that is being played.

Assumptions are the named ASSUMEs of the modules (bounds are naturals, sets of
sockets and peers are finite, there is a client, recordings are not empty);
TLC evaluates them in every run.

Only model-checked: liveness (`Answered`, `EveryRequestEnds`, `Reconnects`, `NoticesDrop`,
`HeardDespiteLoss`, `Settles`, `PlaysOut`), which is beyond
TLAPS here. Not stated because it is false: exclusion among three or more peers that ask more
than once, and among any that have lost a connection. Not checked either: that what has been packed
is read in the end, in `Translation`, and that the initial thread of `ImagerStream` comes back from its
waits. The first needs fairness over an instance with three nodes to say anything of names that are described
onwards, which is too large; its safety half is `DescribedInOrder`, proved for any network. The
second is that each wait has a time-out, and each of them is an action of the model (`StartTimeout`,
`AskTimeout`, `StopKill`).

## 7. Not modelled

* In `Mutex`: the user's callbacks (they cannot change the lock but through
  `request` and `release`, which may be called at any time anyway), and more than
  one lock on a connection.
* In `PeerMutex`: `addPeer` after the first request (documented not to work,
  `vrpn_Mutex.h:181`) and reconnection to a lost peer.
* In `Connection`: the UDP side channel of an endpoint, remote logging, NIC
  selection, and connections that a handler opens or closes during dispatch.
* In `Translation`: the callback lists of the dispatcher; the names every node
  registers at construction, which have the same numbers everywhere; the limit of 2000
  names (`vrpn_Connection.C:1144`, past which `register_message_type` describes the
  number -1); tcp-only endpoints, which differ in what goes by UDP only; more than
  one endpoint between two nodes; a user message that cannot be packed for one endpoint, which
  then lacks that message and nothing else. A duplicated UDP message changes nothing in the
  model's state and `NeverMisread` holds at each reading.
* In `SharedObject`: a server with several remotes, which relays nothing but what it
  accepts; Lamport clocks, never switched on; callbacks that set the object again;
  `d_queueSets`, which nothing reads.
* In `Redundant`: how many copies were seen of each message, which is written to a file
  and read by nothing; messages lost as a group.
* In `ImagerStream`: descriptions, texts and pongs that pass through the queue, which no counter
  sees; pixels; log files beyond the number of the request that named them; requests of
  `vrpn_Auxiliary_Logger` to other servers than the stream buffer.
* The dispatcher's lists of callbacks, the connection manager's reference counts and the
  drop of endpoints and connections inside a handler: the questions there are which C++
  objects are alive while a list is walked. The hazards in `PROJECT.json` name the lines. A
  model would be one of the heap and would share no state with the others.
* In `FileConnection`: the cookie, errors of reading and of memory (but for the failure to log a
  message that is played), `eof()`, messages that are
  logged again while they are played, calls other than `reset` from inside a handler, and the
  counters of connections, which `reset` takes below zero (`vrpn_Connection.C:3887`). The
  global switch for skipping is constant, as `vrpn_FileConnection.h` says it is for a connection,
  although `reset` reads it again (`vrpn_FileConnection.C:1271`).
* Output buffers and the writing of logs: sequential code in which what matters is the
  bytes, and one function call is the whole behaviour.
* `vrpn_BaseClass` pings: the only effect is on what is printed. Forwarders: a list of
  pairs of names that is looked through for each message.
* Semaphores with counts above one, `condP` and `reset`: nothing in the library uses them.
* Device classes and drivers, serial ports, server and client programs, bindings, bundled
  libraries: data conversion and input/output, each call on its own, without state shared
  with another actor.
