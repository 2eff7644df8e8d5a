---- MODULE ImagerStream ----
(* vrpn_Imager_Stream_Buffer: an imager server that forwards the images of      *)
(* another one to its clients at the rate they ask for, while a second thread   *)
(* reads, logs and thins out the full stream.  The initial thread serves the    *)
(* clients, the logging thread the imager; they share                           *)
(* vrpn_Imager_Stream_Shared_State, each accessor of which holds a semaphore,   *)
(* so that an accessor is an atomic step and two accessors are two.             *)
EXTENDS Integers, Sequences, FiniteSets

CONSTANTS Throttles,    \* what clients ask for: -1 (all frames) or a number of frames
          DropMod,      \* size of the counter of dropped frames (2^16, vrpn_uint16)
          MaxFrames,    \* bound: frames the imager sends
          MaxSkip,      \* bound: messages missed while no connection listens
          MaxConns,     \* bound: connections to the imager
          MaxRequests   \* bound: throttle requests and requests for log files

ASSUME ImagerAssumption ==
    /\ Throttles \subseteq Int
    /\ DropMod \in Nat \ {0}
    /\ {MaxFrames, MaxSkip, MaxConns, MaxRequests} \subseteq Nat

VARIABLES
    connected,      \* is a client connected (got first, not yet dropped last)?
    main,           \* what the initial thread is doing; "killed" or "crashed": the process
    left,           \* mainloop: messages still to be sent in this pass
    shadow,         \* vrpn_Imager_Server::d_frames_to_send, the unused copy of the credit
    asked,          \* requests for frames and for log files so far; a request is its number
    \* ---- vrpn_Imager_Stream_Shared_State
    semLost,        \* was the semaphore's holder killed?
    exit, descr,    \* d_time_to_exit, d_description_updated
    request,        \* d_request_*, 0 when d_new_log_request is false
    result,         \* d_result_* with d_new_log_result; names 0 when NULL or empty
    throttle,       \* d_new_throttle_request and, while it is set, d_throttle_count
    frames,         \* d_frames_in_queue
    queue,          \* d_logger_to_client_messages
    \* ---- the logging thread
    log,            \* what it is doing; "off" when d_logging_thread is not running, "none"
                    \* when it is NULL
    want, answer,   \* locals: the throttle request and the log request it works on
    framesToSend,   \* d_server_frames_to_send
    dropped,        \* d_server_dropped_due_to_throttle
    names,          \* the log files of d_log_connection
    \* ---- the imager, seen from the connection that is listened to
    conn,           \* the number of the connection
    described,      \* has its description been read?
    pos,            \* the next message: of frame pos \div 2, its begin or its other part
    \* ---- history
    stale,          \* frames in the queue that d_frames_in_queue knows nothing of
    wrapped,        \* has the counter of dropped frames come back to 0?
    ledger,         \* credit spent: frames sent or deducted since the stream was limited
    overwrote,      \* was a throttle request replaced before the thread read it?
    leftover,       \* did the clients find the thread of an earlier session running?
    expect,         \* the frame a client expects next from what is queued, -1 if it cannot tell
    recent          \* the last message sent since a client is connected

sharedVars == <<semLost, exit, descr, request, result, throttle, frames, queue>>
logVars == <<log, want, answer, framesToSend, dropped, names>>
mainVars == <<connected, main, left, shadow, asked>>
serverVars == <<conn, described, pos>>
history == <<stale, wrapped, ledger, overwrote, leftover, expect, recent>>
vars == <<mainVars, sharedVars, logVars, serverVars, history>>

Msg == [kind : {"begin", "part", "discarded"}, n : Nat, conn : Nat, next : Nat \cup {-1}]

\* What a client makes of a message: the frame that comes next.
Expected(kind, n) ==
    CASE kind = "begin" -> n
      [] kind = "part" -> n + 1
      [] kind = "discarded" -> IF expect = -1 THEN -1 ELSE expect + n

Message(kind, n) == [kind |-> kind, n |-> n, conn |-> conn, next |-> Expected(kind, n)]

\* transcode_and_send: a message joins the queue to the initial thread.
Send(kind, n) ==
    /\ queue' = Append(queue, Message(kind, n))
    /\ expect' = Expected(kind, n)

\* The begin_frame messages in a queue, by their positions.
Begins(q) == Cardinality({i \in 1 .. Len(q) : q[i].kind = "begin"})

----------------------------------------------------------------------------
(* The initial thread: handlers and mainloop.                                   *)

Init ==
    /\ connected = FALSE /\ main = "idle" /\ left = 0 /\ shadow = -1 /\ asked = 0
    /\ semLost = FALSE /\ exit = FALSE /\ descr = FALSE /\ request = 0
    /\ result = [new |-> FALSE, names |-> 0]
    /\ throttle = [new |-> FALSE, count |-> -1]
    /\ frames = 0 /\ queue = <<>>
    /\ log = "off" /\ want = 0 /\ answer = 0 /\ framesToSend = -1 /\ dropped = 0 /\ names = 0
    /\ conn = 0 /\ described = FALSE /\ pos = 0
    /\ stale = 0 /\ wrapped = FALSE /\ ledger = 0 /\ overwrote = FALSE
    /\ leftover = FALSE /\ expect = -1 /\ recent = <<>>

InitSharedKeepsResult ==    \* mutant
    /\ exit' = FALSE /\ descr' = FALSE /\ request' = 0
    /\ result' = result
    /\ throttle' = [new |-> FALSE, count |-> -1]
    /\ frames' = 0
    /\ stale' = Begins(queue)

\* vrpn_Imager_Stream_Shared_State::init: everything but the queue is reset.
InitShared ==
    /\ exit' = FALSE
    /\ descr' = FALSE
    /\ request' = 0
    /\ result' = [new |-> FALSE, names |-> 0]
    /\ throttle' = [new |-> FALSE, count |-> -1]
    /\ frames' = 0
    /\ stale' = Begins(queue)

\* A frame that was queued and not yet counted stays uncounted.
Uncounted == IF log = "count" THEN stale + 1 ELSE stale

\* vrpn_Thread::kill.  With Windows threads the thread ends where it is, perhaps
\* inside an accessor.
KillThread ==
    /\ log' = "off"
    /\ main' = "idle"
    /\ semLost' \in BOOLEAN
    /\ semLost => semLost'
    /\ semLost' => semLost \/ log \notin {"open", "leave"}
    /\ stale' = Uncounted

\* With Posix threads SIGKILL ends the process.
KillProcess ==
    /\ log' = "off"
    /\ main' = "killed"
    /\ stale' = Uncounted
    /\ UNCHANGED semLost

\* Either may fail: the thread goes on, and its callers do not look.
KillFails ==
    /\ main' = "idle"
    /\ UNCHANGED <<log, semLost, stale>>

Kill == KillThread \/ KillProcess \/ KillFails

\* handle_got_first_connection, up to its wait for a description.  A thread of an
\* earlier session is killed, and none started; go() starts one, or fails, and
\* d_logging_thread is deleted.
HandleGotFirst ==
    /\ main = "idle" /\ ~connected
    /\ connected' = TRUE
    /\ \/ /\ log \notin {"off", "none"}
          /\ Kill
          /\ leftover' = TRUE
          /\ UNCHANGED <<exit, descr, request, result, throttle, frames>>
       \/ /\ log = "off"
          /\ InitShared
          /\ \/ log' = "open" /\ main' = "starting"
             \/ log' = "none" /\ main' = "idle"
          /\ leftover' = FALSE
          /\ UNCHANGED semLost
    /\ overwrote' = FALSE
    /\ UNCHANGED <<left, shadow, asked, queue, want, answer, framesToSend, dropped, names,
                   serverVars, wrapped, ledger, expect, recent>>

\* The rest of it: a description within three seconds, or none.
StartDescribed ==
    /\ main = "starting" /\ ~semLost
    /\ descr
    /\ descr' = FALSE
    /\ main' = "idle"
    /\ UNCHANGED <<connected, left, shadow, asked, semLost, exit, request, result, throttle,
                   frames, queue, logVars, serverVars, history>>

StartTimeout ==
    /\ main = "starting" /\ ~semLost
    /\ ~descr
    /\ main' = "idle"
    /\ UNCHANGED <<connected, left, shadow, asked, sharedVars, logVars, serverVars, history>>

\* handle_dropped_last_connection and stop_logging_thread up to its wait; the
\* base class resets its copy of the credit (handle_last_drop_message).
HandleDroppedLast ==
    /\ main = "idle" /\ connected /\ ~semLost
    /\ connected' = FALSE
    /\ shadow' = -1
    /\ exit' = TRUE
    /\ main' = "stopping"
    /\ recent' = <<>>
    /\ UNCHANGED <<left, asked, semLost, descr, request, result, throttle, frames, queue,
                   logVars, serverVars, stale, wrapped, ledger, overwrote, leftover, expect>>

\* The rest of stop_logging_thread: the thread ends by itself, or is killed
\* after three seconds.
StopDone ==
    /\ main = "stopping"
    /\ log = "off"
    /\ main' = "idle"
    /\ UNCHANGED <<connected, left, shadow, asked, sharedVars, logVars, serverVars, history>>

StopKill ==
    /\ main = "stopping"
    /\ log \notin {"off", "none"}
    /\ Kill
    /\ UNCHANGED <<connected, left, shadow, asked, exit, descr, request, result, throttle,
                   frames, queue, want, answer, framesToSend, dropped, names, serverVars,
                   wrapped, ledger, overwrote, leftover, expect, recent>>

\* go() had failed and d_logging_thread is NULL: running() reads what is not there.
StopCrash ==
    /\ main = "stopping"
    /\ log = "none"
    /\ main' = "crashed"
    /\ UNCHANGED <<connected, left, shadow, asked, sharedVars, logVars, serverVars, history>>

\* vrpn_Imager_Server::handle_throttle_message on the base class's copy.
ShadowAfter(n) == IF n < 0 THEN -1 ELSE IF shadow = -1 THEN n ELSE shadow + n

\* static_handle_throttle_message, after the base class's handler: one slot
\* holds the latest request.
HandleThrottle(n) ==
    /\ main = "idle" /\ connected /\ ~semLost
    /\ asked < MaxRequests
    /\ shadow' = ShadowAfter(n)
    /\ throttle' = [new |-> TRUE, count |-> n]
    /\ overwrote' = (overwrote \/ throttle.new)
    /\ asked' = asked + 1
    /\ UNCHANGED <<connected, main, left, semLost, exit, descr, request, result, frames,
                   queue, logVars, serverVars, stale, wrapped, ledger, leftover, expect,
                   recent>>

\* handle_request_logging: pass the request on and wait for an answer, two
\* seconds at most.
HandleRequestLogging ==
    /\ main = "idle" /\ connected /\ ~semLost
    /\ asked < MaxRequests
    /\ asked' = asked + 1
    /\ request' = asked + 1
    /\ main' = "asking"
    /\ UNCHANGED <<connected, left, shadow, semLost, exit, descr, result, throttle, frames,
                   queue, logVars, serverVars, history>>

AskAnswered ==
    /\ main = "asking" /\ ~semLost
    /\ result.new
    /\ result' = [result EXCEPT !.new = FALSE]
    /\ main' = "idle"
    /\ UNCHANGED <<connected, left, shadow, asked, semLost, exit, descr, request, throttle,
                   frames, queue, logVars, serverVars, history>>

AskTimeout ==
    /\ main = "asking" /\ ~semLost
    /\ ~result.new
    /\ main' = "idle"
    /\ UNCHANGED <<connected, left, shadow, asked, sharedVars, logVars, serverVars, history>>

\* mainloop: take a new description, count the messages in the queue ...
Mainloop ==
    /\ main = "idle" /\ ~semLost
    /\ descr \/ queue # <<>>
    /\ descr' = FALSE
    /\ left' = Len(queue)
    /\ main' = IF queue = <<>> THEN "idle" ELSE "draining"
    /\ UNCHANGED <<connected, shadow, asked, semLost, exit, request, result, throttle, frames,
                   queue, logVars, serverVars, history>>

\* ... and send that many: retrieve_logger_to_client_message, pack_message.
Retrieve ==
    /\ main = "draining" /\ ~semLost
    /\ queue # <<>>
    /\ queue' = Tail(queue)
    /\ left' = left - 1
    /\ main' = IF Head(queue).kind = "begin" THEN "decrement"
               ELSE IF left = 1 THEN "idle" ELSE "draining"
    /\ recent' = <<Head(queue)>>
    /\ UNCHANGED <<connected, shadow, asked, semLost, exit, descr, request, result, throttle,
                   frames, logVars, serverVars, stale, wrapped, ledger, overwrote, leftover, expect>>

DecrementFrames ==
    /\ main = "decrement" /\ ~semLost
    /\ frames' = frames - 1
    /\ main' = IF left = 0 THEN "idle" ELSE "draining"
    /\ UNCHANGED <<connected, left, shadow, asked, semLost, exit, descr, request, result,
                   throttle, queue, logVars, serverVars, history>>

----------------------------------------------------------------------------
(* The logging thread: logging_thread_func.                                     *)

\* A new connection to the imager: what is sent before it stands is missed.  The
\* imager sends its description first, when the connection is made.
NewConnection ==
    /\ conn < MaxConns
    /\ conn' = conn + 1
    /\ described' = FALSE
    /\ pos' \in {p \in pos .. pos + MaxSkip : p <= 2 * MaxFrames}
    /\ expect' = -1

\* The thread starts, and connects to the imager without asking for logs.
LogOpen ==
    /\ log = "open"
    /\ framesToSend' = -1
    /\ dropped' = 0
    /\ names' = 0
    /\ ledger' = 0
    /\ \/ /\ log' = "top"
          /\ NewConnection
       \/ /\ log' = "leave"
          /\ UNCHANGED <<serverVars, expect>>
    /\ UNCHANGED <<mainVars, sharedVars, want, answer, stale, wrapped, overwrote, leftover, recent>>

\* A pass of the loop begins, when the mainloops of the last one are done: time
\* to exit?
LogTop ==
    /\ log \in {"top", "serve"} /\ ~semLost
    /\ log' = IF exit THEN "leave" ELSE "throttle"
    /\ UNCHANGED <<mainVars, sharedVars, want, answer, framesToSend, dropped, names, serverVars, history>>

CreditSet(n) == n    \* mutant

MoreCredit(n) == framesToSend + n

\* A throttle request: no limit, a first limit, or more credit.
LogThrottle ==
    /\ log = "throttle" /\ ~semLost
    /\ throttle' = [new |-> FALSE, count |-> -1]
    /\ \/ /\ ~throttle.new
          /\ log' = "request"
          /\ UNCHANGED <<want, framesToSend, ledger>>
       \/ /\ throttle.new /\ throttle.count < 0
          /\ framesToSend' = -1
          /\ ledger' = 0
          /\ log' = "request"
          /\ UNCHANGED want
       \/ /\ throttle.new /\ throttle.count >= 0
          /\ framesToSend = -1
          /\ want' = throttle.count
          /\ log' = "deduct"
          /\ UNCHANGED <<framesToSend, ledger>>
       \/ /\ throttle.new /\ throttle.count >= 0
          /\ framesToSend # -1
          /\ framesToSend' = MoreCredit(throttle.count)
          /\ log' = "request"
          /\ UNCHANGED <<want, ledger>>
    /\ UNCHANGED <<mainVars, semLost, exit, descr, request, result, frames, queue, answer,
                   dropped, names, serverVars, stale, wrapped, overwrote, leftover, expect, recent>>

\* A first limit counts the frames that are in the queue already, if it covers them.
CreditAfter(n, inQueue) == IF n >= inQueue THEN n - inQueue ELSE n

LogDeduct ==
    /\ log = "deduct" /\ ~semLost
    /\ framesToSend' = CreditAfter(want, frames)
    /\ ledger' = want - CreditAfter(want, frames)
    /\ want' = 0
    /\ log' = "request"
    /\ UNCHANGED <<mainVars, sharedVars, answer, dropped, names, serverVars, stale, wrapped,
                   overwrote, leftover, expect, recent>>

\* A request for log files: make_new_logging_connection opens the connection
\* that logs before it lets the old one go, or fails to (the files exist).
LogRequest ==
    /\ log = "request" /\ ~semLost
    /\ request' = 0
    /\ want' = request
    /\ \/ /\ request = 0
          /\ log' = "serve"
          /\ UNCHANGED <<answer, serverVars, expect>>
       \/ /\ request # 0
          /\ log' = "answer"
          /\ answer' = 0
          /\ UNCHANGED <<serverVars, expect>>
       \/ /\ request # 0
          /\ log' = "swap"
          /\ NewConnection
          /\ UNCHANGED answer
    /\ UNCHANGED <<mainVars, semLost, exit, descr, result, throttle, frames, queue, framesToSend,
                   dropped, names, stale, wrapped, ledger, overwrote, leftover, recent>>

\* handle_image_description tells the initial thread.  (Descriptions, texts and
\* pongs are also passed on through the queue, unseen by any counter: left out.)
ReadDescription ==
    /\ ~described
    /\ described' = TRUE
    /\ descr' = TRUE

\* The description has come on the new connection: the old one is dropped.
SwapDone ==
    /\ log = "swap" /\ ~semLost
    /\ ReadDescription
    /\ names' = want
    /\ answer' = want
    /\ log' = "answer"
    /\ UNCHANGED <<mainVars, semLost, exit, request, result, throttle, frames, queue, want,
                   framesToSend, dropped, conn, pos, history>>

\* Nothing within three seconds: back to the old connection, whose messages have
\* been lost to the clients meanwhile, and time to exit.
SwapTimeout ==
    /\ log = "swap" /\ ~semLost
    /\ ~described
    /\ exit' = TRUE
    /\ described' = TRUE
    /\ pos' \in {p \in pos .. pos + MaxSkip : p <= 2 * MaxFrames}
    /\ expect' = -1
    /\ answer' = 0
    /\ log' = "answer"
    /\ UNCHANGED <<mainVars, semLost, descr, request, result, throttle, frames, queue, want,
                   framesToSend, dropped, names, conn, stale, wrapped, ledger, overwrote, leftover,
                   recent>>

\* set_logfile_result
LogAnswer ==
    /\ log = "answer" /\ ~semLost
    /\ result' = [new |-> TRUE, names |-> answer]
    /\ want' = 0 /\ answer' = 0
    /\ log' = "serve"
    /\ UNCHANGED <<mainVars, semLost, exit, descr, request, throttle, frames, queue,
                   framesToSend, dropped, names, serverVars, history>>

ServeDescription ==
    /\ log = "serve" /\ ~semLost
    /\ ReadDescription
    /\ UNCHANGED <<mainVars, semLost, exit, request, result, throttle, frames, queue, logVars, conn,
                   pos, history>>

\* The connection to the imager breaks and is made again.
ServeReconnect ==
    /\ log = "serve"
    /\ NewConnection
    /\ UNCHANGED <<mainVars, sharedVars, logVars, stale, wrapped, ledger, overwrote, leftover, recent>>

DropFrameLate == framesToSend = 0 \/ frames > 2    \* mutant

\* handle_server_messages, begin_frame: no credit left, or two frames queued.
DropFrame ==
    /\ framesToSend = 0 \/ frames >= 2

ServeBeginDropped ==
    /\ log = "serve" /\ ~semLost
    /\ described /\ pos < 2 * MaxFrames /\ pos % 2 = 0
    /\ DropFrame
    /\ dropped' = (dropped + 1) % DropMod
    /\ wrapped' = (wrapped \/ dropped + 1 = DropMod)
    /\ pos' = pos + 1
    /\ UNCHANGED <<mainVars, sharedVars, log, want, answer, framesToSend, names, conn, described,
                   stale, ledger, overwrote, leftover, expect, recent>>

\* Otherwise the frames dropped before it are reported, the credit goes down ...
ServeBegin ==
    /\ log = "serve" /\ ~semLost
    /\ described /\ pos < 2 * MaxFrames /\ pos % 2 = 0
    /\ ~DropFrame
    /\ IF dropped > 0 THEN Send("discarded", dropped) ELSE UNCHANGED <<queue, expect>>
    /\ dropped' = 0
    /\ framesToSend' = IF framesToSend > 0 THEN framesToSend - 1 ELSE framesToSend
    /\ ledger' = IF framesToSend > 0 THEN ledger + 1 ELSE ledger
    /\ log' = "insert"
    /\ UNCHANGED <<mainVars, semLost, exit, descr, request, result, throttle, frames, want, answer,
                   names, serverVars, stale, wrapped, overwrote, leftover, recent>>

\* ... the message is queued ...
InsertBegin ==
    /\ log = "insert" /\ ~semLost
    /\ Send("begin", pos \div 2)
    /\ pos' = pos + 1
    /\ log' = "count"
    /\ UNCHANGED <<mainVars, semLost, exit, descr, request, result, throttle, frames, want, answer,
                   framesToSend, dropped, names, conn, described, stale, wrapped, ledger,
                   overwrote, leftover, recent>>

\* ... and counted, when the initial thread may have sent it already.
IncrementFrames ==
    /\ log = "count" /\ ~semLost
    /\ frames' = frames + 1
    /\ log' = "serve"
    /\ UNCHANGED <<mainVars, semLost, exit, descr, request, result, throttle, queue, want, answer,
                   framesToSend, dropped, names, serverVars, history>>

ServePartAlways ==    \* mutant: the other parts of dropped frames are passed on
    /\ log = "serve" /\ ~semLost
    /\ described /\ pos < 2 * MaxFrames /\ pos % 2 = 1
    /\ Send("part", pos \div 2)
    /\ pos' = pos + 1
    /\ UNCHANGED <<mainVars, semLost, exit, descr, request, result, throttle, frames, logVars,
                   conn, described, stale, wrapped, ledger, overwrote, leftover, recent>>

\* Regions and the end of a frame, for which one part stands, follow what was
\* done with its begin.
ServePart ==
    /\ log = "serve" /\ ~semLost
    /\ described /\ pos < 2 * MaxFrames /\ pos % 2 = 1
    /\ IF dropped > 0 THEN UNCHANGED <<queue, expect>> ELSE Send("part", pos \div 2)
    /\ pos' = pos + 1
    /\ UNCHANGED <<mainVars, semLost, exit, descr, request, result, throttle, frames, logVars,
                   conn, described, stale, wrapped, ledger, overwrote, leftover, recent>>

\* The imager, throttled by another of its clients, reports the k frames it has not
\* sent before it begins the next one; what it reports is passed on always.
ServeDiscarded(k) ==
    /\ log = "serve" /\ ~semLost
    /\ described /\ pos % 2 = 0
    /\ pos + 2 * k < 2 * MaxFrames
    /\ Send("discarded", k)
    /\ pos' = pos + 2 * k
    /\ UNCHANGED <<mainVars, semLost, exit, descr, request, result, throttle, frames, logVars,
                   conn, described, stale, wrapped, ledger, overwrote, leftover, recent>>

\* The thread cleans up and ends.
LogLeave ==
    /\ log = "leave"
    /\ log' = "off"
    /\ names' = 0
    /\ UNCHANGED <<mainVars, sharedVars, want, answer, framesToSend, dropped, serverVars, history>>

----------------------------------------------------------------------------
MainStep ==
    \/ HandleGotFirst \/ HandleDroppedLast
    \/ \E n \in Throttles : HandleThrottle(n)
    \/ HandleRequestLogging
    \/ Mainloop

MainRest ==
    \/ StartDescribed \/ StartTimeout \/ StopDone \/ StopKill \/ StopCrash \/ AskAnswered \/ AskTimeout
    \/ Retrieve \/ DecrementFrames

LogStep ==
    \/ LogOpen \/ LogTop \/ LogThrottle \/ LogDeduct \/ LogRequest
    \/ SwapDone \/ SwapTimeout \/ LogAnswer
    \/ ServeDescription \/ ServeReconnect
    \/ ServeBeginDropped \/ ServeBegin \/ InsertBegin \/ IncrementFrames \/ ServePart
    \/ \E k \in 1 .. DropMod - 1 : ServeDiscarded(k)
    \/ LogLeave

Next == MainStep \/ MainRest \/ LogStep

Spec == Init /\ [][Next]_vars

----------------------------------------------------------------------------
(* Properties.                                                                  *)

TypeOK ==
    /\ connected \in BOOLEAN
    /\ main \in {"idle", "starting", "stopping", "asking", "draining", "decrement", "killed",
                 "crashed"}
    /\ left \in Nat /\ asked \in Nat
    /\ shadow \in Int
    /\ semLost \in BOOLEAN /\ exit \in BOOLEAN /\ descr \in BOOLEAN
    /\ request \in Nat
    /\ result \in [new : BOOLEAN, names : Nat]
    /\ throttle \in [new : BOOLEAN, count : Int]
    /\ frames \in Int
    /\ queue \in Seq(Msg)
    /\ log \in {"off", "none", "open", "top", "throttle", "deduct", "request", "swap", "answer", "serve",
                "insert", "count", "leave"}
    /\ want \in Nat /\ answer \in Nat /\ names \in Nat
    /\ framesToSend \in Int
    /\ dropped \in 0 .. DropMod - 1
    /\ conn \in Nat /\ described \in BOOLEAN /\ pos \in Nat
    /\ stale \in Nat /\ wrapped \in BOOLEAN /\ ledger \in Int
    /\ overwrote \in BOOLEAN /\ leftover \in BOOLEAN
    /\ expect \in Nat \cup {-1}
    /\ recent \in Seq(Msg)

\* The counter of frames follows the begin_frame messages in the queue, ahead by
\* the one that was taken and is not yet counted down, behind by the one that is
\* queued and not yet counted up, and by the ones that an earlier logging thread
\* left: init() sets the counter to 0 and keeps the queue.  So no more than two
\* frames wait, and those.
FramesCounted ==
    /\ frames = Begins(queue) + (IF main = "decrement" THEN 1 ELSE 0)
                - (IF log = "count" THEN 1 ELSE 0) - stale
    /\ Begins(queue) <= 2 + stale

\* Messages from one connection, in the order in which the clients get them: a
\* frame comes whole, and the frames that are missing between two are reported,
\* some by the imager and some by the logging thread: the reports since the last
\* frame add up to the number of the next one.
Follows(a, b) ==
    LET due == IF a.kind = "part" THEN a.n + 1 ELSE a.next IN
    IF a.kind = "begin"
    THEN b.kind = "part" /\ b.n = a.n
    ELSE /\ b.kind # "part"
         /\ due = -1 \/ (IF b.kind = "begin" THEN b.n = due ELSE b.next = due + b.n)

Outgoing == recent \o queue

\* As long as the 16-bit count of dropped frames has not come back to 0.
FramesWhole ==
    wrapped \/
    \A i \in 1 .. Len(Outgoing) - 1 :
        Outgoing[i].conn = Outgoing[i + 1].conn => Follows(Outgoing[i], Outgoing[i + 1])

\* The thread's credit is the base class's copy of it less what was spent, unless
\* a request was replaced before the thread read it, or the thread is one of an
\* earlier session that could not be stopped: then it may be anything.
CreditsKept ==
    (/\ connected /\ ~overwrote /\ ~leftover /\ ~throttle.new
     /\ log \notin {"off", "none", "open", "deduct"}) =>
        IF shadow = -1 THEN framesToSend = -1 ELSE framesToSend + ledger = shadow

\* A status request is told the log files that are being written, or none, by the
\* thread that was started for these clients.
StatusHonest ==
    (connected /\ ~leftover /\ main = "idle" /\ result.names # 0) =>
        log \notin {"off", "none"} /\ (result.names = names \/ log = "answer")
====
