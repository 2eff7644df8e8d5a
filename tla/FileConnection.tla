---- MODULE FileConnection ----
(* vrpn_File_Connection: plays a recorded stream of messages to the handlers of a   *)
(* program, at the pace of the clock or as the program asks.  The recording is      *)
(* loaded at once (preload), as it is played (accumulate), or one message is in     *)
(* memory at a time (neither).  Operations on what is in memory and on the          *)
(* position are operators from one state of the tape to the next, as the functions  *)
(* of the code call each other.                                                     *)
EXTENDS Integers, Sequences, FiniteSetsExt

CONSTANTS Num, Name,    \* numbers and names of message types
          Files,        \* the recordings to choose from
          Modes,        \* the ways to load them
          Limits,       \* limit_messages_played_back (0: no limit)
          MaxElapsed,   \* bound: times in the recording that are asked for
          MaxCalls,     \* bound: what the program asks for, and handlers that fail
          MaxWait       \* bound: time between two messages that are played

NoName == "no name"
Forever == 1000000      \* tvMAX

\* A message of a recording: a description of the number of a type, the end of a
\* connection, a user message, or a system message that its handler refuses (a name that
\* is too long, a table that is full, a type it does not know).  Only a description has
\* use for its name.  A log holds what came, in any order: also messages of a type that
\* is not described yet, or not since the last disconnect.
Entry == [kind : {"describe", "disconnect", "user", "refused"}, num : Num, name : Name,
          time : 1 .. Forever]

ASSUME FileAssumption ==
    /\ NoName \notin Name
    /\ \A f \in Files : f \in Seq(Entry) /\ f # <<>>
    /\ Modes \subseteq {"preload", "accumulate", "neither"}
    /\ Limits \subseteq Nat
    /\ {MaxElapsed, MaxCalls, MaxWait} \subseteq Nat

VARIABLES
    file, mode, skip, limit,    \* chosen when the file is opened
    tape,           \* what is in memory and where it stands
    start,          \* d_start_time
    earliest,       \* d_earliest_user_time, 0 while it is not valid
    play,           \* the call of play_to_filetime that runs
    running,        \* d_last_time: has mainloop been called since the last reset?
    accum, idle,    \* file time accumulated, clock time since it was
    rate,           \* d_replay_rate
    crashed,        \* has a NULL d_currentLogEntry been followed?
    \* ---- history
    calls,          \* what the program has asked for so far
    doubled         \* has the file been set back under messages that are in memory?

opts == <<file, mode, skip, limit>>
clock == <<running, accum, idle>>
vars == <<opts, tape, start, earliest, play, clock, rate, crashed, calls, doubled>>

Idle == [end |-> 0, left |-> 0]

NoNames == [n \in Num |-> NoName]

----------------------------------------------------------------------------
(* The tape: list are the entries in memory, as their places in the file; cur is    *)
(* the place of d_currentLogEntry in the list, 0 for NULL; next is the position of   *)
(* the file; time is d_time; table are the types the endpoint knows.  straight is    *)
(* history: no description has been passed over since the table was cleared.         *)

Current(t) == file[t.list[t.cur]]

\* The place in the file of the entry that comes next.
Place(t) == IF t.cur = 0 THEN Len(file) + 1 ELSE t.list[t.cur]

\* read_entry
ReadEntry(t) ==
    IF t.next > Len(file) THEN t
    ELSE [t EXCEPT !.list = IF mode = "neither" THEN <<t.next>> ELSE Append(@, t.next),
                   !.next = @ + 1]

\* advance_currentLogEntry
Advance(t) ==
    IF t.cur < Len(t.list) THEN [t EXCEPT !.cur = @ + 1]
    ELSE IF mode = "preload" \/ t.next > Len(file) THEN [t EXCEPT !.cur = 0]
    ELSE LET r == ReadEntry(t) IN [r EXCEPT !.cur = Len(r.list)]

PassOver(t) == Advance([t EXCEPT !.straight = @ /\ Current(t).kind = "user"])

DispatchKeepsNames(t) ==    \* mutant: the handler of a disconnect message does nothing
    LET e == Current(t) IN
    [t EXCEPT !.time = e.time,
              !.table = IF e.kind = "describe" THEN [@ EXCEPT ![e.num] = e.name] ELSE @]

\* A description fills an entry of the table, also one that was filled before, a
\* disconnect message clears it, and a message that is refused does neither.
Dispatch(t) ==
    LET e == Current(t) IN
    [t EXCEPT !.time = e.time,
              !.table = CASE e.kind = "describe" -> [@ EXCEPT ![e.num] = e.name]
                          [] e.kind = "disconnect" -> NoNames
                          [] e.kind \in {"user", "refused"} -> @]

\* playone_to_filetime: a message that is refused stays the current one.
PlayOne(t) == IF Current(t).kind = "refused" THEN Dispatch(t) ELSE Advance(Dispatch(t))

\* Repeats a step of the tape while there is an entry and it is one to go past.
Loop(t, Past(_), Step(_)) ==
    LET go[n \in 0 .. 2 * Len(file)] ==
            IF n = 0 THEN t
            ELSE LET s == go[n - 1] IN IF s.cur # 0 /\ Past(Current(s)) THEN Step(s) ELSE s
    IN  go[2 * Len(file)]

\* play_to_user_message, which looks only at the current message, not at what became of
\* playing it.  Where it comes to a message that is refused the loop has no end, and the
\* tape stands there for good (Hung).
PlayToUserMessage(t) ==
    LET IsSystem(e) == e.kind # "user"
        s == Loop(t, IsSystem, PlayOne)
    IN  IF s.cur = 0 THEN s ELSE [s EXCEPT !.time = Current(s).time]

ResetKeepsNames(t) ==    \* mutant: drop_connection does not clear the table
    LET s == IF mode = "neither" THEN ReadEntry([t EXCEPT !.next = 1]) ELSE t
        r == [s EXCEPT !.cur = 1, !.straight = TRUE]
        b == [r EXCEPT !.time = Current(r).time]
    IN  IF skip THEN PlayToUserMessage(b) ELSE b

\* reset: the table is cleared by drop_connection.
Reset(t) ==
    LET s == IF mode = "neither" THEN ReadEntry([t EXCEPT !.next = 1]) ELSE t
        r == [s EXCEPT !.cur = 1, !.table = NoNames, !.straight = TRUE]
        b == [r EXCEPT !.time = Current(r).time]
    IN  IF skip THEN PlayToUserMessage(b) ELSE b

\* The first entry, when the file is opened.
Opened ==
    LET all == IF mode = "preload" THEN Len(file) ELSE 1 IN
    [list |-> [i \in 1 .. all |-> i], cur |-> 1, next |-> all + 1, time |-> file[1].time,
     table |-> NoNames, straight |-> TRUE]

\* find_superlative_user_times goes on to the end of the tape without playing.
ScanToEnd(t) == LET Any(e) == TRUE IN Loop(t, Any, Advance)

ReturnKeepsFile(t, s) ==    \* mutant: no fseek
    [s EXCEPT !.time = t.time, !.cur = t.cur,
              !.list = IF mode # "neither" THEN @ ELSE IF t.cur = 0 THEN <<>> ELSE t.list]

ReturnWithoutCopy(t, s) ==    \* mutant: the current entry is not kept
    [s EXCEPT !.time = t.time, !.cur = t.cur,
              !.next = IF mode = "preload" THEN @ ELSE t.next,
              !.list = IF mode # "neither" THEN @ ELSE <<>>]

ReturnForgetsTime(t, s) ==    \* mutant: oldTime is not put back
    [s EXCEPT !.cur = t.cur,
              !.next = IF mode = "preload" THEN @ ELSE t.next,
              !.list = IF mode # "neither" THEN @ ELSE IF t.cur = 0 THEN <<>> ELSE t.list]

\* return_to_bookmark, t being the tape when the bookmark was stored.
ReturnToBookmark(t, s) ==
    [s EXCEPT !.time = t.time,
              !.cur = t.cur,
              !.next = IF mode = "preload" THEN @ ELSE t.next,
              !.list = IF mode # "neither" THEN @ ELSE IF t.cur = 0 THEN <<>> ELSE t.list,
              !.straight = \A i \in Place(Reset(t)) .. Place(t) - 1 : file[i].kind = "user"]

UserTimes == {file[i].time : i \in {j \in DOMAIN file : file[j].kind = "user"}}

----------------------------------------------------------------------------
Init ==
    /\ file \in Files /\ mode \in Modes /\ skip \in BOOLEAN /\ limit \in Limits
    /\ tape = IF skip THEN PlayToUserMessage(Opened) ELSE Opened
    /\ start = IF tape.cur = 0 THEN file[1].time ELSE tape.time
    /\ earliest = 0
    /\ play = Idle
    /\ running = FALSE /\ accum = 0 /\ idle = 0 /\ rate = 1
    /\ crashed = FALSE
    /\ calls = 0 /\ doubled = FALSE

\* What elapsed times are counted from.
Base == IF earliest = 0 THEN start ELSE earliest

\* reset sets d_last_time to 0, and the accumulator with it.  (What is accumulated
\* before mainloop starts the clock is thrown away there.)
ClockReset == running' = FALSE /\ accum' = 0 /\ idle' = 0

\* The constructor, which goes to the first user message, never returns from it.
Hung ==
    skip /\ \E i \in DOMAIN file :
              file[i].kind = "refused" /\ \A j \in 1 .. i - 1 : file[j].kind # "user"

Ready == play = Idle /\ ~crashed /\ ~Hung

Call ==
    /\ Ready
    /\ calls < MaxCalls
    /\ calls' = calls + 1
    /\ UNCHANGED <<opts, start>>

----------------------------------------------------------------------------
(* Playing.                                                                         *)

Tick ==
    /\ Ready /\ running
    /\ accum + rate * (idle + 1) <= MaxWait /\ idle < MaxWait
    /\ idle' = idle + 1
    /\ UNCHANGED <<opts, tape, start, earliest, play, running, accum, rate, crashed, calls, doubled>>

\* The call of play_to_filetime: all messages up to an end, which is later than 0, and
\* only as many as the limit says if there is one.
PlayTo(end) == [end |-> end, left |-> limit]

OneLess == [play EXCEPT !.left = IF @ = 0 THEN 0 ELSE @ - 1]

MainloopStart ==
    /\ Ready /\ ~running
    /\ running' = TRUE /\ accum' = 0 /\ idle' = 0
    /\ UNCHANGED <<opts, tape, start, earliest, play, rate, crashed, calls, doubled>>

AccumulatedOnce == rate * idle    \* mutant: what was accumulated before is lost

\* accumulate_to: file time that has passed since the last message was played.
Accumulated == accum + rate * idle

\* mainloop: accumulate_to, need_to_play, and play_to_filetime if a message is due.
Mainloop ==
    LET t == IF tape.cur # 0 \/ tape.next > Len(file) THEN tape
             ELSE LET r == ReadEntry(tape) IN [r EXCEPT !.cur = Len(r.list)]
        end == tape.time + Accumulated
        due == t.cur # 0 /\ end > Current(t).time
    IN
    /\ Ready /\ running /\ (idle > 0 \/ due)
    /\ tape' = t
    /\ accum' = IF due THEN 0 ELSE Accumulated
    /\ idle' = 0
    /\ play' = IF due THEN PlayTo(end) ELSE Idle
    /\ UNCHANGED <<opts, start, earliest, running, rate, crashed, calls, doubled>>

More == play # Idle /\ tape.cur # 0 /\ Current(tape).time <= play.end

\* play_to_filetime has come to its end, and sets the time to it.
PlayDone ==
    /\ play # Idle
    /\ ~More
    /\ tape' = [tape EXCEPT !.time = play.end]
    /\ play' = Idle
    /\ UNCHANGED <<opts, start, earliest, clock, rate, crashed, calls, doubled>>

\* Otherwise it plays one more.  A message that is refused, or reading past the end of a
\* file that is not preloaded, is an error that ends the call.
PlayNext ==
    LET t == PlayOne(tape) IN
    /\ More
    /\ tape' = t
    /\ play' = IF \/ Current(tape).kind = "refused" \/ play.left = 1
                  \/ t.cur = 0 /\ mode # "preload"
               THEN Idle ELSE OneLess
    /\ UNCHANGED <<opts, start, earliest, clock, rate, crashed, calls, doubled>>

\* Or the message cannot be put into the log, or a handler of a user message returns
\* nonzero: the call ends, and the next one plays the message again.
PlayNextFails ==
    /\ More /\ calls < MaxCalls
    /\ \/ tape' = tape
       \/ /\ Current(tape).kind = "user" /\ tape.table[Current(tape).num] # NoName
          /\ tape' = Dispatch(tape)
    /\ play' = Idle
    /\ calls' = calls + 1
    /\ UNCHANGED <<opts, start, earliest, clock, rate, crashed, doubled>>

\* A handler of the message, such as the one of vrpn_File_Controller, resets the
\* connection; playone_to_filetime then advances past the message that reset came to.
PlayNextResets ==
    LET t == PassOver(Reset(Dispatch(tape))) IN
    /\ More /\ calls < MaxCalls
    /\ Current(tape).kind = "user" /\ tape.table[Current(tape).num] # NoName
    /\ tape' = t
    /\ play' = IF play.left = 1 \/ (t.cur = 0 /\ mode # "preload") THEN Idle
               ELSE OneLess
    /\ ClockReset
    /\ calls' = calls + 1
    /\ UNCHANGED <<opts, start, earliest, rate, crashed, doubled>>

----------------------------------------------------------------------------
(* What the program asks for.                                                       *)

\* set_replay_rate
SetReplayRate(r) ==
    /\ Call /\ r # rate
    /\ rate' = r
    /\ accum' = Accumulated
    /\ idle' = 0
    /\ UNCHANGED <<tape, earliest, play, running, crashed, doubled>>

ResetCall ==
    /\ Call
    /\ tape' = Reset(tape)
    /\ ClockReset
    /\ UNCHANGED <<earliest, play, rate, crashed, doubled>>

\* play_to_time: back to the beginning if it has passed.
PlayToTime(n) ==
    LET end == Base + n IN
    /\ Call
    /\ play' = PlayTo(end)
    /\ IF tape.time > end
       THEN tape' = Reset(tape) /\ ClockReset
       ELSE UNCHANGED <<tape, clock>>
    /\ UNCHANGED <<earliest, rate, crashed, doubled>>

\* playone
PlayOneCall ==
    /\ Call
    /\ tape.cur # 0
    /\ play' = [end |-> Forever, left |-> 1]
    /\ UNCHANGED <<tape, earliest, clock, rate, crashed, doubled>>

\* jump_to_time: messages up to the time are passed over.  After a reset that is the
\* time of the beginning.  In a preloaded file the end is run past.
JumpToTime(n) ==
    LET to == Base + n
        back == tape.cur = 0 \/ Current(tape).time > to
        t == IF back THEN Reset(tape) ELSE [tape EXCEPT !.time = to]
        Before(e) == e.time <= t.time
        s == Loop(t, Before, PassOver)
    IN
    /\ Call
    /\ tape' = s
    /\ IF back THEN ClockReset ELSE UNCHANGED clock
    /\ crashed' = (s.cur = 0 /\ (mode = "preload" \/ t.cur = 0))
    /\ UNCHANGED <<earliest, play, rate, doubled>>

\* get_length, get_lowest_user_timestamp, time_since_connection_open and the like: the
\* times are looked for once.
GetLength ==
    /\ Call
    /\ earliest = 0
    /\ tape' = ReturnToBookmark(tape, ScanToEnd(Reset(tape)))
    /\ earliest' = IF UserTimes = {} THEN 0 ELSE Min(UserTimes)
    /\ ClockReset
    /\ doubled' = (doubled \/ (mode = "accumulate" /\ tape.next <= Len(file)))
    /\ UNCHANGED <<play, rate, crashed>>

Next ==
    \/ Tick \/ MainloopStart \/ Mainloop \/ PlayDone \/ PlayNext \/ PlayNextFails
    \/ PlayNextResets
    \/ \E r \in 0 .. 1 : SetReplayRate(r)
    \/ ResetCall \/ PlayOneCall \/ GetLength
    \/ \E n \in 0 .. MaxElapsed : PlayToTime(n) \/ JumpToTime(n)

Spec == Init /\ [][Next]_vars

\* The clock runs, and the program calls mainloop, which returns.
Fairness ==
    WF_vars(Tick) /\ WF_vars(MainloopStart \/ Mainloop) /\ WF_vars(PlayDone \/ PlayNext)

LiveSpec == Spec /\ Fairness

----------------------------------------------------------------------------
(* Properties.                                                                      *)

Tape == [list : Seq(Nat \ {0}), cur : Nat, next : Nat \ {0}, time : Nat,
         table : [Num -> Name \cup {NoName}], straight : BOOLEAN]

TypeOK ==
    /\ file \in Files /\ mode \in Modes /\ skip \in BOOLEAN /\ limit \in Limits
    /\ tape \in Tape /\ tape.cur \in 0 .. Len(tape.list)
    /\ start \in Nat /\ earliest \in Nat
    /\ play \in [end : Nat, left : Nat]
    /\ running \in BOOLEAN /\ accum \in Nat /\ idle \in Nat /\ rate \in 0 .. 1
    /\ crashed \in BOOLEAN /\ calls \in Nat /\ doubled \in BOOLEAN

\* What is in memory and where the file stands fit together, whatever was asked for in
\* whatever order: no message is missed and none read twice.  Only a file that is
\* accumulated and whose length is asked for in the middle is read twice from there on.
ListFollowsFile ==
    LET n == Len(tape.list) IN
    /\ mode = "preload" => n = Len(file)
    /\ mode # "neither" /\ ~doubled => tape.list = [i \in 1 .. n |-> i] /\ tape.next = n + 1
    /\ mode = "neither" /\ tape.cur # 0 => n = 1 /\ tape.next = tape.list[1] + 1
    /\ tape.cur = 0 => tape.next > Len(file)

\* What the recording says number n stands for at place p: the last description of it
\* before p, if the connection has not ended since.
Described(p, n) ==
    LET Says(i) == file[i].kind = "disconnect" \/ (file[i].kind = "describe" /\ file[i].num = n)
        last == Max({0} \cup {i \in 1 .. p - 1 : Says(i)})
    IN  IF last = 0 \/ file[last].kind = "disconnect" THEN NoName ELSE file[last].name

\* A user message is given to the handlers of the name that its number stands for at its
\* place in the recording, and to none if it stands for nothing there, whatever was
\* played, reset and asked for before: unless a description or a disconnect message has
\* been passed over (by a jump, or by asking for the length, which clears the table and
\* plays the first descriptions only).
NamesKept ==
    (tape.cur # 0 /\ tape.straight /\ ~doubled /\ Current(tape).kind = "user") =>
        tape.table[Current(tape).num] = Described(Place(tape), Current(tape).num)

\* Asking for the length moves the tape to the beginning, to the end, and back to the
\* message and the time where it was.
QueryKeepsPlace ==
    [][GetLength => Place(tape') = Place(tape) /\ tape'.time = tape.time]_vars

\* A file is played to its end, once it is no longer paused, or to a message that is
\* refused, which is played again and again.
PlaysOut == <>[](rate # 0) => <>(tape.cur = 0 \/ crashed \/ Current(tape).kind = "refused")
====
