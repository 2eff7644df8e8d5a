------------------------ MODULE ImagerStreamProofs ------------------------
(* Theorems about ImagerStream, for every set of throttle requests and every *)
(* bound.                                                                    *)
EXTENDS ImagerStream, FiniteSetTheorems, FunctionTheorems, TLAPS

---------------------------------------------------------------------------
(* Counting the begin_frame messages of a queue.                            *)

BeginAt(q) == {i \in 1 .. Len(q) : q[i].kind = "begin"}

LEMMA BeginsNat ==
  ASSUME NEW q \in Seq(Msg)
  PROVE  IsFiniteSet(BeginAt(q)) /\ Begins(q) = Cardinality(BeginAt(q)) /\ Begins(q) \in Nat
<1>1. Len(q) \in Nat
  OBVIOUS
<1>2. IsFiniteSet(1 .. Len(q))
  BY <1>1, FS_Interval
<1>3. BeginAt(q) \subseteq 1 .. Len(q)
  BY DEF BeginAt
<1>4. IsFiniteSet(BeginAt(q))
  BY <1>2, <1>3, FS_Subset
<1> QED
  BY <1>4, FS_CardinalityType DEF Begins, BeginAt

LEMMA BeginsEmpty == Begins(<<>>) = 0
<1>1. BeginAt(<<>>) = {}
  BY DEF BeginAt
<1> QED
  BY <1>1, FS_EmptySet DEF Begins, BeginAt

\* A message at the back counts if it begins a frame.
LEMMA BeginsAppend ==
  ASSUME NEW q \in Seq(Msg), NEW m \in Msg
  PROVE  Begins(Append(q, m)) = Begins(q) + (IF m.kind = "begin" THEN 1 ELSE 0)
<1> DEFINE n == Len(q) + 1
<1>1. Append(q, m) \in Seq(Msg) /\ Len(Append(q, m)) = n /\ Append(q, m)[n] = m
      /\ Len(q) \in Nat /\ \A i \in 1 .. Len(q) : Append(q, m)[i] = q[i]
  OBVIOUS
<1>2. n \notin BeginAt(q)
  BY <1>1 DEF BeginAt
<1>3. IsFiniteSet(BeginAt(q)) /\ Begins(q) = Cardinality(BeginAt(q)) /\ Begins(q) \in Nat
  BY BeginsNat
<1>4. CASE m.kind = "begin"
  <2>1. BeginAt(Append(q, m)) = BeginAt(q) \cup {n}
    BY <1>1, <1>4 DEF BeginAt
  <2>2. Begins(Append(q, m)) = Cardinality(BeginAt(Append(q, m)))
    BY <1>1, BeginsNat
  <2>3. Cardinality(BeginAt(q) \cup {n}) = Cardinality(BeginAt(q)) + 1
    BY <1>2, <1>3, FS_AddElement
  <2> QED
    BY <2>1, <2>2, <2>3, <1>3, <1>4
<1>5. CASE m.kind # "begin"
  <2>1. BeginAt(Append(q, m)) = BeginAt(q)
    BY <1>1, <1>5 DEF BeginAt
  <2>2. Begins(Append(q, m)) = Cardinality(BeginAt(Append(q, m)))
    BY <1>1, BeginsNat
  <2> QED
    BY <2>1, <2>2, <1>3, <1>5
<1> QED
  BY <1>4, <1>5

\* So does the one at the front, when it is taken away.
LEMMA BeginsTail ==
  ASSUME NEW q \in Seq(Msg), q # <<>>
  PROVE  Begins(Tail(q)) = Begins(q) - (IF Head(q).kind = "begin" THEN 1 ELSE 0)
<1> DEFINE S == BeginAt(Tail(q))
           T == BeginAt(q) \ {1}
           f == [i \in S |-> i + 1]
<1>1. Tail(q) \in Seq(Msg) /\ Len(Tail(q)) = Len(q) - 1 /\ Len(q) \in Nat /\ Len(q) >= 1
      /\ Head(q) = q[1] /\ \A i \in 1 .. Len(q) - 1 : Tail(q)[i] = q[i + 1]
  OBVIOUS
<1>2. \A i \in S : i \in Nat /\ i >= 1 /\ i + 1 \in T
  BY <1>1 DEF BeginAt
<1>3. \A j \in T : j \in Nat /\ j - 1 \in S
  BY <1>1 DEF BeginAt
<1>4. f \in Bijection(S, T)
  <2>1. f \in [S -> T]
    BY <1>2
  <2>2. \A a, b \in S : f[a] = f[b] => a = b
    BY <1>2
  <2>3. \A t \in T : \E s \in S : f[s] = t
    <3> TAKE t \in T
    <3>1. t - 1 \in S /\ t \in Nat
      BY <1>3
    <3>2. f[t - 1] = (t - 1) + 1
      BY <3>1
    <3> QED
      BY <3>1, <3>2
  <2> HIDE DEF f, S, T
  <2> QED
    BY <2>1, <2>2, <2>3, Fun_IsBij
<1>5. IsFiniteSet(S) /\ Begins(Tail(q)) = Cardinality(S) /\ Begins(Tail(q)) \in Nat
  BY <1>1, BeginsNat
<1>6. Cardinality(T) = Cardinality(S)
  <2>1. ExistsBijection(S, T)
    BY <1>4, Zenon DEF ExistsBijection
  <2> HIDE DEF S, T
  <2> QED
    BY <2>1, <1>5, FS_Bijection
<1>7. IsFiniteSet(BeginAt(q)) /\ Begins(q) = Cardinality(BeginAt(q)) /\ Begins(q) \in Nat
  BY BeginsNat
<1>8. Cardinality(T) = IF 1 \in BeginAt(q) THEN Cardinality(BeginAt(q)) - 1
                       ELSE Cardinality(BeginAt(q))
  BY <1>7, FS_RemoveElement
<1>9. 1 \in BeginAt(q) <=> Head(q).kind = "begin"
  BY <1>1 DEF BeginAt
<1> HIDE DEF S, T, f
<1> QED
  BY <1>5, <1>6, <1>7, <1>8, <1>9

---------------------------------------------------------------------------
(* Types, and how many messages mainloop has still to send.  A type is kept    *)
(* by each step; the variables are taken in groups.                            *)

Places ==
    /\ main \in {"idle", "starting", "stopping", "asking", "draining", "decrement", "killed",
                 "crashed"}
    /\ log \in {"off", "none", "open", "top", "throttle", "deduct", "request", "swap", "answer", "serve",
                "insert", "count", "leave"}

Flags ==
    /\ connected \in BOOLEAN /\ semLost \in BOOLEAN /\ exit \in BOOLEAN /\ descr \in BOOLEAN
    /\ described \in BOOLEAN /\ wrapped \in BOOLEAN /\ overwrote \in BOOLEAN /\ leftover \in BOOLEAN

Records ==
    /\ result \in [new : BOOLEAN, names : Nat]
    /\ throttle \in [new : BOOLEAN, count : Int]

Numbers ==
    /\ left \in Nat /\ asked \in Nat /\ shadow \in Int /\ request \in Nat /\ frames \in Int
    /\ want \in Nat /\ answer \in Nat /\ names \in Nat /\ framesToSend \in Int
    /\ dropped \in 0 .. DropMod - 1
    /\ conn \in Nat /\ pos \in Nat /\ stale \in Nat /\ ledger \in Int
    /\ expect \in Nat \cup {-1}

Queues == queue \in Seq(Msg) /\ recent \in Seq(Msg)

LeftToSend == main = "draining" => left >= 1

TypeInv == Places /\ Flags /\ Records /\ Numbers /\ Queues /\ LeftToSend

LEMMA TypeInvOK == TypeInv => TypeOK
  BY DEF TypeInv, Places, Flags, Records, Numbers, Queues, TypeOK

LEMMA TypeInit == Init => TypeInv
<1> SUFFICES ASSUME Init PROVE TypeInv
  OBVIOUS
<1> USE ImagerAssumption DEF Init
<1>1. Places /\ Flags
  BY DEF Places, Flags
<1>2. Numbers /\ LeftToSend
  BY DEF Numbers, LeftToSend
<1>3. Records
  BY DEF Records
<1>4. Queues
  BY DEF Queues
<1> QED
  BY <1>1, <1>2, <1>3, <1>4 DEF TypeInv

\* What the three outcomes of kill() have in common.
LEMMA KillDoes ==
  Kill => /\ main' \in {"idle", "killed"}
          /\ semLost \in BOOLEAN => semLost' \in BOOLEAN
          /\ \/ log' = log /\ stale' = stale
             \/ log' = "off" /\ stale' = IF log = "count" THEN stale + 1 ELSE stale
<1>1. KillThread => log' = "off" /\ main' = "idle" /\ semLost' \in BOOLEAN /\ stale' = Uncounted
  BY DEF KillThread
<1>2. KillProcess => log' = "off" /\ main' = "killed" /\ semLost' = semLost /\ stale' = Uncounted
  BY DEF KillProcess
<1>3. KillFails => log' = log /\ main' = "idle" /\ semLost' = semLost /\ stale' = stale
  BY DEF KillFails
<1> QED
  BY <1>1, <1>2, <1>3 DEF Kill, Uncounted

\* Where the threads are.
LEMMA PlacesStep == Places /\ Next => Places'
<1> SUFFICES ASSUME Places, Next PROVE Places'
  OBVIOUS
<1> USE ImagerAssumption DEF Places, mainVars, sharedVars, logVars, serverVars, history
<1>1. ASSUME HandleGotFirst PROVE Places'
  BY <1>1, KillDoes DEF HandleGotFirst, InitShared
<1>2. ASSUME HandleDroppedLast PROVE Places'
  BY <1>2 DEF HandleDroppedLast
<1>3. ASSUME NEW n \in Throttles, HandleThrottle(n) PROVE Places'
  BY <1>3 DEF HandleThrottle, ShadowAfter
<1>4. ASSUME HandleRequestLogging PROVE Places'
  BY <1>4 DEF HandleRequestLogging
<1>5. ASSUME Mainloop PROVE Places'
  BY <1>5 DEF Mainloop
<1>6. ASSUME StartDescribed \/ StartTimeout \/ StopDone \/ StopCrash PROVE Places'
  BY <1>6 DEF StartDescribed, StartTimeout, StopDone, StopCrash
<1>7. ASSUME AskAnswered \/ AskTimeout PROVE Places'
  BY <1>7 DEF AskAnswered, AskTimeout
<1>8. ASSUME StopKill PROVE Places'
  BY <1>8, KillDoes DEF StopKill
<1>9. ASSUME Retrieve PROVE Places'
  BY <1>9 DEF Retrieve
<1>10. ASSUME DecrementFrames PROVE Places'
  BY <1>10 DEF DecrementFrames
<1>11. ASSUME LogOpen PROVE Places'
  BY <1>11 DEF LogOpen, NewConnection
<1>12. ASSUME LogTop \/ LogLeave PROVE Places'
  BY <1>12 DEF LogTop, LogLeave
<1>13. ASSUME LogThrottle PROVE Places'
  BY <1>13 DEF LogThrottle, MoreCredit
<1>14. ASSUME LogDeduct PROVE Places'
  BY <1>14 DEF LogDeduct, CreditAfter
<1>15. ASSUME LogRequest PROVE Places'
  BY <1>15 DEF LogRequest, NewConnection
<1>16. ASSUME SwapDone \/ SwapTimeout PROVE Places'
  BY <1>16 DEF SwapDone, SwapTimeout, ReadDescription
<1>17. ASSUME LogAnswer PROVE Places'
  BY <1>17 DEF LogAnswer
<1>18. ASSUME ServeDescription \/ ServeReconnect PROVE Places'
  BY <1>18 DEF ServeDescription, ServeReconnect, ReadDescription, NewConnection
<1>19. ASSUME ServeBeginDropped PROVE Places'
  BY <1>19 DEF ServeBeginDropped
<1>20. ASSUME ServeBegin PROVE Places'
  BY <1>20 DEF ServeBegin
<1>21. ASSUME InsertBegin PROVE Places'
  BY <1>21 DEF InsertBegin
<1>22. ASSUME IncrementFrames PROVE Places'
  BY <1>22 DEF IncrementFrames
<1>23. ASSUME ServePart PROVE Places'
  BY <1>23 DEF ServePart
<1>24. ASSUME NEW k \in 1 .. DropMod - 1, ServeDiscarded(k) PROVE Places'
  BY <1>24 DEF ServeDiscarded
<1> QED
  BY <1>1, <1>2, <1>3, <1>4, <1>5, <1>6, <1>7, <1>8, <1>9, <1>10, <1>11,
     <1>12, <1>13, <1>14, <1>15, <1>16, <1>17, <1>18, <1>19, <1>20, <1>21, <1>22, <1>23, <1>24
     DEF Next, MainStep, MainRest, LogStep

\* The flags.
LEMMA FlagsStep == Flags /\ Next => Flags'
<1> SUFFICES ASSUME Flags, Next PROVE Flags'
  OBVIOUS
<1> USE ImagerAssumption DEF Flags, mainVars, sharedVars, logVars, serverVars, history
<1>1. ASSUME HandleGotFirst PROVE Flags'
  BY <1>1, KillDoes DEF HandleGotFirst, InitShared
<1>2. ASSUME HandleDroppedLast PROVE Flags'
  BY <1>2 DEF HandleDroppedLast
<1>3. ASSUME NEW n \in Throttles, HandleThrottle(n) PROVE Flags'
  BY <1>3 DEF HandleThrottle, ShadowAfter
<1>4. ASSUME HandleRequestLogging PROVE Flags'
  BY <1>4 DEF HandleRequestLogging
<1>5. ASSUME Mainloop PROVE Flags'
  BY <1>5 DEF Mainloop
<1>6. ASSUME StartDescribed \/ StartTimeout \/ StopDone \/ StopCrash PROVE Flags'
  BY ZenonT(30), <1>6 DEF StartDescribed, StartTimeout, StopDone, StopCrash
<1>7. ASSUME AskAnswered \/ AskTimeout PROVE Flags'
  BY <1>7 DEF AskAnswered, AskTimeout
<1>8. ASSUME StopKill PROVE Flags'
  BY <1>8, KillDoes DEF StopKill
<1>9. ASSUME Retrieve PROVE Flags'
  BY <1>9 DEF Retrieve
<1>10. ASSUME DecrementFrames PROVE Flags'
  BY <1>10 DEF DecrementFrames
<1>11. ASSUME LogOpen PROVE Flags'
  BY <1>11 DEF LogOpen, NewConnection
<1>12. ASSUME LogTop \/ LogLeave PROVE Flags'
  BY <1>12 DEF LogTop, LogLeave
<1>13. ASSUME LogThrottle PROVE Flags'
  BY <1>13 DEF LogThrottle, MoreCredit
<1>14. ASSUME LogDeduct PROVE Flags'
  BY <1>14 DEF LogDeduct, CreditAfter
<1>15. ASSUME LogRequest PROVE Flags'
  BY <1>15 DEF LogRequest, NewConnection
<1>16. ASSUME SwapDone \/ SwapTimeout PROVE Flags'
  BY <1>16 DEF SwapDone, SwapTimeout, ReadDescription
<1>17. ASSUME LogAnswer PROVE Flags'
  BY <1>17 DEF LogAnswer
<1>18. ASSUME ServeDescription \/ ServeReconnect PROVE Flags'
  BY <1>18 DEF ServeDescription, ServeReconnect, ReadDescription, NewConnection
<1>19. ASSUME ServeBeginDropped PROVE Flags'
  BY <1>19 DEF ServeBeginDropped
<1>20. ASSUME ServeBegin PROVE Flags'
  BY <1>20 DEF ServeBegin
<1>21. ASSUME InsertBegin PROVE Flags'
  BY <1>21 DEF InsertBegin
<1>22. ASSUME IncrementFrames PROVE Flags'
  BY <1>22 DEF IncrementFrames
<1>23. ASSUME ServePart PROVE Flags'
  BY <1>23 DEF ServePart
<1>24. ASSUME NEW k \in 1 .. DropMod - 1, ServeDiscarded(k) PROVE Flags'
  BY <1>24 DEF ServeDiscarded
<1> QED
  BY <1>1, <1>2, <1>3, <1>4, <1>5, <1>6, <1>7, <1>8, <1>9, <1>10, <1>11,
     <1>12, <1>13, <1>14, <1>15, <1>16, <1>17, <1>18, <1>19, <1>20, <1>21, <1>22, <1>23, <1>24
     DEF Next, MainStep, MainRest, LogStep

\* The result of a log request and the slot of throttle requests.
LEMMA RecordsStep == (Records /\ answer \in Nat) /\ Next => Records'
<1> SUFFICES ASSUME (Records /\ answer \in Nat), Next PROVE Records'
  OBVIOUS
<1> USE ImagerAssumption DEF Records, mainVars, sharedVars, logVars, serverVars, history
<1>1. ASSUME HandleGotFirst PROVE Records'
  <2>1. CASE log # "off"
    BY <1>1, <2>1 DEF HandleGotFirst
  <2>2. CASE log = "off"
    <3>1. /\ result' = [new |-> FALSE, names |-> 0]
          /\ throttle' = [new |-> FALSE, count |-> -1]
      BY <1>1, <2>2 DEF HandleGotFirst, InitShared
    <3> QED
      BY <3>1
  <2> QED
    BY <2>1, <2>2
<1>2. ASSUME HandleDroppedLast PROVE Records'
  BY <1>2 DEF HandleDroppedLast
<1>3. ASSUME NEW n \in Throttles, HandleThrottle(n) PROVE Records'
  BY <1>3 DEF HandleThrottle, ShadowAfter
<1>4. ASSUME HandleRequestLogging PROVE Records'
  BY <1>4 DEF HandleRequestLogging
<1>5. ASSUME Mainloop PROVE Records'
  BY <1>5 DEF Mainloop
<1>6. ASSUME StartDescribed \/ StartTimeout \/ StopDone \/ StopCrash PROVE Records'
  BY <1>6 DEF StartDescribed, StartTimeout, StopDone, StopCrash
<1>7. ASSUME AskAnswered \/ AskTimeout PROVE Records'
  BY <1>7 DEF AskAnswered, AskTimeout
<1>8. ASSUME StopKill PROVE Records'
  BY <1>8, KillDoes DEF StopKill
<1>9. ASSUME Retrieve PROVE Records'
  BY <1>9 DEF Retrieve
<1>10. ASSUME DecrementFrames PROVE Records'
  BY <1>10 DEF DecrementFrames
<1>11. ASSUME LogOpen PROVE Records'
  BY <1>11 DEF LogOpen, NewConnection
<1>12. ASSUME LogTop \/ LogLeave PROVE Records'
  BY <1>12 DEF LogTop, LogLeave
<1>13. ASSUME LogThrottle PROVE Records'
  BY <1>13 DEF LogThrottle, MoreCredit
<1>14. ASSUME LogDeduct PROVE Records'
  BY <1>14 DEF LogDeduct, CreditAfter
<1>15. ASSUME LogRequest PROVE Records'
  BY <1>15 DEF LogRequest, NewConnection
<1>16. ASSUME SwapDone \/ SwapTimeout PROVE Records'
  BY <1>16 DEF SwapDone, SwapTimeout, ReadDescription
<1>17. ASSUME LogAnswer PROVE Records'
  BY <1>17 DEF LogAnswer
<1>18. ASSUME ServeDescription \/ ServeReconnect PROVE Records'
  BY <1>18 DEF ServeDescription, ServeReconnect, ReadDescription, NewConnection
<1>19. ASSUME ServeBeginDropped PROVE Records'
  BY <1>19 DEF ServeBeginDropped
<1>20. ASSUME ServeBegin PROVE Records'
  BY <1>20 DEF ServeBegin
<1>21. ASSUME InsertBegin PROVE Records'
  BY <1>21 DEF InsertBegin
<1>22. ASSUME IncrementFrames PROVE Records'
  BY <1>22 DEF IncrementFrames
<1>23. ASSUME ServePart PROVE Records'
  BY <1>23 DEF ServePart
<1>24. ASSUME NEW k \in 1 .. DropMod - 1, ServeDiscarded(k) PROVE Records'
  BY <1>24 DEF ServeDiscarded
<1> QED
  BY <1>1, <1>2, <1>3, <1>4, <1>5, <1>6, <1>7, <1>8, <1>9, <1>10, <1>11,
     <1>12, <1>13, <1>14, <1>15, <1>16, <1>17, <1>18, <1>19, <1>20, <1>21, <1>22, <1>23, <1>24
     DEF Next, MainStep, MainRest, LogStep

\* What a message is.
LEMMA AppendType ==
  ASSUME NEW s \in Seq(Msg), NEW m \in Msg
  PROVE  Append(s, m) \in Seq(Msg)
  OBVIOUS

LEMMA MessageType ==
  ASSUME NEW kind \in {"begin", "part", "discarded"}, NEW n \in Nat, conn \in Nat,
         expect \in Nat \cup {-1}
  PROVE  /\ Message(kind, n) \in Msg
         /\ Message(kind, n).kind = kind /\ Message(kind, n).n = n /\ Message(kind, n).conn = conn
         /\ Message(kind, n).next = Expected(kind, n)
         /\ Expected(kind, n) \in Nat \cup {-1}
<1>1. Expected(kind, n) \in Nat \cup {-1}
  BY DEF Expected
<1> QED
  BY <1>1 DEF Message, Msg

\* The counters.
LEMMA NumbersStep == (Numbers /\ Records /\ LeftToSend /\ Begins(queue) \in Nat) /\ Next => Numbers'
<1> SUFFICES ASSUME (Numbers /\ Records /\ LeftToSend /\ Begins(queue) \in Nat), Next PROVE Numbers'
  OBVIOUS
<1> USE ImagerAssumption DEF Numbers, Records, LeftToSend, mainVars, sharedVars, logVars, serverVars, history
<1>1. ASSUME HandleGotFirst PROVE Numbers'
  BY <1>1, KillDoes DEF HandleGotFirst, InitShared
<1>2. ASSUME HandleDroppedLast PROVE Numbers'
  BY <1>2 DEF HandleDroppedLast
<1>3. ASSUME NEW n \in Throttles, HandleThrottle(n) PROVE Numbers'
  BY <1>3 DEF HandleThrottle, ShadowAfter
<1>4. ASSUME HandleRequestLogging PROVE Numbers'
  BY <1>4 DEF HandleRequestLogging
<1>5. ASSUME Mainloop PROVE Numbers'
  BY <1>5 DEF Mainloop
<1>6. ASSUME StartDescribed \/ StartTimeout \/ StopDone \/ StopCrash PROVE Numbers'
  BY <1>6 DEF StartDescribed, StartTimeout, StopDone, StopCrash
<1>7. ASSUME AskAnswered \/ AskTimeout PROVE Numbers'
  BY <1>7 DEF AskAnswered, AskTimeout
<1>8. ASSUME StopKill PROVE Numbers'
  BY <1>8, KillDoes DEF StopKill
<1>9. ASSUME Retrieve PROVE Numbers'
  BY <1>9 DEF Retrieve
<1>10. ASSUME DecrementFrames PROVE Numbers'
  BY <1>10 DEF DecrementFrames
<1>11. ASSUME LogOpen PROVE Numbers'
  BY <1>11 DEF LogOpen, NewConnection
<1>12. ASSUME LogTop \/ LogLeave PROVE Numbers'
  BY <1>12 DEF LogTop, LogLeave
<1>13. ASSUME LogThrottle PROVE Numbers'
  BY <1>13 DEF LogThrottle, MoreCredit
<1>14. ASSUME LogDeduct PROVE Numbers'
  BY <1>14 DEF LogDeduct, CreditAfter
<1>15. ASSUME LogRequest PROVE Numbers'
  BY <1>15 DEF LogRequest, NewConnection
<1>16. ASSUME SwapDone \/ SwapTimeout PROVE Numbers'
  BY <1>16 DEF SwapDone, SwapTimeout, ReadDescription
<1>17. ASSUME LogAnswer PROVE Numbers'
  BY <1>17 DEF LogAnswer
<1>18. ASSUME ServeDescription \/ ServeReconnect PROVE Numbers'
  BY <1>18 DEF ServeDescription, ServeReconnect, ReadDescription, NewConnection
<1>19. ASSUME ServeBeginDropped PROVE Numbers'
  BY <1>19 DEF ServeBeginDropped
<1>20. ASSUME ServeBegin PROVE Numbers'
  <2>1. dropped \in Nat /\ 0 \in 0 .. DropMod - 1
    OBVIOUS
  <2>2. Expected("discarded", dropped) \in Nat \cup {-1}
    BY <2>1, MessageType
  <2>3. expect' \in Nat \cup {-1}
    BY <1>20, <2>2 DEF ServeBegin, Send
  <2> QED
    BY SMTT(30), <1>20, <2>1, <2>3 DEF ServeBegin
<1>21. ASSUME InsertBegin PROVE Numbers'
  <2>1. pos \div 2 \in Nat
    OBVIOUS
  <2>2. Expected("begin", pos \div 2) \in Nat \cup {-1}
    BY <2>1, MessageType
  <2>3. expect' \in Nat \cup {-1}
    BY <1>21, <2>2 DEF InsertBegin, Send
  <2> QED
    BY <1>21, <2>3 DEF InsertBegin
<1>22. ASSUME IncrementFrames PROVE Numbers'
  BY <1>22 DEF IncrementFrames
<1>23. ASSUME ServePart PROVE Numbers'
  <2>1. pos \div 2 \in Nat
    OBVIOUS
  <2>2. Expected("part", pos \div 2) \in Nat \cup {-1}
    BY <2>1, MessageType
  <2>3. expect' \in Nat \cup {-1}
    BY <1>23, <2>2 DEF ServePart, Send
  <2> QED
    BY <1>23, <2>3 DEF ServePart
<1>24. ASSUME NEW k \in 1 .. DropMod - 1, ServeDiscarded(k) PROVE Numbers'
  <2>1. k \in Nat /\ pos + 2 * k \in Nat
    OBVIOUS
  <2>2. Expected("discarded", k) \in Nat \cup {-1}
    BY <2>1, MessageType
  <2>3. expect' \in Nat \cup {-1}
    BY <1>24, <2>2 DEF ServeDiscarded, Send
  <2> QED
    BY <1>24, <2>1, <2>3 DEF ServeDiscarded
<1> QED
  BY <1>1, <1>2, <1>3, <1>4, <1>5, <1>6, <1>7, <1>8, <1>9, <1>10, <1>11,
     <1>12, <1>13, <1>14, <1>15, <1>16, <1>17, <1>18, <1>19, <1>20, <1>21, <1>22, <1>23, <1>24
     DEF Next, MainStep, MainRest, LogStep

\* A pass of mainloop that goes on has a message left to send.
LEMMA LeftStep == (LeftToSend /\ left \in Nat /\ queue \in Seq(Msg)) /\ Next => LeftToSend'
<1> SUFFICES ASSUME (LeftToSend /\ left \in Nat /\ queue \in Seq(Msg)), Next PROVE LeftToSend'
  OBVIOUS
<1> USE ImagerAssumption DEF LeftToSend, mainVars, sharedVars, logVars, serverVars, history
<1>1. ASSUME HandleGotFirst PROVE LeftToSend'
  BY <1>1, KillDoes DEF HandleGotFirst, InitShared
<1>2. ASSUME HandleDroppedLast PROVE LeftToSend'
  BY <1>2 DEF HandleDroppedLast
<1>3. ASSUME NEW n \in Throttles, HandleThrottle(n) PROVE LeftToSend'
  BY <1>3 DEF HandleThrottle, ShadowAfter
<1>4. ASSUME HandleRequestLogging PROVE LeftToSend'
  BY <1>4 DEF HandleRequestLogging
<1>5. ASSUME Mainloop PROVE LeftToSend'
  BY <1>5 DEF Mainloop
<1>6. ASSUME StartDescribed \/ StartTimeout \/ StopDone \/ StopCrash PROVE LeftToSend'
  BY <1>6 DEF StartDescribed, StartTimeout, StopDone, StopCrash
<1>7. ASSUME AskAnswered \/ AskTimeout PROVE LeftToSend'
  BY <1>7 DEF AskAnswered, AskTimeout
<1>8. ASSUME StopKill PROVE LeftToSend'
  BY <1>8, KillDoes DEF StopKill
<1>9. ASSUME Retrieve PROVE LeftToSend'
  BY <1>9 DEF Retrieve
<1>10. ASSUME DecrementFrames PROVE LeftToSend'
  BY <1>10 DEF DecrementFrames
<1>11. ASSUME LogOpen PROVE LeftToSend'
  BY <1>11 DEF LogOpen, NewConnection
<1>12. ASSUME LogTop \/ LogLeave PROVE LeftToSend'
  BY <1>12 DEF LogTop, LogLeave
<1>13. ASSUME LogThrottle PROVE LeftToSend'
  BY <1>13 DEF LogThrottle, MoreCredit
<1>14. ASSUME LogDeduct PROVE LeftToSend'
  BY <1>14 DEF LogDeduct, CreditAfter
<1>15. ASSUME LogRequest PROVE LeftToSend'
  BY <1>15 DEF LogRequest, NewConnection
<1>16. ASSUME SwapDone \/ SwapTimeout PROVE LeftToSend'
  BY <1>16 DEF SwapDone, SwapTimeout, ReadDescription
<1>17. ASSUME LogAnswer PROVE LeftToSend'
  BY <1>17 DEF LogAnswer
<1>18. ASSUME ServeDescription \/ ServeReconnect PROVE LeftToSend'
  BY <1>18 DEF ServeDescription, ServeReconnect, ReadDescription, NewConnection
<1>19. ASSUME ServeBeginDropped PROVE LeftToSend'
  BY <1>19 DEF ServeBeginDropped
<1>20. ASSUME ServeBegin PROVE LeftToSend'
  BY <1>20 DEF ServeBegin
<1>21. ASSUME InsertBegin PROVE LeftToSend'
  BY <1>21 DEF InsertBegin
<1>22. ASSUME IncrementFrames PROVE LeftToSend'
  BY <1>22 DEF IncrementFrames
<1>23. ASSUME ServePart PROVE LeftToSend'
  BY <1>23 DEF ServePart
<1>24. ASSUME NEW k \in 1 .. DropMod - 1, ServeDiscarded(k) PROVE LeftToSend'
  BY <1>24 DEF ServeDiscarded
<1> QED
  BY <1>1, <1>2, <1>3, <1>4, <1>5, <1>6, <1>7, <1>8, <1>9, <1>10, <1>11,
     <1>12, <1>13, <1>14, <1>15, <1>16, <1>17, <1>18, <1>19, <1>20, <1>21, <1>22, <1>23, <1>24
     DEF Next, MainStep, MainRest, LogStep

\* What waits in the queue and what has been sent last.
LEMMA QueuesStep == (Queues /\ pos \in Nat /\ conn \in Nat /\ dropped \in Nat /\ expect \in Nat \cup {-1}) /\ Next => Queues'
<1> SUFFICES ASSUME (Queues /\ pos \in Nat /\ conn \in Nat /\ dropped \in Nat /\ expect \in Nat \cup {-1}), Next PROVE Queues'
  OBVIOUS
<1> USE ImagerAssumption DEF Queues, mainVars, sharedVars, logVars, serverVars, history
<1>1. ASSUME HandleGotFirst PROVE Queues'
  BY <1>1, KillDoes DEF HandleGotFirst, InitShared
<1>2. ASSUME HandleDroppedLast PROVE Queues'
  BY <1>2 DEF HandleDroppedLast
<1>3. ASSUME NEW n \in Throttles, HandleThrottle(n) PROVE Queues'
  BY <1>3 DEF HandleThrottle, ShadowAfter
<1>4. ASSUME HandleRequestLogging PROVE Queues'
  BY <1>4 DEF HandleRequestLogging
<1>5. ASSUME Mainloop PROVE Queues'
  BY <1>5 DEF Mainloop
<1>6. ASSUME StartDescribed \/ StartTimeout \/ StopDone \/ StopCrash PROVE Queues'
  BY <1>6 DEF StartDescribed, StartTimeout, StopDone, StopCrash
<1>7. ASSUME AskAnswered \/ AskTimeout PROVE Queues'
  BY <1>7 DEF AskAnswered, AskTimeout
<1>8. ASSUME StopKill PROVE Queues'
  BY <1>8, KillDoes DEF StopKill
<1>9. ASSUME Retrieve PROVE Queues'
  <2>1. Head(queue) \in Msg /\ Tail(queue) \in Seq(Msg)
    BY <1>9 DEF Retrieve
  <2>2. <<Head(queue)>> \in Seq(Msg)
    BY <2>1
  <2> QED
    BY <1>9, <2>1, <2>2 DEF Retrieve
<1>10. ASSUME DecrementFrames PROVE Queues'
  BY <1>10 DEF DecrementFrames
<1>11. ASSUME LogOpen PROVE Queues'
  BY <1>11 DEF LogOpen, NewConnection
<1>12. ASSUME LogTop \/ LogLeave PROVE Queues'
  BY <1>12 DEF LogTop, LogLeave
<1>13. ASSUME LogThrottle PROVE Queues'
  BY <1>13 DEF LogThrottle, MoreCredit
<1>14. ASSUME LogDeduct PROVE Queues'
  BY <1>14 DEF LogDeduct, CreditAfter
<1>15. ASSUME LogRequest PROVE Queues'
  BY <1>15 DEF LogRequest, NewConnection
<1>16. ASSUME SwapDone \/ SwapTimeout PROVE Queues'
  BY <1>16 DEF SwapDone, SwapTimeout, ReadDescription
<1>17. ASSUME LogAnswer PROVE Queues'
  BY <1>17 DEF LogAnswer
<1>18. ASSUME ServeDescription \/ ServeReconnect PROVE Queues'
  BY <1>18 DEF ServeDescription, ServeReconnect, ReadDescription, NewConnection
<1>19. ASSUME ServeBeginDropped PROVE Queues'
  BY <1>19 DEF ServeBeginDropped
<1>20. ASSUME ServeBegin PROVE Queues'
  <2>1. dropped > 0 => Append(queue, Message("discarded", dropped)) \in Seq(Msg)
    BY MessageType, AppendType
  <2> QED
    BY <1>20, <2>1 DEF ServeBegin, Send
<1>21. ASSUME InsertBegin PROVE Queues'
  <2>1. Append(queue, Message("begin", pos \div 2)) \in Seq(Msg)
    <3>1. pos \div 2 \in Nat
      OBVIOUS
    <3> QED
      BY <3>1, MessageType, AppendType
  <2> QED
    BY <1>21, <2>1 DEF InsertBegin, Send
<1>22. ASSUME IncrementFrames PROVE Queues'
  BY <1>22 DEF IncrementFrames
<1>23. ASSUME ServePart PROVE Queues'
  <2>1. Append(queue, Message("part", pos \div 2)) \in Seq(Msg)
    <3>1. pos \div 2 \in Nat
      OBVIOUS
    <3> QED
      BY <3>1, MessageType, AppendType
  <2> QED
    BY <1>23, <2>1 DEF ServePart, Send
<1>24. ASSUME NEW k \in 1 .. DropMod - 1, ServeDiscarded(k) PROVE Queues'
  <2>1. Append(queue, Message("discarded", k)) \in Seq(Msg)
    <3>1. k \in Nat
      OBVIOUS
    <3> QED
      BY <3>1, MessageType, AppendType
  <2> QED
    BY <1>24, <2>1 DEF ServeDiscarded, Send
<1> QED
  BY <1>1, <1>2, <1>3, <1>4, <1>5, <1>6, <1>7, <1>8, <1>9, <1>10, <1>11,
     <1>12, <1>13, <1>14, <1>15, <1>16, <1>17, <1>18, <1>19, <1>20, <1>21, <1>22, <1>23, <1>24
     DEF Next, MainStep, MainRest, LogStep

LEMMA TypeStep == TypeInv /\ [Next]_vars => TypeInv'
<1>1. TypeInv /\ UNCHANGED vars => TypeInv'
  <2> SUFFICES ASSUME TypeInv, UNCHANGED vars PROVE TypeInv'
    OBVIOUS
  <2> USE DEF vars, mainVars, sharedVars, logVars, serverVars, history
  <2>1. Places' /\ Flags'
    BY DEF TypeInv, Places, Flags
  <2>2. Records' /\ Queues'
    BY DEF TypeInv, Records, Queues
  <2>3. Numbers' /\ LeftToSend'
    BY DEF TypeInv, Numbers, LeftToSend
  <2> QED
    BY <2>1, <2>2, <2>3 DEF TypeInv
<1>2. TypeInv /\ Next => TypeInv'
  <2> SUFFICES ASSUME TypeInv, Next PROVE TypeInv'
    OBVIOUS
  <2>1. Begins(queue) \in Nat
    BY BeginsNat DEF TypeInv, Queues
  <2>2. dropped \in Nat /\ pos \in Nat /\ conn \in Nat /\ answer \in Nat /\ left \in Nat /\ queue \in Seq(Msg)
        /\ expect \in Nat \cup {-1}
    BY ImagerAssumption DEF TypeInv, Numbers, Queues
  <2> QED
    BY <2>1, <2>2, PlacesStep, FlagsStep, RecordsStep, NumbersStep, LeftStep, QueuesStep DEF TypeInv
<1> QED
  BY <1>1, <1>2

\* Every variable keeps its type, for every set of requests and every size of the
\* counters.
THEOREM TypeCorrect == Spec => []TypeOK
<1> QED
  BY TypeInvOK, TypeInit, TypeStep, PTL DEF Spec

---------------------------------------------------------------------------
(* The frames in the queue.  The room that was found for a frame is still there  *)
(* when its message is queued, because the initial thread only counts down.      *)

RoomLeft == log = "insert" => frames <= 1

CountInv == FramesCounted /\ RoomLeft

\* Each step keeps the account.
LEMMA CountStep == (CountInv /\ Numbers /\ Queues) /\ Next => CountInv'
<1> SUFFICES ASSUME (CountInv /\ Numbers /\ Queues), Next PROVE CountInv'
  OBVIOUS
<1> USE ImagerAssumption DEF CountInv, RoomLeft, FramesCounted, Numbers, Queues, mainVars, sharedVars, logVars, serverVars, history
<1>0. Begins(queue) \in Nat
  BY BeginsNat
<1> USE <1>0
<1>a. ASSUME UNCHANGED <<frames, queue>>, Kill, main \in {"idle", "stopping"} PROVE CountInv'
  <2>1. /\ main' \in {"idle", "killed"} /\ frames' = frames /\ queue' = queue
        /\ \/ log' = log /\ stale' = stale
           \/ log' = "off" /\ stale' = IF log = "count" THEN stale + 1 ELSE stale
    BY <1>a, KillDoes
  <2>2. CASE log' = log /\ stale' = stale
    BY <1>a, <2>1, <2>2
  <2>3. CASE log' = "off" /\ log = "count" /\ stale' = stale + 1
    BY SMTT(30), <1>a, <2>1, <2>3
  <2>4. CASE log' = "off" /\ log # "count" /\ stale' = stale
    BY <1>a, <2>1, <2>4
  <2> QED
    BY <2>1, <2>2, <2>3, <2>4
<1>1. ASSUME HandleGotFirst PROVE CountInv'
  <2>1. CASE log = "off"
    BY SMTT(30), <1>1, <2>1 DEF HandleGotFirst, InitShared
  <2>2. CASE log \notin {"off", "none"}
    BY <1>1, <1>a, <2>2 DEF HandleGotFirst
  <2> QED
    BY <1>1, <2>1, <2>2 DEF HandleGotFirst
<1>2. ASSUME HandleDroppedLast PROVE CountInv'
  BY <1>2 DEF HandleDroppedLast
<1>3. ASSUME NEW n \in Throttles, HandleThrottle(n) PROVE CountInv'
  BY <1>3 DEF HandleThrottle, ShadowAfter
<1>4. ASSUME HandleRequestLogging PROVE CountInv'
  BY <1>4 DEF HandleRequestLogging
<1>5. ASSUME Mainloop PROVE CountInv'
  BY <1>5 DEF Mainloop
<1>6. ASSUME StartDescribed \/ StartTimeout \/ StopDone \/ StopCrash PROVE CountInv'
  BY <1>6 DEF StartDescribed, StartTimeout, StopDone, StopCrash
<1>7. ASSUME AskAnswered \/ AskTimeout PROVE CountInv'
  BY <1>7 DEF AskAnswered, AskTimeout
<1>8. ASSUME StopKill PROVE CountInv'
  BY <1>8, <1>a DEF StopKill
<1>9. ASSUME Retrieve PROVE CountInv'
  <2>1. Begins(queue') = Begins(queue) - (IF Head(queue).kind = "begin" THEN 1 ELSE 0)
    BY <1>9, BeginsTail DEF Retrieve
  <2>2. /\ frames' = frames /\ stale' = stale /\ log' = log /\ main = "draining"
        /\ (main' = "decrement" <=> Head(queue).kind = "begin")
    BY <1>9 DEF Retrieve
  <2>3. CASE Head(queue).kind = "begin"
    <3>1. Begins(queue') = Begins(queue) - 1 /\ main' = "decrement"
      BY <2>1, <2>2, <2>3
    <3>2. frames' = Begins(queue') + 1 - (IF log' = "count" THEN 1 ELSE 0) - stale'
      <4> DEFINE late == IF log = "count" THEN 1 ELSE 0
      <4>1. late \in Int /\ frames = Begins(queue) - late - stale
        BY SMTT(30), <2>2
      <4>2. Begins(queue) = Begins(queue') + 1 /\ Begins(queue') \in Int
        BY SMTT(30), <3>1
      <4>3. frames' = frames /\ stale' = stale /\ log' = log
        BY <2>2
      <4>4. frames' = Begins(queue') + 1 - late - stale'
        <5>1. frames \in Int /\ stale \in Int
          OBVIOUS
        <5> HIDE DEF late, FramesCounted, RoomLeft, Numbers, Queues, CountInv
        <5> QED
          BY <4>1, <4>2, <4>3, <5>1
      <4> QED
        BY <4>4, <4>3
    <3>3. Begins(queue') <= 2 + stale'
      BY <3>1, <2>2
    <3> QED
      BY <3>1, <3>2, <3>3, <2>2
  <2>4. CASE Head(queue).kind # "begin"
    BY SMTT(30), <2>1, <2>2, <2>4
  <2> QED
    BY <2>3, <2>4
<1>10. ASSUME DecrementFrames PROVE CountInv'
  BY SMTT(30), <1>10 DEF DecrementFrames
<1>11. ASSUME LogOpen PROVE CountInv'
  BY <1>11 DEF LogOpen, NewConnection
<1>12. ASSUME LogTop \/ LogLeave PROVE CountInv'
  BY <1>12 DEF LogTop, LogLeave
<1>13. ASSUME LogThrottle PROVE CountInv'
  BY <1>13 DEF LogThrottle, MoreCredit
<1>14. ASSUME LogDeduct PROVE CountInv'
  BY <1>14 DEF LogDeduct, CreditAfter
<1>15. ASSUME LogRequest PROVE CountInv'
  BY <1>15 DEF LogRequest, NewConnection
<1>16. ASSUME SwapDone \/ SwapTimeout PROVE CountInv'
  BY <1>16 DEF SwapDone, SwapTimeout, ReadDescription
<1>17. ASSUME LogAnswer PROVE CountInv'
  BY <1>17 DEF LogAnswer
<1>18. ASSUME ServeDescription \/ ServeReconnect PROVE CountInv'
  BY <1>18 DEF ServeDescription, ServeReconnect, ReadDescription, NewConnection
<1>19. ASSUME ServeBeginDropped PROVE CountInv'
  BY <1>19 DEF ServeBeginDropped
<1>20. ASSUME ServeBegin PROVE CountInv'
  <2>1. Begins(queue') = Begins(queue)
    <3>1. CASE dropped > 0
      <4>1. Message("discarded", dropped) \in Msg /\ Message("discarded", dropped).kind = "discarded"
        <5>1. dropped \in Nat
          OBVIOUS
        <5> QED
          BY <5>1, MessageType
      <4>2. queue' = Append(queue, Message("discarded", dropped))
        BY <1>20, <3>1 DEF ServeBegin, Send
      <4>3. Begins(Append(queue, Message("discarded", dropped))) = Begins(queue) + 0
        BY <4>1, BeginsAppend
      <4> QED
        BY <4>2, <4>3
    <3>2. CASE ~(dropped > 0)
      BY <1>20, <3>2 DEF ServeBegin
    <3> QED
      BY <3>1, <3>2
  <2> QED
    BY SMTT(30), <1>20, <2>1 DEF ServeBegin, DropFrame
<1>21. ASSUME InsertBegin PROVE CountInv'
  <2>1. Message("begin", pos \div 2) \in Msg /\ Message("begin", pos \div 2).kind = "begin"
    <3>1. pos \div 2 \in Nat
      OBVIOUS
    <3> QED
      BY <3>1, MessageType
  <2>2. Begins(queue') = Begins(queue) + 1
    <3>1. queue' = Append(queue, Message("begin", pos \div 2))
      BY <1>21 DEF InsertBegin, Send
    <3>2. Begins(Append(queue, Message("begin", pos \div 2))) = Begins(queue) + 1
      BY <2>1, BeginsAppend
    <3> QED
      BY <3>1, <3>2
  <2>3. frames' = frames /\ stale' = stale /\ main' = main /\ log = "insert" /\ log' = "count"
    BY <1>21 DEF InsertBegin
  <2>4. frames <= 1 /\ Begins(queue) <= frames + stale
    BY SMTT(30), <2>3
  <2>5. frames' = Begins(queue') + (IF main' = "decrement" THEN 1 ELSE 0) - 1 - stale'
    BY SMTT(30), <2>2, <2>3
  <2>6. Begins(queue') <= 2 + stale'
    BY SMTT(30), <2>2, <2>3, <2>4
  <2> QED
    BY <2>3, <2>5, <2>6
<1>22. ASSUME IncrementFrames PROVE CountInv'
  BY SMTT(30), <1>22 DEF IncrementFrames
<1>23. ASSUME ServePart PROVE CountInv'
  <2>1. Message("part", pos \div 2) \in Msg /\ Message("part", pos \div 2).kind = "part"
    <3>1. pos \div 2 \in Nat
      OBVIOUS
    <3> QED
      BY <3>1, MessageType
  <2>2. Begins(queue') = Begins(queue)
    <3>1. queue' = queue \/ queue' = Append(queue, Message("part", pos \div 2))
      BY <1>23 DEF ServePart, Send
    <3>2. Begins(Append(queue, Message("part", pos \div 2))) = Begins(queue)
      <4>1. Begins(Append(queue, Message("part", pos \div 2))) = Begins(queue) + 0
        BY <2>1, BeginsAppend
      <4> QED
        BY <4>1
    <3> QED
      BY ZenonT(30), <3>1, <3>2
  <2> QED
    BY <1>23, <2>2 DEF ServePart
<1>24. ASSUME NEW k \in 1 .. DropMod - 1, ServeDiscarded(k) PROVE CountInv'
  <2>1. Message("discarded", k) \in Msg /\ Message("discarded", k).kind = "discarded"
    <3>1. k \in Nat
      OBVIOUS
    <3> QED
      BY <3>1, MessageType
  <2>2. Begins(queue') = Begins(queue)
    <3>1. queue' = Append(queue, Message("discarded", k))
      BY <1>24 DEF ServeDiscarded, Send
    <3>2. Begins(Append(queue, Message("discarded", k))) = Begins(queue) + 0
      BY <2>1, BeginsAppend
    <3> QED
      BY <3>1, <3>2
  <2> QED
    BY <1>24, <2>2 DEF ServeDiscarded
<1> QED
  BY <1>1, <1>2, <1>3, <1>4, <1>5, <1>6, <1>7, <1>8, <1>9, <1>10, <1>11,
     <1>12, <1>13, <1>14, <1>15, <1>16, <1>17, <1>18, <1>19, <1>20, <1>21, <1>22, <1>23, <1>24
     DEF Next, MainStep, MainRest, LogStep

LEMMA CountInit == Init => CountInv
<1>1. ASSUME queue = <<>> PROVE Begins(queue) = 0
  BY <1>1, BeginsEmpty
<1> QED
  BY <1>1 DEF Init, CountInv, FramesCounted, RoomLeft

\* The counter of queued frames follows the queue through every interleaving of the
\* two threads, also when one is killed: so no more than two frames wait for the
\* clients, and the ones that an earlier thread has left.
THEOREM FramesCountedHolds == Spec => []FramesCounted
<1> DEFINE IInv == TypeInv /\ CountInv
<1>1. Init => IInv
  BY TypeInit, CountInit
<1>2. IInv /\ [Next]_vars => IInv'
  <2>1. IInv /\ Next => IInv'
    BY TypeStep, CountStep DEF TypeInv
  <2>2. IInv /\ UNCHANGED vars => IInv'
    <3>1. CountInv /\ UNCHANGED vars => CountInv'
      BY DEF CountInv, FramesCounted, RoomLeft, vars, mainVars, sharedVars, logVars, history
    <3> QED
      BY <3>1, TypeStep
  <2> QED
    BY <2>1, <2>2
<1>3. IInv => FramesCounted
  BY DEF CountInv
<1> QED
  BY <1>1, <1>2, <1>3, PTL DEF Spec

---------------------------------------------------------------------------
(* The logging thread and the clients.                                         *)

ThreadFollows ==
    /\ main \in {"starting", "asking"} => connected
    /\ main = "stopping" => ~connected
    /\ (~connected /\ log \notin {"off", "none"}) => exit

LEMMA FollowsStep == ThreadFollows /\ Next => ThreadFollows'
<1> SUFFICES ASSUME ThreadFollows, Next PROVE ThreadFollows'
  OBVIOUS
<1> USE DEF ThreadFollows, mainVars, sharedVars, logVars
<1>1. ASSUME HandleGotFirst PROVE ThreadFollows'
  BY <1>1, KillDoes DEF HandleGotFirst, InitShared
<1>2. ASSUME HandleDroppedLast PROVE ThreadFollows'
  BY <1>2 DEF HandleDroppedLast
<1>3. ASSUME NEW n \in Throttles, HandleThrottle(n) PROVE ThreadFollows'
  BY <1>3 DEF HandleThrottle, ShadowAfter
<1>4. ASSUME HandleRequestLogging PROVE ThreadFollows'
  BY <1>4 DEF HandleRequestLogging
<1>5. ASSUME Mainloop PROVE ThreadFollows'
  BY <1>5 DEF Mainloop
<1>6. ASSUME StartDescribed \/ StartTimeout \/ StopDone \/ StopCrash PROVE ThreadFollows'
  BY <1>6 DEF StartDescribed, StartTimeout, StopDone, StopCrash
<1>7. ASSUME AskAnswered \/ AskTimeout PROVE ThreadFollows'
  BY <1>7 DEF AskAnswered, AskTimeout
<1>8. ASSUME StopKill PROVE ThreadFollows'
  BY <1>8, KillDoes DEF StopKill
<1>9. ASSUME Retrieve PROVE ThreadFollows'
  BY <1>9 DEF Retrieve
<1>10. ASSUME DecrementFrames PROVE ThreadFollows'
  BY <1>10 DEF DecrementFrames
<1>11. ASSUME LogOpen PROVE ThreadFollows'
  BY <1>11 DEF LogOpen, NewConnection
<1>12. ASSUME LogTop \/ LogLeave PROVE ThreadFollows'
  BY <1>12 DEF LogTop, LogLeave
<1>13. ASSUME LogThrottle PROVE ThreadFollows'
  BY <1>13 DEF LogThrottle, MoreCredit
<1>14. ASSUME LogDeduct PROVE ThreadFollows'
  BY <1>14 DEF LogDeduct, CreditAfter
<1>15. ASSUME LogRequest PROVE ThreadFollows'
  BY <1>15 DEF LogRequest, NewConnection
<1>16. ASSUME SwapDone \/ SwapTimeout PROVE ThreadFollows'
  BY <1>16 DEF SwapDone, SwapTimeout, ReadDescription
<1>17. ASSUME LogAnswer PROVE ThreadFollows'
  BY <1>17 DEF LogAnswer
<1>18. ASSUME ServeDescription \/ ServeReconnect PROVE ThreadFollows'
  BY <1>18 DEF ServeDescription, ServeReconnect, ReadDescription, NewConnection
<1>19. ASSUME ServeBeginDropped PROVE ThreadFollows'
  BY <1>19 DEF ServeBeginDropped
<1>20. ASSUME ServeBegin PROVE ThreadFollows'
  BY <1>20 DEF ServeBegin
<1>21. ASSUME InsertBegin PROVE ThreadFollows'
  BY <1>21 DEF InsertBegin
<1>22. ASSUME IncrementFrames PROVE ThreadFollows'
  BY <1>22 DEF IncrementFrames
<1>23. ASSUME ServePart PROVE ThreadFollows'
  BY <1>23 DEF ServePart
<1>24. ASSUME NEW k \in 1 .. DropMod - 1, ServeDiscarded(k) PROVE ThreadFollows'
  BY <1>24 DEF ServeDiscarded
<1> QED
  BY <1>1, <1>2, <1>3, <1>4, <1>5, <1>6, <1>7, <1>8, <1>9, <1>10, <1>11,
     <1>12, <1>13, <1>14, <1>15, <1>16, <1>17, <1>18, <1>19, <1>20, <1>21, <1>22, <1>23, <1>24
     DEF Next, MainStep, MainRest, LogStep

\* The logging thread does not go on without clients: when none is connected and
\* it still runs, it has been told to exit, and nothing takes that back, also when
\* it could not be killed.
THEOREM ThreadFollowsClients == Spec => []ThreadFollows
<1>1. Init => ThreadFollows
  BY DEF Init, ThreadFollows
<1>2. ThreadFollows /\ [Next]_vars => ThreadFollows'
  <2>1. ThreadFollows /\ UNCHANGED vars => ThreadFollows'
    BY DEF ThreadFollows, vars, mainVars, sharedVars, logVars
  <2> QED
    BY <2>1, FollowsStep
<1> QED
  BY <1>1, <1>2, PTL DEF Spec

---------------------------------------------------------------------------
(* The credit of the clients.  The thread's credit follows the copy that the *)
(* base class keeps, one request behind while one waits in the slot.         *)

\* What the thread has been allowed in all; a first limit it has read but not
\* yet reduced by the frames in the queue is in "want".
ThreadCredit ==
    IF log = "open" THEN -1
    ELSE IF log = "deduct" THEN want
    ELSE IF framesToSend = -1 THEN -1 ELSE framesToSend + ledger

CreditSane == log \notin {"open", "deduct"} =>
    framesToSend = -1 \/ (framesToSend >= 0 /\ framesToSend + ledger >= 0)

ShadowFollows ==
    shadow = IF ~throttle.new THEN ThreadCredit
             ELSE IF throttle.count < 0 THEN -1
             ELSE IF ThreadCredit = -1 THEN throttle.count
             ELSE ThreadCredit + throttle.count

CreditInv ==
    /\ ~connected => shadow = -1
    /\ (connected /\ ~overwrote /\ ~leftover /\ log \notin {"off", "none"}) =>
           CreditSane /\ ShadowFollows

LEMMA CreditStep ==
  (CreditInv /\ ThreadFollows /\ Numbers /\ Records) /\ Next => CreditInv'
<1> SUFFICES ASSUME CreditInv, ThreadFollows, Numbers, Records, Next PROVE CreditInv'
  OBVIOUS
<1> DEFINE Limits == connected /\ ~overwrote /\ ~leftover /\ log \notin {"off", "none"}
           Same == ThreadCredit' = ThreadCredit /\ (CreditSane => CreditSane')
<1> USE ImagerAssumption DEF mainVars, sharedVars, logVars, history
<1>0. /\ ThreadCredit \in Int /\ shadow \in Int /\ throttle.new \in BOOLEAN
      /\ throttle.count \in Int /\ framesToSend \in Int /\ ledger \in Int /\ want \in Nat
      /\ CreditSane => ThreadCredit >= -1
  BY DEF ThreadCredit, CreditSane, Numbers, Records
<1>a. ASSUME UNCHANGED <<connected, shadow, overwrote, leftover, throttle>>, Same, Limits' => Limits
      PROVE  CreditInv'
  <2>1. ShadowFollows => ShadowFollows'
    BY <1>a DEF ShadowFollows
  <2> QED
    BY <1>a, <2>1 DEF CreditInv
<1>b. ASSUME UNCHANGED <<framesToSend, ledger, want, log>> PROVE Same
  BY <1>b DEF ThreadCredit, CreditSane
<1>1. ASSUME HandleGotFirst PROVE CreditInv'
  BY <1>1 DEF HandleGotFirst, InitShared, ThreadFollows, CreditInv, CreditSane, ShadowFollows,
              ThreadCredit
<1>2. ASSUME HandleDroppedLast PROVE CreditInv'
  BY <1>2 DEF HandleDroppedLast, CreditInv
<1>3. ASSUME NEW n \in Throttles, HandleThrottle(n) PROVE CreditInv'
  <2>1. throttle'.new = TRUE /\ throttle'.count = n /\ n \in Int /\ connected'
    BY <1>3 DEF HandleThrottle
  <2>2. CASE throttle.new
    BY <1>3, <2>1, <2>2 DEF HandleThrottle, CreditInv
  <2>3. CASE ~throttle.new
    <3>1. Same
      BY <1>3, <1>b DEF HandleThrottle
    <3>2. shadow' = (IF n < 0 THEN -1 ELSE IF shadow = -1 THEN n ELSE shadow + n)
          /\ connected' = connected /\ log' = log /\ leftover' = leftover /\ (~overwrote' => ~overwrote)
      BY <1>3 DEF HandleThrottle, ShadowAfter
    <3>3. ShadowFollows => ShadowFollows'
      BY <3>1, <3>2, <2>1, <2>3 DEF ShadowFollows
    <3> QED
      BY <3>1, <3>2, <3>3, <2>1, <1>3 DEF HandleThrottle, CreditInv
  <2> QED
    BY <2>2, <2>3
<1>4. ASSUME HandleRequestLogging \/ Mainloop \/ StartDescribed \/ StartTimeout \/ StopDone
             \/ StopCrash \/ AskAnswered \/ AskTimeout \/ Retrieve \/ DecrementFrames
      PROVE  CreditInv'
  <2>1. UNCHANGED <<connected, shadow, overwrote, leftover, throttle, framesToSend, ledger, want, log>>
    BY <1>4 DEF HandleRequestLogging, Mainloop, StartDescribed, StartTimeout, StopDone,
                StopCrash, AskAnswered, AskTimeout, Retrieve, DecrementFrames
  <2> QED
    BY <2>1, <1>a, <1>b
<1>5. ASSUME StopKill PROVE CreditInv'
  <2>1. ~connected /\ connected' = connected /\ shadow' = shadow
    BY <1>5 DEF StopKill, ThreadFollows
  <2> QED
    BY <2>1 DEF CreditInv
<1>6. ASSUME LogOpen PROVE CreditInv'
  <2>1. ThreadCredit' = -1 /\ CreditSane' /\ ThreadCredit = -1
    BY <1>6 DEF LogOpen, ThreadCredit, CreditSane
  <2> QED
    BY <1>6, <2>1, <1>a DEF LogOpen
<1>7. ASSUME LogThrottle PROVE CreditInv'
  <2>0. throttle'.new = FALSE /\ connected' = connected /\ shadow' = shadow
        /\ overwrote' = overwrote /\ leftover' = leftover /\ log = "throttle" /\ log' \in {"request", "deduct"}
    BY <1>7 DEF LogThrottle
  <2>1. ThreadCredit = (IF framesToSend = -1 THEN -1 ELSE framesToSend + ledger)
    BY <2>0 DEF ThreadCredit
  <2>2. CASE ~throttle.new
    <3>1. Same
      BY <1>7, <2>0, <2>2 DEF LogThrottle, ThreadCredit, CreditSane
    <3> QED
      BY <3>1, <2>0, <2>2 DEF CreditInv, ShadowFollows
  <2>3. CASE throttle.new /\ throttle.count < 0
    <3>1. ThreadCredit' = -1 /\ CreditSane'
      BY <1>7, <1>0, <2>0, <2>3 DEF LogThrottle, ThreadCredit, CreditSane
    <3> QED
      BY <3>1, <2>0, <2>3 DEF CreditInv, ShadowFollows
  <2>4. CASE throttle.new /\ throttle.count >= 0 /\ framesToSend = -1
    <3>1. want' = throttle.count /\ log' = "deduct"
      BY <1>7, <1>0, <2>0, <2>4 DEF LogThrottle
    <3>2. ThreadCredit' = throttle.count /\ CreditSane'
      BY <3>1 DEF ThreadCredit, CreditSane
    <3> QED
      BY <3>2, <2>0, <2>1, <2>4, <1>0 DEF CreditInv, ShadowFollows
  <2>5. CASE throttle.new /\ throttle.count >= 0 /\ framesToSend # -1
    <3>1. framesToSend' = framesToSend + throttle.count /\ ledger' = ledger /\ log' = "request"
      BY <1>7, <1>0, <2>0, <2>5 DEF LogThrottle, MoreCredit
    <3>2. CreditSane => CreditSane' /\ ThreadCredit' = ThreadCredit + throttle.count
                        /\ ThreadCredit >= 0
      BY <3>1, <2>0, <2>5, <1>0 DEF ThreadCredit, CreditSane
    <3> QED
      BY <3>2, <2>0, <2>5, <1>0 DEF CreditInv, ShadowFollows
  <2> QED
    BY <2>2, <2>3, <2>4, <2>5, <1>0
<1>8. ASSUME LogDeduct PROVE CreditInv'
  <2>1. frames \in Int /\ CreditAfter(want, frames) \in Int /\ CreditAfter(want, frames) >= 0
    BY <1>0 DEF CreditAfter, Numbers
  <2>2. framesToSend' + ledger' = want /\ framesToSend' >= 0 /\ log = "deduct" /\ log' = "request"
    BY <1>8, <1>0, <2>1 DEF LogDeduct
  <2>3. Same
    BY <2>2, <1>0, <1>8, <2>1 DEF LogDeduct, ThreadCredit, CreditSane
  <2> QED
    BY <2>2, <2>3, <1>8, <1>a DEF LogDeduct
<1>9. ASSUME LogTop \/ LogRequest \/ SwapDone \/ SwapTimeout \/ LogAnswer
             \/ ServeDescription \/ ServeReconnect \/ ServeBeginDropped \/ InsertBegin
             \/ IncrementFrames \/ ServePart \/ (\E k \in 1 .. DropMod - 1 : ServeDiscarded(k)) \/ LogLeave
       PROVE  CreditInv'
  <2>1. UNCHANGED <<connected, shadow, overwrote, leftover, throttle, framesToSend, ledger>>
        /\ log \notin {"off", "none", "open", "deduct"} /\ log' \notin {"open", "deduct"}
    BY <1>9 DEF LogTop, LogRequest, SwapDone, SwapTimeout, LogAnswer,
                ServeDescription, ServeReconnect, ServeBeginDropped, InsertBegin,
                IncrementFrames, ServePart, ServeDiscarded, LogLeave
  <2>2. Same
    BY <2>1 DEF ThreadCredit, CreditSane
  <2> QED
    BY <2>1, <2>2, <1>a
<1>10. ASSUME ServeBegin PROVE CreditInv'
  <2>1. UNCHANGED <<connected, shadow, overwrote, leftover, throttle>> /\ framesToSend # 0
        /\ log = "serve" /\ log' = "insert"
        /\ framesToSend' = (IF framesToSend > 0 THEN framesToSend - 1 ELSE framesToSend)
        /\ ledger' = (IF framesToSend > 0 THEN ledger + 1 ELSE ledger)
    BY <1>10, <1>0 DEF ServeBegin, DropFrame
  <2>2. Same
    BY <2>1, <1>0 DEF ThreadCredit, CreditSane
  <2> QED
    BY <2>1, <2>2, <1>a
<1> HIDE DEF Same, Limits
<1> QED
  BY <1>1, <1>2, <1>3, <1>4, <1>5, <1>6, <1>7, <1>8, <1>9, <1>10
     DEF Next, MainStep, MainRest, LogStep

\* What clients have asked for since they are connected and what the thread has
\* spent account for the credit it has left, whatever the two threads do in
\* between, unless a request was replaced before the thread read it or the thread is
\* one of an earlier session.
THEOREM CreditsKeptHolds == Spec => []CreditsKept
<1> DEFINE IInv == TypeInv /\ ThreadFollows /\ CreditInv
<1>1. Init => IInv
  BY TypeInit DEF Init, ThreadFollows, CreditInv
<1>2. IInv /\ [Next]_vars => IInv'
  <2>1. IInv /\ Next => IInv'
    BY TypeStep, FollowsStep, CreditStep DEF TypeInv
  <2>2. IInv /\ UNCHANGED vars => IInv'
    <3>1. ThreadFollows /\ UNCHANGED vars => ThreadFollows'
      BY DEF ThreadFollows, vars, mainVars, sharedVars, logVars
    <3>2. CreditInv /\ UNCHANGED vars => CreditInv'
      BY DEF CreditInv, CreditSane, ShadowFollows, ThreadCredit, vars, mainVars, sharedVars,
             logVars, history
    <3> QED
      BY <3>1, <3>2, TypeStep
  <2> QED
    BY <2>1, <2>2
<1>3. IInv => CreditsKept
  BY DEF CreditInv, CreditSane, ShadowFollows, ThreadCredit, CreditsKept, TypeInv, Numbers, Records
<1> QED
  BY <1>1, <1>2, <1>3, PTL DEF Spec

---------------------------------------------------------------------------
(* The answer to a request for log files.  It is the thread's own list of names, *)
(* but for the moment in which the answer is given; a thread that is about to    *)
(* end has answered that there are none.                                         *)

StatusInv == (connected /\ ~leftover) =>
    /\ log \in {"off", "none", "open", "top", "leave"} => result.names = 0
    /\ exit => /\ log \in {"answer", "serve", "insert", "count", "leave", "off", "none"}
               /\ log = "answer" => answer = 0
               /\ log # "answer" => result.names = 0
    /\ result.names # 0 => result.names = names \/ log = "answer"
    /\ (log = "answer" /\ answer # 0) => answer = names

LEMMA StatusStep == (StatusInv /\ ThreadFollows /\ Records) /\ Next => StatusInv'
<1> SUFFICES ASSUME StatusInv, ThreadFollows, Records, Next PROVE StatusInv'
  OBVIOUS
<1> USE DEF StatusInv, Records, mainVars, sharedVars, logVars, history
<1>1. ASSUME HandleGotFirst PROVE StatusInv'
  <2>1. CASE log \notin {"off", "none"}
    BY <1>1, <2>1 DEF HandleGotFirst
  <2>2. CASE log = "off"
    <3>1. log' \in {"open", "none"} /\ exit' = FALSE /\ result' = [new |-> FALSE, names |-> 0]
      BY <1>1, <2>2 DEF HandleGotFirst, InitShared
    <3>2. result'.names = 0
      BY <3>1
    <3> QED
      BY <3>1, <3>2
  <2> QED
    BY <1>1, <2>1, <2>2 DEF HandleGotFirst
<1>2. ASSUME NEW n \in Throttles, HandleThrottle(n) PROVE StatusInv'
  BY <1>2 DEF HandleThrottle
<1>3. ASSUME HandleDroppedLast \/ HandleRequestLogging \/ Mainloop \/ StartDescribed
             \/ StartTimeout \/ StopDone \/ StopCrash \/ AskAnswered \/ AskTimeout \/ Retrieve
             \/ DecrementFrames
      PROVE  StatusInv'
  BY <1>3 DEF HandleDroppedLast, HandleRequestLogging, Mainloop, StartDescribed, StartTimeout,
              StopDone, StopCrash, AskAnswered, AskTimeout, Retrieve, DecrementFrames
<1>4. ASSUME StopKill PROVE StatusInv'
  BY <1>4 DEF StopKill, ThreadFollows
<1>5. ASSUME LogOpen \/ LogTop \/ LogThrottle \/ LogDeduct \/ LogRequest PROVE StatusInv'
  BY <1>5 DEF LogOpen, LogTop, LogThrottle, LogDeduct, LogRequest
<1>6. ASSUME SwapDone PROVE StatusInv'
  BY <1>6 DEF SwapDone
<1>7. ASSUME SwapTimeout PROVE StatusInv'
  BY <1>7 DEF SwapTimeout
<1>8. ASSUME LogAnswer PROVE StatusInv'
  BY <1>8 DEF LogAnswer
<1>9. ASSUME ServeDescription \/ ServeReconnect \/ ServeBeginDropped \/ ServeBegin
              \/ InsertBegin \/ IncrementFrames \/ ServePart
              \/ (\E k \in 1 .. DropMod - 1 : ServeDiscarded(k)) \/ LogLeave
       PROVE  StatusInv'
  BY <1>9 DEF ServeDescription, ServeReconnect, ServeBeginDropped, ServeBegin, InsertBegin,
              IncrementFrames, ServePart, ServeDiscarded, LogLeave
<1> QED
  BY <1>1, <1>2, <1>3, <1>4, <1>5, <1>6, <1>7, <1>8, <1>9 DEF Next, MainStep, MainRest, LogStep

\* A client that asks for the log files is told the ones that are being written,
\* or none, whatever became of the thread that wrote them, when that was started for
\* these clients.
THEOREM StatusHonestHolds == Spec => []StatusHonest
<1> DEFINE IInv == TypeInv /\ ThreadFollows /\ StatusInv
<1>1. Init => IInv
  BY TypeInit DEF Init, ThreadFollows, StatusInv
<1>2. IInv /\ [Next]_vars => IInv'
  <2>1. IInv /\ Next => IInv'
    BY TypeStep, FollowsStep, StatusStep DEF TypeInv
  <2>2. IInv /\ UNCHANGED vars => IInv'
    <3>1. ThreadFollows /\ UNCHANGED vars => ThreadFollows'
      BY DEF ThreadFollows, vars, mainVars, sharedVars, logVars
    <3>2. StatusInv /\ UNCHANGED vars => StatusInv'
      BY DEF StatusInv, vars, mainVars, sharedVars, logVars, history
    <3> QED
      BY <3>1, <3>2, TypeStep
  <2> QED
    BY <2>1, <2>2
<1>3. IInv => StatusHonest
  BY DEF StatusInv, StatusHonest
<1> QED
  BY <1>1, <1>2, <1>3, PTL DEF Spec

---------------------------------------------------------------------------
(* The frames that the clients get.  The message sent last and the ones in the  *)
(* queue are one sequence; threads only append to its end, or forget its front. *)

Halves == pos \div 2

Whole(o) ==
    \A i \in 1 .. Len(o) - 1 : o[i].conn = o[i + 1].conn => Follows(o[i], o[i + 1])

\* Connections follow each other, and nothing is passed on from one whose
\* description has not been read.
Ordered(o) ==
    /\ \A i \in 1 .. Len(o) - 1 : o[i].conn <= o[i + 1].conn
    /\ \A i \in 1 .. Len(o) : o[i].conn <= conn /\ (o[i].conn = conn => described)

\* Is the thread in the middle of a frame that it passes on?
Amid == log # "insert" /\ pos % 2 = 1 /\ dropped = 0

\* What a client expects and what the thread reads next differ by the frames that
\* are dropped and not yet reported.
Agrees ==
    expect # -1 =>
        IF log = "insert" \/ Amid THEN Halves = expect
        ELSE IF pos % 2 = 0 THEN Halves = expect + dropped
        ELSE Halves + 1 = expect + dropped

\* How a message that is the last one fits to what the thread does next.
Fits(m) ==
    /\ m.next = expect
    /\ m.kind = "part" => expect = m.n + 1
    /\ IF Amid THEN m.kind = "begin" /\ m.n = Halves ELSE m.kind # "begin"

Ended == log \in {"off", "none", "open", "leave"}

Continues(o) == (~Ended /\ Len(o) >= 1 /\ o[Len(o)].conn = conn) => Fits(o[Len(o)])

Inserting == log = "insert" => described /\ pos % 2 = 0 /\ dropped = 0

WholeInv ==
    /\ Len(recent) <= 1
    /\ Inserting
    /\ Ordered(Outgoing)
    /\ ~wrapped => Whole(Outgoing) /\ Continues(Outgoing) /\ (~Ended => Agrees)

LEMMA HalvesOfNext ==
  ASSUME NEW p \in Nat
  PROVE  /\ p \div 2 \in Nat /\ p % 2 \in {0, 1}
         /\ p % 2 = 0 => (p + 1) % 2 = 1 /\ (p + 1) \div 2 = p \div 2
         /\ p % 2 = 1 => (p + 1) % 2 = 0 /\ (p + 1) \div 2 = p \div 2 + 1
  OBVIOUS

LEMMA HalvesOfLater ==
  ASSUME NEW p \in Nat, NEW k \in Nat, p % 2 = 0
  PROVE  (p + 2 * k) % 2 = 0 /\ (p + 2 * k) \div 2 = p \div 2 + k
  OBVIOUS

\* What is said of a sequence of messages holds of the rest of it.
LEMMA RestIsWhole ==
  ASSUME NEW o \in Seq(Msg), NEW r \in Seq(Msg), NEW k \in Nat, Len(r) = Len(o) - k,
         \A i \in 1 .. Len(r) : r[i] = o[i + k]
  PROVE  /\ Whole(o) => Whole(r)
         /\ Ordered(o) => Ordered(r)
         /\ Continues(o) => Continues(r)
<1>0. Len(o) \in Nat /\ Len(r) \in Nat
  OBVIOUS
<1>1. ASSUME Whole(o) PROVE Whole(r)
  <2>1. ASSUME NEW i \in 1 .. Len(r) - 1, r[i].conn = r[i + 1].conn PROVE Follows(r[i], r[i + 1])
    <3>1. i + k \in 1 .. Len(o) - 1 /\ r[i] = o[i + k] /\ r[i + 1] = o[(i + k) + 1]
      BY <1>0
    <3> QED
      BY <1>1, <2>1, <3>1 DEF Whole
  <2> QED
    BY <2>1 DEF Whole
<1>2. ASSUME Ordered(o) PROVE Ordered(r)
  <2>1. ASSUME NEW i \in 1 .. Len(r) - 1 PROVE r[i].conn <= r[i + 1].conn
    <3>1. i + k \in 1 .. Len(o) - 1 /\ r[i] = o[i + k] /\ r[i + 1] = o[(i + k) + 1]
      BY <1>0
    <3> QED
      BY <1>2, <3>1 DEF Ordered
  <2>2. ASSUME NEW i \in 1 .. Len(r) PROVE r[i].conn <= conn /\ (r[i].conn = conn => described)
    <3>1. i + k \in 1 .. Len(o) /\ r[i] = o[i + k]
      BY <1>0
    <3> QED
      BY <1>2, <3>1 DEF Ordered
  <2> QED
    BY <2>1, <2>2 DEF Ordered
<1>3. ASSUME Continues(o), ~Ended, Len(r) >= 1, r[Len(r)].conn = conn PROVE Fits(r[Len(r)])
  <2>1. Len(o) >= 1 /\ r[Len(r)] = o[Len(o)]
    BY SMTT(30), <1>0, <1>3
  <2> QED
    BY <1>3, <2>1 DEF Continues
<1> QED
  BY <1>1, <1>2, <1>3 DEF Continues

\* A message at the end has to fit to the last one.
LEMMA MoreIsWhole ==
  ASSUME NEW o \in Seq(Msg), NEW m \in Msg, Whole(o),
         (Len(o) >= 1 /\ o[Len(o)].conn = m.conn) => Follows(o[Len(o)], m)
  PROVE  Whole(Append(o, m))
<1> DEFINE q == Append(o, m)
<1>1. Len(o) \in Nat /\ Len(q) = Len(o) + 1 /\ q[Len(o) + 1] = m
      /\ \A i \in 1 .. Len(o) : q[i] = o[i]
  OBVIOUS
<1>2. ASSUME NEW i \in 1 .. Len(q) - 1, q[i].conn = q[i + 1].conn PROVE Follows(q[i], q[i + 1])
  <2>1. CASE i = Len(o)
    BY <1>1, <1>2, <2>1
  <2>2. CASE i # Len(o)
    <3>1. i \in 1 .. Len(o) - 1 /\ q[i] = o[i] /\ q[i + 1] = o[i + 1]
      BY <1>1, <2>2
    <3> QED
      BY <1>2, <3>1 DEF Whole
  <2> QED
    BY <2>1, <2>2
<1> HIDE DEF q
<1> QED
  BY <1>2 DEF Whole, q

LEMMA MoreIsOrdered ==
  ASSUME NEW o \in Seq(Msg), NEW m \in Msg, Ordered(o), conn \in Nat, described, m.conn = conn
  PROVE  Ordered(Append(o, m))
<1> DEFINE q == Append(o, m)
<1>1. Len(o) \in Nat /\ Len(q) = Len(o) + 1 /\ q[Len(o) + 1] = m
      /\ \A i \in 1 .. Len(o) : q[i] = o[i]
  OBVIOUS
<1>2. ASSUME NEW i \in 1 .. Len(q) PROVE q[i].conn <= conn /\ (q[i].conn = conn => described)
  BY <1>1 DEF Ordered
<1>3. ASSUME NEW i \in 1 .. Len(q) - 1 PROVE q[i].conn <= q[i + 1].conn
  <2>1. CASE i = Len(o)
    BY <1>1, <2>1 DEF Ordered
  <2>2. CASE i # Len(o)
    <3>1. i \in 1 .. Len(o) - 1 /\ q[i] = o[i] /\ q[i + 1] = o[i + 1]
      BY <1>1, <2>2
    <3> QED
      BY <3>1 DEF Ordered
  <2> QED
    BY <2>1, <2>2
<1> HIDE DEF q
<1> QED
  BY <1>2, <1>3 DEF Ordered, q

LEMMA Concatenated ==
  ASSUME NEW s \in Seq(Msg), NEW t \in Seq(Msg)
  PROVE  /\ s \o t \in Seq(Msg) /\ Len(s \o t) = Len(s) + Len(t)
         /\ Len(s) \in Nat /\ Len(t) \in Nat
         /\ \A i \in 1 .. Len(s) + Len(t) :
               (s \o t)[i] = IF i <= Len(s) THEN s[i] ELSE t[i - Len(s)]
  OBVIOUS

\* The sequence when a message is queued, and when one is sent.
LEMMA OutgoingGrows ==
  ASSUME NEW r \in Seq(Msg), NEW q \in Seq(Msg), NEW m \in Msg
  PROVE  r \o Append(q, m) = Append(r \o q, m)
  OBVIOUS

LEMMA OutgoingMoves ==
  ASSUME NEW r \in Seq(Msg), NEW q \in Seq(Msg), q # <<>>
  PROVE  LET s == <<Head(q)>> \o Tail(q) IN
         /\ s \in Seq(Msg) /\ Len(s) = Len(r \o q) - Len(r) /\ Len(r) \in Nat
         /\ \A i \in 1 .. Len(s) : s[i] = (r \o q)[i + Len(r)]
<1>1. <<Head(q)>> \o Tail(q) = q
  OBVIOUS
<1>2. Len(r \o q) = Len(r) + Len(q) /\ Len(r) \in Nat /\ Len(q) \in Nat
  BY Concatenated
<1>3. ASSUME NEW i \in 1 .. Len(q) PROVE q[i] = (r \o q)[i + Len(r)]
  <2>1. i + Len(r) \in 1 .. Len(r) + Len(q)
    BY <1>2
  <2>2. (r \o q)[i + Len(r)] = IF i + Len(r) <= Len(r) THEN r[i + Len(r)] ELSE q[(i + Len(r)) - Len(r)]
    BY <2>1, Concatenated
  <2> QED
    BY <1>2, <2>2
<1> QED
  BY <1>1, <1>2, <1>3

LEMMA WholeStep == (WholeInv /\ Numbers /\ Queues) /\ Next => WholeInv'
<1> SUFFICES ASSUME WholeInv, Numbers, Queues, Next PROVE WholeInv'
  OBVIOUS
<1> USE ImagerAssumption DEF mainVars, sharedVars, logVars, serverVars, history
<1> DEFINE o == Outgoing
           last == o[Len(o)]
           Met == Len(o) >= 1 /\ last.conn = conn
<1>0. /\ recent \in Seq(Msg) /\ queue \in Seq(Msg) /\ o \in Seq(Msg) /\ Len(o) \in Nat
      /\ pos \in Nat /\ conn \in Nat /\ dropped \in Nat /\ expect \in Nat \cup {-1}
      /\ \A i \in 1 .. Len(o) : o[i] \in Msg /\ o[i].conn \in Nat /\ o[i].n \in Nat
  <2>1. recent \in Seq(Msg) /\ queue \in Seq(Msg) /\ o \in Seq(Msg)
    BY Concatenated DEF Queues, Outgoing
  <2>2. pos \in Nat /\ conn \in Nat /\ dropped \in Nat /\ expect \in Nat \cup {-1}
    BY DEF Numbers
  <2> HIDE DEF o
  <2>3. Len(o) \in Nat /\ \A i \in 1 .. Len(o) : o[i] \in Msg
    BY <2>1
  <2>4. \A m \in Msg : m.conn \in Nat /\ m.n \in Nat
    BY DEF Msg
  <2> QED
    BY <2>1, <2>2, <2>3, <2>4 DEF o
<1>1. /\ Len(recent) <= 1 /\ Inserting /\ Ordered(o)
      /\ ~wrapped => Whole(o) /\ Continues(o) /\ (~Ended => Agrees)
  BY DEF WholeInv
<1>2. /\ Halves \in Nat /\ pos % 2 \in {0, 1}
      /\ (pos' = pos + 1 /\ pos % 2 = 0) => pos' % 2 = 1 /\ Halves' = Halves
      /\ (pos' = pos + 1 /\ pos % 2 = 1) => pos' % 2 = 0 /\ Halves' = Halves + 1
  BY SMTT(30), <1>0, HalvesOfNext DEF Halves
<1>3. ASSUME UNCHANGED <<recent, queue, conn, wrapped, dropped, pos, expect>>, described => described',
             (log' = log /\ described' = described) \/ (log # "insert" /\ log' # "insert"),
             Ended => Ended'
      PROVE  WholeInv'
  <2>1. Outgoing' = Outgoing /\ Halves' = Halves /\ Amid' = Amid
    BY <1>3 DEF Outgoing, Halves, Amid
  <2>2. Inserting' /\ Ordered(o)'
    BY <1>1, <1>3, <2>1 DEF Inserting, Ordered
  <2>3. Whole(o) => Whole(o)'
    BY <2>1 DEF Whole
  <2>4. Continues(o) => Continues(o)'
    BY <1>3, <2>1 DEF Continues, Fits, Ended
  <2>5. (~Ended => Agrees) => (~Ended' => Agrees')
    BY <1>3, <2>1 DEF Agrees
  <2> QED
    BY <1>1, <1>3, <2>2, <2>3, <2>4, <2>5 DEF WholeInv
<1>4. ASSUME UNCHANGED <<recent, queue, wrapped>>, NewConnection, log' # "insert" PROVE WholeInv'
  <2>1. Outgoing' = Outgoing /\ conn' = conn + 1 /\ expect' = -1
    BY <1>4 DEF Outgoing, NewConnection
  <2>2. \A i \in 1 .. Len(o) : o[i].conn < conn'
    BY <1>0, <1>1, <2>1 DEF Ordered
  <2>3. Inserting' /\ Ordered(o)'
    <3>1. \A i \in 1 .. Len(o) : o[i].conn <= conn' /\ o[i].conn # conn'
      BY <1>0, <2>1, <2>2
    <3> QED
      BY <1>1, <1>4, <2>1, <3>1 DEF Inserting, Ordered
  <2>4. Whole(o) => Whole(o)'
    BY <2>1 DEF Whole
  <2>5. Continues(o)'
    <3>1. Len(o) >= 1 => last.conn < conn'
      BY <1>0, <2>2
    <3> QED
      BY <1>0, <2>1, <2>2, <3>1 DEF Continues
  <2>6. Agrees'
    BY <2>1 DEF Agrees
  <2> QED
    BY <1>1, <1>4, <2>3, <2>4, <2>5, <2>6 DEF WholeInv
<1>5. ASSUME UNCHANGED <<log, described, conn, wrapped, dropped, pos, expect>>,
             Len(recent') <= 1, Outgoing' \in Seq(Msg),
             NEW k \in Nat, Len(Outgoing') = Len(o) - k,
             \A i \in 1 .. Len(Outgoing') : Outgoing'[i] = o[i + k]
      PROVE  WholeInv'
  <2> DEFINE r == Outgoing'
  <2>1. (Whole(o) => Whole(r)) /\ Ordered(r) /\ (Continues(o) => Continues(r))
    <3> HIDE DEF o, r
    <3> QED
      BY <1>0, <1>1, <1>5, RestIsWhole DEF r
  <2>2. Inserting' /\ Ordered(o)'
    BY <1>1, <1>5, <2>1 DEF Inserting, Ordered
  <2>3. Whole(r) => Whole(o)'
    BY DEF Whole
  <2>4. Continues(r) => Continues(o)'
    BY <1>5 DEF Continues, Fits, Ended, Halves, Amid
  <2>5. (~Ended => Agrees) => (~Ended' => Agrees')
    BY <1>5 DEF Agrees, Ended, Halves, Amid
  <2> QED
    BY <1>1, <1>5, <2>1, <2>2, <2>3, <2>4, <2>5 DEF WholeInv
<1>6. ASSUME NEW m \in Msg, m.conn = conn, described, UNCHANGED <<recent, conn, described, wrapped>>,
             queue' = Append(queue, m), ~Ended, ~Ended', Inserting',
             m.next = expect', m.kind = "part" => expect' = m.n + 1,
             (~wrapped /\ Met) => Follows(last, m),
             ~wrapped =>
                 /\ Agrees'
                 /\ IF Amid' THEN m.kind = "begin" /\ m.n = Halves' ELSE m.kind # "begin"
      PROVE  WholeInv'
  <2>1. Outgoing' = Append(o, m)
    BY <1>0, <1>6, OutgoingGrows DEF Outgoing
  <2>2. Ordered(Append(o, m))
    BY <1>0, <1>1, <1>6, MoreIsOrdered
  <2>3. Ordered(o)'
    BY <1>6, <2>1, <2>2 DEF Ordered
  <2>4. ASSUME ~wrapped PROVE Whole(o)'
    <3>1. Whole(Append(o, m))
      <4> HIDE DEF o
      <4> QED
        BY <1>0, <1>1, <1>6, <2>4, MoreIsWhole
    <3> QED
      BY <2>1, <3>1 DEF Whole
  <2>5. ASSUME ~wrapped PROVE Continues(o)'
    <3>1. Outgoing'[Len(Outgoing')] = m
      BY <1>0, <2>1
    <3> QED
      BY <1>6, <2>5, <3>1 DEF Continues, Fits
  <2> QED
    BY <1>1, <1>6, <2>3, <2>4, <2>5 DEF WholeInv
<1>7. ASSUME UNCHANGED <<recent, queue, conn, wrapped, described>>, Ended' PROVE WholeInv'
  <2>1. Outgoing' = Outgoing /\ Inserting'
    BY <1>7 DEF Outgoing, Inserting, Ended
  <2>2. Ordered(o)' /\ Continues(o)' /\ (Whole(o) => Whole(o)')
    BY <1>1, <1>7, <2>1 DEF Ordered, Whole, Continues
  <2> QED
    BY <1>1, <1>7, <2>1, <2>2 DEF WholeInv
<1>8. (~wrapped /\ Met /\ ~Ended) => Fits(last)
  BY <1>1 DEF Continues
<1> HIDE DEF o, last, Met
<1>9. ASSUME HandleGotFirst \/ StopKill PROVE WholeInv'
  <2>1. UNCHANGED <<recent, queue, conn, wrapped, dropped, pos, expect, described>>
    BY <1>9 DEF HandleGotFirst, StopKill
  <2>2. log' = log \/ log' \in {"off", "none", "open"}
    BY <1>9, KillDoes DEF HandleGotFirst, StopKill
  <2> QED
    BY <1>3, <1>7, <2>1, <2>2 DEF Ended
<1>10. ASSUME HandleDroppedLast PROVE WholeInv'
  <2>1. /\ UNCHANGED <<log, described, conn, wrapped, dropped, pos, expect>>
        /\ recent' = <<>> /\ queue' = queue
    BY <1>10 DEF HandleDroppedLast
  <2>2. Outgoing' = queue /\ Len(recent') <= 1
    BY <1>0, <2>1 DEF Outgoing
  <2>3. Len(recent) \in Nat /\ Len(queue) = Len(o) - Len(recent)
        /\ \A i \in 1 .. Len(queue) : queue[i] = o[i + Len(recent)]
    BY <1>0 DEF o, Outgoing
  <2> QED
    BY <1>0, <1>5, <2>1, <2>2, <2>3
<1>11. ASSUME \/ \E n \in Throttles : HandleThrottle(n)
              \/ HandleRequestLogging \/ Mainloop \/ StartDescribed \/ StartTimeout \/ StopDone
              \/ StopCrash \/ AskAnswered \/ AskTimeout \/ DecrementFrames
       PROVE  WholeInv'
  <2>1. UNCHANGED <<recent, queue, conn, wrapped, dropped, pos, expect, described, log>>
    BY <1>11 DEF HandleThrottle, HandleRequestLogging, Mainloop, StartDescribed, StartTimeout,
                 StopDone, StopCrash, AskAnswered, AskTimeout, DecrementFrames
  <2> QED
    BY <2>1, <1>3 DEF Ended
<1>12. ASSUME Retrieve PROVE WholeInv'
  <2>1. /\ UNCHANGED <<log, described, conn, wrapped, dropped, pos, expect>> /\ queue # <<>>
        /\ queue' = Tail(queue) /\ recent' = <<Head(queue)>>
    BY <1>12 DEF Retrieve
  <2>2. /\ Outgoing' \in Seq(Msg) /\ Len(Outgoing') = Len(o) - Len(recent) /\ Len(recent) \in Nat
        /\ \A i \in 1 .. Len(Outgoing') : Outgoing'[i] = o[i + Len(recent)]
    BY <1>0, <2>1, OutgoingMoves DEF Outgoing, o
  <2>3. Len(recent') <= 1
    BY <2>1
  <2> QED
    BY <1>5, <2>1, <2>2, <2>3
<1>13. ASSUME LogOpen PROVE WholeInv'
  <2>1. /\ UNCHANGED <<recent, queue, wrapped>>
        /\ (log' = "top" /\ NewConnection) \/ (log' = "leave" /\ UNCHANGED serverVars)
    BY <1>13 DEF LogOpen
  <2>2. CASE log' = "top" /\ NewConnection
    BY <1>4, <2>1, <2>2
  <2>3. CASE log' = "leave" /\ UNCHANGED serverVars
    BY <1>7, <2>1, <2>3 DEF Ended
  <2> QED
    BY <2>1, <2>2, <2>3
<1>14. ASSUME LogTop \/ LogThrottle \/ LogDeduct \/ SwapDone \/ LogAnswer \/ ServeDescription
              \/ IncrementFrames \/ LogLeave
       PROVE  WholeInv'
  <2>1. /\ UNCHANGED <<recent, queue, conn, wrapped, dropped, pos, expect>>
        /\ (described => described')
        /\ log # "insert" /\ log' # "insert" /\ (Ended => Ended')
    BY <1>14 DEF LogTop, LogThrottle, LogDeduct, SwapDone, LogAnswer, ServeDescription,
                 IncrementFrames, LogLeave, ReadDescription, Ended
  <2> QED
    BY <2>1, <1>3
<1>15. ASSUME LogRequest PROVE WholeInv'
  <2>1. /\ UNCHANGED <<recent, queue, wrapped, dropped>> /\ log = "request"
        /\ log' \in {"serve", "answer", "swap"}
        /\ NewConnection \/ UNCHANGED <<serverVars, expect>>
    BY <1>15 DEF LogRequest
  <2> QED
    BY <2>1, <1>3, <1>4 DEF Ended
<1>16. ASSUME ServeReconnect PROVE WholeInv'
  <2>1. UNCHANGED <<recent, queue, wrapped>> /\ log' = "serve" /\ NewConnection
    BY <1>16 DEF ServeReconnect
  <2> QED
    BY <2>1, <1>4
<1>17. ASSUME SwapTimeout PROVE WholeInv'
  <2>1. /\ UNCHANGED <<recent, queue, conn, wrapped, dropped>> /\ ~described /\ described'
        /\ log' = "answer" /\ expect' = -1
    BY <1>17 DEF SwapTimeout
  <2>2. Outgoing' = Outgoing /\ Inserting' /\ Ordered(Outgoing)' /\ Agrees'
    BY <1>1, <2>1 DEF Outgoing, Inserting, Ordered, Agrees, o
  <2>3. ~Met
    BY <1>0, <1>1, <2>1 DEF Ordered, Met, last
  <2>4. Continues(Outgoing)'
    BY <2>1, <2>2, <2>3 DEF Continues, Met, last, o
  <2> QED
    BY <1>1, <2>1, <2>2, <2>4 DEF WholeInv, Whole, o
<1>18. ASSUME ServeBeginDropped PROVE WholeInv'
  <2>1. /\ UNCHANGED <<recent, queue, conn, described, log, expect>> /\ log = "serve" /\ pos % 2 = 0
        /\ pos' = pos + 1 /\ dropped' = (dropped + 1) % DropMod
        /\ wrapped' = (wrapped \/ dropped + 1 = DropMod)
    BY <1>18 DEF ServeBeginDropped
  <2>2. Outgoing' = Outgoing /\ Inserting' /\ Ordered(Outgoing)' /\ ~Ended
    BY <1>1, <2>1 DEF Outgoing, Inserting, Ordered, Ended, o
  <2>3. pos' % 2 = 1 /\ Halves' = Halves
    BY <1>2, <2>1
  <2>4. ASSUME ~wrapped' PROVE Continues(Outgoing)' /\ Agrees' /\ ~wrapped
    <3>1. dropped' = dropped + 1 /\ dropped + 1 # 0 /\ ~wrapped /\ ~Amid /\ ~Amid'
      <4>1. DropMod \in Nat /\ dropped + 1 \in Nat /\ dropped + 1 < DropMod
        <5>1. dropped + 1 # DropMod
          BY <2>1, <2>4, Zenon
        <5> QED
          BY <5>1 DEF Numbers
      <4>2. (dropped + 1) % DropMod = dropped + 1
        BY <4>1
      <4>3. dropped + 1 # 0
        BY <1>0
      <4>4. dropped' # 0 /\ ~wrapped
        BY <2>1, <2>4, <4>2, <4>3
      <4> QED
        BY <2>1, <4>2, <4>3, <4>4 DEF Amid
    <3>2. Agrees'
      <4>1. expect # -1 => Halves = expect + dropped
        BY <1>1, <2>1, <2>2, <3>1 DEF Agrees
      <4>2. expect # -1 => Halves + 1 = expect + (dropped + 1)
        BY <4>1, <1>0, <1>2
      <4> QED
        BY <4>2, <2>1, <2>3, <3>1 DEF Agrees
    <3>3. Met => Fits(last)'
      BY <1>8, <2>1, <2>2, <3>1 DEF Fits, last, o
    <3> QED
      BY <2>1, <2>2, <3>1, <3>2, <3>3 DEF Continues, Met, last, o
  <2> QED
    BY <1>1, <2>1, <2>2, <2>4 DEF WholeInv, Whole, o
<1>19. ASSUME ServeBegin PROVE WholeInv'
  <2>1. /\ UNCHANGED <<recent, pos, conn, described, wrapped>> /\ described /\ dropped' = 0
        /\ log = "serve" /\ log' = "insert" /\ pos % 2 = 0
        /\ IF dropped > 0 THEN Send("discarded", dropped) ELSE UNCHANGED <<queue, expect>>
    BY <1>19 DEF ServeBegin
  <2>2. ~Ended /\ ~Ended' /\ Inserting' /\ Halves' = Halves /\ ~Amid /\ ~Amid'
    BY <2>1 DEF Ended, Inserting, Halves, Amid
  <2>3. (~wrapped /\ Met) => Fits(last)
    BY <1>8, <2>2
  <2>4. (~wrapped /\ expect # -1) => Halves = expect + dropped
    BY <1>1, <2>1, <2>2 DEF Agrees
  <2>5. CASE dropped > 0
    <3> DEFINE m == Message("discarded", dropped)
    <3>1. /\ m \in Msg /\ m.kind = "discarded" /\ m.n = dropped /\ m.conn = conn
          /\ m.next = Expected("discarded", dropped)
      BY <1>0, MessageType
    <3> HIDE DEF m
    <3>2. /\ queue' = Append(queue, m) /\ expect' = m.next
          /\ expect' = IF expect = -1 THEN -1 ELSE expect + dropped
      BY <2>1, <2>5, <3>1 DEF m, Send, Expected
    <3>3. (~wrapped /\ Met) => Follows(last, m)
      BY <2>2, <2>3, <3>1, <3>2 DEF Follows, Fits
    <3>4. ~wrapped => Agrees'
      BY <1>0, <2>1, <2>2, <2>4, <3>2 DEF Agrees
    <3> QED
      BY <1>6, <2>1, <2>2, <3>1, <3>2, <3>3, <3>4
  <2>6. CASE ~(dropped > 0)
    <3>1. Outgoing' = Outgoing /\ Ordered(Outgoing)' /\ dropped = 0 /\ expect' = expect
      <4>1. dropped = 0
        BY <1>0, <2>6
      <4>2. Outgoing' = Outgoing
        BY <2>1, <2>6 DEF Outgoing
      <4> QED
        BY <1>1, <2>1, <2>6, <4>1, <4>2 DEF Ordered, o
    <3>2. (~wrapped /\ Met) => Fits(last)'
      BY <2>2, <2>3, <3>1 DEF Fits, last, o
    <3>3. ~wrapped => Continues(Outgoing)'
      BY <2>1, <3>1, <3>2 DEF Continues, Met, last, o
    <3>4. ~wrapped => Agrees'
      BY <1>0, <2>1, <2>2, <2>4, <3>1 DEF Agrees
    <3> QED
      BY <1>1, <2>1, <2>2, <3>1, <3>3, <3>4 DEF WholeInv, Whole, o
  <2> QED
    BY <2>5, <2>6
<1>20. ASSUME InsertBegin PROVE WholeInv'
  <2> DEFINE m == Message("begin", pos \div 2)
  <2>1. /\ UNCHANGED <<recent, conn, described, wrapped, dropped>> /\ pos' = pos + 1
        /\ log = "insert" /\ log' = "count" /\ Send("begin", pos \div 2)
    BY <1>20 DEF InsertBegin
  <2>2. /\ m \in Msg /\ m.kind = "begin" /\ m.n = Halves /\ m.conn = conn /\ m.next = Halves
    <3>1. pos \div 2 \in Nat
      BY <1>2 DEF Halves
    <3> QED
      BY <1>0, <3>1, MessageType DEF Halves, Expected
  <2> HIDE DEF m
  <2>3. queue' = Append(queue, m) /\ expect' = Halves
    BY <2>1 DEF Send, Expected, m, Halves
  <2>4. ~Ended /\ ~Ended' /\ Inserting' /\ described /\ pos % 2 = 0 /\ dropped = 0 /\ ~Amid
    BY <1>1, <2>1 DEF Ended, Inserting, Amid
  <2>5. pos' % 2 = 1 /\ Halves' = Halves /\ Amid'
    BY <1>2, <2>1, <2>4 DEF Amid
  <2>6. (~wrapped /\ Met) => Follows(last, m)
    <3>1. (~wrapped /\ Met) => Fits(last)
      BY <1>8, <2>4
    <3>2. (~wrapped /\ expect # -1) => Halves = expect
      BY <1>1, <2>1, <2>4 DEF Agrees
    <3> QED
      BY <2>2, <2>4, <3>1, <3>2 DEF Follows, Fits
  <2>7. Agrees'
    BY <2>3, <2>5 DEF Agrees
  <2> QED
    BY <1>6, <2>1, <2>2, <2>3, <2>4, <2>5, <2>6, <2>7
<1>21. ASSUME ServePart PROVE WholeInv'
  <2>1. /\ UNCHANGED <<recent, conn, described, wrapped, dropped, log>> /\ pos' = pos + 1 /\ described
        /\ log = "serve" /\ pos % 2 = 1
        /\ IF dropped > 0 THEN UNCHANGED <<queue, expect>> ELSE Send("part", pos \div 2)
    BY <1>21 DEF ServePart
  <2>2. ~Ended /\ ~Ended' /\ Inserting' /\ pos' % 2 = 0 /\ Halves' = Halves + 1 /\ ~Amid'
    BY <1>2, <2>1 DEF Ended, Inserting, Amid
  <2>3. (~wrapped /\ Met) => Fits(last)
    BY <1>8, <2>2
  <2>4. CASE dropped > 0
    <3>1. Outgoing' = Outgoing /\ Ordered(Outgoing)' /\ ~Amid /\ expect' = expect
      BY SMTT(30), <1>1, <2>1, <2>4 DEF Outgoing, Ordered, Amid, o
    <3>2. (~wrapped /\ Met) => Fits(last)'
      BY <2>2, <2>3, <3>1 DEF Fits, last, o
    <3>3. ~wrapped => Continues(Outgoing)'
      BY <2>1, <3>1, <3>2 DEF Continues, Met, last, o
    <3>4. ~wrapped => Agrees'
      BY <1>0, <1>1, <1>2, <2>1, <2>2, <3>1 DEF Agrees
    <3> QED
      BY <1>1, <2>1, <2>2, <3>1, <3>3, <3>4 DEF WholeInv, Whole, o
  <2>5. CASE dropped = 0
    <3> DEFINE m == Message("part", pos \div 2)
    <3>1. m \in Msg /\ m.kind = "part" /\ m.n = Halves /\ m.conn = conn /\ m.next = Halves + 1
      <4>1. pos \div 2 \in Nat
        BY <1>2 DEF Halves
      <4> QED
        BY <1>0, <4>1, MessageType DEF Halves, Expected
    <3> HIDE DEF m
    <3>2. queue' = Append(queue, m) /\ expect' = Halves + 1
      BY <2>1, <2>5 DEF m, Send, Expected, Halves
    <3>3. (~wrapped /\ Met) => Follows(last, m)
      BY <2>1, <2>3, <2>5, <3>1 DEF Follows, Fits, Amid
    <3>4. Agrees'
      BY <1>2, <2>1, <2>2, <2>5, <3>2 DEF Agrees
    <3> QED
      BY <1>6, <2>1, <2>2, <3>1, <3>2, <3>3, <3>4
  <2> QED
    BY <1>0, <2>4, <2>5
<1>22. ASSUME NEW k \in 1 .. DropMod - 1, ServeDiscarded(k) PROVE WholeInv'
  <2> DEFINE m == Message("discarded", k)
  <2>1. /\ UNCHANGED <<recent, conn, described, wrapped, dropped, log>> /\ pos' = pos + 2 * k
        /\ described /\ log = "serve" /\ pos % 2 = 0 /\ Send("discarded", k) /\ k \in Nat
    BY <1>22 DEF ServeDiscarded
  <2>2. /\ m \in Msg /\ m.kind = "discarded" /\ m.n = k /\ m.conn = conn
        /\ m.next = Expected("discarded", k)
    BY <1>0, <2>1, MessageType
  <2> HIDE DEF m
  <2>3. /\ queue' = Append(queue, m) /\ expect' = m.next
        /\ expect' = IF expect = -1 THEN -1 ELSE expect + k
    BY <2>1, <2>2 DEF m, Send, Expected
  <2>4. pos' % 2 = 0 /\ Halves' = Halves + k
    BY <1>0, <2>1, HalvesOfLater DEF Halves
  <2>5. ~Ended /\ ~Ended' /\ Inserting' /\ ~Amid /\ ~Amid'
    BY <2>1, <2>4 DEF Ended, Inserting, Amid
  <2>6. (~wrapped /\ Met) => Follows(last, m)
    <3>1. (~wrapped /\ Met) => Fits(last)
      BY <1>8, <2>5
    <3> QED
      BY <2>2, <2>3, <2>5, <3>1 DEF Follows, Fits
  <2>7. ~wrapped => Agrees'
    <3>1. (~wrapped /\ expect # -1) => Halves = expect + dropped
      BY <1>1, <2>1, <2>5 DEF Agrees
    <3>2. (~wrapped /\ expect # -1) => Halves + k = (expect + k) + dropped
      BY <1>0, <1>2, <2>1, <3>1
    <3> QED
      BY <2>1, <2>3, <2>4, <2>5, <3>2 DEF Agrees
  <2> QED
    BY <1>6, <2>1, <2>2, <2>3, <2>5, <2>6, <2>7
<1> QED
  BY <1>9, <1>10, <1>11, <1>12, <1>13, <1>14, <1>15, <1>16, <1>17, <1>18, <1>19,
     <1>20, <1>21, <1>22 DEF Next, MainStep, MainRest, LogStep

\* Clients get the frames of the imager whole and in order, and are told how many
\* are missing between two, by the imager and by the logging thread together,
\* through every change of the credit, every exchange of the connection to the
\* imager and every thread that is killed, until the 16-bit count of dropped frames
\* comes back to 0.
THEOREM FramesWholeHolds == Spec => []FramesWhole
<1> DEFINE IInv == TypeInv /\ WholeInv
<1>1. Init => IInv
  <2>1. ASSUME Init PROVE WholeInv
    <3>1. recent = <<>> /\ Outgoing = <<>> /\ log = "off"
      BY <2>1 DEF Init, Outgoing
    <3> QED
      BY <3>1 DEF WholeInv, Inserting, Ordered, Whole, Continues, Ended
  <2> QED
    BY <2>1, TypeInit
<1>2. IInv /\ [Next]_vars => IInv'
  <2>1. IInv /\ Next => IInv'
    BY TypeStep, WholeStep DEF TypeInv
  <2>2. IInv /\ UNCHANGED vars => IInv'
    <3>1. WholeInv /\ UNCHANGED vars => WholeInv'
      <4> SUFFICES ASSUME WholeInv, UNCHANGED vars PROVE WholeInv'
        OBVIOUS
      <4>1. /\ UNCHANGED <<recent, queue, conn, wrapped, dropped, pos, described, log, expect>>
            /\ Outgoing' = Outgoing /\ Halves' = Halves
        BY DEF vars, mainVars, sharedVars, logVars, serverVars, history, Outgoing, Halves
      <4>2. Inserting' /\ Ordered(Outgoing)'
        BY <4>1 DEF WholeInv, Inserting, Ordered
      <4>3. ~wrapped' => Whole(Outgoing)' /\ Continues(Outgoing)' /\ (~Ended' => Agrees')
        BY <4>1 DEF WholeInv, Whole, Continues, Fits, Ended, Agrees, Amid
      <4> QED
        BY <4>1, <4>2, <4>3 DEF WholeInv
    <3> QED
      BY <3>1, TypeStep
  <2> QED
    BY <2>1, <2>2
<1>3. IInv => FramesWhole
  BY DEF WholeInv, Whole, FramesWhole
<1> QED
  BY <1>1, <1>2, <1>3, PTL DEF Spec
===========================================================================
