--------------------------- MODULE HeartbeatProofs ---------------------------
(***************************************************************************)
(* Neither side gives the other up sooner than it should, for any times,   *)
(* limits and faults.                                                      *)
(***************************************************************************)
EXTENDS Heartbeat, SequenceTheorems, TLAPS

-----------------------------------------------------------------------------
(* Datagrams that wait.                                                    *)

AtController == {"reply", "latereply"}
AtHeartbeat == {"ping", "lateping", "die", "stranger"}

\* One of them will be answered to the controller.
Coming(box) == \E i \in 1..Len(box) : Answerable(box[i])

\* What is put into a box or taken from it changes that as one expects.
LEMMA NoneComes == ~ Coming(<<>>)
BY DEF Coming

LEMMA OneMore ==
  ASSUME NEW S, NEW box \in Seq(S), NEW d \in S
  PROVE  /\ Append(box, d) \in Seq(S) /\ Append(box, d) # <<>>
         /\ Coming(Append(box, d)) <=> Coming(box) \/ Answerable(d)
<1> DEFINE more == Append(box, d)
<1>1. /\ more \in Seq(S) /\ Len(more) = Len(box) + 1 /\ more[Len(box) + 1] = d
      /\ \A i \in 1..Len(box) : more[i] = box[i]
  BY AppendProperties
<1>2. Len(box) \in Nat
  OBVIOUS
<1> HIDE DEF more
<1>3. more # <<>>
  BY <1>1, <1>2
<1>4. Coming(more) <=> Coming(box) \/ Answerable(d)
  BY <1>1, <1>2 DEF Coming
<1> QED BY <1>1, <1>3, <1>4 DEF more

LEMMA OneLess ==
  ASSUME NEW S, NEW box \in Seq(S), box # <<>>
  PROVE  /\ Head(box) \in S /\ Tail(box) \in Seq(S)
         /\ Coming(box) <=> Answerable(Head(box)) \/ Coming(Tail(box))
<1> DEFINE left == Tail(box)
           d == Head(box)
<1>1. Len(box) \in Nat /\ Len(box) # 0
  BY EmptySeq
<1>2. /\ d \in S /\ d = box[1] /\ left \in Seq(S) /\ Len(left) = Len(box) - 1
      /\ \A i \in 1..Len(left) : left[i] = box[i + 1]
  BY HeadTailProperties
<1> HIDE DEF left, d
<1>3. ASSUME Coming(box) PROVE Answerable(d) \/ Coming(left)
  <2>1. PICK i \in 1..Len(box) : Answerable(box[i])
    BY <1>3 DEF Coming
  <2>2. CASE i = 1
    BY <1>2, <2>1, <2>2
  <2>3. CASE i # 1
    <3>1. i - 1 \in 1..Len(left) /\ (i - 1) + 1 = i
      BY <1>1, <1>2, <2>3
    <3>2. left[i - 1] = box[i]
      BY <1>2, <3>1
    <3> QED BY <2>1, <3>1, <3>2 DEF Coming
  <2> QED BY <2>2, <2>3
<1>4. ASSUME Coming(left) PROVE Coming(box)
  <2>1. PICK i \in 1..Len(left) : Answerable(left[i])
    BY <1>4 DEF Coming
  <2>2. i + 1 \in 1..Len(box) /\ box[i + 1] = left[i]
    BY <1>1, <1>2
  <2> QED BY <2>1, <2>2 DEF Coming
<1>5. ASSUME Answerable(d) PROVE Coming(box)
  <2>1. 1 \in 1..Len(box)
    BY <1>1
  <2> QED BY <1>2, <1>5, <2>1 DEF Coming
<1> QED BY <1>2, <1>3, <1>4, <1>5 DEF left, d

-----------------------------------------------------------------------------
(* Times, counts and thread objects.                                       *)

LEMMA Times ==
  /\ RecvTimeout \in Nat \ {0} /\ Pulse \in Nat \ {0}
  /\ DirectorFails \in Nat \ {0} /\ DaemonFails \in Nat \ {0}
  /\ CheckSleep \in Nat /\ RetrySleep \in Nat /\ MaxFaults \in Nat /\ WarmUp = 1
  /\ Longest \in Nat
  /\ RecvTimeout \in 0..Longest /\ Pulse \in 0..Longest /\ CheckSleep \in 0..Longest
  /\ RetrySleep \in 0..Longest /\ WarmUp \in 0..Longest
<1>1. /\ RecvTimeout \in Nat \ {0} /\ Pulse \in Nat \ {0}
  /\ DirectorFails \in Nat \ {0} /\ DaemonFails \in Nat \ {0}
  /\ CheckSleep \in Nat \ {0} /\ RetrySleep \in Nat \ {0} /\ MaxFaults \in Nat /\ WarmUp = 1
  BY TimesAssumption DEF WarmUp
<1> DEFINE a == Later(RecvTimeout, Pulse)
           b == Later(Later(CheckSleep, RetrySleep), WarmUp)
<1>2. a \in Nat /\ RecvTimeout <= a /\ Pulse <= a
  BY <1>1 DEF Later
<1>3. b \in Nat /\ CheckSleep <= b /\ RetrySleep <= b /\ WarmUp <= b
  BY <1>1 DEF Later
<1>4. Longest = Later(a, b)
  BY DEF Longest
<1> HIDE DEF a, b
<1>5. Longest \in Nat /\ a <= Longest /\ b <= Longest
  BY <1>2, <1>3, <1>4 DEF Later
<1> QED BY <1>1, <1>2, <1>3, <1>5

\* Times and counts as sets.
Clock == 0..Longest
ControlFails == 0..DirectorFails
ThreadFails == 0..DaemonFails

\* The types of the module by these names, and what is in them.
LEMMA Sets ==
  /\ ControlState =
       [at : {"none", "init", "warm", "ping", "wait", "pause"}, timer : Clock,
        fails : ControlFails, mShouldRun : BOOLEAN, thread : ThreadObject]
  /\ HeartbeatState =
       [at : {"none", "init", "receive", "reply"}, timer : Clock,
        fails : ThreadFails, mShouldRun : BOOLEAN, thread : ThreadObject]
  /\ MainState =
       [at : {"down", "register", "calls", "retry", "start", "watch", "stopping"}, timer : Clock]
BY DEF ControlState, HeartbeatState, MainState, Clock, ControlFails, ThreadFails

LEMMA InSets ==
  /\ 0 \in Clock /\ RecvTimeout \in Clock /\ Pulse \in Clock /\ CheckSleep \in Clock
  /\ RetrySleep \in Clock /\ WarmUp \in Clock
  /\ 0 \in ControlFails /\ 0 \in ThreadFails
BY Times DEF Clock, ControlFails, ThreadFails

LEMMA Counted ==
  /\ \A n \in ControlFails : n \in Nat /\ (n < DirectorFails => n + 1 \in ControlFails)
  /\ \A n \in ThreadFails : n \in Nat /\ (n < DaemonFails => n + 1 \in ThreadFails)
BY Times DEF ControlFails, ThreadFails

LEMMA ThreadTyped ==
  /\ NewThread \in ThreadObject /\ Started(NewThread) \in ThreadObject
  /\ ~ NewThread.mStopDead /\ ~ NewThread.mRunning /\ ~ NewThread.mSpent
  /\ ~ Started(NewThread).mStopDead /\ Started(NewThread).mRunning
  /\ ~ Started(NewThread).mSpent
  /\ \A t \in ThreadObject :
       /\ Started(t) \in ThreadObject /\ Started(t).mRunning
       /\ Started(t).mStopDead = t.mStopDead /\ Started(t).mSpent = t.mSpent
       /\ ResetThread(t) \in ThreadObject /\ ~ ResetThread(t).mSpent
       /\ ResetThread(t).mStopDead = t.mStopDead /\ ResetThread(t).mRunning = t.mRunning
       /\ t.mStopDead = FALSE =>
            /\ Terminated(t) \in ThreadObject /\ ~ Terminated(t).mRunning
            /\ Terminated(t).mSpent /\ Terminated(t).mStopDead = FALSE
BY DEF NewThread, ThreadObject, Started, ResetThread, Terminated

LEMMA PassTyped ==
  ASSUME NEW t \in Clock
  PROVE  Pass(t) \in Clock /\ Pass(t) <= t /\ t \in Nat /\ (t # 0 => Pass(t) = t - 1)
BY Times DEF Clock, Pass

-----------------------------------------------------------------------------
(* Each thread by itself.                                                  *)

\* A controller that goes on has not failed as often as it tolerates.
ControlOrder(c) ==
  /\ c \in ControlState /\ c.thread.mStopDead = FALSE
  /\ c.at = "none" <=> ~ c.thread.mRunning
  /\ c.mShouldRun => c.fails < DirectorFails
  /\ c.at \in {"ping", "wait"} => c.mShouldRun
  /\ c.at \in {"init", "warm"} => c.fails = 0
  /\ c.at = "warm" => c.timer <= WarmUp
  /\ c.at = "pause" => c.timer <= Pulse
  /\ c.at = "wait" => c.timer <= RecvTimeout

LEMMA ControlFields ==
  ASSUME NEW c \in ControlState
  PROVE  /\ c.at \in {"none", "init", "warm", "ping", "wait", "pause"} /\ c.timer \in Clock
         /\ c.fails \in ControlFails /\ c.mShouldRun \in BOOLEAN /\ c.thread \in ThreadObject
         /\ c = [at |-> c.at, timer |-> c.timer, fails |-> c.fails,
                 mShouldRun |-> c.mShouldRun, thread |-> c.thread]
BY Sets

\* The end of its thread leaves it in order, and not running.
LEMMA ControlEnded ==
  ASSUME NEW c \in ControlState, c.thread.mStopDead = FALSE,
         c.mShouldRun => c.fails < DirectorFails, ControlEnds(c)
  PROVE  ControlOrder(control') /\ control'.at = "none" /\ ~ control'.thread.mRunning
         /\ control'.mShouldRun = c.mShouldRun /\ control'.fails = c.fails
<1>1. c \in ControlState /\ c.thread.mStopDead = FALSE /\ 0 \in Clock
  BY InSets
<1>2. c.thread \in ThreadObject
  BY <1>1, ControlFields
<1>3. /\ control' = [c EXCEPT !.at = "none", !.timer = 0, !.thread = Terminated(c.thread)]
      /\ Terminated(c.thread) \in ThreadObject /\ ~ Terminated(c.thread).mRunning
      /\ Terminated(c.thread).mStopDead = FALSE
  BY <1>1, <1>2, ThreadTyped DEF ControlEnds
<1>4. control' \in ControlState
  BY <1>1, <1>3, Sets
<1>5. /\ control'.at = "none" /\ control'.thread = Terminated(c.thread)
      /\ control'.mShouldRun = c.mShouldRun /\ control'.fails = c.fails
  BY <1>1, <1>3, Sets
<1> QED BY <1>3, <1>4, <1>5 DEF ControlOrder

\* Every step keeps a controller in order.
LEMMA ControlOrderly ==
  ASSUME ControlOrder(control), Next
  PROVE  ControlOrder(control')
<1>a. control \in ControlState /\ control.thread.mStopDead = FALSE
  BY DEF ControlOrder
<1>b. /\ control.at \in {"none", "init", "warm", "ping", "wait", "pause"}
      /\ control.timer \in Clock /\ control.fails \in ControlFails
      /\ control.mShouldRun \in BOOLEAN /\ control.thread \in ThreadObject
  BY <1>a, ControlFields
<1> DEFINE Goes(a, t, f, s) == [control EXCEPT !.at = a, !.timer = t, !.fails = f,
                                               !.mShouldRun = s]
<1>c. ASSUME NEW a \in {"none", "init", "warm", "ping", "wait", "pause"}, NEW t \in Clock,
             NEW f \in ControlFails, NEW s \in BOOLEAN, control' = Goes(a, t, f, s)
      PROVE  /\ control' \in ControlState /\ control'.at = a /\ control'.timer = t
             /\ control'.fails = f /\ control'.mShouldRun = s
             /\ control'.thread = control.thread
  BY <1>a, <1>c, Sets
<1> HIDE DEF Goes
<1>1. CASE UNCHANGED control
  BY <1>1 DEF ControlOrder
<1>2. ASSUME ControlEnds(control) PROVE ControlOrder(control')
  BY <1>2, ControlEnded DEF ControlOrder
<1>3. CASE InitControl
  <2>1. CASE main.at = "down"
    BY <1>2, <1>3, <2>1 DEF InitControl
  <2>2. CASE main.at # "down"
    <3>1. control' = Goes("warm", WarmUp, control.fails, control.mShouldRun)
      BY <1>3, <2>2, <1>a, Sets DEF InitControl, Goes
    <3>2. /\ control' \in ControlState /\ control'.at = "warm" /\ control'.timer = WarmUp
          /\ control'.fails = control.fails /\ control'.mShouldRun = control.mShouldRun
          /\ control'.thread = control.thread
      BY ONLY <1>b, <1>c, <3>1, InSets
    <3> QED BY <1>3, <3>2, Times DEF ControlOrder, InitControl
  <2> QED BY <2>1, <2>2
<1>4. CASE Awake
  <2>1. CASE ~ control.mShouldRun
    BY <1>2, <1>4, <2>1 DEF Awake
  <2>2. CASE control.mShouldRun
    <3>1. control' = Goes("ping", control.timer, control.fails, control.mShouldRun)
      BY <1>4, <2>2, <1>a, Sets DEF Awake, Goes
    <3>2. /\ control' \in ControlState /\ control'.at = "ping"
          /\ control'.fails = control.fails /\ control'.mShouldRun = control.mShouldRun
          /\ control'.thread = control.thread
      BY ONLY <1>b, <1>c, <3>1, InSets
    <3>3. control.fails < DirectorFails /\ control.at # "none" /\ control.mShouldRun
      BY <1>4, <2>2 DEF ControlOrder, Awake
    <3>4. control'.thread.mRunning /\ control'.thread.mStopDead = FALSE
      BY <3>2, <3>3 DEF ControlOrder
    <3> QED BY ONLY <3>2, <3>3, <3>4 DEF ControlOrder
  <2> QED BY <2>1, <2>2
<1>5. CASE Ping
  <2>1. control' = Goes("wait", RecvTimeout, control.fails, control.mShouldRun)
    BY <1>5, <1>a, Sets DEF Ping, Goes
  <2>2. /\ control' \in ControlState /\ control'.at = "wait" /\ control'.timer = RecvTimeout
        /\ control'.fails = control.fails /\ control'.mShouldRun = control.mShouldRun
        /\ control'.thread = control.thread
    BY ONLY <1>b, <1>c, <2>1, InSets
  <2>3. control.fails < DirectorFails /\ control.at # "none" /\ control.mShouldRun
    BY <1>5 DEF ControlOrder, Ping
  <2>4. control'.thread.mRunning /\ control'.thread.mStopDead = FALSE
    BY <2>2, <2>3 DEF ControlOrder
  <2> QED BY ONLY <2>2, <2>3, <2>4, Times DEF ControlOrder
<1>6. CASE Replied
  <2>1. control' = Goes("pause", Pulse, 0, control.mShouldRun)
    BY <1>6, <1>a, Sets DEF Replied, Paused, Goes
  <2>2. /\ control' \in ControlState /\ control'.at = "pause" /\ control'.timer = Pulse
        /\ control'.fails = 0 /\ control'.mShouldRun = control.mShouldRun
        /\ control'.thread = control.thread
    BY ONLY <1>b, <1>c, <2>1, InSets
  <2> QED BY <1>6, <2>2, Times DEF ControlOrder, Replied
<1>7. CASE ReplyTimesOut
  <2> DEFINE n == control.fails + 1
             s == n < DirectorFails
  <2>1. /\ control' = Goes("pause", Pulse, n, s)
        /\ control.at = "wait" /\ control.fails < DirectorFails
    BY <1>7, <1>a, Sets DEF ReplyTimesOut, Paused, ControlOrder, Goes
  <2>2. n \in ControlFails /\ s \in BOOLEAN
    BY <2>1, <1>b, Counted
  <2> HIDE DEF n
  <2>3. /\ control' \in ControlState /\ control'.at = "pause" /\ control'.timer = Pulse
        /\ control'.fails = n /\ control'.mShouldRun = s
        /\ control'.thread = control.thread
    BY ONLY <1>c, <2>1, <2>2, InSets
  <2>4. control'.thread.mRunning /\ control'.thread.mStopDead = FALSE
    BY <2>1, <2>3 DEF ControlOrder
  <2>5. control'.mShouldRun => control'.fails < DirectorFails
    BY ONLY <2>3
  <2> HIDE DEF s
  <2> QED BY ONLY <2>3, <2>4, <2>5, Times DEF ControlOrder
<1>8. CASE ReplyInterrupted
  <2>1. control' = Goes("pause", Pulse, control.fails, control.mShouldRun)
    BY <1>8, <1>a, Sets DEF ReplyInterrupted, Paused, Goes
  <2>2. /\ control' \in ControlState /\ control'.at = "pause" /\ control'.timer = Pulse
        /\ control'.fails = control.fails /\ control'.mShouldRun = control.mShouldRun
        /\ control'.thread = control.thread
    BY ONLY <1>b, <1>c, <2>1, InSets
  <2>3. control.fails < DirectorFails /\ control.at # "none"
    BY <1>8 DEF ControlOrder, ReplyInterrupted
  <2>4. control'.thread.mRunning /\ control'.thread.mStopDead = FALSE
    BY <2>2, <2>3 DEF ControlOrder
  <2> QED BY ONLY <2>2, <2>3, <2>4, Times DEF ControlOrder
<1>9. ASSUME NEW a \in {"none", "init"}, NEW t \in ThreadObject, ~ t.mStopDead,
             a = "none" <=> ~ t.mRunning,
             control' = [at |-> a, timer |-> 0, fails |-> 0, mShouldRun |-> TRUE, thread |-> t]
      PROVE  ControlOrder(control')
  <2> DEFINE yes == TRUE
  <2>1. yes \in BOOLEAN
    OBVIOUS
  <2>2. control' = [at |-> a, timer |-> 0, fails |-> 0, mShouldRun |-> yes, thread |-> t]
    BY <1>9
  <2> HIDE DEF yes
  <2>3. control' \in ControlState
    BY ONLY <1>9, <2>1, <2>2, InSets, Sets
  <2>4. /\ control'.at = a /\ control'.fails = 0 /\ control'.thread = t
    BY <2>2
  <2> QED BY ONLY <1>9, <2>3, <2>4, Times DEF ControlOrder, ThreadObject
<1>10. CASE Register
  <2>1. CASE UNCHANGED control
    BY <1>1, <2>1
  <2>2. CASE control' = [NoControl EXCEPT !.at = "init", !.thread = Started(@)]
    <3>1. control' = [at |-> "init", timer |-> 0, fails |-> 0, mShouldRun |-> TRUE,
                      thread |-> Started(NewThread)]
      BY <2>2 DEF NoControl
    <3> QED BY <3>1, <1>9, ThreadTyped
  <2> QED BY <1>10, <2>1, <2>2 DEF Register
<1>11. CASE DirectorDies
  <2> DEFINE c == Goes(control.at, control.timer, control.fails, FALSE)
  <2>1. ControlEnds(c)
    <3>1. [control EXCEPT !.mShouldRun = FALSE] = c
      BY <1>a, Sets DEF Goes
    <3> QED BY <1>11, <3>1 DEF DirectorDies
  <2>2. /\ c \in ControlState /\ c.at = control.at /\ c.timer = control.timer
        /\ c.fails = control.fails /\ c.mShouldRun = FALSE /\ c.thread = control.thread
    BY <1>a, <1>b, Sets DEF Goes
  <2> HIDE DEF c
  <2> QED BY <1>a, <2>1, <2>2, ControlEnded
<1>12. CASE DirectorStarts
  <2>1. control' = [at |-> "none", timer |-> 0, fails |-> 0, mShouldRun |-> TRUE,
                    thread |-> NewThread]
    BY <1>12 DEF NoControl, DirectorStarts
  <2> QED BY <2>1, <1>9, ThreadTyped
<1>13. CASE Tick
  <2> DEFINE t == Pass(control.timer)
  <2>1. t \in Clock /\ t <= control.timer /\ control.timer \in Nat
    BY <1>b, PassTyped
  <2>2. t \in Nat
    BY <2>1, PassTyped
  <2> HIDE DEF t
  <2>3. control' = Goes(control.at, t, control.fails, control.mShouldRun)
    BY <1>13, <1>a, Sets DEF Tick, t, Goes
  <2>4. /\ control' \in ControlState /\ control'.at = control.at /\ control'.timer = t
        /\ control'.fails = control.fails /\ control'.mShouldRun = control.mShouldRun
        /\ control'.thread = control.thread
    BY ONLY <1>b, <1>c, <2>1, <2>3, InSets
  <2>5. /\ control.at = "warm" => t <= WarmUp
        /\ control.at = "pause" => t <= Pulse
        /\ control.at = "wait" => t <= RecvTimeout
    BY <2>1, <2>2, Times DEF ControlOrder
  <2> QED BY <2>4, <2>5 DEF ControlOrder
<1>14. CASE ControlThrows
  BY <1>2, <1>14 DEF ControlThrows
<1> QED BY <1>1, <1>3, <1>4, <1>5, <1>6, <1>7, <1>8, <1>10, <1>11, <1>12, <1>13, <1>14
        DEF Next, Control, Thread, Main, Fault, InitHeartbeat, Receive, Reply, PingTimesOut,
            Retry, StartHeartbeat, Watch, Joined, PingInterrupted, PingFails, Suggest, Shutdown,
            DaemonDies, DaemonStarts, Late

\* A heartbeat thread in order.
ThreadOrder(h) ==
  /\ h \in HeartbeatState /\ h.thread.mStopDead = FALSE
  /\ h.at = "none" <=> ~ h.thread.mRunning
  /\ h.at \in {"receive", "reply"} => h.fails < DaemonFails
  /\ h.at = "receive" => h.timer <= RecvTimeout
  /\ h.at = "reply" => h.fails = 0

LEMMA ThreadFields ==
  ASSUME NEW h \in HeartbeatState
  PROVE  /\ h.at \in {"none", "init", "receive", "reply"} /\ h.timer \in Clock
         /\ h.fails \in ThreadFails /\ h.mShouldRun \in BOOLEAN /\ h.thread \in ThreadObject
BY Sets

\* What the loop's test leaves.
LEMMA LoopsOrderly ==
  ASSUME NEW h \in HeartbeatState, h.thread.mStopDead = FALSE, h.thread.mRunning,
         h.mShouldRun => h.fails < DaemonFails
  PROVE  /\ ThreadOrder(Loops(h)) /\ Loops(h).mShouldRun = h.mShouldRun
         /\ Loops(h).fails = h.fails
         /\ h.mShouldRun =>
              /\ Loops(h).at = "receive" /\ Loops(h).timer = RecvTimeout
              /\ Loops(h).thread = h.thread
         /\ ~ h.mShouldRun =>
              /\ Loops(h).at = "none" /\ Loops(h).thread.mSpent
              /\ ~ Loops(h).thread.mRunning
<1>1. /\ h.thread \in ThreadObject /\ RecvTimeout \in Clock /\ 0 \in Clock
      /\ h.mShouldRun \in BOOLEAN
  BY ThreadFields, InSets
<1>2. CASE h.mShouldRun
  <2> DEFINE g == [h EXCEPT !.at = "receive", !.timer = RecvTimeout]
  <2>1. Loops(h) = g
    BY <1>2 DEF Loops
  <2>2. /\ g \in HeartbeatState /\ g.at = "receive" /\ g.timer = RecvTimeout
        /\ g.fails = h.fails /\ g.mShouldRun = h.mShouldRun /\ g.thread = h.thread
    BY <1>1, Sets
  <2> HIDE DEF g
  <2>3. ThreadOrder(g)
    BY <1>2, <2>2, Times DEF ThreadOrder
  <2> QED BY <1>2, <2>1, <2>2, <2>3
<1>3. CASE ~ h.mShouldRun
  <2> DEFINE t == Terminated(h.thread)
             g == [h EXCEPT !.at = "none", !.timer = 0, !.thread = t]
  <2>1. Loops(h) = g
    BY <1>3 DEF Loops
  <2>2. t \in ThreadObject /\ ~ t.mRunning /\ t.mSpent /\ t.mStopDead = FALSE
    BY <1>1, ThreadTyped
  <2> HIDE DEF t
  <2>3. /\ g \in HeartbeatState /\ g.at = "none"
        /\ g.fails = h.fails /\ g.mShouldRun = h.mShouldRun /\ g.thread = t
    BY <1>1, <2>2, Sets
  <2> HIDE DEF g
  <2>4. ThreadOrder(g)
    BY <2>2, <2>3 DEF ThreadOrder
  <2> QED BY <1>3, <2>1, <2>2, <2>3, <2>4
<1> QED BY <1>2, <1>3

\* Where a thread goes on from: how it counts, and whether it still should.
Counting(h, n, s) ==
  /\ h \in HeartbeatState /\ h.thread = heartbeat.thread
  /\ h.fails = n /\ h.mShouldRun = s

LEMMA ThreadLoops ==
  ASSUME ThreadOrder(heartbeat), heartbeat.at # "none",
         NEW h, NEW n \in ThreadFails, NEW s \in BOOLEAN,
         Counting(h, n, s), s => n < DaemonFails,
         heartbeat' = Loops(h)
  PROVE  /\ ThreadOrder(heartbeat')
         /\ heartbeat'.mShouldRun = s /\ heartbeat'.fails = n
         /\ s => /\ heartbeat'.at = "receive" /\ heartbeat'.timer = RecvTimeout
                 /\ heartbeat'.thread = heartbeat.thread
         /\ ~ s => /\ heartbeat'.at = "none" /\ heartbeat'.thread.mSpent
                   /\ ~ heartbeat'.thread.mRunning
<1>1. /\ h \in HeartbeatState /\ h.thread.mStopDead = FALSE /\ h.thread.mRunning
      /\ h.mShouldRun => h.fails < DaemonFails
      /\ h.fails = n /\ h.mShouldRun = s /\ h.thread = heartbeat.thread
  BY DEF ThreadOrder, Counting
<1>2. /\ ThreadOrder(Loops(h)) /\ Loops(h).mShouldRun = h.mShouldRun
      /\ Loops(h).fails = h.fails
      /\ h.mShouldRun =>
           /\ Loops(h).at = "receive" /\ Loops(h).timer = RecvTimeout
           /\ Loops(h).thread = h.thread
      /\ ~ h.mShouldRun =>
           /\ Loops(h).at = "none" /\ Loops(h).thread.mSpent
           /\ ~ Loops(h).thread.mRunning
  BY ONLY <1>1, LoopsOrderly
<1> QED BY <1>1, <1>2

\* The steps that end in the loop's test, and what each makes of the counts.
LoopingOn(n, s) ==
  \/ InitHeartbeat /\ n = 0 /\ s = heartbeat.mShouldRun
  \/ Receive /\ ~ heartbeat.mShouldRun /\ n = heartbeat.fails /\ s = heartbeat.mShouldRun
  \/ Reply /\ n = heartbeat.fails /\ s = heartbeat.mShouldRun
  \/ PingTimesOut /\ n = heartbeat.fails + 1
       /\ s = (heartbeat.mShouldRun /\ heartbeat.fails + 1 < DaemonFails)
  \/ PingInterrupted /\ n = heartbeat.fails /\ s = heartbeat.mShouldRun
  \/ PingFails /\ n = heartbeat.fails /\ s = FALSE

LEMMA ThreadGoesOn ==
  ASSUME ThreadOrder(heartbeat), NEW n, NEW s, LoopingOn(n, s)
  PROVE  /\ n \in ThreadFails /\ s \in BOOLEAN /\ (s => n < DaemonFails)
         /\ heartbeat.at # "none"
         /\ \E h : Counting(h, n, s) /\ heartbeat' = Loops(h)
<1>1. /\ heartbeat \in HeartbeatState /\ heartbeat.mShouldRun \in BOOLEAN
      /\ heartbeat.fails \in ThreadFails /\ 0 \in ThreadFails
  BY ThreadFields, InSets DEF ThreadOrder
<1>2. CASE InitHeartbeat /\ n = 0 /\ s = heartbeat.mShouldRun
  <2> DEFINE h == [heartbeat EXCEPT !.fails = n]
  <2>1. heartbeat' = Loops(h) /\ heartbeat.at # "none"
    BY <1>2 DEF InitHeartbeat
  <2>2. n \in ThreadFails /\ n < DaemonFails
    BY <1>1, <1>2, Times
  <2>3. Counting(h, n, s)
    BY <1>1, <1>2, <2>2, Sets DEF Counting
  <2> HIDE DEF h
  <2> QED BY <1>1, <1>2, <2>1, <2>2, <2>3
<1>3. CASE /\ heartbeat.at \in {"receive", "reply"} /\ heartbeat' = Loops(heartbeat)
           /\ n = heartbeat.fails /\ s = heartbeat.mShouldRun
  <2>1. Counting(heartbeat, n, s) /\ n < DaemonFails
    BY <1>1, <1>3 DEF Counting, ThreadOrder
  <2> QED BY <1>1, <1>3, <2>1
<1>4. CASE PingTimesOut /\ n = heartbeat.fails + 1
           /\ s = (heartbeat.mShouldRun /\ heartbeat.fails + 1 < DaemonFails)
  <2> DEFINE h == [heartbeat EXCEPT !.fails = n, !.mShouldRun = s]
  <2>1. heartbeat.at = "receive"
    BY <1>4 DEF PingTimesOut
  <2>2. n \in ThreadFails
    BY <1>1, <1>4, <2>1, Counted DEF ThreadOrder
  <2>3. s \in BOOLEAN /\ (s => n < DaemonFails)
    BY <1>1, <1>4
  <2>4. heartbeat' = Loops(h)
    BY <1>4, <1>1, Sets DEF PingTimesOut
  <2>5. Counting(h, n, s)
    BY <1>1, <2>2, <2>3, Sets DEF Counting
  <2> HIDE DEF h
  <2> QED BY <2>1, <2>2, <2>3, <2>4, <2>5
<1>5. CASE PingFails /\ n = heartbeat.fails /\ s = FALSE
  <2> DEFINE h == [heartbeat EXCEPT !.mShouldRun = s]
  <2>1. heartbeat' = Loops(h) /\ heartbeat.at # "none"
    BY <1>5 DEF PingFails
  <2>2. Counting(h, n, s)
    BY <1>1, <1>5, Sets DEF Counting
  <2> HIDE DEF h
  <2> QED BY <1>1, <1>5, <2>1, <2>2
<1>6. ASSUME /\ \/ Receive /\ ~ heartbeat.mShouldRun
                \/ Reply \/ PingInterrupted
             /\ n = heartbeat.fails /\ s = heartbeat.mShouldRun
      PROVE  /\ heartbeat.at \in {"receive", "reply"} /\ heartbeat' = Loops(heartbeat)
             /\ n = heartbeat.fails /\ s = heartbeat.mShouldRun
  BY <1>6 DEF Receive, Reply, PingInterrupted
<1> QED BY <1>2, <1>3, <1>4, <1>5, <1>6 DEF LoopingOn

LEMMA ThreadLoopsOn ==
  ASSUME ThreadOrder(heartbeat), NEW n, NEW s, LoopingOn(n, s)
  PROVE  /\ ThreadOrder(heartbeat')
         /\ heartbeat'.mShouldRun = s /\ heartbeat'.fails = n
         /\ s => /\ heartbeat'.at = "receive" /\ heartbeat'.timer = RecvTimeout
                 /\ heartbeat'.thread = heartbeat.thread
         /\ ~ s => /\ heartbeat'.at = "none" /\ heartbeat'.thread.mSpent
                   /\ ~ heartbeat'.thread.mRunning
<1>1. /\ n \in ThreadFails /\ s \in BOOLEAN /\ (s => n < DaemonFails)
      /\ heartbeat.at # "none"
      /\ \E h : Counting(h, n, s) /\ heartbeat' = Loops(h)
  BY ThreadGoesOn
<1>2. PICK h : Counting(h, n, s) /\ heartbeat' = Loops(h)
  BY <1>1
<1> QED BY <1>1, <1>2, ThreadLoops

LEMMA LoopingSteps ==
  ASSUME Thread \/ PingInterrupted \/ PingFails
  PROVE  (\E n, s : LoopingOn(n, s)) \/ (Receive /\ heartbeat.mShouldRun)
<1>1. InitHeartbeat => LoopingOn(0, heartbeat.mShouldRun)
  BY DEF LoopingOn
<1>2. (Receive /\ ~ heartbeat.mShouldRun) \/ Reply \/ PingInterrupted
        => LoopingOn(heartbeat.fails, heartbeat.mShouldRun)
  BY DEF LoopingOn
<1>3. PingTimesOut => LoopingOn(heartbeat.fails + 1,
                        heartbeat.mShouldRun /\ heartbeat.fails + 1 < DaemonFails)
  BY DEF LoopingOn
<1>4. PingFails => LoopingOn(heartbeat.fails, FALSE)
  BY DEF LoopingOn
<1> QED BY <1>1, <1>2, <1>3, <1>4 DEF Thread

\* Every step keeps the heartbeat thread in order.
LEMMA ThreadOrderly ==
  ASSUME ThreadOrder(heartbeat), Next, main.at = "start" => heartbeat.at = "none"
  PROVE  ThreadOrder(heartbeat')
<1>a. /\ heartbeat \in HeartbeatState /\ heartbeat.thread.mStopDead = FALSE
      /\ heartbeat.at \in {"none", "init", "receive", "reply"} /\ heartbeat.timer \in Clock
      /\ heartbeat.fails \in ThreadFails /\ heartbeat.mShouldRun \in BOOLEAN
      /\ heartbeat.thread \in ThreadObject
  BY ThreadFields DEF ThreadOrder
<1>1. CASE UNCHANGED heartbeat
  BY <1>1 DEF ThreadOrder
<1>2. CASE \E n, s : LoopingOn(n, s)
  <2>1. PICK n, s : LoopingOn(n, s)
    BY <1>2
  <2> QED BY <2>1, ThreadLoopsOn
<1>3. CASE Receive /\ heartbeat.mShouldRun
  <2>1. /\ heartbeat.at = "receive"
        /\ heartbeat' = [heartbeat EXCEPT !.at = "reply", !.timer = 0, !.fails = 0]
    BY <1>3 DEF Receive
  <2>2. /\ heartbeat' \in HeartbeatState /\ heartbeat'.at = "reply" /\ heartbeat'.fails = 0
        /\ heartbeat'.thread = heartbeat.thread
    BY <1>a, <2>1, InSets, Sets
  <2> QED BY <2>1, <2>2, Times DEF ThreadOrder
<1>4. CASE StartHeartbeat
  <2>1. CASE UNCHANGED heartbeat
    BY <1>1, <2>1
  <2>2. CASE heartbeat' # heartbeat
    <3> DEFINE t == Started(heartbeat.thread)
    <3>1. heartbeat' = [heartbeat EXCEPT !.at = "init", !.thread = t]
      BY <1>4, <2>2 DEF StartHeartbeat
    <3>2. t \in ThreadObject /\ t.mRunning /\ t.mStopDead = FALSE
      BY <1>a, ThreadTyped
    <3> HIDE DEF t
    <3>3. /\ heartbeat' \in HeartbeatState /\ heartbeat'.at = "init" /\ heartbeat'.thread = t
      BY <1>a, <3>1, <3>2, Sets
    <3> QED BY <3>2, <3>3 DEF ThreadOrder
  <2> QED BY <2>1, <2>2
<1>5. CASE Watch
  <2>1. CASE UNCHANGED heartbeat
    BY <1>1, <2>1
  <2>2. CASE heartbeat' # heartbeat
    <3> DEFINE t == ResetThread(heartbeat.thread)
               yes == TRUE
    <3>1. /\ ~ heartbeat.thread.mRunning
          /\ heartbeat' = [heartbeat EXCEPT !.thread = t, !.mShouldRun = yes]
      BY <1>5, <2>2 DEF Watch, Reset
    <3>2. /\ t \in ThreadObject /\ ~ t.mRunning /\ t.mStopDead = FALSE
          /\ yes \in BOOLEAN
      BY <1>a, <3>1, ThreadTyped
    <3> HIDE DEF t, yes
    <3>3. /\ heartbeat' \in HeartbeatState /\ heartbeat'.at = heartbeat.at
          /\ heartbeat'.thread = t
      BY <1>a, <3>1, <3>2, Sets
    <3>4. heartbeat.at = "none"
      BY <3>1 DEF ThreadOrder
    <3> QED BY <3>2, <3>3, <3>4 DEF ThreadOrder
  <2> QED BY <2>1, <2>2
<1>6. CASE heartbeat' = NewHeartbeat
  <2> DEFINE yes == TRUE
             t == NewThread
  <2>1. heartbeat' = [at |-> "none", timer |-> 0, fails |-> 0, mShouldRun |-> yes, thread |-> t]
    BY <1>6 DEF NewHeartbeat, NoControl
  <2>2. yes \in BOOLEAN /\ t \in ThreadObject /\ ~ t.mRunning /\ t.mStopDead = FALSE
    BY ThreadTyped DEF NewThread
  <2> HIDE DEF yes, t
  <2>3. heartbeat' \in HeartbeatState
    BY <2>1, <2>2, InSets, Sets
  <2>4. heartbeat'.at = "none" /\ heartbeat'.thread = t
    BY <2>1
  <2> QED BY <2>2, <2>3, <2>4 DEF ThreadOrder
<1>7. CASE Joined \/ DaemonDies \/ DirectorDies
  BY <1>1, <1>6, <1>7 DEF Joined, DaemonDies, DirectorDies, Gone
<1>8. CASE Suggest \/ Shutdown
  <2> DEFINE no == FALSE
  <2>1. heartbeat' = [heartbeat EXCEPT !.mShouldRun = no] /\ no \in BOOLEAN
    BY <1>8 DEF Suggest, Shutdown, Stopped
  <2> HIDE DEF no
  <2>2. /\ heartbeat' \in HeartbeatState /\ heartbeat'.at = heartbeat.at
        /\ heartbeat'.timer = heartbeat.timer /\ heartbeat'.fails = heartbeat.fails
        /\ heartbeat'.thread = heartbeat.thread
    BY <1>a, <2>1, Sets
  <2> QED BY <2>2 DEF ThreadOrder
<1>9. CASE Tick
  <2> DEFINE t == Pass(heartbeat.timer)
  <2>1. t \in Clock /\ t <= heartbeat.timer /\ heartbeat.timer \in Nat
    BY <1>a, PassTyped
  <2>2. t \in Nat
    BY <2>1, PassTyped
  <2>3. heartbeat' = [heartbeat EXCEPT !.timer = t]
    BY <1>9 DEF Tick
  <2> HIDE DEF t
  <2>4. /\ heartbeat' \in HeartbeatState /\ heartbeat'.at = heartbeat.at
        /\ heartbeat'.timer = t /\ heartbeat'.fails = heartbeat.fails
        /\ heartbeat'.thread = heartbeat.thread
    BY <1>a, <2>1, <2>3, Sets
  <2>5. heartbeat.at = "receive" => t <= RecvTimeout
    BY <2>1, <2>2, Times DEF ThreadOrder
  <2> QED BY <2>4, <2>5 DEF ThreadOrder
<1>10. CASE Thread \/ PingInterrupted \/ PingFails
  BY <1>2, <1>3, <1>10, LoopingSteps
<1> QED BY <1>1, <1>4, <1>5, <1>7, <1>8, <1>9, <1>10
        DEF Next, Control, Main, Fault, InitControl, Awake, Ping, Replied, ReplyTimesOut,
            ReplyInterrupted, ControlThrows, Register, Retry, DaemonStarts, DirectorStarts, Late

-----------------------------------------------------------------------------
(* The rest of the state.                                                  *)

Delays == [{"ping", "reply", "stranger"} -> Nat]
Sides == {"director", "daemon"}
Hurts == [Sides -> Nat]

Boxes ==
  /\ directing \in BOOLEAN /\ main \in MainState /\ faults \in Nat
  /\ servant \in {"free", "waits"}
  /\ replies \in Seq(AtController) /\ pings \in Seq(AtHeartbeat)
  /\ late \in Delays /\ hurt \in Hurts

\* Between two of its registrations a daemon has no heartbeat thread; a socket
\* that is not bound keeps nothing; what a thread answers is there, and what wakes
\* one that should stop.
Rest ==
  /\ main.at \in {"register", "calls", "retry", "start", "down"} =>
       heartbeat.at = "none" /\ ~ heartbeat.thread.mSpent
  /\ ~ Bound => pings = <<>>
  /\ heartbeat.at = "reply" => pings # <<>>
  /\ heartbeat.at = "receive" /\ ~ heartbeat.mShouldRun => pings # <<>>

LEMMA AtTyped ==
  ASSUME NEW a \in {"down", "register", "calls", "retry", "start", "watch", "stopping"},
         NEW t \in Clock
  PROVE  At(a, t) \in MainState /\ At(a, t).at = a /\ At(a, t).timer = t
BY Sets DEF At

\* Every step keeps the types of the rest.
LEMMA MainTyped ==
  ASSUME main \in MainState, Next
  PROVE  main' \in MainState
<1>1. main.timer \in Clock
  BY Sets
<1>2. CASE UNCHANGED main
  BY <1>2
<1>3. CASE Tick
  <2> DEFINE t == Pass(main.timer)
  <2>1. t \in Clock /\ main' = [main EXCEPT !.timer = t]
    BY <1>1, <1>3, PassTyped DEF Tick
  <2> HIDE DEF t
  <2> QED BY <2>1, Sets
<1>4. CASE (Register \/ Retry \/ StartHeartbeat \/ Watch \/ Joined \/ Shutdown \/ DaemonDies
           \/ DaemonStarts \/ InitControl \/ DirectorDies) /\ main' # main
  <2>1. \E a \in {"down", "register", "calls", "retry", "start", "watch", "stopping"}, t \in Clock :
          main' = At(a, t)
    BY <1>4, InSets DEF Register, Retry, StartHeartbeat, Watch, Joined, Shutdown, DaemonDies,
         DaemonStarts, InitControl, DirectorDies, Gone
  <2> QED BY <2>1, AtTyped
<1> QED BY <1>2, <1>3, <1>4
        DEF Next, Control, Thread, Main, Fault, Awake, Ping, Replied, ReplyTimesOut,
            ReplyInterrupted, ControlThrows, DirectorStarts, Late, InitHeartbeat, Receive, Reply,
            PingTimesOut, PingInterrupted, PingFails, Suggest

LEMMA EmptyTyped == \A S : <<>> \in Seq(S)
OBVIOUS

\* What a datagram that is sent may do.
LEMMA SentTyped ==
  ASSUME NEW S, NEW kind \in S, NEW box \in Seq(S), NEW open \in BOOLEAN, NEW after,
         kind \in {"ping", "reply"}, late \in Delays, hurt \in Hurts, faults \in Nat,
         \/ /\ after = IF open THEN Append(box, kind) ELSE box
            /\ UNCHANGED <<late, faults, hurt>>
         \/ /\ Happens /\ hurt' = [s \in {"director", "daemon"} |-> hurt[s] + 1]
            /\ late' \in {late, [late EXCEPT ![kind] = @ + 1]}
            /\ after = box
  PROVE  after \in Seq(S) /\ late' \in Delays /\ hurt' \in Hurts /\ faults' \in Nat
<1>1. CASE /\ after = IF open THEN Append(box, kind) ELSE box
           /\ UNCHANGED <<late, faults, hurt>>
  BY <1>1, OneMore
<1>2. CASE /\ Happens /\ hurt' = [s \in {"director", "daemon"} |-> hurt[s] + 1]
           /\ late' \in {late, [late EXCEPT ![kind] = @ + 1]}
           /\ after = box
  <2>1. hurt' \in Hurts
    BY <1>2 DEF Hurts, Sides
  <2>2. late' \in Delays
    BY <1>2 DEF Delays
  <2>3. faults' \in Nat
    BY <1>2 DEF Happens
  <2> QED BY <1>2, <2>1, <2>2, <2>3
<1> QED BY <1>1, <1>2

LEMMA BoxesTyped ==
  ASSUME Boxes, Rest, Next
  PROVE  Boxes'
<1>1. main' \in MainState
  BY MainTyped DEF Boxes
<1>2. directing' \in BOOLEAN
  BY DEF Boxes, Next, Control, Thread, Main, Fault, InitControl, Awake, Ping, Replied,
       ReplyTimesOut, ReplyInterrupted, ControlThrows, DirectorDies, DirectorStarts, Late,
       InitHeartbeat, Receive, Reply, PingTimesOut, PingInterrupted, PingFails, Suggest,
       Register, Retry, StartHeartbeat, Watch, Joined, Shutdown, DaemonDies, DaemonStarts, Tick
<1>2a. servant' \in {"free", "waits"}
  BY DEF Boxes, Next, Control, Thread, Main, Fault, InitControl, Awake, Ping, Replied,
       ReplyTimesOut, ReplyInterrupted, ControlThrows, DirectorDies, DirectorStarts, Late,
       InitHeartbeat, Receive, Reply, PingTimesOut, PingInterrupted, PingFails, Suggest,
       Register, Retry, StartHeartbeat, Watch, Joined, Shutdown, DaemonDies, DaemonStarts, Tick
<1>a. ASSUME replies' \in Seq(AtController), pings' \in Seq(AtHeartbeat), late' \in Delays,
             hurt' \in Hurts, faults' \in Nat
      PROVE  Boxes'
  BY <1>1, <1>2, <1>2a, <1>a DEF Boxes
<1>b. /\ replies \in Seq(AtController) /\ pings \in Seq(AtHeartbeat)
      /\ late \in Delays /\ hurt \in Hurts /\ faults \in Nat
      /\ <<>> \in Seq(AtController) /\ <<>> \in Seq(AtHeartbeat)
  BY EmptyTyped DEF Boxes
<1>c. ASSUME NEW s \in Sides PROVE [hurt EXCEPT ![s] = 0] \in Hurts
  BY <1>b, <1>c DEF Hurts, Sides
<1>d. replies # <<>> => Tail(replies) \in Seq(AtController)
  BY <1>b, OneLess
<1>e. pings # <<>> => Tail(pings) \in Seq(AtHeartbeat)
  BY <1>b, OneLess
<1>f. Happens => faults' \in Nat
  BY <1>b DEF Happens
<1>3. CASE UNCHANGED <<replies, pings, late, hurt>> /\ (Happens \/ UNCHANGED faults)
  BY <1>3, <1>a, <1>b, <1>f
<1>4. ASSUME replies' = <<>>,
             late' = [late EXCEPT !["reply"] = 0, !["ping"] = 0,
                                  !["stranger"] = @ + late["ping"]]
      PROVE  replies' \in Seq(AtController) /\ late' \in Delays
  BY <1>4, <1>b DEF Delays
<1>5. CASE InitControl \/ Awake \/ ControlThrows \/ DirectorDies
  <2>1. /\ pings' \in {pings, <<>>} /\ UNCHANGED hurt /\ (Happens \/ UNCHANGED faults)
        /\ \/ UNCHANGED <<replies, late>>
           \/ /\ replies' = <<>>
              /\ late' = [late EXCEPT !["reply"] = 0, !["ping"] = 0,
                                      !["stranger"] = @ + late["ping"]]
    BY <1>5 DEF InitControl, Awake, ControlThrows, DirectorDies, ControlEnds, Gone
  <2> QED BY <2>1, <1>a, <1>b, <1>f, <1>4
<1>6. CASE Ping
  <2>1. Bound \in BOOLEAN
    BY DEF Bound
  <2>2. /\ \/ /\ pings' = IF Bound THEN Append(pings, "ping") ELSE pings
              /\ UNCHANGED <<late, faults, hurt>>
           \/ /\ Happens /\ hurt' = [s \in {"director", "daemon"} |-> hurt[s] + 1]
              /\ late' \in {late, [late EXCEPT !["ping"] = @ + 1]}
              /\ pings' = pings
        /\ UNCHANGED replies
    BY <1>6 DEF Ping, Sent
  <2>3. pings' \in Seq(AtHeartbeat) /\ late' \in Delays /\ hurt' \in Hurts /\ faults' \in Nat
    <3> DEFINE open == Bound
    <3> HIDE DEF open
    <3>1. "ping" \in AtHeartbeat
      BY DEF AtHeartbeat
    <3> QED BY <1>b, <2>1, <2>2, <3>1, SentTyped
  <2> QED BY <1>a, <1>b, <2>2, <2>3
<1>7. CASE Replied
  <2>1. /\ replies # <<>> /\ replies' = Tail(replies) /\ UNCHANGED <<pings, late, faults>>
        /\ hurt' \in {hurt, [hurt EXCEPT !["director"] = 0]}
    BY <1>7 DEF Replied
  <2>2. hurt' \in Hurts
    BY <2>1, <1>b, <1>c DEF Sides
  <2> QED BY <1>a, <1>b, <1>d, <2>1, <2>2
<1>8. CASE Receive
  <2>1. /\ pings # <<>> /\ pings' \in {pings, Tail(pings)} /\ UNCHANGED <<replies, late, faults>>
        /\ hurt' \in {hurt, [hurt EXCEPT !["daemon"] = 0]}
    BY <1>8 DEF Receive
  <2>2. hurt' \in Hurts
    BY <2>1, <1>b, <1>c DEF Sides
  <2> QED BY <1>a, <1>b, <1>e, <2>1, <2>2
<1>9. CASE Reply
  <2>1. Listening \in BOOLEAN
    BY DEF Listening
  <2>2. /\ \/ UNCHANGED <<replies, late, faults, hurt>>
           \/ /\ replies' = IF Listening THEN Append(replies, "reply") ELSE replies
              /\ UNCHANGED <<late, faults, hurt>>
           \/ /\ Happens /\ hurt' = [s \in {"director", "daemon"} |-> hurt[s] + 1]
              /\ late' \in {late, [late EXCEPT !["reply"] = @ + 1]}
              /\ replies' = replies
        /\ pings' = Tail(pings) /\ heartbeat.at = "reply"
    BY <1>9 DEF Reply, Sent
  <2>3. replies' \in Seq(AtController) /\ late' \in Delays /\ hurt' \in Hurts /\ faults' \in Nat
    <3>1. "reply" \in AtController
      BY DEF AtController
    <3>2. CASE UNCHANGED <<replies, late, faults, hurt>>
      BY <3>2, <1>b
    <3>3. CASE ~ UNCHANGED <<replies, late, faults, hurt>>
      BY <1>b, <2>1, <2>2, <3>1, <3>3, SentTyped
    <3> QED BY <3>2, <3>3
  <2>4. pings' \in Seq(AtHeartbeat)
    BY <1>e, <2>2 DEF Rest
  <2> QED BY <1>a, <2>3, <2>4
<1>10. CASE Register
  <2>1. hurt' \in {hurt, [s \in {"director", "daemon"} |-> 0]}
    BY <1>10 DEF Register
  <2>2. hurt' \in Hurts
    BY <2>1, <1>b DEF Hurts, Sides
  <2> QED BY <1>10, <1>a, <1>b, <2>2 DEF Register
<1>11. CASE Suggest \/ Shutdown
  <2>1. /\ pings' \in {pings, Append(pings, "die")} /\ Happens
        /\ UNCHANGED <<replies, late, hurt>>
    BY <1>11 DEF Suggest, Shutdown, Stopped
  <2>2. Append(pings, "die") \in Seq(AtHeartbeat)
    BY <1>b, OneMore DEF AtHeartbeat
  <2> QED BY <1>a, <1>b, <1>f, <2>1, <2>2
<1>12. CASE Watch \/ Joined \/ DaemonDies
  <2>1. /\ pings' \in {pings, <<>>} /\ (Happens \/ UNCHANGED faults)
        /\ UNCHANGED <<replies, late, hurt>>
    BY <1>12 DEF Watch, Joined, DaemonDies, Gone
  <2> QED BY <1>a, <1>b, <1>f, <2>1
<1>13. CASE Late
  <2>1. /\ pings' \in {pings, Append(pings, "lateping"), Append(pings, "stranger")}
        /\ replies' \in {replies, Append(replies, "latereply")}
        /\ UNCHANGED <<faults, hurt>>
        /\ \E k \in {"ping", "reply", "stranger"} :
             late[k] > 0 /\ late' = [late EXCEPT ![k] = @ - 1]
    BY <1>13 DEF Late, Arrives
  <2>2. late' \in Delays
    <3>1. PICK k \in {"ping", "reply", "stranger"} :
             late[k] > 0 /\ late' = [late EXCEPT ![k] = @ - 1]
      BY <2>1
    <3>2. late[k] - 1 \in Nat
      BY <1>b, <3>1 DEF Delays
    <3> QED BY <1>b, <3>1, <3>2 DEF Delays
  <2>3. /\ Append(pings, "lateping") \in Seq(AtHeartbeat)
        /\ Append(pings, "stranger") \in Seq(AtHeartbeat)
    BY <1>b, OneMore DEF AtHeartbeat
  <2>4. Append(replies, "latereply") \in Seq(AtController)
    BY <1>b, OneMore DEF AtController
  <2> QED BY <1>a, <1>b, <2>1, <2>2, <2>3, <2>4
<1> QED BY <1>3, <1>5, <1>6, <1>7, <1>8, <1>9, <1>10, <1>11, <1>12, <1>13
        DEF Next, Control, Thread, Main, Fault, ReplyTimesOut,
            ReplyInterrupted, DirectorStarts, InitHeartbeat,
            PingTimesOut, PingInterrupted, PingFails, Retry, StartHeartbeat, DaemonStarts, Tick

LEMMA LoopsHave ==
  ASSUME NEW n, NEW s, LoopingOn(n, s)
  PROVE  UNCHANGED <<directing, control, main>>
BY DEF LoopingOn, InitHeartbeat, Receive, Reply, PingTimesOut, PingInterrupted, PingFails

\* While the main thread is there, there is no heartbeat thread.
Between == {"register", "calls", "retry", "start", "down"}

\* Every step keeps what is known of the rest.
LEMMA RestKept ==
  ASSUME ThreadOrder(heartbeat), Boxes, Rest, Next
  PROVE  Rest'
<1>a. /\ heartbeat.thread \in ThreadObject /\ heartbeat \in HeartbeatState
      /\ heartbeat.mShouldRun \in BOOLEAN
  BY ThreadFields DEF ThreadOrder
<1>b. pings \in Seq(AtHeartbeat) /\ main \in MainState
  BY DEF Boxes
<1>c. \A d \in AtHeartbeat : Append(pings, d) # <<>>
  BY <1>b, OneMore
<1>1. ASSUME heartbeat'.at = heartbeat.at, heartbeat'.thread = heartbeat.thread,
             main'.at \in Between => main.at \in Between,
             \/ UNCHANGED pings
             \/ \E d \in AtHeartbeat : pings' = IF Bound THEN Append(pings, d) ELSE pings,
             \/ heartbeat.mShouldRun => heartbeat'.mShouldRun
             \/ \E d \in AtHeartbeat : pings' = IF Bound THEN Append(pings, d) ELSE pings
      PROVE  Rest'
  <2>1. Bound' <=> Bound
    BY <1>1 DEF Bound
  <2>2. (~ Bound' => pings' = <<>>) /\ (heartbeat'.at = "reply" => pings' # <<>>)
    BY <1>1, <1>c, <2>1 DEF Rest
  <2>3. heartbeat'.at = "receive" /\ ~ heartbeat'.mShouldRun => pings' # <<>>
    BY <1>1, <1>c DEF Rest, Bound
  <2> QED BY <1>1, <2>2, <2>3 DEF Rest, Between
<1>2. CASE \E n, s : LoopingOn(n, s)
  <2>1. PICK n, s : LoopingOn(n, s)
    BY <1>2
  <2>2. /\ s \in BOOLEAN /\ heartbeat.at # "none" /\ UNCHANGED main
    BY <2>1, ThreadGoesOn, LoopsHave
  <2>3. \/ heartbeat'.at = "receive" /\ heartbeat'.mShouldRun
        \/ heartbeat'.at = "none" /\ heartbeat'.thread.mSpent
    BY <2>1, <2>2, ThreadLoopsOn
  <2> QED BY <2>2, <2>3 DEF Rest, Bound
<1>3. CASE Receive /\ heartbeat.mShouldRun
  <2>1. /\ heartbeat.at = "receive" /\ heartbeat'.at = "reply" /\ UNCHANGED <<main, pings>>
        /\ pings # <<>>
    BY <1>3, <1>a, Sets DEF Receive
  <2> QED BY <2>1 DEF Rest, Bound
<1>4. CASE InitControl \/ Awake \/ Replied \/ ReplyTimesOut \/ ReplyInterrupted
             \/ ControlThrows \/ DirectorStarts
  <2>1. /\ UNCHANGED <<heartbeat, pings>>
        /\ UNCHANGED main \/ main.at \in Between
    BY <1>4 DEF InitControl, Awake, Replied, ReplyTimesOut, ReplyInterrupted, ControlThrows,
         DirectorStarts, Between
  <2> QED BY <1>1, <2>1
<1>5. CASE Ping \/ Late
  <2>1. /\ UNCHANGED <<heartbeat, main>>
        /\ \/ UNCHANGED pings
           \/ \E d \in AtHeartbeat : pings' = IF Bound THEN Append(pings, d) ELSE pings
    BY <1>5 DEF Ping, Late, Arrives, Sent, AtHeartbeat
  <2> QED BY <1>1, <2>1
<1>6. CASE Register \/ Retry \/ DaemonStarts
  <2>1. UNCHANGED <<heartbeat, pings>> /\ main.at \in Between
    BY <1>6 DEF Register, Retry, DaemonStarts, Between
  <2> QED BY <1>1, <2>1
<1>7. CASE StartHeartbeat
  <2>1. /\ main'.at = "watch" /\ UNCHANGED pings /\ main.at = "start"
    BY <1>7, InSets, AtTyped DEF StartHeartbeat
  <2>2. /\ heartbeat.at = "none" /\ ~ heartbeat.thread.mSpent /\ pings = <<>>
    BY <2>1 DEF Rest, Bound
  <2>3. heartbeat'.at \in {"none", "init"}
    BY <1>7, <1>a, <2>2, Sets DEF StartHeartbeat
  <2> QED BY <2>1, <2>2, <2>3 DEF Rest
<1>8. CASE Watch
  <2>1. CASE heartbeat.thread.mRunning
    <3>1. UNCHANGED <<heartbeat, pings>> /\ main'.at = "watch"
      BY <1>8, <2>1, InSets, AtTyped DEF Watch
    <3> QED BY <1>1, <3>1 DEF Between
  <2>2. CASE ~ heartbeat.thread.mRunning
    <3>1. heartbeat' = Reset(heartbeat) /\ pings' = <<>>
      BY <1>8, <2>2 DEF Watch
    <3>2. heartbeat'.at = heartbeat.at /\ heartbeat'.thread = ResetThread(heartbeat.thread)
      BY <1>a, <3>1, Sets DEF Reset
    <3>3. heartbeat.at = "none" /\ ~ ResetThread(heartbeat.thread).mSpent
      BY <1>a, <2>2, ThreadTyped DEF ThreadOrder
    <3> QED BY <3>1, <3>2, <3>3 DEF Rest, Bound
  <2> QED BY <2>1, <2>2
<1>9a. CASE DirectorDies /\ UNCHANGED <<heartbeat, main, pings>>
  BY <1>1, <1>9a
<1>9. CASE Joined \/ DaemonDies \/ (DirectorDies /\ Gone)
  <2>1. heartbeat' = NewHeartbeat /\ pings' = <<>>
    BY <1>9 DEF Joined, DaemonDies, Gone
  <2>2. heartbeat'.at = "none" /\ ~ heartbeat'.thread.mSpent
    BY <2>1, ThreadTyped DEF NewHeartbeat, NoControl
  <2> QED BY <2>1, <2>2 DEF Rest, Bound
<1>10. CASE Suggest \/ Shutdown
  <2>1. /\ heartbeat'.at = heartbeat.at /\ heartbeat'.thread = heartbeat.thread
    BY <1>10, <1>a, Sets DEF Suggest, Shutdown, Stopped
  <2>2. \E d \in AtHeartbeat : pings' = IF Bound THEN Append(pings, d) ELSE pings
    BY <1>10 DEF Suggest, Shutdown, Stopped, AtHeartbeat
  <2>3. UNCHANGED main \/ main'.at = "stopping"
    BY <1>10, InSets, AtTyped DEF Suggest, Shutdown
  <2> QED BY <1>1, <2>1, <2>2, <2>3 DEF Between
<1>11. CASE Tick
  <2>1. /\ heartbeat'.at = heartbeat.at /\ heartbeat'.thread = heartbeat.thread
        /\ heartbeat'.mShouldRun = heartbeat.mShouldRun
        /\ main'.at = main.at /\ UNCHANGED pings
    BY <1>11, <1>a, <1>b, Sets DEF Tick
  <2> QED BY <1>1, <2>1
<1>12. CASE Thread \/ PingInterrupted \/ PingFails
  BY <1>2, <1>3, <1>12, LoopingSteps
<1> QED BY <1>4, <1>5, <1>6, <1>7, <1>8, <1>9, <1>9a, <1>10, <1>11, <1>12
        DEF Next, Control, Main, Fault, DirectorDies

\* A controller that has sent no ping yet.
Soon == control.at = "init" \/ (control.at = "warm" /\ control.timer = WarmUp)

\* It sends its first ping only when the daemon's socket is bound.
Fresh ==
  control.thread.mRunning /\ (main.at = "start" \/ heartbeat.at = "init") => Soon

\* Every step keeps the first ping waiting for the socket.
LEMMA FreshKept ==
  ASSUME ControlOrder(control), ThreadOrder(heartbeat), Boxes, Rest, Fresh, Next
  PROVE  Fresh'
<1>a. /\ control \in ControlState /\ heartbeat \in HeartbeatState /\ main \in MainState
      /\ ThreadOrder(heartbeat')
  BY ThreadOrderly DEF ControlOrder, ThreadOrder, Boxes, Rest
<1>1. ASSUME UNCHANGED control, main'.at = "start" => main.at = "start",
             heartbeat'.at = "init" => heartbeat.at = "init" \/ main.at = "start"
      PROVE  Fresh'
  BY <1>1 DEF Fresh, Soon
<1>2. ASSUME ~ control'.thread.mRunning PROVE Fresh'
  BY <1>2 DEF Fresh
<1>3. ASSUME NEW c \in ControlState, c.thread.mStopDead = FALSE,
             c.mShouldRun => c.fails < DirectorFails, ControlEnds(c)
      PROVE  Fresh'
  BY <1>2, <1>3, ControlEnded
<1>3a. CASE ControlThrows
  BY <1>3, <1>3a DEF ControlThrows, ControlOrder
<1>4. CASE Register
  <2>1. CASE ~ directing \/ control.thread.mRunning
    <3>1. UNCHANGED <<control, heartbeat>> /\ main' = At("retry", RetrySleep)
      BY <1>4, <2>1 DEF Register
    <3>2. heartbeat.at = "none" /\ main'.at # "start"
      BY <1>4, <3>1, InSets, AtTyped DEF Register, Rest
    <3> QED BY <1>1, <3>1, <3>2
  <2>2. CASE ~ (~ directing \/ control.thread.mRunning)
    <3>1. control'.at = "init"
      BY <1>4, <2>2 DEF Register, NoControl
    <3> QED BY <3>1 DEF Fresh, Soon
  <2> QED BY <2>1, <2>2
<1>5. CASE InitControl
  <2>1. CASE main.at = "down"
    BY <1>3, <1>5, <2>1 DEF InitControl, ControlOrder
  <2>2. CASE main.at # "down"
    <3>1. control'.at = "warm" /\ control'.timer = WarmUp
      BY <1>5, <2>2, <1>a, Sets DEF InitControl
    <3> QED BY <3>1 DEF Fresh, Soon
  <2> QED BY <2>1, <2>2
<1>6. ASSUME UNCHANGED <<heartbeat, main>>, ~ Soon, control.at # "none" PROVE Fresh'
  <2>1. control.thread.mRunning
    BY <1>6 DEF ControlOrder
  <2> QED BY <1>6, <2>1 DEF Fresh
<1>7. CASE Awake
  <2>1. CASE ~ control.mShouldRun
    BY <1>3, <1>7, <2>1 DEF Awake, ControlOrder
  <2>2. CASE control.mShouldRun
    <3>1. UNCHANGED <<heartbeat, main>> /\ ~ Soon /\ control.at # "none"
      BY <1>7, Times DEF Awake, Soon
    <3> QED BY <1>6, <3>1
  <2> QED BY <2>1, <2>2
<1>8. CASE Ping \/ Replied \/ ReplyTimesOut \/ ReplyInterrupted
  <2>1. UNCHANGED <<heartbeat, main>> /\ ~ Soon /\ control.at # "none"
    BY <1>8 DEF Ping, Replied, ReplyTimesOut, ReplyInterrupted, Soon
  <2> QED BY <1>6, <2>1
<1>9. CASE DirectorDies
  <2> DEFINE no == FALSE
             d == [control EXCEPT !.mShouldRun = no]
  <2>1. ControlEnds(d) /\ no \in BOOLEAN /\ ~ no
    BY <1>9 DEF DirectorDies
  <2> HIDE DEF no
  <2>2. d \in ControlState /\ d.thread = control.thread /\ d.mShouldRun = no
    BY <1>a, <2>1, Sets
  <2> HIDE DEF d
  <2> QED BY <1>3, <2>1, <2>2 DEF ControlOrder
<1>10. CASE DirectorStarts
  <2>1. ~ control'.thread.mRunning
    BY <1>10, ThreadTyped DEF DirectorStarts, NoControl
  <2> QED BY <1>2, <2>1
<1>11. CASE Tick
  <2>1. main'.at = main.at /\ heartbeat'.at = heartbeat.at /\ Quiet
    BY <1>11, <1>a, Sets DEF Tick
  <2> QED BY <2>1 DEF Fresh, Quiet
<1>12. CASE \E n, s : LoopingOn(n, s)
  <2>1. PICK n, s : LoopingOn(n, s)
    BY <1>12
  <2>2. s \in BOOLEAN /\ UNCHANGED <<control, main>>
    BY <2>1, ThreadGoesOn, LoopsHave
  <2>3. heartbeat'.at # "init"
    BY <2>1, <2>2, ThreadLoopsOn
  <2> QED BY <1>1, <2>2, <2>3
<1>13. CASE Receive /\ heartbeat.mShouldRun
  <2>1. heartbeat'.at = "reply" /\ UNCHANGED <<control, main>>
    BY <1>13, <1>a, Sets DEF Receive
  <2> QED BY <1>1, <2>1
<1>14. CASE Thread \/ PingInterrupted \/ PingFails
  BY <1>12, <1>13, <1>14, LoopingSteps
<1>15. CASE StartHeartbeat
  <2>1. UNCHANGED control /\ main.at = "start" /\ main'.at = "watch"
    BY <1>15, InSets, AtTyped DEF StartHeartbeat
  <2> QED BY <1>1, <2>1
<1>16. CASE Retry \/ Watch \/ Joined \/ Suggest \/ Shutdown \/ DaemonDies \/ DaemonStarts
  <2>1. UNCHANGED control /\ (main'.at # "start" \/ UNCHANGED main)
    BY <1>16, InSets, AtTyped
       DEF Retry, Watch, Joined, Suggest, Shutdown, DaemonDies, DaemonStarts, Gone
  <2>2. heartbeat'.at = "none" \/ heartbeat'.at = heartbeat.at
    <3>1. \/ UNCHANGED heartbeat
          \/ heartbeat' = Reset(heartbeat)
          \/ heartbeat' = [heartbeat EXCEPT !.mShouldRun = FALSE]
          \/ heartbeat' = NewHeartbeat
      BY <1>16 DEF Retry, Watch, Joined, Suggest, Shutdown, DaemonDies, DaemonStarts, Gone,
           Stopped
    <3>2. heartbeat' = Reset(heartbeat) => heartbeat'.at = heartbeat.at
      BY <1>a, Sets DEF Reset
    <3>3. heartbeat' = [heartbeat EXCEPT !.mShouldRun = FALSE] => heartbeat'.at = heartbeat.at
      BY <1>a, Sets
    <3>4. heartbeat' = NewHeartbeat => heartbeat'.at = "none"
      BY DEF NewHeartbeat, NoControl
    <3> QED BY <3>1, <3>2, <3>3, <3>4
  <2> QED BY <1>1, <2>1, <2>2
<1>17. CASE Late
  BY <1>17, <1>1 DEF Late
<1> QED BY <1>3a, <1>4, <1>5, <1>7, <1>8, <1>9, <1>10, <1>11, <1>14, <1>15, <1>16, <1>17
        DEF Next, Control, Main, Fault

-----------------------------------------------------------------------------
(* What each side has counted.                                             *)

Failed(n) == n * RecvTimeout
Lost(n) == n * (RecvTimeout + Pulse)

LEMMA Products ==
  /\ \A n \in Nat : /\ Failed(n) \in Nat /\ Failed(n + 1) = Failed(n) + RecvTimeout
                    /\ Lost(n) \in Nat /\ Lost(n + 1) = Lost(n) + (RecvTimeout + Pulse)
  /\ Failed(0) = 0 /\ Lost(0) = 0
<1>1. RecvTimeout \in Nat /\ RecvTimeout + Pulse \in Nat
  BY Times
<1>2. ASSUME NEW n \in Nat, NEW t \in Nat
      PROVE  n * t \in Nat /\ (n + 1) * t = n * t + t /\ 0 * t = 0
  BY <1>2
<1> QED BY <1>1, <1>2 DEF Failed, Lost

\* The controller has counted only what went wrong; what it waits for comes in time.
HeardEnough ==
  /\ control.fails <= hurt["director"]
  /\ control.at = "wait" =>
       \/ control.fails < hurt["director"]
       \/ replies # <<>>
       \/ control.timer = RecvTimeout /\ Coming(pings)
Heard == InTouch => HeardEnough

\* How long the heartbeat thread has waited, how long it has at most to wait for
\* the controller's next ping, and what it has been promised.
Waited ==
  IF heartbeat.at = "receive" /\ pings = <<>>
  THEN Failed(heartbeat.fails) + (RecvTimeout - heartbeat.timer) ELSE 0
Ahead ==
  CASE control.at = "init" -> WarmUp
    [] control.at \in {"warm", "pause"} -> control.timer
    [] control.at = "wait" -> IF replies # <<>> \/ Coming(pings) THEN Pulse
                              ELSE control.timer + Pulse
    [] control.at \in {"none", "ping"} -> 0
Due == Later(WarmUp, Pulse) + Lost(hurt["daemon"])
Pinged == InTouch => Waited + Ahead <= Due

\* All these are numbers, and the next ping comes in time.
LEMMA Numbers ==
  ASSUME ControlOrder(control), ThreadOrder(heartbeat), Boxes
  PROVE  /\ control.fails \in Nat /\ control.timer \in Nat
         /\ heartbeat.fails \in Nat /\ heartbeat.timer \in Nat
         /\ hurt["director"] \in Nat /\ hurt["daemon"] \in Nat
         /\ Waited \in Nat /\ Ahead \in Nat /\ Due \in Nat
         /\ control.at # "wait" => Ahead <= Later(WarmUp, Pulse)
         /\ control.at = "wait" => Ahead <= RecvTimeout + Pulse
         /\ control.at = "wait" /\ (replies # <<>> \/ Coming(pings))
              => Ahead = Pulse /\ Ahead <= Later(WarmUp, Pulse)
         /\ Later(WarmUp, Pulse) <= Due /\ WarmUp <= Later(WarmUp, Pulse)
         /\ Pulse <= Later(WarmUp, Pulse)
         /\ WarmUp \in Nat /\ Pulse \in Nat /\ RecvTimeout \in Nat /\ RecvTimeout # 0
         /\ Later(WarmUp, Pulse) \in Nat
<1>1. /\ control.at \in {"none", "init", "warm", "ping", "wait", "pause"}
      /\ control.timer \in Clock /\ control.fails \in ControlFails
      /\ heartbeat.timer \in Clock /\ heartbeat.fails \in ThreadFails
  BY ControlFields, ThreadFields DEF ControlOrder, ThreadOrder
<1>2. /\ control.fails \in Nat /\ control.timer \in Nat
      /\ heartbeat.fails \in Nat /\ heartbeat.timer \in Nat
  BY <1>1, Counted, PassTyped
<1>3. hurt["director"] \in Nat /\ hurt["daemon"] \in Nat
  BY DEF Boxes, Hurts, Sides
<1>4. WarmUp \in Nat /\ Pulse \in Nat /\ RecvTimeout \in Nat /\ RecvTimeout # 0
  BY Times
<1> DEFINE b == Later(WarmUp, Pulse)
<1>5. b \in Nat /\ WarmUp <= b /\ Pulse <= b
  BY <1>4 DEF Later
<1>6. Lost(hurt["daemon"]) \in Nat /\ Failed(heartbeat.fails) \in Nat
  BY <1>2, <1>3, Products
<1>7. Due = b + Lost(hurt["daemon"])
  BY DEF Due
<1> HIDE DEF b
<1>8. Due \in Nat /\ b <= Due
  BY <1>5, <1>6, <1>7
<1>9. Waited \in Nat
  <2>1. heartbeat.at = "receive" => heartbeat.timer <= RecvTimeout
    BY DEF ThreadOrder
  <2> QED BY <1>2, <1>4, <1>6, <2>1 DEF Waited
<1>10. /\ control.at = "warm" => control.timer <= WarmUp
       /\ control.at = "pause" => control.timer <= Pulse
       /\ control.at = "wait" => control.timer <= RecvTimeout
  BY DEF ControlOrder
<1>11. /\ control.at = "init" => Ahead = WarmUp
       /\ control.at \in {"warm", "pause"} => Ahead = control.timer
       /\ control.at \in {"none", "ping"} => Ahead = 0
       /\ control.at = "wait" /\ (replies # <<>> \/ Coming(pings)) => Ahead = Pulse
       /\ control.at = "wait" /\ ~ (replies # <<>> \/ Coming(pings))
            => Ahead = control.timer + Pulse
  BY <1>1 DEF Ahead
<1>12. Ahead \in Nat
  BY <1>1, <1>2, <1>4, <1>11
<1>13. control.at # "wait" => Ahead <= b
  BY <1>1, <1>2, <1>4, <1>5, <1>10, <1>11
<1>14. control.at = "wait" => Ahead <= RecvTimeout + Pulse
  BY <1>2, <1>4, <1>10, <1>11
<1> QED BY <1>2, <1>3, <1>4, <1>5, <1>8, <1>9, <1>11, <1>12, <1>13, <1>14 DEF b

\* A director that is gone keeps no controller.
NoDirector == ~directing => ~control.thread.mRunning

\* The inductive invariant: both threads in order, the rest, and what each counted.
Known ==
  /\ ControlOrder(control) /\ ThreadOrder(heartbeat) /\ Boxes /\ Rest /\ Fresh
  /\ Heard /\ Pinged /\ NoDirector

\* What it promises of two that are in touch.
Enough == HeardEnough /\ Waited + Ahead <= Due

LEMMA KnownEnough ==
  ASSUME Known, InTouch
  PROVE  Enough
BY DEF Known, Heard, Pinged, Enough

\* The numbers of the next state follow those of this one.
LEMMA SameWaited ==
  ASSUME UNCHANGED <<heartbeat, pings>>
  PROVE  Waited' = Waited
BY DEF Waited

LEMMA SameDue ==
  ASSUME hurt'["daemon"] = hurt["daemon"]
  PROVE  Due' = Due
BY DEF Due

LEMMA SameAhead ==
  ASSUME UNCHANGED <<control, replies, pings>>
  PROVE  Ahead' = Ahead
BY DEF Ahead

\* Sums of times: of w waited and a ahead, against the time d that is due.
LEMMA NoLater ==
  ASSUME NEW w \in Nat, NEW a \in Nat, NEW b \in Nat, NEW d \in Nat, w + a <= d, b <= a
  PROVE  w + b <= d
OBVIOUS

LEMMA NoLonger ==
  ASSUME NEW w \in Nat, NEW a \in Nat, NEW v \in Nat, NEW d \in Nat, w + a <= d, v <= w
  PROVE  v + a <= d
OBVIOUS

LEMMA NotBegun ==
  ASSUME NEW w, NEW a \in Nat, NEW d \in Nat, w = 0, a <= d
  PROVE  w + a <= d
OBVIOUS

LEMMA TimePasses ==
  ASSUME NEW w \in Nat, NEW b \in Nat, NEW d \in Nat, w + (b + 1) <= d
  PROVE  (w + 1) + b <= d
OBVIOUS

LEMMA OneLater ==
  ASSUME NEW w \in Nat, NEW b \in Nat, NEW d \in Nat, NEW s \in Nat, w <= d, b <= s
  PROVE  w + b <= d + s
OBVIOUS

-----------------------------------------------------------------------------
(* Two that are in touch after a step have counted no more than is due.    *)

\* After a step of the controller that sends nothing.
LEMMA ControlTouch ==
  ASSUME Known, InTouch',
         InitControl \/ Awake \/ Replied \/ ReplyTimesOut \/ ReplyInterrupted
  PROVE  Enough'
<1>a. /\ ControlOrder(control) /\ ThreadOrder(heartbeat) /\ Boxes /\ Rest /\ Fresh
      /\ control \in ControlState
  BY DEF Known, ControlOrder
<1>b. /\ UNCHANGED <<heartbeat, pings>> /\ hurt'["daemon"] = hurt["daemon"]
  BY <1>a DEF InitControl, Awake, Replied, ReplyTimesOut, ReplyInterrupted, Boxes, Hurts, Sides
<1>c. Waited' = Waited /\ Due' = Due
  BY <1>b, SameWaited, SameDue
<1>d. /\ control'.thread.mRunning /\ control'.mShouldRun
      /\ heartbeat.thread.mRunning /\ heartbeat.mShouldRun
  BY <1>b DEF InTouch
<1>e. control.at # "none" => control.thread.mRunning
  BY <1>a DEF ControlOrder
<1>f. ASSUME control.at # "none", control.mShouldRun
      PROVE  InTouch /\ Enough
  BY <1>d, <1>e, <1>f, KnownEnough DEF InTouch
<1>g. /\ control.fails \in Nat /\ control.timer \in Nat /\ Waited \in Nat /\ Due \in Nat
      /\ hurt["director"] \in Nat /\ Pulse \in Nat /\ WarmUp \in Nat
      /\ RecvTimeout \in Nat /\ RecvTimeout # 0
  BY <1>a, Numbers
<1>1. ASSUME control.at # "none", control.mShouldRun,
             control'.at # "wait", control'.fails <= hurt'["director"], Ahead' <= Ahead,
             Ahead \in Nat, Ahead' \in Nat
      PROVE  Enough'
  <2>1. Waited + Ahead <= Due
    BY <1>1, <1>f DEF Enough
  <2>2. Waited' + Ahead' <= Due'
    <3>1. Waited + Ahead' <= Due
      BY ONLY <1>1, <1>g, <2>1, NoLater
    <3> QED BY ONLY <1>c, <3>1
  <2> QED BY <1>1, <2>2 DEF Enough, HeardEnough
<1>2. CASE InitControl
  <2>1. main.at # "down"
    BY <1>2, <1>a, <1>d, ControlEnded DEF InitControl, ControlOrder
  <2>2. /\ control.at = "init" /\ control'.at = "warm" /\ control'.timer = WarmUp
        /\ control'.fails = control.fails /\ control'.mShouldRun = control.mShouldRun
        /\ UNCHANGED hurt
    BY <1>2, <2>1, <1>a, Sets DEF InitControl
  <2>3. Ahead = WarmUp /\ Ahead' = WarmUp
    BY <2>2 DEF Ahead
  <2>4. control.fails <= hurt["director"]
    BY <1>d, <1>f, <2>2 DEF Enough, HeardEnough
  <2> QED BY <1>1, <1>d, <1>g, <2>2, <2>3, <2>4
<1>3. CASE Awake
  <2>1. control.mShouldRun
    BY <1>3, <1>a, <1>d, ControlEnded DEF Awake, ControlOrder
  <2>2. /\ control.at \in {"warm", "pause"} /\ control.timer = 0 /\ control'.at = "ping"
        /\ control'.fails = control.fails /\ UNCHANGED hurt
    BY <1>3, <2>1, <1>a, Sets DEF Awake
  <2>3. Ahead = 0 /\ Ahead' = 0
    BY <2>2 DEF Ahead
  <2>4. control.fails <= hurt["director"]
    BY <1>f, <2>1, <2>2 DEF Enough, HeardEnough
  <2> QED BY <1>1, <1>d, <1>g, <2>1, <2>2, <2>3, <2>4
<1>4. ASSUME control.at = "wait", control'.at = "pause", control'.timer = Pulse,
             control'.fails <= hurt'["director"], replies # <<>> \/ control.timer \in Nat
      PROVE  Enough'
  <2>1. Ahead \in {Pulse, control.timer + Pulse} /\ Ahead' = Pulse
    BY <1>4 DEF Ahead
  <2>2. control.mShouldRun
    BY <1>4, <1>a DEF ControlOrder
  <2>3. Ahead' <= Ahead /\ Ahead \in Nat /\ Ahead' \in Nat
    BY <1>g, <2>1
  <2> QED BY <1>1, <1>4, <2>2, <2>3
<1>5. control.at = "wait" => Enough
  BY <1>a, <1>f DEF ControlOrder
<1>6. CASE Replied
  <2>1. /\ control.at = "wait" /\ control'.at = "pause" /\ control'.timer = Pulse
        /\ control'.fails = 0
    BY <1>6, <1>a, Sets DEF Replied, Paused
  <2>2. hurt'["director"] \in Nat
    BY <1>6, <1>a DEF Replied, Boxes, Hurts, Sides
  <2> QED BY <1>4, <1>g, <2>1, <2>2
<1>7. CASE ReplyTimesOut
  <2>1. /\ control.at = "wait" /\ control'.at = "pause" /\ control'.timer = Pulse
        /\ control'.fails = control.fails + 1
        /\ control.timer = 0 /\ replies = <<>> /\ UNCHANGED hurt
    BY <1>7, <1>a, Sets DEF ReplyTimesOut, Paused, Expired
  <2>2. control.fails < hurt["director"]
    BY <1>5, <1>g, <2>1 DEF Enough, HeardEnough
  <2> QED BY <1>4, <1>g, <2>1, <2>2
<1>8. CASE ReplyInterrupted
  <2>1. /\ control.at = "wait" /\ control'.at = "pause" /\ control'.timer = Pulse
        /\ control'.fails = control.fails /\ UNCHANGED hurt
    BY <1>8, <1>a, Sets DEF ReplyInterrupted, Paused
  <2>2. control.fails <= hurt["director"]
    BY <1>5, <2>1 DEF Enough, HeardEnough
  <2> QED BY <1>4, <1>g, <2>1, <2>2
<1> QED BY <1>2, <1>3, <1>6, <1>7, <1>8

\* After a ping, which arrives as the socket is bound, or is a fault.
LEMMA PingTouch ==
  ASSUME Known, InTouch', Ping
  PROVE  Enough'
<1>a. /\ ControlOrder(control) /\ ThreadOrder(heartbeat) /\ Boxes /\ Rest /\ Fresh
      /\ control \in ControlState
  BY DEF Known, ControlOrder
<1>b. /\ control.at = "ping" /\ control'.at = "wait" /\ control'.timer = RecvTimeout
      /\ control'.fails = control.fails /\ UNCHANGED <<heartbeat, replies>>
  BY <1>a, Sets DEF Ping
<1>c. control.thread.mRunning /\ control.mShouldRun
  BY <1>a, <1>b DEF ControlOrder
<1>d. Enough /\ heartbeat.thread.mRunning
  BY <1>b, <1>c, KnownEnough DEF InTouch
<1>e. Bound
  <2>1. heartbeat.at # "none" /\ heartbeat.at # "init"
    BY <1>a, <1>b, <1>c, <1>d DEF ThreadOrder, Fresh, Soon
  <2> QED BY <1>a, <2>1, ThreadFields DEF Bound, ThreadOrder
<1>g. /\ control.fails \in Nat /\ Waited \in Nat /\ Due \in Nat
      /\ hurt["director"] \in Nat /\ hurt["daemon"] \in Nat /\ Pulse \in Nat
      /\ RecvTimeout \in Nat /\ Pulse <= Due
  <2>1. /\ Pulse <= Later(WarmUp, Pulse) /\ Later(WarmUp, Pulse) <= Due
        /\ Pulse \in Nat /\ Due \in Nat /\ Later(WarmUp, Pulse) \in Nat
    BY <1>a, Numbers
  <2> QED BY <1>a, <2>1, Numbers
<1>h. control.fails <= hurt["director"] /\ Waited + Ahead <= Due /\ Ahead = 0
  BY <1>b, <1>d DEF Enough, HeardEnough, Ahead
<1>1. CASE pings' = Append(pings, "ping") /\ UNCHANGED hurt
  <2>1. pings' # <<>> /\ Coming(pings')
    <3>1. "ping" \in AtHeartbeat /\ Answerable("ping")
      BY DEF AtHeartbeat, Answerable
    <3> QED BY <1>1, <1>a, <3>1, OneMore DEF Boxes
  <2>2. Waited' = 0 /\ Ahead' = Pulse /\ Due' = Due
    BY <1>1, <1>b, <2>1, SameDue DEF Waited, Ahead
  <2> QED BY <1>1, <1>b, <1>g, <1>h, <2>1, <2>2 DEF Enough, HeardEnough
<1>2. CASE /\ hurt' = [s \in {"director", "daemon"} |-> hurt[s] + 1] /\ UNCHANGED pings
  <2>1. hurt'["director"] = hurt["director"] + 1 /\ hurt'["daemon"] = hurt["daemon"] + 1
    BY <1>2
  <2>2. Due' = Due + (RecvTimeout + Pulse)
    <3>1. Lost(hurt["daemon"] + 1) = Lost(hurt["daemon"]) + (RecvTimeout + Pulse)
          /\ Lost(hurt["daemon"]) \in Nat /\ Later(WarmUp, Pulse) \in Nat
      BY <1>a, <1>g, Products, Numbers
    <3> QED BY <2>1, <3>1, <1>g DEF Due
  <2>3. Ahead' \in {Pulse, RecvTimeout + Pulse} /\ Waited' = Waited
    BY <1>2, <1>b, SameWaited DEF Ahead
  <2>4. Waited' + Ahead' <= Due'
    <3>1. Waited <= Due
      BY ONLY <1>g, <1>h
    <3>2. /\ Ahead' \in Nat /\ Ahead' <= RecvTimeout + Pulse
          /\ RecvTimeout + Pulse \in Nat
      BY ONLY <1>g, <2>3
    <3>3. Waited + Ahead' <= Due + (RecvTimeout + Pulse)
      BY ONLY <1>g, <3>1, <3>2, OneLater
    <3> QED BY ONLY <2>2, <2>3, <3>3
  <2> QED BY <1>b, <1>g, <1>h, <2>1, <2>4 DEF Enough, HeardEnough
<1> QED BY <1>1, <1>2, <1>e DEF Ping, Sent

\* After a round of the heartbeat thread: a reply sent, or none to send.
LEMMA ThreadTouch ==
  ASSUME Known, InTouch', NEW n, NEW s, LoopingOn(n, s)
  PROVE  Enough'
<1>a. /\ ControlOrder(control) /\ ThreadOrder(heartbeat) /\ Boxes /\ Rest
  BY DEF Known
<1>b. /\ s \in BOOLEAN /\ heartbeat.at # "none" /\ n \in ThreadFails /\ UNCHANGED control
  BY <1>a, ThreadGoesOn, LoopsHave
<1>c. heartbeat'.mShouldRun = s /\ heartbeat'.fails = n
  BY <1>a, ThreadLoopsOn
<1>d. s
  BY <1>c DEF InTouch
<1>e. heartbeat'.at = "receive" /\ heartbeat'.timer = RecvTimeout
  BY <1>a, <1>d, ThreadLoopsOn
<1>f. heartbeat.mShouldRun
  BY <1>d, <1>b, <1>a, ThreadFields DEF LoopingOn, ThreadOrder
<1>g. Enough
  <2>1. InTouch
    BY <1>a, <1>b, <1>f DEF InTouch, ThreadOrder
  <2> QED BY <2>1, KnownEnough
<1>h. /\ Waited \in Nat /\ Ahead \in Nat /\ Due \in Nat /\ RecvTimeout \in Nat /\ Pulse \in Nat
      /\ Later(WarmUp, Pulse) \in Nat /\ Later(WarmUp, Pulse) <= Due
      /\ control.at # "wait" => Ahead <= Later(WarmUp, Pulse)
      /\ Pulse <= Later(WarmUp, Pulse)
      /\ heartbeat.fails \in Nat /\ n \in Nat
      /\ hurt["director"] \in Nat /\ hurt["daemon"] \in Nat /\ control.fails \in Nat
  <2>1. n \in Nat
    BY <1>b, Counted
  <2> QED BY <1>a, <2>1, Numbers
<1>i. Waited' \in {0, Failed(n)}
  <2>1. Failed(n) \in Nat
    BY <1>h, Products
  <2>2. Waited' \in {0, Failed(n) + (RecvTimeout - RecvTimeout)}
    BY <1>c, <1>e DEF Waited
  <2> QED BY <1>h, <2>1, <2>2
<1>j. /\ Waited + Ahead <= Due /\ control.fails <= hurt["director"]
  BY <1>g DEF Enough, HeardEnough
<1>1. ASSUME UNCHANGED <<replies, pings, hurt>>, Waited' \in Nat, Waited' <= Waited
      PROVE  Enough'
  <2>1. HeardEnough'
    BY <1>1, <1>b, <1>g DEF Enough, HeardEnough
  <2>2. Ahead' = Ahead /\ Due' = Due
    BY <1>1, <1>b, SameAhead, SameDue
  <2>3. Waited' + Ahead <= Due
    BY ONLY <1>1, <1>h, <1>j, NoLonger
  <2> QED BY <2>1, <2>2, <2>3 DEF Enough
<1>2. CASE InitHeartbeat /\ n = 0
  <2>1. Waited' = 0
    BY <1>i, <1>2, Products
  <2> QED BY <1>1, <1>2, <1>h, <2>1 DEF InitHeartbeat
<1>3. CASE PingTimesOut /\ n = heartbeat.fails + 1
  <2>1. /\ heartbeat.at = "receive" /\ pings = <<>> /\ heartbeat.timer = 0
        /\ UNCHANGED <<replies, pings, hurt>>
    BY <1>3 DEF PingTimesOut, Expired
  <2>2. Waited = Failed(heartbeat.fails) + RecvTimeout /\ Waited' \in {0, Waited}
    <3>1. Waited = Failed(heartbeat.fails) + (RecvTimeout - 0)
      BY <2>1 DEF Waited
    <3>2. Failed(n) = Failed(heartbeat.fails) + RecvTimeout /\ Failed(heartbeat.fails) \in Nat
      BY <1>3, <1>h, Products
    <3>3. Failed(heartbeat.fails) + (RecvTimeout - 0) = Failed(heartbeat.fails) + RecvTimeout
      BY <1>h, <3>2
    <3> QED BY <3>1, <3>2, <3>3, <1>i
  <2>3. Waited' \in Nat /\ Waited' <= Waited
    BY ONLY <2>2, <1>h
  <2> QED BY <1>1, <2>1, <2>3
<1>4. CASE PingInterrupted /\ n = heartbeat.fails
  <2>1. /\ heartbeat.at = "receive" /\ pings = <<>>
        /\ UNCHANGED <<replies, pings, hurt>>
    BY <1>4 DEF PingInterrupted
  <2>2. Waited = Failed(n) + (RecvTimeout - heartbeat.timer)
    BY <1>4, <2>1 DEF Waited
  <2>3. heartbeat.timer \in Nat /\ heartbeat.timer <= RecvTimeout /\ Failed(n) \in Nat
    BY <1>a, <1>h, <2>1, Numbers, Products DEF ThreadOrder
  <2>4. Failed(n) <= Waited
    BY <1>h, <2>2, <2>3
  <2>5. Waited' \in Nat /\ Waited' <= Waited
    BY ONLY <2>3, <2>4, <1>i, <1>h
  <2> QED BY <1>1, <2>1, <2>5
<1>5. CASE Reply /\ n = heartbeat.fails
  <2>1. /\ heartbeat.at = "reply" /\ pings' = Tail(pings) /\ pings # <<>> /\ n = 0
        /\ Waited' = 0
    <3>1. heartbeat.at = "reply" /\ pings' = Tail(pings) /\ pings # <<>> /\ n = 0
      BY <1>5, <1>a DEF Reply, Rest, ThreadOrder
    <3> QED BY <3>1, <1>i, Products
  <2>2. Coming(pings) <=> Answerable(Head(pings)) \/ Coming(pings')
    BY <1>a, <2>1, OneLess DEF Boxes
  <2>3. /\ control.at = "wait" => Listening
    BY DEF Listening
  <2>4. CASE control.at # "wait"
    <3>1. Ahead' = Ahead
      BY <1>b, <2>4 DEF Ahead
    <3>2. /\ hurt' \in {hurt, [t \in {"director", "daemon"} |-> hurt[t] + 1]}
      BY <1>5 DEF Reply, Sent
    <3>3. control.fails <= hurt'["director"] /\ hurt'["daemon"] \in Nat
      BY <1>h, <1>j, <3>2
    <3>4. Later(WarmUp, Pulse) <= Due'
      <4>1. Lost(hurt'["daemon"]) \in Nat
        BY <3>3, Products
      <4> QED BY <1>h, <4>1 DEF Due
    <3>5. Due' \in Nat
      <4>1. Lost(hurt'["daemon"]) \in Nat
        BY <3>3, Products
      <4> QED BY <1>h, <4>1 DEF Due
    <3>6. Waited' + Ahead' <= Due'
      BY ONLY <1>h, <2>1, <2>4, <3>1, <3>4, <3>5
    <3> QED BY <1>b, <2>4, <3>3, <3>6 DEF Enough, HeardEnough
  <2>5. CASE control.at = "wait" /\ hurt' = [t \in {"director", "daemon"} |-> hurt[t] + 1]
    <3>1. hurt'["director"] = hurt["director"] + 1 /\ hurt'["daemon"] = hurt["daemon"] + 1
      BY <2>5
    <3>2. Due' = Due + (RecvTimeout + Pulse)
      <4>1. Lost(hurt["daemon"] + 1) = Lost(hurt["daemon"]) + (RecvTimeout + Pulse)
            /\ Lost(hurt["daemon"]) \in Nat
        BY <1>h, Products
      <4> QED BY <1>h, <3>1, <4>1 DEF Due
    <3>3. Ahead' \in {Pulse, control.timer + Pulse}
      BY <1>b, <2>5 DEF Ahead
    <3>4. control.timer \in Nat /\ control.timer <= RecvTimeout
      BY <1>a, <2>5, Numbers DEF ControlOrder
    <3>5. Ahead' <= RecvTimeout + Pulse /\ Ahead' \in Nat /\ RecvTimeout + Pulse \in Nat
      BY ONLY <1>h, <3>3, <3>4
    <3>6. 0 + Ahead' <= Due + (RecvTimeout + Pulse)
      <4>1. 0 <= Due /\ 0 \in Nat
        BY ONLY <1>h
      <4> QED BY ONLY <1>h, <3>5, <4>1, OneLater
    <3>7. Waited' + Ahead' <= Due'
      BY ONLY <2>1, <3>2, <3>5, <3>6
    <3>8. control'.fails < hurt'["director"] /\ control'.fails <= hurt'["director"]
      BY <1>b, <1>h, <1>j, <3>1
    <3> QED BY <3>7, <3>8 DEF Enough, HeardEnough
  <2>6. CASE /\ control.at = "wait" /\ UNCHANGED hurt
             /\ \/ replies' # <<>>
                \/ ~ Answerable(Head(pings)) /\ UNCHANGED replies
    <3>1. Ahead' \in {Pulse, Ahead}
      BY <1>b, <2>2, <2>6 DEF Ahead
    <3>2. Due' = Due
      BY <2>6, SameDue
    <3>3. Waited' + Ahead' <= Due'
      <4>1. Pulse <= Due
        BY ONLY <1>h
      <4>2. Ahead <= Due
        BY ONLY <1>h, <1>j
      <4>3. Ahead' \in Nat /\ Ahead' <= Due
        BY ONLY <1>h, <3>1, <4>1, <4>2
      <4>4. Waited' + Ahead' <= Due
        BY ONLY <1>h, <2>1, <4>3, NotBegun
      <4> QED BY ONLY <3>2, <4>4
    <3>4. HeardEnough'
      BY <1>b, <1>g, <2>2, <2>6 DEF Enough, HeardEnough
    <3> QED BY <3>3, <3>4 DEF Enough
  <2>7. \/ control.at # "wait"
        \/ control.at = "wait" /\ hurt' = [t \in {"director", "daemon"} |-> hurt[t] + 1]
        \/ /\ control.at = "wait" /\ UNCHANGED hurt
           /\ \/ replies' # <<>>
              \/ ~ Answerable(Head(pings)) /\ UNCHANGED replies
    <3>1. Append(replies, "reply") # <<>>
      BY <1>a, OneMore DEF Boxes, AtController
    <3> QED BY <1>5, <2>3, <3>1 DEF Reply, Sent
  <2> QED BY <2>4, <2>5, <2>6, <2>7
<1> QED BY <1>2, <1>3, <1>4, <1>5, <1>d, <1>f DEF LoopingOn

\* After a ping read: the thread waits anew, and the next ping is not far.
LEMMA ReceiveTouch ==
  ASSUME Known, InTouch', Receive, heartbeat.mShouldRun
  PROVE  Enough'
<1>a. /\ ControlOrder(control) /\ ThreadOrder(heartbeat) /\ Boxes
      /\ heartbeat \in HeartbeatState
  BY DEF Known, ThreadOrder
<1>b. /\ heartbeat.at = "receive" /\ pings # <<>> /\ heartbeat'.at = "reply"
      /\ UNCHANGED <<control, replies, pings>>
      /\ \/ UNCHANGED hurt
         \/ Head(pings) = "ping" /\ hurt' = [hurt EXCEPT !["daemon"] = 0]
  BY <1>a, Sets DEF Receive
<1>c. InTouch /\ Enough
  BY <1>a, <1>b, KnownEnough DEF InTouch, ThreadOrder
<1>d. Waited' = 0 /\ Waited = 0 /\ Ahead' = Ahead
  BY <1>b, SameAhead DEF Waited
<1>e. hurt'["director"] = hurt["director"]
  BY <1>a, <1>b DEF Boxes, Hurts, Sides
<1>f. HeardEnough'
  BY <1>b, <1>c, <1>e DEF Enough, HeardEnough
<1>g. /\ Ahead \in Nat /\ Due \in Nat /\ Later(WarmUp, Pulse) \in Nat
      /\ control.at # "wait" => Ahead <= Later(WarmUp, Pulse)
      /\ control.at = "wait" /\ Coming(pings) => Ahead <= Later(WarmUp, Pulse)
  BY <1>a, Numbers
<1>1. CASE UNCHANGED hurt
  <2>1. Due' = Due /\ Waited + Ahead <= Due
    BY <1>1, <1>c, SameDue DEF Enough
  <2> QED BY <1>d, <1>f, <2>1 DEF Enough
<1>2. CASE Head(pings) = "ping" /\ hurt' = [hurt EXCEPT !["daemon"] = 0]
  <2>1. Coming(pings)
    BY <1>2, <1>a, <1>b, OneLess DEF Boxes, Answerable
  <2>2. Due' = Later(WarmUp, Pulse)
    <3>1. hurt'["daemon"] = 0
      BY <1>2, <1>a DEF Boxes, Hurts, Sides
    <3>2. Due' = Later(WarmUp, Pulse) + 0
      BY <3>1, Products DEF Due
    <3> QED BY <3>2, <1>g
  <2>3. Ahead <= Later(WarmUp, Pulse)
    BY <1>g, <2>1
  <2>4. Waited' + Ahead <= Later(WarmUp, Pulse)
    BY ONLY <1>d, <1>g, <2>3, NotBegun
  <2> QED BY <1>d, <1>f, <2>2, <2>4 DEF Enough
<1> QED BY <1>1, <1>2, <1>b

\* After the heartbeat thread's start, with the controller's first ping to come.
LEMMA StartTouch ==
  ASSUME Known, InTouch', ThreadOrder(heartbeat'), StartHeartbeat
  PROVE  Enough'
<1>a. /\ ControlOrder(control) /\ ThreadOrder(heartbeat) /\ Boxes
      /\ Rest /\ Fresh /\ heartbeat \in HeartbeatState
  BY DEF Known, ThreadOrder
<1>b. /\ main.at = "start" /\ UNCHANGED <<control, replies, pings, hurt>>
  BY DEF StartHeartbeat
<1>c. heartbeat.at = "none" /\ heartbeat'.at # "none"
  BY <1>a, <1>b DEF Rest, InTouch, ThreadOrder
<1>d. heartbeat'.at = "init"
  BY <1>a, <1>c, Sets DEF StartHeartbeat
<1>e. control.at \in {"init", "warm"} /\ control.fails = 0
  BY <1>a, <1>b DEF InTouch, Fresh, Soon, ControlOrder
<1>f. /\ Ahead \in Nat /\ Due \in Nat /\ Later(WarmUp, Pulse) \in Nat
      /\ Ahead <= Later(WarmUp, Pulse) /\ Later(WarmUp, Pulse) <= Due
      /\ hurt["director"] \in Nat
  <2>1. control.at # "wait" => Ahead <= Later(WarmUp, Pulse)
    BY <1>a, Numbers
  <2>2. Ahead <= Later(WarmUp, Pulse)
    BY <1>e, <2>1
  <2> QED BY <1>a, <2>2, Numbers
<1>g. Waited' = 0 /\ Ahead' = Ahead /\ Due' = Due
  BY <1>b, <1>d, SameAhead, SameDue DEF Waited
<1>h. Waited' + Ahead <= Due
  <2>1. Ahead <= Due
    BY ONLY <1>f
  <2> QED BY ONLY <1>f, <1>g, <2>1, NotBegun
<1> QED BY <1>b, <1>e, <1>f, <1>g, <1>h DEF Enough, HeardEnough

\* After a late datagram, or a stranger's.
LEMMA LateTouch ==
  ASSUME Known, InTouch', Late
  PROVE  Enough'
<1>a. /\ ControlOrder(control) /\ ThreadOrder(heartbeat) /\ Boxes
  BY DEF Known
<1>b. UNCHANGED <<control, heartbeat, hurt>>
  BY DEF Late
<1>c. Enough
  BY <1>b, KnownEnough DEF InTouch
<1>d. /\ replies # <<>> => replies' # <<>>
      /\ pings # <<>> => pings' # <<>>
      /\ Coming(pings) => Coming(pings')
  <2>1. /\ replies' \in {replies, Append(replies, "latereply")}
        /\ pings' \in {pings, Append(pings, "lateping"), Append(pings, "stranger")}
    BY DEF Late, Arrives
  <2>2. Append(replies, "latereply") # <<>>
    BY <1>a, OneMore DEF Boxes, AtController
  <2>3. ASSUME NEW d \in {"lateping", "stranger"}
        PROVE  Append(pings, d) # <<>> /\ (Coming(pings) => Coming(Append(pings, d)))
    <3>1. d \in AtHeartbeat
      BY <2>3 DEF AtHeartbeat
    <3> QED BY <1>a, <3>1, OneMore DEF Boxes
  <2> QED BY <2>1, <2>2, <2>3
<1>e. HeardEnough'
  BY <1>b, <1>c, <1>d DEF Enough, HeardEnough
<1>f. /\ Waited \in Nat /\ Ahead \in Nat /\ Due \in Nat /\ control.timer \in Nat /\ Pulse \in Nat
      /\ control.at \in {"none", "init", "warm", "ping", "wait", "pause"}
  BY <1>a, Numbers, ControlFields DEF ControlOrder
<1>g. Due' = Due /\ Waited' \in {0, Waited}
  BY <1>b, <1>d, SameDue DEF Waited
<1>h. Ahead' \in Nat /\ Ahead' <= Ahead
  <2>1. CASE control.at # "wait"
    <3>1. Ahead' = Ahead
      BY <2>1, <1>b DEF Ahead
    <3> QED BY ONLY <1>f, <3>1
  <2>2. CASE control.at = "wait" /\ (replies # <<>> \/ Coming(pings))
    <3>1. Ahead' = Ahead
      BY <2>2, <1>b, <1>d DEF Ahead
    <3> QED BY ONLY <1>f, <3>1
  <2>3. CASE control.at = "wait" /\ ~ (replies # <<>> \/ Coming(pings))
    <3>1. Ahead = control.timer + Pulse /\ Ahead' \in {Pulse, control.timer + Pulse}
      BY <2>3, <1>b DEF Ahead
    <3> QED BY ONLY <1>f, <3>1
  <2> QED BY <2>1, <2>2, <2>3
<1>i. Waited' + Ahead' <= Due
  <2>1. Waited + Ahead <= Due
    BY <1>c DEF Enough
  <2>2. Waited + Ahead' <= Due
    BY ONLY <1>f, <1>h, <2>1, NoLater
  <2>3. Waited' \in Nat /\ Waited' <= Waited
    BY ONLY <1>f, <1>g
  <2> QED BY ONLY <1>f, <1>h, <2>2, <2>3, NoLonger
<1> QED BY <1>e, <1>g, <1>i DEF Enough

\* After a tick: one more waited, and one less ahead.
LEMMA TickTouch ==
  ASSUME Known, InTouch', Tick
  PROVE  Enough'
<1>a. /\ ControlOrder(control) /\ ThreadOrder(heartbeat) /\ Boxes
      /\ control \in ControlState /\ heartbeat \in HeartbeatState
  BY DEF Known, ControlOrder, ThreadOrder
<1>b. /\ UNCHANGED <<replies, pings, hurt>> /\ Quiet
      /\ control'.at = control.at /\ control'.fails = control.fails
      /\ control'.timer = Pass(control.timer)
      /\ heartbeat'.at = heartbeat.at /\ heartbeat'.fails = heartbeat.fails
      /\ heartbeat'.timer = Pass(heartbeat.timer)
      /\ control'.thread = control.thread /\ control'.mShouldRun = control.mShouldRun
      /\ heartbeat'.thread = heartbeat.thread /\ heartbeat'.mShouldRun = heartbeat.mShouldRun
  BY <1>a, Sets DEF Tick
<1>c. InTouch /\ Enough
  BY <1>b, KnownEnough DEF InTouch
<1>d. /\ control.at \in {"none", "init", "warm", "ping", "wait", "pause"}
      /\ heartbeat.at \in {"none", "init", "receive", "reply"}
      /\ control.timer \in Clock /\ heartbeat.timer \in Clock
  BY <1>a, ControlFields, ThreadFields
<1>e. /\ control.at \in {"warm", "wait", "pause"} /\ control.timer > 0
      /\ heartbeat.at = "receive" /\ heartbeat.timer > 0 /\ pings = <<>>
      /\ control.at = "wait" => replies = <<>>
  BY <1>a, <1>b, <1>c, <1>d DEF Quiet, InTouch, ControlOrder, ThreadOrder
<1>f. /\ control.timer \in Nat /\ heartbeat.timer \in Nat
      /\ control'.timer = control.timer - 1 /\ heartbeat'.timer = heartbeat.timer - 1
  <2>1. control.timer \in Nat /\ heartbeat.timer \in Nat
    BY <1>a, Numbers
  <2>2. control.timer # 0 /\ heartbeat.timer # 0
    BY ONLY <1>e, <2>1
  <2> QED BY <1>b, <1>d, <2>1, <2>2, PassTyped
<1>g. ~ Coming(pings)
  BY <1>e, NoneComes
<1>h. HeardEnough'
  BY <1>b, <1>c, <1>e, <1>g DEF Enough, HeardEnough
<1>i. /\ Due' = Due /\ Waited + Ahead <= Due
  BY <1>b, <1>c, SameDue DEF Enough
<1>j. /\ Failed(heartbeat.fails) \in Nat /\ RecvTimeout \in Nat /\ Pulse \in Nat
      /\ heartbeat.timer <= RecvTimeout
      /\ Waited \in Nat /\ Ahead \in Nat /\ Due \in Nat
  BY <1>a, <1>e, Numbers, Products DEF ThreadOrder
<1>k. Waited' = Waited + 1
  <2>1. /\ Waited = Failed(heartbeat.fails) + (RecvTimeout - heartbeat.timer)
        /\ Waited' = Failed(heartbeat.fails) + (RecvTimeout - (heartbeat.timer - 1))
    BY <1>b, <1>e, <1>f DEF Waited
  <2> QED BY ONLY <1>f, <1>j, <2>1
<1>l. Ahead = Ahead' + 1 /\ Ahead' \in Nat
  <2>1. CASE control.at = "wait"
    <3>1. Ahead = control.timer + Pulse /\ Ahead' = (control.timer - 1) + Pulse
      BY <1>b, <1>e, <1>f, <1>g, <2>1 DEF Ahead
    <3> QED BY ONLY <1>e, <1>f, <1>j, <3>1
  <2>2. CASE control.at \in {"warm", "pause"}
    <3>1. Ahead = control.timer /\ Ahead' = control.timer - 1
      BY <1>b, <1>f, <2>2 DEF Ahead
    <3> QED BY ONLY <1>e, <1>f, <1>j, <3>1
  <2> QED BY <1>e, <2>1, <2>2
<1>m. Waited' + Ahead' <= Due'
  <2>1. Waited + (Ahead' + 1) <= Due
    BY ONLY <1>i, <1>l
  <2>2. (Waited + 1) + Ahead' <= Due
    BY ONLY <1>j, <1>l, <2>1, TimePasses
  <2> QED BY ONLY <1>i, <1>k, <2>2
<1> QED BY <1>h, <1>m DEF Enough

\* After a step that leaves both alone.
LEMMA IdleTouch ==
  ASSUME Known, InTouch', UNCHANGED <<control, heartbeat, replies, pings, hurt>>
  PROVE  Enough'
<1>1. Enough
  BY KnownEnough DEF InTouch
<1>2. Waited' = Waited /\ Ahead' = Ahead /\ Due' = Due
  BY SameWaited, SameAhead, SameDue
<1> QED BY <1>1, <1>2 DEF Enough, HeardEnough

\* After any step.
LEMMA EnoughKept ==
  ASSUME Known, Next, ThreadOrder(heartbeat'), InTouch'
  PROVE  Enough'
<1>a. /\ ControlOrder(control) /\ ThreadOrder(heartbeat) /\ Boxes /\ Rest
      /\ control \in ControlState /\ heartbeat \in HeartbeatState
      /\ heartbeat.thread \in ThreadObject
  BY ThreadFields DEF Known, ControlOrder, ThreadOrder
<1>b. control'.thread.mRunning /\ heartbeat'.thread.mRunning /\ heartbeat'.mShouldRun
  BY DEF InTouch
<1>1. CASE Control \/ ReplyInterrupted
  BY <1>1, ControlTouch, PingTouch DEF Control
<1>2. CASE Thread \/ PingInterrupted \/ PingFails
  BY <1>2, LoopingSteps, ThreadTouch, ReceiveTouch
<1>3. CASE StartHeartbeat
  BY <1>3, StartTouch
<1>4. CASE Late
  BY <1>4, LateTouch
<1>5. CASE Tick
  BY <1>5, TickTouch
<1>6. CASE Register
  <2>1. heartbeat.at = "none" /\ UNCHANGED heartbeat
    BY <1>6, <1>a DEF Register, Rest
  <2> QED BY <2>1, <1>a, <1>b DEF ThreadOrder
<1>7. CASE Retry \/ DaemonStarts
  BY <1>7, IdleTouch DEF Retry, DaemonStarts
<1>8. CASE Watch
  <2>1. CASE heartbeat.thread.mRunning
    BY <1>8, <2>1, IdleTouch DEF Watch
  <2>2. CASE ~ heartbeat.thread.mRunning
    <3>1. heartbeat'.thread = ResetThread(heartbeat.thread)
      BY <1>8, <2>2, <1>a, Sets DEF Watch, Reset
    <3> QED BY <2>2, <3>1, <1>a, <1>b, ThreadTyped
  <2> QED BY <2>1, <2>2
<1>9. CASE Joined \/ DaemonDies
  <2>1. heartbeat' = NewHeartbeat
    BY <1>9 DEF Joined, DaemonDies, Gone
  <2>2. ~ heartbeat'.thread.mRunning
    BY <2>1, ThreadTyped DEF NewHeartbeat, NoControl
  <2> QED BY <1>b, <2>2
<1>10. CASE Suggest \/ Shutdown
  <2>1. ~ heartbeat'.mShouldRun
    BY <1>10, <1>a, Sets DEF Suggest, Shutdown, Stopped
  <2> QED BY <1>b, <2>1
<1>11. CASE DirectorDies
  <2> DEFINE no == FALSE
             d == [control EXCEPT !.mShouldRun = no]
  <2>1. ControlEnds(d) /\ no \in BOOLEAN /\ ~ no
    BY <1>11 DEF DirectorDies
  <2> HIDE DEF no
  <2>2. d \in ControlState /\ d.thread = control.thread /\ d.mShouldRun = no
    BY <1>a, <2>1, Sets
  <2> HIDE DEF d
  <2>3. ~ control'.thread.mRunning
    BY <1>a, <2>1, <2>2, ControlEnded DEF ControlOrder
  <2> QED BY <1>b, <2>3
<1>12. CASE DirectorStarts
  <2>1. ~ control'.thread.mRunning
    BY <1>12, ThreadTyped DEF DirectorStarts, NoControl
  <2> QED BY <1>b, <2>1
<1>13. CASE ControlThrows
  <2>1. ~ control'.thread.mRunning
    BY <1>a, <1>13, ControlEnded DEF ControlThrows, ControlOrder
  <2> QED BY <1>b, <2>1
<1> QED BY <1>1, <1>2, <1>3, <1>4, <1>5, <1>6, <1>7, <1>8, <1>9, <1>10, <1>11, <1>12, <1>13
        DEF Next, Main, Fault

-----------------------------------------------------------------------------
(* The invariant, and what follows.                                        *)

LEMMA KnownAtFirst ==
  ASSUME Init
  PROVE  Known
<1> DEFINE yes == TRUE
           t == NewThread
<1>2. /\ yes \in BOOLEAN /\ yes /\ t \in ThreadObject
      /\ ~ t.mRunning /\ ~ t.mSpent /\ t.mStopDead = FALSE
  BY ThreadTyped DEF NewThread
<1>3. /\ control = [at |-> "none", timer |-> 0, fails |-> 0, mShouldRun |-> yes, thread |-> t]
      /\ heartbeat = [at |-> "none", timer |-> 0, fails |-> 0, mShouldRun |-> yes, thread |-> t]
  BY DEF Init, NoControl, NewHeartbeat
<1> HIDE DEF yes, t
<1>4. ControlOrder(control)
  <2>1. control \in ControlState
    BY <1>2, <1>3, InSets, Sets
  <2> QED BY <1>2, <1>3, <2>1, Times DEF ControlOrder
<1>5. ThreadOrder(heartbeat)
  <2>1. heartbeat \in HeartbeatState
    BY <1>2, <1>3, InSets, Sets
  <2> QED BY <1>2, <1>3, <2>1 DEF ThreadOrder
<1>6. Boxes
  <2>1. main \in MainState
    BY InSets, AtTyped DEF Init
  <2>2. late \in Delays /\ hurt \in Hurts
    BY DEF Init, Delays, Hurts, Sides
  <2> QED BY <2>1, <2>2, EmptyTyped DEF Init, Boxes
<1>7. Rest /\ Fresh /\ Heard /\ Pinged /\ NoDirector
  BY <1>2, <1>3 DEF Init, Rest, Bound, Fresh, Heard, Pinged, InTouch, NoDirector
<1> QED BY <1>4, <1>5, <1>6, <1>7 DEF Known

\* A thread is started in a director that runs, and ends with it.
LEMMA NoDirectorKept ==
  ASSUME Known, Next
  PROVE  NoDirector'
<1>a. /\ ControlOrder(control) /\ control \in ControlState /\ control.thread \in ThreadObject
      /\ ~ directing => ~ control.thread.mRunning
  BY ControlFields DEF Known, NoDirector, ControlOrder
<1>2. CASE DirectorDies
  <2> DEFINE no == FALSE
             d == [control EXCEPT !.mShouldRun = no]
  <2>1. ControlEnds(d) /\ no \in BOOLEAN /\ ~ no
    BY <1>2 DEF DirectorDies
  <2> HIDE DEF no
  <2>2. d \in ControlState /\ d.thread = control.thread /\ d.mShouldRun = no
    BY <1>a, <2>1, Sets
  <2> HIDE DEF d
  <2>3. ~ control'.thread.mRunning
    BY <1>a, <2>1, <2>2, ControlEnded DEF ControlOrder
  <2> QED BY <2>3 DEF NoDirector
<1>3. CASE DirectorStarts \/ (Register /\ directing)
  <2>1. directing'
    BY <1>3 DEF DirectorStarts, Register
  <2> QED BY <2>1 DEF NoDirector
<1>4. CASE UNCHANGED <<directing, control>>
  BY <1>4, <1>a DEF NoDirector
<1>5. CASE ControlEnds(control) /\ UNCHANGED directing
  <2>1. ~ control'.thread.mRunning
    BY <1>a, <1>5, ControlEnded DEF ControlOrder
  <2> QED BY <2>1 DEF NoDirector
<1>6. CASE InitControl \/ Awake \/ Ping \/ Replied \/ ReplyTimesOut \/ ReplyInterrupted \/ Tick
  <2>1. UNCHANGED directing
    BY <1>6 DEF InitControl, Awake, Ping, Replied, ReplyTimesOut, ReplyInterrupted, Tick
  <2>2. ControlEnds(control) \/ control'.thread = control.thread
    BY <1>6, <1>a, Sets
       DEF InitControl, Awake, Ping, Replied, ReplyTimesOut, ReplyInterrupted, Tick, Paused
  <2>3. CASE control'.thread = control.thread
    BY <1>a, <2>1, <2>3 DEF NoDirector
  <2> QED BY <1>5, <2>1, <2>2, <2>3
<1>7. CASE ControlThrows
  BY <1>5, <1>7 DEF ControlThrows
<1>8. CASE Register /\ ~ directing
  BY <1>4, <1>8 DEF Register
<1> QED BY <1>2, <1>3, <1>4, <1>6, <1>7, <1>8
        DEF Next, Control, Thread, Main, Fault, InitHeartbeat, Receive, Reply,
            PingTimesOut, PingInterrupted, PingFails, Retry, StartHeartbeat, Watch, Joined,
            Suggest, Shutdown, DaemonDies, DaemonStarts, Late

LEMMA KnownKept ==
  ASSUME Known, [Next]_vars
  PROVE  Known'
<1>1. CASE Next
  <2>1. /\ ControlOrder(control) /\ ThreadOrder(heartbeat) /\ Boxes /\ Rest /\ Fresh
    BY DEF Known
  <2>2. ControlOrder(control') /\ Boxes' /\ Rest' /\ Fresh'
    BY <1>1, <2>1, ControlOrderly, BoxesTyped, RestKept, FreshKept
  <2>3. ThreadOrder(heartbeat')
    BY <1>1, <2>1, ThreadOrderly DEF Rest
  <2>4. InTouch' => Enough'
    BY <1>1, <2>3, EnoughKept
  <2>5. Heard' /\ Pinged'
    BY <2>4 DEF Enough, Heard, Pinged
  <2>6. ControlOrder(control)' /\ ThreadOrder(heartbeat)'
    BY <2>2, <2>3 DEF ControlOrder, ThreadOrder
  <2> QED BY <1>1, <2>2, <2>5, <2>6, NoDirectorKept DEF Known
<1>2. CASE UNCHANGED vars
  <2>1. UNCHANGED <<directing, control, servant, replies, main, heartbeat, pings, late, faults,
                   hurt>>
    BY <1>2 DEF vars
  <2>2. Heard' /\ Pinged'
    <3>1. InTouch' => Enough'
      BY <2>1, IdleTouch
    <3> QED BY <3>1 DEF Enough, Heard, Pinged
  <2>3. ControlOrder(control)' /\ ThreadOrder(heartbeat)'
    BY <2>1 DEF Known, ControlOrder, ThreadOrder
  <2>4. Boxes' /\ Rest' /\ Fresh' /\ NoDirector'
    BY <2>1 DEF Known, Boxes, Rest, Bound, Fresh, Soon, NoDirector
  <2> QED BY <2>2, <2>3, <2>4 DEF Known
<1> QED BY <1>1, <1>2

LEMMA KnownTyped ==
  ASSUME Known
  PROVE  TypeOK
BY DEF Known, ControlOrder, ThreadOrder, Boxes, TypeOK, AtController, AtHeartbeat, Delays,
     Hurts, Sides

LEMMA KnownAlways == Spec => []Known
<1>1. Init => Known
  BY KnownAtFirst
<1>2. Known /\ [Next]_vars => Known'
  BY KnownKept
<1> QED BY <1>1, <1>2, PTL DEF Spec

\* Types: timers run from no more than the longest time, neither side counts past
\* its limit, and the boxes hold datagrams.
THEOREM HeartbeatTyping == Spec => []TypeOK
<1>1. Known => TypeOK
  BY KnownTyped
<1> QED BY <1>1, KnownAlways, PTL

\* The director stops the controller of a daemon whose heartbeat thread goes on.
Stops ==
  control.mShouldRun /\ ~ control'.mShouldRun /\ directing'
    /\ heartbeat.thread.mRunning /\ heartbeat.mShouldRun
\* Only a receive that times out does that, and it was not the daemon's silence.
LEMMA DirectorPatient ==
  ASSUME Known, [Next]_vars, Stops
  PROVE  hurt["director"] >= DirectorFails
<1>a. /\ ControlOrder(control) /\ ThreadOrder(heartbeat) /\ Boxes /\ control \in ControlState
  BY DEF Known, ControlOrder
<1>b. control.mShouldRun \in BOOLEAN /\ control' # control
  BY <1>a, ControlFields DEF Stops
<1>1. CASE ReplyTimesOut
  <2>1. /\ control.at = "wait" /\ control.timer = 0 /\ replies = <<>>
        /\ control'.mShouldRun = (control.fails + 1 < DirectorFails)
    BY <1>1, <1>a, Sets DEF ReplyTimesOut, Expired, Paused
  <2>2. Enough
    BY <1>a, <2>1, KnownEnough DEF InTouch, ControlOrder, Stops
  <2>3. control.fails < hurt["director"]
    BY <2>1, <2>2, Times DEF Enough, HeardEnough
  <2>4. ~ (control.fails + 1 < DirectorFails)
    BY <2>1 DEF Stops
  <2>5. control.fails \in Nat /\ hurt["director"] \in Nat /\ DirectorFails \in Nat
    BY <1>a, Numbers, Times
  <2> QED BY ONLY <2>3, <2>4, <2>5
<1>2. CASE ~ ReplyTimesOut
  <2>1. CASE Register
    <3>1. control'.mShouldRun
      BY <1>b, <2>1 DEF Register, NoControl
    <3> QED BY <3>1 DEF Stops
  <2>2. CASE DirectorStarts
    BY <2>2 DEF Stops, DirectorStarts, NoControl
  <2>3. CASE DirectorDies
    BY <2>3 DEF Stops, DirectorDies
  <2>4. CASE ControlEnds(control)
    BY <1>a, <2>4, ControlEnded DEF Stops, ControlOrder
  <2>5. ASSUME control'.mShouldRun = control.mShouldRun PROVE FALSE
    BY <2>5 DEF Stops
  <2>9. CASE ControlThrows
    BY <2>4, <2>9 DEF ControlThrows
  <2>6. CASE InitControl \/ Awake
    <3>1. \/ ControlEnds(control)
          \/ control' = [control EXCEPT !.at = "warm", !.timer = WarmUp]
          \/ control' = [control EXCEPT !.at = "ping"]
      BY <2>6 DEF InitControl, Awake
    <3>2. ControlEnds(control) \/ control'.mShouldRun = control.mShouldRun
      BY <1>a, <3>1, Sets
    <3> QED BY <2>4, <2>5, <3>2
  <2>7. CASE Ping \/ Replied \/ ReplyInterrupted \/ Tick
    <3>1. control'.mShouldRun = control.mShouldRun
      BY <2>7, <1>a, Sets DEF Ping, Replied, ReplyInterrupted, Tick, Paused
    <3> QED BY <2>5, <3>1
  <2>8. Next
    BY <1>b DEF vars
  <2> QED BY <1>2, <1>b, <2>1, <2>2, <2>3, <2>9, <2>6, <2>7, <2>8
          DEF Next, Control, Thread, Main, Fault, InitHeartbeat, Receive, Reply, PingTimesOut,
              PingInterrupted, PingFails, Retry, StartHeartbeat, Watch, Joined, Suggest, Shutdown,
              DaemonDies, DaemonStarts, Late
<1> QED BY <1>1, <1>2

\* Nor does its thread end but so, or by an exception: init() finds the daemon, which
\* has a heartbeat thread.
LEMMA NotEnded ==
  ASSUME Known, [Next]_vars, control.mShouldRun, control.thread.mRunning, directing',
         heartbeat.thread.mRunning, ~ ControlThrows
  PROVE  control'.thread.mRunning
<1>a. /\ ControlOrder(control) /\ ThreadOrder(heartbeat) /\ Rest /\ control \in ControlState
  BY DEF Known, ControlOrder
<1>b. control.at # "none" /\ control.thread \in ThreadObject
  BY <1>a, ControlFields DEF ControlOrder
<1>1. ASSUME control'.thread = control.thread PROVE control'.thread.mRunning
  BY <1>1
<1>2. CASE Awake \/ Ping \/ Replied \/ ReplyTimesOut \/ ReplyInterrupted \/ Tick
  <2>1. control'.thread = control.thread
    BY <1>2, <1>a, Sets DEF Awake, Ping, Replied, ReplyTimesOut, ReplyInterrupted, Tick, Paused
  <2> QED BY <1>1, <2>1
<1>3. CASE InitControl
  <2>1. main.at # "down"
    BY <1>a DEF Rest, ThreadOrder
  <2>2. control'.thread = control.thread
    BY <1>3, <1>a, <2>1, Sets DEF InitControl
  <2> QED BY <1>1, <2>2
<1>4. CASE Register
  <2>1. UNCHANGED control
    BY <1>4 DEF Register
  <2> QED BY <1>1, <2>1
<1>5. CASE DirectorStarts
  <2>1. ~ directing
    BY <1>5 DEF DirectorStarts
  <2> QED BY <2>1 DEF Known, NoDirector
<1>6. CASE UNCHANGED control
  BY <1>1, <1>6
<1> QED BY <1>2, <1>3, <1>4, <1>5, <1>6
        DEF Next, vars, Control, Thread, Main, Fault, InitHeartbeat, Receive, Reply,
            PingTimesOut, PingInterrupted, PingFails, Retry, StartHeartbeat, Watch, Joined,
            Suggest, Shutdown, DaemonDies, DaemonStarts, DirectorDies, Late

\* The daemon counts its last failure, while it has a controller that goes on.
Despairs ==
  heartbeat.at = "receive" /\ heartbeat'.fails = DaemonFails
    /\ control.thread.mRunning /\ control.mShouldRun

\* It counts it when a receive times out, and never otherwise.
LEMMA LastCount ==
  ASSUME Known, [Next]_vars, heartbeat.at = "receive", heartbeat'.fails = DaemonFails
  PROVE  PingTimesOut /\ heartbeat.fails + 1 = DaemonFails
<1>a. /\ ThreadOrder(heartbeat) /\ Rest /\ heartbeat \in HeartbeatState
      /\ heartbeat.fails \in Nat /\ heartbeat.fails < DaemonFails /\ DaemonFails \in Nat
      /\ DaemonFails # 0
  BY Numbers, Times DEF Known, ThreadOrder
<1>b. heartbeat'.fails # heartbeat.fails /\ heartbeat'.fails # 0
  BY ONLY <1>a, heartbeat'.fails = DaemonFails
<1>1. Next
  BY <1>b DEF vars
<1>2. CASE PingTimesOut
  <2>1. LoopingOn(heartbeat.fails + 1, heartbeat.mShouldRun /\ heartbeat.fails + 1 < DaemonFails)
    BY <1>2 DEF LoopingOn
  <2>2. heartbeat'.fails = heartbeat.fails + 1
    BY <1>a, <2>1, ThreadLoopsOn
  <2> QED BY <1>2, <2>2
<1>3. CASE Reply \/ InitHeartbeat \/ StartHeartbeat
  <2>1. heartbeat.at # "receive"
    BY <1>3, <1>a DEF Reply, InitHeartbeat, StartHeartbeat, Rest
  <2> QED BY <2>1
<1>4. ASSUME NEW s, LoopingOn(heartbeat.fails, s) PROVE FALSE
  BY <1>4, <1>a, <1>b, ThreadLoopsOn
<1>5. CASE Receive
  <2>1. CASE heartbeat.mShouldRun
    BY <1>5, <2>1, <1>a, <1>b, Sets DEF Receive
  <2>2. CASE ~ heartbeat.mShouldRun
    BY <1>4, <1>5, <2>2 DEF LoopingOn
  <2> QED BY <2>1, <2>2
<1>6. CASE PingInterrupted \/ PingFails
  BY <1>4, <1>6 DEF LoopingOn
<1>7. CASE Watch \/ Joined \/ DaemonDies \/ DirectorDies \/ Suggest \/ Shutdown \/ Tick
  <2>1. \/ UNCHANGED heartbeat
        \/ heartbeat' = Reset(heartbeat)
        \/ heartbeat' = [heartbeat EXCEPT !.mShouldRun = FALSE]
        \/ heartbeat' = [heartbeat EXCEPT !.timer = Pass(@)]
        \/ heartbeat' = NewHeartbeat
    BY <1>7 DEF Watch, Joined, DaemonDies, DirectorDies, Suggest, Shutdown, Gone, Stopped, Tick
  <2>2. heartbeat'.fails = heartbeat.fails \/ heartbeat'.fails = 0
    <3>1. heartbeat' = Reset(heartbeat) => heartbeat'.fails = heartbeat.fails
      BY <1>a, Sets DEF Reset
    <3>2. heartbeat' = [heartbeat EXCEPT !.mShouldRun = FALSE]
            => heartbeat'.fails = heartbeat.fails
      BY <1>a, Sets
    <3>3. heartbeat' = [heartbeat EXCEPT !.timer = Pass(@)] => heartbeat'.fails = heartbeat.fails
      BY <1>a, Sets
    <3>4. heartbeat' = NewHeartbeat => heartbeat'.fails = 0
      BY DEF NewHeartbeat, NoControl
    <3> QED BY <2>1, <3>1, <3>2, <3>3, <3>4
  <2> QED BY <1>b, <2>2
<1>8. CASE UNCHANGED heartbeat
  BY <1>8, <1>b
<1> QED BY <1>1, <1>2, <1>3, <1>5, <1>6, <1>7, <1>8
        DEF Next, Control, Thread, Main, Fault, InitControl, Awake, Ping, Replied,
            ReplyTimesOut, ReplyInterrupted, ControlThrows, Register, Retry, DaemonStarts,
            DirectorStarts, Late

\* By then it has waited for as long as it may, and no longer than it was due to.
LEMMA DaemonPatient ==
  ASSUME Known, [Next]_vars, Despairs
  PROVE  DaemonFails * RecvTimeout
           <= Later(WarmUp, Pulse) + hurt["daemon"] * (RecvTimeout + Pulse)
<1>a. /\ ControlOrder(control) /\ ThreadOrder(heartbeat) /\ Boxes /\ Rest
  BY DEF Known
<1>1. PingTimesOut /\ heartbeat.fails + 1 = DaemonFails
  BY LastCount DEF Despairs
<1>2. heartbeat.at = "receive" /\ pings = <<>> /\ heartbeat.timer = 0
  BY <1>1 DEF PingTimesOut, Expired
<1>3. Enough
  <2>1. heartbeat.mShouldRun
    BY <1>a, <1>2 DEF Rest
  <2> QED BY <1>a, <1>2, <2>1, KnownEnough DEF InTouch, ThreadOrder, Despairs
<1>4. /\ Waited \in Nat /\ Ahead \in Nat /\ Due \in Nat /\ heartbeat.fails \in Nat
      /\ RecvTimeout \in Nat
  BY <1>a, Numbers
<1>5. Waited = Failed(DaemonFails)
  <2>1. Failed(heartbeat.fails) \in Nat
        /\ Failed(heartbeat.fails + 1) = Failed(heartbeat.fails) + RecvTimeout
    BY <1>4, Products
  <2>2. Waited = Failed(heartbeat.fails) + (RecvTimeout - 0)
    BY <1>2 DEF Waited
  <2>3. Waited = Failed(heartbeat.fails + 1)
    BY ONLY <1>4, <2>1, <2>2
  <2> QED BY <1>1, <2>3
<1>6. Waited <= Due
  <2>1. Waited + Ahead <= Due
    BY <1>3 DEF Enough
  <2> QED BY ONLY <1>4, <2>1
<1> QED BY <1>5, <1>6 DEF Failed, Due, Lost

\* No false alarm, whatever the times, limits and faults: the director gives up a
\* daemon that still answers only after as many failed exchanges as it tolerates or by
\* an exception in its controller, and the daemon counts out a director that still
\* pings it only when lost exchanges have kept the pings away for as long as it is
\* ready to wait.
THEOREM HeartbeatPatient == Spec => Patient
<1> DEFINE A ==
      /\ /\ GivesUp /\ directing'
         /\ heartbeat.thread.mRunning /\ heartbeat.mShouldRun
         => hurt["director"] >= DirectorFails \/ ControlThrows
      /\ /\ heartbeat.at = "receive" /\ heartbeat'.fails = DaemonFails
         /\ control.thread.mRunning /\ control.mShouldRun
         => DaemonFails * RecvTimeout
              <= Later(WarmUp, Pulse) + hurt["daemon"] * (RecvTimeout + Pulse)
<1>1. Known /\ [Next]_vars => A
  BY DirectorPatient, NotEnded, DaemonPatient DEF GivesUp, Stops, Despairs
<1>2. Known /\ [Next]_vars => [A]_vars
  BY <1>1
<1> QED BY <1>2, KnownAlways, PTL DEF Spec, Patient
=============================================================================
