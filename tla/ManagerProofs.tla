---------------------------- MODULE ManagerProofs ----------------------------
(***************************************************************************)
(* No process is forgotten by the manager, a stop leaves none, neither     *)
(* does a shutdown, and what is managed is as configured; with reports     *)
(* taken beside it the same holds, and a status is complete, whatever      *)
(* happens beside the walk that takes it: for any processes,               *)
(* configurations, commands and faults.                                    *)
(***************************************************************************)
EXTENDS StatusReport, SequenceTheorems, FiniteSetTheorems, TLAPS

\* In the middle of a command: which one.
Doing(where, op) == at = where => mStateQueue # <<>> /\ cmd.op = op

Busy ==
  /\ Doing("starting", "START") /\ Doing("stopping", "STOP")
  /\ Doing("walk", "CONFIGURE") /\ Doing("others", "CONFIGURE")
  /\ Doing("restart", "RESTART")
  /\ at = "restarting" => mStateQueue # <<>>
  /\ at = "walk" => todo \subseteq DOMAIN cmd.arg

\* A wrapper that is lost has been recorded as such; what is to be started has one, but
\* for the moment in which the handler has cleared the map.
Books ==
  /\ \A c \in Comps : life[c] = "lost" => c \in missed
  /\ ~Gone => orphans \subseteq missed
  /\ at \in Starting /\ handler # "heartbeat" => \A c \in todo : conf[c] # None

Stopped ==
  /\ at \in {"stopping", "walk", "others", "restart", "restarting"} => mAppRunning
  /\ at \in {"idle", "threads", "command"} /\ ~mAppRunning => \A c \in Comps : conf[c] = None

\* What runs after a shutdown was started after it.
Ended ==
  /\ mRun <=> handler = "no"
  /\ at = "exited" => handler = "done"
  /\ handler \in {"heartbeat", "done"} => \A c \in Comps : Running(c) => c \in late
  /\ ExitLeavesNone

Inv == TypeOK /\ Busy /\ Books /\ Stopped /\ Ended

Lives == {"none", "up", "told", "down", "lost"}

-----------------------------------------------------------------------------
(* The operators on mProcs.                                                *)

\* A command carries a configuration or the processes it is meant for.
LEMMA CommandType ==
  ASSUME NEW q \in Commands
  PROVE  /\ q.op \in {"START", "CONFIGURE"} =>
              q.arg \in Shares /\ DOMAIN q.arg \subseteq Comps
              /\ \A c \in DOMAIN q.arg : q.arg[c] \in Versions
         /\ q.op \in {"RESTART", "FAILSTART"} => q.arg \subseteq Comps
<1>1. ASSUME q.op \in {"START", "CONFIGURE"} PROVE q.arg \in Shares
  BY <1>1 DEF Commands
<1>2. ASSUME NEW share \in Shares
      PROVE  DOMAIN share \subseteq Comps /\ \A c \in DOMAIN share : share[c] \in Versions
  <2>1. PICK S \in SUBSET Comps : share \in [S -> Versions]
    BY ManagerAssumption
  <2> QED BY <2>1
<1>3. ASSUME q.op \in {"RESTART", "FAILSTART"} PROVE q.arg \subseteq Comps
  BY <1>3 DEF Commands
<1> QED BY <1>1, <1>2, <1>3

\* The first command is one.
LEMMA HeadTail ==
  ASSUME TypeOK, mStateQueue # <<>>
  PROVE  cmd \in Commands /\ Tail(mStateQueue) \in Seq(Commands)
  BY HeadTailProperties DEF TypeOK, cmd

\* Telling wrappers to stop makes none, and loses none.
LEMMA ToldType ==
  ASSUME TypeOK, NEW S
  PROVE  /\ Told(S) \in [Comps -> Lives]
         /\ \A c \in Comps : /\ Told(S)[c] = "none" <=> life[c] = "none"
                             /\ Told(S)[c] = "lost" <=> life[c] = "lost"
                             /\ Told(S)[c] \in {"up", "told"} <=> Running(c)
  BY DEF TypeOK, Told, Lives, Running

\* Wrappers that are replaced when they no longer run leave no child.
LEMMA ReplaceStep ==
  ASSUME TypeOK, Books, NEW S \in SUBSET Comps, NEW share, NEW state \in {"up", "down", "lost"},
         \A c \in S : share[c] \in Versions,
         \A c \in S : ~Running(c),
         Replace(S, share, state)
  PROVE  /\ conf' \in [Comps -> Versions \cup {None}] /\ life' \in [Comps -> Lives]
         /\ \A c \in Comps : conf'[c] = None <=> life'[c] = "none"
         /\ orphans' \subseteq orphans \cup missed /\ orphans' \subseteq Comps
         /\ \A c \in Comps : life'[c] = "lost" => c \in missed \/ (state = "lost" /\ c \in S)
         /\ \A c \in Comps : life'[c] \in {"up", "told"} => Running(c) \/ (state = "up" /\ c \in S)
         /\ \A c \in Comps : conf[c] # None => conf'[c] # None
<1>1. conf' \in [Comps -> Versions \cup {None}] /\ life' \in [Comps -> Lives]
  BY DEF Replace, TypeOK, Lives
<1>2. \A c \in Comps : conf'[c] = None <=> life'[c] = "none"
  BY ManagerAssumption DEF Replace, TypeOK
<1>3. orphans' \subseteq orphans \cup missed /\ orphans' \subseteq Comps
  BY DEF Replace, TypeOK, Books, Alive, Running
<1>4. \A c \in Comps : life'[c] = "lost" => c \in missed \/ (state = "lost" /\ c \in S)
  BY DEF Replace, Books
<1>5. \A c \in Comps : life'[c] \in {"up", "told"} => Running(c) \/ (state = "up" /\ c \in S)
  BY DEF Replace, Running
<1>6. \A c \in Comps : conf[c] # None => conf'[c] # None
  BY ManagerAssumption DEF Replace
<1> QED BY <1>1, <1>2, <1>3, <1>4, <1>5, <1>6

\* So do those that are dropped.
LEMMA DropStep ==
  ASSUME TypeOK, Books, NEW S \in SUBSET Comps, \A c \in S : ~Running(c),
         Drop(S), missed' = missed
  PROVE  /\ conf' \in [Comps -> Versions \cup {None}] /\ life' \in [Comps -> Lives]
         /\ \A c \in Comps : conf'[c] = None <=> life'[c] = "none"
         /\ orphans' \subseteq orphans \cup missed /\ orphans' \subseteq Comps
         /\ \A c \in Comps : life'[c] = "lost" => c \in missed
         /\ \A c \in Comps : life'[c] \in {"up", "told"} => Running(c)
         /\ \A c \in S : conf'[c] = None
  BY DEF Drop, TypeOK, Books, Alive, Running, Lives

-----------------------------------------------------------------------------
(* One lemma per group of actions.                                         *)

LEMMA InvInit == Init => Inv
<1> SUFFICES ASSUME Init PROVE Inv
  OBVIOUS
<1>1. <<>> \in Seq(Commands)
  OBVIOUS
<1>2. TypeOK
  <2>1. sent \in 0 .. MaxCommands
    BY ManagerAssumption DEF Init
  <2>2. conf \in [Comps -> Versions \cup {None}]
    BY DEF Init
  <2>3. life \in [Comps -> {"none", "up", "told", "down", "lost"}]
    BY DEF Init
  <2>4. \A c \in Comps : conf[c] = None <=> life[c] = "none"
    BY DEF Init
  <2>5. mStateQueue \in Seq(Commands)
    BY <1>1 DEF Init
  <2> QED BY <2>1, <2>2, <2>3, <2>4, <2>5 DEF Init, TypeOK
<1>3. Busy /\ Books /\ Stopped /\ Ended
  BY DEF Init, Busy, Doing, Books, Stopped, Ended, Gone, ExitLeavesNone, Starting
<1> QED BY <1>2, <1>3 DEF Inv

\* The queue, and the calls that fill it.
LEMMA QueueStep ==
  ASSUME Inv,
         \/ \E command \in Commands : ChangeState(command)
         \/ DirectorCalls \/ DirectorCalled \/ ToThreads \/ FromThreads
         \/ CheckNewState \/ NewStateChecked \/ Ignore
  PROVE  Inv'
<1> USE DEF Inv, procs, history, others, Main
<1>1. ASSUME NEW command \in Commands,
             mStateQueue' = Append(mStateQueue, command), Unlocked,
             UNCHANGED <<mAppRunning, mRun, at, todo, procs, handler, history>>,
             sent' \in 0 .. MaxCommands, director' \in {"none", "runs", "calls"}
      PROVE  Inv'
  <2>1. Append(mStateQueue, command) \in Seq(Commands)
    BY <1>1 DEF TypeOK
  <2>2. TypeOK'
    BY <1>1, <2>1 DEF TypeOK
  <2>3. (Busy /\ Books /\ Stopped /\ Ended)'
    BY <1>1 DEF Unlocked, Busy, Doing, Books, Starting, Stopped, Ended, Gone, Running,
                ExitLeavesNone
  <2> QED BY <2>2, <2>3
<1>2. ASSUME NEW command \in Commands, ChangeState(command) PROVE Inv'
  <2>1. sent' \in 0 .. MaxCommands
    BY <1>2, ManagerAssumption DEF ChangeState, TypeOK
  <2> QED BY <1>1, <1>2, <2>1 DEF ChangeState, TypeOK
<1>3. CASE DirectorCalled
  <2>1. PICK command \in Commands : mStateQueue' = Append(mStateQueue, command)
    BY <1>3 DEF DirectorCalled
  <2> QED BY <1>1, <1>3, <2>1 DEF DirectorCalled, TypeOK
<1>4. CASE DirectorCalls \/ ToThreads
  <2>1. TypeOK'
    BY <1>4, ManagerAssumption DEF DirectorCalls, ToThreads, TypeOK
  <2>2. (Busy /\ Books /\ Stopped /\ Ended)'
    BY <1>4 DEF DirectorCalls, ToThreads, Busy, Doing, cmd, Books, Starting, Stopped, Ended, Gone,
                Running, ExitLeavesNone
  <2> QED BY <2>1, <2>2
<1>5. CASE FromThreads \/ CheckNewState \/ NewStateChecked
  <2>1. TypeOK'
    BY <1>5 DEF FromThreads, CheckNewState, NewStateChecked, TypeOK
  <2>2. (Busy /\ Books /\ Stopped /\ Ended)'
    BY <1>5 DEF FromThreads, CheckNewState, NewStateChecked, Busy, Doing, Books, Starting, Stopped,
                Ended, Gone, Running, ExitLeavesNone
  <2> QED BY <2>1, <2>2
<1>6. CASE Ignore
  <2>1. TypeOK'
    BY <1>6, HeadTail DEF Ignore, Pop, TypeOK
  <2>2. (Busy /\ Books /\ Stopped /\ Ended)'
    BY <1>6 DEF Ignore, Pop, Busy, Doing, Books, Starting, Stopped, Ended, Gone, Running,
                ExitLeavesNone
  <2> QED BY <2>1, <2>2
<1> QED BY <1>2, <1>3, <1>4, <1>5, <1>6

\* The end of the daemon, in order and not.
LEMMA LeaveStep ==
  ASSUME Inv, Quit \/ StartFails \/ CrashErased
  PROVE  Inv'
<1> USE DEF Inv, procs, history, others, Main
<1>1. at \notin {"exited", "failed"}
  <2>1. Starts # {} => at \in Starting \cup {"walk"}
    BY DEF Starts, Walks
  <2> QED BY <2>1 DEF Quit, StartFails, CrashErased, Gone, Starting
<1>2. PICK where \in {"exited", "failed"} :
        /\ Leaves(where)
        /\ where = "exited" => at = "idle" /\ ~mRun /\ handler = "done" /\ handler' = handler
  BY DEF Quit, StartFails, CrashErased, Ended
<1>3. /\ handler' \in {"no", "done"} /\ (handler' = "no" <=> handler = "no")
      /\ where = "exited" => handler' = "done"
  BY <1>2 DEF Quit, StartFails, CrashErased
<1>4. TypeOK'
  BY <1>2, <1>3 DEF Leaves, TypeOK, Alive
<1>5. where = "exited" => orphans' \subseteq missed \cup late
  BY <1>1, <1>2 DEF Leaves, Books, Ended, Alive, Running, Gone, TypeOK
<1>6. (Busy /\ Books /\ Stopped)'
  BY <1>2 DEF Leaves, Busy, Doing, Books, Starting, Stopped, Gone
<1>7. Ended'
  BY <1>2, <1>3, <1>5 DEF Leaves, Ended, Gone, Running, ExitLeavesNone
<1> QED BY <1>4, <1>6, <1>7

\* Wrappers are told to stop: by a command or by the handler.
LEMMA ToldStep ==
  ASSUME Inv, SignalLocked \/ DirectorJoined \/ \E c \in todo : Stop(c) \/ StopChanged(c)
  PROVE  Inv'
<1> USE DEF Inv, procs, history, others, Main
<1>1. PICK S : life' = Told(S)
  BY DEF SignalLocked, DirectorJoined, Stop, StopChanged
<1>2. /\ life' \in [Comps -> Lives]
      /\ \A c \in Comps : /\ life'[c] = "none" <=> life[c] = "none"
                          /\ life'[c] = "lost" <=> life[c] = "lost"
                          /\ life'[c] \in {"up", "told"} <=> Running(c)
  BY <1>1, ToldType
<1>3. /\ UNCHANGED <<mStateQueue, mAppRunning, at, conf, checked, orphans, history, sent>>
      /\ todo' \subseteq todo /\ director' \in {"none", "runs", "calls"}
  BY DEF SignalLocked, DirectorJoined, Stop, StopChanged, TypeOK
<1>4. \/ handler' = handler /\ mRun' = mRun
      \/ handler = "no" /\ handler' = "stuck" /\ ~mRun' /\ ~Gone
      \/ handler = "director" /\ handler' = "joins" /\ mRun' = mRun
  BY DEF SignalLocked, Signalled, DirectorJoined, Stop, StopChanged
<1>5. mRun' \in BOOLEAN
  BY DEF SignalLocked, Signalled, DirectorJoined, Stop, StopChanged, TypeOK
<1>6. TypeOK'
  BY <1>2, <1>3, <1>4, <1>5 DEF TypeOK, Lives
<1>7. (Busy /\ Books /\ Stopped)'
  BY <1>2, <1>3, <1>4 DEF Busy, Doing, cmd, Books, Starting, Stopped, Gone
<1>8. Ended'
  BY <1>2, <1>3, <1>4 DEF Ended, Gone, Running, ExitLeavesNone
<1> QED BY <1>6, <1>7, <1>8

\* Wrappers that have ended are dropped: by a command or by the handler.
LEMMA DropAllStep ==
  ASSUME Inv, JoinAll \/ EraseOthers \/ ShutDown
  PROVE  Inv'
<1> USE DEF Inv, procs, history, others, Main, AllTold
<1>1. CASE JoinAll
  <2>1. mStateQueue # <<>> /\ at = "stopping" /\ handler \in {"no", "done"}
    BY <1>1 DEF JoinAll, Busy, Doing
  <2>2. missed' = missed /\ late' = late /\ mRun' = mRun /\ handler' = handler
    BY <1>1 DEF JoinAll
  <2>3. /\ conf' \in [Comps -> Versions \cup {None}] /\ life' \in [Comps -> Lives]
        /\ \A c \in Comps : conf'[c] = None <=> life'[c] = "none"
        /\ orphans' \subseteq orphans \cup missed /\ orphans' \subseteq Comps
        /\ \A c \in Comps : life'[c] = "lost" => c \in missed
        /\ \A c \in Comps : life'[c] \in {"up", "told"} => Running(c)
        /\ \A c \in Comps : conf'[c] = None
    BY <1>1, <2>2, DropStep DEF JoinAll
  <2>4. TypeOK'
    BY <1>1, <2>1, <2>3, HeadTail DEF JoinAll, Pop, TypeOK, Lives
  <2>5. (Busy /\ Books /\ Stopped /\ Ended)'
    BY <1>1, <2>1, <2>2, <2>3
       DEF JoinAll, Pop, Busy, Doing, Books, Starting, Stopped, Ended, Gone, Running,
           ExitLeavesNone
  <2> QED BY <2>4, <2>5
<1>2. CASE EraseOthers
  <2>1. mStateQueue # <<>> /\ at = "others" /\ handler \in {"no", "done"}
    BY <1>2 DEF EraseOthers, Busy, Doing
  <2>2. missed' = missed /\ late' = late /\ mRun' = mRun /\ handler' = handler
        /\ mAppRunning' = mAppRunning
    BY <1>2 DEF EraseOthers
  <2>3. PICK gone \in SUBSET Unchecked :
          Drop(gone) /\ leftover' = leftover \cup (Unchecked \ gone)
    <3>1. Erasures \subseteq SUBSET Unchecked
      BY DEF Erasures
    <3> QED BY <1>2, <3>1 DEF EraseOthers
  <2>4. gone \in SUBSET Comps /\ \A c \in gone : ~Running(c)
    BY <1>2 DEF EraseOthers, Unchecked
  <2>5. /\ conf' \in [Comps -> Versions \cup {None}] /\ life' \in [Comps -> Lives]
        /\ \A c \in Comps : conf'[c] = None <=> life'[c] = "none"
        /\ orphans' \subseteq orphans \cup missed /\ orphans' \subseteq Comps
        /\ \A c \in Comps : life'[c] = "lost" => c \in missed
        /\ \A c \in Comps : life'[c] \in {"up", "told"} => Running(c)
    BY <2>2, <2>3, <2>4, DropStep
  <2>6. leftover' \subseteq Comps
    BY <2>3 DEF TypeOK, Unchecked
  <2>7. TypeOK'
    BY <1>2, <2>1, <2>5, <2>6, HeadTail DEF EraseOthers, Pop, TypeOK, Lives
  <2>8. (Busy /\ Books /\ Stopped /\ Ended)'
    BY <1>2, <2>1, <2>2, <2>5
       DEF EraseOthers, Pop, Busy, Doing, Books, Starting, Stopped, Ended, Gone, Running,
           ExitLeavesNone
  <2> QED BY <2>7, <2>8
<1>3. CASE ShutDown
  <2>1. missed' = missed /\ at \notin {"exited", "failed"}
    BY <1>3 DEF ShutDown, Gone
  <2>2. /\ conf' \in [Comps -> Versions \cup {None}] /\ life' \in [Comps -> Lives]
        /\ \A c \in Comps : conf'[c] = None <=> life'[c] = "none"
        /\ orphans' \subseteq orphans \cup missed /\ orphans' \subseteq Comps
        /\ \A c \in Comps : life'[c] = "lost" => c \in missed
        /\ \A c \in Comps : conf'[c] = None
    BY <1>3, <2>1, DropStep DEF ShutDown
  <2>3. TypeOK'
    BY <1>3, <2>2 DEF ShutDown, TypeOK, Lives
  <2>4. (Busy /\ Books /\ Stopped)'
    BY <1>3, <2>1, <2>2 DEF ShutDown, Busy, Doing, cmd, Books, Starting, Stopped, Gone
  <2>5. Ended'
    BY <1>3, <2>1, <2>2 DEF ShutDown, Ended, Gone, Running, ExitLeavesNone
  <2> QED BY <2>3, <2>4, <2>5
<1> QED BY <1>1, <1>2, <1>3

\* What is started next has a configuration, and does not run.
LEMMA StartsType ==
  ASSUME Inv, NEW c \in Starts, handler # "heartbeat"
  PROVE  /\ c \in Comps /\ c \in todo /\ ~Running(c) /\ NewConf[c] \in Versions
         /\ at \in Starting \cup {"walk"} /\ mStateQueue # <<>>
         /\ at = "walk" => c \in DOMAIN cmd.arg
<1>1. c \in Comps /\ c \in todo /\ ~Running(c) /\ at \in Starting \cup {"walk"}
  BY DEF Starts, Walks, Inv, TypeOK
<1>2. CASE at = "walk"
  <2>1. mStateQueue # <<>> /\ cmd.op = "CONFIGURE" /\ c \in DOMAIN cmd.arg
    BY <1>1, <1>2 DEF Inv, Busy, Doing
  <2> QED BY <1>1, <1>2, <2>1, HeadTail, CommandType DEF NewConf, Inv
<1>3. CASE at \in Starting
  <2>1. conf[c] \in Versions
    BY <1>1, <1>3 DEF Inv, Books, TypeOK
  <2> QED BY <1>1, <1>3, <2>1 DEF NewConf, Starting, Inv, Busy, Doing
<1> QED BY <1>1, <1>2, <1>3

\* New wrappers are made for a system that is started; their threads come later.
LEMMA MadeStep ==
  ASSUME Inv, StartProcesses
  PROVE  Inv'
<1> USE DEF Inv, procs, history, others, Main
<1> DEFINE new == {c \in DOMAIN cmd.arg : conf[c] = None}
<1>1. cmd \in Commands /\ cmd.op = "START" /\ mStateQueue # <<>>
  BY HeadTail DEF StartProcesses, Handling
<1>2. DOMAIN cmd.arg \subseteq Comps /\ \A c \in DOMAIN cmd.arg : cmd.arg[c] \in Versions
  BY <1>1, CommandType
<1>3. new \in SUBSET Comps /\ \A c \in new : cmd.arg[c] \in Versions /\ ~Running(c)
  BY <1>2 DEF TypeOK, Running
<1>4. Replace(new, cmd.arg, "down") /\ todo' = new
  BY DEF StartProcesses
<1>5. /\ conf' \in [Comps -> Versions \cup {None}] /\ life' \in [Comps -> Lives]
      /\ \A c \in Comps : conf'[c] = None <=> life'[c] = "none"
      /\ orphans' \subseteq orphans \cup missed /\ orphans' \subseteq Comps
      /\ \A c \in Comps : life'[c] = "lost" => c \in missed
      /\ \A c \in Comps : life'[c] \in {"up", "told"} => Running(c)
  <2> HIDE DEF new
  <2> QED BY <1>3, <1>4, ReplaceStep
<1>6. \A c \in new : conf'[c] # None
  BY <1>3, <1>4, ManagerAssumption DEF Replace
<1>7. TypeOK'
  BY <1>3, <1>4, <1>5 DEF StartProcesses, TypeOK, Lives
<1>8. Busy'
  BY <1>1 DEF StartProcesses, Busy, Doing, cmd
<1>9. (Books /\ Stopped)'
  BY <1>4, <1>5, <1>6 DEF StartProcesses, Handling, Books, Starting, Stopped, Gone
<1>10. Ended'
  BY <1>5 DEF StartProcesses, Handling, Ended, Gone, Running, ExitLeavesNone
<1> QED BY <1>7, <1>8, <1>9, <1>10

\* A thread is started, of a system, a configuration or a restart, or the signal cuts
\* into its start.
LEMMA StartStep ==
  ASSUME Inv, \E c \in todo : Start(c) \/ StartConfigured(c) \/ SignalUnseen(c)
  PROVE  Inv'
<1> USE DEF Inv, procs, history, others, Main
<1>1. PICK c \in todo : Start(c) \/ StartConfigured(c) \/ SignalUnseen(c)
  OBVIOUS
<1>2. PICK S \in SUBSET Starts, state \in {"up", "lost"} :
        /\ Replace(S, NewConf, state)
        /\ state = "up" => late' = (IF mRun THEN late ELSE late \cup S) /\ missed' = missed
        /\ state = "lost" => late' = late /\ missed' = missed \cup S
        /\ state = "lost" <=> handler' # handler
  <2>1. CASE Start(c)
    BY <2>1 DEF Start, StartNew
  <2>2. CASE StartConfigured(c)
    BY <2>2 DEF StartConfigured, StartNew
  <2>3. CASE SignalUnseen(c)
    <3>1. {c} \in SUBSET Starts /\ handler' # handler
      BY <2>3 DEF SignalUnseen, Signalled
    <3>2. Replace({c}, NewConf, "lost") /\ late' = late /\ missed' = missed \cup {c}
      BY <2>3 DEF SignalUnseen
    <3> QED BY <3>1, <3>2
  <2> QED BY <1>1, <2>1, <2>2, <2>3
<1>3. handler # "heartbeat" /\ ~Gone /\ at \in Starting \cup {"walk"}
  BY <1>1, StartsType
     DEF Start, StartConfigured, SignalUnseen, Signalled, Starts, Walks, Gone, Starting
<1>4. S \in SUBSET Comps /\ \A d \in S : NewConf[d] \in Versions /\ ~Running(d)
  BY <1>3, StartsType
<1>5. /\ conf' \in [Comps -> Versions \cup {None}] /\ life' \in [Comps -> Lives]
      /\ \A d \in Comps : conf'[d] = None <=> life'[d] = "none"
      /\ orphans' \subseteq orphans \cup missed /\ orphans' \subseteq Comps
      /\ \A d \in Comps : life'[d] = "lost" => d \in missed \/ (state = "lost" /\ d \in S)
      /\ \A d \in Comps : life'[d] \in {"up", "told"} => Running(d) \/ (state = "up" /\ d \in S)
      /\ \A d \in Comps : conf[d] # None => conf'[d] # None
  BY <1>2, <1>4, ReplaceStep
<1>6. /\ UNCHANGED <<mStateQueue, mAppRunning, at, director, sent, leftover>>
      /\ todo' \subseteq todo /\ checked' \subseteq Comps
      /\ \/ handler' = handler /\ mRun' = mRun
         \/ handler = "no" /\ handler' = "director" /\ ~mRun'
  BY <1>1 DEF Start, StartConfigured, SignalUnseen, Signalled, Checked, TypeOK
<1>7. mRun' \in BOOLEAN
  BY <1>1 DEF Start, StartConfigured, SignalUnseen, Signalled, TypeOK
<1>8. /\ missed \subseteq missed' /\ missed' \subseteq Comps
      /\ late \subseteq late' /\ late' \subseteq Comps
      /\ \A d \in Comps : life'[d] = "lost" => d \in missed'
      /\ state = "up" /\ ~mRun => S \subseteq late'
  BY <1>2, <1>4, <1>5 DEF TypeOK
<1>9. TypeOK'
  BY <1>5, <1>6, <1>7, <1>8 DEF TypeOK, Lives
<1>10. Busy'
  BY <1>6 DEF Busy, Doing, cmd
<1>11. (Books /\ Stopped)'
  BY <1>3, <1>5, <1>6, <1>8 DEF Books, Starting, Stopped, Gone, TypeOK
<1>12. Ended'
  <2>1. at' \notin {"exited", "failed"}
    BY <1>3, <1>6 DEF Gone
  <2>2. mRun' <=> handler' = "no"
    BY <1>6 DEF Ended
  <2>3. ASSUME handler' \in {"heartbeat", "done"}, NEW d \in Comps, Running(d)'
        PROVE  d \in late'
    <3>1. handler' = handler /\ ~mRun /\ state = "up"
      BY <1>2, <1>6, <2>3 DEF Ended
    <3>2. Running(d) \/ d \in S
      BY <1>5, <2>3 DEF Running
    <3> QED BY <1>8, <2>3, <3>1, <3>2 DEF Ended
  <2> QED BY <2>1, <2>2, <2>3 DEF Ended, ExitLeavesNone
<1> QED BY <1>9, <1>10, <1>11, <1>12

\* Where the main thread and the handler are moves on, and nothing else does.
LEMMA LoopStep ==
  ASSUME Inv, \/ StopAll \/ StopOthers \/ RestartProcess \/ RestartJoined \/ Restarted
              \/ Started \/ Configure \/ Signal \/ HeartbeatJoined
              \/ \E c \in todo : NoChange(c)
  PROVE  Inv'
<1> USE DEF Inv, procs, history, others, Main, AllTold
<1>1. CASE StopAll \/ StopOthers
  <2>1. TypeOK'
    BY <1>1 DEF StopAll, StopOthers, TypeOK, Unchecked
  <2>2. (Busy /\ Books /\ Stopped /\ Ended)'
    BY <1>1 DEF StopAll, StopOthers, Handling, Busy, Doing, cmd, Books, Starting, Stopped, Ended,
                Gone, Running, ExitLeavesNone
  <2> QED BY <2>1, <2>2
<1>2. CASE RestartProcess \/ RestartJoined
  <2>1. mStateQueue # <<>> /\ cmd.op \in {"RESTART", "FAILSTART"} /\ mAppRunning
    BY <1>2 DEF RestartProcess, RestartJoined, Handling, Busy, Doing, Stopped
  <2>2. cmd.arg \subseteq Comps
    BY <2>1, HeadTail, CommandType
  <2>3. Matching \subseteq Comps /\ \A c \in Matching : conf[c] # None
    BY <2>2 DEF Matching
  <2>4. TypeOK'
    BY <1>2, <2>3 DEF RestartProcess, RestartJoined, TypeOK
  <2>5. /\ UNCHANGED <<mStateQueue, mAppRunning, mRun, procs, others, history>>
        /\ at \in {"command", "restart"} /\ at' \in {"restart", "restarting"} /\ todo' = Matching
        /\ at' = "restart" => cmd.op = "RESTART"
    BY <1>2 DEF RestartProcess, RestartJoined, Handling
  <2>6. (Busy /\ Stopped)'
    BY <2>1, <2>5 DEF Busy, Doing, cmd, Stopped
  <2>7. (Books /\ Ended)'
    BY <2>3, <2>5 DEF Books, Starting, Ended, Gone, Running, ExitLeavesNone
  <2> QED BY <2>4, <2>6, <2>7
<1>3. CASE Started \/ Restarted
  <2>1. mStateQueue # <<>> /\ at \in Starting
    BY <1>3 DEF Started, Restarted, Busy, Doing, Starting
  <2>2. TypeOK'
    BY <1>3, <2>1, HeadTail DEF Started, Restarted, Pop, TypeOK
  <2>3. (Busy /\ Books /\ Stopped /\ Ended)'
    BY <1>3, <2>1 DEF Started, Restarted, Pop, Busy, Doing, Books, Starting, Stopped, Ended, Gone,
                Running, ExitLeavesNone
  <2> QED BY <2>2, <2>3
<1>4. CASE Configure
  <2>1. DOMAIN cmd.arg \subseteq Comps
    BY <1>4, HeadTail, CommandType DEF Configure, Handling
  <2>2. TypeOK'
    BY <1>4, <2>1 DEF Configure, TypeOK
  <2>3. (Busy /\ Books /\ Stopped /\ Ended)'
    BY <1>4 DEF Configure, Handling, Busy, Doing, cmd, Books, Starting, Stopped, Ended, Gone,
                Running, ExitLeavesNone
  <2> QED BY <2>2, <2>3
<1>5. CASE Signal \/ HeartbeatJoined
  <2>1. TypeOK'
    BY <1>5 DEF Signal, Signalled, HeartbeatJoined, TypeOK
  <2>2. (Busy /\ Books /\ Stopped)'
    BY <1>5 DEF Signal, Signalled, HeartbeatJoined, Busy, Doing, cmd, Books, Starting, Stopped, Gone
  <2>3. Ended'
    BY <1>5 DEF Signal, Signalled, HeartbeatJoined, Ended, Gone, Running, ExitLeavesNone
  <2> QED BY <2>1, <2>2, <2>3
<1>6. ASSUME NEW c \in todo, NoChange(c)
      PROVE  Inv'
  <2>1. TypeOK'
    BY <1>6 DEF NoChange, Walks, Checked, TypeOK
  <2>2. (Busy /\ Books /\ Stopped /\ Ended)'
    BY <1>6 DEF NoChange, Walks, Checked, Busy, Doing, cmd, Books, Starting, Stopped, Ended, Gone,
                Running, ExitLeavesNone
  <2> QED BY <2>1, <2>2
<1> QED BY <1>1, <1>2, <1>3, <1>4, <1>5, <1>6

\* The wrappers' own steps.
LEMMA WrapperStep ==
  ASSUME Inv, \E c \in Comps : End(c) \/ StopDead(c)
  PROVE  Inv'
<1> USE DEF Inv, procs, history, others, Main
<1>1. PICK c \in Comps : End(c) \/ StopDead(c)
  OBVIOUS
<1>2. TypeOK'
  BY <1>1 DEF End, StopDead, TypeOK
<1>3. (Busy /\ Stopped)'
  BY <1>1 DEF End, StopDead, Busy, Doing, cmd, Stopped
<1>4. (Books /\ Ended)'
  BY <1>1 DEF End, StopDead, Books, Starting, Ended, Gone, Running, ExitLeavesNone, TypeOK
<1> QED BY <1>2, <1>3, <1>4

-----------------------------------------------------------------------------
(* What is managed between commands, and on the way there.                 *)

\* c is managed as share has it, unless a shutdown has dropped it.
Fits(c, share) == conf[c] = share[c] \/ (~mRun /\ conf[c] = None)

Holds(share) == DOMAIN share \subseteq Comps /\ \A c \in DOMAIN share : Fits(c, share)

Only(S) == \A c \in Comps : conf[c] # None => c \in S

Settled == {"idle", "threads", "command", "restart", "restarting"}

\* A start has made all of the configuration, a walk over one what it has checked;
\* restarts change none.
Configured ==
  /\ at \in Settled /\ mAppRunning => Holds(applied) /\ Only(DOMAIN applied \cup leftover)
  /\ at = "starting" => Holds(cmd.arg) /\ Only(DOMAIN cmd.arg)
  /\ at = "walk" => checked \cup todo = DOMAIN cmd.arg
  /\ at = "others" => checked = DOMAIN cmd.arg
  /\ at \in {"walk", "others"} => \A c \in checked : Fits(c, cmd.arg)

\* What changes neither the configurations nor the command keeps it.
LEMMA ConfiguredKept ==
  ASSUME Configured,
         UNCHANGED <<conf, mRun, applied, leftover, mAppRunning, checked>>,
         at = "walk" => todo' = todo,
         \/ at' = at /\ cmd' = cmd
         \/ at' \in Settled /\ at \in Settled
  PROVE  Configured'
  BY DEF Configured, Holds, Only, Fits, Settled

\* The commands that start and restart, which no other interrupts but the signal.
LEMMA StartConfigures ==
  ASSUME Inv, Configured, StartProcesses \/ Started \/ \E c \in todo : Start(c)
  PROVE  Configured'
<1> USE DEF Inv, procs, history, others, Main
<1>1. CASE StartProcesses
  <2>1. DOMAIN cmd.arg \subseteq Comps /\ mStateQueue' = mStateQueue /\ at' = "starting"
    BY <1>1, HeadTail, CommandType DEF StartProcesses, Handling
  <2>2. \A c \in Comps : conf[c] = None
    BY <1>1 DEF StartProcesses, Handling, Stopped
  <2>3. conf' = [c \in Comps |-> IF c \in DOMAIN cmd.arg THEN cmd.arg[c] ELSE conf[c]]
    BY <1>1, <2>1, <2>2 DEF StartProcesses, Replace
  <2>4. cmd' = cmd
    BY <2>1 DEF cmd
  <2>5. Holds(cmd.arg)' /\ Only(DOMAIN cmd.arg)'
    BY <2>1, <2>2, <2>3, <2>4 DEF Holds, Fits, Only
  <2> QED BY <2>1, <2>5 DEF Configured, Settled
<1>2. CASE Started
  <2>1. Holds(cmd.arg) /\ Only(DOMAIN cmd.arg)
    BY <1>2 DEF Started, Configured
  <2>2. at' = "command" /\ applied' = cmd.arg /\ conf' = conf /\ mRun' = mRun
    BY <1>2 DEF Started, Pop
  <2>3. Holds(applied)' /\ Only(DOMAIN applied \cup leftover)'
    BY <2>1, <2>2 DEF Holds, Fits, Only
  <2> QED BY <2>2, <2>3 DEF Configured
<1>3. ASSUME NEW c \in todo, Start(c) PROVE Configured'
  <2>1. NewConf = conf
    BY <1>3 DEF Start, Starting, NewConf
  <2>2. conf' = conf
    BY <1>3, <2>1 DEF Start, StartNew, Replace, TypeOK
  <2>3. /\ UNCHANGED <<mRun, applied, leftover, mAppRunning, checked, mStateQueue, at>>
        /\ at # "walk"
    BY <1>3 DEF Start, Starting
  <2> QED BY <2>2, <2>3, ConfiguredKept DEF cmd
<1> QED BY <1>1, <1>2, <1>3

\* The walk over a new configuration: each process it has checked is as it says.
LEMMA WalkConfigures ==
  ASSUME Inv, Configured,
         \/ Configure \/ StopOthers
         \/ \E c \in todo : NoChange(c) \/ StopChanged(c) \/ StartConfigured(c)
  PROVE  Configured'
<1> USE DEF Inv, procs, history, others, Main, AllTold
<1>1. mStateQueue' = mStateQueue /\ cmd' = cmd /\ mRun' = mRun
  BY DEF Configure, StopOthers, NoChange, StopChanged, StartConfigured, cmd
<1>2. CASE Configure
  BY <1>1, <1>2 DEF Configure, Configured, Settled
<1>3. CASE StopOthers
  BY <1>1, <1>3 DEF StopOthers, Configured, Fits, Settled
<1>4. ASSUME NEW c \in todo, StopChanged(c) PROVE Configured'
  BY <1>1, <1>4, ConfiguredKept DEF StopChanged
<1>5. ASSUME NEW c \in todo, NoChange(c) \/ StartConfigured(c) PROVE Configured'
  <2>1. /\ at = "walk" /\ at' = "walk"
        /\ checked' = checked \cup {c} /\ todo' = todo \ {c}
    BY <1>5 DEF NoChange, StartConfigured, Checked
  <2>2. c \in Comps /\ conf'[c] = cmd.arg[c] /\ \A d \in Comps \ {c} : conf'[d] = conf[d]
    BY <1>5 DEF NoChange, StartConfigured, StartNew, Replace, NewConf, Unchanged, TypeOK
  <2>3. \A d \in checked' : Fits(d, cmd.arg)'
    BY <1>1, <2>1, <2>2 DEF Configured, Fits, TypeOK
  <2>4. checked' \cup todo' = (DOMAIN cmd.arg)'
    BY <1>1, <2>1 DEF Configured
  <2> QED BY <2>1, <2>3, <2>4 DEF Configured, Settled
<1> QED BY <1>2, <1>3, <1>4, <1>5

\* What is not in it is erased, or passed over.
LEMMA EraseConfigures ==
  ASSUME Inv, Configured, EraseOthers
  PROVE  Configured'
<1> USE DEF Inv, procs, history, others, Main, AllTold
<1>1. at = "others" /\ mStateQueue # <<>> /\ cmd.op = "CONFIGURE"
  BY DEF EraseOthers, Busy, Doing
<1>2. DOMAIN cmd.arg \subseteq Comps
  BY <1>1, HeadTail, CommandType
<1>3. /\ at' = "command" /\ applied' = cmd.arg /\ mRun' = mRun
  BY DEF EraseOthers, Pop
<1>4. PICK gone : Drop(gone) /\ gone \subseteq Unchecked
                  /\ leftover' = leftover \cup (Unchecked \ gone)
  BY DEF EraseOthers, Erasures
<1>5. checked = DOMAIN cmd.arg /\ \A c \in checked : Fits(c, cmd.arg)
  BY <1>1 DEF Configured
<1>6. /\ \A c \in gone : conf'[c] = None
      /\ \A c \in Comps \ gone : conf'[c] = conf[c]
  BY <1>4 DEF Drop, Unchecked
<1>7. Holds(applied)'
  BY <1>2, <1>3, <1>4, <1>5, <1>6 DEF Holds, Fits, Unchecked
<1>8. Only(DOMAIN applied \cup leftover)'
  BY <1>3, <1>4, <1>5, <1>6 DEF Only, Unchecked
<1> QED BY <1>3, <1>7, <1>8 DEF Configured, Settled

\* The signal, wherever it cuts in.
LEMMA SignalConfigures ==
  ASSUME Inv, Configured,
         Signal \/ SignalLocked \/ DirectorJoined \/ ShutDown \/ HeartbeatJoined
  PROVE  Configured'
<1> USE DEF Inv, procs, history, others, Main
<1>1. /\ ~mRun'
      /\ UNCHANGED <<mStateQueue, at, applied, leftover, mAppRunning, checked>>
      /\ at = "walk" => todo' = todo
  BY DEF Signal, SignalLocked, Signalled, DirectorJoined, ShutDown, HeartbeatJoined, Ended
<1>2. cmd' = cmd /\ (mRun' => mRun)
  BY <1>1 DEF cmd
<1>3. \A c \in Comps : conf'[c] = conf[c] \/ conf'[c] = None
  BY DEF Signal, SignalLocked, DirectorJoined, ShutDown, HeartbeatJoined, Drop
<1>4. \A c \in checked : Fits(c, cmd.arg) => Fits(c, cmd.arg)'
  BY <1>1, <1>2, <1>3 DEF Fits, TypeOK
<1>5. Holds(applied) => Holds(applied)'
  BY <1>1, <1>3 DEF Holds, Fits
<1>6. Holds(cmd.arg) => Holds(cmd.arg)'
  BY <1>1, <1>2, <1>3 DEF Holds, Fits
<1> QED BY <1>1, <1>2, <1>3, <1>4, <1>5, <1>6 DEF Configured, Only, Settled

\* Also into the start of a thread that is not seen yet.
LEMMA UnseenConfigures ==
  ASSUME Inv, Configured, NEW c \in todo, SignalUnseen(c)
  PROVE  Configured'
<1> USE DEF Inv, procs, history, others, Main
<1>1. /\ ~mRun' /\ mRun
      /\ UNCHANGED <<mStateQueue, at, applied, leftover, mAppRunning, checked, todo>>
      /\ cmd' = cmd
  BY DEF SignalUnseen, Signalled, Ended, cmd
<1>2. c \in Comps /\ at \in Starting \cup {"walk"}
  BY StartsType DEF SignalUnseen, Signalled
<1>3. CASE at = "walk"
  <2>1. /\ conf' \in [Comps -> Versions \cup {None}] /\ conf'[c] = cmd.arg[c]
        /\ \A d \in Comps \ {c} : conf'[d] = conf[d]
    <3>1. conf' = [d \in Comps |-> IF d \in {c} THEN cmd.arg[d] ELSE conf[d]]
      BY <1>3 DEF SignalUnseen, Replace, NewConf
    <3>2. cmd.arg[c] \in Versions
      BY <1>3, StartsType DEF SignalUnseen, Signalled, NewConf
    <3> QED BY <1>2, <3>1, <3>2 DEF TypeOK
  <2>2. \A d \in checked : Fits(d, cmd.arg)'
    BY <1>1, <1>3, <2>1 DEF Configured, Fits, TypeOK
  <2> QED BY <1>1, <1>3, <2>2 DEF Configured, Settled
<1>4. CASE at \in Starting
  <2>1. conf' = conf
    BY <1>4 DEF SignalUnseen, Replace, NewConf, Starting, TypeOK
  <2>2. Holds(applied) => Holds(applied)'
    BY <1>1, <2>1 DEF Holds, Fits
  <2>3. Holds(cmd.arg) => Holds(cmd.arg)'
    BY <1>1, <2>1 DEF Holds, Fits
  <2> QED BY <1>1, <1>4, <2>1, <2>2, <2>3 DEF Configured, Settled, Starting, Only
<1> QED BY <1>2, <1>3, <1>4

LEMMA ConfiguredStep ==
  ASSUME Inv, Configured, Next
  PROVE  Configured'
<1> USE DEF procs, history, others, Main, AllTold
<1>1. CASE \/ \E command \in Commands : ChangeState(command)
           \/ DirectorCalled \/ ToThreads \/ FromThreads \/ CheckNewState \/ NewStateChecked
           \/ Ignore \/ RestartProcess \/ RestartJoined \/ Restarted
  <2>1. UNCHANGED <<conf, mRun, applied, leftover, mAppRunning, checked>>
    BY <1>1 DEF ChangeState, DirectorCalled, ToThreads, FromThreads, CheckNewState,
                NewStateChecked, Ignore, RestartProcess, RestartJoined, Restarted
  <2>2. at \in Settled /\ at' \in Settled
    BY <1>1 DEF ChangeState, DirectorCalled, Unlocked, ToThreads, FromThreads, CheckNewState,
                NewStateChecked, Ignore, RestartProcess, RestartJoined, Restarted, Pop, Handling,
                Settled
  <2> QED BY <2>1, <2>2, ConfiguredKept DEF Settled
<1>2. CASE DirectorCalls \/ (\E c \in Comps : End(c) \/ StopDead(c)) \/ \E c \in todo : Stop(c)
  <2>1. UNCHANGED <<conf, mRun, applied, leftover, mAppRunning, checked, at, mStateQueue>>
    BY <1>2 DEF DirectorCalls, End, StopDead, Stop
  <2>2. at = "walk" => todo' = todo
    BY <1>2 DEF DirectorCalls, End, StopDead, Stop, Stopping
  <2> QED BY <2>1, <2>2, ConfiguredKept DEF cmd
<1>3. CASE Quit \/ StartFails \/ CrashErased \/ StopAll
  BY <1>3 DEF Quit, StartFails, CrashErased, Leaves, StopAll, Configured, Settled
<1>4. CASE JoinAll
  BY <1>4 DEF JoinAll, Pop, Configured, Settled
<1> QED BY <1>1, <1>2, <1>3, <1>4, StartConfigures, WalkConfigures, EraseConfigures,
           SignalConfigures, UnseenConfigures DEF Next, MainThread, Handler

\* Between commands what is managed is what was last configured.
LEMMA ConfiguredMeans ==
  ASSUME Configured
  PROVE  AsConfigured
  BY DEF Configured, AsConfigured, Holds, Only, Fits, Settled

-----------------------------------------------------------------------------
(* Every step.                                                             *)

LEMMA InvStep ==
  ASSUME Inv, [Next]_vars
  PROVE  Inv'
<1>1. CASE Next
  BY <1>1, QueueStep, LeaveStep, ToldStep, DropAllStep, MadeStep, StartStep, LoopStep, WrapperStep
     DEF Next, MainThread, Handler
<1>2. CASE UNCHANGED vars
  BY <1>2 DEF vars, procs, history, others, Inv, TypeOK, Busy, Doing, cmd, Books, Starting,
              Stopped, Ended, Gone, Running, ExitLeavesNone
<1> QED BY <1>1, <1>2

LEMMA InvAlways == Spec => [](Inv /\ Configured)
<1>1. Init => Inv /\ Configured
  BY InvInit DEF Init, Configured, Settled
<1>2. ASSUME Inv, Configured, [Next]_vars PROVE (Inv /\ Configured)'
  <2>1. CASE UNCHANGED vars
    BY <1>2, <2>1, InvStep, ConfiguredKept DEF vars, procs, history, others, cmd
  <2> QED BY <1>2, <2>1, InvStep, ConfiguredStep
<1> QED BY <1>1, <1>2, PTL DEF Spec

-----------------------------------------------------------------------------
\* The queue holds commands, and the manager's books keep their types.
THEOREM ManagerTyping == Spec => []TypeOK
<1>1. Inv => TypeOK
  BY DEF Inv
<1> QED BY <1>1, InvAlways, PTL

\* For any processes, configurations and faults, no wrapper is dropped or
\* replaced while its process lives, unless isRunning() misses it: its status could not
\* be read, or the signal cut into the start of its thread.
THEOREM ManagerForgetsNone == Spec => []NoneForgotten
<1>1. Inv => NoneForgotten
  BY DEF Inv, Books, NoneForgotten
<1> QED BY <1>1, InvAlways, PTL

\* After a stop the manager manages nothing.
THEOREM ManagerStops == Spec => []StopLeavesNone
<1>1. Inv => StopLeavesNone
  BY DEF Inv, Stopped, StopLeavesNone
<1> QED BY <1>1, InvAlways, PTL

\* A shutdown, wherever its signal cuts in, leaves behind only what was started
\* for commands that were queued before.
THEOREM ManagerShutsDown == Spec => []ExitLeavesNone
<1>1. Inv => ExitLeavesNone
  BY DEF Inv, Ended
<1> QED BY <1>1, InvAlways, PTL

\* Between commands exactly the processes of the last configuration are managed, as
\* it has them, unless a shutdown dropped them or an erase loop passed over them.
THEOREM ManagerAsConfigured == Spec => []AsConfigured
<1> QED BY ConfiguredMeans, InvAlways, PTL

-----------------------------------------------------------------------------
(* Reports beside the manager: StatusReport.                               *)

\* The walk is past c's entry, or where it would be.
Passed(c) == walk.at = PastEnd \/ c < walk.at

Noted == {e.comp : e \in walk.seen}

\* The walk and its history in the middle of it, as long as the iterator is good.
InStep ==
  walk.open /\ ~walk.freed =>
    /\ walk.at \in Managed \cup {PastEnd}
    /\ walk.stayed \subseteq Managed
    /\ Managed \subseteq walk.met /\ Alives \subseteq walk.ran
    /\ \A c \in walk.stayed : Passed(c) => c \in Noted
    /\ \A e \in walk.seen : e.comp \in walk.met /\ (e.running => e.comp \in walk.ran)

ReportInv == Inv /\ Configured /\ walk \in WalkState /\ InStep

-----------------------------------------------------------------------------
(* The order of the map.                                                   *)

\* A set of names has a least one: of the intervals that end in one of them, one has
\* no smaller among them.
LEMMA LeastName ==
  ASSUME NEW S \in SUBSET Nat, S # {}
  PROVE  \E c \in S : \A d \in S : c <= d
<1> DEFINE upTo == {0 .. c : c \in S}
           finite == FiniteSubsetsOf(Nat)
           smaller == StrictSubsetOrdering(Nat)
<1>1. \A c \in S : 0 .. c \in finite
  BY FS_Interval DEF FiniteSubsetsOf
<1>2. upTo \subseteq finite /\ upTo # {}
  BY <1>1
<1>3. IsWellFoundedOn(smaller, finite)
  BY FS_StrictSubsetOrderingWellFounded
<1>4. \E x \in upTo : \A y \in upTo : ~ (<<y, x>> \in smaller)
  <2> HIDE DEF upTo, finite, smaller
  <2> QED BY <1>2, <1>3, WFMin
<1>5. PICK c \in S : \A d \in S : <<0 .. d, 0 .. c>> \notin smaller
  BY <1>4
<1>6. ASSUME NEW d \in S, ~ (c <= d) PROVE FALSE
  <2>1. 0 .. d \subseteq 0 .. c /\ c \in 0 .. c /\ c \notin 0 .. d
    BY <1>6
  <2>2. <<0 .. d, 0 .. c>> \in smaller
    BY <2>1, <1>1 DEF StrictSubsetOrdering, FiniteSubsetsOf
  <2> QED BY <1>5, <2>2
<1> QED BY <1>6

\* begin() and ++ find the next entry, or the end when there is none.
LEMMA FirstOfIsFirst ==
  ASSUME NEW S \in SUBSET Comps
  PROVE  /\ FirstOf(S) \in S \cup {PastEnd}
         /\ FirstOf(S) = PastEnd => S = {}
         /\ \A d \in S : FirstOf(S) <= d
<1>1. CASE S = {}
  BY <1>1 DEF FirstOf
<1>2. CASE S # {}
  <2>1. S \in SUBSET Nat
    BY NamesAssumption
  <2>2. FirstOf(S) \in S /\ \A d \in S : FirstOf(S) <= d
    BY <1>2, <2>1, LeastName DEF FirstOf
  <2>3. PastEnd \notin S
    BY NamesAssumption DEF PastEnd
  <2> QED BY <2>2, <2>3
<1> QED BY <1>1, <1>2

-----------------------------------------------------------------------------
(* The manager's own invariant.                                            *)

\* Reports do not touch the processes, and the crash is one more way to leave.
LEMMA ManagerInv ==
  ASSUME Inv, Configured, [ReportNext]_reportVars
  PROVE  (Inv /\ Configured)'
<1> USE DEF Inv, procs, history, others
<1>1. CASE Next
  <2> HIDE DEF Inv
  <2> QED BY <1>1, InvStep, ConfiguredStep
<1>2. CASE Ask
  <2>1. TypeOK'
    BY <1>2, ManagerAssumption DEF Ask, TypeOK
  <2>2. (Busy /\ Books /\ Stopped /\ Ended)'
    BY <1>2 DEF Ask, Busy, Doing, cmd, Books, Starting, Stopped, Ended, Gone, Running,
                ExitLeavesNone
  <2>3. Configured'
    BY <1>2, ConfiguredKept DEF Ask, cmd
  <2> QED BY <2>1, <2>2, <2>3
<1>3. CASE CrashFreed
  <2>1. TypeOK'
    BY <1>3 DEF CrashFreed, Leaves, TypeOK, Alive
  <2>2. (Busy /\ Books /\ Stopped)'
    BY <1>3 DEF CrashFreed, Leaves, Busy, Doing, Books, Starting, Stopped, Gone
  <2>3. Ended'
    BY <1>3 DEF CrashFreed, Leaves, Ended, Gone, Running, ExitLeavesNone
  <2>4. Configured'
    BY <1>3 DEF CrashFreed, Leaves, Configured, Settled
  <2> QED BY <2>1, <2>2, <2>3, <2>4
<1>4. CASE UNCHANGED vars
  <2> HIDE DEF Inv
  <2>1. Configured'
    BY <1>4, ConfiguredKept DEF vars, cmd
  <2> QED BY <1>4, <2>1, InvStep
<1> QED BY <1>1, <1>2, <1>3, <1>4
    DEF ReportNext, OrbThread, Visit, VisitFreed, Answered, reportVars

-----------------------------------------------------------------------------
(* The walk.                                                               *)

\* A walk that is not open is in step.
LEMMA NoWalkInStep ==
  ASSUME walk' = NoWalk
  PROVE  (walk \in WalkState /\ InStep)'
  BY DEF NoWalk, WalkState, InStep

\* The first entry.
LEMMA AskStep ==
  ASSUME ReportInv, Ask
  PROVE  (walk \in WalkState /\ InStep)'
<1>1. Managed \in SUBSET Comps /\ Alives \in SUBSET Comps /\ Managed' = Managed
      /\ Alives' = Alives
  BY DEF Managed, Alives, Ask, procs, Running
<1>2. /\ FirstOf(Managed) \in Managed \cup {PastEnd}
      /\ FirstOf(Managed) = PastEnd => Managed = {}
      /\ \A d \in Managed : FirstOf(Managed) <= d
  BY <1>1, FirstOfIsFirst
<1>3. walk' = [open |-> TRUE, at |-> FirstOf(Managed), freed |-> FALSE, seen |-> {},
               stayed |-> Managed, met |-> Managed, ran |-> Alives]
  BY DEF Ask, NoWalk
<1>4. walk' \in WalkState
  BY <1>1, <1>2, <1>3 DEF WalkState
<1>5. \A c \in Managed : ~Passed(c)'
  <2> SUFFICES ASSUME NEW c \in Managed PROVE ~Passed(c)'
    OBVIOUS
  <2>1. walk'.at = FirstOf(Managed)
    BY <1>3
  <2>2. FirstOf(Managed) \in Managed /\ FirstOf(Managed) <= c
    BY <1>2
  <2>3. c \in Nat \ {0} /\ FirstOf(Managed) \in Nat \ {0}
    BY <1>1, <2>2, NamesAssumption
  <2> QED BY <2>1, <2>2, <2>3 DEF Passed, PastEnd
<1>6. InStep'
  BY <1>1, <1>2, <1>3, <1>5 DEF InStep
<1> QED BY <1>4, <1>6

\* An entry is listed, and the iterator incremented.
LEMMA VisitStep ==
  ASSUME ReportInv, Visit
  PROVE  (walk \in WalkState /\ InStep)'
<1>1. Managed \in SUBSET Comps /\ Managed' = Managed /\ Alives' = Alives
  BY DEF Managed, Alives, Visit, vars, procs, Running
<1>2. PICK e \in StatusOf(walk.at) :
        walk' = [walk EXCEPT !.seen = @ \cup {e}, !.at = After(walk.at)]
  BY DEF Visit
<1>2a. /\ e.comp = walk.at /\ (e.running => Running(walk.at))
      /\ (walk.at \in Comps => e \in Entry)
  <2> DEFINE told(r) == [comp |-> walk.at, running |-> r]
  <2>1. e = told(FALSE) \/ e = told(Running(walk.at))
    BY DEF StatusOf
  <2>2. Running(walk.at) = TRUE \/ Running(walk.at) = FALSE
    BY DEF Running
  <2>3. e = told(FALSE) \/ (e = told(TRUE) /\ Running(walk.at))
    BY <2>1, <2>2
  <2>4. CASE e = told(FALSE)
    BY <2>4 DEF Entry
  <2>5. CASE e = told(TRUE) /\ Running(walk.at)
    BY <2>5 DEF Entry
  <2> QED BY <2>3, <2>4, <2>5
<1>3. walk.open /\ ~walk.freed /\ walk.at \in Managed /\ walk.at # PastEnd
  BY DEF Visit, Walking, ReportInv, InStep
<1> DEFINE later == {d \in Managed : d > walk.at}
<1>4. later \in SUBSET Comps
  BY <1>1
<1>5. /\ After(walk.at) \in later \cup {PastEnd}
      /\ After(walk.at) = PastEnd => later = {}
      /\ \A d \in later : After(walk.at) <= d
  BY <1>4, FirstOfIsFirst DEF After
<1>6. e \in Entry
  BY <1>1, <1>3, <1>2a
<1>7. walk' \in WalkState
  BY <1>1, <1>2, <1>5, <1>6 DEF WalkState, ReportInv
<1>8. /\ walk'.open = walk.open /\ walk'.freed = walk.freed /\ walk'.at = After(walk.at)
      /\ walk'.stayed = walk.stayed /\ walk'.met = walk.met /\ walk'.ran = walk.ran
      /\ walk'.seen = walk.seen \cup {e}
  BY <1>2 DEF ReportInv, WalkState
<1>9. \A c \in walk.stayed : Passed(c)' => c = walk.at \/ Passed(c)
  <2> SUFFICES ASSUME NEW c \in walk.stayed, Passed(c)', c # walk.at PROVE Passed(c)
    OBVIOUS
  <2>1. c \in Managed /\ c \in Nat /\ walk.at \in Nat
    BY <1>1, <1>3, NamesAssumption DEF ReportInv, InStep
  <2>2. c \notin later
    <3>1. CASE After(walk.at) = PastEnd
      BY <1>5, <3>1
    <3>2. CASE After(walk.at) # PastEnd
      <4>1. After(walk.at) \in Nat /\ c < After(walk.at)
        BY <1>5, <1>8, <3>2, <1>1, NamesAssumption DEF Passed
      <4> QED BY <4>1, <2>1, <1>5
    <3> QED BY <3>1, <3>2
  <2> QED BY <2>1, <2>2 DEF Passed
<1>10. Noted' = Noted \cup {walk.at}
  BY <1>8, <1>2a DEF Noted
<1>11. \A c \in walk.stayed : Passed(c)' => c \in Noted'
  BY <1>3, <1>9, <1>10 DEF ReportInv, InStep
<1>12. e.comp \in walk.met /\ (e.running => e.comp \in walk.ran)
  BY <1>3, <1>2a DEF ReportInv, InStep, Alives
<1>13. \A f \in walk'.seen : f.comp \in walk'.met /\ (f.running => f.comp \in walk'.ran)
  BY <1>3, <1>8, <1>12 DEF ReportInv, InStep
<1>14. InStep'
  BY <1>1, <1>3, <1>5, <1>8, <1>11, <1>13 DEF InStep, ReportInv
<1> QED BY <1>7, <1>14

\* Once the entry is freed nothing is claimed but types.
LEMMA FreedStep ==
  ASSUME ReportInv, VisitFreed
  PROVE  (walk \in WalkState /\ InStep)'
<1>1. PICK next \in Managed \cup {PastEnd}, r \in BOOLEAN :
        walk' = [walk EXCEPT !.seen = @ \cup {[comp |-> walk.at, running |-> r]},
                             !.at = next]
  BY DEF VisitFreed
<1>2. walk.freed /\ walk.at \in Comps
  BY DEF VisitFreed, Walking, ReportInv, WalkState
<1>3. next \in Comps \cup {PastEnd} /\ [comp |-> walk.at, running |-> r] \in Entry
  BY <1>2 DEF Managed, Entry
<1>4. walk' \in WalkState
  BY <1>1, <1>3 DEF WalkState, ReportInv
<1>5. walk'.freed
  BY <1>1, <1>2 DEF WalkState, ReportInv
<1> QED BY <1>4, <1>5 DEF InStep

\* The other threads start, replace and erase what is walked over.
LEMMA BesideStep ==
  ASSUME ReportInv, Beside
  PROVE  (walk \in WalkState /\ InStep)'
<1>1. Managed' \in SUBSET Comps /\ Alives' \in SUBSET Comps
  BY DEF Managed, Alives
<1>2. CASE Gone'
  BY <1>2, NoWalkInStep DEF Beside
<1>3. CASE ~Gone' /\ Erased
  <2>1. walk' = [walk EXCEPT !.freed = TRUE, !.stayed = {}, !.met = {}, !.ran = {}]
    BY <1>3 DEF Beside
  <2>2. walk' \in WalkState /\ walk'.freed
    BY <2>1 DEF ReportInv, WalkState
  <2> QED BY <2>2 DEF InStep
<1>4. CASE ~Gone' /\ ~Erased /\ walk.open /\ ~walk.freed
  <2>1. walk' = [walk EXCEPT !.stayed = @ \cap Managed', !.met = @ \cup Managed',
                             !.ran = @ \cup Alives']
    BY <1>4 DEF Beside
  <2>2. walk' \in WalkState
    BY <1>1, <2>1 DEF ReportInv, WalkState
  <2>3. /\ walk'.at = walk.at /\ walk'.seen = walk.seen
        /\ walk'.stayed = walk.stayed \cap Managed'
        /\ walk'.met = walk.met \cup Managed' /\ walk'.ran = walk.ran \cup Alives'
    BY <2>1 DEF ReportInv, WalkState
  <2>4. walk.at \in Managed' \cup {PastEnd}
    BY <1>4 DEF Erased, Walking
  <2>5. Noted' = Noted /\ \A c \in walk.stayed : Passed(c)' <=> Passed(c)
    BY <2>3 DEF Noted, Passed
  <2> QED BY <1>4, <2>2, <2>3, <2>4, <2>5 DEF InStep, ReportInv
<1>5. CASE ~Gone' /\ ~Erased /\ ~(walk.open /\ ~walk.freed)
  <2>1. walk' = walk
    BY <1>5 DEF Beside
  <2> QED BY <1>5, <2>1 DEF InStep, ReportInv
<1> QED BY <1>2, <1>3, <1>4, <1>5

LEMMA ReportInvAlways == ReportSpec => []ReportInv
<1>1. ReportInit => ReportInv
  <2> SUFFICES ASSUME ReportInit PROVE ReportInv
    OBVIOUS
  <2>1. walk \in WalkState /\ ~walk.open
    BY DEF ReportInit, NoWalk, WalkState
  <2> QED BY <2>1, InvInit DEF ReportInit, ReportInv, InStep, Init, Configured, Settled
<1>2. ASSUME ReportInv, [ReportNext]_reportVars PROVE ReportInv'
  <2>1. Inv' /\ Configured'
    BY <1>2, ManagerInv DEF ReportInv
  <2>2. CASE Answered \/ CrashFreed
    BY <2>1, <2>2, NoWalkInStep DEF Answered, CrashFreed, ReportInv
  <2>3. CASE UNCHANGED reportVars
    BY <1>2, <2>1, <2>3
       DEF reportVars, vars, ReportInv, InStep, Managed, Alives, Running, Passed, Noted
  <2>4. (walk \in WalkState /\ InStep)' \/ Answered \/ CrashFreed \/ UNCHANGED reportVars
    BY <1>2, AskStep, VisitStep, FreedStep, BesideStep DEF ReportNext, OrbThread
  <2> QED BY <2>1, <2>2, <2>3, <2>4 DEF ReportInv
<1> QED BY <1>1, <1>2, PTL DEF ReportSpec

-----------------------------------------------------------------------------
\* The walk lists entries of processes, and the manager's books keep their types
\* beside it.
THEOREM ReportTyping == ReportSpec => []ReportTypeOK
<1>1. ReportInv => ReportTypeOK
  BY DEF ReportInv, Inv, ReportTypeOK
<1> QED BY <1>1, ReportInvAlways, PTL

\* A status lists every process that was managed all along, none that never was, and
\* calls none running that never ran while it was taken, for any processes and
\* whatever commands, ends and shutdowns run into it, as long as the entry under its
\* iterator is not erased.
THEOREM StatusIsComplete == ReportSpec => []StatusComplete
<1>1. ASSUME ReportInv PROVE StatusComplete
  <2> SUFFICES ASSUME Complete, ~walk.freed
               PROVE  /\ walk.stayed \subseteq Listed /\ Listed \subseteq walk.met
                      /\ SaidToRun \subseteq walk.ran
    BY DEF StatusComplete
  <2>1. \A c \in walk.stayed : c \in Noted
    BY <1>1 DEF Complete, ReportInv, InStep, Passed
  <2>2. \A e \in walk.seen : e.comp \in walk.met /\ (e.running => e.comp \in walk.ran)
    BY <1>1 DEF Complete, ReportInv, InStep
  <2>3. \A e \in walk.seen : Element(e) \in Document /\ Element(e).comp = e.comp
    BY DEF Document, Element
  <2>4. \A d \in Document : \E e \in walk.seen : d.comp = e.comp /\ d.running = e.running
    BY DEF Document, Element
  <2>5. Noted \subseteq Listed
    BY <2>3 DEF Listed, Noted
  <2>6. Listed \subseteq walk.met /\ SaidToRun \subseteq walk.ran
    BY <2>2, <2>4 DEF Listed, SaidToRun
  <2> QED BY <2>1, <2>5, <2>6
<1> QED BY <1>1, ReportInvAlways, PTL

\* Nor does a report, or the crash it may cause, make the manager forget a process.
THEOREM ReportForgetsNone == ReportSpec => []NoneForgotten
<1>1. ReportInv => NoneForgotten
  BY DEF ReportInv, Inv, Books, NoneForgotten
<1> QED BY <1>1, ReportInvAlways, PTL

\* Nor is it left with other processes than those last configured.
THEOREM ReportAsConfigured == ReportSpec => []AsConfigured
<1>1. ReportInv => AsConfigured
  BY ConfiguredMeans DEF ReportInv
<1> QED BY <1>1, ReportInvAlways, PTL

\* And what a shutdown leaves behind is what it would leave without a report.
THEOREM ReportShutsDown == ReportSpec => []ExitLeavesNone
<1>1. ReportInv => ExitLeavesNone
  BY DEF ReportInv, Inv, Ended
<1> QED BY <1>1, ReportInvAlways, PTL
=============================================================================
