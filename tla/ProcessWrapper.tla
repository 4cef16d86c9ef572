---------------------------- MODULE ProcessWrapper ----------------------------
(***************************************************************************)
(* SC_ProcessWrapperThread: the thread that keeps one managed process      *)
(* running.  Its run thread forks, watches, reaps and restarts the child;  *)
(* the process manager's thread stops it.  They share mChildPID and        *)
(* mExternalStop, which the run thread reads and writes without mLock.     *)
(*                                                                         *)
(* A pid is what it stands for: Own is the child's, FromZero and FromMinus *)
(* are the special arguments 0 and -1 of kill(2).                          *)
(***************************************************************************)
EXTENDS Naturals, Sequences, FiniteSets

CONSTANTS
  RunTypes,     \* "continuous", "once"
  MaxRetries, RetryWindow,
  Faults,       \* what may go wrong in this instance
  MaxTime       \* bound on the clock

\* "forkFails", "noPipes" and "notExecutable": system calls fail; "unreadable":
\* /proc/<pid>/stat cannot be opened; "slowExec": a signal may reach the child
\* before it has executed the program; "early": a stop may come before the
\* first child is watched, daemon.process.warmup being too short; "execFails":
\* execvp returns, and the child exits under the daemon's name; "noLogSpace": the
\* log directory or the ageing of a log file fails; "noLogFile": the log file
\* cannot be opened; "noReader": no thread can be created for a reader.
AllFaults == {"forkFails", "noPipes", "notExecutable", "unreadable", "slowExec",
              "early", "execFails", "noLogSpace", "noLogFile", "noReader"}

ASSUME WrapperAssumption ==
  /\ RunTypes \subseteq {"continuous", "once"}
  /\ MaxRetries \in Nat /\ RetryWindow \in Nat /\ MaxTime \in Nat
  /\ Faults \subseteq AllFaults

VARIABLES
  runType,
  at,             \* where the run thread is
  mExternalStop, mFailed, mRetryTimes, mChildPID,
  mRunning,       \* SA_ThreadBase::mRunning
  readers,        \* mStdOutReader and mStdErrReader: "none", or "made"; of the last
                  \* ones only "one" was started, or "neither"
  child,          \* the forked process
  status,         \* what waitpid said, or why there was no child to wait for
  stopper,        \* the manager's thread in stop(): the pid it is about to signal
  daemon,         \* the daemon's own process
  now,
  starts          \* history: when the process was started

vars == <<runType, at, mExternalStop, mFailed, mRetryTimes, mChildPID, mRunning,
          readers, child, status, stopper, daemon, now, starts>>

FromZero == 0
Own      == 1
FromMinus == 2
NoCall == 3
Hung == 4        \* stop() waits for a lock that nobody gives back, and holds its own

-----------------------------------------------------------------------------
(* The retry window.                                                       *)

Old(times) == {i \in DOMAIN times : now - times[i] > RetryWindow}

\* checkFailureRate erases through an iterator that the erasure invalidates.
\* Of a deque of more than one entry whose oldest k have left the window the
\* library's erase drops k + 1; when all have, its size wraps around.
Wraps(times) == Len(times) > 1 /\ Cardinality(Old(times)) = Len(times)

Pruned(times) ==
  LET k == Cardinality(Old(times)) IN
    IF k = 0 THEN times
    ELSE IF Len(times) = 1 THEN <<>>
    ELSE SubSeq(times, k + 2, Len(times))

TooMany(times) == Wraps(times) \/ Len(Pruned(times)) > MaxRetries

-----------------------------------------------------------------------------
(* The run thread.                                                         *)

At(where) == at = where /\ daemon = "runs"

\* Starting a reader threw, with the reader's mLock held.
ReadersFailed == readers \in {"one", "neither"}

\* A reader that is told to stop when its thread was never started, or has ended, has
\* 0 for a thread id: what pthread_kill does then is undefined.
StoppingReaders == {daemon, "crashed"}

\* The program is looked for in the PATH, and its mode tested.
Executable == {TRUE} \cup {FALSE : f \in Faults \cap {"notExecutable"}}

Begin ==
  /\ At("new")
  /\ \E found \in Executable :
       IF found THEN at' = "loop" /\ UNCHANGED mRunning
       ELSE at' = "ended" /\ mRunning' = FALSE
  /\ UNCHANGED <<runType, mExternalStop, mFailed, mRetryTimes, mChildPID, readers,
                 child, status, stopper, daemon, now, starts>>

\* The condition of the loop in runProcessContinuously, or runProcessOnce's.
Leave ==
  /\ At("loop")
  /\ mExternalStop \/ (runType = "continuous" /\ mFailed)
  /\ at' = "join"
  /\ UNCHANGED <<runType, mExternalStop, mFailed, mRetryTimes, mChildPID, mRunning,
                 readers, child, status, stopper, daemon, now, starts>>

GiveUp ==
  /\ At("loop") /\ ~mExternalStop /\ ~mFailed
  /\ runType = "continuous" /\ TooMany(mRetryTimes)
  /\ mFailed' = TRUE /\ mRetryTimes' = <<>>
  /\ at' = "join"
  /\ UNCHANGED <<runType, mExternalStop, mChildPID, mRunning, readers, child, status,
                 stopper, daemon, now, starts>>

\* (A mistake: the start is not put on record.)
Retry_Unrecorded ==
  /\ At("loop") /\ ~mExternalStop
  /\ runType = "continuous" => ~mFailed /\ ~TooMany(mRetryTimes)
  /\ starts' = Append(starts, now)
  /\ at' = "fork"
  /\ UNCHANGED <<runType, mExternalStop, mFailed, mRetryTimes, mChildPID, mRunning,
                 readers, child, status, stopper, daemon, now>>

Retry ==
  /\ At("loop") /\ ~mExternalStop
  /\ \/ /\ runType = "continuous" /\ ~mFailed /\ ~TooMany(mRetryTimes)
        /\ mRetryTimes' = Append(Pruned(mRetryTimes), now)
     \/ runType = "once" /\ UNCHANGED mRetryTimes
  /\ starts' = Append(starts, now)
  /\ at' = "fork"
  /\ UNCHANGED <<runType, mExternalStop, mFailed, mChildPID, mRunning, readers, child,
                 status, stopper, daemon, now>>

\* forkProcess: without pipes it goes on all the same.
Fork ==
  /\ At("fork")
  /\ child' = "image" /\ at' = "record"
  /\ mFailed' \in {mFailed} \cup {TRUE : f \in Faults \cap {"noPipes"}}
  /\ UNCHANGED <<runType, mExternalStop, mRetryTimes, mChildPID, mRunning, readers,
                 status, stopper, daemon, now, starts>>

ForkFails ==
  /\ At("fork") /\ "forkFails" \in Faults
  /\ mChildPID' = FromMinus /\ status' = "error" /\ at' = "evaluate"
  /\ UNCHANGED <<runType, mExternalStop, mFailed, mRetryTimes, mRunning, readers,
                 child, stopper, daemon, now, starts>>

\* createSpaceForLogFile throws before the fork, and run() catches it: nothing is
\* said to have failed, yet the process is not tried again.
NoLogSpace ==
  /\ At("fork") /\ "noLogSpace" \in Faults
  /\ status' = "noLog" /\ at' = "join"
  /\ UNCHANGED <<runType, mExternalStop, mFailed, mRetryTimes, mChildPID, mRunning,
                 readers, child, stopper, daemon, now, starts>>

\* fork() has returned; readProcPipes creates the readers.
Record ==
  /\ At("record")
  /\ mChildPID' = Own /\ readers' = "made" /\ at' = "watch"
  /\ UNCHANGED <<runType, mExternalStop, mFailed, mRetryTimes, mRunning, child,
                 status, stopper, daemon, now, starts>>

\* /proc/<pid>/stat bears the program's name, until the child has been reaped.
Named == child \in {"app", "told", "zombie"}

\* (A mistake: a stop that came before the pid was known is forgotten.)
Watched_StopMissed ==
  /\ At("watch") /\ Named
  /\ at' = "wait"
  /\ UNCHANGED <<runType, mExternalStop, mFailed, mRetryTimes, mChildPID, mRunning,
                 readers, child, status, stopper, daemon, now, starts>>

\* SIGTERM for the child, as it now is.
Signalled(p) ==
  CASE p = "app"   -> "told"
    [] p = "image" -> "hung"      \* runs the daemon's handler, which waits for
    [] OTHER       -> p           \* threads that a forked process does not have

\* The program is executed: a stop that came too early is repeated, the readers
\* included, which have no threads yet.
Watched ==
  /\ At("watch") /\ Named
  /\ IF mExternalStop
     THEN /\ stopper = NoCall                            \* stop() takes mLock
          /\ child' = Signalled(child) /\ daemon' \in StoppingReaders
     ELSE UNCHANGED <<child, daemon>>
  /\ at' = "wait"
  /\ UNCHANGED <<runType, mExternalStop, mFailed, mRetryTimes, mChildPID, mRunning,
                 readers, status, stopper, now, starts>>

\* start() of a reader throws, and run() catches it: past waitpid, with the child
\* alive and its pid on record.
Unstarted ==
  /\ At("watch") /\ Named /\ ~mExternalStop /\ "noReader" \in Faults
  /\ readers' \in {"one", "neither"} /\ at' = "join"
  /\ UNCHANGED <<runType, mExternalStop, mFailed, mRetryTimes, mChildPID, mRunning,
                 child, status, stopper, daemon, now, starts>>

\* ... or its status cannot be read: stopDead(), though the thread goes on.
Unreadable ==
  /\ At("watch") /\ "unreadable" \in Faults
  /\ mRunning' = FALSE /\ at' = "wait"
  /\ UNCHANGED <<runType, mExternalStop, mFailed, mRetryTimes, mChildPID, readers,
                 child, status, stopper, daemon, now, starts>>

\* (A mistake: waitpid does not wait.)
Reap_NoHang ==
  /\ At("wait")
  /\ at' = "reaped" /\ child' = IF child = "zombie" THEN "none" ELSE child
  /\ UNCHANGED <<runType, mExternalStop, mFailed, mRetryTimes, mChildPID, mRunning,
                 readers, status, stopper, daemon, now, starts>>

Reap ==
  /\ At("wait") /\ child = "zombie"
  /\ child' = "none" /\ at' = "reaped"
  /\ UNCHANGED <<runType, mExternalStop, mFailed, mRetryTimes, mChildPID, mRunning,
                 readers, status, stopper, daemon, now, starts>>

\* The readers are stopped, whose threads may have ended with the child's output.
Forget ==
  /\ At("reaped")
  /\ mChildPID' = FromZero /\ at' = "evaluate"
  /\ daemon' \in StoppingReaders
  /\ UNCHANGED <<runType, mExternalStop, mFailed, mRetryTimes, mRunning, readers,
                 child, status, stopper, now, starts>>

\* (A mistake: only a process that was terminated is run again.)
Evaluate_OnlyTerm ==
  /\ At("evaluate")
  /\ mFailed' = (mFailed \/ (runType = "continuous" /\ status \in {"abort", "error"}))
  /\ at' = IF runType = "continuous" /\ status = "term" THEN "loop" ELSE "join"
  /\ UNCHANGED <<runType, mExternalStop, mRetryTimes, mChildPID, mRunning, readers,
                 child, status, stopper, daemon, now, starts>>

\* evaluateProcessReturn
Evaluate ==
  /\ At("evaluate")
  /\ mFailed' = (mFailed \/ (runType = "continuous" /\ status \in {"abort", "error"}))
  /\ at' = IF runType = "continuous" THEN "loop" ELSE "join"
  /\ UNCHANGED <<runType, mExternalStop, mRetryTimes, mChildPID, mRunning, readers,
                 child, status, stopper, daemon, now, starts>>

\* run() joins the readers, through null pointers when there never was a child.
\* One that runs is waited for: it reads to the end of the child's output, unless it
\* was stopped before.
Terminate ==
  /\ At("join")
  /\ readers = "one" => child = "zombie" \/ mExternalStop
  /\ IF readers # "none" THEN at' = "ended" /\ mRunning' = FALSE /\ UNCHANGED daemon
     ELSE daemon' = "crashed" /\ UNCHANGED <<at, mRunning>>
  /\ UNCHANGED <<runType, mExternalStop, mFailed, mRetryTimes, mChildPID, readers,
                 child, status, stopper, now, starts>>

-----------------------------------------------------------------------------
(* stop(), called by the process manager.                                  *)

\* (A mistake: the pid is not tested.)
Stop_Untested ==
  /\ daemon = "runs" /\ ~mExternalStop /\ stopper = NoCall
  /\ readers # "none" \/ "early" \in Faults
  /\ mExternalStop' = TRUE
  /\ stopper' = mChildPID
  /\ UNCHANGED <<runType, at, mFailed, mRetryTimes, mChildPID, mRunning, readers,
                 child, status, daemon, now, starts>>

Stop ==
  /\ daemon = "runs" /\ ~mExternalStop /\ stopper = NoCall
  /\ readers # "none" \/ "early" \in Faults
  /\ mExternalStop' = TRUE
  /\ stopper' = IF mChildPID = FromZero THEN NoCall ELSE mChildPID
  /\ UNCHANGED <<runType, at, mFailed, mRetryTimes, mChildPID, mRunning, readers,
                 child, status, daemon, now, starts>>

\* The pid may be read once more.  kill(0) reaches the daemon's own process
\* group, kill(-1) everything.  Then the readers are stopped, while the child lives;
\* the lock of one that could not be started is not to be had.
Kill ==
  /\ daemon = "runs" /\ stopper \notin {NoCall, Hung}
  /\ child = "image" => "slowExec" \in Faults
  /\ \E pid \in {stopper, mChildPID} :
       /\ child' = Signalled(child)
       /\ daemon' \in IF pid = Own THEN StoppingReaders ELSE {"told"}
  /\ stopper' = IF ReadersFailed THEN Hung ELSE NoCall
  /\ UNCHANGED <<runType, at, mExternalStop, mFailed, mRetryTimes, mChildPID, mRunning,
                 readers, status, now, starts>>

-----------------------------------------------------------------------------
(* The child and the clock.                                                *)

Exec ==
  /\ child = "image"
  /\ child' \in {"app"} \cup {"nameless" : f \in Faults \cap {"execFails"}}
  /\ UNCHANGED <<runType, at, mExternalStop, mFailed, mRetryTimes, mChildPID, mRunning,
                 readers, status, stopper, daemon, now, starts>>

\* By itself, or because of the signal.
Exit ==
  /\ child \in {"app", "told"}
  /\ child' = "zombie"
  /\ status' \in IF child = "told" THEN {"term"} ELSE {"term", "other", "abort"}
  /\ UNCHANGED <<runType, at, mExternalStop, mFailed, mRetryTimes, mChildPID, mRunning,
                 readers, stopper, daemon, now, starts>>

Tick ==
  /\ now < MaxTime
  /\ now' = now + 1
  /\ UNCHANGED <<runType, at, mExternalStop, mFailed, mRetryTimes, mChildPID, mRunning,
                 readers, child, status, stopper, daemon, starts>>

-----------------------------------------------------------------------------
Init ==
  /\ runType \in RunTypes
  /\ at = "new"
  /\ mExternalStop = FALSE /\ mFailed = FALSE /\ mRetryTimes = <<>>
  /\ mChildPID = FromZero /\ mRunning = TRUE /\ readers = "none"
  /\ child = "none" /\ status = "other"
  /\ stopper = NoCall /\ daemon = "runs"
  /\ now = 0 /\ starts = <<>>

Run == \/ Begin \/ Leave \/ GiveUp \/ Retry \/ Fork \/ ForkFails \/ NoLogSpace \/ Record
       \/ Watched \/ Unstarted \/ Unreadable \/ Reap \/ Forget \/ Evaluate \/ Terminate

Next == Run \/ Stop \/ Kill \/ Exec \/ Exit \/ Tick

Spec == Init /\ [][Next]_vars

-----------------------------------------------------------------------------
(* Properties.                                                             *)

TypeOK ==
  /\ runType \in RunTypes
  /\ at \in {"new", "loop", "fork", "record", "watch", "wait", "reaped", "evaluate",
            "join", "ended"}
  /\ mExternalStop \in BOOLEAN /\ mFailed \in BOOLEAN
  /\ mRetryTimes \in Seq(Nat) /\ starts \in Seq(Nat)
  /\ mChildPID \in {FromZero, Own, FromMinus}
  /\ mRunning \in BOOLEAN /\ readers \in {"none", "made", "one", "neither"}
  /\ child \in {"none", "image", "app", "told", "hung", "nameless", "zombie"}
  /\ status \in {"term", "other", "abort", "error", "noLog"}
  /\ stopper \in {Own, FromMinus, NoCall, Hung}
  /\ daemon \in {"runs", "told", "crashed"}
  /\ now \in Nat

\* A process that is to run continuously comes back whenever it ends, until it
\* is stopped or given up, or there is no space for its log.  It does not when it
\* could not be executed - the thread then looks for ever for the name of a child
\* that has ended and that nobody reaps - or when a reader could not be started.
KeepsRunning ==
  []<>( \/ child \in {"image", "app"}
        \/ mFailed \/ mExternalStop \/ status = "noLog" \/ runType = "once"
        \/ child = "nameless" \/ ReadersFailed
        \/ readers = "none" \/ daemon # "runs" )

\* A thread that has ended leaves no child behind, and no pid for a later stop() to
\* signal, whatever failed on the way - but for one thing: when a reader cannot be
\* started the thread ends beside its child.
LeavesNoChild == at = "ended" => ReadersFailed \/ (child = "none" /\ mChildPID # Own)

\* Starts of the process in the retry window that ends at t.
Recent(t) == {i \in DOMAIN starts : starts[i] <= t /\ t - starts[i] <= RetryWindow}

\* Although starts that are still recent may be forgotten with the old ones, however
\* often that happens no window sees more than one start more than the MaxRetries + 1
\* that the configuration allows.
RestartsBounded ==
  \A t \in 0 .. now : Cardinality(Recent(t)) <= MaxRetries + 2

\* "General flag to denote if the process has failed too many times".
GivesUpJustly ==
  [][GiveUp => Cardinality(Recent(now)) > MaxRetries]_vars
=============================================================================
