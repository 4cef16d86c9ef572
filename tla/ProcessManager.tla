---------------------------- MODULE ProcessManager ----------------------------
(***************************************************************************)
(* SC_ProcessManager, and what drives it: SC_Daemon's queue of states,     *)
(* which the ORB's threads fill and the main thread works off, and the     *)
(* signal handler that shuts the daemon down in the middle of it.          *)
(*                                                                         *)
(* A wrapper is seen from outside, as ProcessWrapper justifies: its thread *)
(* is up, has been told to stop, is down (or not started yet), or is lost: *)
(* not running as far as isRunning() says, with a child that is alive.     *)
(***************************************************************************)
EXTENDS Naturals, Sequences

CONSTANTS
  Comps, Versions,
  Shares,         \* configurations that may be sent: Comps to Versions, partial
  Ops,            \* the commands of this instance
  Faults,         \* "unreadable", "leftover", "startFails", "signal"
  MaxCommands,    \* bound on the commands sent, and on the heartbeats that end
  None

ASSUME ManagerAssumption ==
  /\ Shares \subseteq UNION {[S -> Versions] : S \in SUBSET Comps}
  /\ Ops \subseteq {"START", "STOP", "CONFIGURE", "RESTART", "FAILSTART"}
  /\ Faults \subseteq {"unreadable", "leftover", "startFails", "signal"}
  /\ MaxCommands \in Nat /\ None \notin Versions

VARIABLES
  mStateQueue, mAppRunning, mRun,
  at,            \* where the main thread is
  todo,          \* the processes that its loop has yet to come to
  conf, life, checked,     \* mProcs: each process's configuration and wrapper
  handler,       \* the signal handler, which runs on top of the main thread
  director,      \* the thread of the director that the daemon hosts
  sent,
  orphans,       \* children whose wrapper is gone
  applied, missed, leftover, late     \* history

vars == <<mStateQueue, mAppRunning, mRun, at, todo, conf, life, checked, handler, director,
          sent, orphans, applied, missed, leftover, late>>

procs    == <<conf, life, checked, orphans>>
history  == <<applied, missed, leftover, late>>
others   == <<handler, director, sent>>

Commands ==
  UNION { [op : Ops \cap {"START", "CONFIGURE"}, arg : Shares],
          [op : Ops \cap {"STOP"}, arg : {{}}],
          [op : Ops \cap {"RESTART", "FAILSTART"},
           arg : {Comps} \cup {{c} : c \in Comps}] }

cmd == Head(mStateQueue)

Gone == at \in {"exited", "failed"}

-----------------------------------------------------------------------------
(* mProcs.                                                                 *)

Running(c) == life[c] \in {"up", "told"}        \* isRunning()

Told(S) == [c \in Comps |-> IF c \in S /\ life[c] = "up" THEN "told" ELSE life[c]]

Alive(S) == {c \in S : life[c] \in {"up", "told", "lost"}}

\* New wrappers for S, whose threads are in a given state; a child that the old one
\* had is forgotten.
Replace(S, share, state) ==
  /\ conf' = [c \in Comps |-> IF c \in S THEN share[c] ELSE conf[c]]
  /\ life' = [c \in Comps |-> IF c \in S THEN state ELSE life[c]]
  /\ orphans' = orphans \cup Alive(S)

StartNew(S, share) ==
  /\ Replace(S, share, "up")
  /\ late' = IF mRun THEN late ELSE late \cup S

\* (A mistake: the wrapper's thread is not looked after.)
Drop_ConfOnly(S) ==
  /\ conf' = [c \in Comps |-> IF c \in S THEN None ELSE conf[c]]
  /\ orphans' = orphans \cup Alive(S)
  /\ UNCHANGED life

Drop(S) ==
  /\ conf' = [c \in Comps |-> IF c \in S THEN None ELSE conf[c]]
  /\ life' = [c \in Comps |-> IF c \in S THEN "none" ELSE life[c]]
  /\ orphans' = orphans \cup Alive(S)

-----------------------------------------------------------------------------
(* SC_Daemon: changeState, called through the ORB, and the main loop.      *)

\* mStateLock is not the main thread's: it waits in its loop, or is starting or
\* stopping the thread of its heartbeat or of its director.
Unlocked == at \in {"idle", "threads"}

Main(where) == at = where /\ handler \in {"no", "done"}

Handling(op) == Main("command") /\ mStateQueue # <<>> /\ cmd.op = op

Pop == mStateQueue' = Tail(mStateQueue) /\ at' = "command"

\* The director of another daemon calls.
ChangeState(command) ==
  /\ director = "none" /\ Unlocked     \* takes mStateLock
  /\ sent < MaxCommands /\ sent' = sent + 1
  /\ mStateQueue' = Append(mStateQueue, command)
  /\ UNCHANGED <<mAppRunning, mRun, at, todo, procs, handler, director, history>>

\* The director that this daemon hosts does, with its own mLock or on its own thread,
\* and waits for mStateLock.
DirectorCalls ==
  /\ director = "runs" /\ ~Gone
  /\ sent < MaxCommands /\ sent' = sent + 1
  /\ director' = "calls"
  /\ UNCHANGED <<mStateQueue, mAppRunning, mRun, at, todo, procs, handler, history>>

DirectorCalled ==
  /\ director = "calls" /\ Unlocked
  /\ \E command \in Commands : mStateQueue' = Append(mStateQueue, command)
  /\ director' = "runs"
  /\ UNCHANGED <<mAppRunning, mRun, at, todo, procs, handler, sent, history>>

\* The heartbeat has ended.
ToThreads ==
  /\ Main("idle") /\ mRun
  /\ sent < MaxCommands /\ sent' = sent + 1
  /\ at' = "threads"
  /\ UNCHANGED <<mStateQueue, mAppRunning, mRun, todo, procs, handler, director, history>>

FromThreads ==
  /\ Main("threads")
  /\ at' = "idle"
  /\ UNCHANGED <<mStateQueue, mAppRunning, mRun, todo, procs, others, history>>

CheckNewState ==
  /\ Main("idle") /\ mRun /\ mStateQueue # <<>>
  /\ at' = "command"
  /\ UNCHANGED <<mStateQueue, mAppRunning, mRun, todo, procs, others, history>>

NewStateChecked ==
  /\ Main("command") /\ mStateQueue = <<>>
  /\ at' = "idle"
  /\ UNCHANGED <<mStateQueue, mAppRunning, mRun, todo, procs, others, history>>

\* What the system's state makes meaningless.
Ignore ==
  /\ Main("command") /\ mStateQueue # <<>>
  /\ mAppRunning = (cmd.op = "START")
  /\ Pop
  /\ UNCHANGED <<mAppRunning, mRun, todo, procs, others, history>>

\* main() returns, or the daemon crashes, and takes every thread with it.
Leaves(where) ==
  /\ at' = where
  /\ life' = [c \in Comps |-> "none"] /\ conf' = [c \in Comps |-> None]
  /\ orphans' = orphans \cup Alive(Comps)
  /\ UNCHANGED <<mStateQueue, mAppRunning, mRun, todo, checked, director, sent, history>>

Quit == Main("idle") /\ ~mRun /\ Leaves("exited") /\ UNCHANGED handler

-----------------------------------------------------------------------------
(* The loops that start and stop threads, one by one.                      *)

Stopping == {"stopping", "others", "restart"}

Starting == {"starting", "restarting"}

\* In the walk over a new configuration: no wrapper is being joined.
Walks(S) == at = "walk" /\ \A c \in S : life[c] # "told"

\* Its configuration is compared, not whether it runs.
Unchanged(c) == conf[c] = cmd.arg[c]

\* Whose thread the main thread's next step stops, and starts.
Stops ==
  {c \in todo : life[c] = "up" /\ (at \in Stopping \/ (Walks(todo) /\ ~Unchanged(c)))}

Starts ==
  {c \in todo : ~Running(c) /\ (at \in Starting \/ (Walks(todo \ {c}) /\ ~Unchanged(c)))}

NewConf == IF at = "walk" THEN cmd.arg ELSE conf

Start(c) ==
  /\ Main(at) /\ at \in Starting /\ c \in todo
  /\ StartNew({c} \cap Starts, NewConf)
  /\ todo' = todo \ {c}
  /\ UNCHANGED <<mStateQueue, mAppRunning, mRun, at, checked, others, applied, missed,
                 leftover>>

Stop(c) ==
  /\ Main(at) /\ at \in Stopping /\ c \in todo
  /\ life' = Told({c}) /\ todo' = todo \ {c}
  /\ UNCHANGED <<mStateQueue, mAppRunning, mRun, at, conf, checked, orphans, others,
                 history>>

AllTold(where) == Main(where) /\ todo = {}

\* A configuration that does not parse, a thread that cannot be created: run()
\* does not catch what is thrown.
StartFails ==
  /\ "startFails" \in Faults /\ Main(at)
  /\ \/ /\ at = "command" /\ mStateQueue # <<>>
        /\ cmd.op \in {"START", "CONFIGURE"} /\ mAppRunning # (cmd.op = "START")
     \/ Starts # {}
  /\ Leaves("failed") /\ UNCHANGED handler

-----------------------------------------------------------------------------
(* startProcesses and stopAllProcesses.                                    *)

StartProcesses ==
  /\ Handling("START") /\ ~mAppRunning
  /\ LET new == {c \in DOMAIN cmd.arg : conf[c] = None} IN
       Replace(new, cmd.arg, "down") /\ todo' = new
  /\ at' = "starting"
  /\ UNCHANGED <<mStateQueue, mAppRunning, mRun, checked, others, history>>

Started ==
  /\ Main("starting") /\ todo = {}
  /\ mAppRunning' = TRUE /\ applied' = cmd.arg
  /\ Pop
  /\ UNCHANGED <<mRun, todo, procs, others, missed, leftover, late>>

StopAll ==
  /\ Handling("STOP") /\ mAppRunning
  /\ todo' = {c \in Comps : Running(c)} /\ at' = "stopping"
  /\ UNCHANGED <<mStateQueue, mAppRunning, mRun, procs, others, history>>

\* (A mistake: the wrappers are dropped without waiting for them.)
JoinAll_NotAll ==
  /\ AllTold("stopping")
  /\ Drop(Comps) /\ mAppRunning' = FALSE
  /\ Pop
  /\ UNCHANGED <<mRun, todo, checked, others, history>>

JoinAll ==
  /\ AllTold("stopping") /\ \A c \in Comps : ~Running(c)
  /\ Drop(Comps) /\ mAppRunning' = FALSE
  /\ Pop
  /\ UNCHANGED <<mRun, todo, checked, others, history>>

-----------------------------------------------------------------------------
(* adaptToReconfiguration.                                                 *)

Configure ==
  /\ Handling("CONFIGURE") /\ mAppRunning
  /\ checked' = {} /\ todo' = DOMAIN cmd.arg
  /\ at' = "walk"
  /\ UNCHANGED <<mStateQueue, mAppRunning, mRun, conf, life, orphans, others, history>>

Checked(c) == checked' = checked \cup {c} /\ todo' = todo \ {c}

\* (A mistake: a process that has changed is left as it is.)
NoChange_Changed(c) ==
  /\ Main("walk") /\ Walks(todo) /\ conf[c] # None
  /\ Checked(c)
  /\ UNCHANGED <<mStateQueue, mAppRunning, mRun, at, conf, life, orphans, others, history>>

NoChange(c) ==
  /\ Main("walk") /\ Walks(todo) /\ Unchanged(c)
  /\ Checked(c)
  /\ UNCHANGED <<mStateQueue, mAppRunning, mRun, at, conf, life, orphans, others, history>>

StopChanged(c) ==
  /\ Main("walk") /\ c \in Stops
  /\ life' = Told({c})
  /\ UNCHANGED <<mStateQueue, mAppRunning, mRun, at, todo, conf, checked, orphans, others,
                 history>>

\* A new process, or the new wrapper of one that has changed and has ended.
StartConfigured(c) ==
  /\ Main("walk") /\ c \in Starts
  /\ StartNew({c}, NewConf)
  /\ Checked(c)
  /\ UNCHANGED <<mStateQueue, mAppRunning, mRun, at, others, applied, missed, leftover>>

Unchecked == {c \in Comps : conf[c] # None} \ checked

StopOthers ==
  /\ AllTold("walk")
  /\ todo' = Unchecked /\ at' = "others"
  /\ UNCHANGED <<mStateQueue, mAppRunning, mRun, procs, others, history>>

\* The erase loop increments an iterator to what it has just erased.  As long as
\* the freed node is intact it goes on, but may pass over entries.
Erasures ==
  IF "leftover" \in Faults /\ Unchecked # {} THEN SUBSET Unchecked \ {{}}
  ELSE {Unchecked}

\* (A mistake: waits for every process, also for those that go on.)
EraseOthers_JoinAll ==
  /\ AllTold("others") /\ \A c \in Comps : ~Running(c)
  /\ \E gone \in Erasures : Drop(gone) /\ leftover' = leftover \cup (Unchecked \ gone)
  /\ applied' = cmd.arg
  /\ Pop
  /\ UNCHANGED <<mAppRunning, mRun, todo, checked, others, missed, late>>

EraseOthers ==
  /\ AllTold("others") /\ \A c \in Unchecked : ~Running(c)
  /\ \E gone \in Erasures : Drop(gone) /\ leftover' = leftover \cup (Unchecked \ gone)
  /\ applied' = cmd.arg
  /\ Pop
  /\ UNCHANGED <<mAppRunning, mRun, todo, checked, others, missed, late>>

-----------------------------------------------------------------------------
(* restartProcess, hard and soft: it takes no lock.                        *)

Matching == {c \in cmd.arg : conf[c] # None}

RestartProcess ==
  /\ Handling("RESTART") /\ mAppRunning
  /\ todo' = Matching /\ at' = "restart"
  /\ UNCHANGED <<mStateQueue, mAppRunning, mRun, procs, others, history>>

\* Both go on with what does not run.
RestartJoined ==
  /\ \/ AllTold("restart") /\ \A c \in Matching : ~Running(c)
     \/ Handling("FAILSTART") /\ mAppRunning
  /\ todo' = Matching /\ at' = "restarting"
  /\ UNCHANGED <<mStateQueue, mAppRunning, mRun, procs, others, history>>

Restarted ==
  /\ Main("restarting") /\ todo = {}
  /\ Pop
  /\ UNCHANGED <<mAppRunning, mRun, todo, procs, others, history>>

-----------------------------------------------------------------------------
(* shutdown(), called by the signal handler on the main thread's stack:    *)
(* mLock, which is recursive, does not keep it out.                        *)

Signalled ==
  /\ "signal" \in Faults /\ handler = "no" /\ ~Gone
  /\ mRun' = FALSE

Signal ==
  /\ Signalled
  /\ handler' = "director"
  /\ UNCHANGED <<mStateQueue, mAppRunning, at, todo, procs, director, sent, history>>

\* It cuts into the start or the stop of a thread, whose object is locked, and the
\* lock is not recursive: the handler waits for ever when it comes to that thread.
SignalLocked ==
  /\ Signalled
  /\ at = "threads" \/ (Stops \cup Starts) # {}
  /\ handler' = "stuck"
  /\ \E S \in SUBSET Comps : life' = Told(S)
  /\ UNCHANGED <<mStateQueue, mAppRunning, at, todo, conf, checked, orphans, director, sent,
                 history>>

\* It cuts into the start of a thread that isRunning() does not show yet.
SignalUnseen(c) ==
  /\ Signalled
  /\ c \in Starts
  /\ Replace({c}, NewConf, "lost") /\ missed' = missed \cup {c}
  /\ handler' = "director"
  /\ UNCHANGED <<mStateQueue, mAppRunning, at, todo, checked, director, sent, applied,
                 leftover, late>>

\* (A mistake: the wrappers are joined, but not told.)
DirectorJoined_NotTold ==
  /\ handler = "director" /\ ~Gone /\ director # "calls"
  /\ director' = "none" /\ handler' = "joins"
  /\ UNCHANGED <<mStateQueue, mAppRunning, mRun, at, todo, procs, sent, history>>

\* The director's lock is free and its thread has ended, after a call that it is in;
\* stopAllProcesses.
DirectorJoined ==
  /\ handler = "director" /\ ~Gone /\ director # "calls"
  /\ director' = "none" /\ handler' = "joins"
  /\ life' = Told(Comps)
  /\ UNCHANGED <<mStateQueue, mAppRunning, mRun, at, todo, conf, checked, orphans, sent,
                 history>>

\* (A mistake: the handler does not wait.)
ShutDown_NotJoined ==
  /\ handler = "joins" /\ ~Gone
  /\ handler' = "heartbeat"
  /\ Drop(Comps)
  /\ UNCHANGED <<mStateQueue, mAppRunning, mRun, at, todo, checked, director, sent, history>>

ShutDown ==
  /\ handler = "joins" /\ ~Gone /\ \A c \in Comps : ~Running(c)
  /\ handler' = "heartbeat"
  /\ Drop(Comps)
  /\ UNCHANGED <<mStateQueue, mAppRunning, mRun, at, todo, checked, director, sent, history>>

\* In a loop over the map that the handler has cleared.
Iterates == at \in Stopping \/ (at \in {"walk"} \cup Starting /\ todo # {})

\* The heartbeat's thread ends, by the message it is sent or by its timeout, and the
\* main thread goes on with what the signal cut into: its iterator is no longer good
\* for anything, and the daemon crashes, or the loop ends.
HeartbeatJoined ==
  /\ handler = "heartbeat" /\ ~Gone
  /\ handler' = "done"
  /\ todo' = IF at = "walk" THEN todo ELSE {}
  /\ UNCHANGED <<mStateQueue, mAppRunning, mRun, at, procs, director, sent, history>>

CrashErased ==
  /\ handler = "heartbeat" /\ ~Gone /\ Iterates
  /\ handler' = "done"
  /\ Leaves("failed")

-----------------------------------------------------------------------------
(* The wrappers' threads.                                                  *)

End(c) ==
  /\ life[c] \in {"up", "told", "lost"}
  /\ life' = [life EXCEPT ![c] = "down"]
  /\ UNCHANGED <<mStateQueue, mAppRunning, mRun, at, todo, conf, checked, others, orphans,
                 history>>

\* stopDead(), because /proc/<pid>/stat could not be read.
StopDead(c) ==
  /\ "unreadable" \in Faults /\ life[c] \in {"up", "told"}
  /\ life' = [life EXCEPT ![c] = "lost"] /\ missed' = missed \cup {c}
  /\ UNCHANGED <<mStateQueue, mAppRunning, mRun, at, todo, conf, checked, others, orphans,
                 applied, leftover, late>>

-----------------------------------------------------------------------------
Init ==
  /\ mStateQueue = <<>> /\ mAppRunning = FALSE /\ mRun = TRUE
  /\ at = "threads" /\ todo = {} /\ checked = {}
  /\ conf = [c \in Comps |-> None] /\ life = [c \in Comps |-> "none"]
  /\ handler = "no" /\ director \in {"none", "runs"} /\ sent = 0
  /\ orphans = {} /\ applied = <<>> /\ missed = {} /\ leftover = {} /\ late = {}

Handler == DirectorJoined \/ ShutDown \/ HeartbeatJoined

\* The main thread, the handler that runs on it, and the ORB's that answers the
\* director.
MainThread ==
  \/ FromThreads \/ CheckNewState \/ NewStateChecked \/ Ignore \/ Quit
  \/ StartProcesses \/ Started \/ StopAll \/ JoinAll
  \/ Configure \/ StopOthers \/ EraseOthers
  \/ \E c \in todo : NoChange(c) \/ StopChanged(c) \/ StartConfigured(c) \/ Start(c) \/ Stop(c)
  \/ RestartProcess \/ RestartJoined \/ Restarted
  \/ Handler

Next ==
  \/ MainThread \/ ToThreads \/ StartFails \/ CrashErased
  \/ Signal \/ SignalLocked \/ \E c \in todo : SignalUnseen(c)
  \/ DirectorCalls \/ DirectorCalled
  \/ \E command \in Commands : ChangeState(command)
  \/ \E c \in Comps : End(c) \/ StopDead(c)

Spec == Init /\ [][Next]_vars

\* The main thread runs, a call of the director's is answered when the lock is free,
\* and a process that is told to stop does.
FairSpec ==
  /\ Spec /\ WF_vars(MainThread) /\ WF_vars(DirectorCalled)
  /\ \A c \in Comps : WF_vars(life[c] = "told" /\ End(c))

-----------------------------------------------------------------------------
(* Properties.                                                             *)

TypeOK ==
  /\ mStateQueue \in Seq(Commands)
  /\ mAppRunning \in BOOLEAN /\ mRun \in BOOLEAN
  /\ at \in {"idle", "threads", "command", "starting", "stopping", "walk", "others",
            "restart", "restarting", "exited", "failed"}
  /\ todo \subseteq Comps /\ checked \subseteq Comps
  /\ conf \in [Comps -> Versions \cup {None}]
  /\ life \in [Comps -> {"none", "up", "told", "down", "lost"}]
  /\ \A c \in Comps : conf[c] = None <=> life[c] = "none"
  /\ handler \in {"no", "director", "joins", "heartbeat", "done", "stuck"}
  /\ director \in {"none", "runs", "calls"} /\ sent \in 0 .. MaxCommands
  /\ orphans \subseteq Comps /\ missed \subseteq Comps
  /\ leftover \subseteq Comps /\ late \subseteq Comps

\* No wrapper is dropped or replaced while its process lives, wherever the
\* signal handler cuts in and however a process ends - except that of a process
\* that isRunning() misses: its status could not be read, or the signal cut into
\* the start of its thread.
NoneForgotten == ~Gone => orphans \subseteq missed

\* When a stop has been handled nothing that the daemon started is left.
StopLeavesNone ==
  at = "idle" /\ ~mAppRunning => \A c \in Comps : conf[c] = None

\* Between commands exactly what was last configured is managed, as it was last
\* configured, unless a shutdown dropped it or an erase loop passed over it.
AsConfigured ==
  at = "idle" /\ mAppRunning =>
    /\ \A c \in Comps \ leftover :
         conf[c] # None => c \in DOMAIN applied /\ conf[c] = applied[c]
    /\ mRun => \A c \in DOMAIN applied : conf[c] = applied[c]

\* A daemon that shuts down leaves no process behind but those it starts for
\* commands that were queued already, and those that isRunning() misses.
ExitLeavesNone == at = "exited" => orphans \subseteq missed \cup late

\* Every command is handled.
QueueDrains == mStateQueue # <<>> ~> mStateQueue = <<>> \/ ~mRun \/ Gone

\* The handler waits for a thread whose object the main thread, under it, has locked,
\* or for the director, which waits for the main thread to let go of mStateLock.
Deadlocked ==
  \/ handler = "stuck" /\ (at = "threads" \/ at \in Stopping \cup Starting \cup {"walk"})
  \/ handler = "director" /\ director = "calls" /\ ~Unlocked

\* A signal ends the daemon, whatever it interrupts: queue, commands, joins, a call of
\* its own director - except when it cuts into the start or the stop of a thread, or
\* into a command that a call of its own director waits behind.
ShutdownEnds == ~mRun ~> Gone \/ Deadlocked
=============================================================================
