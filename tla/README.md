# A verification project for RPMS

RPMS runs the processes of an application on a set of nodes.  Every node runs a daemon.  The
daemons elect one of them, and that one hosts the director, which distributes the configured
components over the daemons that register with it, tells them to start, stop and reconfigure, and
redistributes when a daemon's heartbeat stops.  Each daemon keeps its share of processes running
with one thread per process.  Clients call the director to start, stop and inspect the system.

This directory holds TLA+ modules of the parts that decide whether this works, the TLC
configurations that check them on small instances, and proofs of what holds for every size.
Paths below are relative to `src/src/libs/` unless they begin with `src/`.

    tlc -workers 2 -config Director_safety.cfg MCDirector     # any of the runs below
    tlapm DirectorProofs.tla                                  # any of the *Proofs modules

## 1. Inventory

| component | state it keeps | operations | talks to |
|---|---|---|---|
| director (`directorlib/sc_directorthread`, `sc_dirremotectrls`) | map of controllers, `mSystemRunning`, `mClientInteraction`, a lock per layer | registration, start, stop, reconfigure (forced), restart, restart failed, status, stop; once a second `checkDaemons` | distributor (calls), controllers (threads), daemons (remote calls), clients and daemons (remote callers) |
| daemon controller (`directorlib/sc_daemonctrl`) | remote reference, socket, failed pings | bind the daemon, ping it, end after too many failures | daemon's heartbeat thread (UDP) |
| distributor (`distributor`) | `mDistributed`, node configurations, what was last sent; the statistics thread has its figures and a data file | distribute, redistribute, force, reset, share of a node, by turns or by weight; poll, learn, write, read back | director (calls, and remote calls for statistics) |
| election (`election`) | `mLeaderHost`; a ring's `mElecting` | bully, ring or static: should I lead, suggest a leader, take a suggestion, pass a message on | other nodes (TCP, one message per connection), daemon |
| daemon (`daemonlib/sc_daemon`) | `mDirectorThread`, heartbeat thread, `mAppRunning`, the state queue | the main loop: elect, run a director or not, register, work off the queue while the heartbeat lasts; remote `changeState`; shutdown | all of the above |
| process manager (`daemonlib/sc_processmanager`) | map of wrappers | start, stop all, adapt to a configuration, restart | wrappers (threads), daemon's main thread, signal handler |
| process wrapper (`daemonlib/sc_processwrapperthread`) | child's pid, retry times, stop and failure flags, pipes | fork, watch, reap, judge, restart, give up; stop from another thread | operating system, its readers |
| stream readers (`streamreader`) | pipe, `mShouldRun` | empty the child's output into a log, until it ends or is told to stop | wrapper |
| heartbeat (`daemonlib/sc_heartbeatthread`) | socket, failed attempts | answer pings, end when they stop, be reset and started again | controller (UDP), daemon's main loop |
| threads, locks, shared pointers (`base`, `tools`) | running flags, `mThreadId` and `mCounter`, reference counts | start, join, stop; lock, unlock; copy, drop | everything |
| configuration documents (`xmlutil/sc_xmlsysconfig`, `sc_xmlnodeconfig`, `ss_xmlutil`) | components, hosts, a node's share | load, merge with defaults, write, read back | distributor, daemon, election |
| client, CORBA, other sockets and XML, logging, ini | none of interest | | |

What is hard here:

* **Interleaving without locks.**  The director's thread redistributes while a client's call or a
  registration is half-way through its broadcast; two of the director's operations take no lock.
  A daemon's main, communication and director threads share `mLeaderHost` and `mDirectorThread`
  with no lock at all.  The recursive mutex reads its own owner before it holds anything.  A
  process is stopped while its wrapper forks or reaps it.  The signal handler runs a shutdown on
  top of a half-done command, and may need a lock that the main thread, under it, holds.
* **Failure.**  A node fails between any two calls of a broadcast, or is only suspected; the
  director's own node fails and another takes over a running system; system calls fail in the
  middle of a fork, a thread cannot be created, a socket error ends a thread.
* **Messages.**  Heartbeats are lost, late, or somebody else's, and each side gives the other up by its
  own count; a ring's message is lost with the daemon that holds it.
* **Ordering.**  Commands wait in a daemon's queue; a daemon registers after a stop, still running; a
  status walks over what is being replaced; statistics rise while they are weighed.
* **Boundaries.**  Retry windows, iterators used after erasure, thread ids that do not fit.

The properties that make each part correct are those of section 3; the hazards, each at its line
and with the properties aimed at it, are listed in `PROJECT.json`.

## 2. Modules

| module | models | proofs |
|---|---|---|
| `Director` | director, controllers, what round robin promises, the daemon's servant and queue | `DirectorProofs` |
| `Assignment` | abstract: what a director promises about who runs what | (implemented by `Director`) |
| `Heartbeat` | a controller and a daemon's heartbeat thread, and the datagrams between them | `HeartbeatProofs` |
| `Distribution` | both methods of distribution, the statistics thread and its file | `DistributionProofs` |
| `SysConfig` | the system's configuration and a node's share of it, as they are read and written | |
| `BullyElection` | a daemon's three threads, bully election, director life cycle | `BullyProofs` |
| `Elections` | the same daemons with any of the three elections: bully, ring, static | `ElectionProofs` |
| `NodeConfig` | the list of hosts, from which an election's candidates are taken | |
| `ProcessManager` | process manager, state queue, main loop's work, shutdown by signal | `ManagerProofs` |
| `StatusReport` | a status or statistics call that walks over the manager's map beside all that | `ManagerProofs` |
| `ProcessWrapper` | one wrapper's thread, its child, and a stop | `WrapperProofs` |
| `ProcessOutput` | the same with the child's output, its pipe and its reader's thread | `WrapperProofs` |
| `ThreadBase` | a thread object, as an operand | |
| `RecursiveMutex` | `SC_RecursiveMutex`, read by read | `MutexProofs` |
| `RecursiveLock` | abstract: a lock its owner may take again | (implemented by `RecursiveMutex`) |
| `MC*` | values for TLC's constants, and the situations of a run | |

How they fit: every `lock()` of the other modules is atomic because `RecursiveMutex` implements
`RecursiveLock` where thread ids are narrow (ILP32); the
runs of the other modules are about that platform.  `ProcessManager` sees a wrapper as up, told,
down or lost, which is what `ProcessWrapper`'s `LeavesNoChild` and `StopEnds` leave of it but for
the exceptions they name (a stop that never returns among them).
`Director` sees a daemon as a queue worked off in order and a set of processes, which is what
`ProcessManager`'s `QueueDrains`, `AsConfigured` and `StopLeavesNone` say it is (its faults aside),
and one director whose life begins and ends as `BullyElection` says; it sees a daemon's end or a
controller's at any moment, of which `Heartbeat` says when it comes and that it comes; and a
placement as any balanced one, which `Distribution`'s `Placed` and `Balanced` say of the
code's own.  These joints are argued here, not checked.  Composition proper, by `EXTENDS`, is
`Elections` of `BullyElection`, `StatusReport` of `ProcessManager`, `ProcessOutput` of
`ProcessWrapper`, and `Distribution` and `Heartbeat` of `ThreadBase`: each takes the whole module, every
step of it, and says what the step does to what is new.

Operators with an underscore and a comment that begins "A mistake" are not part of a model: they
are plausible bugs, and for each property of a passing run `PROJECT.json` names one that breaks it.

### Director

The remote calls are served one at a time (`SC_DirectorThread::mLock`), so `thr["orb"]` is one
activity; `thr["dir"]` is the director thread, which never takes that lock.  `Holds(t)` names
the operations that hold `SC_DirRemoteCtrls::mLock` from end to end, and `LockFree` guards
what has to wait for it.  An activity is at `await` (addDaemon polling `isInitialised`),
`distribute` (between the list of nodes and the distribution in reconfigure), `send` (with the set
of hosts still to call: the controller map is keyed by host name, so every order is a possible
one), `ask` (the same of a status), `join` (stopping controllers) or `spin`.

* `ClientStart` ... `ClientStatus`, `Shutdown`, `Register` are the servant's entry points up to the
  first remote call.  `Send`, `SendErased`, `SendFails`, `SendNil` are one remote call each, `Ask`
  is one of a status, whose exceptions are caught; `Finish` and `StatusRead` are what the operation
  does after its loop.
* `director` is the director thread and its object: its loop runs, has ended by an exception
  (`loopEnded`), is told to end (`stopping`) and has (`stopped`); until the daemon deletes the
  object (`DirectorDeleted`) its servant answers every call.  A shutdown (`stopAll`) joins the
  controllers one by one (`Join`), clears each one's pointer and leaves the entry (`empty`), then
  cleans up as ever (`ShutdownJoined`), which may pass entries over; a later call that comes to an
  empty entry goes through a null pointer (`SendNil`, `ShutdownNil`) and the process is gone
  (`crashed`).
* `CheckDaemons` is the director thread's round.  `Erasures` is `cleanDeadDaemons`, which erases an
  entry and then increments the iterator to it: at least one dead entry goes, others may be passed
  over.  A crash is another outcome of that and is left out.
* `SendErased`: the loop of one thread meets an entry that the other thread erased.
* `CtrlInit`, `CtrlEnds`, `CtrlTimesOut` are a controller's thread; `HeartbeatLost`,
  `HeartbeatTimesOut` the daemon's side; a lost or late datagram is the fault "silence".
* `CheckNewState` is one turn of the loop in the daemon's `checkNewState`.
* `Placements` is what the round robin method promises: any placement in which a node that received
  a component is at most one ahead (`Distribution` computes the one).  `Distribute` and `Kept` are
  `prepareForRedistribution` and `distributeComponents`; `NowhereToPlace` is the loop that never
  ends without a node (`distributor/sc_roundrobindistribution.cpp:87`), after which nothing gets the
  lock.
* `Init` is a fresh director; `InitSteady` a system that runs (`SteadyOn` one that runs on some
  nodes); `TakenOver` daemons that still run what the previous director, whose node has failed, gave
  them (`InitTakeover` where that failure is not counted among the faults).

`Assignment` says the same of the books alone: one owner per component from assignment to reset,
"running" only while assigned, pinned components moved only by force.  The refinement takes
`mDistributed` for assigned, `mSystemRunning` for running and the node that a component is
configured on for its owner.

### BullyElection

A host is named by its rank.  `main`, `comm` and `director` are the three threads of a daemon;
`inbox` the connections waiting at the election port; `follows` whose heartbeats a daemon gets.
Probing is one connection per step.  `suggestLeader`'s tests up to its first change are one step
(`Suggested`), dropping the director is another (`Deregister`), recording the leader a third
(`SetLeader`), because the main loop runs in between.  `deRegisterCurrentDirector`'s stop, join and
zeroing are one step.  A crash is a host's.  A director's servant answers from its initialisation to
its deletion, also when it has been stopped (`Serving`): its thread then runs for up to a second
more (`stopping`, until `DirectorEnds`), in which the main loop finds it running and starts no
other, and whoever registers is given a controller that pings.  What a registration throws when its
callee goes away is no `SX_Daemon` and ends the daemon (`Exit`), and so may a director that is
deleted under its threads.  A refused registration changes nothing and is tried again, so it is a
stutter.  `registerWithNewDirector` has no caller and no action.

### Elections

`type` is the configured election, `mail` the ring's messages at a node's port, beside
`BullyElection`'s `inbox`.  A ring message goes to the next candidate that can be connected to
(`NextNode`); `RingInitiate`, `RingElect`, `RingCoordinate`, `RingSuggested` and `RingConclude` are
`initiateRingElection` and the cases of `processElectionMsg`, with `suggestLeader` again in separate
steps, as it is where a node is alone (`RingAlone`, `RingAdopts`).  The originator polls
`mElecting`.  A message is lost with the process that holds it, at a node whose comm thread has
ended while its port stays bound (`deaf`, fault of the same name), or when nobody is left before its
originator; `lost` is history.  The static election names the highest candidate, running or not.
`MCElections` derives the candidates from a list of hosts by `NodeConfig`, and its `situation`
picks, in `Init`, which daemons there are and what may happen to them.

### Heartbeat

Three threads: `control` (`SC_DaemonCtrl::run`), `heartbeat` (`SC_HeartbeatThread::run`) and `main`
(the part of `SC_Daemon::run` that registers, watches and resets).  `servant` is the director's
`addDaemon`: where the system or the daemon's components run it polls the new controller's
`isInitialised` with the locks held, and `main` waits in its call ("calls").  An exception that
`SC_DaemonCtrl::run` does not catch, out of its `init()`, a send or a receive, ends the controller
at once (`ControlThrows`); if that was before it was initialised the servant waits for ever, and
with it every later registration.  A datagram is a ping, a reply, a "die" that breaks a receive, or
one that comes late: after its receiver has timed out, or its sender's socket has been closed
("stranger").  Neither side looks into what it receives, so any datagram counts.  Time passes
(`Tick`) when every thread sleeps or waits; what is not a sleep or a receive takes none.  All times
and counts are constants, because the repository sets them in an ini file of the installation; the
bounds below are one choice of them.  `hurt` is history: failures since each side last had the
other's own, timely datagram.

### Distribution

One call of `SS_Distributor` at a time (`call`), which holds the distributor's lock from `Call` to
`Ended`; the balanced method waits for the statistics thread (`Awaited`), sorts out what has
statistics (`Prepare`), gives it out one by one (`Place`), and the rest by turns (`Finish`).  The
round robin's sweep is computed as the list of free slots it passes (`Swept`), which is what the
code's loop amounts to.  A collector is a thread started on the one statistics object: a stop does
not end it (`StoppedDead`), so there may be two.  `Learn` raises the weights, also while a
distribution reads them through shared pointers.  `Truncate` and `Write` are the two steps of
`persist`, and `Torn` what a crash between them leaves.  `EditFile` is an operator who changes
`rpms_config.xml`.  Without a node the round robin spins and the others divide by zero.  A statistics
thread that cannot be created is thrown out of `start()` with its object's mutex locked (`jammed`): the
next start, or stop (`StopWaits`), waits for it for ever.

### SysConfig and NodeConfig

Pure operators: what loading, building, merging with defaults, writing and reading back a document
does to the values in it.  `Merge` is a walk over the defaults with one pointer into a
component's children, correct as long as these come in the order of the DTD, which
`MCDistribution` asserts for every subset of them.

### StatusReport

`walk` is a call of `getDaemonStatus` or `getProcessStats` on a thread of the ORB: `Ask`, then one
`Visit` per entry, then `Answered`.  It takes no lock, so every step of `ProcessManager`
may come between (`Beside`).  What is inserted or replaced does it no harm; when the entry under
its iterator is erased (`Erased`), what follows is undefined, and the daemon crashes or the walk
goes anywhere (`VisitFreed`).

### ProcessManager

`at` is where the main thread is.  `ChangeState` (the ORB's threads) waits for `mStateLock`, which
the main thread holds but in its own loop ("idle") and while it starts or stops its heartbeat or its
director ("threads").  The loops that start and stop wrappers go one by one through `todo`: `Start`
and `Stop`, for `startProcesses` (`StartProcesses` to `Started`), `stopAllProcesses` (`StopAll`,
`JoinAll`), the two restarts (`RestartProcess`, `RestartJoined`, `Restarted`), and
`adaptToReconfiguration`: `Configure`, per component `NoChange`, or `StopChanged` and
`StartConfigured`, then `StopOthers` and `EraseOthers`.  A process may end by itself (`End`) between
any two.  `EraseOthers` has the fault "leftover": the loop increments an erased iterator and passes
entries over.  `director` is the director that this daemon may host, which calls its own daemon too
and then waits for `mStateLock`.

The signal handler is taken to run on the main thread, on top of any step, with the recursive lock
letting it in.  It goes through stages: it stops and joins the director and tells all wrappers
(`DirectorJoined`), joins and drops them (`ShutDown`), joins the heartbeat (`HeartbeatJoined`), and
the main thread goes on with what was interrupted, over a map that has been cleared: an iterator
into it may crash the daemon (`CrashErased`).  `SA_ThreadBase::mLock` is not recursive: a signal
that cuts into the start or the stop of a thread leaves the handler waiting for that very thread
(`SignalLocked`, "stuck"), and one that cuts into a start before `isRunning()` shows it loses the
child (`SignalUnseen`).  `late` remembers what is started after a shutdown, by commands that were
queued: neither the queue nor `mAppRunning` is reset. "unreadable" is a wrapper that calls
`stopDead()` on its own thread: isRunning() turns false, the child lives.  "startFails" is an
exception on the way to a new thread, which ends the daemon.

### ProcessWrapper

`at` follows the wrapper's thread through `loop` (with `checkFailureRate`), `fork`, `record` (the
parent storing the pid), `watch`, `wait`, `reaped`, `evaluate`, `join`, `ended`.  `Stop` sets
`mExternalStop` and reads `mChildPID`; `Kill` is the signal, later, with whatever was read (the
child, or 0 or -1, of which kill(2) makes the daemon's own group or everything), and then the end of
the readers.  A reader that cannot be started throws past `waitpid` (`Unstarted`): the thread ends
beside its child, and as the reader's lock is left taken, a `stop()` hangs (`Hung`).  Telling a
reader without a thread to stop is a `pthread_kill` of thread 0, which may crash the daemon
(`StoppingReaders`).  `Pruned` is what the erasing loop does to a `std::deque` of libstdc++ when it
goes on with the iterator it has erased: of several entries of which the oldest k are old, k + 1 go;
if all are old, the loop runs past the end and the size wraps around (`Wraps`).  The child is an
"image" of the daemon before `execvp`, and a SIGTERM then runs the inherited handler in it, which
hangs; one that could not be executed is "nameless": it has ended under the daemon's name, and the
watch loop, which looks for the program's, never comes to reap it.  Pids are not recycled.

### ProcessOutput

`out` is one pipe and the reader the wrapper has made for it.  Readers start only once the child
bears its program's name, and are told to stop when it has been reaped, or by `stop()` directly
after the signal: a child that writes on its way out may then wait for nobody (`Unread`).  A stop
clears `mShouldRun`, but a reader in `read()` sees it only at the next turn, and `join()` returns at
once. So the wrapper may replace and delete a reader whose thread still runs (`stray`), after which
that thread may crash the daemon.  "noLogFile" is a log that cannot be opened, whose null pointer is
then closed; "noLogSpace" (in `ProcessWrapper`) a log directory that cannot be made, which ends the
loop of the wrapper's thread before it forks.

### RecursiveMutex

Every read of `mThreadId` and `mCounter` is a step, since they are made before the pthread mutex is
held.  `Id` is what `pthread_self()` returns and `IdBound` the values an `unsigned int` holds:
`Narrow` when every id fits, else the stored id never equals any.  `Narrow` also assumes that
ids are not zero, as glibc's are not.

## 3. Runs

"Violation" runs show that something a comment or document of the repository says is not so; they
are the findings of section 6.

| run | instance | checks |
|---|---|---|
| `Director_safety` | 2 nodes, a moveable and a pinned component, 2 client calls (start, stop, reconfigure, force, restart failed, status, shutdown), 2 faults (crash, silence); a new director, or one that takes over after a node, the first fault, has failed; a director that is shut down meets one fault at most | `TypeOK`, `Agreement`, `EachComponentOnce`, `LockedShares`, `PinnedStay`, `StopIsFinal`, `ImplementsAssignment` |
| `Director_live` | 3 nodes, a moveable and a pinned component; a new system with two calls, a takeover with one, a steady system with one call and one crash, a steady pair of nodes with one call of any kind but start and two crashes of the node that can fail | `Settles`, `Adopted`, `StopReachesAll`, `OperationsEnd`, `StartedReallocated` |
| `Director_takeover` | 3 nodes, 2 components, takeover, nothing else | violation of `Reallocated` |
| `Elections` | 3 candidates; two bully daemons started at once with 3 of crash, start, stop of a director; a ring of three with a crash; a led bully or ring of three with 2 of crash and deafness; a static pair with 3 crashes and starts | `ElectionTypeOK`, `NeverBelow`, `LeadersServe`, `EveryoneServed`, `Failover` |
| `Bully_revived` | 2 nodes, the lower leads, the higher starts | violation of `OnlyLeader` |
| `Heartbeat` | a director and a daemon; give up after 2 and 3 failures, receive of 2, pulse and sleeps of 1; 4 faults of any kind | `Patient`, `Settled` |
| `Distribution` | 2 nodes, 2 components in 3 processes, 4 configuration files, round robin or balanced by memory, 2 statistics threads, 3 calls, 1 poll, 1 fault | `Placed`, `SharesRead`, `Balanced`, `Remembered`, `CallsEnd` |
| `Manager_faults` | 2 processes, 2 versions, 2 configurations, any 3 commands, reports, calls of the daemon's own director or ended heartbeats, all faults | `ReportTypeOK`, `NoneForgotten`, `AsConfigured`, `ExitLeavesNone`, `StatusComplete`, `QueueDrains`, `ShutdownEnds` |
| `Wrapper_faults` | one process, continuous or once, 1 retry in a window of 2, clock to 4, its output, all faults, a reader that cannot be started among them | `OutputTypeOK`, `LeavesNoChild`, `RestartsBounded`, `StopEnds`, `KeepsRunning`, `Drained` |
| `Wrapper_retry` | the same, without faults | violation of `GivesUpJustly` |
| `Mutex_narrow` | 3 threads, 3 nested calls, ids that fit | `Released`, `ImplementsLock`, `SomebodyGetsIt` |
| `Mutex_wide` | 2 threads, 3 nested calls, ids that do not fit | violation of `Released` |

What the runs show, property by property, is said in the comment on each definition.  Two runs ask
their questions of several situations at once: a variable of the MC module, chosen in `Init` and
never changed, says which daemons, calls and faults there are, and a property about one of them
begins with its initial predicate (`InitSteady => ...`).

Why the bounds are enough:

* *Director.*  Two nodes give every broadcast a middle, a node to fail before and after it is
  called, and a node to move components to and from; two calls and two faults give a call during
  another thread's redistribution, a registration after a stop, and a second fault while the first
  is handled.  The pair of `Director_live` has the second crash, and the shutdown, that the
  director's two hangs take: a node that fails again before its new controller is initialised, and a
  distribution after the last controller has gone.  Three nodes are there where one is lost and the
  others must share what it had.  A moveable and a pinned component are the two kinds;
  `Director_safety`'s invariants are in addition proved for every number of nodes, components, calls
  and faults.  After a takeover `Agreement` is not asked for, as the failed node is a fault: running
  daemons ignore the new share (finding 1).
* *Elections.*  Two nodes are a superior and a lesser with every race of their six threads; three are
  needed for a successor that is not the only one left, and for a ring with a node that
  is neither originator nor next.  Three faults allow crash, restart, crash.
* *Heartbeat.*  The two limits differ from each other and from one, the receive takes longer than
  the pulse, and four faults are two more than the director tolerates and one more than the daemon
  does: a false alarm by one side, or a death, a new start, a controller that an exception ends, and
  a registration after it.  The queues of datagrams need no bound of their own.  `Patient` is in
  addition proved for all times, limits and faults.
* *Distribution.*  Three calls are a distribution, a redistribution or stop, and another; with two
  collectors the second meets the first one asleep.  Three processes over two nodes do
  not divide evenly; one component has no weight when only the other has been reported.  One fault
  is an edit, a crash, or a failure.  The criterion "cpu" differs from "memory" in the figure
  that is read only, and is left out of the run.
* *Manager.*  Two processes are enough for one to be changed, dropped or skipped while the other
  stays, and for a walk to be between them; the two configurations change a process, leave one out
  and bring it back; three commands allow start, reconfigure and stop, restart or reconfigure again,
  or a call of the daemon's director behind a command that a signal cuts into.
* *Wrapper.*  With one retry allowed in two ticks, four ticks pass the window twice, so the
  deque has had new, old, and only old entries.  `LeavesNoChild` and `RestartsBounded` are in
  addition proved for every limit, window and clock.
* *Mutex.*  Three threads give two that compete while a third unlocks; depth 3 has a
  nested call that is neither the first nor the last.

`CHECK_DEADLOCK FALSE` is set where the instance really may stop: the calls, faults and commands are
bounded, and a daemon that has exited, a wrapper that has ended or a director that spins for lack
of a node does nothing more.  The mutex and the heartbeat never stop and are checked for
deadlock.

### Fairness

Weak fairness only, and only of threads that run by themselves:

* director: the thread that serves a call, the director thread's round, each broadcast, each
  controller's thread, each daemon's registering, heartbeat and queue, and the director's end once
  it is told: all are loops with a short sleep or calls that return or fail.  None of clients,
  faults or a node's restart.
* elections: each of the three threads of every daemon; none of a restart.
* heartbeat: each of the three threads, the passing of time, and the arrival of a datagram that
  is late and not lost.  No fault ever has to happen.
* distribution: the thread that distributes, and each statistics thread; none of callers, of an
  answer that reports something, or of what fails.
* manager: the main thread and the handler on it; a call of the daemon's own director once
  `mStateLock` is free; a process that has been told to stop (by SIGTERM, or by SIGKILL or its own
  end) comes to end, as `StopEnds` shows of its wrapper; an ORB's thread that walks.
* wrapper: its thread, the thread that is about to signal, a child on its way to `execvp`, the end
  of a child that got SIGTERM and does not wait for a reader that has gone, and its reader's thread.
  A child left alone may run for ever, and need not write.
* mutex: a thread in `lock()` or `unlock()` goes on, and one that has locked comes to unlock.
  Nothing is assumed about who gets a mutex that several threads wait for, and
  `SomebodyGetsIt` promises no more than that somebody does.

## 4. Proofs

TLAPS proves the following for every value of the constants that the assumptions named
`...Assumption` allow.  `tlapm` checks each module to the last leaf.

| theorem | says | inductive invariant |
|---|---|---|
| `Typing` (`DirectorProofs`) | `Spec => []TypeOK` | with `AwaitsDaemon`: who awaits is a node |
| `OneNodeEach`, `RunningMeansDistributed` | `EachComponentOnce`, `RunningIsDistributed` | `Books`: both, and `InHand`, that an operation which is to set `mSystemRunning` has a distribution in hand |
| `PinnedComponentsStay`, `StopsAreFinal` | `PinnedStay`, `StopIsFinal` | steps of `BookSteps` under `Books` |
| `SharesAreFresh` | `LockedShares` | `LockInv`: at most one thread holds the lock, and what it sends is the latest |
| `DaemonsAgree` | `Agreement` | `Accord`: without faults (`Calm`), the queue of every registered daemon, worked off, comes to what the director believes the daemon runs (`Comes`), but for those that the call in hand has still to reach (`Unsent`); and once a shutdown has begun the director only ends (`ShutsDown`) |
| `AssignmentImplemented` | `Director` implements `Assignment` | each step is a step of `Assignment` or a stutter, under `Books` |
| `BullyTyping`, `BullyOrder`, `LeadersHaveDirectors` (`BullyProofs`) | `TypeOK`, `NeverBelow`, `LeadersDirect` | `Order`: all that can become somebody's leader ranks above it (`Above`), only a daemon that listens has none on record (`CanAsk`), and a self-declared leader has a director but for the moment in which its comm thread replaces it (`HasDirector`) |
| `ElectionTyping`, `ElectionsOrder`, `ElectionsServe` (`ElectionProofs`) | `ElectionTypeOK`, `NeverBelow`, `LeadersServe` in any election | `Ordered`: the bully's own `Order`, or in a ring `Ranked` (what a daemon has on record or works on is no lower than itself) and `Tracked`: a message bears the highest rank of all that listen between its originator and where it is (`Borne`), so that what comes back is the highest there is; `Present`: who is followed or called runs; `Loyal`: who takes itself for the leader neither calls nor follows another |
| `ManagerTyping`, `ManagerForgetsNone`, `ManagerStops`, `ManagerShutsDown` (`ManagerProofs`) | `TypeOK`, `NoneForgotten`, `StopLeavesNone`, `ExitLeavesNone` | `Busy` (in the middle of which command), `Books` (a lost wrapper is on record as `missed`, and what a loop has still to start is managed), `Stopped`, `Ended` (what runs after a shutdown was started after it) |
| `ManagerAsConfigured` | `AsConfigured` | `Configured`: a walk over the new configuration has made what it has checked fit (`Fits`), and with what is still to do that is all of it; what is managed beside it is `leftover`; restarts change none |
| `WrapperTyping`, `WrapperLeavesNoChild` (`WrapperProofs`) | `TypeOK`, `LeavesNoChild` without the output | `Children`: where in its loop the thread has no child, and where it knows of none; or it is on its way out because a reader could not be started |
| `WrapperRestartsBounded`, `OutputRestartsBounded` | `RestartsBounded` without and with the output | `Retries`: starts are in order of time, and until it gives up the wrapper has the last of them on record, and all others have left the window, but for the one that an erasure took with the old ones (`Remembers`) |
| `OutputTyping`, `OutputLeavesNoChild` | `OutputTypeOK`, `LeavesNoChild` with the output | the wrapper's own, kept by its steps in the composition, by the readers', which leave it alone, and by the daemon's crash; and `WriterWaits`, that only a running process waits to write |
| `NeverForgets` (`DistributionProofs`) | `Remembered` | `StatsInv`: an object that is not initialised knows nothing, a thread that has got to its loop has initialised it, and once it is initialised it knows at least what the file says (`Covers`) |
| `SharesAreRead` | `SharesRead` | `BooksInv`: each node's document is the elements of its processes (`Config`), and outside a distribution the documents sent are those of the books (`SentAsBooked`).  That reading an element gives the process back is shown of every process a file can yield (`Readable`) |
| `EachHasItsPlace` | `Placed` | `Fitting`: names are unique on the nodes, and what is in hand has every name once and none that is on a node; `Covered`: what is on the nodes and what is in hand is all that is to be placed.  Each method's own arithmetic gives a process to a node that is listed: the remainder of a division (`TurnsAmongNodes`), the sweep (`SweepsAmongNodes`), the least load (`LightestIsNode`) |
| `LoadsAreLevel` | `Balanced` | `Levelled`: while processes are given out the loads are level and the numbers the method goes by are those loads, as long as no weight has risen: none is ever lowered (`CollectRaises`), so statistics that are at the end what they were when they were copied have been so all the while (`CoversBoth`).  That turns are level is arithmetic of remainders (`TurnsAreLevel`); that the sweep is, an induction over the slots, which are taken from the lowest level up (`SweepIsLevel`) |
| `ReportTyping`, `StatusIsComplete`, `ReportForgetsNone`, `ReportAsConfigured`, `ReportShutsDown` (`ManagerProofs`) | `ReportTypeOK`, `StatusComplete`, and `NoneForgotten`, `AsConfigured`, `ExitLeavesNone` with reports | `InStep`: what the walk has passed it has listed, and what is managed or runs is in its history, as long as its iterator is good; beside the manager's own invariant, kept by every report and by the crash one may cause.  That a map has a next entry at all (`LeastName`) is proved from the well-foundedness of finite sets |
| `HeartbeatTyping`, `HeartbeatPatient` (`HeartbeatProofs`) | `TypeOK`, `Patient` | `Known`: for two that are in touch, the controller has counted no more than has gone wrong, and less if it waits for a reply that cannot come any more (`Heard`); and what the heartbeat thread has waited, with what it has at most to wait for the next ping, is no more than is due: a pulse, or the first ping's warming up, and a receive and a pulse for each exchange lost (`Pinged`).  It needs that the socket is bound before the first ping is sent (`Fresh`), that a thread told to stop finds a datagram that wakes it (`Rest`), and that a director that is gone has no controller (`NoDirector`) |
| `MutexTyping`, `MutexExcludes`, `MutexImplementsLock`, `MutexReleased` (`MutexProofs`) | `TypeOK`, `Exclusion`, `ImplementsLock`, and `Released` where ids are narrow | `Record`: `mThreadId` is a thread's own id only while that thread has locked, which is what makes the unlocked reads harmless; `Once`: the pthread mutex is taken once, where ids are narrow |

Each invariant property needs its strengthening because the property itself says nothing of what a
thread has in hand: a broadcast about to set a flag, a message about to be adopted, a pid about to
be recorded.

The theorems name the exceptions of their properties: a wrapper whose reader could not be started
(`LeavesNoChild`), a process that `isRunning()` misses (`NoneForgotten`, `ExitLeavesNone`), a
controller that an exception ends (`Patient`).  These are what the code does, listed in section 6,
and the proofs show that there are no others.

`ElectionsOrder` and `ElectionsServe` are about a ring that nobody joins and where every daemon that
runs listens (`Closed`), as are the ring situations of the run.  The condition is needed: a candidate
that starts between the originator and where its message has come to is passed over, and a lower
leader is told to it.  A leader of a ring may be without a director for
a moment, between the suggestion that ends its old one and the main loop's next; `LeadersServe`
asks for one only by the bully and the static election.

Only model-checked: every liveness property and those over several steps (TLAPS cannot do
`ENABLED`).

`Distribution` computes its lists with recursive functions.  The library's induction theorems take an
operator as a parameter, so `DistributionProofs` has its own, in terms of sets: that a set of numbers
has a least one is proved from the well-foundedness of finite sets (`LeastNumber`), from it
induction (`Induction`), and from that the existence of a function that obeys given equations
(`Recursion`), which makes it the one a recursive definition stands for.  `FilesAssumption` says of
the configuration files what the conversions of `SC_ProcessConfig::build` make of any text: numbers and
Booleans.

## 5. Not modelled

* **Reference counts** (`base/st_spointer.hpp`).  They are changed without a lock.  Which
  object two threads hold at the same moment is decided all over the code; the outcome is a leak or
  a crash, and neither changes what the models say of the rest.
* **The first steps of a thread**: `mThreadId` is written by the new thread, and what reads it before
  (`join()` directly after `start()`) reads 0.
* **The reuse of a pid** between `waitpid()` and `mChildPID = 0`.
* **Other threads that cannot be created.**  `pthread_create` may fail for a manager's wrapper, a reader
  and the statistics thread; that of the director, the heartbeat, a controller and the communication
  thread, at the start of a daemon or beside it, is left out.
* **The lines of a file.**  `persist()` (`distributor/sc_procstatsthread.cpp:189`) writes line by
  line; `Write` is one step after `Truncate`, so a crash may tear the file, but the lines of two
  collectors that write at once do not mix.
* **The order of names.**  The map of components orders strings ("a_10" before "a_2"), `Precedes`
  numbers; no property asks for the order, and with less than ten instances it is the same.  That
  overrides are read rightly (`Merge`) holds of children in the order of the DTD, which is what a
  parser that validates (`xmlutil/ss_xmlutil.cpp:302`) lets through and `MCDistribution` asserts of.
* **CORBA set-up, DOM walking, logging, ini file, command lines, log file names, /proc, the other
  attributes of a status**: data and output.  Of XML the models keep which values a document
  carries, how defaults are overridden, and what one that does not parse comes to.
* **The heartbeat's times.**  That a side which is alone notices is checked for one choice of
  limits; that calls which are not receives take no time is an abstraction that a loaded
  machine breaks.
* **Other outcomes of undefined behaviour.**  Where the erase loops use an iterator after its entry
  was erased, the models take the outcomes of libstdc++ without a crash.
* `src/tools`, `src/config`, test harnesses and `play.cpp` programs.

## 6. Findings

Each has a run that finds it.

1. `Director_takeover`: after the leader's node has failed, the new director adopts the
   running system by distributing over the daemons that have registered and sending `_START`, which
   running daemons ignore (`daemonlib/sc_daemon.cpp:382`).  What the failed node ran is run nowhere.
   `src/README.md:3` promises "process reallocation in the event of node failure".
2. `Bully_revived`: `suggestLeader` (`election/sa_activeelection.cpp:136`) drops the local director
   before it records the new leader; the main loop may lead again in between, and two directors
   stay.  `election/sc_bullyelection.cpp:64`: "Making sure I am the only leader running".
3. `Mutex_wide`: under LP64 a nested `lock()` takes the pthread mutex again and `unlock()` gives it
   back once (`tools/sc_recursivemutex.cpp:29`).
4. `Wrapper_retry`: two restarts that are both older than the window make
   `checkFailureRate` give a process up (`daemonlib/sc_processwrapperthread.cpp:531`).

Seen while modelling, and in the models where they matter, without a run of their own:

* A status call, or a registration, cleans up a dead daemon without redistributing
  (`directorlib/sc_dirremotectrls.cpp:189`, `:77`); the director thread then finds nothing dead.
  `Reallocated` therefore speaks of a system that no client has called meanwhile, and
  `StartedReallocated` is about a single failure.
* An exception out of `checkDaemons` ends the director's thread (`sc_directorthread.cpp:91`): after a
  second crash during a redistribution nobody watches.
* The director hangs in two ways, with its locks (`Hung`): when its thread takes the controllers
  that a shutdown has stopped (`sc_dirremotectrls.cpp:243`) for dead, or the last node fails, it
  redistributes over no node, which spins; and `addDaemon` waits for ever for a controller whose
  `init()` failed (`:98`), as when the node fails that is registering.  `Director_live` reaches
  both, and `OperationsEnd` says that there is no third.  `Settled` excepts the second.
* After a shutdown the map of controllers keeps entries without a pointer (`:253-268`), of which the
  clean-up passes some over (`:284-294`); a status, a start or another shutdown then ends the
  process.
* A director that has been stopped still serves: a daemon that registers with it is given a controller,
  and pinged, although no thread watches over it any more.  `EveryoneServed` counts it as served.
* A client's reconfigure distributes and sends without the lock (`:382`): a daemon may be sent an
  outdated configuration last.  `LockedShares` is about the operations that hold the lock.
* A socket error in a controller's send or receive is caught nowhere (`sc_daemonctrl.cpp:117`): the
  daemon is given up without one failed exchange (`ControlThrows`, which `Patient` excepts).
* A registration that throws ends the daemon (`daemonlib/sc_daemon.cpp:247`).
* Two daemons started at once may both lead for a while (`election/sc_bullyelection.cpp:51`).
* A shutdown by signal deadlocks when it cuts into the start or the stop of a thread, whose lock is
  not recursive (`base/sa_threadbase.cpp:76`, `:173`), or into a command that a call of the daemon's
  own director waits behind, since it joins the director (`daemonlib/sc_daemon.cpp:78`):
  `Deadlocked`, which `ShutdownEnds` excepts.  One that cuts into a start before `isRunning()` shows
  it leaves a process behind; one that cuts into a loop over the map leaves its iterator in a map
  that has been cleared.
* A shutdown leaves queued commands to be worked off (`daemonlib/sc_daemon.cpp`), which start
  processes that the exit leaves behind (`late`).
* A process that its wrapper has given up counts as unchanged on reconfiguration
  (`daemonlib/sc_processmanager.cpp:106`), and an entry that the erase loop passed over is started
  again by a restart of all.
* The argument vector for `execvp` points into strings already popped off a queue
  (`daemonlib/sc_processwrapperthread.cpp:424`); a program that is not found for it ends as the fault
  "execFails".
* A SIGTERM that meets a child before `execvp` runs the daemon's handler in it; a wrapper whose pipes
  fail dereferences readers that do not exist; a stop between fork and record signals pid 0.
* A program that cannot be executed leaves a child that ends under the daemon's name; the wrapper
  looks for the program's for ever (`sc_processwrapperthread.cpp:365`), and the process is neither
  reaped nor restarted. `KeepsRunning` and `StopEnds` except it.
* A reader whose thread cannot be created (`:386`) throws past `waitpid`: the wrapper ends beside a
  child that lives, and a `stop()` waits for the reader's lock (`Hung`).  `LeavesNoChild`,
  `KeepsRunning`, `StopEnds` and `Drained` except it.
* `stop()` stops the readers while the child lives (`:82-100`): one that writes more than its pipe
  holds on its way out blocks, and the wrapper waits for it.  `StopEnds` excepts it (`Unread`), and
  `Drained` is about the time before a stop.
* A log directory that cannot be made is thrown through the wrapper's `run()` before the fork: the
  process is never tried again, though nothing of it has failed
  (`streamreader/ss_streamreaderfactory.cpp:40`).
* A log file that cannot be opened is closed all the same (`streamreader/sc_streamtofilereader.cpp:95`).
* A stopped statistics thread sleeps on and resumes when the next one sets `mShouldRun`
  (`distributor/sc_procstatsthread.cpp:87`); a statistics file that is being written when the
  director dies is read back torn (`:181`); if `init()` fails, distributions spin
  (`distributor/sc_balanceddistribution.cpp:77`); if the thread cannot be created, its object stays
  locked and the next distribution or stop waits for ever (`base/sa_threadbase.cpp:78`); a
  redistribution before there are statistics throws (`distributor/sa_distribution.cpp:140`).
* A component whose moveable flag is edited to pinned between two distributions, or back, may be run
  twice (`distributor/sa_distribution.cpp:67`), which `Placed` excepts.
* A ring's election whose message is lost is waited for without end (`election/sc_ringelection.cpp`);
  `EveryoneServed` excepts it as `Stuck`.
* Any datagram is taken for a heartbeat or its reply (`daemonlib/sc_heartbeatthread.cpp:83`).
* A continuous process is reported with the run type "unknown", since `xmlutil/sc_xmlstatus.cpp:371`
  tests for `_ONCE` twice; averages over a process's life divide by a time that may be zero
  (`utilities/sc_processinfo.cpp:100`).

## 7. Plan

Done, in this order: `Director` with `Assignment`, `BullyElection`, `ProcessWrapper`, `RecursiveMutex`
with `RecursiveLock`, `ProcessManager`, and their proofs; then `Distribution` with `SysConfig` and
`ThreadBase`, `Heartbeat`, `Elections` with `NodeConfig`, `StatusReport` and
`ProcessOutput`, the last two and the statistics of `Distribution` with their proofs; then the proofs
of the elections, of the manager's and the wrapper's remaining invariants, of the director's
`Agreement`, of `SharesRead`, `Placed` and `Balanced` of `Distribution`, and of `Patient` of
`Heartbeat`.

To come, the most valuable first:

1. `Daemon`, the abstract daemon that `Director` uses, with `ProcessManager` shown to implement it
   by refinement, in place of the argument of section 2.
2. `SharedPointer`: the reference count of an object shared by two threads.

A dozen runs are enough for all of it: where two questions share an instance they share a run, and
the violation runs of findings whose point is made give way to runs of the new modules.
