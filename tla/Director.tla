------------------------------ MODULE Director ------------------------------
(***************************************************************************)
(* One director (SC_DirectorThread with its SC_DirRemoteCtrls and the      *)
(* distributor) and the daemons that register with it.                     *)
(*                                                                         *)
(* Two threads touch the director's state.  "orb" is the thread serving a  *)
(* remote call: SC_DirectorThread::mLock lets one call in at a time.       *)
(* "dir" is the director thread itself, which looks for dead daemons once  *)
(* a second and never takes that lock.  What protects one from the other   *)
(* is SC_DirRemoteCtrls::mLock (Holds below) - in the operations that take *)
(* it.  Every call to a daemon is a step of its own, so that crashes,      *)
(* heartbeats and the other thread interleave with a half-sent broadcast.  *)
(***************************************************************************)
EXTENDS Naturals, Sequences, FiniteSets

CONSTANTS
  Node,         \* hosts that run a daemon
  Host,         \* the node whose daemon runs this director
  Comp,         \* runnable process instances of the system configuration
  Moveable,     \* those configured moveable
  Ops,          \* the remote calls clients make in this instance
  Faults,       \* the faults of this instance: "crash", "silence"
  MaxRequests,  \* bound on client calls
  MaxFaults,    \* bound on faults
  NoNode        \* no registering daemon

AllOps == {"start", "stop", "reconfigure", "force", "restart", "failstart",
           "status", "shutdown"}

ASSUME ConstantsAssumption ==
  /\ IsFiniteSet(Node) /\ Host \in Node /\ NoNode \notin Node
  /\ IsFiniteSet(Comp) /\ Comp # {} /\ Moveable \subseteq Comp
  /\ Ops \subseteq AllOps
  /\ Faults \subseteq {"crash", "silence"}
  /\ MaxRequests \in Nat /\ MaxFaults \in Nat

VARIABLES
  \* the daemons
  up,                  \* nodes that are up
  phase,               \* where the daemon's main loop is
  mAppRunning, mStateQueue,
  mProcs,              \* process instances the daemon's manager holds
  \* SC_DirRemoteCtrls
  ctrl,                \* mDaemonCtrls: per host, the state of its controller
  mSystemRunning, mClientInteraction,
  \* the distributor
  mDistributed, mCompConfig, mDistState,
  \* the director's threads
  thr,                 \* what each thread is doing
  director,            \* the director thread, and whether its object still serves
  \* bounds
  requests, faults

daemonVars == <<up, phase, mAppRunning, mStateQueue, mProcs>>
systemVars == <<mSystemRunning, mClientInteraction>>
distVars   == <<mDistributed, mCompConfig, mDistState>>
boundVars  == <<requests, faults>>
vars == <<daemonVars, ctrl, systemVars, distVars, thr, director, boundVars>>

-----------------------------------------------------------------------------
Phase     == {"registering", "heartbeat"}
Thread    == {"orb", "dir"}
Share     == [Node -> SUBSET Comp]
NoShare   == [n \in Node |-> {}]
Command   == [cmd : {"_START", "_STOP", "_CONFIGURE", "_RESTART", "_FAILSTART"},
              cfg : SUBSET Comp]

\* A controller thread is starting until init() has bound the remote daemon;
\* failed when init() threw, ended when its heartbeat loop was left.  An entry
\* whose controller stopAll has deleted is empty.
CtrlState == {"none", "starting", "ready", "failed", "ended", "empty"}

Registration == {"regStart", "regAdopt", "regStop"}
Activity == [op    : AllOps \cup Registration \cup {"check", "none"},
             at    : {"idle", "await", "distribute", "send", "ask", "join", "spin"},
             nodes : SUBSET Node,   \* hosts still to be called
             plan  : Share,         \* distComps
             who   : Node \cup {NoNode},
             live  : BOOLEAN]       \* is the registering daemon still waiting?

Idle == [op |-> "none", at |-> "idle", nodes |-> {}, plan |-> NoShare,
         who |-> NoNode, live |-> FALSE]

Doing(op, at, nodes, plan) == [Idle EXCEPT !.op = op, !.at = at,
                                           !.nodes = nodes, !.plan = plan]
Registering(op, n) == [Idle EXCEPT !.op = op, !.at = "await",
                                   !.who = n, !.live = TRUE]

\* Operations that run under SC_DirRemoteCtrls::mLock from end to end.
Holds(t) == /\ thr[t].at # "idle"
            /\ thr[t].op \in Registration \cup {"start", "stop", "check"}
LockFree == \A t \in Thread : ~Holds(t)

Spinning == \E t \in Thread : thr[t].at = "spin"

\* The loop of the director thread ends with an exception, or is told to and
\* then ends; calls are answered until the daemon deletes the object.
DirectorState == {"running", "loopEnded", "stopping", "stopped", "deleted", "crashed"}
Looping == director \in {"running", "stopping"}
Serving == director \notin {"deleted", "crashed"}

-----------------------------------------------------------------------------
(* The controller map.                                                     *)

Registered == {n \in Node : ctrl[n] # "none"}
Dead       == {n \in Node : ctrl[n] \in {"failed", "ended", "empty"}}

\* cleanDeadDaemons erases a map entry and then increments the iterator that
\* pointed to it: the loop erases at least one dead entry and may step over
\* others.
Erasures(dead) == {S \in SUBSET dead : dead # {} => S # {}}
Without(S) == [n \in Node |-> IF n \in S THEN "none" ELSE ctrl[n]]

-----------------------------------------------------------------------------
(* The distributor, with the round robin method.                           *)

Load(base, place, n) ==
  Cardinality(base[n]) + Cardinality({c \in DOMAIN place : place[c] = n})

\* The next component goes to a node with the fewest processes, so no node
\* that received one is more than one ahead of another.
Placements(nodes, comps, base) ==
  {place \in [comps -> nodes] :
     \A c \in comps, m \in nodes :
        Load(base, place, place[c]) <= Load(base, place, m) + 1}

\* (Mistakes: redistribution empties every configuration; it forgets to leave
\* out what stays.)
Kept_Nothing(redistribute, force) ==
  IF force \/ redistribute THEN NoShare ELSE mCompConfig
Again_All(redistribute, force) == Comp

\* prepareForRedistribution: what stays in the node configurations, and which
\* components are distributed again.
Kept(redistribute, force) ==
  IF force THEN NoShare
  ELSE IF redistribute THEN [n \in Node |-> mCompConfig[n] \ Moveable]
  ELSE mCompConfig
Again(redistribute, force) == IF redistribute /\ ~force THEN Moveable ELSE Comp

\* distributeComponents over a non-empty list of nodes.
Distribute(nodes, redistribute, force) ==
  \E place \in Placements(nodes, Again(redistribute, force),
                          Kept(redistribute, force)) :
    /\ mCompConfig' = [n \in Node |->
         Kept(redistribute, force)[n] \cup {c \in DOMAIN place : place[c] = n}]
    /\ mDistState' = [n \in Node |-> IF n \in nodes THEN mCompConfig'[n] ELSE {}]
    /\ mDistributed' = TRUE

\* (A mistake: the loop counts the components that stay, too.)
NowhereToPlace_Count(nodes, redistribute, force) ==
  nodes = {} \/ Again(redistribute, force) # Comp

\* With no node to give a component to, the allocation loop never ends and
\* the thread keeps its locks.
NowhereToPlace(nodes, redistribute, force) ==
  nodes = {} /\ Again(redistribute, force) # {}

\* distributeComponents, then on to the loop that sends the result.
DistributeAndSend(t, op, nodes, targets, redistribute, force) ==
  /\ ~Spinning
  /\ \/ /\ NowhereToPlace(nodes, redistribute, force)
        /\ thr' = [thr EXCEPT ![t] = Doing(op, "spin", {}, NoShare)]
        /\ UNCHANGED distVars
     \/ /\ ~NowhereToPlace(nodes, redistribute, force)
        /\ Distribute(nodes, redistribute, force)
        /\ thr' = [thr EXCEPT ![t] = [Doing(op, "send", targets, mDistState')
                     EXCEPT !.who = thr[t].who, !.live = thr[t].live]]

-----------------------------------------------------------------------------
(* Remote calls of the client.                                             *)

Called(op) == /\ op \in Ops /\ Serving
              /\ thr["orb"].at = "idle"
              /\ requests < MaxRequests
              /\ requests' = requests + 1
              /\ UNCHANGED <<daemonVars, faults>>

Request(op) == Called(op) /\ UNCHANGED director

\* clientStart -> startStopSystemComponents(true)
ClientStart ==
  /\ Request("start") /\ LockFree
  /\ mClientInteraction' = TRUE /\ UNCHANGED mSystemRunning
  /\ \E S \in Erasures(Dead) :
       /\ ctrl' = Without(S)
       /\ \/ /\ ~mSystemRunning /\ ~mDistributed
             /\ DistributeAndSend("orb", "start", Registered \ S,
                                  Registered \ S, FALSE, FALSE)
          \/ /\ mSystemRunning \/ mDistributed   \* ignored, or the distributor throws
             /\ UNCHANGED <<distVars, thr>>

\* clientStop -> startStopSystemComponents(false)
ClientStop ==
  /\ Request("stop") /\ LockFree
  /\ mClientInteraction' = TRUE /\ UNCHANGED <<mSystemRunning, distVars>>
  /\ \E S \in Erasures(Dead) :
       /\ ctrl' = Without(S)
       /\ thr' = [thr EXCEPT !["orb"] = Doing("stop", "send", Registered \ S, NoShare)]

\* clientReconfigure: only its cleanDeadDaemons call takes the lock.
ClientReconfigure(op) ==
  /\ op \in {"reconfigure", "force"}
  /\ Request(op) /\ LockFree /\ mSystemRunning
  /\ UNCHANGED <<systemVars, distVars>>
  /\ \E S \in Erasures(Dead) :
       /\ ctrl' = Without(S)
       /\ thr' = [thr EXCEPT !["orb"] = Doing(op, "distribute", Registered \ S, NoShare)]

\* ... its distribution goes over the list of nodes taken before, ...
Redistribute ==
  /\ thr["orb"].at = "distribute"
  /\ DistributeAndSend("orb", thr["orb"].op, thr["orb"].nodes, Registered,
                       TRUE, thr["orb"].op = "force")
  /\ UNCHANGED <<daemonVars, ctrl, systemVars, director, boundVars>>

\* clientRestartApp, clientRestartFailedApp: no lock at all.
ClientRestart(op) ==
  /\ op \in {"restart", "failstart"}
  /\ Request(op)
  /\ thr' = [thr EXCEPT !["orb"] = Doing(op, "send", Registered, NoShare)]
  /\ UNCHANGED <<ctrl, systemVars, distVars>>

\* clientGetStatus and distGetStats: clean up, then, without the lock, ask each
\* daemon in turn.
ClientStatus ==
  /\ Request("status") /\ LockFree
  /\ \E S \in Erasures(Dead) :
       /\ ctrl' = Without(S)
       /\ thr' = [thr EXCEPT !["orb"] = Doing("status", "ask", Registered \ S, NoShare)]
  /\ UNCHANGED <<systemVars, distVars>>

\* A daemon answers or is passed over: what its controller throws is caught.
Ask(n) ==
  /\ thr["orb"].at = "ask" /\ n \in thr["orb"].nodes
  /\ ctrl[n] \in {"ready", "ended", "none"}
  /\ thr' = [thr EXCEPT !["orb"].nodes = @ \ {n}]
  /\ UNCHANGED <<daemonVars, ctrl, systemVars, distVars, director, boundVars>>

StatusRead ==
  /\ thr["orb"].at = "ask" /\ thr["orb"].nodes = {}
  /\ thr' = [thr EXCEPT !["orb"] = Idle]
  /\ UNCHANGED <<daemonVars, ctrl, systemVars, distVars, director, boundVars>>

\* stop(), from clientStopDirector or from the local daemon: every controller
\* is told to stop, ...
Shutdown ==
  /\ Request("shutdown")
  /\ \A n \in Node : ctrl[n] # "empty"
  /\ thr' = [thr EXCEPT !["orb"] = Doing("shutdown", "join", Registered, NoShare)]
  /\ UNCHANGED <<ctrl, systemVars, distVars>>

\* (an entry that an earlier shutdown left empty is dereferenced: a crash)
ShutdownNil ==
  /\ Called("shutdown")
  /\ \E n \in Node : ctrl[n] = "empty"
  /\ thr' = [t \in Thread |-> Idle]
  /\ director' = "crashed"
  /\ UNCHANGED <<ctrl, systemVars, distVars>>

\* ... each joined and its pointer cleared, without the lock, ...
Join(n) ==
  /\ thr["orb"].at = "join" /\ n \in thr["orb"].nodes
  /\ ctrl[n] \in {"failed", "ended", "none"}
  /\ ctrl' = [ctrl EXCEPT ![n] = IF @ = "none" THEN "none" ELSE "empty"]
  /\ thr' = [thr EXCEPT !["orb"].nodes = @ \ {n}]
  /\ UNCHANGED <<daemonVars, systemVars, distVars, director, boundVars>>

\* ... then cleaned up as ever, and the director thread is told to end.
ShutdownJoined ==
  /\ thr["orb"].at = "join" /\ thr["orb"].nodes = {} /\ LockFree
  /\ \E S \in Erasures(Dead) : ctrl' = Without(S)
  /\ thr' = [thr EXCEPT !["orb"] = Idle]
  /\ director' = IF Looping THEN "stopping" ELSE "stopped"
  /\ UNCHANGED <<daemonVars, systemVars, distVars, boundVars>>

\* The director thread sees it in a second; its daemon deletes the object when
\* it comes to elect again.
DirectorEnds ==
  /\ director = "stopping" /\ thr["dir"].at = "idle"
  /\ director' = "stopped"
  /\ UNCHANGED <<daemonVars, ctrl, systemVars, distVars, thr, boundVars>>

DirectorDeleted ==
  /\ director = "stopped" /\ thr["orb"].at = "idle" /\ phase[Host] = "registering"
  /\ director' = "deleted"
  /\ UNCHANGED <<daemonVars, ctrl, systemVars, distVars, thr, boundVars>>

-----------------------------------------------------------------------------
(* Registration of a daemon: registerDaemon -> addDaemon.                  *)

\* (Mistakes: a stop by a client is not remembered; a newcomer to a running
\* system is not started.)
Register_Resurrects(n) ==
  /\ n \in up \ Registered /\ phase[n] = "registering"
  /\ Serving /\ thr["orb"].at = "idle" /\ LockFree
  /\ ctrl' = [ctrl EXCEPT ![n] = "starting"]
  /\ thr' = [thr EXCEPT !["orb"] =
       Registering(IF mSystemRunning THEN "regStart" ELSE "regAdopt", n)]
  /\ UNCHANGED <<daemonVars, systemVars, distVars, director, boundVars>>

Register_NotStarted(n) ==
  /\ n \in up \ Registered /\ phase[n] = "registering"
  /\ Serving /\ thr["orb"].at = "idle" /\ LockFree
  /\ ctrl' = [ctrl EXCEPT ![n] = "starting"]
  /\ phase' = [phase EXCEPT ![n] = "heartbeat"]
  /\ UNCHANGED <<up, mAppRunning, mStateQueue, mProcs, thr, systemVars, distVars,
                 director, boundVars>>

Register(n) ==
  /\ n \in up /\ phase[n] = "registering"
  /\ Serving /\ thr["orb"].at = "idle" /\ LockFree
  /\ \E S \in Erasures(Dead) :
       \/ /\ n \in Registered \ S          \* duplicate controller: refused
          /\ ctrl' = Without(S)
          /\ UNCHANGED <<thr, phase>>
       \/ /\ n \notin Registered \ S
          /\ ctrl' = [Without(S) EXCEPT ![n] = "starting"]
          /\ IF mSystemRunning
             THEN thr' = [thr EXCEPT !["orb"] = Registering("regStart", n)]
                  /\ UNCHANGED phase
             ELSE IF mAppRunning[n]
             THEN thr' = [thr EXCEPT !["orb"] =
                    Registering(IF mClientInteraction THEN "regStop" ELSE "regAdopt", n)]
                  /\ UNCHANGED phase
             ELSE phase' = [phase EXCEPT ![n] = "heartbeat"] /\ UNCHANGED thr
  /\ UNCHANGED <<up, mAppRunning, mStateQueue, mProcs, systemVars, distVars,
                 director, boundVars>>

\* addDaemon polls isInitialised(), with both locks held, before it goes on.
Initialised == /\ thr["orb"].at = "await"
               /\ ctrl[thr["orb"].who] \in {"ready", "ended"}
               /\ UNCHANGED <<daemonVars, ctrl, systemVars, director, boundVars>>

\* The newcomer is sent its share, or told to stop.
RegisterOne ==
  /\ Initialised /\ thr["orb"].op \in {"regStart", "regStop"}
  /\ thr' = [thr EXCEPT !["orb"].at = "send", !["orb"].nodes = {thr["orb"].who},
                        !["orb"].plan = mDistState]
  /\ UNCHANGED distVars

\* The newcomer is running and no client has spoken yet: start everywhere.
RegisterAdopt ==
  /\ Initialised /\ thr["orb"].op = "regAdopt"
  /\ \/ /\ ~mDistributed
        /\ DistributeAndSend("orb", "regAdopt", Registered, Registered, FALSE, FALSE)
     \/ /\ mDistributed                   \* the distributor throws: refused
        /\ thr' = [thr EXCEPT !["orb"] = Idle]
        /\ UNCHANGED distVars

-----------------------------------------------------------------------------
(* The director thread: checkDaemons -> cleanDeadDaemons(true).            *)

\* (A mistake: it cleans up without aRunDistribution.)
CheckDaemons_CleanOnly ==
  /\ Looping /\ thr["dir"].at = "idle" /\ LockFree /\ Dead # {}
  /\ \E S \in Erasures(Dead) : ctrl' = Without(S)
  /\ UNCHANGED <<daemonVars, thr, distVars, systemVars, director, boundVars>>

CleanAndRedistribute ==
  /\ Looping /\ thr["dir"].at = "idle" /\ Dead # {}
  /\ \E S \in Erasures(Dead) :
       \/ /\ ~mSystemRunning
          /\ ctrl' = Without(S)
          /\ UNCHANGED <<thr, distVars>>
       \/ /\ mSystemRunning
          /\ \E T \in Erasures(Dead \ S) :      \* reconfigureSystem cleans again
               /\ ctrl' = Without(S \cup T)
               /\ DistributeAndSend("dir", "check", Registered \ (S \cup T),
                                    Registered \ (S \cup T), TRUE, FALSE)
  /\ UNCHANGED <<daemonVars, systemVars, director, boundVars>>

\* (A mistake: the director thread does not take the lock.)
CheckDaemons_Unlocked == CleanAndRedistribute

CheckDaemons == LockFree /\ CleanAndRedistribute

-----------------------------------------------------------------------------
(* The loops that call addToDaemonStateQueue on every controller.          *)

\* (A mistake: a command no daemon knows.)
CommandOf_Unknown(op) ==
  CASE op \in {"start", "regStart", "regAdopt"}      -> "_START"
    [] op \in {"stop", "regStop"}                    -> "_STOP"
    [] op \in {"reconfigure", "force", "check"}      -> "_RECONFIGURE"
    [] op = "restart"                                -> "_RESTART"
    [] OTHER                                         -> "_FAILSTART"

CommandOf(op) ==
  CASE op \in {"start", "regStart", "regAdopt"}      -> "_START"
    [] op \in {"stop", "regStop"}                    -> "_STOP"
    [] op \in {"reconfigure", "force", "check"}      -> "_CONFIGURE"
    [] op = "restart"                                -> "_RESTART"
    [] OTHER                                         -> "_FAILSTART"

Message(t, n) ==
  LET cmd == CommandOf(thr[t].op)
  IN [cmd |-> cmd,
      cfg |-> IF cmd \in {"_START", "_CONFIGURE"} THEN thr[t].plan[n] ELSE {}]

Calling(t, n) == thr[t].at = "send" /\ n \in thr[t].nodes

\* (A mistake: the latest command overtakes those still queued.)
Send_InFront(t, n) ==
  /\ Calling(t, n) /\ ctrl[n] \in {"ready", "ended"} /\ n \in up
  /\ mStateQueue' = [mStateQueue EXCEPT ![n] = <<Message(t, n)>> \o @]
  /\ thr' = [thr EXCEPT ![t].nodes = @ \ {n}]
  /\ UNCHANGED <<up, phase, mAppRunning, mProcs, ctrl, systemVars, distVars,
                 director, boundVars>>

\* changeState on the remote daemon.
Send(t, n) ==
  /\ Calling(t, n) /\ ctrl[n] \in {"ready", "ended"} /\ n \in up
  /\ mStateQueue' = [mStateQueue EXCEPT ![n] = Append(@, Message(t, n))]
  /\ thr' = [thr EXCEPT ![t].nodes = @ \ {n}]
  /\ UNCHANGED <<up, phase, mAppRunning, mProcs, ctrl, systemVars, distVars,
                 director, boundVars>>

\* The other thread erased this entry while the loop was on its way to it.
SendErased(t, n) ==
  /\ Calling(t, n) /\ ctrl[n] = "none"
  /\ thr' = [thr EXCEPT ![t].nodes = @ \ {n}]
  /\ UNCHANGED <<daemonVars, ctrl, systemVars, distVars, director, boundVars>>

\* The node is down: SX_Director leaves the loop.  A remote call answers
\* false; on the director thread the exception ends the thread.
SendFails(t, n) ==
  /\ Calling(t, n) /\ ctrl[n] \in {"ready", "ended"} /\ n \notin up
  /\ thr' = [thr EXCEPT ![t] = Idle]
  /\ director' = IF t = "orb" THEN director
                 ELSE IF director = "running" THEN "loopEnded" ELSE "stopped"
  /\ UNCHANGED <<daemonVars, ctrl, systemVars, distVars, boundVars>>

\* init() has not bound mRemote, or the entry is empty: the call, a status's
\* included, goes through a null pointer and the process is gone.
SendNil(t, n) ==
  /\ thr[t].at \in {"send", "ask"} /\ n \in thr[t].nodes
  /\ ctrl[n] \in {"starting", "failed", "empty"}
  /\ thr' = [u \in Thread |-> Idle]
  /\ director' = "crashed"
  /\ UNCHANGED <<daemonVars, ctrl, systemVars, distVars, boundVars>>

Sent(t) == thr[t].at = "send" /\ thr[t].nodes = {}

\* The registering daemon, if it still waits, has its answer: on to heartbeats.
Answered == IF thr["orb"].live
            THEN [phase EXCEPT ![thr["orb"].who] = "heartbeat"]
            ELSE phase

\* (A mistake: stop resets the distribution only.)
Finish_StillRunning(t) ==
  /\ Sent(t)
  /\ thr' = [thr EXCEPT ![t] = Idle]
  /\ mSystemRunning' = (mSystemRunning \/ thr[t].op \in {"start", "regAdopt"})
  /\ IF thr[t].op = "stop"
     THEN mDistributed' = FALSE /\ mCompConfig' = NoShare /\ mDistState' = NoShare
     ELSE UNCHANGED distVars
  /\ phase' = IF thr[t].op \in Registration THEN Answered ELSE phase
  /\ UNCHANGED <<up, mAppRunning, mStateQueue, mProcs, ctrl, mClientInteraction,
                 director, boundVars>>

\* What follows the loop, per operation.
Finish(t) ==
  /\ Sent(t)
  /\ thr' = [thr EXCEPT ![t] = Idle]
  /\ mSystemRunning' = CASE thr[t].op \in {"start", "regAdopt"} -> TRUE
                         [] thr[t].op = "stop"                  -> FALSE
                         [] OTHER                               -> mSystemRunning
  /\ IF thr[t].op = "stop"                 \* resetDistribution
     THEN mDistributed' = FALSE /\ mCompConfig' = NoShare /\ mDistState' = NoShare
     ELSE UNCHANGED distVars
  /\ phase' = IF thr[t].op \in Registration THEN Answered ELSE phase
  /\ UNCHANGED <<up, mAppRunning, mStateQueue, mProcs, ctrl, mClientInteraction,
                 director, boundVars>>

-----------------------------------------------------------------------------
(* Controller threads: SC_DaemonCtrl::run.                                 *)

Fault(f) == f \in Faults /\ faults < MaxFaults /\ faults' = faults + 1

CtrlInit(n) ==
  /\ ctrl[n] = "starting"
  /\ ctrl' = [ctrl EXCEPT ![n] = IF n \in up THEN "ready" ELSE "failed"]
  /\ UNCHANGED <<daemonVars, systemVars, distVars, thr, director, boundVars>>

\* Pings go unanswered: the node is down or its daemon is not (yet) back in
\* its heartbeat phase.  A daemon whose registration is being served has a
\* second's grace.
Unanswered(n) == \/ n \notin up
                 \/ /\ phase[n] = "registering"
                    /\ ~(thr["orb"].live /\ thr["orb"].who = n)

CtrlEnds(n) ==
  /\ ctrl[n] = "ready"
  /\ Unanswered(n) \/ thr["orb"].op = "shutdown"
  /\ ctrl' = [ctrl EXCEPT ![n] = "ended"]
  /\ UNCHANGED <<daemonVars, systemVars, distVars, thr, director, boundVars>>

\* heartbeat.max.failedattempts replies of a live daemon lost or late.
CtrlTimesOut(n) ==
  /\ ctrl[n] = "ready" /\ Fault("silence")
  /\ ctrl' = [ctrl EXCEPT ![n] = "ended"]
  /\ UNCHANGED <<daemonVars, systemVars, distVars, thr, director, requests>>

-----------------------------------------------------------------------------
(* Daemons.                                                                *)

\* SC_HeartbeatThread has stopped: no more pings from the director.
HeartbeatLost(n) ==
  /\ n \in up /\ phase[n] = "heartbeat"
  /\ ctrl[n] \in {"none", "ended", "failed", "empty"} \/ ~Serving
  /\ phase' = [phase EXCEPT ![n] = "registering"]
  /\ UNCHANGED <<up, mAppRunning, mStateQueue, mProcs, ctrl, systemVars, distVars,
                 thr, director, boundVars>>

\* ... or the pings were lost or late.
HeartbeatTimesOut(n) ==
  /\ n \in up /\ phase[n] = "heartbeat" /\ Fault("silence")
  /\ phase' = [phase EXCEPT ![n] = "registering"]
  /\ UNCHANGED <<up, mAppRunning, mStateQueue, mProcs, ctrl, systemVars, distVars,
                 thr, director, requests>>

\* One turn of the loop in checkNewState.
RunningAfter(n, c) == CASE c.cmd = "_START" -> TRUE
                        [] c.cmd = "_STOP"  -> FALSE
                        [] OTHER            -> mAppRunning[n]

\* startProcesses, adaptToReconfiguration, stopAllProcesses; restartProcess
\* replaces wrappers by wrappers of the same configuration.
ProcsAfter(n, c) ==
  IF c.cmd = "_START" /\ ~mAppRunning[n] THEN mProcs[n] \cup c.cfg
  ELSE IF c.cmd = "_CONFIGURE" /\ mAppRunning[n] THEN c.cfg
  ELSE IF c.cmd = "_STOP" /\ mAppRunning[n] THEN {}
  ELSE mProcs[n]

CheckNewState(n) ==
  /\ n \in up /\ phase[n] = "heartbeat" /\ mStateQueue[n] # <<>>
  /\ mAppRunning' = [mAppRunning EXCEPT ![n] = RunningAfter(n, Head(mStateQueue[n]))]
  /\ mProcs' = [mProcs EXCEPT ![n] = ProcsAfter(n, Head(mStateQueue[n]))]
  /\ mStateQueue' = [mStateQueue EXCEPT ![n] = Tail(@)]
  /\ UNCHANGED <<up, phase, ctrl, systemVars, distVars, thr, director, boundVars>>

\* The node fails; its daemon, queue and processes go with it.
Crash(n) ==
  /\ n \in up \ {Host} /\ Fault("crash")
  /\ up' = up \ {n}
  /\ phase' = [phase EXCEPT ![n] = "registering"]
  /\ mAppRunning' = [mAppRunning EXCEPT ![n] = FALSE]
  /\ mStateQueue' = [mStateQueue EXCEPT ![n] = <<>>]
  /\ mProcs' = [mProcs EXCEPT ![n] = {}]
  /\ thr' = [thr EXCEPT !["orb"].live = @ /\ thr["orb"].who # n]
  /\ UNCHANGED <<ctrl, systemVars, distVars, director, requests>>

Restart(n) ==
  /\ n \notin up
  /\ up' = up \cup {n}
  /\ UNCHANGED <<phase, mAppRunning, mStateQueue, mProcs, ctrl, systemVars,
                 distVars, thr, director, boundVars>>

-----------------------------------------------------------------------------
\* A director that has just initialised, and daemons that have just started.
Init ==
  /\ up = Node
  /\ phase = [n \in Node |-> "registering"]
  /\ mAppRunning = [n \in Node |-> FALSE]
  /\ mStateQueue = [n \in Node |-> <<>>]
  /\ mProcs = NoShare
  /\ ctrl = [n \in Node |-> "none"]
  /\ mSystemRunning = FALSE /\ mClientInteraction = FALSE
  /\ mDistributed = FALSE /\ mCompConfig = NoShare /\ mDistState = NoShare
  /\ thr = [t \in Thread |-> Idle]
  /\ director = "running"
  /\ requests = 0 /\ faults = 0

Client == \/ ClientStart \/ ClientStop \/ ClientStatus \/ Shutdown \/ ShutdownNil
          \/ \E op \in Ops : ClientReconfigure(op) \/ ClientRestart(op)

OrbStep == \/ Redistribute \/ RegisterOne \/ RegisterAdopt
           \/ \E n \in Node : Ask(n) \/ Join(n)
           \/ StatusRead \/ ShutdownJoined

Broadcast(t) == \/ \E n \in Node : Send(t, n) \/ SendErased(t, n)
                                   \/ SendFails(t, n) \/ SendNil(t, n)
                \/ Finish(t)

CtrlThread(n) == CtrlInit(n) \/ CtrlEnds(n)
Daemon(n) == Register(n) \/ HeartbeatLost(n) \/ CheckNewState(n)
Environment(n) == CtrlTimesOut(n) \/ HeartbeatTimesOut(n) \/ Crash(n) \/ Restart(n)

Next == \/ Client \/ OrbStep \/ CheckDaemons \/ DirectorEnds \/ DirectorDeleted
        \/ \E t \in Thread : Broadcast(t)
        \/ \E n \in Node : CtrlThread(n) \/ Daemon(n) \/ Environment(n)

Spec == Init /\ [][Next]_vars

\* Every thread of the director and of the daemons keeps running; clients and
\* faults owe nothing.
Fairness ==
  /\ WF_vars(OrbStep) /\ WF_vars(CheckDaemons) /\ WF_vars(DirectorEnds)
  /\ \A t \in Thread : WF_vars(Broadcast(t))
  /\ \A n \in Node : /\ WF_vars(CtrlThread(n))
                     /\ WF_vars(Register(n))
                     /\ WF_vars(HeartbeatLost(n))
                     /\ WF_vars(CheckNewState(n))

FairSpec == Spec /\ Fairness

-----------------------------------------------------------------------------
(* Other states in which a director begins or is found.                    *)

\* A client has started the system on these nodes and the dust has settled.
SteadyOn(nodes) ==
  /\ up = nodes
  /\ phase = [n \in Node |-> IF n \in nodes THEN "heartbeat" ELSE "registering"]
  /\ mAppRunning = [n \in Node |-> n \in nodes]
  /\ mStateQueue = [n \in Node |-> <<>>]
  /\ ctrl = [n \in Node |-> IF n \in nodes THEN "ready" ELSE "none"]
  /\ mSystemRunning = TRUE /\ mClientInteraction = TRUE /\ mDistributed = TRUE
  /\ \E place \in Placements(nodes, Comp, NoShare) :
       mCompConfig = [n \in Node |-> {c \in Comp : place[c] = n}]
  /\ mDistState = mCompConfig /\ mProcs = mCompConfig
  /\ thr = [t \in Thread |-> Idle]
  /\ director = "running"
  /\ requests = 0 /\ faults = 0

InitSteady == SteadyOn(Node)

\* The node of the previous director has failed; the others run what it gave
\* them and are about to register with the new one.
TakenOver ==
  \E last \in Node \ {Host}, place \in Placements(Node, Comp, NoShare) :
    /\ up = Node \ {last}
    /\ phase = [n \in Node |-> "registering"]
    /\ mAppRunning = [n \in Node |-> n # last]
    /\ mStateQueue = [n \in Node |-> <<>>]
    /\ mProcs = [n \in Node |-> IF n = last THEN {} ELSE {c \in Comp : place[c] = n}]
    /\ ctrl = [n \in Node |-> "none"]
    /\ mSystemRunning = FALSE /\ mClientInteraction = FALSE
    /\ mDistributed = FALSE /\ mCompConfig = NoShare /\ mDistState = NoShare
    /\ thr = [t \in Thread |-> Idle]
    /\ director = "running"
    /\ requests = 0

InitTakeover == TakenOver /\ faults = 0

TakeoverSpec == InitTakeover /\ [][Next]_vars /\ Fairness

-----------------------------------------------------------------------------
(* The abstract view: who owns what, without daemons and messages.         *)

Owner == [c \in Comp |-> IF mDistributed THEN CHOOSE n \in Node : c \in mCompConfig[n]
                                         ELSE NoNode]

A == INSTANCE Assignment WITH NoOwner <- NoNode, assigned <- mDistributed,
                              running <- mSystemRunning, owner <- Owner

-----------------------------------------------------------------------------
(* Properties.                                                             *)

\* The director keeps what Assignment promises through every interleaving of
\* registrations, failures, redistributions and broadcasts.
ImplementsAssignment == A!Spec

TypeOK ==
  /\ up \subseteq Node
  /\ phase \in [Node -> Phase]
  /\ mAppRunning \in [Node -> BOOLEAN]
  /\ mStateQueue \in [Node -> Seq(Command)]
  /\ mProcs \in Share
  /\ ctrl \in [Node -> CtrlState]
  /\ mSystemRunning \in BOOLEAN /\ mClientInteraction \in BOOLEAN
  /\ mDistributed \in BOOLEAN
  /\ mCompConfig \in Share /\ mDistState \in Share
  /\ thr \in [Thread -> Activity]
  /\ director \in DirectorState
  /\ requests \in Nat /\ faults \in Nat

\* The distributor's books: once distributed, every component is configured on
\* exactly one node, whatever registrations, failures, redistributions and
\* half-done broadcasts came before; and no node is ever handed a component
\* that the books give to another.
EachComponentOnce ==
  /\ mDistributed => \A c \in Comp :
       \E n \in Node : \A m \in Node : c \in mCompConfig[m] <=> m = n
  /\ ~mDistributed => mCompConfig = NoShare
  /\ \A n \in Node : mDistState[n] \in {mCompConfig[n], {}}

\* "Running" is only ever said of a system whose components have been given to
\* nodes, also while a failed start or stop leaves the two flags apart.
RunningIsDistributed == mSystemRunning => mDistributed

\* A start or configuration that t is still sending carries the distributor's
\* latest, not a distribution that the other thread has meanwhile replaced.
Fresh(t) ==
  \A n \in Node :
    Calling(t, n) /\ CommandOf(thr[t].op) \in {"_START", "_CONFIGURE"}
      => thr[t].plan[n] = mDistState[n]

\* What SC_DirRemoteCtrls::mLock achieves: however the director thread's
\* redistributions and the remote calls interleave, a newcomer's share and the
\* shares of a start are never outdated when they are sent.
LockedShares == Holds("orb") => Fresh("orb")

\* While no fault has occurred and both threads of the director are at rest,
\* every daemon that has worked off its queue agrees with the director: on
\* whether the system runs, and on which processes it is to run.
Agreement ==
  director = "running" /\ faults = 0 /\ (\A t \in Thread : thr[t] = Idle) =>
    \A n \in Node :
      phase[n] = "heartbeat" /\ mStateQueue[n] = <<>> =>
        /\ ctrl[n] \in {"starting", "ready"}
        /\ mAppRunning[n] = mSystemRunning
        /\ mProcs[n] = IF mSystemRunning THEN mDistState[n] ELSE {}

\* After a client has said stop, no registration brings the system back, only a
\* client's start does.
StopIsFinal ==
  [][ mClientInteraction /\ ~mSystemRunning /\ mSystemRunning'
        => thr["orb"].op = "start" ]_vars

\* A component that is not moveable leaves its node in the distributor's books
\* only when a client forces a redistribution or stops the system.
PinnedStay ==
  [][ \A c \in Comp \ Moveable, n \in Node :
        c \in mCompConfig[n] /\ c \notin mCompConfig'[n]
          => thr["orb"].op \in {"force", "stop"} ]_vars

\* The two ways in which the director hangs for ever, holding its locks: it
\* distributes when no daemon is left, or polls a controller whose init() threw.
Hung == \/ Spinning /\ Registered = {}
        \/ thr["orb"].at = "await" /\ ctrl[thr["orb"].who] = "failed"

\* No call to the director and no round of its thread hangs in any other way,
\* whatever the call and wherever nodes fail meanwhile: a node that fails in the
\* middle costs a call its answer, no more.
OperationsEnd ==
  \A t \in Thread : (thr[t].at # "idle" ~> thr[t].at = "idle" \/ Hung)

\* A system that is started afresh and left alone comes to run each component on
\* exactly one node.
Settles ==
  Init /\ <>[](mSystemRunning /\ director = "running" /\ ~Spinning) =>
    <>[](\A c \in Comp : Cardinality({n \in Node : c \in mProcs[n]}) = 1)

\* A new director learns from the daemons whether the system runs: unless a
\* client tells it otherwise first or nodes fail, a running daemon makes it run
\* the system.
Adopted ==
  (\E n \in up : mAppRunning[n]) ~>
    mSystemRunning \/ mClientInteraction \/ director # "running" \/ faults > 0

\* And a client's stop, once it is final, reaches every daemon, those included
\* that ran something when they registered after it - unless a node fails, or a
\* start on no node at all has hung the director.
StopReachesAll ==
  <>[](mClientInteraction /\ ~mSystemRunning /\ director = "running" /\ ~Spinning
       /\ faults = 0) =>
    <>[](\A n \in Node : mProcs[n] = {})

\* README: "process reallocation in the event of node failure".  While the
\* system runs and no client interferes, a moveable component never stays
\* without a node that runs it.
Reallocated ==
  \A c \in Moveable :
    []<>(~mSystemRunning \/ requests > 0 \/ \E n \in up : c \in mProcs[n])

\* The same of a director that has started the system itself.
StartedReallocated == InitSteady => Reallocated
=============================================================================
