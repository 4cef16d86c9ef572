----------------------------- MODULE Heartbeat -----------------------------
(***************************************************************************)
(* How a director and a registered daemon find out about each other's end: *)
(*   control    SC_DaemonCtrl::run in the director pings the daemon;       *)
(*   heartbeat  SC_HeartbeatThread::run in the daemon returns the pings;   *)
(*   main       SC_Daemon::run registers, watches the heartbeat thread and *)
(*              registers again when that has ended.                       *)
(* Each side counts the receives that time out, and gives the other up.    *)
(* Time is counted in steps of Tick; what is not a sleep or a receive      *)
(* takes none.  A datagram arrives at once, unless it is lost or late; an  *)
(* open socket keeps it until it is read.  Whom a daemon registers with is *)
(* the module BullyElection, what the director does then is Director: here *)
(* a registration may find the system, or the daemon, running or not.      *)
(***************************************************************************)
EXTENDS Naturals, Sequences, ThreadBase

CONSTANTS
  RecvTimeout,     \* sockets: socket.recv.timeout
  Pulse,           \* director: heartbeat.pulse
  DirectorFails,   \* director: heartbeat.max.failedattempts
  DaemonFails,     \* daemon: heartbeat.max.failedattempts
  CheckSleep,      \* daemon: heartbeat.check.sleep
  RetrySleep,      \* daemon: register.failure.sleep
  MaxFaults        \* bound on what goes wrong or is asked for

ASSUME TimesAssumption ==
  /\ \A k \in {RecvTimeout, Pulse, DirectorFails, DaemonFails, CheckSleep, RetrySleep} :
       k \in Nat \ {0}
  /\ MaxFaults \in Nat

\* sleep(1): "this allows the other end to catch up for a moment".
WarmUp == 1

VARIABLES
  directing,   \* the director's process runs
  control,     \* its SC_DaemonCtrl for the daemon
  servant,     \* its addDaemon: "waits", with the locks, until that is initialised
  replies,     \* datagrams at the controller's socket
  main,        \* the daemon's main thread
  heartbeat,   \* its heartbeat thread
  pings,       \* datagrams at the heartbeat port, while that is bound
  late,        \* datagrams under way
  faults,
  hurt         \* history: what has gone wrong since each side last heard of the other

vars == <<directing, control, servant, replies, main, heartbeat, pings, late, faults, hurt>>

Later(a, b) == IF a > b THEN a ELSE b

Longest == Later(Later(RecvTimeout, Pulse), Later(Later(CheckSleep, RetrySleep), WarmUp))

ControlState ==
  [at : {"none", "init", "warm", "ping", "wait", "pause"}, timer : 0..Longest,
   fails : 0..DirectorFails, mShouldRun : BOOLEAN, thread : ThreadObject]
HeartbeatState ==
  [at : {"none", "init", "receive", "reply"}, timer : 0..Longest,
   fails : 0..DaemonFails, mShouldRun : BOOLEAN, thread : ThreadObject]
MainState ==
  [at : {"down", "register", "calls", "retry", "start", "watch", "stopping"}, timer : 0..Longest]

NoControl == [at |-> "none", timer |-> 0, fails |-> 0, mShouldRun |-> TRUE,
              thread |-> NewThread]
NewHeartbeat == NoControl
At(where, time) == [at |-> where, timer |-> time]

\* Whether a datagram for either socket is kept.
Listening == control.at \in {"warm", "ping", "wait", "pause"}
Bound == heartbeat.at \in {"receive", "reply"} \/ heartbeat.thread.mSpent

\* SO_RCVTIMEO: EAGAIN, that is SX_SocketTimeout, after that long.
Expired(receiver) == receiver.timer = 0

\* recvfrom() leaves the sender's address for the answer.
Answerable(datagram) == datagram \in {"ping", "lateping"}

Happens == faults < MaxFaults /\ faults' = faults + 1

-----------------------------------------------------------------------------
(* The controller: SC_DaemonCtrl::run.                                     *)

\* The thread ends, its socket is closed: pings still under way have no sender.
ControlEnds(how) ==
  /\ control' = [how EXCEPT !.at = "none", !.timer = 0, !.thread = Terminated(@)]
  /\ replies' = <<>>
  /\ late' = [late EXCEPT !["reply"] = 0, !["ping"] = 0, !["stranger"] = @ + late["ping"]]

\* init() finds the daemon's remote object, or throws; then sleep(1).  Who waits in
\* addDaemon goes on, and answers the daemon - or, after an exception, waits for ever.
InitControl ==
  /\ control.at = "init"
  /\ IF main.at = "down" THEN ControlEnds(control) /\ UNCHANGED <<servant, main>>
     ELSE /\ control' = [control EXCEPT !.at = "warm", !.timer = WarmUp]
          /\ servant' = "free"
          /\ main' = IF main.at = "calls" THEN At("start", 0) ELSE main
          /\ UNCHANGED <<replies, late>>
  /\ UNCHANGED <<directing, heartbeat, pings, faults, hurt>>

\* run() catches neither what init() throws nor an SX_Socket of its send or receive:
\* the thread ends at once, with mShouldRun still set.
ControlThrows ==
  /\ control.at \in {"init", "ping", "wait"} /\ Happens
  /\ ControlEnds(control)
  /\ UNCHANGED <<directing, servant, main, heartbeat, pings, hurt>>

Awake ==
  /\ control.at \in {"warm", "pause"} /\ control.timer = 0
  /\ IF control.mShouldRun
     THEN control' = [control EXCEPT !.at = "ping"] /\ UNCHANGED <<replies, late>>
     ELSE ControlEnds(control)
  /\ UNCHANGED <<directing, servant, main, heartbeat, pings, faults, hurt>>

\* A datagram of this kind is sent: it arrives, is lost, or is late.
Sent(kind, box, open) ==
  \/ /\ box' = IF open THEN Append(box, kind) ELSE box
     /\ UNCHANGED <<late, faults, hurt>>
  \/ /\ Happens /\ hurt' = [s \in {"director", "daemon"} |-> hurt[s] + 1]
     /\ late' \in {late, [late EXCEPT ![kind] = @ + 1]}
     /\ UNCHANGED box

Ping ==
  /\ control.at = "ping"
  /\ control' = [control EXCEPT !.at = "wait", !.timer = RecvTimeout]
  /\ Sent("ping", pings, Bound)
  /\ UNCHANGED <<directing, servant, replies, main, heartbeat>>

Paused == [control EXCEPT !.at = "pause", !.timer = Pulse]

\* (A mistake: a reply does not clear the failures.)
Replied_KeepsFails ==
  /\ control.at = "wait" /\ replies # <<>>
  /\ control' = Paused
  /\ replies' = Tail(replies)
  /\ hurt' = IF Head(replies) = "reply" THEN [hurt EXCEPT !["director"] = 0] ELSE hurt
  /\ UNCHANGED <<directing, servant, main, heartbeat, pings, late, faults>>

\* Any datagram will do for a reply.
Replied ==
  /\ control.at = "wait" /\ replies # <<>>
  /\ control' = [Paused EXCEPT !.fails = 0]
  /\ replies' = Tail(replies)
  /\ hurt' = IF Head(replies) = "reply" THEN [hurt EXCEPT !["director"] = 0] ELSE hurt
  /\ UNCHANGED <<directing, servant, main, heartbeat, pings, late, faults>>

ReplyTimesOut ==
  /\ control.at = "wait" /\ replies = <<>> /\ Expired(control)
  /\ control' = [Paused EXCEPT !.fails = @ + 1,
                               !.mShouldRun = control.fails + 1 < DirectorFails]
  /\ UNCHANGED <<directing, servant, replies, main, heartbeat, pings, late, faults, hurt>>

\* SX_SocketInterrupt: a child's end, say, interrupts the receive; no failure.
ReplyInterrupted ==
  /\ control.at = "wait" /\ replies = <<>> /\ Happens
  /\ control' = Paused
  /\ UNCHANGED <<directing, servant, replies, main, heartbeat, pings, late, hurt>>

-----------------------------------------------------------------------------
(* The daemon's heartbeat thread: SC_HeartbeatThread::run.                 *)

\* The loop's test; the thread leaves its socket bound until it is reset.
Loops(h) ==
  IF h.mShouldRun THEN [h EXCEPT !.at = "receive", !.timer = RecvTimeout]
  ELSE [h EXCEPT !.at = "none", !.timer = 0, !.thread = Terminated(@)]

InitHeartbeat ==
  /\ heartbeat.at = "init"
  /\ heartbeat' = Loops([heartbeat EXCEPT !.fails = 0])
  /\ UNCHANGED <<directing, control, servant, replies, main, pings, late, faults, hurt>>

\* Any datagram is a heartbeat: the thread never looks at it.
Receive ==
  /\ heartbeat.at = "receive" /\ pings # <<>>
  /\ IF heartbeat.mShouldRun
     THEN /\ heartbeat' = [heartbeat EXCEPT !.at = "reply", !.timer = 0, !.fails = 0]
          /\ UNCHANGED pings
     ELSE /\ heartbeat' = Loops(heartbeat)
          /\ pings' = Tail(pings)
  /\ hurt' = IF Head(pings) = "ping" THEN [hurt EXCEPT !["daemon"] = 0] ELSE hurt
  /\ UNCHANGED <<directing, control, servant, replies, main, late, faults>>

\* The answer goes to the sender of the datagram just read.
Reply ==
  /\ heartbeat.at = "reply"
  /\ IF Answerable(Head(pings))
     THEN Sent("reply", replies, Listening)
     ELSE UNCHANGED <<replies, late, faults, hurt>>
  /\ pings' = Tail(pings)
  /\ heartbeat' = Loops(heartbeat)
  /\ UNCHANGED <<directing, control, servant, main>>

PingTimesOut ==
  /\ heartbeat.at = "receive" /\ pings = <<>> /\ Expired(heartbeat)
  /\ heartbeat' = LET n == heartbeat.fails + 1
                  IN  Loops([heartbeat EXCEPT !.fails = n,
                               !.mShouldRun = @ /\ n < DaemonFails])
  /\ UNCHANGED <<directing, control, servant, replies, main, pings, late, faults, hurt>>

PingInterrupted ==
  /\ heartbeat.at = "receive" /\ pings = <<>> /\ Happens
  /\ heartbeat' = Loops(heartbeat)
  /\ UNCHANGED <<directing, control, servant, replies, main, pings, late, hurt>>

\* SX_Socket ends the loop.
PingFails ==
  /\ heartbeat.at \in {"init", "receive"} /\ Happens
  /\ heartbeat' = Loops([heartbeat EXCEPT !.mShouldRun = FALSE])
  /\ UNCHANGED <<directing, control, servant, replies, main, pings, late, hurt>>

\* stop(), and the datagram that breaks the receive.
Stopped ==
  /\ heartbeat' = [heartbeat EXCEPT !.mShouldRun = FALSE]
  /\ pings' = IF Bound THEN Append(pings, "die") ELSE pings

-----------------------------------------------------------------------------
(* The daemon's main thread: SC_Daemon::run.                               *)

\* addDaemon clears away a controller that has ended, and refuses a second one.  If
\* the system or the daemon's components run it waits for the new one, and whoever
\* calls it meanwhile waits for its lock.
Register ==
  /\ main.at = "register"
  /\ IF ~directing
     THEN main' = At("retry", RetrySleep) /\ UNCHANGED <<control, servant, hurt>>
     ELSE /\ servant = "free"
          /\ IF control.thread.mRunning
             THEN main' = At("retry", RetrySleep) /\ UNCHANGED <<control, servant, hurt>>
             ELSE /\ control' = [NoControl EXCEPT !.at = "init", !.thread = Started(@)]
                  /\ hurt' = [s \in {"director", "daemon"} |-> 0]
                  /\ \/ main' = At("start", 0) /\ UNCHANGED servant
                     \/ main' = At("calls", 0) /\ servant' = "waits"
  /\ UNCHANGED <<directing, replies, heartbeat, pings, late, faults>>

Retry ==
  /\ main.at = "retry" /\ main.timer = 0
  /\ main' = At("register", 0)
  /\ UNCHANGED <<directing, control, servant, replies, heartbeat, pings, late, faults, hurt>>

StartHeartbeat ==
  /\ main.at = "start"
  /\ heartbeat' = IF Startable(heartbeat.thread)
                  THEN [heartbeat EXCEPT !.at = "init", !.thread = Started(@)]
                  ELSE heartbeat
  /\ main' = At("watch", 0)
  /\ UNCHANGED <<directing, control, servant, replies, pings, late, faults, hurt>>

\* (A mistake: the next thread finds mShouldRun as the last one left it.)
Reset_KeepsShouldRun(h) == [h EXCEPT !.thread = ResetThread(@)]

\* reset() releases the socket, and what was waiting there.
Reset(h) == [h EXCEPT !.thread = ResetThread(@), !.mShouldRun = TRUE]

Watch ==
  /\ main.at = "watch" /\ main.timer = 0
  /\ IF heartbeat.thread.mRunning
     THEN main' = At("watch", CheckSleep) /\ UNCHANGED <<heartbeat, pings>>
     ELSE /\ main' = At("register", 0)
          /\ heartbeat' = Reset(heartbeat)
          /\ pings' = <<>>
  /\ UNCHANGED <<directing, control, servant, replies, late, faults, hurt>>

\* shutdown() stops the heartbeat thread, waits for it, and the process ends.
Gone ==
  /\ main' = At("down", 0) /\ heartbeat' = NewHeartbeat /\ pings' = <<>>

Joined ==
  /\ main.at = "stopping" /\ ~JoinWaits(heartbeat.thread)
  /\ Gone
  /\ UNCHANGED <<directing, control, servant, replies, late, faults, hurt>>

-----------------------------------------------------------------------------
(* What else happens.                                                      *)

\* deRegisterCurrentDirector, in the election's comm thread.
Suggest ==
  /\ main.at \notin {"down", "stopping"} /\ Happens
  /\ Stopped
  /\ UNCHANGED <<directing, control, servant, replies, main, late, hurt>>

Shutdown ==
  /\ main.at \notin {"down", "stopping"} /\ Happens
  /\ main' = At("stopping", 0)
  /\ Stopped
  /\ UNCHANGED <<directing, control, servant, replies, late, hurt>>

\* Killed; or its registration threw, which nobody catches.
DaemonDies ==
  /\ main.at # "down" /\ Happens
  /\ Gone
  /\ UNCHANGED <<directing, control, servant, replies, late, hurt>>

DaemonStarts ==
  /\ main.at = "down" /\ Happens
  /\ main' = At("register", 0)
  /\ UNCHANGED <<directing, control, servant, replies, heartbeat, pings, late, hurt>>

\* A registration under way fails with a CORBA exception, and that ends the daemon.
DirectorDies ==
  /\ directing /\ Happens
  /\ directing' = FALSE /\ servant' = "free"
  /\ ControlEnds([control EXCEPT !.mShouldRun = FALSE])
  /\ \/ main.at \in {"register", "calls"} /\ Gone
     \/ main.at # "calls" /\ UNCHANGED <<main, heartbeat, pings>>
  /\ UNCHANGED hurt

DirectorStarts ==
  /\ ~directing /\ Happens
  /\ directing' = TRUE
  /\ control' = NoControl
  /\ UNCHANGED <<servant, replies, main, heartbeat, pings, late, hurt>>

\* A datagram comes late, or from somebody else.
Arrives ==
  \/ /\ late["ping"] > 0 /\ late' = [late EXCEPT !["ping"] = @ - 1]
     /\ pings' = IF Bound THEN Append(pings, "lateping") ELSE pings
     /\ UNCHANGED replies
  \/ /\ late["stranger"] > 0 /\ late' = [late EXCEPT !["stranger"] = @ - 1]
     /\ pings' = IF Bound THEN Append(pings, "stranger") ELSE pings
     /\ UNCHANGED replies
  \/ /\ late["reply"] > 0 /\ late' = [late EXCEPT !["reply"] = @ - 1]
     /\ replies' = IF Listening THEN Append(replies, "latereply") ELSE replies
     /\ UNCHANGED pings
Late == Arrives /\ UNCHANGED <<directing, control, servant, main, heartbeat, faults, hurt>>

\* Every thread sleeps or waits.
Quiet ==
  /\ control.at \in {"warm", "pause", "wait"} => control.timer > 0
  /\ control.at \notin {"init", "ping"}
  /\ control.at = "wait" => replies = <<>>
  /\ heartbeat.at = "receive" => heartbeat.timer > 0 /\ pings = <<>>
  /\ heartbeat.at \notin {"init", "reply"}
  /\ main.at \in {"retry", "watch"} => main.timer > 0
  /\ main.at = "register" => directing /\ servant = "waits"
  /\ main.at # "start"

Pass(timer) == IF timer = 0 THEN 0 ELSE timer - 1

Tick ==
  /\ Quiet
  /\ control' = [control EXCEPT !.timer = Pass(@)]
  /\ heartbeat' = [heartbeat EXCEPT !.timer = Pass(@)]
  /\ main' = [main EXCEPT !.timer = Pass(@)]
  /\ UNCHANGED <<directing, servant, replies, pings, late, faults, hurt>>

-----------------------------------------------------------------------------
Init ==
  /\ directing = TRUE
  /\ control = NoControl /\ servant = "free" /\ replies = <<>>
  /\ main = At("register", 0)
  /\ heartbeat = NewHeartbeat /\ pings = <<>>
  /\ late = [k \in {"ping", "reply", "stranger"} |-> 0]
  /\ faults = 0
  /\ hurt = [s \in {"director", "daemon"} |-> 0]

Control == InitControl \/ Awake \/ Ping \/ Replied \/ ReplyTimesOut
Thread  == InitHeartbeat \/ Receive \/ Reply \/ PingTimesOut
Main    == Register \/ Retry \/ StartHeartbeat \/ Watch \/ Joined
Fault   == ControlThrows \/ ReplyInterrupted \/ PingInterrupted \/ PingFails \/ Suggest \/ Shutdown
             \/ DaemonDies \/ DaemonStarts \/ DirectorDies \/ DirectorStarts

Next == Control \/ Thread \/ Main \/ Fault \/ Late \/ Tick

Spec == Init /\ [][Next]_vars

\* Threads run and time passes.
Fairness == /\ WF_vars(Control) /\ WF_vars(Thread) /\ WF_vars(Main)
            /\ WF_vars(Late) /\ WF_vars(Tick)

FairSpec == Spec /\ Fairness

-----------------------------------------------------------------------------
(* Properties.                                                             *)

TypeOK ==
  /\ directing \in BOOLEAN
  /\ control \in ControlState /\ servant \in {"free", "waits"}
  /\ replies \in Seq({"reply", "latereply"})
  /\ main \in MainState
  /\ heartbeat \in HeartbeatState
  /\ pings \in Seq({"ping", "lateping", "die", "stranger"})
  /\ late \in [{"ping", "reply", "stranger"} -> Nat]
  /\ faults \in Nat
  /\ hurt \in [{"director", "daemon"} -> Nat]

\* The controller stops, or its thread ends under it.
GivesUp ==
  /\ control.mShouldRun
  /\ \/ ~control'.mShouldRun
     \/ control.thread.mRunning /\ ~control'.thread.mRunning

\* No false alarm.  The director gives up a daemon that still answers only when
\* as many exchanges have failed as it tolerates - or when an exception ends its
\* controller, which takes no failed exchange at all; and the daemon counts as many
\* failures as it tolerates of a director that still pings it only when the lost
\* exchanges have kept the pings away for as long as it is ready to wait.  Each
\* counts from when it last heard of the other in time.
Patient ==
  [][ /\ /\ GivesUp /\ directing'
         /\ heartbeat.thread.mRunning /\ heartbeat.mShouldRun
         => hurt["director"] >= DirectorFails \/ ControlThrows
      /\ /\ heartbeat.at = "receive" /\ heartbeat'.fails = DaemonFails
         /\ control.thread.mRunning /\ control.mShouldRun
         => DaemonFails * RecvTimeout
              <= Later(WarmUp, Pulse) + hurt["daemon"] * (RecvTimeout + Pulse) ]_vars

InTouch == /\ control.thread.mRunning /\ control.mShouldRun
           /\ heartbeat.thread.mRunning /\ heartbeat.mShouldRun

\* However datagrams were lost, threads stopped and processes killed: in the end
\* a daemon and a director that run have a controller and a heartbeat thread for
\* each other, and who is left alone has noticed - unless the director's servant,
\* with its locks, waits for the initialisation of a controller whose init() threw,
\* when no daemon can register any more.
Settled ==
  <>[] /\ main.at # "stopping"
       /\ directing /\ main.at # "down"
            => InTouch \/ (servant = "waits" /\ ~control.thread.mRunning)
       /\ ~directing => ~heartbeat.thread.mRunning
       /\ main.at = "down" => ~control.thread.mRunning
=============================================================================
