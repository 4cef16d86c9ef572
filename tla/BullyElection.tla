---------------------------- MODULE BullyElection ----------------------------
(***************************************************************************)
(* Who leads: the daemons' main loops, the bully election they consult,    *)
(* the thread that receives election messages, and the director a leading  *)
(* daemon runs.  Three threads of a daemon meet here without any lock:     *)
(*   main      SC_Daemon::run: elect, start or drop a director, register,  *)
(*             wait for the heartbeat to end, again;                       *)
(*   comm      SC_ElectionCommThread: one message at a time;               *)
(*   director  SC_DirectorThread::init, which tells the lesser nodes.      *)
(* They share mLeaderHost, mDirectorThread and the heartbeat thread.       *)
(* A host is named by its rank.  What a director does with its daemons is  *)
(* the module Director.                                                    *)
(***************************************************************************)
EXTENDS Naturals, Sequences, FiniteSets

CONSTANTS
  Node,        \* the candidates, by rank
  Faults,      \* what may happen in this instance
  MaxFaults    \* bound on what happens

AllFaults == {"crash", "start", "stopDirector", "deaf"}

ASSUME CandidatesAssumption ==
  /\ IsFiniteSet(Node) /\ Node \subseteq Nat \ {0}
  /\ Faults \subseteq AllFaults /\ MaxFaults \in Nat

VARIABLES
  up,            \* daemons that run
  listening,     \* those whose election port is bound
  mLeaderHost,   \* SA_Election::mLeaderHost, unsynchronised
  main,          \* the main thread
  inbox,         \* connections waiting at the election port
  comm,          \* the election comm thread
  director,      \* mDirectorThread
  toTell,        \* lesser nodes a starting director has yet to tell
  follows,       \* the director whose heartbeats the daemon receives
  hbStop,        \* the heartbeat thread has been told to stop
  faults

vars == <<up, listening, mLeaderHost, main, inbox, comm, director, toTell,
          follows, hbStop, faults>>

Nobody == 0
Host == Node \cup {Nobody}

\* peer: the best candidate found so far, or the director being called.
MainState == [at : {"elect", "probe", "lead", "slave", "await", "register",
                    "call", "heartbeat"},
              left : SUBSET Node, peer : Host]
CommState == [at : {"idle", "deregister", "set"}, who : Host]

At(where) == [at |-> where, left |-> {}, peer |-> Nobody]
Quiet     == [at |-> "idle", who |-> Nobody]

\* (A mistake: everybody is told.)
Lessers_All(n) == Node \ {n}

Superiors(n) == {m \in Node : m > n}
Lessers(n)   == {m \in Node : m < n}

\* A director's object answers calls from its initialisation to its deletion, also
\* when it has been stopped, and when its thread has ended.
Serving(n) == director[n] \in {"initialised", "stopping", "ended"}

\* Nobody is sent heartbeats by n's director any more.
Abandoned(n) == [m \in Node |-> IF follows[m] = n THEN Nobody ELSE follows[m]]

-----------------------------------------------------------------------------
(* The main thread: SC_Daemon::run.                                        *)

AtMain(n, where) == n \in up /\ main[n].at = where
Goto(n, where) == main' = [main EXCEPT ![n] = At(where)]

\* shouldILead: the leader on record, ...
UseLeader(n) ==
  /\ AtMain(n, "elect") /\ mLeaderHost[n] # Nobody
  /\ Goto(n, IF mLeaderHost[n] = n THEN "lead" ELSE "slave")
  /\ UNCHANGED <<up, listening, mLeaderHost, inbox, comm, director, toTell,
                 follows, hbStop, faults>>

\* ... or else findHighestActiveNodeAboveMe: one thread per superior, ...
BeginProbe(n) ==
  /\ AtMain(n, "elect") /\ mLeaderHost[n] = Nobody
  /\ main' = [main EXCEPT ![n] = [at |-> "probe", left |-> Superiors(n), peer |-> n]]
  /\ UNCHANGED <<up, listening, mLeaderHost, inbox, comm, director, toTell,
                 follows, hbStop, faults>>

Probe(n, m) ==
  /\ AtMain(n, "probe") /\ m \in main[n].left
  /\ main' = [main EXCEPT ![n].left = @ \ {m},
                          ![n].peer = IF m \in listening /\ m > @ THEN m ELSE @]
  /\ UNCHANGED <<up, listening, mLeaderHost, inbox, comm, director, toTell,
                 follows, hbStop, faults>>

\* ... joined, and the result recorded whatever has been recorded meanwhile.
Elected(n) ==
  /\ AtMain(n, "probe") /\ main[n].left = {}
  /\ mLeaderHost' = [mLeaderHost EXCEPT ![n] = main[n].peer]
  /\ Goto(n, IF main[n].peer = n THEN "lead" ELSE "slave")
  /\ UNCHANGED <<up, listening, inbox, comm, director, toTell, follows, hbStop,
                 faults>>

\* One that is stopped still runs for up to a second.  The controllers that an ended
\* one has been given since are deleted under their threads, which go on or do not.
Lead(n) ==
  /\ AtMain(n, "lead")
  /\ IF director[n] \in {"none", "ended"}
     THEN /\ director' = [director EXCEPT ![n] = "starting"]
          /\ toTell' = [toTell EXCEPT ![n] = Lessers(n)]
          /\ follows' \in {follows, Abandoned(n)}
     ELSE UNCHANGED <<director, toTell, follows>>
  /\ Goto(n, "await")
  /\ UNCHANGED <<up, listening, mLeaderHost, inbox, comm, hbStop, faults>>

AwaitDirector(n) ==
  /\ AtMain(n, "await") /\ director[n] # "starting"
  /\ Goto(n, "register")
  /\ UNCHANGED <<up, listening, mLeaderHost, inbox, comm, director, toTell,
                 follows, hbStop, faults>>

Slave(n) ==
  /\ AtMain(n, "slave") /\ director[n] # "starting"
  /\ director' = [director EXCEPT ![n] = "none"]
  /\ follows' = Abandoned(n)
  /\ Goto(n, "register")
  /\ UNCHANGED <<up, listening, mLeaderHost, inbox, comm, toTell, hbStop, faults>>

\* findLeaderHost, called by registerDaemon: the host it returns, if any.
LeaderHost(n) ==
  IF mLeaderHost[n] # Nobody THEN {mLeaderHost[n]}
  ELSE {m \in listening : \A k \in listening : m >= k}

\* (A mistake: the election port outlives the process.)
Gone_PortKept(n) ==
  /\ up' = up \ {n}
  /\ mLeaderHost' = [mLeaderHost EXCEPT ![n] = Nobody]
  /\ main' = [main EXCEPT ![n] = At("elect")]
  /\ follows' = [Abandoned(n) EXCEPT ![n] = Nobody]
  /\ UNCHANGED <<listening, inbox, comm, director, toTell, hbStop>>

\* The daemon's process is gone, and all that was in it.
Gone(n) ==
  /\ up' = up \ {n} /\ listening' = listening \ {n}
  /\ mLeaderHost' = [mLeaderHost EXCEPT ![n] = Nobody]
  /\ main' = [m \in Node |->
       IF m = n THEN At("elect")
       ELSE IF main[m].at = "call" /\ main[m].peer = n THEN At("call")  \* broken
       ELSE main[m]]
  /\ inbox' = [inbox EXCEPT ![n] = <<>>]
  /\ comm' = [comm EXCEPT ![n] = Quiet]
  /\ director' = [director EXCEPT ![n] = "none"]
  /\ toTell' = [toTell EXCEPT ![n] = {}]
  /\ follows' = [Abandoned(n) EXCEPT ![n] = Nobody]
  /\ hbStop' = [hbStop EXCEPT ![n] = FALSE]

\* (A mistake: a leader that does not answer stays on record.)
NoDirector_Kept(n) ==
  /\ AtMain(n, "register") /\ \E t \in LeaderHost(n) : ~Serving(t)
  /\ Goto(n, "elect")
  /\ UNCHANGED <<up, listening, mLeaderHost, inbox, comm, director, toTell,
                 follows, hbStop, faults>>

\* The leader runs no director: SX_Daemon, and a new election.
NoDirector(n) ==
  /\ AtMain(n, "register") /\ \E t \in LeaderHost(n) : ~Serving(t)
  /\ mLeaderHost' = [mLeaderHost EXCEPT ![n] = Nobody]
  /\ Goto(n, "elect")
  /\ UNCHANGED <<up, listening, inbox, comm, director, toTell, follows, hbStop,
                 faults>>

CallDirector(n) ==
  /\ AtMain(n, "register")
  /\ \E t \in LeaderHost(n) :
       /\ Serving(t)
       /\ main' = [main EXCEPT ![n] = [At("call") EXCEPT !.peer = t]]
  /\ UNCHANGED <<up, listening, mLeaderHost, inbox, comm, director, toTell,
                 follows, hbStop, faults>>

\* The call is answered, and the daemon is sent heartbeats: by a director that has
\* been stopped as well, but not by one that has been dropped meanwhile.
Registered(n) ==
  /\ AtMain(n, "call") /\ main[n].peer # Nobody
  /\ follows' = [follows EXCEPT ![n] = IF Serving(main[n].peer) THEN main[n].peer ELSE Nobody]
  /\ Goto(n, "heartbeat")
  /\ UNCHANGED <<up, listening, mLeaderHost, inbox, comm, director, toTell,
                 hbStop, faults>>

\* What registerDaemon throws when the callee or its object goes away, or when it finds
\* no leader, is no SX_Daemon: it leaves run() and ends the daemon.  So may a thread
\* that outlives its object.
Exit(n) ==
  /\ \/ AtMain(n, "call") /\ main[n].peer \notin {m \in Node : Serving(m)}
     \/ AtMain(n, "register") /\ LeaderHost(n) = {}
     \/ AtMain(n, "slave") /\ director[n] \in {"initialised", "stopping"}
     \/ AtMain(n, "lead") /\ director[n] = "ended" /\ \E m \in Node : follows[m] = n
  /\ Gone(n) /\ UNCHANGED faults

HeartbeatEnds(n) ==
  /\ AtMain(n, "heartbeat") /\ (follows[n] = Nobody \/ hbStop[n])
  /\ follows' = [follows EXCEPT ![n] = Nobody]
  /\ hbStop' = [hbStop EXCEPT ![n] = FALSE]
  /\ Goto(n, "elect")
  /\ UNCHANGED <<up, listening, mLeaderHost, inbox, comm, director, toTell, faults>>

-----------------------------------------------------------------------------
(* The election comm thread: suggestLeader.                                *)

Listen(n) ==
  /\ n \in up \ listening
  /\ listening' = listening \cup {n}
  /\ UNCHANGED <<up, mLeaderHost, main, inbox, comm, director, toTell, follows,
                 hbStop, faults>>

\* The answer to a suggestion, after the leader on record (if it ranks higher)
\* and the suggested one have been tried.
Answer(n, m) ==
  LET leader == mLeaderHost[n] IN
    IF leader = Nobody THEN "record"
    ELSE IF leader = m \/ (leader > m /\ leader \in listening) THEN "keep"
    ELSE IF m \in listening THEN "change"
    ELSE IF leader > m THEN "clear" ELSE "keep"

Suggested(n) ==
  /\ n \in listening /\ comm[n].at = "idle" /\ inbox[n] # <<>>
  /\ LET m == Head(inbox[n])
         what == Answer(n, m)
     IN  /\ mLeaderHost' = [mLeaderHost EXCEPT ![n] =
              CASE what = "record" -> m
                [] what = "clear" \/ (what = "change" /\ @ > m) -> Nobody
                [] OTHER -> @]
         /\ comm' = [comm EXCEPT ![n] =
              IF what = "change" THEN [at |-> "deregister", who |-> m] ELSE Quiet]
  /\ inbox' = [inbox EXCEPT ![n] = Tail(@)]
  /\ UNCHANGED <<up, listening, main, director, toTell, follows, hbStop, faults>>

\* deRegisterCurrentDirector: an own director is stopped and joined, ...
Deregister(n) ==
  /\ comm[n].at = "deregister" /\ director[n] # "starting"
  /\ director' = [director EXCEPT ![n] = "none"]
  /\ follows' = Abandoned(n)
  /\ hbStop' = [hbStop EXCEPT ![n] = TRUE]
  /\ comm' = [comm EXCEPT ![n].at = "set"]
  /\ UNCHANGED <<up, listening, mLeaderHost, main, inbox, toTell, faults>>

\* (A mistake: a leader that the main loop has found meanwhile is kept.)
SetLeader_Kept(n) ==
  /\ comm[n].at = "set"
  /\ mLeaderHost' = [mLeaderHost EXCEPT ![n] = IF @ = Nobody THEN comm[n].who ELSE @]
  /\ comm' = [comm EXCEPT ![n] = Quiet]
  /\ UNCHANGED <<up, listening, main, inbox, director, toTell, follows, hbStop,
                 faults>>

\* ... and only then is the new leader recorded.
SetLeader(n) ==
  /\ comm[n].at = "set"
  /\ mLeaderHost' = [mLeaderHost EXCEPT ![n] = comm[n].who]
  /\ comm' = [comm EXCEPT ![n] = Quiet]
  /\ UNCHANGED <<up, listening, main, inbox, director, toTell, follows, hbStop,
                 faults>>

-----------------------------------------------------------------------------
(* The director thread: init() -> allowMeToLead.                           *)

Tell(n, m) ==
  /\ director[n] = "starting" /\ m \in toTell[n]
  /\ toTell' = [toTell EXCEPT ![n] = @ \ {m}]
  /\ inbox' = IF m \in listening THEN [inbox EXCEPT ![m] = Append(@, n)] ELSE inbox
  /\ UNCHANGED <<up, listening, mLeaderHost, main, comm, director, follows, hbStop,
                 faults>>

DirectorReady(n) ==
  /\ director[n] = "starting" /\ toTell[n] = {}
  /\ director' = [director EXCEPT ![n] = "initialised"]
  /\ UNCHANGED <<up, listening, mLeaderHost, main, inbox, comm, toTell, follows,
                 hbStop, faults>>

\* The loop's sleep is over.
DirectorEnds(n) ==
  /\ director[n] = "stopping"
  /\ director' = [director EXCEPT ![n] = "ended"]
  /\ UNCHANGED <<up, listening, mLeaderHost, main, inbox, comm, toTell, follows,
                 hbStop, faults>>

-----------------------------------------------------------------------------
Happens(f) == f \in Faults /\ faults < MaxFaults /\ faults' = faults + 1

Crash(n) == n \in up /\ Happens("crash") /\ Gone(n)

Start(n) ==
  /\ n \notin up /\ Happens("start")
  /\ up' = up \cup {n}
  /\ UNCHANGED <<listening, mLeaderHost, main, inbox, comm, director, toTell,
                 follows, hbStop>>

\* clientStopDirector: every controller ends, the object stays.
StopDirector(n) ==
  /\ Serving(n) /\ Happens("stopDirector")
  /\ director' = [director EXCEPT ![n] = IF @ = "ended" THEN @ ELSE "stopping"]
  /\ follows' = Abandoned(n)
  /\ UNCHANGED <<up, listening, mLeaderHost, main, inbox, comm, toTell, hbStop>>

-----------------------------------------------------------------------------
\* The daemons in S have just been started, their ports are bound or not yet.
InitWith(S, ports) ==
  /\ up = S /\ listening = ports
  /\ mLeaderHost = [n \in Node |-> Nobody]
  /\ main = [n \in Node |-> At("elect")]
  /\ inbox = [n \in Node |-> <<>>]
  /\ comm = [n \in Node |-> Quiet]
  /\ director = [n \in Node |-> "none"]
  /\ toTell = [n \in Node |-> {}]
  /\ follows = [n \in Node |-> Nobody]
  /\ hbStop = [n \in Node |-> FALSE]
  /\ faults = 0

Init == InitWith(Node, {})

Main(n) == \/ UseLeader(n) \/ BeginProbe(n) \/ Elected(n)
           \/ \E m \in Node : Probe(n, m)
           \/ Lead(n) \/ AwaitDirector(n) \/ Slave(n)
           \/ NoDirector(n) \/ CallDirector(n) \/ Registered(n) \/ Exit(n)
           \/ HeartbeatEnds(n)
Comm(n) == Listen(n) \/ Suggested(n) \/ Deregister(n) \/ SetLeader(n)
Director(n) == (\E m \in Node : Tell(n, m)) \/ DirectorReady(n) \/ DirectorEnds(n)

Next == \E n \in Node : \/ Main(n) \/ Comm(n) \/ Director(n)
                        \/ Crash(n) \/ Start(n) \/ StopDirector(n)

Spec == Init /\ [][Next]_vars

\* The three threads of every daemon keep running.
Fairness == \A n \in Node : WF_vars(Main(n)) /\ WF_vars(Comm(n)) /\ WF_vars(Director(n))

Highest(S) == CHOOSE m \in S : \A k \in S : m >= k

\* The nodes in S run and all follow the highest of them.
InitLed(S) ==
  /\ up = S /\ listening = S
  /\ mLeaderHost = [n \in Node |-> IF n \in S THEN Highest(S) ELSE Nobody]
  /\ main = [n \in Node |-> IF n \in S THEN At("heartbeat") ELSE At("elect")]
  /\ inbox = [n \in Node |-> <<>>]
  /\ comm = [n \in Node |-> Quiet]
  /\ director = [n \in Node |-> IF n = Highest(S) THEN "initialised" ELSE "none"]
  /\ toTell = [n \in Node |-> {}]
  /\ follows = mLeaderHost
  /\ hbStop = [n \in Node |-> FALSE]
  /\ faults = 0

LessSpec == InitLed(Node \ {Highest(Node)}) /\ [][Next]_vars /\ Fairness

-----------------------------------------------------------------------------
(* Properties.                                                             *)

TypeOK ==
  /\ up \subseteq Node /\ listening \subseteq up
  /\ mLeaderHost \in [Node -> Host]
  /\ main \in [Node -> MainState]
  /\ inbox \in [Node -> Seq(Node)]
  /\ comm \in [Node -> CommState]
  /\ director \in [Node -> {"none", "starting", "initialised", "stopping", "ended"}]
  /\ toTell \in [Node -> SUBSET Node]
  /\ follows \in [Node -> Host]
  /\ hbStop \in [Node -> BOOLEAN]
  /\ faults \in Nat

\* The bully's order survives every interleaving of elections, suggestions,
\* registrations and failures: no daemon records, calls or follows a leader
\* that ranks below itself.
NeverBelow ==
  \A n \in Node :
    /\ mLeaderHost[n] # Nobody => mLeaderHost[n] >= n
    /\ main[n].at = "call" /\ main[n].peer # Nobody => main[n].peer >= n
    /\ follows[n] # Nobody => follows[n] >= n

\* A daemon that takes itself for the leader never settles down without a director of
\* its own, although its comm thread drops directors and its main thread starts them
\* without asking each other - but for the moment before the comm thread records the
\* leader it has dropped one for.
LeadersDirect ==
  \A n \in Node :
    AtMain(n, "heartbeat") /\ mLeaderHost[n] = n /\ comm[n].at # "set"
      => director[n] # "none"

\* After failures of a system that was led, the highest node left leads, alone,
\* and everyone left follows it.
HighestLeads ==
  <>[](up # {} => /\ \A n \in up : follows[n] = Highest(up)
                  /\ \A n \in Node : director[n] = "initialised" <=> n = Highest(up))

\* allowMeToLead: "Making sure I am the only leader running".
OnlyLeader == <>[](\A n, m \in Node :
  director[n] = "initialised" /\ director[m] = "initialised" => n = m)
=============================================================================
