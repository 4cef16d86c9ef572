---------------------------- MODULE Distribution ----------------------------
(***************************************************************************)
(* The distributor of a director: SS_Distributor with the round robin or   *)
(* the balanced method, and the thread that collects the statistics the    *)
(* balanced method weighs components by.                                   *)
(*                                                                         *)
(* A distribution runs on whichever director thread asks for it.  It holds *)
(* SA_Distribution::mLock, and its caller a lock of the director that      *)
(* distGetStats() needs: so no poll of the statistics begins while a       *)
(* distribution is under way - but one that has its answer goes on, and    *)
(* raises the very objects the distribution is reading.                    *)
(*                                                                         *)
(* A node is named by its rank in the order of host names, in which the    *)
(* director lists them and std::map iterates over them.                    *)
(***************************************************************************)
EXTENDS SysConfig, ThreadBase

CONSTANTS
  Node,           \* hosts, by rank of their names
  Comp,           \* components statistics are about
  Files,          \* what rpms_config.xml may contain
  Usage,          \* what a process may be reported to use: [cpu, rss]
  OldData,        \* what earlier directors may have left in the data file
  Patterns,       \* distribution.method and .criteria: subset of AllPatterns
  NoFile,         \* the statistics have never been written
  FailOnError,    \* values parser.failOnError may have: subset of BOOLEAN
  MaxCollectors,  \* bound on statistics threads alive at once
  MaxCalls,       \* bound on calls to the distributor
  MaxPolls,       \* bound on polls that are answered
  MaxFaults       \* bound on crashes, failing calls and edits of rpms_config.xml

AllPatterns == {"roundrobin", "cpu", "memory"}

IsStats(d) == /\ DOMAIN d \in SUBSET Comp
              /\ d \in [DOMAIN d -> [cpu : Nat, rss : Nat]]

ASSUME DistributionAssumption ==
  /\ Node \subseteq Nat /\ IsFiniteSet(Node) /\ IsFiniteSet(Comp)
  /\ Usage \subseteq [cpu : Nat, rss : Nat]
  /\ \A d \in OldData : d = NoFile \/ IsStats(d)
  /\ Patterns \subseteq AllPatterns /\ FailOnError \subseteq BOOLEAN
  /\ MaxCollectors \in Nat /\ MaxCalls \in Nat /\ MaxPolls \in Nat
  /\ MaxFaults \in Nat

ASSUME FilesAssumption == \A f \in Files : IsFile(f)

VARIABLES
  pattern,       \* the method of SS_Distributor, mCriteria of the balanced one
  serving,       \* the director has not been told to stop
  \* files
  file,          \* rpms_config.xml
  dataFile,      \* distributor.stats.datafile: usage by component, or NoFile
  \* SA_Distribution
  mComponents,   \* processes of the configuration last loaded
  mCompConfig,   \* node -> its configuration
  mDistState,    \* node -> the document sent to it
  mDistributed,
  call,          \* the distribution under way, or how the last one ended
  \* SC_ProcStatsThread
  thread,        \* the thread object
  jammed,        \* a start() that threw has left its mutex locked
  mShouldRun, mInitialised, mDataLoaded,
  mData,         \* component -> usage
  collector,     \* the threads started on the object
  \* bounds
  calls, polls, faults

bookVars   == <<mComponents, mCompConfig, mDistState, mDistributed>>
statVars   == <<thread, jammed, mShouldRun, mInitialised, mDataLoaded, mData, collector>>
boundVars  == <<calls, polls, faults>>
vars == <<pattern, serving, file, dataFile, bookVars, call, statVars, boundVars>>

-----------------------------------------------------------------------------
NoUsage == [c \in {} |-> 0]

Collector == 1..MaxCollectors
Gone == [at |-> "none", batch |-> {}]
Report == [comp : Comp, usage : Usage]

\* at:    where distributeComponents is, or how it ended;
\* todo:  processes still to be placed by weight; rest: those without weight;
\* nums:  the load of each node as the method counts it;
\* seen:  the statistics as they were when their map was copied.
Idle == [at |-> "idle", nodes |-> {}, again |-> FALSE, force |-> FALSE,
         todo |-> <<>>, rest |-> <<>>, nums |-> [n \in {} |-> 0], seen |-> NoUsage]

Ended(how) == [Idle EXCEPT !.at = how, !.again = call.again]

InProgress == call.at \in {"await", "place", "finish", "spin", "stuck"}

-----------------------------------------------------------------------------
(* What each configuration file contains.                                  *)

Processes == [f \in Files |-> Loaded(f)]
Listing   == [f \in Files |-> CompList(Loaded(f))]
Moving    == [f \in Files |->
                Chosen(Listing[f], {i \in DOMAIN Listing[f] : Listing[f][i].moveable})]

\* load() parses, and throws when a name comes twice.
Parsing == [f \in Files |-> Parse(f.wellFormed, FailOnError)]
Loads   == [f \in Files |-> "document" \in Parsing[f] /\ ~Duplicates(f)]
Throws  == [f \in Files |->
              \/ "thrown" \in Parsing[f]
              \/ "document" \in Parsing[f] /\ Duplicates(f)]
Kills(outcomes) == outcomes \cap {"exit", "wild"} # {}

-----------------------------------------------------------------------------
(* The node configurations.                                                *)

Procs(configs, n) == configs[n].mProcs

\* (A mistake: what is moveable stays, too.)
Prepared_KeepsMoveable(again, force) == mCompConfig

\* prepareForRedistribution, second half: what is left of the configurations,
\* those of nodes that are no longer listed included.
Prepared(again, force) ==
  IF ~again THEN mCompConfig
  ELSE IF force THEN [n \in {} |-> EmptyConfig]
  ELSE [n \in DOMAIN mCompConfig |-> RemoveMoveable(mCompConfig[n])]

\* prepareForRedistribution, first half: what is to be distributed.
ToDistribute(again, force) ==
  IF again /\ ~force THEN Moving[file] ELSE Listing[file]

\* prepareNodeConfigContainers
WithContainers(configs, nodes) ==
  [n \in DOMAIN configs \cup nodes |->
     IF n \in DOMAIN configs THEN configs[n] ELSE EmptyConfig]

AddTo(configs, n, p) == [configs EXCEPT ![n] = AddProcess(@, p)]

\* What is given out by turns: process i of a list to node i modulo their number.
NodeAt(nodes, i) ==
  CHOOSE n \in nodes :
    Cardinality({m \in nodes : m < n}) = (i - 1) % Cardinality(nodes)

\* The configurations after each process p of a list went to node to[p].
AddAll(configs, list, to) ==
  LET add[i \in 0..Len(list)] ==
        IF i = 0 THEN configs ELSE AddTo(add[i - 1], to[i], list[i])
  IN add[Len(list)]

InTurns(configs, list, nodes) ==
  AddAll(configs, list, [i \in DOMAIN list |-> NodeAt(nodes, i)])

\* The sweep of the round robin method passes over the nodes level by level
\* and gives a process to each node that has just as many: the i-th process
\* goes to the i-th of the free slots.
Slots(configs, nodes, k) ==
  UNION {{<<Len(Procs(configs, n)) + i - 1, n>> : i \in 1..k} : n \in nodes}
Sooner(s, t) == s[1] < t[1] \/ (s[1] = t[1] /\ s[2] < t[2])
Swept(configs, nodes, k) ==
  LET slots == Slots(configs, nodes, k)
  IN [i \in 1..k |->
        (CHOOSE s \in slots : Cardinality({t \in slots : Sooner(t, s)}) = i - 1)[2]]

-----------------------------------------------------------------------------
(* Weights.                                                                *)

Measure(u) == IF pattern = "memory" THEN u.rss ELSE u.cpu

\* getCpuAvg or getMaxRss through the shared pointer: the value as it is now.
Weight(p) ==
  IF pattern = "roundrobin" THEN 1
  ELSE IF p.compName \in DOMAIN mData THEN Measure(mData[p.compName]) ELSE 0

LoadOf(procs) ==
  LET sum[i \in 0..Len(procs)] == IF i = 0 THEN 0 ELSE sum[i - 1] + Weight(procs[i])
  IN sum[Len(procs)]

\* The first node, in the order of the map, with the smallest load.
Assignee(nums) ==
  CHOOSE n \in DOMAIN nums :
    /\ \A m \in DOMAIN nums : nums[n] <= nums[m]
    /\ \A m \in DOMAIN nums : nums[n] = nums[m] => n <= m

-----------------------------------------------------------------------------
(* distributeComponents.                                                   *)

Fault == faults < MaxFaults /\ faults' = faults + 1

FreeCollector == {c \in Collector : collector[c].at = "none"}

Starts == pattern # "roundrobin" /\ Startable(thread)
Waiting(nodes, again, force) ==
  [Idle EXCEPT !.at = "await", !.nodes = nodes, !.again = again, !.force = force]

\* SS_Distributor::distribute, up to where the balanced method waits for its
\* statistics thread.  The director redistributes a running system only.  A thread
\* that cannot be created is thrown out of start() with the object's mutex locked:
\* the next start waits for ever.
Call(nodes, again, force) ==
  /\ serving /\ ~InProgress /\ calls < MaxCalls
  /\ again => mDistributed
  /\ force => again
  /\ calls' = calls + 1
  /\ \/ /\ mDistributed /\ ~again
        /\ call' = [Idle EXCEPT !.at = "thrown"]
        /\ UNCHANGED <<thread, jammed, collector, faults>>
     \/ /\ ~(mDistributed /\ ~again) /\ ~Starts
        /\ call' = Waiting(nodes, again, force)
        /\ UNCHANGED <<thread, jammed, collector, faults>>
     \/ /\ ~(mDistributed /\ ~again) /\ Starts /\ ~jammed
        /\ call' = Waiting(nodes, again, force)
        /\ \E c \in FreeCollector :
             /\ \A d \in FreeCollector : c <= d
             /\ thread' = Started(thread)
             /\ collector' = [collector EXCEPT ![c].at = "entered"]
        /\ UNCHANGED <<jammed, faults>>
     \/ /\ ~(mDistributed /\ ~again) /\ Starts /\ ~jammed /\ Fault
        /\ call' = [Idle EXCEPT !.at = "thrown"] /\ jammed' = TRUE
        /\ UNCHANGED <<thread, collector>>
     \/ /\ ~(mDistributed /\ ~again) /\ Starts /\ jammed
        /\ call' = [Waiting(nodes, again, force) EXCEPT !.at = "stuck"]
        /\ UNCHANGED <<thread, jammed, collector, faults>>
  /\ UNCHANGED <<pattern, serving, file, dataFile, bookVars, mShouldRun, mInitialised,
                 mDataLoaded, mData, polls>>

CallerStep == UNCHANGED <<pattern, serving, file, dataFile, statVars, boundVars>>

\* The configuration does not load: an exception, the books as they were.  (Of
\* mComponents, what had been read is left, for nobody to use.)
BadFile ==
  /\ Throws[file]
  /\ call' = Ended("badfile") /\ mComponents' = {}
  /\ UNCHANGED <<mCompConfig, mDistState, mDistributed>>

RoundRobin ==
  /\ call.at = "await" /\ pattern = "roundrobin"
  /\ \/ BadFile
     \/ LET todo    == ToDistribute(call.again, call.force)
            configs == WithContainers(Prepared(call.again, call.force), call.nodes)
        IN /\ Loads[file]
           /\ mComponents' = Processes[file]
           /\ IF call.nodes = {} /\ todo # <<>>
              THEN call' = [call EXCEPT !.at = "spin"] /\ mCompConfig' = configs
              ELSE /\ call' = [call EXCEPT !.at = "finish"]
                   /\ mCompConfig' = AddAll(configs, todo,
                                            Swept(configs, call.nodes, Len(todo)))
           /\ UNCHANGED <<mDistState, mDistributed>>
  /\ CallerStep

\* The balanced method spins until the statistics thread is initialised.
Awaited == call.at = "await" /\ pattern # "roundrobin" /\ mInitialised
NothingLearned == ~mDataLoaded \/ mData = NoUsage

\* defaultDistributeComponents: no statistics.  It is a first distribution or
\* an exception.
Default ==
  /\ Awaited /\ NothingLearned
  /\ \/ /\ mDistributed
        /\ call' = Ended("thrown")
        /\ UNCHANGED bookVars
     \/ /\ ~mDistributed /\ BadFile
     \/ LET todo == ToDistribute(FALSE, FALSE)
        IN /\ ~mDistributed /\ Loads[file]
           /\ call.nodes # {} \/ todo = <<>>
           /\ mComponents' = Processes[file]
           /\ mCompConfig' = InTurns(WithContainers(mCompConfig, call.nodes), todo,
                                     call.nodes)
           /\ call' = [call EXCEPT !.at = "finish"]
           /\ UNCHANGED <<mDistState, mDistributed>>
  /\ CallerStep

\* Load, prepare, and sort out what there are no statistics of.
Known(p) == p.compName \in DOMAIN mData
\* (A mistake: what the nodes still run is not counted.)
LoadsOf_Nothing(configs, nodes) == [n \in nodes |-> 0]
LoadsOf(configs, nodes) == [n \in nodes |-> LoadOf(Procs(configs, n))]

Prepare ==
  /\ Awaited /\ ~NothingLearned
  /\ \/ BadFile
     \/ LET list    == ToDistribute(call.again, call.force)
            todo    == Chosen(list, {i \in DOMAIN list : Known(list[i])})
            configs == WithContainers(Prepared(call.again, call.force), call.nodes)
        IN /\ Loads[file]
           /\ mComponents' = Processes[file]
           /\ mCompConfig' = configs
           /\ call' = [call EXCEPT !.at = IF todo = <<>> THEN "finish" ELSE "place",
                         !.todo = todo, !.seen = mData,
                         !.rest = Chosen(list, {i \in DOMAIN list : ~Known(list[i])}),
                         !.nums = LoadsOf(configs, call.nodes)]
           /\ UNCHANGED <<mDistState, mDistributed>>
  /\ CallerStep

\* distributeForCpu, distributeForMemory: one turn of the loop.
Place ==
  /\ call.at = "place" /\ call.nodes # {}
  /\ LET p == Head(call.todo)
         n == Assignee(call.nums)
     IN /\ mCompConfig' = AddTo(mCompConfig, n, p)
        /\ call' = [call EXCEPT !.todo = Tail(@), !.nums[n] = @ + Weight(p),
                      !.at = IF Len(call.todo) = 1 THEN "finish" ELSE "place"]
  /\ UNCHANGED <<mComponents, mDistState, mDistributed>>
  /\ CallerStep

\* What has no weight goes round in turns; the documents of the listed nodes
\* replace those of the last distribution.
Documents(configs, nodes) == [n \in nodes |-> configs[n].doc]

Finish ==
  /\ call.at = "finish"
  /\ call.nodes # {} \/ call.rest = <<>>
  /\ LET configs == InTurns(mCompConfig, call.rest, call.nodes)
     IN /\ mCompConfig' = configs
        /\ mDistState' = Documents(configs, call.nodes)
  /\ mDistributed' = TRUE
  /\ call' = Ended("done")
  /\ UNCHANGED mComponents
  /\ CallerStep

-----------------------------------------------------------------------------
(* Stopping.                                                               *)

\* SC_ProcStatsThread::stop and the join() after it, which never waits.
StopStatistics ==
  /\ IF pattern = "roundrobin" THEN UNCHANGED <<thread, mShouldRun>>
     ELSE ~jammed /\ thread' = StoppedDead(thread) /\ mShouldRun' = FALSE
  /\ UNCHANGED <<jammed, mInitialised, mDataLoaded, mData, collector>>

\* stopSystemComponents: stopActiveProcesses, later resetDistribution.
StopSystem ==
  /\ serving /\ ~InProgress /\ calls < MaxCalls
  /\ calls' = calls + 1
  /\ StopStatistics
  /\ mDistState' = [n \in {} |-> <<>>] /\ mCompConfig' = [n \in {} |-> EmptyConfig]
  /\ mDistributed' = FALSE
  /\ UNCHANGED <<pattern, serving, file, dataFile, mComponents, call, polls, faults>>

\* stopAll: the director ends; its thread may be redistributing just now.
StopAll ==
  /\ serving /\ calls < MaxCalls
  /\ InProgress => call.again /\ ~call.force
  /\ serving' = FALSE /\ calls' = calls + 1
  /\ StopStatistics
  /\ UNCHANGED <<pattern, file, dataFile, bookVars, call, polls, faults>>

\* Either waits for the mutex that a start has left locked.
StopWaits ==
  /\ serving /\ ~InProgress /\ calls < MaxCalls
  /\ jammed /\ pattern # "roundrobin"
  /\ calls' = calls + 1
  /\ mShouldRun' = FALSE /\ call' = [Idle EXCEPT !.at = "stuck"]
  /\ UNCHANGED <<pattern, serving, file, dataFile, bookVars, thread, jammed, mInitialised,
                 mDataLoaded, mData, collector, polls, faults>>

-----------------------------------------------------------------------------
(* The statistics thread.                                                  *)

CollectorStep == UNCHANGED <<pattern, serving, file, bookVars, call, jammed, calls>>
GoesTo(c, where) == collector' = [collector EXCEPT ![c].at = where]
Ends(c) == /\ collector' = [collector EXCEPT ![c] = Gone]
           /\ thread' = Terminated(thread)

\* The test of the loop.
Loops(c) == IF mShouldRun THEN GoesTo(c, "poll") /\ UNCHANGED thread ELSE Ends(c)

\* run() says that it should run, whatever a stop has said before.
Enter(c) ==
  /\ collector[c].at = "entered"
  /\ mShouldRun' = TRUE
  /\ GoesTo(c, "init")
  /\ UNCHANGED <<dataFile, thread, mInitialised, mDataLoaded, mData, polls, faults>>
  /\ CollectorStep

\* loadDataFromFile inserts what is not there yet.
WithFile(data) ==
  IF dataFile = NoFile THEN data
  ELSE [c \in DOMAIN data \cup DOMAIN dataFile |->
          IF c \in DOMAIN data THEN data[c] ELSE dataFile[c]]

\* (A mistake: the thread is ready when it has its first statistics.)
Initialise_Later(c) ==
  /\ collector[c].at = "init"
  /\ mData' = WithFile(mData)
  /\ mDataLoaded' = (mDataLoaded \/ dataFile # NoFile)
  /\ mInitialised' = (polls > 0)
  /\ Loops(c)
  /\ UNCHANGED <<dataFile, mShouldRun, polls, faults>>
  /\ CollectorStep

Initialise(c) ==
  /\ collector[c].at = "init"
  /\ mData' = WithFile(mData)
  /\ mDataLoaded' = (mDataLoaded \/ dataFile # NoFile)
  /\ mInitialised' = TRUE
  /\ Loops(c)
  /\ UNCHANGED <<dataFile, mShouldRun, polls, faults>>
  /\ CollectorStep

\* The director's remote object is not found: run() returns.
InitialiseFails(c) ==
  /\ collector[c].at = "init" /\ Fault
  /\ Ends(c)
  /\ UNCHANGED <<dataFile, mShouldRun, mInitialised, mDataLoaded, mData, polls>>
  /\ CollectorStep

\* distGetStats: what the daemons that answer report of their processes.
\* With nothing reported the thread goes to sleep.
Answers == {{r} : r \in Report} \cup {{r, s} : r, s \in Report}
Poll(c) ==
  /\ collector[c].at = "poll" /\ ~InProgress
  /\ \/ GoesTo(c, "sleep") /\ UNCHANGED polls
     \/ \E batch \in Answers :
          /\ polls < MaxPolls /\ polls' = polls + 1
          /\ collector' = [collector EXCEPT ![c] = [at |-> "process", batch |-> batch]]
  /\ UNCHANGED <<dataFile, thread, mShouldRun, mInitialised, mDataLoaded, mData, faults>>
  /\ CollectorStep

\* The call throws, or it answers what the director answers after an exception of
\* its own, which does not parse and may throw: either ends the thread.
NoRoot == Parse(FALSE, FailOnError)
PollFails(c) ==
  /\ collector[c].at = "poll" /\ ~InProgress /\ Fault
  /\ Ends(c)
  /\ UNCHANGED <<dataFile, mShouldRun, mInitialised, mDataLoaded, mData, polls>>
  /\ CollectorStep

\* processStatsXML on one report: what uses nothing is ignored, and a value is
\* only ever raised.
Larger(a, b) == IF a > b THEN a ELSE b
\* (A mistake: the latest report counts.)
Learn_Latest(r) ==
  IF r.usage.cpu = 0 /\ r.usage.rss = 0 THEN mData
  ELSE [c \in DOMAIN mData \cup {r.comp} |->
          IF c = r.comp THEN r.usage ELSE mData[c]]

Learn(r) ==
  IF r.usage.cpu = 0 /\ r.usage.rss = 0 THEN mData
  ELSE [c \in DOMAIN mData \cup {r.comp} |->
          IF c # r.comp THEN mData[c]
          ELSE IF c \notin DOMAIN mData THEN r.usage
          ELSE [cpu |-> Larger(mData[c].cpu, r.usage.cpu),
                rss |-> Larger(mData[c].rss, r.usage.rss)]]

ProcessReport(c) ==
  /\ collector[c].at = "process"
  /\ \E r \in collector[c].batch :
       /\ mData' = Learn(r)
       /\ collector' = [collector EXCEPT ![c].batch = @ \ {r}]
  /\ UNCHANGED <<dataFile, thread, mShouldRun, mInitialised, mDataLoaded, polls, faults>>
  /\ CollectorStep

\* persist opens the file, which empties it, ...
Truncate(c) ==
  /\ collector[c].at = "process" /\ collector[c].batch = {}
  /\ mDataLoaded' = TRUE
  /\ \/ /\ dataFile' = NoUsage /\ GoesTo(c, "write")
        /\ UNCHANGED faults
     \/ /\ Fault /\ GoesTo(c, "sleep")          \* the file cannot be opened
        /\ UNCHANGED dataFile
  /\ UNCHANGED <<thread, mShouldRun, mInitialised, mData, polls>>
  /\ CollectorStep

\* ... and writes all there is.
Write(c) ==
  /\ collector[c].at = "write"
  /\ dataFile' = mData
  /\ GoesTo(c, "sleep")
  /\ UNCHANGED <<thread, mShouldRun, mInitialised, mDataLoaded, mData, polls, faults>>
  /\ CollectorStep

Wake(c) ==
  /\ collector[c].at = "sleep"
  /\ Loops(c)
  /\ UNCHANGED <<dataFile, mShouldRun, mInitialised, mDataLoaded, mData, polls, faults>>
  /\ CollectorStep

-----------------------------------------------------------------------------
(* The environment.                                                        *)

EditFile ==
  /\ Fault
  /\ \E f \in Files \ {file} : file' = f
  /\ UNCHANGED <<pattern, serving, dataFile, bookVars, call, statVars, calls, polls>>

\* What a crash leaves of a file being written: the first components, the last
\* of which may have lost the end of its line and be read as anything.
Torn ==
  {[c \in S |-> IF c = last THEN u ELSE mData[c]] :
     S \in {T \in SUBSET DOMAIN mData : \A c \in T, d \in DOMAIN mData : d < c => d \in T},
     last \in DOMAIN mData, u \in Usage} \cup {NoUsage}

\* The process of the director ends and another begins, on the same files.
Restarted ==
  /\ serving' = TRUE
  /\ mComponents' = {} /\ mDistributed' = FALSE
  /\ mCompConfig' = [n \in {} |-> EmptyConfig] /\ mDistState' = [n \in {} |-> <<>>]
  /\ call' = Idle
  /\ thread' = NewThread /\ jammed' = FALSE
  /\ mShouldRun' = TRUE /\ mInitialised' = FALSE
  /\ mDataLoaded' = FALSE /\ mData' = NoUsage
  /\ collector' = [c \in Collector |-> Gone]
  /\ IF \E c \in Collector : collector[c].at = "write"
     THEN dataFile' \in Torn
     ELSE UNCHANGED dataFile
  /\ UNCHANGED <<pattern, file, polls>>

Crash == Fault /\ Restarted /\ UNCHANGED calls

\* Without a node, the balanced and the default method take a process number
\* modulo zero or look into an empty map: the process is gone.
DividesByZero ==
  /\ call.nodes = {} /\ pattern # "roundrobin"
  /\ \/ call.at = "place"
     \/ call.at = "finish" /\ call.rest # <<>>
     \/ /\ Awaited /\ NothingLearned /\ ~mDistributed /\ Loads[file]
        /\ ToDistribute(FALSE, FALSE) # <<>>
  /\ Restarted /\ UNCHANGED <<calls, faults>>

\* A configuration or an answer that is not well formed may end the process.
ParserEnds ==
  /\ \/ /\ Kills(Parsing[file]) /\ call.at = "await"
        /\ \/ pattern = "roundrobin"
           \/ Awaited /\ (NothingLearned => ~mDistributed)
        /\ UNCHANGED faults
     \/ /\ Kills(NoRoot) /\ ~InProgress /\ Fault
        /\ \E c \in Collector : collector[c].at = "poll"
  /\ Restarted /\ UNCHANGED calls

\* pthread_kill() on thread id 0, when the statistics thread has not been started
\* or has ended by itself: it may do nothing, which StopSystem and StopAll say,
\* or end the process.
KillsNobody ==
  /\ serving /\ ~InProgress /\ calls < MaxCalls /\ pattern # "roundrobin"
  /\ ~jammed /\ (thread = NewThread \/ thread.mSpent)
  /\ calls' = calls + 1
  /\ Restarted /\ UNCHANGED faults

\* A director that has ended begins again in the same process:
\* SS_Distributor::initialise replaces the method's object.
Reinitialise ==
  /\ ~serving /\ ~InProgress
  /\ \A c \in Collector : collector[c].at = "none"
  /\ Restarted /\ UNCHANGED <<calls, faults>>

-----------------------------------------------------------------------------
Init ==
  /\ pattern \in Patterns /\ serving = TRUE
  /\ file \in Files
  /\ dataFile \in OldData
  /\ mComponents = {} /\ mDistributed = FALSE
  /\ mCompConfig = [n \in {} |-> EmptyConfig] /\ mDistState = [n \in {} |-> <<>>]
  /\ call = Idle
  /\ thread = NewThread /\ jammed = FALSE
  /\ mShouldRun = TRUE /\ mInitialised = FALSE
  /\ mDataLoaded = FALSE /\ mData = NoUsage
  /\ collector = [c \in Collector |-> Gone]
  /\ calls = 0 /\ polls = 0 /\ faults = 0

Distribute == RoundRobin \/ Default \/ Prepare \/ Place \/ Finish
Collect(c) == Enter(c) \/ Initialise(c) \/ Poll(c) \/ ProcessReport(c) \/ Truncate(c)
              \/ Write(c) \/ Wake(c)

Next ==
  \/ \E nodes \in SUBSET Node, again, force \in BOOLEAN : Call(nodes, again, force)
  \/ Distribute \/ StopSystem \/ StopAll \/ StopWaits
  \/ \E c \in Collector : Collect(c) \/ InitialiseFails(c) \/ PollFails(c)
  \/ EditFile \/ Crash \/ DividesByZero \/ KillsNobody \/ ParserEnds \/ Reinitialise

Spec == Init /\ [][Next]_vars

\* The caller and the statistics threads keep running.
Fairness == WF_vars(Distribute) /\ \A c \in Collector : WF_vars(Collect(c))

FairSpec == Spec /\ Fairness

-----------------------------------------------------------------------------
(* Properties.                                                             *)

AnyProcess == UNION {Processes[f] : f \in Files}
Documented == Seq({Element(p) : p \in AnyProcess})

\* Every variable keeps its type.
TypeOK ==
  /\ pattern \in Patterns /\ serving \in BOOLEAN /\ file \in Files
  /\ dataFile = NoFile \/ IsStats(dataFile)
  /\ mComponents \subseteq AnyProcess /\ mDistributed \in BOOLEAN
  /\ mCompConfig \in [DOMAIN mCompConfig -> [mProcs : Seq(AnyProcess), doc : Documented]]
  /\ DOMAIN mCompConfig \subseteq Node
  /\ mDistState \in [DOMAIN mDistState -> Documented] /\ DOMAIN mDistState \subseteq Node
  /\ call.at \in {"idle", "await", "place", "finish", "spin", "stuck", "done", "thrown",
                 "badfile"}
  /\ call.nodes \subseteq Node /\ call.again \in BOOLEAN /\ call.force \in BOOLEAN
  /\ call.todo \in Seq(AnyProcess) /\ call.rest \in Seq(AnyProcess)
  /\ call.nums \in [DOMAIN call.nums -> Nat] /\ IsStats(call.seen)
  /\ thread \in ThreadObject /\ jammed \in BOOLEAN
  /\ mShouldRun \in BOOLEAN /\ mInitialised \in BOOLEAN /\ mDataLoaded \in BOOLEAN
  /\ IsStats(mData)
  /\ collector \in [Collector -> [at : {"none", "entered", "init", "poll", "process",
                                        "write", "sleep"}, batch : SUBSET Report]]
  /\ calls \in Nat /\ polls \in Nat /\ faults \in Nat

\* No two entries of the node configurations are the same process, unless it
\* was pinned when one of them was made and moveable when the other was (the
\* flag was edited in between); and after a distribution every moveable process
\* of the configuration is in the share of one of its nodes.
Placed ==
  /\ \A n, m \in DOMAIN mCompConfig :
       \A i \in DOMAIN Procs(mCompConfig, n), j \in DOMAIN Procs(mCompConfig, m) :
         LET p == Procs(mCompConfig, n)[i]
             q == Procs(mCompConfig, m)[j]
         IN InternalName(p) = InternalName(q) /\ <<n, i>> # <<m, j>>
              => p.moveable # q.moveable
  /\ call.at = "done" /\ mDistributed =>
       \A p \in mComponents : p.runnable /\ p.moveable =>
         \E n \in DOMAIN mDistState : \E i \in DOMAIN Procs(mCompConfig, n) :
           Procs(mCompConfig, n)[i] = p

\* What the daemon of a node reads in its document is what the director's books
\* say it runs.
SharesRead ==
  mDistributed /\ ~InProgress =>
    \A n \in DOMAIN mDistState :
      n \in DOMAIN mCompConfig /\ Parsed(mDistState[n]) = Procs(mCompConfig, n)

\* When the weighed processes have been given out - and no report has raised a
\* weight meanwhile - no node that received one could have gone without its last
\* and still carried more than another node.
Weighed(procs) == IF call.seen = NoUsage THEN Len(procs) ELSE LoadOf(procs)
Received(n) ==
  LET procs == Procs(mCompConfig, n)
  IN procs # <<>> /\ (call.again /\ ~call.force => procs[Len(procs)].moveable)
Balanced ==
  call.at = "finish" /\ (call.seen = NoUsage \/ call.seen = mData) =>
    \A n, m \in call.nodes :
      LET procs == Procs(mCompConfig, n)
      IN Received(n) => Weighed(SubSeq(procs, 1, Len(procs) - 1))
                          <= Weighed(Procs(mCompConfig, m))

\* What the file remembers of a component, the running director knows at least:
\* so no later write of the file lowers it.
Remembered ==
  mInitialised /\ dataFile # NoFile =>
    \A c \in DOMAIN dataFile :
      /\ c \in DOMAIN mData
      /\ dataFile[c].cpu <= mData[c].cpu /\ dataFile[c].rss <= mData[c].rss

\* A distribution over some node ends, unless the statistics thread it waits for
\* could not reach the director's object, or an earlier one could not be created and
\* has left the thread object locked.
Unreachable == /\ pattern # "roundrobin" /\ ~mInitialised
               /\ \A c \in Collector : collector[c].at = "none"
CallsEnd == (InProgress /\ call.nodes # {}) ~> (~InProgress \/ Unreachable \/ jammed)
=============================================================================
