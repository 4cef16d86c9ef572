-------------------------- MODULE DistributionProofs --------------------------
(***************************************************************************)
(* Whatever statistics threads, stops, crashes and edits there are: a      *)
(* running director never knows less of a component than its data file     *)
(* remembers; what the daemons read in their documents is what the         *)
(* director's books say; every process has one place in them; and a        *)
(* distribution leaves the loads level.                                    *)
(*                                                                         *)
(* The files, the lists and the loads are built by recursive functions.    *)
(* What they compute is shown by induction over numbers, in terms of sets  *)
(* (Induction, Recursion): for each, a function that obeys its equations   *)
(* is shown to exist, and so it is the one that CHOOSE picks.              *)
(***************************************************************************)
EXTENDS Distribution, TLAPS, FiniteSetTheorems, SequenceTheorems, WellFoundedInduction

Places == {"none", "entered", "init", "poll", "process", "write", "sleep"}

CollectorState == [at : Places, batch : SUBSET Report]

\* e knows at least what d does.
Covers(e, d) ==
  \A c \in DOMAIN d :
    c \in DOMAIN e /\ d[c].cpu <= e[c].cpu /\ d[c].rss <= e[c].rss

\* A thread that has got to its loop has initialised the object.
InLoop(c) == collector[c].at \in {"poll", "process", "write", "sleep"}

StatsInv ==
  /\ dataFile = NoFile \/ IsStats(dataFile)
  /\ IsStats(mData) /\ mInitialised \in BOOLEAN
  /\ collector \in [Collector -> CollectorState]
  /\ ~mInitialised => mData = NoUsage
  /\ \A c \in Collector : InLoop(c) => mInitialised
  /\ mInitialised /\ dataFile # NoFile => Covers(mData, dataFile)

-----------------------------------------------------------------------------
(* The statistics.                                                         *)

LEMMA NothingIsStats == IsStats(NoUsage)
  BY DEF IsStats, NoUsage

LEMMA CoversSelf ==
  ASSUME NEW d, IsStats(d)
  PROVE  Covers(d, d)
<1> SUFFICES ASSUME NEW c \in DOMAIN d
             PROVE  d[c].cpu <= d[c].cpu /\ d[c].rss <= d[c].rss
  BY DEF Covers
<1>1. d[c] \in [cpu : Nat, rss : Nat]
  BY DEF IsStats
<1> QED BY <1>1

LEMMA CoversMore ==
  ASSUME NEW d, NEW e, NEW f, IsStats(d), IsStats(e), IsStats(f),
         Covers(e, d), Covers(f, e)
  PROVE  Covers(f, d)
<1> SUFFICES ASSUME NEW c \in DOMAIN d
             PROVE  c \in DOMAIN f /\ d[c].cpu <= f[c].cpu /\ d[c].rss <= f[c].rss
  BY DEF Covers
<1>1. c \in DOMAIN e /\ c \in DOMAIN f
  BY DEF Covers
<1>2. /\ d[c] \in [cpu : Nat, rss : Nat] /\ e[c] \in [cpu : Nat, rss : Nat]
      /\ f[c] \in [cpu : Nat, rss : Nat]
  BY <1>1 DEF IsStats
<1>3. /\ d[c].cpu <= e[c].cpu /\ d[c].rss <= e[c].rss
      /\ e[c].cpu <= f[c].cpu /\ e[c].rss <= f[c].rss
  BY <1>1 DEF Covers
<1> QED BY <1>1, <1>2, <1>3

\* A report only raises what is known.
LEMMA LearnRaises ==
  ASSUME IsStats(mData), NEW r \in Report
  PROVE  IsStats(Learn(r)) /\ Covers(Learn(r), mData)
<1>1. r.comp \in Comp /\ r.usage \in [cpu : Nat, rss : Nat]
  BY DistributionAssumption DEF Report
<1>2. CASE r.usage.cpu = 0 /\ r.usage.rss = 0
  BY <1>2, CoversSelf DEF Learn
<1>3. CASE ~ (r.usage.cpu = 0 /\ r.usage.rss = 0)
  <2> DEFINE of(c) ==
        IF c # r.comp THEN mData[c]
        ELSE IF c \notin DOMAIN mData THEN r.usage
        ELSE [cpu |-> Larger(mData[c].cpu, r.usage.cpu),
              rss |-> Larger(mData[c].rss, r.usage.rss)]
  <2>1. Learn(r) = [c \in DOMAIN mData \cup {r.comp} |-> of(c)]
    BY <1>3 DEF Learn
  <2>2. ASSUME NEW c \in DOMAIN mData
        PROVE  /\ of(c) \in [cpu : Nat, rss : Nat]
               /\ mData[c].cpu <= of(c).cpu /\ mData[c].rss <= of(c).rss
    <3>1. mData[c] \in [cpu : Nat, rss : Nat]
      BY DEF IsStats
    <3> QED BY <1>1, <3>1 DEF Larger
  <2>3. of(r.comp) \in [cpu : Nat, rss : Nat]
    BY <1>1, <2>2
  <2> HIDE DEF of
  <2>4. IsStats(Learn(r))
    BY <1>1, <2>1, <2>2, <2>3 DEF IsStats
  <2>5. Covers(Learn(r), mData)
    BY <2>1, <2>2 DEF Covers
  <2> QED BY <2>4, <2>5
<1> QED BY <1>2, <1>3

\* What is read from the file is added to what is known.
LEMMA FileIsAdded ==
  ASSUME IsStats(mData), dataFile = NoFile \/ IsStats(dataFile)
  PROVE  /\ IsStats(WithFile(mData))
         /\ dataFile # NoFile /\ (mData = NoUsage \/ Covers(mData, dataFile))
              => Covers(WithFile(mData), dataFile)
<1>1. CASE dataFile = NoFile
  BY <1>1 DEF WithFile
<1>2. CASE dataFile # NoFile
  <2> DEFINE of(c) == IF c \in DOMAIN mData THEN mData[c] ELSE dataFile[c]
  <2>1. WithFile(mData) = [c \in DOMAIN mData \cup DOMAIN dataFile |-> of(c)]
    BY <1>2 DEF WithFile
  <2>2. IsStats(dataFile)
    BY <1>2
  <2>3. \A c \in DOMAIN mData \cup DOMAIN dataFile : of(c) \in [cpu : Nat, rss : Nat]
    BY <2>2 DEF IsStats
  <2>4. ASSUME mData = NoUsage PROVE \A c \in DOMAIN dataFile : of(c) = dataFile[c]
    BY <2>4 DEF NoUsage
  <2>5. IsStats(WithFile(mData))
    <3> HIDE DEF of
    <3> QED BY <2>1, <2>2, <2>3 DEF IsStats
  <2>6. ASSUME mData = NoUsage PROVE Covers(WithFile(mData), dataFile)
    <3>1. WithFile(mData) = dataFile
      BY <2>1, <2>2, <2>4, <2>6 DEF NoUsage, IsStats
    <3> QED BY <2>2, <3>1, CoversSelf
  <2>7. ASSUME Covers(mData, dataFile) PROVE Covers(WithFile(mData), dataFile)
    BY <2>1, <2>7 DEF Covers
  <2> QED BY <2>5, <2>6, <2>7
<1> QED BY <1>1, <1>2

-----------------------------------------------------------------------------
(* One lemma per group of actions.                                         *)

statistics == <<dataFile, mInitialised, mData>>

\* Calls, distributions and edits do not touch the statistics, and a thread that
\* they start is not in its loop.
LEMMA CallerSteps ==
  ASSUME StatsInv, UNCHANGED statistics,
         \/ UNCHANGED collector
         \/ \E c \in Collector : collector' = [collector EXCEPT ![c].at = "entered"]
  PROVE  StatsInv'
  BY DEF StatsInv, statistics, InLoop, CollectorState, Places

\* What a crash leaves in the file is statistics.
LEMMA TornIsStats ==
  ASSUME IsStats(mData), NEW d \in Torn
  PROVE  IsStats(d)
<1>1. CASE d = NoUsage
  BY <1>1, NothingIsStats
<1>2. ASSUME NEW S \in SUBSET DOMAIN mData, NEW last \in DOMAIN mData, NEW u \in Usage,
             d = [c \in S |-> IF c = last THEN u ELSE mData[c]]
      PROVE  IsStats(d)
  <2>1. u \in [cpu : Nat, rss : Nat]
    BY DistributionAssumption
  <2> QED BY <1>2, <2>1 DEF IsStats
<1>3. d = NoUsage \/ \E S \in SUBSET DOMAIN mData, last \in DOMAIN mData, u \in Usage :
                       d = [c \in S |-> IF c = last THEN u ELSE mData[c]]
  BY DEF Torn
<1> QED BY <1>1, <1>2, <1>3

\* A new director knows nothing yet.
LEMMA RestartStep ==
  ASSUME StatsInv, Restarted
  PROVE  StatsInv'
<1>1. mInitialised' = FALSE /\ mData' = NoUsage /\ collector' = [c \in Collector |-> Gone]
  BY DEF Restarted
<1>2. dataFile' = NoFile \/ IsStats(dataFile')
  BY TornIsStats DEF Restarted, StatsInv
<1>3. Gone \in CollectorState /\ Gone.at = "none"
  BY DEF Gone, CollectorState, Places
<1> QED BY <1>1, <1>2, <1>3, NothingIsStats DEF StatsInv, InLoop

\* A statistics thread's steps.
LEMMA CollectStep ==
  ASSUME StatsInv, NEW c \in Collector, Collect(c) \/ InitialiseFails(c) \/ PollFails(c)
  PROVE  StatsInv'
<1> USE DEF StatsInv
<1>0. Gone \in CollectorState /\ Gone.at = "none"
  BY DEF Gone, CollectorState, Places
<1>1. CASE Enter(c) \/ InitialiseFails(c) \/ PollFails(c)
  <2>1. UNCHANGED statistics
    BY <1>1 DEF Enter, InitialiseFails, PollFails, statistics
  <2>2. /\ collector' \in [Collector -> CollectorState]
        /\ \A d \in Collector : InLoop(d)' => InLoop(d)
    BY <1>0, <1>1 DEF Enter, InitialiseFails, PollFails, GoesTo, Ends, InLoop,
                      CollectorState, Places
  <2> QED BY <2>1, <2>2 DEF statistics
<1>2. CASE Initialise(c)
  <2>1. mInitialised' = TRUE /\ mData' = WithFile(mData) /\ dataFile' = dataFile
    BY <1>2 DEF Initialise
  <2>2. collector' \in [Collector -> CollectorState]
    BY <1>0, <1>2 DEF Initialise, Loops, GoesTo, Ends, CollectorState, Places
  <2>3. mData = NoUsage \/ (dataFile # NoFile => Covers(mData, dataFile))
    OBVIOUS
  <2> QED BY <2>1, <2>2, <2>3, FileIsAdded
<1>3. CASE Poll(c) \/ Wake(c)
  <2>1. UNCHANGED statistics
    BY <1>3 DEF Poll, Wake, statistics
  <2>2. \A batch \in Answers : batch \in SUBSET Report
    BY DEF Answers
  <2>3. /\ collector' \in [Collector -> CollectorState]
        /\ \A d \in Collector : InLoop(d)' => d = c \/ InLoop(d)
    BY <1>0, <1>3, <2>2 DEF Poll, Wake, Loops, GoesTo, Ends, InLoop, CollectorState, Places
  <2>4. InLoop(c)
    BY <1>3 DEF Poll, Wake, InLoop
  <2> QED BY <2>1, <2>3, <2>4 DEF statistics
<1>4. CASE ProcessReport(c)
  <2>1. collector[c].batch \in SUBSET Report
    BY DEF CollectorState
  <2>2. PICK r \in collector[c].batch :
          mData' = Learn(r) /\ collector' = [collector EXCEPT ![c].batch = @ \ {r}]
    BY <1>4 DEF ProcessReport
  <2>3. IsStats(Learn(r)) /\ Covers(Learn(r), mData)
    BY <2>1, LearnRaises
  <2>4. dataFile' = dataFile /\ mInitialised' = mInitialised /\ mInitialised
    BY <1>4 DEF ProcessReport, InLoop
  <2>5. dataFile # NoFile => Covers(Learn(r), dataFile)
    BY <2>3, <2>4, CoversMore
  <2>6. collector' \in [Collector -> CollectorState]
    BY <2>1, <2>2 DEF CollectorState
  <2> QED BY <2>2, <2>3, <2>4, <2>5, <2>6
<1>5. CASE Truncate(c)
  <2>1. /\ mInitialised' = mInitialised /\ mInitialised /\ mData' = mData
        /\ dataFile' = NoUsage \/ dataFile' = dataFile
    BY <1>5 DEF Truncate, InLoop
  <2>2. collector' \in [Collector -> CollectorState]
    BY <1>5 DEF Truncate, GoesTo, CollectorState, Places
  <2>3. Covers(mData, NoUsage)
    BY DEF Covers, NoUsage
  <2> QED BY <2>1, <2>2, <2>3, NothingIsStats
<1>6. CASE Write(c)
  <2>1. mInitialised' = mInitialised /\ mInitialised /\ mData' = mData /\ dataFile' = mData
    BY <1>6 DEF Write, InLoop
  <2>2. collector' \in [Collector -> CollectorState]
    BY <1>6 DEF Write, GoesTo, CollectorState, Places
  <2> QED BY <2>1, <2>2, CoversSelf
<1> QED BY <1>1, <1>2, <1>3, <1>4, <1>5, <1>6 DEF Collect

LEMMA StatsAlways == Spec => []StatsInv
<1>1. Init => StatsInv
  <2> SUFFICES ASSUME Init PROVE StatsInv
    OBVIOUS
  <2>1. Gone \in CollectorState /\ Gone.at = "none"
    BY DEF Gone, CollectorState, Places
  <2>2. dataFile = NoFile \/ IsStats(dataFile)
    BY DistributionAssumption DEF Init
  <2> QED BY <2>1, <2>2, NothingIsStats DEF Init, StatsInv, InLoop
<1>2. ASSUME StatsInv, [Next]_vars PROVE StatsInv'
  <2>1. CASE \E nodes \in SUBSET Node, again, force \in BOOLEAN : Call(nodes, again, force)
    <3>1. UNCHANGED statistics
      BY <2>1 DEF Call, statistics
    <3>2. \/ UNCHANGED collector
          \/ \E c \in Collector : collector' = [collector EXCEPT ![c].at = "entered"]
      BY <2>1 DEF Call, FreeCollector
    <3> QED BY <1>2, <3>1, <3>2, CallerSteps
  <2>2. CASE Distribute \/ StopSystem \/ StopAll \/ StopWaits \/ EditFile \/ UNCHANGED vars
    <3>1. UNCHANGED <<statistics, collector>>
      BY <2>2 DEF Distribute, RoundRobin, Default, Prepare, Place, Finish, CallerStep,
                  StopSystem, StopAll, StopWaits, StopStatistics, EditFile, vars, statVars,
                  statistics
    <3> QED BY <1>2, <3>1, CallerSteps
  <2>3. CASE \E c \in Collector : Collect(c) \/ InitialiseFails(c) \/ PollFails(c)
    BY <1>2, <2>3, CollectStep
  <2>4. CASE Crash \/ DividesByZero \/ KillsNobody \/ ParserEnds \/ Reinitialise
    BY <1>2, <2>4, RestartStep DEF Crash, DividesByZero, KillsNobody, ParserEnds, Reinitialise
  <2> QED BY <1>2, <2>1, <2>2, <2>3, <2>4 DEF Next
<1> QED BY <1>1, <1>2, PTL DEF Spec

-----------------------------------------------------------------------------
\* For any number of statistics threads, reports, crashes and old files, what the data
\* file remembers of a component the running director knows at least: no write of
\* the file ever forgets a peak that an earlier one recorded.
THEOREM NeverForgets == Spec => []Remembered
<1>1. StatsInv => Remembered
  BY DEF StatsInv, Remembered, Covers
<1> QED BY <1>1, StatsAlways, PTL

-----------------------------------------------------------------------------
(* Induction and recursion over a range of numbers, in terms of sets.      *)

\* A set of numbers has a least one: finite sets are well-founded under inclusion, so the
\* intervals up to its members have a smallest.
LEMMA LeastNumber ==
  ASSUME NEW T \in SUBSET Nat, T # {}
  PROVE  \E n \in T : \A m \in T : n <= m
<1> DEFINE upTo == {0 .. c : c \in T}
           finite == FiniteSubsetsOf(Nat)
           smaller == StrictSubsetOrdering(Nat)
<1>1. \A c \in T : 0 .. c \in finite
  BY FS_Interval DEF FiniteSubsetsOf
<1>2. upTo \subseteq finite /\ upTo # {}
  BY <1>1
<1>3. \E x \in upTo : \A y \in upTo : ~ (<<y, x>> \in smaller)
  <2> HIDE DEF upTo, finite, smaller
  <2>1. IsWellFoundedOn(smaller, finite)
    BY FS_StrictSubsetOrderingWellFounded DEF finite, smaller
  <2> QED BY <1>2, <2>1, WFMin
<1>4. PICK n \in T : \A m \in T : <<0 .. m, 0 .. n>> \notin smaller
  BY <1>3
<1>5. ASSUME NEW m \in T, ~ (n <= m) PROVE FALSE
  <2>1. 0 .. m \subseteq 0 .. n /\ n \in 0 .. n /\ n \notin 0 .. m
    BY <1>5
  <2>2. <<0 .. m, 0 .. n>> \in smaller
    BY <2>1, <1>1 DEF StrictSubsetOrdering, FiniteSubsetsOf
  <2> QED BY <1>4, <2>2
<1> QED BY <1>5

\* Induction up to n, with the numbers of which a fact holds as a set.
LEMMA Induction ==
  ASSUME NEW n \in Nat, NEW T, 0 \in T,
         \A i \in 1..n : i - 1 \in T => i \in T
  PROVE  \A i \in 0..n : i \in T
<1> SUFFICES ASSUME NEW k \in 0..n, k \notin T PROVE FALSE
  OBVIOUS
<1> DEFINE without == {i \in 0..n : i \notin T}
<1>1. PICK i \in without : \A j \in without : i <= j
  <2>1. without \subseteq Nat /\ without # {}
    OBVIOUS
  <2> HIDE DEF without
  <2> QED BY <2>1, LeastNumber
<1>2. i # 0
  OBVIOUS
<1>3. i - 1 \in 0..n /\ i - 1 \notin without
  BY <1>1, <1>2
<1> QED BY <1>1, <1>2, <1>3

\* f goes through n steps.
Goes(f, n, S, base, step) ==
  /\ f \in [0..n -> S]
  /\ f[0] = base
  /\ \A i \in 1..n : f[i] = step[i][f[i - 1]]

\* What is defined step by step exists.
LEMMA Recursion ==
  ASSUME NEW n \in Nat, NEW S, NEW base \in S, NEW step, step \in [1..n -> [S -> S]]
  PROVE  \E f : Goes(f, n, S, base, step)
<1> DEFINE Upto(k, f) == f[0] = base /\ \A i \in 1..k : f[i] = step[i][f[i - 1]]
           defined == {k \in 0..n : \E f \in [0..k -> S] : Upto(k, f)}
<1>1. 0 \in defined
  <2>1. \E f \in [0..0 -> S] : f = [i \in 0..0 |-> base]
    OBVIOUS
  <2>2. PICK f \in [0..0 -> S] : f = [i \in 0..0 |-> base]
    BY <2>1
  <2>3. Upto(0, f)
    BY <2>2
  <2> QED BY <2>3
<1>2. ASSUME NEW k \in 1..n, k - 1 \in defined PROVE k \in defined
  <2>1. PICK f \in [0..(k - 1) -> S] : Upto(k - 1, f)
    BY <1>2
  <2> DEFINE g == [i \in 0..k |-> IF i = k THEN step[k][f[k - 1]] ELSE f[i]]
  <2>2. g \in [0..k -> S]
    BY <2>1
  <2>3. g[k] = step[k][f[k - 1]] /\ \A i \in 0..(k - 1) : g[i] = f[i]
    OBVIOUS
  <2> HIDE DEF g
  <2>4. g[0] = base
    BY <2>1, <2>3
  <2>5. ASSUME NEW i \in 1..k PROVE g[i] = step[i][g[i - 1]]
    <3>1. CASE i = k
      BY <2>3, <3>1
    <3>2. CASE i # k
      BY <2>1, <2>3, <3>2
    <3> QED BY <3>1, <3>2
  <2>6. Upto(k, g)
    BY <2>4, <2>5
  <2> HIDE DEF Upto
  <2>7. \E h \in [0..k -> S] : Upto(k, h)
    BY <2>2, <2>6
  <2> QED BY <2>7
<1>3. n \in defined
  <2> HIDE DEF defined
  <2>1. \A i \in 0..n : i \in defined
    BY <1>1, <1>2, Induction
  <2> QED BY <2>1
<1> QED BY <1>3 DEF Goes

-----------------------------------------------------------------------------
(* What a file says.                                                       *)

\* Merge as it goes: what its walk has come to after each tag.
Hit(w, t, children) == w.j <= Len(children) /\ children[w.j].tag = t
Value(w, t, defaults, children) ==
  IF Hit(w, t, children) THEN children[w.j].value ELSE defaults[t]
After(w, t, defaults, children) ==
  [values |-> [u \in DOMAIN w.values \cup {t} |->
                 IF u = t THEN Value(w, t, defaults, children) ELSE w.values[u]],
   j |-> IF Hit(w, t, children) THEN w.j + 1 ELSE w.j]
Start == [values |-> [t \in {} |-> 0], j |-> 1]

Walks(walk, defaults, children) ==
  walk = [i \in 0..Len(Tags) |->
            IF i = 0 THEN Start ELSE After(walk[i - 1], Tags[i], defaults, children)]
Walk(defaults, children) == CHOOSE walk : Walks(walk, defaults, children)

\* Merge is where its walk has come to after the last tag, ...
LEMMA MergeWalks ==
  ASSUME NEW defaults, NEW children
  PROVE  Merge(defaults, children) = Walk(defaults, children)[Len(Tags)].values
BY DEF Merge, Walk, Walks, After, Value, Hit, Start

\* ... and the walk exists.
LEMMA WalkGoes ==
  ASSUME NEW defaults, NEW children
  PROVE  Walks(Walk(defaults, children), defaults, children)
<1> DEFINE a1 == After(Start, Tags[1], defaults, children)
           a2 == After(a1, Tags[2], defaults, children)
           a3 == After(a2, Tags[3], defaults, children)
           a4 == After(a3, Tags[4], defaults, children)
           f == [i \in 0..4 |-> IF i = 0 THEN Start ELSE IF i = 1 THEN a1
                                ELSE IF i = 2 THEN a2 ELSE IF i = 3 THEN a3 ELSE a4]
<1>1. Len(Tags) = 4
  BY DEF Tags
<1>2. f[0] = Start /\ f[1] = a1 /\ f[2] = a2 /\ f[3] = a3 /\ f[4] = a4
  OBVIOUS
<1>3. /\ f[1] = After(f[0], Tags[1], defaults, children)
      /\ f[2] = After(f[1], Tags[2], defaults, children)
      /\ f[3] = After(f[2], Tags[3], defaults, children)
      /\ f[4] = After(f[3], Tags[4], defaults, children)
  BY <1>2
<1>4. f = [i \in 0..4 |-> f[i]]
  OBVIOUS
<1>5. \A i \in 0..4 : f[i] = IF i = 0 THEN Start
                             ELSE After(f[i - 1], Tags[i], defaults, children)
  <2> HIDE DEF f
  <2> QED BY <1>2, <1>3
<1> HIDE DEF f
<1>6. Walks(f, defaults, children)
  BY <1>1, <1>4, <1>5 DEF Walks
<1> QED BY <1>6 DEF Walk

\* The number of instances is the converted one of the file.
LEMMA InstancesNumber ==
  ASSUME NEW defaults, NEW children, defaults["instances"] \in Int, Len(children) \in Nat,
         \A j \in 1..Len(children) :
           children[j].tag = "instances" => children[j].value \in Int
  PROVE  Merge(defaults, children)["instances"] \in Int
<1> DEFINE w == Walk(defaults, children)
           Good(v) == "instances" \in DOMAIN v.values /\ v.values["instances"] \in Int
<1>1. /\ w[0] = Start
      /\ w[1] = After(w[0], Tags[1], defaults, children)
      /\ w[2] = After(w[1], Tags[2], defaults, children)
      /\ w[3] = After(w[2], Tags[3], defaults, children)
      /\ w[4] = After(w[3], Tags[4], defaults, children)
  <2>1. Len(Tags) = 4
    BY DEF Tags
  <2>2. w = [i \in 0..4 |-> IF i = 0 THEN Start
                            ELSE After(w[i - 1], Tags[i], defaults, children)]
    BY <2>1, WalkGoes DEF Walks
  <2> HIDE DEF w
  <2> QED BY <2>2
<1>2. /\ Tags[1] = "instances" /\ Tags[2] # "instances"
      /\ Tags[3] # "instances" /\ Tags[4] # "instances" /\ Len(Tags) = 4
  BY DEF Tags
<1> HIDE DEF w
<1>3. Good(w[1])
  <2>1. Value(Start, "instances", defaults, children) \in Int
    BY DEF Value, Hit, Start
  <2>2. ASSUME NEW v PROVE
          LET a == After(v, "instances", defaults, children)
          IN /\ "instances" \in DOMAIN a.values
             /\ a.values["instances"] = Value(v, "instances", defaults, children)
    BY DEF After
  <2> QED BY <1>1, <1>2, <2>1, <2>2
<1>4. ASSUME NEW v, Good(v), NEW t, t # "instances"
      PROVE  Good(After(v, t, defaults, children))
  BY <1>4 DEF After
<1>5. Good(w[4])
  <2> HIDE DEF Good
  <2> QED BY <1>1, <1>2, <1>3, <1>4
<1> QED BY <1>2, <1>5, MergeWalks DEF w

\* What is written of a process in the document of a node is read back as it was.
Readable(p) ==
  /\ p.runnable \in BOOLEAN /\ p.moveable \in BOOLEAN
  /\ Parsed(<<Element(p)>>)[1] = p

Ranked(p) == p.compName \in Int /\ p.sysInstance \in Int

\* What build() makes of a component has a name that compares, and is read as written.
LEMMA BuiltProcesses ==
  ASSUME NEW f \in Files, NEW i \in 1..Len(f.components),
         NEW p \in Build(f.components[i], f.defaults)
  PROVE  Ranked(p) /\ Readable(p) /\ p.compName = f.components[i].name
<1> DEFINE e == f.components[i]
           values == Merge(f.defaults, e.children)
<1>1. /\ e.name \in Nat /\ e.runnable \in BOOLEAN /\ e.moveable \in BOOLEAN
  BY FilesAssumption DEF IsFile
<1>2. PICK k \in 1..values["instances"] : p = Process(e, values, k - 1)
  BY DEF Build
<1> HIDE DEF e, values
<1>3. /\ p = [compName |-> e.name, sysInstance |-> k - 1, runnable |-> e.runnable,
              moveable |-> e.moveable, retryMax |-> values["retry_max"],
              retryWindow |-> values["retry_window"], runType |-> RunType(values["run_type"])]
      /\ k - 1 \in Int
  BY <1>2 DEF Process
<1>4. RunType(RunType(values["run_type"])) = RunType(values["run_type"])
  BY DEF RunType
<1>5. Readable(p)
  <2>1. p.runnable \in BOOLEAN /\ p.moveable \in BOOLEAN
    BY <1>1, <1>3
  <2>2. Parsed(<<Element(p)>>)[1] =
          [compName |-> p.compName, sysInstance |-> p.sysInstance,
           runnable |-> Element(p).runnable = "1", moveable |-> Element(p).moveable = "1",
           retryMax |-> p.retryMax, retryWindow |-> p.retryWindow,
           runType |-> RunType(p.runType)]
    BY DEF Parsed, Element
  <2>3. (Element(p).runnable = "1") = p.runnable /\ (Element(p).moveable = "1") = p.moveable
    BY <2>1 DEF Element
  <2>4. RunType(p.runType) = p.runType
    BY <1>3, <1>4
  <2> QED BY <1>3, <2>1, <2>2, <2>3, <2>4 DEF Readable
<1> QED BY <1>1, <1>3, <1>5 DEF Ranked, e

\* What a file loads is finite, and each name is one process's unless load() throws.
LEMMA LoadedProcesses ==
  ASSUME NEW f \in Files
  PROVE  /\ IsFiniteSet(Loaded(f))
         /\ \A p \in Loaded(f) : Ranked(p) /\ Readable(p)
         /\ ~ Duplicates(f) =>
              \A p, q \in Loaded(f) : InternalName(p) = InternalName(q) => p = q
<1> DEFINE built(i) == Build(f.components[i], f.defaults)
           files == 1..Len(f.components)
<1>1. \A p \in Loaded(f) : \E i \in files : p \in built(i)
  BY DEF Loaded
<1>2. IsFiniteSet(Loaded(f))
  <2>1. ASSUME NEW i \in files PROVE IsFiniteSet(built(i))
    <3> DEFINE e == f.components[i]
               values == Merge(f.defaults, e.children)
               made == [k \in 1..values["instances"] |-> Process(e, values, k - 1)]
    <3>1. values["instances"] \in Int
      BY FilesAssumption, InstancesNumber DEF IsFile
    <3>2. IsFiniteSet(1..values["instances"])
      BY <3>1, FS_Interval
    <3>3. built(i) = {made[k] : k \in 1..values["instances"]}
      BY DEF Build
    <3>4. made \in Surjection(1..values["instances"], built(i))
      BY <3>3 DEF Surjection
    <3> QED BY <3>2, <3>4, FS_Surjection
  <2>2. IsFiniteSet(files)
    BY FS_Interval, FilesAssumption DEF IsFile
  <2> DEFINE sets == {built(i) : i \in files}
             all == [i \in files |-> built(i)]
  <2>3. all \in Surjection(files, sets)
    BY DEF Surjection
  <2>4. IsFiniteSet(sets)
    <3> HIDE DEF sets, all, files, built
    <3> QED BY <2>2, <2>3, FS_Surjection
  <2>5. \A T \in sets : IsFiniteSet(T)
    BY <2>1
  <2>6. Loaded(f) = UNION sets
    BY DEF Loaded
  <2> HIDE DEF sets
  <2> QED BY <2>4, <2>5, <2>6, FS_UNION
<1>3. \A p \in Loaded(f) : Ranked(p) /\ Readable(p)
  BY <1>1, BuiltProcesses
<1>4. ASSUME ~ Duplicates(f), NEW p \in Loaded(f), NEW q \in Loaded(f),
             InternalName(p) = InternalName(q)
      PROVE  p = q
  <2>1. PICK i \in files : p \in built(i)
    BY <1>1
  <2>2. PICK j \in files : q \in built(j)
    BY <1>1
  <2>3. i = j
    BY <1>4, <2>1, <2>2 DEF Duplicates
  <2> DEFINE e == f.components[i]
             values == Merge(f.defaults, e.children)
  <2>4. PICK k \in 1..values["instances"] : p = Process(e, values, k - 1)
    BY <2>1 DEF Build
  <2>5. PICK l \in 1..values["instances"] : q = Process(e, values, l - 1)
    BY <2>2, <2>3 DEF Build
  <2> HIDE DEF e, values
  <2>6. p.sysInstance = k - 1 /\ q.sysInstance = l - 1
    BY <2>4, <2>5 DEF Process
  <2>7. p.sysInstance = q.sysInstance
    BY <1>4 DEF InternalName
  <2> QED BY <2>4, <2>5, <2>6, <2>7
<1> QED BY <1>2, <1>3, <1>4

-----------------------------------------------------------------------------
(* Lists.                                                                  *)

\* Where the ranks of finitely many things differ, every rank is somebody's.
LEMMA EveryRank ==
  ASSUME NEW S, IsFiniteSet(S), NEW rank \in [S -> 0..(Cardinality(S) - 1)],
         \A x, y \in S : rank[x] = rank[y] => x = y,
         NEW k \in 0..(Cardinality(S) - 1)
  PROVE  \E x \in S : rank[x] = k
<1> SUFFICES ASSUME \A x \in S : rank[x] # k PROVE FALSE
  OBVIOUS
<1> DEFINE ranks == 0..(Cardinality(S) - 1)
           others == ranks \ {k}
<1>1. Cardinality(S) \in Nat
  BY FS_CardinalityType
<1>2. IsFiniteSet(ranks) /\ Cardinality(ranks) = Cardinality(S)
  BY <1>1, FS_Interval
<1>3. IsFiniteSet(others) /\ Cardinality(others) = Cardinality(S) - 1
  BY <1>2, FS_RemoveElement
<1>4. rank \in [S -> others]
  OBVIOUS
<1> HIDE DEF others
<1> QED BY <1>1, <1>3, <1>4, FS_PigeonHole

Rank(S, less) == [x \in S |-> Cardinality({y \in S : <<y, x>> \in less})]

\* The ranks of a set whose elements are in a strict order.
LEMMA RanksDiffer ==
  ASSUME NEW S, IsFiniteSet(S), NEW less,
         \A x \in S : <<x, x>> \notin less,
         \A x, y, z \in S : <<x, y>> \in less /\ <<y, z>> \in less => <<x, z>> \in less,
         \A x, y \in S : x = y \/ <<x, y>> \in less \/ <<y, x>> \in less
  PROVE  /\ Rank(S, less) \in [S -> 0..(Cardinality(S) - 1)]
         /\ \A x, y \in S : Rank(S, less)[x] = Rank(S, less)[y] => x = y
<1> DEFINE below(x) == {y \in S : <<y, x>> \in less}
<1>1. ASSUME NEW x \in S
      PROVE  IsFiniteSet(below(x)) /\ Cardinality(below(x)) \in 0..(Cardinality(S) - 1)
  <2>1. below(x) \subseteq S \ {x}
    OBVIOUS
  <2>2. IsFiniteSet(S \ {x}) /\ Cardinality(S \ {x}) = Cardinality(S) - 1
    BY FS_RemoveElement
  <2> HIDE DEF below
  <2>3. IsFiniteSet(below(x)) /\ Cardinality(below(x)) <= Cardinality(S) - 1
    BY <2>1, <2>2, FS_Subset
  <2>4. Cardinality(below(x)) \in Nat /\ Cardinality(S) \in Nat
    BY <2>3, FS_CardinalityType
  <2> QED BY <2>3, <2>4
<1>2. ASSUME NEW x \in S, NEW y \in S, <<x, y>> \in less
      PROVE  Cardinality(below(x)) # Cardinality(below(y))
  <2>1. below(x) \subseteq below(y) /\ x \in below(y) /\ x \notin below(x)
    BY <1>2
  <2> HIDE DEF below
  <2> QED BY <1>1, <2>1, FS_Subset
<1>3. Rank(S, less) = [x \in S |-> Cardinality(below(x))]
  BY DEF Rank
<1> HIDE DEF below
<1>4. \A x, y \in S : Cardinality(below(x)) = Cardinality(below(y)) => x = y
  BY <1>2
<1> QED BY <1>1, <1>3, <1>4

\* Ranks go up with the order.
LEMMA RanksAscend ==
  ASSUME NEW S, IsFiniteSet(S), NEW less,
         \A x \in S : <<x, x>> \notin less,
         \A x, y, z \in S : <<x, y>> \in less /\ <<y, z>> \in less => <<x, z>> \in less
  PROVE  \A x, y \in S : <<x, y>> \in less => Rank(S, less)[x] < Rank(S, less)[y]
<1> DEFINE below(x) == {y \in S : <<y, x>> \in less}
<1> SUFFICES ASSUME NEW x \in S, NEW y \in S, <<x, y>> \in less
             PROVE  Cardinality(below(x)) < Cardinality(below(y))
  BY DEF Rank
<1>1. below(x) \subseteq below(y) /\ x \in below(y) /\ x \notin below(x)
  OBVIOUS
<1>2. below(y) \subseteq S
  OBVIOUS
<1> HIDE DEF below
<1>3. IsFiniteSet(below(x)) /\ IsFiniteSet(below(y))
  BY <1>1, <1>2, FS_Subset
<1>4. Cardinality(below(x)) \in Nat /\ Cardinality(below(y)) \in Nat
  BY <1>3, FS_CardinalityType
<1>5. /\ Cardinality(below(x)) <= Cardinality(below(y))
      /\ Cardinality(below(x)) # Cardinality(below(y))
  BY <1>1, <1>3, FS_Subset
<1> QED BY <1>4, <1>5

\* A list of processes by name has each of them once, ...
LEMMA ListedOnce ==
  ASSUME NEW S, IsFiniteSet(S), \A p \in S : Ranked(p),
         \A p, q \in S : InternalName(p) = InternalName(q) => p = q
  PROVE  /\ InOrder(S) \in Seq(S) /\ Len(InOrder(S)) = Cardinality(S)
         /\ \A i, j \in 1..Cardinality(S) : InOrder(S)[i] = InOrder(S)[j] => i = j
         /\ \A p \in S : \E i \in 1..Cardinality(S) : InOrder(S)[i] = p
<1> DEFINE less == {u \in S \X S : Precedes(u[1], u[2])}
           rank == Rank(S, less)
           at(i) == CHOOSE p \in S : rank[p] = i - 1
<1>0. Cardinality(S) \in Nat
  BY FS_CardinalityType
<1>1. \A p, q \in S : <<p, q>> \in less <=> Precedes(p, q)
  OBVIOUS
<1>2. \A p, q \in S : p = q \/ Precedes(p, q) \/ Precedes(q, p)
  BY DEF Precedes, Ranked, InternalName
<1>3. \A p, q, r \in S : Precedes(p, q) /\ Precedes(q, r) => Precedes(p, r)
  BY DEF Precedes, Ranked
<1>4. \A p \in S : ~ Precedes(p, p)
  BY DEF Precedes, Ranked
<1>5. /\ rank \in [S -> 0..(Cardinality(S) - 1)]
      /\ \A p, q \in S : rank[p] = rank[q] => p = q
  <2>1. /\ \A p \in S : <<p, p>> \notin less
        /\ \A p, q, r \in S : <<p, q>> \in less /\ <<q, r>> \in less => <<p, r>> \in less
        /\ \A p, q \in S : p = q \/ <<p, q>> \in less \/ <<q, p>> \in less
    <3> HIDE DEF less
    <3> QED BY <1>1, <1>2, <1>3, <1>4
  <2> HIDE DEF less
  <2> QED BY <2>1, RanksDiffer
<1>6. \A p \in S : rank[p] = Cardinality({q \in S : Precedes(q, p)})
  <2> SUFFICES ASSUME NEW p \in S PROVE rank[p] = Cardinality({q \in S : Precedes(q, p)})
    OBVIOUS
  <2>1. {q \in S : <<q, p>> \in less} = {q \in S : Precedes(q, p)}
    BY <1>1
  <2> QED BY <2>1 DEF Rank
<1>7. \A i \in 1..Cardinality(S) :
        InOrder(S)[i] = CHOOSE p \in S : Cardinality({q \in S : Precedes(q, p)}) = i - 1
  BY DEF InOrder
<1> HIDE DEF rank, less
<1>8. \A i \in 1..Cardinality(S) : \E p \in S : rank[p] = i - 1
  <2> SUFFICES ASSUME NEW i \in 1..Cardinality(S) PROVE \E p \in S : rank[p] = i - 1
    OBVIOUS
  <2>1. i - 1 \in 0..(Cardinality(S) - 1)
    BY <1>0
  <2> QED BY <1>5, <2>1, EveryRank
<1>9. \A i \in 1..Cardinality(S) : InOrder(S)[i] \in S /\ rank[InOrder(S)[i]] = i - 1
  BY <1>6, <1>7, <1>8
<1>10. InOrder(S) \in [1..Cardinality(S) -> S]
  BY <1>9 DEF InOrder
<1>11. InOrder(S) \in Seq(S) /\ Len(InOrder(S)) = Cardinality(S)
  BY <1>0, <1>10, IsASeq, LenProperties
<1>12. \A i, j \in 1..Cardinality(S) : InOrder(S)[i] = InOrder(S)[j] => i = j
  BY <1>0, <1>9
<1>13. ASSUME NEW p \in S PROVE \E i \in 1..Cardinality(S) : InOrder(S)[i] = p
  <2>1. rank[p] + 1 \in 1..Cardinality(S) /\ (rank[p] + 1) - 1 = rank[p]
    BY <1>0, <1>5
  <2> QED BY <1>5, <1>9, <2>1
<1> QED BY <1>11, <1>12, <1>13

\* Chosen as it goes.
Chooses(f, s, I) ==
  f = [n \in 0..Len(s) |->
         IF n = 0 THEN <<>>
         ELSE IF n \in I THEN Append(f[n - 1], s[n]) ELSE f[n - 1]]
Choices(s, I) == CHOOSE f : Chooses(f, s, I)

\* Choosing goes over the list from its first to its last.
LEMMA ChoiceGoes ==
  ASSUME NEW X, NEW s \in Seq(X), NEW I
  PROVE  /\ Chosen(s, I) = Choices(s, I)[Len(s)]
         /\ Chooses(Choices(s, I), s, I)
<1>1. Chosen(s, I) = Choices(s, I)[Len(s)]
  BY DEF Chosen, Choices, Chooses
<1> DEFINE n == Len(s)
           step == [i \in 1..n |-> [c \in Seq(X) |-> IF i \in I THEN Append(c, s[i]) ELSE c]]
<1>2. n \in Nat /\ <<>> \in Seq(X) /\ \A i \in 1..n : s[i] \in X
  OBVIOUS
<1>3. step \in [1..n -> [Seq(X) -> Seq(X)]]
  BY <1>2
<1>4. PICK f : Goes(f, n, Seq(X), <<>>, step)
  <2> HIDE DEF step, n
  <2> QED BY <1>2, <1>3, Recursion
<1>5. \A i \in 1..n : step[i][f[i - 1]] = IF i \in I THEN Append(f[i - 1], s[i]) ELSE f[i - 1]
  BY <1>2, <1>4 DEF Goes
<1>6. Chooses(f, s, I)
  <2> HIDE DEF step
  <2>1. \A i \in 0..n : i = 0 \/ i \in 1..n
    BY <1>2
  <2>2. \A i \in 0..n : f[i] = IF i = 0 THEN <<>>
                              ELSE IF i \in I THEN Append(f[i - 1], s[i]) ELSE f[i - 1]
    BY <1>4, <1>5, <2>1 DEF Goes
  <2>3. f = [i \in 0..n |-> f[i]]
    BY <1>4 DEF Goes
  <2> QED BY <2>2, <2>3 DEF Chooses
<1>7. Chooses(Choices(s, I), s, I)
  BY <1>6 DEF Choices
<1> QED BY <1>1, <1>7

\* at tells of each choice where it was.
Whence(at, c, s, I, n) ==
  /\ at \in [1..Len(c) -> {i \in 1..n : i \in I}]
  /\ \A k \in 1..Len(c) : c[k] = s[at[k]]
  /\ \A k, l \in 1..Len(c) : at[k] = at[l] => k = l
  /\ \A i \in 1..n : i \in I => \E k \in 1..Len(c) : at[k] = i

\* What is chosen is the list's, each at a place of its own, and all of it.
LEMMA ChosenOnes ==
  ASSUME NEW X, NEW s \in Seq(X), NEW I
  PROVE  /\ Chosen(s, I) \in Seq(X)
         /\ \E at : Whence(at, Chosen(s, I), s, I, Len(s))
<1> DEFINE f == Choices(s, I)
           good == {n \in 0..Len(s) : /\ f[n] \in Seq(X)
                                      /\ \E at : Whence(at, f[n], s, I, n)}
<1>1. Len(s) \in Nat
  OBVIOUS
<1>2. /\ f[0] = <<>>
      /\ \A n \in 1..Len(s) : f[n] = IF n \in I THEN Append(f[n - 1], s[n]) ELSE f[n - 1]
  <2>1. Chooses(f, s, I)
    BY ChoiceGoes
  <2> HIDE DEF f
  <2>2. f = [n \in 0..Len(s) |->
               IF n = 0 THEN <<>>
               ELSE IF n \in I THEN Append(f[n - 1], s[n]) ELSE f[n - 1]]
    BY <2>1 DEF Chooses
  <2>3. 0 \in 0..Len(s) /\ \A n \in 1..Len(s) : n \in 0..Len(s) /\ n # 0
    BY <1>1
  <2> QED BY <2>2, <2>3
<1> HIDE DEF f
<1>3. 0 \in good
  <2>1. f[0] \in Seq(X) /\ Len(f[0]) = 0
    BY <1>2
  <2>2. Whence(<<>>, f[0], s, I, 0)
    BY <2>1 DEF Whence
  <2> QED BY <1>1, <2>1, <2>2
<1>4. ASSUME NEW n \in 1..Len(s), n - 1 \in good PROVE n \in good
  <2> DEFINE c == f[n - 1]
  <2>1. c \in Seq(X) /\ s[n] \in X
    BY <1>4
  <2>2. PICK at : Whence(at, c, s, I, n - 1)
    BY <1>4
  <2> HIDE DEF c
  <2>3. CASE n \in I
    <3> DEFINE d == Append(c, s[n])
               more == [k \in 1..(Len(c) + 1) |-> IF k = Len(c) + 1 THEN n ELSE at[k]]
    <3>1. /\ d \in Seq(X) /\ Len(d) = Len(c) + 1 /\ Len(c) \in Nat
          /\ d[Len(c) + 1] = s[n] /\ \A k \in 1..Len(c) : d[k] = c[k]
      BY <2>1
    <3>2. more[Len(c) + 1] = n /\ \A k \in 1..Len(c) : more[k] = at[k]
      BY <3>1
    <3>3. \A k \in 1..Len(c) : at[k] \in 1..(n - 1) /\ at[k] \in I /\ c[k] = s[at[k]]
      BY <2>2 DEF Whence
    <3>4. \A k \in 1..Len(d) : k = Len(c) + 1 \/ k \in 1..Len(c)
      BY <3>1
    <3>5. more \in [1..Len(d) -> {i \in 1..n : i \in I}]
      BY <2>3, <3>1, <3>3
    <3> HIDE DEF d, more
    <3>6. \A k \in 1..Len(d) : d[k] = s[more[k]]
      BY <3>1, <3>2, <3>3, <3>4
    <3>7. \A k, l \in 1..Len(d) : more[k] = more[l] => k = l
      <4>1. \A k, l \in 1..Len(c) : at[k] = at[l] => k = l
        BY <2>2 DEF Whence
      <4>2. \A k \in 1..Len(c) : at[k] # n
        BY <3>3
      <4> QED BY <3>2, <3>4, <4>1, <4>2
    <3>8. ASSUME NEW i \in 1..n, i \in I PROVE \E k \in 1..Len(d) : more[k] = i
      <4>1. CASE i = n
        <5>1. Len(c) + 1 \in 1..Len(d)
          BY <3>1
        <5> QED BY <3>2, <4>1, <5>1
      <4>2. CASE i # n
        <5>1. PICK k \in 1..Len(c) : at[k] = i
          BY <2>2, <3>8, <4>2 DEF Whence
        <5>2. k \in 1..Len(d)
          BY <3>1
        <5> QED BY <3>2, <5>1, <5>2
      <4> QED BY <4>1, <4>2
    <3>9. Whence(more, d, s, I, n)
      BY <3>5, <3>6, <3>7, <3>8 DEF Whence
    <3>10. f[n] = d
      BY <1>2, <2>3 DEF d, c
    <3> QED BY <3>1, <3>9, <3>10
  <2>4. CASE n \notin I
    <3>1. f[n] = c
      BY <1>2, <2>4 DEF c
    <3>2. \A i \in 1..n : i \in I => i \in 1..(n - 1)
      BY <2>4
    <3>3. {i \in 1..(n - 1) : i \in I} = {i \in 1..n : i \in I}
      BY <3>2
    <3>4. Whence(at, c, s, I, n)
      BY <2>2, <3>2, <3>3 DEF Whence
    <3> QED BY <2>1, <3>1, <3>4
  <2> QED BY <2>3, <2>4
<1>5. Len(s) \in good
  <2> HIDE DEF good
  <2>1. \A i \in 0..Len(s) : i \in good
    BY <1>1, <1>3, <1>4, Induction
  <2> QED BY <1>1, <2>1
<1> QED BY <1>5, ChoiceGoes DEF f

-----------------------------------------------------------------------------
(* The node configurations.                                                *)

\* The configuration of a node as it is written: the processes, and an element
\* for each.
Elements(procs) == [i \in DOMAIN procs |-> Element(procs[i])]
Written(procs) == [mProcs |-> procs, doc |-> Elements(procs)]
Config == {Written(procs) : procs \in Seq(AnyProcess)}

\* Every process of every file is read back as it is written.
LEMMA AnyIsReadable == \A p \in AnyProcess : Readable(p)
BY LoadedProcesses DEF AnyProcess, Processes

\* Of a configuration of a node the document is the processes', written.
LEMMA ConfigShape ==
  ASSUME NEW c \in Config
  PROVE  c.mProcs \in Seq(AnyProcess) /\ c = Written(c.mProcs) /\ c.doc \in Documented
<1>1. PICK procs \in Seq(AnyProcess) : c = Written(procs)
  BY DEF Config
<1>2. c.mProcs = procs /\ c.doc = Elements(procs)
  BY <1>1 DEF Written
<1>3. Elements(procs) \in Documented
  BY IsASeq DEF Elements, Documented
<1> QED BY <1>1, <1>2, <1>3

\* The empty configuration is one, ...
LEMMA EmptyIsConfig == EmptyConfig \in Config
<1>1. <<>> \in Seq(AnyProcess) /\ Elements(<<>>) = <<>>
  BY DEF Elements
<1>2. EmptyConfig = Written(<<>>)
  BY <1>1 DEF EmptyConfig, NewDocument, Written
<1> QED BY <1>1, <1>2 DEF Config

\* ... it is one still with a process more, ...
LEMMA AddedIsConfig ==
  ASSUME NEW c \in Config, NEW p \in AnyProcess
  PROVE  AddProcess(c, p) \in Config /\ AddProcess(c, p).mProcs = Append(c.mProcs, p)
<1> DEFINE procs == c.mProcs
           more == Append(procs, p)
<1>1. procs \in Seq(AnyProcess) /\ c.doc = Elements(procs)
  BY ConfigShape DEF Written
<1>2. more \in Seq(AnyProcess)
  BY <1>1
<1>3. Append(Elements(procs), Element(p)) = Elements(more)
  <2>1. Elements(procs) \in Seq({Element(q) : q \in AnyProcess})
    BY <1>1, IsASeq DEF Elements
  <2>2. Len(Elements(procs)) = Len(procs)
    BY <1>1, <2>1, LenProperties DEF Elements
  <2>3. Append(Elements(procs), Element(p)) \in Seq({Element(q) : q \in AnyProcess})
    BY <2>1
  <2>4. Elements(more) \in Seq({Element(q) : q \in AnyProcess})
    BY <1>2, IsASeq DEF Elements
  <2>5. Len(Elements(more)) = Len(procs) + 1
    BY <1>1, <1>2, <2>4, LenProperties, AppendProperties DEF Elements
  <2>6. Len(Append(Elements(procs), Element(p))) = Len(procs) + 1
    BY <2>1, <2>2
  <2>7. ASSUME NEW i \in 1..(Len(procs) + 1)
        PROVE  Append(Elements(procs), Element(p))[i] = Elements(more)[i]
    <3>1. Elements(more)[i] = Element(more[i])
      BY <1>1, <1>2 DEF Elements
    <3>2. CASE i = Len(procs) + 1
      BY <1>1, <2>1, <2>2, <3>1, <3>2
    <3>3. CASE i # Len(procs) + 1
      <4>1. i \in 1..Len(procs)
        BY <1>1, <3>3
      <4>2. Elements(procs)[i] = Element(procs[i]) /\ more[i] = procs[i]
        BY <1>1, <4>1 DEF Elements
      <4> QED BY <2>1, <2>2, <3>1, <4>1, <4>2
    <3> QED BY <3>2, <3>3
  <2> QED BY <2>3, <2>4, <2>5, <2>6, <2>7, SeqEqual
<1>4. AddProcess(c, p) = Written(more)
  BY <1>1, <1>3 DEF AddProcess, AddChild, Written
<1>5. AddProcess(c, p).mProcs = more
  BY DEF AddProcess
<1> HIDE DEF more
<1>6. Written(more) \in Config
  BY <1>2 DEF Config
<1> QED BY <1>4, <1>5, <1>6 DEF more

\* ... and with the moveable processes gone.
LEMMA KeptIsConfig ==
  ASSUME NEW c \in Config
  PROVE  RemoveMoveable(c) \in Config /\ RemoveMoveable(c).mProcs = Kept(c)
<1>1. Kept(c) \in Seq(AnyProcess)
  BY ConfigShape, ChosenOnes DEF Kept
<1>2. RemoveAllElements(c.doc) = <<>>
  <2>1. c.doc \in Documented
    BY ConfigShape
  <2>2. /\ Chosen(c.doc, {}) \in Documented
        /\ \E at : Whence(at, Chosen(c.doc, {}), c.doc, {}, Len(c.doc))
    BY <2>1, ChosenOnes DEF Documented
  <2> DEFINE d == Chosen(c.doc, {})
  <2>3. PICK at : at \in [1..Len(d) -> {i \in 1..Len(c.doc) : i \in {}}]
    BY <2>2 DEF Whence
  <2>4. 1..Len(d) = {}
    BY <2>3
  <2> HIDE DEF d
  <2>5. d \in Documented /\ Len(d) \in Nat
    BY <2>2 DEF d, Documented
  <2>6. d = <<>>
    <3>1. Len(d) = 0
      BY <2>4, <2>5
    <3> QED BY <2>5, <3>1, EmptySeq DEF Documented
  <2> QED BY <2>6 DEF d, RemoveAllElements
<1>3. Elements(Kept(c)) \in Documented
  BY <1>1, IsASeq DEF Elements, Documented
<1>4. <<>> \o Elements(Kept(c)) = Elements(Kept(c))
  BY <1>3, ConcatEmptySeq DEF Documented
<1>5. RemoveMoveable(c) = Written(Kept(c))
  BY <1>2, <1>4 DEF RemoveMoveable, Written, Elements
<1> QED BY <1>1, <1>5 DEF Config, Written

\* What the daemon reads is what the director has written.
LEMMA ReadBack ==
  ASSUME NEW c \in Config
  PROVE  Parsed(c.doc) = c.mProcs
<1> DEFINE procs == c.mProcs
<1>1. procs \in Seq(AnyProcess) /\ c.doc = Elements(procs)
  BY ConfigShape DEF Written
<1>2. ASSUME NEW i \in DOMAIN procs PROVE Parsed(Elements(procs))[i] = procs[i]
  <2>1. Parsed(Elements(procs))[i] = Parsed(<<Element(procs[i])>>)[1]
    BY DEF Parsed, Elements
  <2>2. procs[i] \in AnyProcess
    BY <1>1
  <2> QED BY <2>1, <2>2, AnyIsReadable DEF Readable
<1>3. DOMAIN Parsed(Elements(procs)) = DOMAIN procs
  BY DEF Parsed, Elements
<1>4. Parsed(Elements(procs)) = [i \in DOMAIN procs |-> Parsed(Elements(procs))[i]]
  BY <1>3 DEF Parsed
<1>5. procs = [i \in DOMAIN procs |-> procs[i]]
  BY <1>1
<1> HIDE DEF procs
<1>6. Parsed(Elements(procs)) = procs
  BY <1>2, <1>4, <1>5
<1> QED BY <1>1, <1>6 DEF procs

-----------------------------------------------------------------------------
(* Adding to the node configurations.                                      *)

\* Adding a process changes one node's share.
LEMMA AddToBooks ==
  ASSUME NEW D, NEW configs \in [D -> Config], NEW n, NEW p \in AnyProcess
  PROVE  /\ AddTo(configs, n, p) \in [D -> Config]
         /\ \A m \in D : Procs(AddTo(configs, n, p), m) =
              IF m = n THEN Append(Procs(configs, m), p) ELSE Procs(configs, m)
<1>1. CASE n \in D
  <2>1. AddProcess(configs[n], p) \in Config
    BY <1>1, AddedIsConfig
  <2>2. AddTo(configs, n, p) = [configs EXCEPT ![n] = AddProcess(configs[n], p)]
    BY DEF AddTo
  <2>3. AddProcess(configs[n], p).mProcs = Append(configs[n].mProcs, p)
    BY <1>1, AddedIsConfig
  <2> QED BY <1>1, <2>1, <2>2, <2>3 DEF Procs
<1>2. CASE n \notin D
  <2>1. AddTo(configs, n, p) = configs
    BY <1>2 DEF AddTo
  <2> QED BY <1>2, <2>1 DEF Procs
<1> QED BY <1>1, <1>2

\* AddAll as it goes.
Adds(f, configs, list, to) ==
  f = [i \in 0..Len(list) |->
         IF i = 0 THEN configs ELSE AddTo(f[i - 1], to[i], list[i])]
Added(configs, list, to) == CHOOSE f : Adds(f, configs, list, to)

\* Adding a list goes over it from its first to its last, ...
LEMMA AddAllGoes ==
  ASSUME NEW D, NEW configs \in [D -> Config], NEW list \in Seq(AnyProcess), NEW to
  PROVE  LET f == Added(configs, list, to)
         IN /\ AddAll(configs, list, to) = f[Len(list)]
            /\ f[0] = configs
            /\ \A i \in 1..Len(list) : f[i] = AddTo(f[i - 1], to[i], list[i])
            /\ \A i \in 0..Len(list) : f[i] \in [D -> Config]
<1>1. AddAll(configs, list, to) = Added(configs, list, to)[Len(list)]
  BY DEF AddAll, Added, Adds
<1> DEFINE n == Len(list)
           S == [D -> Config]
           step == [i \in 1..n |-> [c \in S |-> AddTo(c, to[i], list[i])]]
<1>2. n \in Nat /\ \A i \in 1..n : list[i] \in AnyProcess
  OBVIOUS
<1>3. step \in [1..n -> [S -> S]]
  <2>1. ASSUME NEW i \in 1..n, NEW c \in S PROVE AddTo(c, to[i], list[i]) \in S
    BY <1>2, AddToBooks
  <2> HIDE DEF S, n
  <2> QED BY <2>1
<1>4. PICK f : Goes(f, n, S, configs, step)
  <2>1. n \in Nat /\ configs \in S
    BY <1>2
  <2> HIDE DEF step, n, S
  <2> QED BY <1>3, <2>1, Recursion
<1>5. \A i \in 0..n : i = 0 \/ i \in 1..n
  BY <1>2
<1>6. Adds(f, configs, list, to)
  <2> HIDE DEF S
  <2>1. \A i \in 1..n : f[i - 1] \in S
    BY <1>2, <1>4 DEF Goes
  <2>2. \A i \in 1..n : step[i][f[i - 1]] = AddTo(f[i - 1], to[i], list[i])
    BY <2>1
  <2> HIDE DEF step
  <2>3. \A i \in 0..n : f[i] = IF i = 0 THEN configs ELSE AddTo(f[i - 1], to[i], list[i])
    BY <1>4, <1>5, <2>2 DEF Goes
  <2>4. f = [i \in 0..n |-> f[i]]
    BY <1>4 DEF Goes
  <2> QED BY <2>3, <2>4 DEF Adds
<1> DEFINE g == Added(configs, list, to)
<1>7. Adds(g, configs, list, to)
  BY <1>6 DEF Added
<1> HIDE DEF g
<1>8. g[0] = configs /\ \A i \in 1..n : g[i] = AddTo(g[i - 1], to[i], list[i])
  <2>1. 0 \in 0..n /\ \A i \in 1..n : i \in 0..n /\ i # 0
    BY <1>2
  <2> QED BY <1>7, <2>1 DEF Adds
<1>9. \A i \in 0..n : g[i] \in S
  <2> DEFINE good == {i \in 0..n : g[i] \in S}
  <2>1. 0 \in good
    BY <1>2, <1>8
  <2>2. ASSUME NEW i \in 1..n, i - 1 \in good PROVE i \in good
    <3>1. g[i - 1] \in S /\ list[i] \in AnyProcess
      BY <1>2, <2>2
    <3>2. g[i] = AddTo(g[i - 1], to[i], list[i])
      BY <1>8
    <3>3. AddTo(g[i - 1], to[i], list[i]) \in S
      BY <3>1, AddToBooks
    <3>4. i \in 0..n
      BY <1>2
    <3> QED BY <3>2, <3>3, <3>4
  <2> HIDE DEF good
  <2>3. \A i \in 0..n : i \in good
    BY <1>2, <2>1, <2>2, Induction
  <2> QED BY <2>3 DEF good
<1> QED BY <1>1, <1>8, <1>9 DEF g

\* ... and every share stays a configuration.
LEMMA AddAllBooks ==
  ASSUME NEW D, NEW configs \in [D -> Config], NEW list \in Seq(AnyProcess), NEW to
  PROVE  AddAll(configs, list, to) \in [D -> Config]
<1>1. Len(list) \in 0..Len(list)
  OBVIOUS
<1> QED BY <1>1, AddAllGoes

-----------------------------------------------------------------------------
(* Types, and what the daemons are told.                                   *)

\* What loads has every process once.
Names(list) == \A i, j \in 1..Len(list) : InternalName(list[i]) = InternalName(list[j]) => i = j

\* A file that loads lists every runnable process, and every name once.
LEMMA ListingOnce ==
  ASSUME NEW f \in Files, Loads[f]
  PROVE  /\ Listing[f] \in Seq(AnyProcess) /\ Names(Listing[f])
         /\ \A i \in 1..Len(Listing[f]) : Listing[f][i] \in Processes[f] /\ Listing[f][i].runnable
         /\ \A p \in Processes[f] :
              p.runnable => \E i \in 1..Len(Listing[f]) : Listing[f][i] = p
<1> DEFINE S == {p \in Loaded(f) : p.runnable}
<1>1. Listing[f] = InOrder(S) /\ Processes[f] = Loaded(f) /\ Loaded(f) \subseteq AnyProcess
  BY DEF Listing, CompList, Processes, AnyProcess
<1>2. ~ Duplicates(f)
  BY DEF Loads
<1>3. S \subseteq Loaded(f)
  OBVIOUS
<1>4. /\ IsFiniteSet(S) /\ \A p \in S : Ranked(p)
      /\ \A p, q \in S : InternalName(p) = InternalName(q) => p = q
  <2> HIDE DEF S
  <2> QED BY <1>2, <1>3, LoadedProcesses, FS_Subset
<1>5. \A p \in Loaded(f) : p \in S <=> p.runnable
  OBVIOUS
<1> HIDE DEF S
<1>6. /\ InOrder(S) \in Seq(S) /\ Len(InOrder(S)) = Cardinality(S)
      /\ \A i, j \in 1..Cardinality(S) : InOrder(S)[i] = InOrder(S)[j] => i = j
      /\ \A p \in S : \E i \in 1..Cardinality(S) : InOrder(S)[i] = p
  BY <1>4, ListedOnce
<1>7. \A i \in 1..Cardinality(S) : InOrder(S)[i] \in S
  BY <1>6
<1>8. Listing[f] \in Seq(AnyProcess)
  BY <1>1, <1>3, <1>6, SeqMonotonic
<1>9. Names(Listing[f])
  BY <1>1, <1>4, <1>6, <1>7 DEF Names
<1> QED BY <1>1, <1>3, <1>5, <1>6, <1>7, <1>8, <1>9

\* What is chosen of a list with every name once has every name once, and it is
\* all that was to be chosen.
LEMMA ChosenOnce ==
  ASSUME NEW s \in Seq(AnyProcess), Names(s), NEW I
  PROVE  /\ Chosen(s, I) \in Seq(AnyProcess) /\ Names(Chosen(s, I))
         /\ \A k \in 1..Len(Chosen(s, I)) : \E i \in 1..Len(s) : i \in I /\ Chosen(s, I)[k] = s[i]
         /\ \A i \in 1..Len(s) : i \in I => \E k \in 1..Len(Chosen(s, I)) : Chosen(s, I)[k] = s[i]
<1>1. Chosen(s, I) \in Seq(AnyProcess)
  BY ChosenOnes
<1>2. PICK at : Whence(at, Chosen(s, I), s, I, Len(s))
  BY ChosenOnes
<1> DEFINE c == Chosen(s, I)
<1> HIDE DEF c
<1>3. /\ \A k \in 1..Len(c) : at[k] \in 1..Len(s) /\ at[k] \in I /\ c[k] = s[at[k]]
      /\ \A k, l \in 1..Len(c) : at[k] = at[l] => k = l
      /\ \A i \in 1..Len(s) : i \in I => \E k \in 1..Len(c) : at[k] = i
  BY <1>2 DEF Whence, c
<1>4. Names(c)
  <2> SUFFICES ASSUME NEW k \in 1..Len(c), NEW l \in 1..Len(c),
                      InternalName(c[k]) = InternalName(c[l])
               PROVE  k = l
    BY DEF Names
  <2>1. InternalName(s[at[k]]) = InternalName(s[at[l]])
    BY <1>3
  <2>2. at[k] \in 1..Len(s) /\ at[l] \in 1..Len(s)
    BY <1>3
  <2>3. at[k] = at[l]
    BY <2>1, <2>2 DEF Names
  <2> QED BY <1>3, <2>3
<1>5. \A k \in 1..Len(c) : \E i \in 1..Len(s) : i \in I /\ c[k] = s[i]
  BY <1>3
<1>6. \A i \in 1..Len(s) : i \in I => \E k \in 1..Len(c) : c[k] = s[i]
  BY <1>3
<1> QED BY <1>1, <1>4, <1>5, <1>6 DEF c

\* So does the list of what is moveable.
LEMMA MovingOnce ==
  ASSUME NEW f \in Files, Loads[f]
  PROVE  /\ Moving[f] \in Seq(AnyProcess) /\ Names(Moving[f])
         /\ \A k \in 1..Len(Moving[f]) : Moving[f][k] \in Processes[f] /\ Moving[f][k].moveable
         /\ \A p \in Processes[f] :
              p.runnable /\ p.moveable => \E k \in 1..Len(Moving[f]) : Moving[f][k] = p
<1> DEFINE s == Listing[f]
           I == {i \in DOMAIN s : s[i].moveable}
<1>1. Moving[f] = Chosen(s, I)
  BY DEF Moving
<1>2. /\ s \in Seq(AnyProcess) /\ Names(s)
      /\ \A i \in 1..Len(s) : s[i] \in Processes[f]
      /\ \A p \in Processes[f] : p.runnable => \E i \in 1..Len(s) : s[i] = p
  BY ListingOnce
<1>3. \A i \in 1..Len(s) : i \in I <=> s[i].moveable
  BY <1>2
<1> HIDE DEF s, I
<1>4. /\ Moving[f] \in Seq(AnyProcess) /\ Names(Moving[f])
      /\ \A k \in 1..Len(Moving[f]) : \E i \in 1..Len(s) : i \in I /\ Moving[f][k] = s[i]
      /\ \A i \in 1..Len(s) : i \in I => \E k \in 1..Len(Moving[f]) : Moving[f][k] = s[i]
  BY <1>1, <1>2, ChosenOnce
<1>5. \A k \in 1..Len(Moving[f]) : Moving[f][k] \in Processes[f] /\ Moving[f][k].moveable
  BY <1>2, <1>3, <1>4
<1>6. ASSUME NEW p \in Processes[f], p.runnable, p.moveable
      PROVE  \E k \in 1..Len(Moving[f]) : Moving[f][k] = p
  <2>1. PICK i \in 1..Len(s) : s[i] = p
    BY <1>2, <1>6
  <2>2. i \in I
    BY <1>3, <1>6, <2>1
  <2> QED BY <1>4, <2>1, <2>2
<1> QED BY <1>4, <1>5, <1>6

-----------------------------------------------------------------------------
(* Loads are numbers.                                                      *)

\* A weight is a number, ...
LEMMA WeightIsNat ==
  ASSUME IsStats(mData), NEW p
  PROVE  Weight(p) \in Nat
<1>1. ASSUME p.compName \in DOMAIN mData PROVE mData[p.compName] \in [cpu : Nat, rss : Nat]
  BY <1>1 DEF IsStats
<1> QED BY <1>1 DEF Weight, Measure

Sums(f, procs) ==
  f = [i \in 0..Len(procs) |-> IF i = 0 THEN 0 ELSE f[i - 1] + Weight(procs[i])]
Sum(procs) == CHOOSE f : Sums(f, procs)

\* ... a load is summed up over the processes, ...
LEMMA LoadGoes ==
  ASSUME IsStats(mData), NEW procs \in Seq(AnyProcess)
  PROVE  LET f == Sum(procs)
         IN /\ LoadOf(procs) = f[Len(procs)]
            /\ f[0] = 0
            /\ \A i \in 1..Len(procs) : f[i] = f[i - 1] + Weight(procs[i])
            /\ \A i \in 0..Len(procs) : f[i] \in Nat
<1>1. LoadOf(procs) = Sum(procs)[Len(procs)]
  BY DEF LoadOf, Sum, Sums
<1> DEFINE n == Len(procs)
           step == [i \in 1..n |-> [k \in Nat |-> k + Weight(procs[i])]]
<1>2. n \in Nat /\ \A i \in 0..n : i = 0 \/ i \in 1..n
  OBVIOUS
<1>3. step \in [1..n -> [Nat -> Nat]]
  BY WeightIsNat
<1>4. PICK f : Goes(f, n, Nat, 0, step)
  <2> HIDE DEF step, n
  <2> QED BY <1>2, <1>3, Recursion
<1>5. Sums(f, procs)
  <2>1. \A i \in 1..n : f[i - 1] \in Nat
    BY <1>2, <1>4 DEF Goes
  <2>2. \A i \in 1..n : step[i][f[i - 1]] = f[i - 1] + Weight(procs[i])
    BY <2>1
  <2> HIDE DEF step
  <2>3. \A i \in 0..n : f[i] = IF i = 0 THEN 0 ELSE f[i - 1] + Weight(procs[i])
    BY <1>2, <1>4, <2>2 DEF Goes
  <2>4. f = [i \in 0..n |-> f[i]]
    BY <1>4 DEF Goes
  <2> QED BY <2>3, <2>4 DEF Sums
<1> DEFINE g == Sum(procs)
<1>6. Sums(g, procs)
  BY <1>5 DEF Sum
<1> HIDE DEF g
<1>7. g[0] = 0 /\ \A i \in 1..n : g[i] = g[i - 1] + Weight(procs[i])
  <2>1. 0 \in 0..n /\ \A i \in 1..n : i \in 0..n /\ i # 0
    BY <1>2
  <2> QED BY <1>6, <2>1 DEF Sums
<1>8. \A i \in 0..n : g[i] \in Nat
  <2>1. 0 \in Nat /\ g[0] \in Nat
    BY <1>7
  <2> DEFINE good == {i \in 0..n : g[i] \in Nat}
  <2>2. 0 \in good
    BY <1>2, <2>1
  <2>3. ASSUME NEW i \in 1..n, i - 1 \in good PROVE i \in good
    <3>1. g[i] \in Nat
      BY <1>7, <2>3, WeightIsNat
    <3> QED BY <1>2, <3>1
  <2> HIDE DEF good
  <2>4. \A i \in 0..n : i \in good
    BY <1>2, <2>2, <2>3, Induction
  <2> QED BY <2>4 DEF good
<1> QED BY <1>1, <1>7, <1>8 DEF g

\* ... and so is a number.
LEMMA LoadIsNat ==
  ASSUME IsStats(mData), NEW procs \in Seq(AnyProcess)
  PROVE  LoadOf(procs) \in Nat
<1>1. Len(procs) \in 0..Len(procs)
  OBVIOUS
<1> QED BY <1>1, LoadGoes

-----------------------------------------------------------------------------
(* Types, and what the daemons are told.                                   *)

CallAt == {"idle", "await", "place", "finish", "spin", "stuck", "done", "thrown", "badfile"}
Numbers == UNION {[S -> Nat] : S \in SUBSET Node}
Stats == UNION {[S -> [cpu : Nat, rss : Nat]] : S \in SUBSET Comp}
CallState == [at : CallAt, nodes : SUBSET Node, again : BOOLEAN, force : BOOLEAN,
              todo : Seq(AnyProcess), rest : Seq(AnyProcess), nums : Numbers, seen : Stats]

\* A distribution changes the configurations from its beginning to its end, ...
Changing == call.at \in {"place", "finish", "spin"}

BookTypes ==
  /\ file \in Files /\ mDistributed \in BOOLEAN /\ mComponents \subseteq AnyProcess
  /\ DOMAIN mCompConfig \subseteq Node /\ mCompConfig \in [DOMAIN mCompConfig -> Config]
  /\ DOMAIN mDistState \subseteq Node /\ mDistState \in [DOMAIN mDistState -> Documented]
  /\ call \in CallState

\* ... of which each stage leaves to the next what it needs, ...
Stages ==
  /\ call.at = "await" => call.todo = <<>> /\ call.rest = <<>>
  /\ Changing => call.nodes \subseteq DOMAIN mCompConfig
  /\ call.at = "place" => call.todo # <<>> /\ DOMAIN call.nums = call.nodes
  /\ call.at = "finish" => call.todo = <<>>

\* ... and at the end the documents that go out are the configurations' own.
SentAsBooked ==
  ~ Changing =>
    IF mDistributed
    THEN \A n \in DOMAIN mDistState :
           n \in DOMAIN mCompConfig /\ mDistState[n] = mCompConfig[n].doc
    ELSE DOMAIN mCompConfig = {}

BooksInv == BookTypes /\ Stages /\ SentAsBooked

\* Statistics as a set.
LEMMA StatsSet == \A d : IsStats(d) <=> d \in Stats
BY DEF IsStats, Stats

\* No distribution in hand, ...
LEMMA IdleState == Idle \in CallState
<1>1. NoUsage \in Stats
  BY StatsSet, NothingIsStats
<1>2. [n \in {} |-> 0] \in Numbers
  <2>1. [n \in {} |-> 0] \in [{} -> Nat]
    OBVIOUS
  <2> QED BY <2>1 DEF Numbers
<1>3. <<>> \in Seq(AnyProcess)
  OBVIOUS
<1> QED BY <1>1, <1>2, <1>3 DEF Idle, CallState, CallAt

\* ... or one that has ended.
LEMMA EndedState ==
  ASSUME call \in CallState, NEW how \in CallAt
  PROVE  /\ Ended(how) \in CallState /\ Ended(how).at = how
         /\ Ended(how).todo = <<>> /\ Ended(how).rest = <<>>
<1>1. call.again \in BOOLEAN
  BY DEF CallState
<1>2. Idle \in CallState /\ Idle.todo = <<>> /\ Idle.rest = <<>>
  BY IdleState DEF Idle
<1> QED BY <1>1, <1>2 DEF Ended, CallState

\* What is to be distributed is a list of processes.
LEMMA ListTyped ==
  ASSUME file \in Files, Loads[file], NEW again, NEW force
  PROVE  /\ ToDistribute(again, force) \in Seq(AnyProcess)
         /\ Processes[file] \subseteq AnyProcess
<1>1. Processes[file] \subseteq AnyProcess
  BY DEF AnyProcess
<1> QED BY <1>1, ListingOnce, MovingOnce DEF ToDistribute

\* Every listed node has a container, ...
LEMMA ContainersTyped ==
  ASSUME NEW left, left \in [DOMAIN left -> Config], DOMAIN left \subseteq Node,
         NEW nodes \in SUBSET Node
  PROVE  LET configs == WithContainers(left, nodes)
         IN /\ configs \in [DOMAIN configs -> Config]
            /\ DOMAIN configs \subseteq Node /\ nodes \subseteq DOMAIN configs
<1> DEFINE configs == WithContainers(left, nodes)
<1>1. DOMAIN configs = DOMAIN left \cup nodes
  BY DEF WithContainers
<1>2. configs = [n \in DOMAIN left \cup nodes |->
                   IF n \in DOMAIN left THEN left[n] ELSE EmptyConfig]
  BY DEF WithContainers
<1>3. configs \in [DOMAIN left \cup nodes -> Config]
  BY <1>2, EmptyIsConfig
<1> HIDE DEF configs
<1> QED BY <1>1, <1>3 DEF configs

\* ... whatever is left of the last distribution.
LEMMA PreparedTyped ==
  ASSUME BookTypes, NEW again, NEW force, NEW nodes \in SUBSET Node
  PROVE  LET configs == WithContainers(Prepared(again, force), nodes)
         IN /\ configs \in [DOMAIN configs -> Config]
            /\ DOMAIN configs \subseteq Node /\ nodes \subseteq DOMAIN configs
<1> DEFINE left == Prepared(again, force)
<1>1. left \in [DOMAIN left -> Config] /\ DOMAIN left \subseteq DOMAIN mCompConfig
  <2>1. \A n \in DOMAIN mCompConfig : mCompConfig[n] \in Config
    BY DEF BookTypes
  <2>2. CASE ~ again
    BY <2>2 DEF Prepared, BookTypes
  <2>3. CASE again /\ force
    BY <2>3 DEF Prepared
  <2>4. CASE again /\ ~ force
    BY <2>1, <2>4, KeptIsConfig DEF Prepared
  <2> QED BY <2>2, <2>3, <2>4
<1>2. DOMAIN left \subseteq Node
  BY <1>1 DEF BookTypes
<1> HIDE DEF left
<1> QED BY <1>1, <1>2, ContainersTyped DEF left

\* The books are left alone, and so is the distribution in hand.
LEMMA BooksKept ==
  ASSUME BooksInv, file' \in Files, UNCHANGED <<bookVars, call>>
  PROVE  BooksInv'
BY DEF BooksInv, BookTypes, Stages, SentAsBooked, Changing, bookVars

\* It ends, before it has changed a configuration.
LEMMA BooksOnEnd ==
  ASSUME BooksInv, ~ Changing, NEW how \in {"thrown", "badfile"}, call' = Ended(how),
         UNCHANGED <<file, mCompConfig, mDistState, mDistributed>>,
         mComponents' = mComponents \/ mComponents' = {}
  PROVE  BooksInv'
<1>1. /\ Ended(how) \in CallState /\ Ended(how).at = how
      /\ Ended(how).todo = <<>> /\ Ended(how).rest = <<>>
  BY EndedState DEF BooksInv, BookTypes, CallAt
<1>2. ~ Changing' /\ call'.at # "await"
  BY <1>1 DEF Changing
<1> QED BY <1>1, <1>2 DEF BooksInv, BookTypes, Stages, SentAsBooked, Changing

\* A call begins, is refused, or waits with a stop for a mutex that stays locked.
LEMMA CallTaken ==
  ASSUME NEW nodes \in SUBSET Node, NEW again \in BOOLEAN, NEW force \in BOOLEAN,
         Call(nodes, again, force) \/ StopWaits
  PROVE  /\ ~ InProgress /\ UNCHANGED <<file, bookVars>>
         /\ call' \in CallState /\ call'.todo = <<>> /\ call'.rest = <<>>
         /\ call'.seen = NoUsage
         /\ \/ call'.at \in {"thrown", "stuck"}
            \/ call'.at = "await" /\ call'.again = again /\ ~ (mDistributed /\ ~ again)
<1>1. /\ Idle \in CallState /\ Idle.todo = <<>> /\ Idle.rest = <<>>
      /\ Idle.seen = NoUsage
  BY IdleState DEF Idle
<1>2. ~ InProgress /\ UNCHANGED <<file, bookVars>>
  BY DEF Call, StopWaits
<1>3. \/ call' = [Idle EXCEPT !.at = "thrown"] \/ call' = [Idle EXCEPT !.at = "stuck"]
      \/ call' = Waiting(nodes, again, force) /\ ~ (mDistributed /\ ~ again)
      \/ call' = [Waiting(nodes, again, force) EXCEPT !.at = "stuck"]
  BY DEF Call, StopWaits
<1>4. ASSUME NEW at \in CallAt
      PROVE  /\ [Idle EXCEPT !.at = at] \in CallState
             /\ [Waiting(nodes, again, force) EXCEPT !.at = at] \in CallState
  BY <1>1 DEF CallState, Waiting, CallAt
<1>5. Waiting(nodes, again, force) = [Waiting(nodes, again, force) EXCEPT !.at = "await"]
  BY <1>1 DEF CallState, Waiting
<1>6. CASE call' = Waiting(nodes, again, force) /\ ~ (mDistributed /\ ~ again)
  <2>1. call' \in CallState
    BY <1>4, <1>5, <1>6 DEF CallAt
  <2>2. /\ call'.todo = <<>> /\ call'.rest = <<>> /\ call'.seen = NoUsage
        /\ call'.at = "await" /\ call'.again = again
    BY <1>1, <1>6 DEF CallState, Waiting
  <2> QED BY <1>2, <1>6, <2>1, <2>2
<1>7. CASE \E at \in {"thrown", "stuck"} :
             \/ call' = [Idle EXCEPT !.at = at]
             \/ call' = [Waiting(nodes, again, force) EXCEPT !.at = at]
  <2>1. PICK at \in {"thrown", "stuck"} :
               \/ call' = [Idle EXCEPT !.at = at]
               \/ call' = [Waiting(nodes, again, force) EXCEPT !.at = at]
    BY <1>7
  <2>2. call' \in CallState
    BY <1>4, <2>1 DEF CallAt
  <2>3. /\ call'.todo = <<>> /\ call'.rest = <<>> /\ call'.seen = NoUsage
        /\ call'.at \in {"thrown", "stuck"}
    BY <1>1, <2>1 DEF CallState, Waiting
  <2> QED BY <1>2, <2>2, <2>3
<1> QED BY <1>3, <1>6, <1>7

LEMMA BooksOnCall ==
  ASSUME BooksInv, NEW nodes \in SUBSET Node, NEW again \in BOOLEAN, NEW force \in BOOLEAN,
         Call(nodes, again, force) \/ StopWaits
  PROVE  BooksInv'
<1>1. /\ call' \in CallState /\ call'.todo = <<>> /\ call'.rest = <<>>
      /\ call'.at \in {"await", "thrown", "stuck"}
      /\ ~ InProgress /\ UNCHANGED <<file, bookVars>>
  BY CallTaken
<1>2. ~ Changing /\ ~ Changing'
  BY <1>1 DEF InProgress, Changing, BooksInv, BookTypes
<1> QED BY <1>1, <1>2 DEF BooksInv, BookTypes, Stages, SentAsBooked, bookVars

\* The round robin method.
LEMMA BooksOnRoundRobin ==
  ASSUME BooksInv, RoundRobin
  PROVE  BooksInv'
<1> DEFINE todo == ToDistribute(call.again, call.force)
           configs == WithContainers(Prepared(call.again, call.force), call.nodes)
           dealt == AddAll(configs, todo, Swept(configs, call.nodes, Len(todo)))
<1>1. ~ Changing /\ call.todo = <<>> /\ call.rest = <<>> /\ UNCHANGED file
  BY DEF RoundRobin, Changing, BooksInv, Stages, CallerStep
<1>2. CASE BadFile
  BY <1>1, <1>2, BooksOnEnd DEF BadFile
<1>3. CASE ~ BadFile
  <2>1. Loads[file] /\ mComponents' = Processes[file] /\ UNCHANGED <<mDistState, mDistributed>>
    BY <1>3 DEF RoundRobin
  <2>2. \/ call' = [call EXCEPT !.at = "spin"] /\ mCompConfig' = configs
        \/ call' = [call EXCEPT !.at = "finish"] /\ mCompConfig' = dealt
    BY <1>3 DEF RoundRobin
  <2>3. todo \in Seq(AnyProcess) /\ Processes[file] \subseteq AnyProcess
    BY <2>1, ListTyped DEF BooksInv, BookTypes
  <2>4. /\ configs \in [DOMAIN configs -> Config]
        /\ DOMAIN configs \subseteq Node /\ call.nodes \subseteq DOMAIN configs
    BY PreparedTyped DEF BooksInv, BookTypes, CallState
  <2> HIDE DEF configs, todo
  <2>5. dealt \in [DOMAIN configs -> Config]
    BY <2>3, <2>4, AddAllBooks
  <2> HIDE DEF dealt
  <2>6. /\ mCompConfig' \in [DOMAIN mCompConfig' -> Config]
        /\ DOMAIN mCompConfig' \subseteq Node /\ call.nodes \subseteq DOMAIN mCompConfig'
    BY <2>2, <2>4, <2>5
  <2>7. /\ call' \in CallState /\ call'.at \in {"spin", "finish"} /\ call'.nodes = call.nodes
        /\ call'.todo = <<>>
    BY <1>1, <2>2 DEF BooksInv, BookTypes, CallState, CallAt
  <2> QED BY <1>1, <2>1, <2>3, <2>6, <2>7
        DEF BooksInv, BookTypes, Stages, SentAsBooked, Changing
<1> QED BY <1>2, <1>3

\* No statistics: the default method.
LEMMA BooksOnDefault ==
  ASSUME BooksInv, Default
  PROVE  BooksInv'
<1> DEFINE todo == ToDistribute(FALSE, FALSE)
           configs == WithContainers(mCompConfig, call.nodes)
           dealt == InTurns(configs, todo, call.nodes)
<1>1. ~ Changing /\ call.todo = <<>> /\ call.rest = <<>> /\ UNCHANGED file
  BY DEF Default, Awaited, Changing, BooksInv, Stages, CallerStep
<1>2. CASE BadFile
  BY <1>1, <1>2, BooksOnEnd DEF BadFile
<1>3. CASE mDistributed
  BY <1>1, <1>3, BooksOnEnd DEF Default, BadFile, bookVars
<1>4. CASE ~ BadFile /\ ~ mDistributed
  <2>1. /\ Loads[file] /\ mComponents' = Processes[file]
        /\ mCompConfig' = dealt /\ call' = [call EXCEPT !.at = "finish"]
        /\ UNCHANGED <<mDistState, mDistributed>>
    BY <1>4 DEF Default
  <2>2. todo \in Seq(AnyProcess) /\ Processes[file] \subseteq AnyProcess
    BY <2>1, ListTyped DEF BooksInv, BookTypes
  <2>4. /\ configs \in [DOMAIN configs -> Config]
        /\ DOMAIN configs \subseteq Node /\ call.nodes \subseteq DOMAIN configs
    <3>1. call.nodes \in SUBSET Node /\ BookTypes
      BY DEF BooksInv, BookTypes, CallState
    <3> QED BY <3>1, ContainersTyped DEF BookTypes
  <2> HIDE DEF configs, todo
  <2>5. dealt \in [DOMAIN configs -> Config]
    BY <2>2, <2>4, AddAllBooks DEF InTurns
  <2> HIDE DEF dealt
  <2>6. /\ mCompConfig' \in [DOMAIN mCompConfig' -> Config]
        /\ DOMAIN mCompConfig' \subseteq Node /\ call.nodes \subseteq DOMAIN mCompConfig'
    BY <2>1, <2>4, <2>5
  <2>7. call' \in CallState /\ call'.at = "finish" /\ call'.nodes = call.nodes /\ call'.todo = <<>>
    BY <1>1, <2>1 DEF BooksInv, BookTypes, CallState, CallAt
  <2> QED BY <1>1, <2>1, <2>2, <2>6, <2>7
        DEF BooksInv, BookTypes, Stages, SentAsBooked, Changing
<1> QED BY <1>2, <1>3, <1>4

\* The balanced method, up to its loop, ...
LEMMA BooksOnPrepare ==
  ASSUME BooksInv, IsStats(mData), Prepare
  PROVE  BooksInv'
<1> DEFINE list == ToDistribute(call.again, call.force)
           todo == Chosen(list, {i \in DOMAIN list : Known(list[i])})
           rest == Chosen(list, {i \in DOMAIN list : ~ Known(list[i])})
           configs == WithContainers(Prepared(call.again, call.force), call.nodes)
           nums == LoadsOf(configs, call.nodes)
           at == IF todo = <<>> THEN "finish" ELSE "place"
<1>1. ~ Changing /\ UNCHANGED file
  BY DEF Prepare, Awaited, Changing, CallerStep
<1>2. CASE BadFile
  BY <1>1, <1>2, BooksOnEnd DEF BadFile
<1>3. CASE ~ BadFile
  <2>1. /\ Loads[file] /\ mComponents' = Processes[file] /\ mCompConfig' = configs
        /\ call' = [call EXCEPT !.at = at, !.todo = todo, !.seen = mData, !.rest = rest,
                                !.nums = nums]
        /\ UNCHANGED <<mDistState, mDistributed>>
    BY <1>3 DEF Prepare
  <2>2. list \in Seq(AnyProcess) /\ Processes[file] \subseteq AnyProcess
    BY <2>1, ListTyped DEF BooksInv, BookTypes
  <2>3. todo \in Seq(AnyProcess) /\ rest \in Seq(AnyProcess)
    <3> HIDE DEF list
    <3> QED BY <2>2, ChosenOnes
  <2>4. /\ configs \in [DOMAIN configs -> Config]
        /\ DOMAIN configs \subseteq Node /\ call.nodes \subseteq DOMAIN configs
    BY PreparedTyped DEF BooksInv, BookTypes, CallState
  <2> HIDE DEF configs, list, todo, rest
  <2>5. nums \in Numbers /\ DOMAIN nums = call.nodes
    <3>1. ASSUME NEW n \in call.nodes PROVE LoadOf(Procs(configs, n)) \in Nat
      <4>1. Procs(configs, n) \in Seq(AnyProcess)
        BY <2>4, ConfigShape DEF Procs
      <4> QED BY <4>1, LoadIsNat
    <3>2. call.nodes \in SUBSET Node
      BY DEF BooksInv, BookTypes, CallState
    <3>3. nums \in [call.nodes -> Nat]
      BY <3>1 DEF LoadsOf
    <3> QED BY <3>2, <3>3 DEF Numbers
  <2>6. mData \in Stats
    BY StatsSet
  <2> HIDE DEF nums
  <2>7. /\ call' \in CallState /\ call'.at = at /\ call'.nodes = call.nodes
        /\ call'.todo = todo /\ call'.nums = nums
    BY <2>1, <2>3, <2>5, <2>6 DEF BooksInv, BookTypes, CallState, CallAt
  <2> QED BY <1>1, <2>1, <2>2, <2>4, <2>5, <2>7
        DEF BooksInv, BookTypes, Stages, SentAsBooked, Changing
<1> QED BY <1>2, <1>3

\* ... (an entry of a table of numbers is raised) ...
LEMMA Raised ==
  ASSUME NEW S, NEW f \in [S -> Nat], NEW n, NEW w \in Nat
  PROVE  [f EXCEPT ![n] = @ + w] \in [S -> Nat]
<1>1. CASE n \in S
  <2>1. f[n] + w \in Nat
    BY <1>1
  <2> QED BY <2>1
<1>2. CASE n \notin S
  BY <1>2
<1> QED BY <1>1, <1>2

\* ... each turn of it, ...
LEMMA BooksOnPlace ==
  ASSUME BooksInv, IsStats(mData), Place
  PROVE  BooksInv'
<1> DEFINE p == Head(call.todo)
           n == Assignee(call.nums)
           at == IF Len(call.todo) = 1 THEN "finish" ELSE "place"
           nums == [call.nums EXCEPT ![n] = @ + Weight(p)]
<1>1. /\ call.at = "place" /\ mCompConfig' = AddTo(mCompConfig, n, p)
      /\ call' = [call EXCEPT !.todo = Tail(@), !.nums[n] = @ + Weight(p), !.at = at]
      /\ UNCHANGED <<file, mComponents, mDistState, mDistributed>>
  BY DEF Place, CallerStep
<1>2. call.todo \in Seq(AnyProcess) /\ call.todo # <<>> /\ DOMAIN call.nums = call.nodes
  BY <1>1 DEF BooksInv, BookTypes, Stages, CallState
<1>3. /\ p \in AnyProcess /\ Tail(call.todo) \in Seq(AnyProcess)
      /\ Tail(call.todo) = <<>> <=> Len(call.todo) = 1
  <2> DEFINE todo == call.todo
  <2>1. todo \in Seq(AnyProcess) /\ todo # <<>>
    BY <1>2
  <2> HIDE DEF todo
  <2>2. /\ Head(todo) \in AnyProcess /\ Tail(todo) \in Seq(AnyProcess)
        /\ Len(todo) \in Nat /\ Len(Tail(todo)) = Len(todo) - 1
    BY <2>1, HeadTailProperties
  <2>3. Tail(todo) = <<>> <=> Len(Tail(todo)) = 0
    <3> DEFINE t == Tail(todo)
    <3>1. t \in Seq(AnyProcess)
      BY <2>2
    <3> HIDE DEF t
    <3>2. t = <<>> <=> Len(t) = 0
      BY <3>1, EmptySeq
    <3> QED BY <3>2 DEF t
  <2> QED BY <2>2, <2>3 DEF todo
<1>4. mCompConfig' \in [DOMAIN mCompConfig -> Config] /\ DOMAIN mCompConfig' = DOMAIN mCompConfig
  <2> HIDE DEF p, n
  <2>1. AddTo(mCompConfig, n, p) \in [DOMAIN mCompConfig -> Config]
    BY <1>3, AddToBooks DEF BooksInv, BookTypes
  <2> QED BY <1>1, <2>1
<1>5. nums \in Numbers /\ DOMAIN nums = call.nodes
  <2>1. call.nums \in [call.nodes -> Nat] /\ call.nodes \in SUBSET Node
    BY <1>2 DEF BooksInv, BookTypes, CallState, Numbers
  <2>2. Weight(p) \in Nat
    BY WeightIsNat
  <2>3. nums \in [call.nodes -> Nat]
    <3> HIDE DEF n, p
    <3> QED BY <2>1, <2>2, Raised
  <2> HIDE DEF nums
  <2> QED BY <2>1, <2>3 DEF Numbers
<1>6. /\ call' \in CallState /\ call'.at = at /\ call'.nodes = call.nodes
      /\ call'.todo = Tail(call.todo) /\ call'.nums = nums
  <2> HIDE DEF n, p
  <2>1. call' = [call EXCEPT !.todo = Tail(call.todo), !.nums = nums, !.at = at]
    BY <1>1 DEF BooksInv, BookTypes, CallState
  <2> HIDE DEF nums
  <2> QED BY <1>3, <1>5, <2>1 DEF BooksInv, BookTypes, CallState, CallAt
<1> HIDE DEF n, p, nums
<1> QED BY <1>1, <1>3, <1>4, <1>5, <1>6
      DEF BooksInv, BookTypes, Stages, SentAsBooked, Changing

\* ... and the end of every method, where the documents go out.
LEMMA BooksOnFinish ==
  ASSUME BooksInv, Finish
  PROVE  BooksInv'
<1> DEFINE configs == InTurns(mCompConfig, call.rest, call.nodes)
<1>1. /\ call.at = "finish" /\ mCompConfig' = configs
      /\ mDistState' = Documents(configs, call.nodes) /\ mDistributed' = TRUE
      /\ call' = Ended("done") /\ UNCHANGED <<file, mComponents>>
  BY DEF Finish, CallerStep
<1>2. call.rest \in Seq(AnyProcess) /\ call.nodes \subseteq DOMAIN mCompConfig
  BY <1>1 DEF BooksInv, BookTypes, Stages, CallState, Changing
<1>3. configs \in [DOMAIN mCompConfig -> Config]
  BY <1>2, AddAllBooks DEF InTurns, BooksInv, BookTypes
<1> HIDE DEF configs
<1>4. \A n \in call.nodes : configs[n].doc \in Documented
  BY <1>2, <1>3, ConfigShape
<1>5. /\ mDistState' \in [call.nodes -> Documented]
      /\ \A n \in call.nodes : mDistState'[n] = mCompConfig'[n].doc
  BY <1>1, <1>4 DEF Documents
<1>6. call' \in CallState /\ call'.at = "done"
  BY <1>1, EndedState DEF BooksInv, BookTypes, CallAt
<1>7. DOMAIN mCompConfig' = DOMAIN mCompConfig /\ DOMAIN mDistState' = call.nodes
  BY <1>1, <1>3, <1>5
<1> QED BY <1>1, <1>2, <1>3, <1>5, <1>6, <1>7
      DEF BooksInv, BookTypes, Stages, SentAsBooked, Changing

\* A stop and a new director begin with empty books.
LEMMA BooksEmptied ==
  ASSUME BooksInv, mCompConfig' \in [{} -> Config], mDistState' \in [{} -> Documented],
         mDistributed' = FALSE, file' = file,
         mComponents' \in {mComponents, {}},
         call' = Idle \/ (call' = call /\ ~ InProgress)
  PROVE  BooksInv'
<1>1. call' \in CallState /\ ~ Changing' /\ call'.at # "await"
  <2>1. CASE call' = Idle
    BY <2>1, IdleState DEF Idle, Changing
  <2>2. CASE call' = call /\ ~ InProgress
    BY <2>2 DEF InProgress, Changing, BooksInv, BookTypes
  <2> QED BY <2>1, <2>2
<1> QED BY <1>1 DEF BooksInv, BookTypes, Stages, SentAsBooked, Changing

\* The books are in order after every step.
LEMMA BooksAlways == Spec => []BooksInv
<1>1. ASSUME Init PROVE BooksInv
  BY <1>1, IdleState DEF Init, BooksInv, BookTypes, Stages, SentAsBooked, Changing, Idle
<1>2. ASSUME BooksInv, StatsInv, [Next]_vars PROVE BooksInv'
  <2>0. IsStats(mData)
    BY <1>2 DEF StatsInv
  <2>1. CASE \E nodes \in SUBSET Node, again, force \in BOOLEAN : Call(nodes, again, force)
    BY <1>2, <2>1, BooksOnCall
  <2>11. CASE StopWaits
    <3>1. {} \in SUBSET Node /\ FALSE \in BOOLEAN
      OBVIOUS
    <3> QED BY <1>2, <2>11, <3>1, BooksOnCall
  <2>2. CASE Distribute
    BY <1>2, <2>0, <2>2, BooksOnRoundRobin, BooksOnDefault, BooksOnPrepare, BooksOnPlace,
       BooksOnFinish DEF Distribute
  <2>3. CASE StopSystem
    BY <1>2, <2>3, BooksEmptied DEF StopSystem
  <2>4. CASE StopAll \/ EditFile \/ UNCHANGED vars
    <3>1. UNCHANGED <<bookVars, call>> /\ file' \in Files
      BY <1>2, <2>4 DEF StopAll, EditFile, vars, BooksInv, BookTypes
    <3> QED BY <1>2, <3>1, BooksKept
  <2>5. CASE \E c \in Collector : Collect(c) \/ InitialiseFails(c) \/ PollFails(c)
    <3>1. UNCHANGED <<bookVars, call>> /\ file' \in Files
      BY <1>2, <2>5 DEF Collect, Enter, Initialise, Poll, ProcessReport, Truncate, Write,
        Wake, InitialiseFails, PollFails, CollectorStep, BooksInv, BookTypes
    <3> QED BY <1>2, <3>1, BooksKept
  <2>6. CASE Crash \/ DividesByZero \/ KillsNobody \/ ParserEnds \/ Reinitialise
    <3>1. Restarted
      BY <2>6 DEF Crash, DividesByZero, KillsNobody, ParserEnds, Reinitialise
    <3>2. /\ mCompConfig' \in [{} -> Config] /\ mDistState' \in [{} -> Documented]
          /\ mDistributed' = FALSE /\ file' = file /\ mComponents' \in {mComponents, {}}
          /\ call' = Idle
      BY <3>1 DEF Restarted
    <3> QED BY <1>2, <3>2, BooksEmptied
  <2> QED BY <1>2, <2>11, <2>1, <2>2, <2>3, <2>4, <2>5, <2>6 DEF Next
<1> QED BY <1>1, <1>2, StatsAlways, PTL DEF Spec

\* For all files, nodes, statistics and crashes: what the daemon of a node reads in the
\* document it is sent is, in order and attribute by attribute, what the director's
\* books say the node runs - also after a redistribution has rewritten the document.
THEOREM SharesAreRead == Spec => []SharesRead
<1>1. BooksInv => SharesRead
  <2> SUFFICES ASSUME BooksInv, mDistributed, ~ InProgress, NEW n \in DOMAIN mDistState
               PROVE  n \in DOMAIN mCompConfig /\ Parsed(mDistState[n]) = Procs(mCompConfig, n)
    BY DEF SharesRead
  <2>1. n \in DOMAIN mCompConfig /\ mDistState[n] = mCompConfig[n].doc
    BY DEF BooksInv, SentAsBooked, Changing, InProgress
  <2>2. mCompConfig[n] \in Config
    BY <2>1 DEF BooksInv, BookTypes
  <2> QED BY <2>1, <2>2, ReadBack DEF Procs
<1> QED BY <1>1, BooksAlways, PTL

-----------------------------------------------------------------------------
(* Every process has its place.                                            *)

\* No two places of the configurations are the same process, ...
Unique(configs) ==
  \A n, m \in DOMAIN configs :
    \A i \in 1..Len(Procs(configs, n)), j \in 1..Len(Procs(configs, m)) :
      InternalName(Procs(configs, n)[i]) = InternalName(Procs(configs, m)[j])
        /\ <<n, i>> # <<m, j>>
          => Procs(configs, n)[i].moveable # Procs(configs, m)[j].moveable

\* ... nor will they be with p.
Fits(configs, p) ==
  \A n \in DOMAIN configs : \A i \in 1..Len(Procs(configs, n)) :
    InternalName(Procs(configs, n)[i]) = InternalName(p)
      => Procs(configs, n)[i].moveable # p.moveable

Has(configs, nodes, p) ==
  \E n \in nodes : \E i \in 1..Len(Procs(configs, n)) : Procs(configs, n)[i] = p

Listed(list, p) == \E k \in 1..Len(list) : list[k] = p
Apart(list, other) ==
  \A k \in 1..Len(list), l \in 1..Len(other) : InternalName(list[k]) # InternalName(other[l])
AllFit(configs, list) == \A k \in 1..Len(list) : Fits(configs, list[k])

\* What is in hand fits in, ...
Fitting ==
  /\ Unique(mCompConfig)
  /\ call.at = "await" /\ ~ call.again => ~ mDistributed
  /\ call.at \in {"place", "finish"} =>
       /\ Names(call.todo) /\ Names(call.rest) /\ Apart(call.todo, call.rest)
       /\ AllFit(mCompConfig, call.todo) /\ AllFit(mCompConfig, call.rest)

\* ... and with what has been placed is all that is to be placed.
Covered ==
  \A p \in mComponents : p.runnable /\ p.moveable =>
    /\ call.at \in {"place", "finish"} =>
         Has(mCompConfig, call.nodes, p) \/ Listed(call.todo, p) \/ Listed(call.rest, p)
    /\ call.at = "done" /\ mDistributed => Has(mCompConfig, DOMAIN mDistState, p)

\* The shares are lists of processes.
LEMMA ProcsTyped ==
  ASSUME NEW D, NEW configs \in [D -> Config]
  PROVE  \A n \in D : Procs(configs, n) \in Seq(AnyProcess)
BY ConfigShape DEF Procs

\* One more process.
LEMMA AddToUnique ==
  ASSUME NEW D, NEW configs \in [D -> Config], NEW n, NEW p \in AnyProcess,
         Unique(configs), Fits(configs, p)
  PROVE  /\ Unique(AddTo(configs, n, p))
         /\ \A q : Fits(configs, q) /\ InternalName(q) # InternalName(p)
              => Fits(AddTo(configs, n, p), q)
<1> DEFINE more == AddTo(configs, n, p)
<1>1. /\ more \in [D -> Config]
      /\ \A m \in D : Procs(more, m) = IF m = n THEN Append(Procs(configs, m), p)
                                       ELSE Procs(configs, m)
  BY AddToBooks
<1>2. \A m \in D : Procs(configs, m) \in Seq(AnyProcess)
  BY ProcsTyped
<1> HIDE DEF more
<1>3. ASSUME NEW m \in D, NEW i \in 1..Len(Procs(more, m))
      PROVE  \/ i \in 1..Len(Procs(configs, m)) /\ Procs(more, m)[i] = Procs(configs, m)[i]
             \/ m = n /\ i = Len(Procs(configs, m)) + 1 /\ Procs(more, m)[i] = p
  <2>1. Procs(configs, m) \in Seq(AnyProcess)
    BY <1>2
  <2>2. CASE m = n
    <3>1. Procs(more, m) = Append(Procs(configs, m), p)
      BY <1>1, <2>2
    <3>2. Len(Procs(more, m)) = Len(Procs(configs, m)) + 1
      BY <2>1, <3>1
    <3> QED BY <2>1, <2>2, <3>1, <3>2
  <2>3. CASE m # n
    BY <1>1, <2>3
  <2> QED BY <2>2, <2>3
<1>4. DOMAIN more = D /\ DOMAIN configs = D
  BY <1>1
<1>5. Unique(more)
  <2> SUFFICES ASSUME NEW k \in D, NEW m \in D, NEW i \in 1..Len(Procs(more, k)),
                      NEW j \in 1..Len(Procs(more, m)),
                      InternalName(Procs(more, k)[i]) = InternalName(Procs(more, m)[j]),
                      <<k, i>> # <<m, j>>
               PROVE  Procs(more, k)[i].moveable # Procs(more, m)[j].moveable
    BY <1>4 DEF Unique
  <2>1. CASE /\ i \in 1..Len(Procs(configs, k)) /\ Procs(more, k)[i] = Procs(configs, k)[i]
             /\ j \in 1..Len(Procs(configs, m)) /\ Procs(more, m)[j] = Procs(configs, m)[j]
    BY <1>4, <2>1 DEF Unique
  <2>2. CASE /\ i \in 1..Len(Procs(configs, k)) /\ Procs(more, k)[i] = Procs(configs, k)[i]
             /\ Procs(more, m)[j] = p
    BY <1>4, <2>2 DEF Fits
  <2>3. CASE /\ Procs(more, k)[i] = p
             /\ j \in 1..Len(Procs(configs, m)) /\ Procs(more, m)[j] = Procs(configs, m)[j]
    BY <1>4, <2>3 DEF Fits
  <2>4. CASE /\ k = n /\ i = Len(Procs(configs, k)) + 1
             /\ m = n /\ j = Len(Procs(configs, m)) + 1
    BY <2>4
  <2> QED BY <1>3, <2>1, <2>2, <2>3, <2>4
<1>6. ASSUME NEW q, Fits(configs, q), InternalName(q) # InternalName(p) PROVE Fits(more, q)
  BY <1>3, <1>4, <1>6 DEF Fits
<1> QED BY <1>5, <1>6 DEF more

\* Nothing is lost when a process is added, and it is there.
LEMMA AddToHas ==
  ASSUME NEW D, NEW configs \in [D -> Config], NEW n, NEW p \in AnyProcess,
         NEW nodes \in SUBSET D
  PROVE  /\ \A q : Has(configs, nodes, q) => Has(AddTo(configs, n, p), nodes, q)
         /\ n \in nodes => Has(AddTo(configs, n, p), nodes, p)
<1> DEFINE more == AddTo(configs, n, p)
<1>1. \A m \in D : Procs(more, m) = IF m = n THEN Append(Procs(configs, m), p)
                                    ELSE Procs(configs, m)
  BY AddToBooks
<1>2. \A m \in D : Procs(configs, m) \in Seq(AnyProcess)
  BY ProcsTyped
<1> HIDE DEF more
<1>3. ASSUME NEW m \in D, NEW i \in 1..Len(Procs(configs, m))
      PROVE  i \in 1..Len(Procs(more, m)) /\ Procs(more, m)[i] = Procs(configs, m)[i]
  <2>1. CASE m = n
    BY <1>1, <1>2, <2>1
  <2>2. CASE m # n
    BY <1>1, <2>2
  <2> QED BY <2>1, <2>2
<1>4. ASSUME NEW q, Has(configs, nodes, q) PROVE Has(more, nodes, q)
  BY <1>3, <1>4 DEF Has
<1>5. ASSUME n \in nodes PROVE Has(more, nodes, p)
  <2>1. Procs(configs, n) \in Seq(AnyProcess) /\ Procs(more, n) = Append(Procs(configs, n), p)
    BY <1>1, <1>2, <1>5
  <2>2. Len(Procs(configs, n)) + 1 \in 1..Len(Procs(more, n))
    BY <2>1
  <2>3. Procs(more, n)[Len(Procs(configs, n)) + 1] = p
    BY <2>1
  <2> QED BY <1>5, <2>2, <2>3 DEF Has
<1> QED BY <1>4, <1>5 DEF more

\* A list of them.
LEMMA AddAllUnique ==
  ASSUME NEW D, NEW configs \in [D -> Config], NEW list \in Seq(AnyProcess), NEW to,
         Unique(configs), Names(list), AllFit(configs, list)
  PROVE  Unique(AddAll(configs, list, to))
<1> DEFINE f == Added(configs, list, to)
           good == {i \in 0..Len(list) :
                      Unique(f[i]) /\ \A k \in (i + 1)..Len(list) : Fits(f[i], list[k])}
<1>1. /\ AddAll(configs, list, to) = f[Len(list)] /\ f[0] = configs
      /\ \A i \in 1..Len(list) : f[i] = AddTo(f[i - 1], to[i], list[i])
      /\ \A i \in 0..Len(list) : f[i] \in [D -> Config]
  BY AddAllGoes
<1>2. Len(list) \in Nat /\ \A i \in 1..Len(list) : list[i] \in AnyProcess
  OBVIOUS
<1> HIDE DEF f
<1>3. 0 \in good
  BY <1>1, <1>2 DEF AllFit
<1>4. ASSUME NEW i \in 1..Len(list), i - 1 \in good PROVE i \in good
  <2>1. /\ f[i - 1] \in [D -> Config] /\ Unique(f[i - 1]) /\ Fits(f[i - 1], list[i])
        /\ \A k \in (i + 1)..Len(list) : Fits(f[i - 1], list[k])
    BY <1>1, <1>2, <1>4
  <2>2. /\ Unique(AddTo(f[i - 1], to[i], list[i]))
        /\ \A q : Fits(f[i - 1], q) /\ InternalName(q) # InternalName(list[i])
             => Fits(AddTo(f[i - 1], to[i], list[i]), q)
    BY <1>2, <2>1, AddToUnique
  <2>3. \A k \in (i + 1)..Len(list) : InternalName(list[k]) # InternalName(list[i])
    BY <1>2 DEF Names
  <2>4. \A k \in (i + 1)..Len(list) : Fits(f[i], list[k])
    BY <1>1, <2>1, <2>2, <2>3
  <2>5. i \in 0..Len(list) /\ Unique(f[i])
    BY <1>1, <1>2, <2>2
  <2> QED BY <2>4, <2>5
<1>5. Len(list) \in good
  <2> HIDE DEF good
  <2>1. \A i \in 0..Len(list) : i \in good
    BY <1>2, <1>3, <1>4, Induction
  <2> QED BY <1>2, <2>1
<1> QED BY <1>1, <1>5

\* Nothing is lost when a list is added, and all of it is there.
LEMMA AddAllHas ==
  ASSUME NEW D, NEW configs \in [D -> Config], NEW list \in Seq(AnyProcess), NEW to,
         NEW nodes \in SUBSET D, \A i \in 1..Len(list) : to[i] \in nodes
  PROVE  /\ \A q : Has(configs, nodes, q) => Has(AddAll(configs, list, to), nodes, q)
         /\ \A q : Listed(list, q) => Has(AddAll(configs, list, to), nodes, q)
<1> DEFINE f == Added(configs, list, to)
           good(q) == {i \in 0..Len(list) : Has(configs, nodes, q) => Has(f[i], nodes, q)}
           better == {i \in 0..Len(list) : \A k \in 1..i : Has(f[i], nodes, list[k])}
<1>1. /\ AddAll(configs, list, to) = f[Len(list)] /\ f[0] = configs
      /\ \A i \in 1..Len(list) : f[i] = AddTo(f[i - 1], to[i], list[i])
      /\ \A i \in 0..Len(list) : f[i] \in [D -> Config]
  BY AddAllGoes
<1>2. Len(list) \in Nat /\ \A i \in 1..Len(list) : list[i] \in AnyProcess
  OBVIOUS
<1> HIDE DEF f
<1>3. ASSUME NEW i \in 1..Len(list)
      PROVE  /\ i - 1 \in 0..Len(list) /\ i \in 0..Len(list)
             /\ \A q : Has(f[i - 1], nodes, q) => Has(f[i], nodes, q)
             /\ Has(f[i], nodes, list[i])
  <2>1. i - 1 \in 0..Len(list) /\ i \in 0..Len(list)
    BY <1>2
  <2>2. f[i - 1] \in [D -> Config] /\ list[i] \in AnyProcess /\ to[i] \in nodes
        /\ f[i] = AddTo(f[i - 1], to[i], list[i])
    BY <1>1, <1>2, <2>1
  <2> QED BY <2>1, <2>2, AddToHas
<1>4. ASSUME NEW q, Has(configs, nodes, q) PROVE Has(f[Len(list)], nodes, q)
  <2>1. 0 \in good(q)
    BY <1>1, <1>2
  <2>2. \A i \in 1..Len(list) : i - 1 \in good(q) => i \in good(q)
    BY <1>3
  <2> DEFINE set == good(q)
  <2>3. 0 \in set /\ \A i \in 1..Len(list) : i - 1 \in set => i \in set
    BY <2>1, <2>2
  <2> HIDE DEF set
  <2>4. \A i \in 0..Len(list) : i \in set
    BY <1>2, <2>3, Induction
  <2>5. Len(list) \in good(q)
    BY <1>2, <2>4 DEF set
  <2> QED BY <1>4, <2>5
<1>5. \A k \in 1..Len(list) : Has(f[Len(list)], nodes, list[k])
  <2>1. 0 \in better
    BY <1>2
  <2>2. ASSUME NEW i \in 1..Len(list), i - 1 \in better PROVE i \in better
    <3>1. \A k \in 1..i : k = i \/ k \in 1..(i - 1)
      BY <1>2
    <3> QED BY <1>3, <2>2, <3>1
  <2> HIDE DEF better
  <2>3. \A i \in 0..Len(list) : i \in better
    BY <1>2, <2>1, <2>2, Induction
  <2>4. Len(list) \in better
    BY <1>2, <2>3
  <2> QED BY <2>4 DEF better
<1> QED BY <1>1, <1>4, <1>5 DEF Listed

-----------------------------------------------------------------------------
(* The nodes that are chosen are listed ones.                              *)

\* Nodes are finitely many numbers.
LEMMA NodesFinite ==
  ASSUME NEW nodes \in SUBSET Node
  PROVE  nodes \subseteq Nat /\ IsFiniteSet(nodes) /\ Cardinality(nodes) \in Nat
<1>1. Node \subseteq Nat /\ IsFiniteSet(Node)
  BY DistributionAssumption
<1>2. IsFiniteSet(nodes)
  BY <1>1, FS_Subset
<1> QED BY <1>1, <1>2, FS_CardinalityType

\* The seat of a node among others is its rank.
Seat(nodes, n) == Cardinality({m \in nodes : m < n})

\* Every node has its own, and all seats are taken.
LEMMA SeatsDiffer ==
  ASSUME NEW nodes \in SUBSET Node, nodes # {}
  PROVE  /\ Cardinality(nodes) \in Nat \ {0}
         /\ \A n \in nodes : Seat(nodes, n) \in 0..(Cardinality(nodes) - 1)
         /\ \A m, n \in nodes : Seat(nodes, m) = Seat(nodes, n) => m = n
         /\ \A k \in 0..(Cardinality(nodes) - 1) : \E n \in nodes : Seat(nodes, n) = k
<1> DEFINE less == {u \in nodes \X nodes : u[1] < u[2]}
           rank == Rank(nodes, less)
<1>1. nodes \subseteq Nat /\ IsFiniteSet(nodes) /\ Cardinality(nodes) \in Nat
  BY NodesFinite
<1>2. Cardinality(nodes) # 0
  BY <1>1, FS_EmptySet
<1>4. \A m, n \in nodes : <<m, n>> \in less <=> m < n
  OBVIOUS
<1>5. /\ \A n \in nodes : <<n, n>> \notin less
      /\ \A x, y, z \in nodes : <<x, y>> \in less /\ <<y, z>> \in less => <<x, z>> \in less
      /\ \A m, n \in nodes : m = n \/ <<m, n>> \in less \/ <<n, m>> \in less
  <2> HIDE DEF less
  <2> QED BY <1>1, <1>4
<1>6. /\ rank \in [nodes -> 0..(Cardinality(nodes) - 1)]
      /\ \A m, n \in nodes : rank[m] = rank[n] => m = n
  <2> HIDE DEF less
  <2> QED BY <1>1, <1>5, RanksDiffer
<1>7. \A n \in nodes : rank[n] = Seat(nodes, n)
  <2> SUFFICES ASSUME NEW n \in nodes PROVE rank[n] = Seat(nodes, n)
    OBVIOUS
  <2>1. {m \in nodes : <<m, n>> \in less} = {m \in nodes : m < n}
    BY <1>4
  <2> QED BY <2>1 DEF Rank, Seat
<1> HIDE DEF rank, less
<1>8. ASSUME NEW k \in 0..(Cardinality(nodes) - 1) PROVE \E n \in nodes : rank[n] = k
  BY <1>1, <1>6, EveryRank
<1> QED BY <1>1, <1>2, <1>6, <1>7, <1>8

\* A turn is a listed node's: the ranks of the nodes are all the remainders.
LEMMA TurnsAmongNodes ==
  ASSUME NEW nodes \in SUBSET Node, nodes # {}, NEW i \in Nat \ {0}
  PROVE  /\ NodeAt(nodes, i) \in nodes
         /\ Seat(nodes, NodeAt(nodes, i)) = (i - 1) % Cardinality(nodes)
<1> DEFINE k == (i - 1) % Cardinality(nodes)
<1>1. Cardinality(nodes) \in Nat \ {0}
  BY SeatsDiffer
<1>2. k \in 0..(Cardinality(nodes) - 1)
  BY <1>1
<1> HIDE DEF k
<1>3. \E n \in nodes : Seat(nodes, n) = k
  BY <1>2, SeatsDiffer
<1> QED BY <1>3 DEF NodeAt, Seat, k

\* The lightest node is a listed one, and no other carries less.
LEMMA LightestIsNode ==
  ASSUME NEW nodes \in SUBSET Node, nodes # {}, NEW nums \in [nodes -> Nat]
  PROVE  /\ Assignee(nums) \in nodes
         /\ \A m \in nodes : nums[Assignee(nums)] <= nums[m]
<1>1. nodes \subseteq Nat
  BY NodesFinite
<1> DEFINE loads == {nums[n] : n \in nodes}
<1>2. loads \subseteq Nat /\ loads # {}
  OBVIOUS
<1>3. PICK least \in loads : \A l \in loads : least <= l
  <2> HIDE DEF loads
  <2> QED BY <1>2, LeastNumber
<1> DEFINE lightest == {n \in nodes : nums[n] = least}
<1>4. lightest \subseteq Nat /\ lightest # {}
  BY <1>1
<1>5. PICK n \in lightest : \A m \in lightest : n <= m
  <2> HIDE DEF lightest
  <2> QED BY <1>4, LeastNumber
<1>6. /\ n \in nodes /\ \A m \in nodes : nums[n] <= nums[m]
      /\ \A m \in nodes : nums[n] = nums[m] => n <= m
  BY <1>3, <1>5
<1>7. DOMAIN nums = nodes
  OBVIOUS
<1> QED BY <1>6, <1>7 DEF Assignee

\* rank tells of each slot how many are swept before it.
Sweeps(rank, slots, to, k) ==
  /\ rank \in [slots -> Nat]
  /\ \A s, t \in slots : rank[s] = rank[t] => s = t
  /\ \A s, t \in slots : Sooner(s, t) => rank[s] < rank[t]
  /\ \A i \in 1..k : \E s \in slots : rank[s] = i - 1 /\ to[i] = s[2]

\* The slots are swept in their order: there are enough, and each has its turn.
LEMMA SweepGoes ==
  ASSUME NEW D, NEW configs \in [D -> Config], NEW nodes \in SUBSET Node, nodes \subseteq D,
         nodes # {}, NEW k \in Nat
  PROVE  \E rank : Sweeps(rank, Slots(configs, nodes, k), Swept(configs, nodes, k), k)
<1> DEFINE level(n) == Len(Procs(configs, n))
           slots == Slots(configs, nodes, k)
           less == {u \in slots \X slots : Sooner(u[1], u[2])}
           rank == Rank(slots, less)
<1>1. nodes \subseteq Nat /\ IsFiniteSet(nodes)
  BY NodesFinite
<1>2. \A n \in nodes : level(n) \in Nat
  BY ProcsTyped
<1>3. \A s \in slots : s[1] \in Int /\ s[2] \in nodes /\ s = <<s[1], s[2]>>
  BY <1>2 DEF Slots
<1>4. IsFiniteSet(slots)
  <2> DEFINE row(n) == {<<level(n) + i - 1, n>> : i \in 1..k}
             rows == {row(n) : n \in nodes}
             all == [n \in nodes |-> row(n)]
  <2>1. ASSUME NEW n \in nodes PROVE IsFiniteSet(row(n))
    <3> DEFINE made == [i \in 1..k |-> <<level(n) + i - 1, n>>]
    <3>1. made \in Surjection(1..k, row(n))
      BY DEF Surjection
    <3>2. IsFiniteSet(1..k)
      BY FS_Interval
    <3> HIDE DEF made, row
    <3> QED BY <3>1, <3>2, FS_Surjection
  <2>2. all \in Surjection(nodes, rows)
    BY DEF Surjection
  <2>3. slots = UNION rows
    BY DEF Slots
  <2>4. \A R \in rows : IsFiniteSet(R)
    BY <2>1
  <2> HIDE DEF rows, all, slots
  <2>5. IsFiniteSet(rows)
    BY <1>1, <2>2, FS_Surjection
  <2> QED BY <2>3, <2>4, <2>5, FS_UNION
<1>5. Cardinality(slots) \in Nat /\ k <= Cardinality(slots)
  <2>1. PICK n \in nodes : TRUE
    OBVIOUS
  <2> DEFINE made == [i \in 1..k |-> <<level(n) + i - 1, n>>]
  <2>2. made \in [1..k -> slots]
    BY DEF Slots
  <2>3. \A i, j \in 1..k : made[i] = made[j] => i = j
    <3>1. \A i \in 1..k : made[i][1] = level(n) + i - 1
      OBVIOUS
    <3>2. level(n) \in Nat
      BY <1>2
    <3> HIDE DEF made, level
    <3> QED BY <3>1, <3>2
  <2>4. made \in Injection(1..k, slots)
    <3> HIDE DEF made, slots
    <3> QED BY <2>2, <2>3, SMT DEF Injection, IsInjective
  <2>5. Cardinality(1..k) = k
    BY FS_Interval
  <2> HIDE DEF made, slots
  <2> QED BY <1>4, <2>4, <2>5, FS_Injection, FS_CardinalityType
<1>6. \A s, t \in slots : <<s, t>> \in less <=> Sooner(s, t)
  OBVIOUS
<1> HIDE DEF slots
<1>7. /\ \A s \in slots : <<s, s>> \notin less
      /\ \A x, y, z \in slots : <<x, y>> \in less /\ <<y, z>> \in less => <<x, z>> \in less
      /\ \A s, t \in slots : s = t \/ <<s, t>> \in less \/ <<t, s>> \in less
  <2> HIDE DEF less
  <2>1. \A s \in slots : s[1] \in Int /\ s[2] \in Int
    BY <1>1, <1>3
  <2>2. \A s, t \in slots : s[1] = t[1] /\ s[2] = t[2] => s = t
    BY <1>3
  <2>3. \A s \in slots : ~ Sooner(s, s)
    BY <2>1 DEF Sooner
  <2>4. \A x, y, z \in slots : Sooner(x, y) /\ Sooner(y, z) => Sooner(x, z)
    BY <2>1 DEF Sooner
  <2>5. \A s, t \in slots : s = t \/ Sooner(s, t) \/ Sooner(t, s)
    BY <2>1, <2>2 DEF Sooner
  <2> QED BY <1>6, <2>3, <2>4, <2>5
<1>8. /\ rank \in [slots -> 0..(Cardinality(slots) - 1)]
      /\ \A s, t \in slots : rank[s] = rank[t] => s = t
  <2> HIDE DEF less
  <2> QED BY <1>4, <1>7, RanksDiffer
<1>9. \A s \in slots : rank[s] = Cardinality({t \in slots : Sooner(t, s)})
  <2> SUFFICES ASSUME NEW s \in slots PROVE rank[s] = Cardinality({t \in slots : Sooner(t, s)})
    OBVIOUS
  <2>1. {t \in slots : <<t, s>> \in less} = {t \in slots : Sooner(t, s)}
    BY <1>6
  <2> QED BY <2>1 DEF Rank
<1> HIDE DEF rank, less
<1>10. ASSUME NEW i \in 1..k
       PROVE  \E s \in slots : rank[s] = i - 1 /\ Swept(configs, nodes, k)[i] = s[2]
  <2>1. i - 1 \in 0..(Cardinality(slots) - 1)
    BY <1>5
  <2>2. \E s \in slots : rank[s] = i - 1
    BY <1>4, <1>8, <2>1, EveryRank
  <2>3. \E s \in slots : Cardinality({t \in slots : Sooner(t, s)}) = i - 1
    BY <1>9, <2>2
  <2> DEFINE sl == CHOOSE s \in slots : Cardinality({t \in slots : Sooner(t, s)}) = i - 1
  <2>4. sl \in slots /\ Cardinality({t \in slots : Sooner(t, sl)}) = i - 1
    BY <2>3
  <2>5. Swept(configs, nodes, k)[i] = sl[2]
    BY DEF Swept, slots
  <2> HIDE DEF sl
  <2> QED BY <1>9, <2>4, <2>5
<1>11. \A s, t \in slots : Sooner(s, t) => rank[s] < rank[t]
  <2> HIDE DEF less
  <2> QED BY <1>4, <1>6, <1>7, RanksAscend DEF rank
<1>12. rank \in [slots -> Nat]
  BY <1>5, <1>8
<1>13. Sweeps(rank, slots, Swept(configs, nodes, k), k)
  BY <1>8, <1>10, <1>11, <1>12 DEF Sweeps
<1> QED BY <1>13 DEF slots

\* The sweep gives each process to a listed node: there are slots enough.
LEMMA SweepsAmongNodes ==
  ASSUME NEW D, NEW configs \in [D -> Config], NEW nodes \in SUBSET Node, nodes \subseteq D,
         nodes # {}, NEW k \in Nat
  PROVE  \A i \in 1..k : Swept(configs, nodes, k)[i] \in nodes
<1>1. \A i \in 1..k : \E s \in Slots(configs, nodes, k) : Swept(configs, nodes, k)[i] = s[2]
  <2>1. PICK rank : Sweeps(rank, Slots(configs, nodes, k), Swept(configs, nodes, k), k)
    BY SweepGoes
  <2> QED BY <2>1 DEF Sweeps
<1>2. \A s \in Slots(configs, nodes, k) : s[2] \in nodes
  BY DEF Slots
<1> QED BY <1>1, <1>2

\* at tells of each process that stays where it was.
Pinned(at, kept, procs) ==
  /\ \A k \in 1..Len(kept) :
       at[k] \in 1..Len(procs) /\ kept[k] = procs[at[k]] /\ kept[k].moveable = FALSE
  /\ \A k, l \in 1..Len(kept) : at[k] = at[l] => k = l

\* What stays on a node was there before, once, and is pinned.
LEMMA KeptArePinned ==
  ASSUME NEW c \in Config
  PROVE  \E at : Pinned(at, Kept(c), c.mProcs)
<1> DEFINE s == c.mProcs
           I == {i \in DOMAIN s : ~ s[i].moveable}
<1>1. s \in Seq(AnyProcess)
  BY ConfigShape
<1>2. Kept(c) = Chosen(s, I)
  BY DEF Kept
<1>3. \A i \in 1..Len(s) : i \in I => s[i].moveable = FALSE
  <2>1. ASSUME NEW i \in 1..Len(s), i \in I PROVE s[i].moveable = FALSE
    <3>1. s[i] \in AnyProcess /\ ~ s[i].moveable
      BY <1>1, <2>1
    <3>2. s[i].moveable \in BOOLEAN
      BY <3>1, AnyIsReadable DEF Readable
    <3> QED BY <3>1, <3>2
  <2> QED BY <2>1
<1> HIDE DEF s, I
<1>4. PICK at : Whence(at, Chosen(s, I), s, I, Len(s))
  BY <1>1, ChosenOnes
<1> DEFINE kept == Chosen(s, I)
<1> HIDE DEF kept
<1>5. /\ \A k \in 1..Len(kept) : at[k] \in 1..Len(s) /\ at[k] \in I /\ kept[k] = s[at[k]]
      /\ \A k, l \in 1..Len(kept) : at[k] = at[l] => k = l
  BY <1>4 DEF Whence, kept
<1>6. \A k \in 1..Len(kept) : kept[k].moveable = FALSE
  BY <1>3, <1>5
<1>7. Pinned(at, kept, s)
  BY <1>5, <1>6 DEF Pinned
<1>8. Pinned(at, Kept(c), c.mProcs)
  BY <1>2, <1>7 DEF s, kept
<1> QED BY <1>8

\* Every node of D has left what is not moveable of its configuration.
Remains(D, configs, left) == \A n \in D : left[n] = RemoveMoveable(configs[n])

\* No node of D has anything moveable.
PinnedOnly(D, left) ==
  \A n \in D : \A k \in 1..Len(Procs(left, n)) : Procs(left, n)[k].moveable = FALSE

\* What is pinned is unique as it was.
LEMMA RemainUnique ==
  ASSUME NEW D, NEW configs \in [D -> Config], Unique(configs), NEW left,
         left \in [D -> Config], Remains(D, configs, left)
  PROVE  Unique(left) /\ PinnedOnly(D, left)
<1>1. \A n \in D : /\ configs[n] \in Config /\ left[n] \in Config
                   /\ Procs(left, n) = Kept(configs[n]) /\ Procs(configs, n) = configs[n].mProcs
  BY KeptIsConfig DEF Procs, Remains
<1>2. left \in [D -> Config]
  OBVIOUS
<1>3. ASSUME NEW n \in D
      PROVE  \E at : Pinned(at, Procs(left, n), Procs(configs, n))
  <2> DEFINE c == configs[n]
  <2>1. c \in Config /\ Procs(left, n) = Kept(c) /\ Procs(configs, n) = c.mProcs
    BY <1>1
  <2>2. \E at : Pinned(at, Kept(c), c.mProcs)
    BY <2>1, KeptArePinned
  <2> QED BY <2>1, <2>2
<1>4. Unique(left)
  <2> SUFFICES ASSUME NEW n \in D, NEW m \in D,
                      NEW i \in 1..Len(Procs(left, n)), NEW j \in 1..Len(Procs(left, m)),
                      InternalName(Procs(left, n)[i]) = InternalName(Procs(left, m)[j]),
                      <<n, i>> # <<m, j>>
               PROVE  FALSE
    BY <1>2 DEF Unique
  <2>1. PICK at : Pinned(at, Procs(left, n), Procs(configs, n))
    BY <1>3
  <2>2. PICK to : Pinned(to, Procs(left, m), Procs(configs, m))
    BY <1>3
  <2>3. Procs(left, n)[i].moveable = FALSE /\ Procs(left, m)[j].moveable = FALSE
    BY <2>1, <2>2 DEF Pinned
  <2> DEFINE a == at[i]
             b == IF n = m THEN at[j] ELSE to[j]
  <2>4. /\ a \in 1..Len(Procs(configs, n)) /\ Procs(left, n)[i] = Procs(configs, n)[a]
        /\ b \in 1..Len(Procs(configs, m)) /\ Procs(left, m)[j] = Procs(configs, m)[b]
    BY <2>1, <2>2 DEF Pinned
  <2>5. <<n, a>> # <<m, b>>
    BY <2>1 DEF Pinned
  <2>6. DOMAIN configs = D
    OBVIOUS
  <2> HIDE DEF a, b
  <2>7. /\ InternalName(Procs(configs, n)[a]) = InternalName(Procs(configs, m)[b])
        /\ Procs(configs, n)[a].moveable = Procs(configs, m)[b].moveable
    BY <2>3, <2>4
  <2>8. n \in DOMAIN configs /\ m \in DOMAIN configs
    BY <2>6
  <2> QED BY <2>4, <2>5, <2>7, <2>8 DEF Unique
<1>5. PinnedOnly(D, left)
  BY <1>3 DEF Pinned, PinnedOnly
<1> QED BY <1>4, <1>5

\* Empty containers add nothing.
LEMMA ContainersEmpty ==
  ASSUME NEW D, NEW left \in [D -> Config], NEW nodes
  PROVE  \A n \in DOMAIN WithContainers(left, nodes) :
           Procs(WithContainers(left, nodes), n) = IF n \in D THEN Procs(left, n) ELSE <<>>
BY DEF WithContainers, Procs, EmptyConfig

\* ... so unique names stay unique.
LEMMA ContainersUnique ==
  ASSUME NEW D, NEW left \in [D -> Config], NEW nodes, NEW configs,
         configs = WithContainers(left, nodes)
  PROVE  /\ Unique(left) => Unique(configs)
         /\ \A p : Fits(left, p) => Fits(configs, p)
<1>1. \A n \in DOMAIN configs : Procs(configs, n) = IF n \in D THEN Procs(left, n) ELSE <<>>
  BY ContainersEmpty
<1>2. \A n \in DOMAIN configs : \A i \in 1..Len(Procs(configs, n)) :
         n \in D /\ i \in 1..Len(Procs(left, n)) /\ Procs(configs, n) = Procs(left, n)
  <2> SUFFICES ASSUME NEW n \in DOMAIN configs, NEW i, i \in 1..Len(Procs(configs, n))
               PROVE  n \in D /\ Procs(configs, n) = Procs(left, n)
    OBVIOUS
  <2>1. CASE n \in D
    BY <1>1, <2>1
  <2>2. CASE n \notin D
    BY <1>1, <2>2
  <2> QED BY <2>1, <2>2
<1> QED BY <1>2 DEF Unique, Fits

\* What a distribution begins with: nothing is on a node that is to be placed.
LEMMA FitsAtFirst ==
  ASSUME BookTypes, Unique(mCompConfig), NEW again \in BOOLEAN, NEW force \in BOOLEAN,
         ~ again => DOMAIN mCompConfig = {}, Loads[file], NEW nodes, NEW configs,
         configs = WithContainers(Prepared(again, force), nodes)
  PROVE  Unique(configs) /\ AllFit(configs, ToDistribute(again, force))
<1> DEFINE left == Prepared(again, force)
           list == ToDistribute(again, force)
<1>1. CASE ~ again \/ force
  <2>1. DOMAIN left = {} /\ left \in [{} -> Config]
    BY <1>1 DEF Prepared, BookTypes
  <2> HIDE DEF left, list
  <2>2. Unique(left) /\ \A p : Fits(left, p)
    BY <2>1 DEF Unique, Fits
  <2> QED BY <2>1, <2>2, ContainersUnique DEF AllFit, left, list
<1>2. CASE again /\ ~ force
  <2>1. /\ left = [n \in DOMAIN mCompConfig |-> RemoveMoveable(mCompConfig[n])]
        /\ list = Moving[file]
    BY <1>2 DEF Prepared, ToDistribute
  <2>2. file \in Files /\ mCompConfig \in [DOMAIN mCompConfig -> Config]
    BY DEF BookTypes
  <2> HIDE DEF left, list
  <2>3. /\ left \in [DOMAIN mCompConfig -> Config] /\ Unique(left)
        /\ \A n \in DOMAIN mCompConfig : \A k \in 1..Len(Procs(left, n)) :
             Procs(left, n)[k].moveable = FALSE
    <3> DEFINE D == DOMAIN mCompConfig
    <3> HIDE DEF D
    <3>1. /\ mCompConfig \in [D -> Config] /\ left \in [D -> Config] /\ Unique(mCompConfig)
          /\ Remains(D, mCompConfig, left)
      BY <2>1, <2>2, KeptIsConfig DEF D, Remains
    <3>2. Unique(left) /\ PinnedOnly(D, left)
      BY ONLY <3>1, RemainUnique
    <3> QED BY <3>1, <3>2 DEF D, PinnedOnly
  <2>4. \A k \in 1..Len(list) : list[k].moveable
    BY <2>1, <2>2, MovingOnce
  <2>5. \A k \in 1..Len(list) : Fits(left, list[k])
    BY <2>3, <2>4 DEF Fits
  <2> QED BY <2>3, <2>5, ContainersUnique DEF AllFit, left, list
<1> QED BY <1>1, <1>2

\* What is to be distributed has every name once, and every moveable process.
LEMMA DistributedOnce ==
  ASSUME file \in Files, Loads[file], NEW again, NEW force, NEW list,
         list = ToDistribute(again, force)
  PROVE  /\ list \in Seq(AnyProcess) /\ Names(list)
         /\ \A p \in Processes[file] : p.runnable /\ p.moveable => Listed(list, p)
<1>1. list = Moving[file] \/ list = Listing[file]
  BY DEF ToDistribute
<1>2. CASE list = Moving[file]
  BY <1>2, MovingOnce DEF Listed
<1>3. CASE list = Listing[file]
  BY <1>3, ListingOnce DEF Listed
<1> QED BY <1>1, <1>2, <1>3

\* The list c is what there is at the places in I of s, and nothing else.
Chose(c, s, I) ==
  /\ \A k \in 1..Len(c) : \E i \in 1..Len(s) : i \in I /\ c[k] = s[i]
  /\ \A i \in 1..Len(s) : i \in I => \E k \in 1..Len(c) : c[k] = s[i]

\* That is what is chosen of a list.
LEMMA ChosenAre ==
  ASSUME NEW s \in Seq(AnyProcess), Names(s), NEW I
  PROVE  Chose(Chosen(s, I), s, I)
<1>1. \A k \in 1..Len(Chosen(s, I)) : \E i \in 1..Len(s) : i \in I /\ Chosen(s, I)[k] = s[i]
  BY ChosenOnce
<1>2. \A i \in 1..Len(s) : i \in I => \E k \in 1..Len(Chosen(s, I)) : Chosen(s, I)[k] = s[i]
  BY ChosenOnce
<1> QED BY <1>1, <1>2 DEF Chose

\* A list parted in two.
LEMMA Parted ==
  ASSUME NEW list \in Seq(AnyProcess), Names(list), NEW I, NEW J,
         I \cap J = {}, DOMAIN list \subseteq I \cup J, NEW todo, NEW rest,
         todo = Chosen(list, I), rest = Chosen(list, J)
  PROVE  /\ todo \in Seq(AnyProcess) /\ rest \in Seq(AnyProcess)
         /\ Names(todo) /\ Names(rest) /\ Apart(todo, rest)
         /\ \A p : Listed(list, p) => Listed(todo, p) \/ Listed(rest, p)
         /\ \A configs : AllFit(configs, list) => AllFit(configs, todo) /\ AllFit(configs, rest)
<1>1. /\ todo \in Seq(AnyProcess) /\ Names(todo)
      /\ \A k \in 1..Len(todo) : \E i \in 1..Len(list) : i \in I /\ todo[k] = list[i]
      /\ \A i \in 1..Len(list) : i \in I => \E k \in 1..Len(todo) : todo[k] = list[i]
  <2>1. todo \in Seq(AnyProcess)
    BY ChosenOnce
  <2>2. Names(todo)
    BY ChosenOnce
  <2>3. Chose(todo, list, I)
    BY ChosenAre
  <2> QED BY <2>1, <2>2, <2>3 DEF Chose
<1>2. /\ rest \in Seq(AnyProcess) /\ Names(rest)
      /\ \A k \in 1..Len(rest) : \E i \in 1..Len(list) : i \in J /\ rest[k] = list[i]
      /\ \A i \in 1..Len(list) : i \in J => \E k \in 1..Len(rest) : rest[k] = list[i]
  <2>1. rest \in Seq(AnyProcess)
    BY ChosenOnce
  <2>2. Names(rest)
    BY ChosenOnce
  <2>3. Chose(rest, list, J)
    BY ChosenAre
  <2> QED BY <2>1, <2>2, <2>3 DEF Chose
<1>3. Apart(todo, rest)
  <2> SUFFICES ASSUME NEW k \in 1..Len(todo), NEW l \in 1..Len(rest),
                      InternalName(todo[k]) = InternalName(rest[l])
               PROVE  FALSE
    BY DEF Apart
  <2>1. PICK i \in 1..Len(list) : i \in I /\ todo[k] = list[i]
    BY <1>1
  <2>2. PICK j \in 1..Len(list) : j \in J /\ rest[l] = list[j]
    BY <1>2
  <2>3. i = j
    BY <2>1, <2>2 DEF Names
  <2> QED BY <2>1, <2>2, <2>3
<1>4. ASSUME NEW p, Listed(list, p) PROVE Listed(todo, p) \/ Listed(rest, p)
  <2>1. PICK i \in 1..Len(list) : list[i] = p
    BY <1>4 DEF Listed
  <2>2. i \in I \/ i \in J
    OBVIOUS
  <2> QED BY <1>1, <1>2, <2>1, <2>2 DEF Listed
<1>5. ASSUME NEW configs, AllFit(configs, list)
      PROVE  AllFit(configs, todo) /\ AllFit(configs, rest)
  BY <1>1, <1>2, <1>5 DEF AllFit
<1> QED BY <1>1, <1>2, <1>3, <1>4, <1>5

\* What has to be shown of the books after a step.
LEMMA PlacesAfter ==
  ASSUME NEW configs, NEW c, NEW nodes, mCompConfig' = configs, call' = c,
         DOMAIN mDistState' = nodes, Unique(configs),
         c.at = "await" /\ ~ c.again => mDistributed' = FALSE,
         c.at \in {"place", "finish"} =>
           /\ Names(c.todo) /\ Names(c.rest) /\ Apart(c.todo, c.rest)
           /\ AllFit(configs, c.todo) /\ AllFit(configs, c.rest)
           /\ \A p \in mComponents' : p.runnable /\ p.moveable =>
                Has(configs, c.nodes, p) \/ Listed(c.todo, p) \/ Listed(c.rest, p),
         c.at = "done" /\ mDistributed' =>
           \A p \in mComponents' : p.runnable /\ p.moveable => Has(configs, nodes, p)
  PROVE  (Fitting /\ Covered)'
BY DEF Fitting, Covered

\* The books are left alone, and so is the distribution in hand.
LEMMA PlacesKept ==
  ASSUME Fitting, Covered, UNCHANGED <<bookVars, call>>
  PROVE  (Fitting /\ Covered)'
BY DEF Fitting, Covered, bookVars

\* It ends, before it has changed a configuration.
LEMMA PlacesOnEnd ==
  ASSUME BooksInv, Fitting, NEW how \in {"thrown", "badfile"}, call' = Ended(how),
         UNCHANGED mCompConfig
  PROVE  (Fitting /\ Covered)'
<1>1. Ended(how).at = how
  BY EndedState DEF BooksInv, BookTypes, CallAt
<1> DEFINE c == Ended(how)
<1> HIDE DEF c
<1>2. c.at \notin {"await", "place", "finish", "done"}
  BY <1>1 DEF c
<1>3. call' = c /\ Unique(mCompConfig)
  BY DEF Fitting, c
<1> QED BY <1>2, <1>3, PlacesAfter

LEMMA PlacesOnCall ==
  ASSUME BooksInv, Fitting, NEW nodes \in SUBSET Node, NEW again \in BOOLEAN,
         NEW force \in BOOLEAN, Call(nodes, again, force) \/ StopWaits
  PROVE  (Fitting /\ Covered)'
<1>1. UNCHANGED bookVars
  BY CallTaken
<1>3. \/ call'.at \in {"thrown", "stuck"}
      \/ call'.at = "await" /\ call'.again = again /\ ~ (mDistributed /\ ~ again)
  BY CallTaken
<1>4. call'.at = "await" /\ ~ call'.again => mDistributed' = FALSE
  BY <1>1, <1>3 DEF bookVars, BooksInv, BookTypes
<1>5. mCompConfig' = mCompConfig /\ Unique(mCompConfig)
  BY <1>1 DEF bookVars, Fitting
<1> DEFINE c == call'
<1>6. call' = c /\ c.at \notin {"place", "finish", "done"}
  BY <1>3
<1>7. c.at = "await" /\ ~ c.again => mDistributed' = FALSE
  BY <1>4
<1> HIDE DEF c
<1> QED BY <1>5, <1>6, <1>7, PlacesAfter

\* Nothing is left of the lists.
LEMMA NoneLeft ==
  ASSUME NEW configs
  PROVE  /\ Names(<<>>) /\ Apart(<<>>, <<>>) /\ AllFit(configs, <<>>)
         /\ \A p : ~ Listed(<<>>, p)
BY DEF Names, Apart, AllFit, Listed

\* A first or a later distribution that gives all its processes out in turns.
LEMMA PlacesOnDeal ==
  ASSUME BooksInv, Fitting, call.at = "await", Loads[file],
         NEW again \in BOOLEAN, NEW force \in BOOLEAN, ~ again => mDistributed = FALSE,
         NEW todo, todo = ToDistribute(again, force),
         NEW configs, configs = WithContainers(Prepared(again, force), call.nodes),
         NEW to, \A i \in 1..Len(todo) : to[i] \in call.nodes,
         mComponents' = Processes[file], mCompConfig' = AddAll(configs, todo, to),
         call' = [call EXCEPT !.at = "finish"]
  PROVE  (Fitting /\ Covered)'
<1> DEFINE nodes == call.nodes
           dealt == AddAll(configs, todo, to)
           c == [call EXCEPT !.at = "finish"]
<1>1. BookTypes /\ nodes \in SUBSET Node /\ call.todo = <<>> /\ call.rest = <<>>
  BY DEF BooksInv, BookTypes, CallState, Stages
<1>2. ~ again => DOMAIN mCompConfig = {}
  BY DEF BooksInv, SentAsBooked, Changing
<1>3. /\ todo \in Seq(AnyProcess) /\ Names(todo)
      /\ \A p \in Processes[file] : p.runnable /\ p.moveable => Listed(todo, p)
  BY <1>1, DistributedOnce DEF BookTypes
<1>4. configs \in [DOMAIN configs -> Config] /\ nodes \in SUBSET DOMAIN configs
  BY <1>1, PreparedTyped
<1>5. Unique(configs) /\ AllFit(configs, todo)
  BY <1>1, <1>2, FitsAtFirst DEF Fitting
<1>6. Unique(dealt)
  BY <1>3, <1>4, <1>5, AddAllUnique
<1>7. \A p : Listed(todo, p) => Has(dealt, nodes, p)
  BY <1>3, <1>4, AddAllHas
<1>8. /\ c.at = "finish" /\ c.todo = <<>> /\ c.rest = <<>> /\ c.nodes = nodes
  BY <1>1 DEF BooksInv, BookTypes, CallState
<1>9. mCompConfig' = dealt /\ call' = c
  OBVIOUS
<1> HIDE DEF dealt, c, nodes
<1> QED BY <1>3, <1>6, <1>7, <1>8, <1>9, NoneLeft, PlacesAfter

\* The round robin method deals out in its sweep.
LEMMA PlacesOnRoundRobin ==
  ASSUME BooksInv, Fitting, RoundRobin
  PROVE  (Fitting /\ Covered)'
<1> DEFINE todo == ToDistribute(call.again, call.force)
           configs == WithContainers(Prepared(call.again, call.force), call.nodes)
           to == Swept(configs, call.nodes, Len(todo))
<1>1. /\ call.at = "await" /\ BookTypes /\ call.nodes \in SUBSET Node
      /\ call.again \in BOOLEAN /\ call.force \in BOOLEAN
      /\ ~ call.again => mDistributed = FALSE
  BY DEF RoundRobin, Fitting, BooksInv, BookTypes, CallState
<1>2. CASE BadFile
  BY <1>2, PlacesOnEnd DEF BadFile
<1>3. CASE ~ BadFile
  <2>1. Loads[file] /\ mComponents' = Processes[file]
    BY <1>3 DEF RoundRobin
  <2>2. \/ call' = [call EXCEPT !.at = "spin"] /\ mCompConfig' = configs
        \/ /\ call.nodes = {} => todo = <<>>
           /\ call' = [call EXCEPT !.at = "finish"] /\ mCompConfig' = AddAll(configs, todo, to)
    BY <1>3 DEF RoundRobin
  <2>3. configs \in [DOMAIN configs -> Config] /\ call.nodes \subseteq DOMAIN configs
    BY <1>1, PreparedTyped
  <2>4. todo \in Seq(AnyProcess)
    BY <1>1, <2>1, DistributedOnce DEF BookTypes
  <2>5. CASE /\ call.nodes = {} => todo = <<>>
             /\ call' = [call EXCEPT !.at = "finish"] /\ mCompConfig' = AddAll(configs, todo, to)
    <3>1. \A i \in 1..Len(todo) : to[i] \in call.nodes
      <4> HIDE DEF todo, configs
      <4>1. CASE call.nodes = {}
        BY <2>5, <4>1
      <4>2. CASE call.nodes # {}
        <5>1. Len(todo) \in Nat
          BY <2>4
        <5> QED BY <1>1, <2>3, <4>2, <5>1, SweepsAmongNodes
      <4> QED BY <4>1, <4>2
    <3> HIDE DEF to
    <3> QED BY <1>1, <2>1, <2>5, <3>1, PlacesOnDeal
  <2>6. CASE call' = [call EXCEPT !.at = "spin"] /\ mCompConfig' = configs
    <3> DEFINE c == [call EXCEPT !.at = "spin"]
    <3>1. c.at = "spin" /\ call' = c
      BY <2>6 DEF BooksInv, BookTypes, CallState
    <3>2. ~ call.again => DOMAIN mCompConfig = {}
      BY <1>1 DEF BooksInv, SentAsBooked, Changing
    <3>3. Unique(configs)
      BY <1>1, <2>1, <3>2, FitsAtFirst DEF Fitting
    <3> HIDE DEF c, configs
    <3> QED BY <2>6, <3>1, <3>3, PlacesAfter
  <2> QED BY <2>2, <2>5, <2>6
<1> QED BY <1>2, <1>3

\* The default method deals out in turns.
LEMMA PlacesOnDefault ==
  ASSUME BooksInv, Fitting, Default
  PROVE  (Fitting /\ Covered)'
<1> DEFINE todo == ToDistribute(FALSE, FALSE)
           configs == WithContainers(mCompConfig, call.nodes)
           to == [i \in DOMAIN todo |-> NodeAt(call.nodes, i)]
<1>1. call.at = "await" /\ BookTypes /\ call.nodes \in SUBSET Node
  BY DEF Default, Awaited, BooksInv, BookTypes, CallState
<1>2. CASE BadFile
  BY <1>2, PlacesOnEnd DEF BadFile
<1>3. CASE mDistributed
  BY <1>3, PlacesOnEnd DEF Default, BadFile, bookVars
<1>4. CASE ~ BadFile /\ ~ mDistributed
  <2>1. /\ Loads[file] /\ mComponents' = Processes[file]
        /\ call.nodes # {} \/ todo = <<>>
        /\ mCompConfig' = AddAll(configs, todo, to) /\ call' = [call EXCEPT !.at = "finish"]
    BY <1>4 DEF Default, InTurns
  <2>2. configs = WithContainers(Prepared(FALSE, FALSE), call.nodes)
    BY DEF Prepared
  <2>3. todo \in Seq(AnyProcess)
    BY <1>1, <2>1, DistributedOnce DEF BookTypes
  <2>4. \A i \in 1..Len(todo) : to[i] \in call.nodes
    <3> HIDE DEF todo
    <3>1. ASSUME NEW i \in 1..Len(todo) PROVE to[i] \in call.nodes
      <4>1. call.nodes # {} /\ i \in Nat \ {0} /\ i \in DOMAIN todo
        BY <2>1, <2>3
      <4>2. NodeAt(call.nodes, i) \in call.nodes
        BY <1>1, <4>1, TurnsAmongNodes
      <4> QED BY <4>1, <4>2
    <3> QED BY <3>1
  <2>5. mDistributed = FALSE
    BY <1>1, <1>4 DEF BookTypes
  <2> HIDE DEF configs, to
  <2> QED BY <1>1, <2>1, <2>2, <2>4, <2>5, PlacesOnDeal
<1> QED BY <1>2, <1>3, <1>4

\* The balanced method parts what it has weights of from what it has not.
LEMMA PlacesOnPrepare ==
  ASSUME BooksInv, Fitting, Prepare
  PROVE  (Fitting /\ Covered)'
<1> DEFINE list == ToDistribute(call.again, call.force)
           I == {i \in DOMAIN list : Known(list[i])}
           J == {i \in DOMAIN list : ~ Known(list[i])}
           todo == Chosen(list, I)
           rest == Chosen(list, J)
           configs == WithContainers(Prepared(call.again, call.force), call.nodes)
           c == [call EXCEPT !.at = IF todo = <<>> THEN "finish" ELSE "place",
                             !.todo = todo, !.seen = mData, !.rest = rest,
                             !.nums = LoadsOf(configs, call.nodes)]
<1>1. /\ call.at = "await" /\ BookTypes /\ call.nodes \in SUBSET Node
      /\ call.again \in BOOLEAN /\ call.force \in BOOLEAN
      /\ ~ call.again => mDistributed = FALSE
  BY DEF Prepare, Awaited, Fitting, BooksInv, BookTypes, CallState
<1>2. CASE BadFile
  BY <1>2, PlacesOnEnd DEF BadFile
<1>3. CASE ~ BadFile
  <2>1. Loads[file] /\ mComponents' = Processes[file] /\ mCompConfig' = configs /\ call' = c
    BY <1>3 DEF Prepare
  <2>2. ~ call.again => DOMAIN mCompConfig = {}
    BY <1>1 DEF BooksInv, SentAsBooked, Changing
  <2>3. Unique(configs) /\ AllFit(configs, list)
    BY <1>1, <2>1, <2>2, FitsAtFirst DEF Fitting
  <2>4. /\ list \in Seq(AnyProcess) /\ Names(list)
        /\ \A p \in Processes[file] : p.runnable /\ p.moveable => Listed(list, p)
    BY <1>1, <2>1, DistributedOnce DEF BookTypes
  <2>5. I \cap J = {} /\ DOMAIN list \subseteq I \cup J
    OBVIOUS
  <2>6. c.at \in {"place", "finish"} /\ c.todo = todo /\ c.rest = rest
    <3> HIDE DEF list, todo, rest, configs
    <3> QED BY DEF BooksInv, BookTypes, CallState
  <2> HIDE DEF list, I, J, configs, c
  <2>7. /\ Names(todo) /\ Names(rest) /\ Apart(todo, rest)
        /\ \A p : Listed(list, p) => Listed(todo, p) \/ Listed(rest, p)
        /\ AllFit(configs, list) => AllFit(configs, todo) /\ AllFit(configs, rest)
    BY <2>4, <2>5, Parted
  <2> HIDE DEF todo, rest
  <2> QED BY <2>1, <2>3, <2>4, <2>6, <2>7, PlacesAfter
<1> QED BY <1>2, <1>3

\* The head of a list is placed.
LEMMA HeadPlaced ==
  ASSUME NEW D, NEW configs \in [D -> Config], NEW todo \in Seq(AnyProcess), todo # <<>>,
         NEW rest \in Seq(AnyProcess), NEW nodes \in SUBSET D, NEW n \in nodes,
         Unique(configs), Names(todo), Names(rest), Apart(todo, rest),
         AllFit(configs, todo), AllFit(configs, rest), NEW more,
         more = AddTo(configs, n, Head(todo))
  PROVE  /\ Unique(more) /\ Names(Tail(todo)) /\ Apart(Tail(todo), rest)
         /\ AllFit(more, Tail(todo)) /\ AllFit(more, rest)
         /\ \A q : Has(configs, nodes, q) \/ Listed(todo, q) \/ Listed(rest, q)
              => Has(more, nodes, q) \/ Listed(Tail(todo), q) \/ Listed(rest, q)
<1> DEFINE p == Head(todo)
           left == Tail(todo)
<1>1. /\ p = todo[1] /\ Len(todo) \in Nat /\ 1 \in 1..Len(todo) /\ p \in AnyProcess
      /\ Len(left) = Len(todo) - 1
      /\ \A k \in 1..Len(left) : k + 1 \in 1..Len(todo) /\ left[k] = todo[k + 1]
  <2>1. Len(todo) \in Nat /\ Len(todo) > 0
    BY EmptySeq
  <2>2. /\ p = todo[1] /\ p \in AnyProcess /\ Len(left) = Len(todo) - 1
        /\ \A k \in 1..Len(left) : left[k] = todo[k + 1]
    BY HeadTailProperties
  <2> HIDE DEF p, left
  <2> QED BY <2>1, <2>2
<1> HIDE DEF p, left
<1>2. Fits(configs, p)
  BY <1>1 DEF AllFit
<1>3. /\ Unique(more)
      /\ \A q : Fits(configs, q) /\ InternalName(q) # InternalName(p) => Fits(more, q)
  BY <1>1, <1>2, AddToUnique DEF p
<1>4. /\ \A q : Has(configs, nodes, q) => Has(more, nodes, q)
      /\ Has(more, nodes, p)
  BY <1>1, AddToHas DEF p
<1>5. ASSUME NEW k \in 1..Len(left)
      PROVE  /\ k + 1 \in 1..Len(todo) /\ left[k] = todo[k + 1]
             /\ InternalName(left[k]) # InternalName(p)
  <2>1. k + 1 \in 1..Len(todo) /\ left[k] = todo[k + 1] /\ k + 1 # 1
    BY <1>1
  <2> QED BY <1>1, <2>1 DEF Names
<1>6. Names(left)
  <2> SUFFICES ASSUME NEW k \in 1..Len(left), NEW l \in 1..Len(left),
                      InternalName(left[k]) = InternalName(left[l])
               PROVE  k = l
    BY DEF Names
  <2>1. k + 1 = l + 1
    BY <1>5 DEF Names
  <2> QED BY <1>1, <2>1
<1>7. Apart(left, rest)
  BY <1>5 DEF Apart
<1>8. AllFit(more, left)
  BY <1>3, <1>5 DEF AllFit
<1>9. AllFit(more, rest)
  BY <1>1, <1>3 DEF AllFit, Apart
<1>10. ASSUME NEW q, Listed(todo, q) PROVE Has(more, nodes, q) \/ Listed(left, q)
  <2>1. PICK k \in 1..Len(todo) : todo[k] = q
    BY <1>10 DEF Listed
  <2>2. CASE k = 1
    BY <1>1, <1>4, <2>1, <2>2
  <2>3. CASE k # 1
    <3>1. k - 1 \in 1..Len(left) /\ (k - 1) + 1 = k
      BY <1>1, <2>3
    <3>2. left[k - 1] = q
      BY <1>5, <2>1, <3>1
    <3> QED BY <3>1, <3>2 DEF Listed
  <2> QED BY <2>2, <2>3
<1> QED BY <1>3, <1>4, <1>6, <1>7, <1>8, <1>9, <1>10 DEF left

\* A turn of its loop: one list shrinks, the books grow by the same process.
LEMMA PlacesOnPlace ==
  ASSUME BooksInv, Fitting, Covered, IsStats(mData), Place
  PROVE  (Fitting /\ Covered)'
<1> DEFINE todo == call.todo
           rest == call.rest
           nodes == call.nodes
           n == Assignee(call.nums)
           D == DOMAIN mCompConfig
           more == AddTo(mCompConfig, n, Head(todo))
<1>1. /\ call.at = "place" /\ nodes # {} /\ mCompConfig' = more
      /\ UNCHANGED <<mComponents, mDistState, mDistributed>>
  BY DEF Place
<1>2. /\ todo \in Seq(AnyProcess) /\ todo # <<>> /\ rest \in Seq(AnyProcess)
      /\ nodes \in SUBSET Node /\ nodes \in SUBSET D /\ call.nums \in [nodes -> Nat]
      /\ mCompConfig \in [D -> Config]
  BY <1>1 DEF BooksInv, BookTypes, Stages, Changing, CallState, Numbers
<1>3. n \in nodes
  BY <1>1, <1>2, LightestIsNode
<1>4. /\ call'.at \in {"place", "finish"} /\ call'.todo = Tail(todo) /\ call'.rest = rest
      /\ call'.nodes = nodes
  <2>1. call \in CallState
    BY DEF BooksInv, BookTypes
  <2>2. call' = [call EXCEPT !.todo = Tail(@), !.nums[n] = @ + Weight(Head(call.todo)),
                   !.at = IF Len(call.todo) = 1 THEN "finish" ELSE "place"]
    BY DEF Place
  <2> HIDE DEF n
  <2> QED BY <2>1, <2>2 DEF CallState
<1>5. /\ Unique(mCompConfig) /\ Names(todo) /\ Names(rest) /\ Apart(todo, rest)
      /\ AllFit(mCompConfig, todo) /\ AllFit(mCompConfig, rest)
  BY <1>1 DEF Fitting
<1>6. \A p \in mComponents : p.runnable /\ p.moveable =>
        Has(mCompConfig, nodes, p) \/ Listed(todo, p) \/ Listed(rest, p)
  BY <1>1 DEF Covered
<1> DEFINE left == Tail(todo)
<1> HIDE DEF todo, rest, nodes, n, D
<1>7. /\ Unique(more) /\ Names(left) /\ Apart(left, rest)
      /\ AllFit(more, left) /\ AllFit(more, rest)
      /\ \A q : Has(mCompConfig, nodes, q) \/ Listed(todo, q) \/ Listed(rest, q)
           => Has(more, nodes, q) \/ Listed(left, q) \/ Listed(rest, q)
  BY <1>2, <1>3, <1>5, HeadPlaced
<1> HIDE DEF more, left
<1> DEFINE c == call'
<1>8. /\ call' = c /\ c.at \in {"place", "finish"}
      /\ c.todo = left /\ c.rest = rest /\ c.nodes = nodes
  BY <1>4 DEF left
<1> HIDE DEF c
<1>9. \A p \in mComponents' : p.runnable /\ p.moveable =>
        Has(more, c.nodes, p) \/ Listed(c.todo, p) \/ Listed(c.rest, p)
  BY <1>1, <1>6, <1>7, <1>8
<1>10. /\ c.at # "await" /\ c.at # "done"
       /\ Names(c.todo) /\ Names(c.rest) /\ Apart(c.todo, c.rest)
       /\ AllFit(more, c.todo) /\ AllFit(more, c.rest)
  <2>1. c.at # "await" /\ c.at # "done"
    BY <1>8
  <2>2. Names(c.todo) /\ AllFit(more, c.todo)
    BY <1>7, <1>8
  <2>3. Names(c.rest) /\ AllFit(more, c.rest)
    BY <1>5, <1>7, <1>8
  <2>4. Apart(c.todo, c.rest)
    BY <1>7, <1>8
  <2> QED BY <2>1, <2>2, <2>3, <2>4
<1> DEFINE sent == DOMAIN mDistState'
<1>11. mCompConfig' = more /\ call' = c /\ DOMAIN mDistState' = sent /\ Unique(more)
  BY <1>1, <1>7, <1>8
<1> HIDE DEF sent
<1> QED BY <1>9, <1>10, <1>11, PlacesAfter

\* The end: the rest is dealt out in turns.
LEMMA PlacesOnFinish ==
  ASSUME BooksInv, Fitting, Covered, Finish
  PROVE  (Fitting /\ Covered)'
<1> DEFINE rest == call.rest
           nodes == call.nodes
           D == DOMAIN mCompConfig
           to == [i \in DOMAIN rest |-> NodeAt(nodes, i)]
           dealt == AddAll(mCompConfig, rest, to)
           c == Ended("done")
<1>1. /\ call.at = "finish" /\ (nodes # {} \/ rest = <<>>) /\ mCompConfig' = dealt /\ call' = c
      /\ DOMAIN mDistState' = nodes /\ mComponents' = mComponents
  BY DEF Finish, InTurns, Documents
<1>2. /\ rest \in Seq(AnyProcess) /\ call.todo = <<>>
      /\ nodes \in SUBSET Node /\ nodes \in SUBSET D /\ mCompConfig \in [D -> Config]
  BY <1>1 DEF BooksInv, BookTypes, Stages, Changing, CallState
<1>3. Unique(mCompConfig) /\ Names(rest) /\ AllFit(mCompConfig, rest)
  BY <1>1 DEF Fitting
<1>4. \A p \in mComponents : p.runnable /\ p.moveable =>
        Has(mCompConfig, nodes, p) \/ Listed(rest, p)
  BY <1>1, <1>2, NoneLeft DEF Covered
<1>5. c.at = "done"
  BY EndedState DEF BooksInv, BookTypes, CallAt
<1>6. \A i \in 1..Len(rest) : to[i] \in nodes
  <2> HIDE DEF rest, nodes
  <2>1. ASSUME NEW i \in 1..Len(rest) PROVE to[i] \in nodes
    <3>1. nodes # {} /\ i \in Nat \ {0} /\ i \in DOMAIN rest
      BY <1>1, <1>2
    <3>2. NodeAt(nodes, i) \in nodes
      BY <1>2, <3>1, TurnsAmongNodes
    <3> QED BY <3>1, <3>2
  <2> QED BY <2>1
<1> HIDE DEF rest, nodes, D, to, c
<1>7. Unique(dealt)
  BY <1>2, <1>3, AddAllUnique
<1>8. \A p : Has(mCompConfig, nodes, p) \/ Listed(rest, p) => Has(dealt, nodes, p)
  BY <1>2, <1>6, AddAllHas
<1> HIDE DEF dealt
<1> QED BY <1>1, <1>4, <1>5, <1>7, <1>8, PlacesAfter

\* A stop and a new director begin with empty books.
LEMMA PlacesEmptied ==
  ASSUME DOMAIN mCompConfig' = {}, mDistributed' = FALSE, Fitting,
         call' = Idle \/ (call' = call /\ ~ InProgress)
  PROVE  (Fitting /\ Covered)'
<1>1. call'.at \notin {"await", "place", "finish"}
  BY DEF Idle, InProgress
<1> QED BY <1>1 DEF Fitting, Covered, Unique

\* What is in hand and what is on the nodes is everything, after every step.
LEMMA PlacesAlways == Spec => [](Fitting /\ Covered)
<1>1. ASSUME Init PROVE Fitting /\ Covered
  BY <1>1 DEF Init, Fitting, Covered, Unique, Idle
<1>2. ASSUME Fitting /\ Covered, BooksInv, StatsInv, [Next]_vars PROVE (Fitting /\ Covered)'
  <2>0. Fitting /\ Covered /\ IsStats(mData)
    BY <1>2 DEF StatsInv
  <2>1. CASE \E nodes \in SUBSET Node, again, force \in BOOLEAN : Call(nodes, again, force)
    BY <1>2, <2>1, PlacesOnCall
  <2>11. CASE StopWaits
    <3>1. {} \in SUBSET Node /\ FALSE \in BOOLEAN
      OBVIOUS
    <3> QED BY <1>2, <2>11, <3>1, PlacesOnCall
  <2>2. CASE Distribute
    BY <1>2, <2>0, <2>2, PlacesOnRoundRobin, PlacesOnDefault, PlacesOnPrepare, PlacesOnPlace,
       PlacesOnFinish DEF Distribute
  <2>3. CASE StopSystem
    <3>1. /\ DOMAIN mCompConfig' = {} /\ mDistributed' = FALSE /\ call' = call /\ ~ InProgress
      BY <2>3 DEF StopSystem
    <3> QED BY <2>0, <3>1, PlacesEmptied
  <2>4. CASE StopAll \/ EditFile \/ UNCHANGED vars
    <3>1. UNCHANGED <<bookVars, call>>
      BY <2>4 DEF StopAll, EditFile, vars
    <3> QED BY <2>0, <3>1, PlacesKept
  <2>5. CASE \E c \in Collector : Collect(c) \/ InitialiseFails(c) \/ PollFails(c)
    <3>1. UNCHANGED <<bookVars, call>>
      BY <2>5 DEF Collect, Enter, Initialise, Poll, ProcessReport, Truncate, Write,
        Wake, InitialiseFails, PollFails, CollectorStep
    <3> QED BY <2>0, <3>1, PlacesKept
  <2>6. CASE Crash \/ DividesByZero \/ KillsNobody \/ ParserEnds \/ Reinitialise
    <3>1. Restarted
      BY <2>6 DEF Crash, DividesByZero, KillsNobody, ParserEnds, Reinitialise
    <3>2. DOMAIN mCompConfig' = {} /\ mDistributed' = FALSE /\ call' = Idle
      BY <3>1 DEF Restarted
    <3> QED BY <2>0, <3>2, PlacesEmptied
  <2> QED BY <1>2, <2>11, <2>1, <2>2, <2>3, <2>4, <2>5, <2>6 DEF Next
<1> QED BY <1>1, <1>2, StatsAlways, BooksAlways, PTL DEF Spec

\* For all files, nodes, statistics and crashes, edits of the file between distributions
\* included: the node configurations name no process twice (but for one whose flag was
\* edited), and after a distribution by any method every runnable moveable process of
\* the configuration is in the share of one of the nodes it was sent to.
THEOREM EachHasItsPlace == Spec => []Placed
<1>1. BooksInv /\ Fitting /\ Covered => Placed
  <2> SUFFICES ASSUME BooksInv, Fitting, Covered PROVE Placed
    OBVIOUS
  <2>1. \A n \in DOMAIN mCompConfig :
          DOMAIN Procs(mCompConfig, n) = 1..Len(Procs(mCompConfig, n))
    <3>1. \A n \in DOMAIN mCompConfig : Procs(mCompConfig, n) \in Seq(AnyProcess)
      BY ProcsTyped DEF BooksInv, BookTypes
    <3> QED BY <3>1
  <2>2. Unique(mCompConfig)
    BY DEF Fitting
  <2>3. ASSUME call.at = "done", mDistributed, NEW p \in mComponents, p.runnable, p.moveable
        PROVE  \E n \in DOMAIN mDistState : \E i \in DOMAIN Procs(mCompConfig, n) :
                 Procs(mCompConfig, n)[i] = p
    <3>1. Has(mCompConfig, DOMAIN mDistState, p)
      BY <2>3 DEF Covered
    <3>2. PICK n \in DOMAIN mDistState :
            \E i \in 1..Len(Procs(mCompConfig, n)) : Procs(mCompConfig, n)[i] = p
      BY <3>1 DEF Has
    <3>3. n \in DOMAIN mCompConfig
      BY <2>3 DEF BooksInv, SentAsBooked, Changing
    <3> QED BY <2>1, <3>2, <3>3
  <2> QED BY <2>1, <2>2, <2>3 DEF Placed, Unique
<1> QED BY <1>1, BooksAlways, PlacesAlways, PTL

-----------------------------------------------------------------------------
(* The loads are level.                                                    *)

\* A list without its last.
Shorter(procs) == SubSeq(procs, 1, Len(procs) - 1)

\* What is appended comes last.
LEMMA LastAdded ==
  ASSUME NEW procs \in Seq(AnyProcess), NEW p \in AnyProcess
  PROVE  /\ Append(procs, p) \in Seq(AnyProcess) /\ Len(Append(procs, p)) = Len(procs) + 1
         /\ Append(procs, p)[Len(procs) + 1] = p
         /\ \A i \in 1..Len(procs) : Append(procs, p)[i] = procs[i]
         /\ Shorter(Append(procs, p)) = procs
<1> DEFINE more == Append(procs, p)
<1>1. /\ more \in Seq(AnyProcess) /\ Len(more) = Len(procs) + 1
      /\ more[Len(procs) + 1] = p /\ \A i \in 1..Len(procs) : more[i] = procs[i]
  BY AppendProperties
<1> HIDE DEF more
<1>2. Len(procs) \in Nat
  OBVIOUS
<1>3. Shorter(more) = SubSeq(more, 1, Len(procs))
  BY <1>1, <1>2 DEF Shorter
<1>4. procs = SubSeq(more, 1, Len(procs))
  BY <1>1, <1>2
<1> QED BY <1>1, <1>3, <1>4 DEF more

\* A process adds its weight to the load.
LEMMA LoadOfMore ==
  ASSUME IsStats(mData), NEW procs \in Seq(AnyProcess), NEW p \in AnyProcess
  PROVE  LoadOf(Append(procs, p)) = LoadOf(procs) + Weight(p)
<1> DEFINE n == Len(procs)
           more == Append(procs, p)
           f == Sum(procs)
           g == Sum(more)
           good == {i \in 0..n : f[i] = g[i]}
<1>1. /\ n \in Nat /\ more \in Seq(AnyProcess) /\ Len(more) = n + 1 /\ more[n + 1] = p
      /\ \A i \in 1..n : more[i] = procs[i]
  BY LastAdded
<1>2. /\ LoadOf(procs) = f[n] /\ f[0] = 0
      /\ \A i \in 1..n : f[i] = f[i - 1] + Weight(procs[i])
  BY LoadGoes
<1>3. /\ LoadOf(more) = g[Len(more)] /\ g[0] = 0
      /\ \A i \in 1..Len(more) : g[i] = g[i - 1] + Weight(more[i])
  BY <1>1, LoadGoes
<1> HIDE DEF f, g, more, n
<1>4. \A i \in 1..(n + 1) : g[i] = g[i - 1] + Weight(more[i])
  BY <1>1, <1>3
<1>5. 0 \in good
  BY <1>1, <1>2, <1>3
<1>6. ASSUME NEW i \in 1..n, i - 1 \in good PROVE i \in good
  <2>1. i \in 0..n /\ i \in 1..(n + 1)
    BY <1>1
  <2>2. f[i - 1] = g[i - 1] /\ more[i] = procs[i]
    BY <1>1, <1>6
  <2>3. f[i] = g[i]
    BY <1>2, <1>4, <2>1, <2>2
  <2> QED BY <2>1, <2>3
<1>7. n \in good
  <2> HIDE DEF good
  <2>1. \A i \in 0..n : i \in good
    BY <1>1, <1>5, <1>6, Induction
  <2> QED BY <1>1, <2>1
<1>8. g[n + 1] = g[(n + 1) - 1] + Weight(p) /\ (n + 1) - 1 = n
  BY <1>1, <1>4
<1> QED BY <1>1, <1>2, <1>3, <1>7, <1>8 DEF more, n

\* size tells of each node how many processes it has as a list is added.
Grows(size, n, nodes, to) ==
  /\ size \in [0..n -> [nodes -> Nat]]
  /\ \A i \in 1..n, m \in nodes : size[i][m] = size[i - 1][m] + IF m = to[i] THEN 1 ELSE 0

Sized(size, n, nodes, to, configs, dealt) ==
  /\ Grows(size, n, nodes, to)
  /\ \A m \in nodes : /\ size[0][m] = Len(Procs(configs, m))
                      /\ size[n][m] = Len(Procs(dealt, m))

\* The numbers can be told, step by step.
LEMMA AddAllSizes ==
  ASSUME NEW D, NEW configs \in [D -> Config], NEW list \in Seq(AnyProcess), NEW to,
         NEW nodes \in SUBSET D
  PROVE  \E size : Sized(size, Len(list), nodes, to, configs, AddAll(configs, list, to))
<1> DEFINE f == Added(configs, list, to)
           n == Len(list)
           size == [i \in 0..n |-> [m \in nodes |-> Len(Procs(f[i], m))]]
<1>1. /\ AddAll(configs, list, to) = f[n] /\ f[0] = configs
      /\ \A i \in 1..n : f[i] = AddTo(f[i - 1], to[i], list[i])
      /\ \A i \in 0..n : f[i] \in [D -> Config]
  BY AddAllGoes
<1>2. n \in Nat /\ \A i \in 1..n : list[i] \in AnyProcess
  OBVIOUS
<1> HIDE DEF f, n
<1>3. ASSUME NEW i \in 0..n, NEW m \in nodes PROVE Procs(f[i], m) \in Seq(AnyProcess)
  BY <1>1, ProcsTyped
<1>4. size \in [0..n -> [nodes -> Nat]]
  BY <1>3
<1>5. ASSUME NEW i \in 1..n, NEW m \in nodes
      PROVE  size[i][m] = size[i - 1][m] + IF m = to[i] THEN 1 ELSE 0
  <2>1. i \in 0..n /\ i - 1 \in 0..n
    BY <1>2
  <2>2. f[i - 1] \in [D -> Config] /\ list[i] \in AnyProcess
    BY <1>1, <1>2, <2>1
  <2>3. Procs(f[i], m) = IF m = to[i] THEN Append(Procs(f[i - 1], m), list[i])
                         ELSE Procs(f[i - 1], m)
    <3> DEFINE g == f[i - 1]
               p == list[i]
               t == to[i]
    <3>1. f[i] = AddTo(g, t, p) /\ g \in [D -> Config] /\ p \in AnyProcess /\ m \in D
      BY <1>1, <2>2
    <3> HIDE DEF g, p, t
    <3>2. Procs(AddTo(g, t, p), m) = IF m = t THEN Append(Procs(g, m), p) ELSE Procs(g, m)
      BY <3>1, AddToBooks
    <3> QED BY <3>1, <3>2 DEF g, p, t
  <2>4. Procs(f[i - 1], m) \in Seq(AnyProcess)
    BY <1>3, <2>1
  <2>5. Len(Procs(f[i], m)) = Len(Procs(f[i - 1], m)) + IF m = to[i] THEN 1 ELSE 0
    <3>1. CASE m = to[i]
      BY <2>2, <2>3, <2>4, <3>1, LastAdded
    <3>2. CASE m # to[i]
      BY <2>3, <2>4, <3>2
    <3> QED BY <3>1, <3>2
  <2> QED BY <2>1, <2>5
<1>6. \A m \in nodes : size[0][m] = Len(Procs(configs, m)) /\ size[n][m] = Len(Procs(f[n], m))
  BY <1>1, <1>2
<1>7. Grows(size, n, nodes, to)
  <2> HIDE DEF size
  <2> QED BY <1>4, <1>5 DEF Grows
<1> HIDE DEF size
<1>8. Sized(size, n, nodes, to, configs, AddAll(configs, list, to))
  BY <1>1, <1>6, <1>7 DEF Sized
<1> QED BY <1>8 DEF n

\* What was there stays where it was.
LEMMA AddAllLonger ==
  ASSUME NEW D, NEW configs \in [D -> Config], NEW list \in Seq(AnyProcess), NEW to,
         NEW m \in D
  PROVE  LET more == Procs(AddAll(configs, list, to), m)
         IN /\ more \in Seq(AnyProcess) /\ Len(Procs(configs, m)) <= Len(more)
            /\ \A j \in 1..Len(Procs(configs, m)) : more[j] = Procs(configs, m)[j]
<1> DEFINE f == Added(configs, list, to)
           n == Len(list)
<1>1. /\ AddAll(configs, list, to) = f[n] /\ f[0] = configs
      /\ \A i \in 1..n : f[i] = AddTo(f[i - 1], to[i], list[i])
      /\ \A i \in 0..n : f[i] \in [D -> Config]
  <2>1. configs \in [D -> Config] /\ list \in Seq(AnyProcess)
    OBVIOUS
  <2> QED BY ONLY <2>1, AddAllGoes
<1> DEFINE procs == Procs(configs, m)
           good == {i \in 0..n : /\ Len(procs) <= Len(Procs(f[i], m))
                                 /\ \A j \in 1..Len(procs) : Procs(f[i], m)[j] = procs[j]}
<1>2. n \in Nat /\ \A i \in 1..n : list[i] \in AnyProcess
  OBVIOUS
<1> HIDE DEF f, n
<1>3. ASSUME NEW i \in 0..n PROVE Procs(f[i], m) \in Seq(AnyProcess)
  BY <1>1, ProcsTyped
<1>4. procs \in Seq(AnyProcess) /\ Len(procs) \in Nat
  BY ProcsTyped
<1>5. 0 \in good
  BY <1>1, <1>2, <1>4
<1> HIDE DEF procs
<1>6. ASSUME NEW i \in 1..n, i - 1 \in good PROVE i \in good
  <2>1. i \in 0..n /\ i - 1 \in 0..n
    BY <1>2
  <2>2. f[i - 1] \in [D -> Config] /\ list[i] \in AnyProcess
    BY <1>1, <1>2, <2>1
  <2>3. Procs(f[i], m) = IF m = to[i] THEN Append(Procs(f[i - 1], m), list[i])
                         ELSE Procs(f[i - 1], m)
    <3> DEFINE g == f[i - 1]
               p == list[i]
               t == to[i]
    <3>1. f[i] = AddTo(g, t, p) /\ g \in [D -> Config] /\ p \in AnyProcess /\ m \in D
      BY <1>1, <2>2
    <3> HIDE DEF g, p, t
    <3>2. Procs(AddTo(g, t, p), m) = IF m = t THEN Append(Procs(g, m), p) ELSE Procs(g, m)
      BY <3>1, AddToBooks
    <3> QED BY <3>1, <3>2 DEF g, p, t
  <2> DEFINE old == Procs(f[i - 1], m)
             new == Procs(f[i], m)
  <2>4. /\ old \in Seq(AnyProcess) /\ Len(old) \in Nat /\ Len(procs) <= Len(old)
        /\ \A j \in 1..Len(procs) : old[j] = procs[j]
    BY <1>3, <1>6, <2>1
  <2>5. /\ Len(old) <= Len(new) /\ \A j \in 1..Len(old) : new[j] = old[j]
    <3>1. CASE m = to[i]
      <4>1. new = Append(old, list[i])
        BY <2>3, <3>1
      <4> HIDE DEF old, new
      <4> QED BY <2>2, <2>4, <4>1, LastAdded
    <3>2. CASE m # to[i]
      BY <2>3, <2>4, <3>2
    <3> QED BY <3>1, <3>2
  <2>6. Len(new) \in Nat
    BY <1>3, <2>1
  <2> HIDE DEF old, new
  <2>7. Len(procs) <= Len(new) /\ \A j \in 1..Len(procs) : new[j] = procs[j]
    BY <1>4, <2>4, <2>5, <2>6
  <2> QED BY <2>1, <2>7 DEF new
<1>7. n \in good
  <2> HIDE DEF good
  <2>1. \A i \in 0..n : i \in good
    BY <1>2, <1>5, <1>6, Induction
  <2> QED BY <1>2, <2>1
<1>8. n \in 0..n
  BY <1>2
<1> QED BY <1>1, <1>3, <1>7, <1>8 DEF procs

\* What is left over is the remainder.
LEMMA Remainder ==
  ASSUME NEW N \in Nat \ {0}, NEW q \in Nat, NEW r \in 0..(N - 1)
  PROVE  (q * N + r) % N = r
OBVIOUS

\* Turns go up by one and begin again.
LEMMA NextTurn ==
  ASSUME NEW N \in Nat \ {0}, NEW i \in Nat
  PROVE  i % N \in 0..(N - 1) /\ (i + 1) % N = IF i % N = N - 1 THEN 0 ELSE (i % N) + 1
<1> DEFINE q == i \div N
           r == i % N
<1>1. q \in Nat /\ r \in 0..(N - 1) /\ i = q * N + r
  OBVIOUS
<1> HIDE DEF q
<1>2. CASE r = N - 1
  <2> HIDE DEF r
  <2>1. i + 1 = (q + 1) * N + 0
    BY <1>1, <1>2
  <2>2. ((q + 1) * N + 0) % N = 0
    BY <1>1, Remainder
  <2> QED BY <1>1, <1>2, <2>1, <2>2 DEF r
<1>3. CASE r # N - 1
  <2> HIDE DEF r
  <2>1. i + 1 = q * N + (r + 1) /\ r + 1 \in 0..(N - 1)
    BY <1>1, <1>3
  <2>2. (q * N + (r + 1)) % N = r + 1
    BY <1>1, <2>1, Remainder
  <2> QED BY <1>1, <1>3, <2>1, <2>2 DEF r
<1> QED BY <1>2, <1>3

\* Dealt out in turns to nodes that have nothing, no node gets two more than another.
LEMMA TurnsAreLevel ==
  ASSUME NEW nodes \in SUBSET Node, nodes # {}, NEW n \in Nat, NEW size, NEW to,
         Grows(size, n, nodes, to), \A m \in nodes : size[0][m] = 0,
         \A i \in 1..n : to[i] = NodeAt(nodes, i)
  PROVE  \A l, m \in nodes : size[n][l] - 1 <= size[n][m]
<1> DEFINE N == Cardinality(nodes)
           seat(m) == Seat(nodes, m)
           Flat(i, q) == \A m \in nodes : size[i][m] = q + IF seat(m) < i % N THEN 1 ELSE 0
           good == {i \in 0..n : \E q \in Nat : Flat(i, q)}
<1>1. /\ N \in Nat \ {0} /\ \A m \in nodes : seat(m) \in 0..(N - 1)
      /\ \A l, m \in nodes : seat(l) = seat(m) => l = m
  BY SeatsDiffer
<1>2. \A i \in 1..n : to[i] \in nodes /\ seat(to[i]) = (i - 1) % N
  BY TurnsAmongNodes
<1>3. \A i \in 1..n, m \in nodes : size[i][m] = size[i - 1][m] + IF m = to[i] THEN 1 ELSE 0
  BY DEF Grows
<1>4. \A i \in 0..n, m \in nodes : size[i][m] \in Nat
  BY DEF Grows
<1> HIDE DEF N, seat
<1>5. 0 \in good
  <2>1. 0 % N = 0
    BY <1>1
  <2>2. Flat(0, 0)
    BY <1>1, <2>1
  <2> HIDE DEF Flat
  <2> QED BY <2>2
<1>6. ASSUME NEW i \in 1..n, i - 1 \in good PROVE i \in good
  <2>1. PICK q \in Nat : Flat(i - 1, q)
    BY <1>6
  <2> DEFINE r == (i - 1) % N
  <2>2. r \in 0..(N - 1) /\ i % N = IF r = N - 1 THEN 0 ELSE r + 1
    <3>1. i - 1 \in Nat /\ (i - 1) + 1 = i
      OBVIOUS
    <3> DEFINE j == i - 1
    <3>2. j \in Nat /\ j + 1 = i
      BY <3>1
    <3> HIDE DEF j
    <3>3. j % N \in 0..(N - 1) /\ i % N = IF j % N = N - 1 THEN 0 ELSE (j % N) + 1
      BY <1>1, <3>2, NextTurn
    <3> QED BY <3>3 DEF j
  <2>3. \A m \in nodes : size[i - 1][m] = q + IF seat(m) < r THEN 1 ELSE 0
    BY <2>1
  <2>4. \A m \in nodes : m = to[i] <=> seat(m) = r
    BY <1>1, <1>2
  <2>5. \A m \in nodes : size[i][m] = (q + IF seat(m) < r THEN 1 ELSE 0)
                                      + IF seat(m) = r THEN 1 ELSE 0
    BY <1>3, <2>3, <2>4
  <2> HIDE DEF r
  <2>6. CASE r = N - 1
    <3>1. Flat(i, q + 1)
      <4> SUFFICES ASSUME NEW m \in nodes
                   PROVE  size[i][m] = (q + 1) + IF seat(m) < i % N THEN 1 ELSE 0
        OBVIOUS
      <4>1. seat(m) \in 0..(N - 1) /\ i % N = 0
        BY <1>1, <2>2, <2>6
      <4> QED BY <1>1, <2>2, <2>5, <2>6, <4>1
    <3> HIDE DEF Flat
    <3> QED BY <3>1
  <2>7. CASE r # N - 1
    <3>1. Flat(i, q)
      <4> SUFFICES ASSUME NEW m \in nodes
                   PROVE  size[i][m] = q + IF seat(m) < i % N THEN 1 ELSE 0
        OBVIOUS
      <4>1. seat(m) \in 0..(N - 1) /\ i % N = r + 1
        BY <1>1, <2>2, <2>7
      <4> QED BY <1>1, <2>2, <2>5, <4>1
    <3> HIDE DEF Flat
    <3> QED BY <3>1
  <2> QED BY <2>6, <2>7
<1>7. n \in good
  <2> HIDE DEF good
  <2>1. \A i \in 0..n : i \in good
    BY <1>5, <1>6, Induction
  <2> QED BY <2>1
<1>8. PICK q \in Nat : Flat(n, q)
  BY <1>7
<1> QED BY <1>8

\* The sweep gives out slots from the lowest level up, so that who gets a process
\* gets it at the lowest level there is.
LEMMA SweepIsLevel ==
  ASSUME NEW nodes \in SUBSET Node, NEW k \in Nat, NEW size, NEW to, NEW rank, NEW configs,
         NEW slots, slots = Slots(configs, nodes, k), Sweeps(rank, slots, to, k),
         Grows(size, k, nodes, to), \A m \in nodes : size[0][m] = Len(Procs(configs, m))
  PROVE  \A l, m \in nodes : size[k][l] > size[0][l] => size[k][l] - 1 <= size[k][m]
<1> DEFINE level(m) == size[0][m]
           \* the slots that have been given out are those under the size
           Taken(i) == \A s \in slots : rank[s] < i <=> s[1] < size[i][s[2]]
           \* and they are not more than i
           Few(i) == /\ \A m \in nodes : level(m) <= size[i][m] /\ size[i][m] <= level(m) + i
                     /\ \A l, m \in nodes :
                          l # m => (size[i][l] - level(l)) + (size[i][m] - level(m)) <= i
           good == {i \in 0..k : Taken(i) /\ Few(i)}
<1>1. \A i \in 0..k, m \in nodes : size[i][m] \in Nat
  BY DEF Grows
<1>2. \A i \in 1..k, m \in nodes : size[i][m] = size[i - 1][m] + IF m = to[i] THEN 1 ELSE 0
  BY DEF Grows
<1>3. \A m \in nodes : level(m) \in Nat
  BY <1>1
<1>4. \A s \in slots : /\ s[2] \in nodes /\ s[1] \in Nat /\ s = <<s[1], s[2]>>
                       /\ level(s[2]) <= s[1] /\ s[1] < level(s[2]) + k
  <2> SUFFICES ASSUME NEW n \in nodes, NEW i \in 1..k
               PROVE  LET s == <<Len(Procs(configs, n)) + i - 1, n>>
                      IN /\ s[2] \in nodes /\ s[1] \in Nat /\ s = <<s[1], s[2]>>
                         /\ level(s[2]) <= s[1] /\ s[1] < level(s[2]) + k
    BY DEF Slots
  <2>1. level(n) = Len(Procs(configs, n)) /\ level(n) \in Nat
    BY <1>3
  <2> HIDE DEF level
  <2> QED BY <2>1
<1>5. ASSUME NEW m \in nodes, NEW x \in Nat, level(m) <= x, x < level(m) + k
      PROVE  <<x, m>> \in slots
  <2> DEFINE i == x - level(m) + 1
  <2>1. i \in 1..k /\ x = level(m) + i - 1
    BY <1>3, <1>5
  <2>2. level(m) = Len(Procs(configs, m))
    OBVIOUS
  <2> HIDE DEF i, level
  <2> QED BY <2>1, <2>2 DEF Slots
<1>6. /\ \A s \in slots : rank[s] \in Nat
      /\ \A s, t \in slots : rank[s] = rank[t] => s = t
      /\ \A s, t \in slots : Sooner(s, t) => rank[s] < rank[t]
      /\ \A i \in 1..k : \E s \in slots : rank[s] = i - 1 /\ to[i] = s[2]
  BY DEF Sweeps
<1>7. nodes \subseteq Nat
  BY NodesFinite
<1> HIDE DEF level
<1>8. 0 \in good
  <2>1. Taken(0)
    <3> SUFFICES ASSUME NEW s \in slots PROVE ~ (rank[s] < 0) /\ ~ (s[1] < size[0][s[2]])
      OBVIOUS
    <3>1. rank[s] \in Nat /\ s[1] \in Nat /\ level(s[2]) \in Nat /\ level(s[2]) <= s[1]
      BY <1>3, <1>4, <1>6
    <3> QED BY <3>1 DEF level
  <2>2. Few(0)
    BY <1>3 DEF level
  <2> QED BY <2>1, <2>2
<1>9. ASSUME NEW i \in 1..k, i - 1 \in good PROVE i \in good
  <2>0. i \in 0..k /\ i - 1 \in 0..k /\ i \in Int
    OBVIOUS
  <2>1. Taken(i - 1) /\ Few(i - 1)
    BY <1>9
  <2>2. PICK t \in slots : rank[t] = i - 1 /\ to[i] = t[2]
    BY <1>6
  <2> DEFINE old(m) == size[i - 1][m]
             new(m) == size[i][m]
  <2>3. \A m \in nodes : /\ old(m) \in Nat /\ new(m) \in Nat
                         /\ new(m) = IF m = t[2] THEN old(m) + 1 ELSE old(m)
    BY <1>1, <1>2, <2>0, <2>2
  <2>4. /\ \A s \in slots : rank[s] < i - 1 <=> s[1] < old(s[2])
        /\ \A m \in nodes : level(m) <= old(m) /\ old(m) <= level(m) + (i - 1)
        /\ \A l, m \in nodes : l # m => (old(l) - level(l)) + (old(m) - level(m)) <= i - 1
    BY <2>1
  <2> HIDE DEF old, new
  <2>5. t[1] = old(t[2])
    <3>0. t[2] \in nodes /\ t[1] \in Nat /\ old(t[2]) \in Nat
      BY <1>4, <2>3
    <3>1. old(t[2]) <= t[1]
      <4>1. ~ (t[1] < old(t[2]))
        BY <2>2, <2>4
      <4> QED BY <3>0, <4>1
    <3>2. ASSUME old(t[2]) < t[1] PROVE FALSE
      <4> DEFINE u == <<old(t[2]), t[2]>>
      <4>1. level(t[2]) <= old(t[2]) /\ t[1] < level(t[2]) + k
        BY <1>4, <2>4, <3>0
      <4>2. old(t[2]) < level(t[2]) + k
        BY <1>3, <3>0, <3>2, <4>1
      <4>3. u \in slots
        BY <1>5, <3>0, <4>1, <4>2
      <4>4. Sooner(u, t)
        BY <3>2 DEF Sooner
      <4>5. rank[u] < i - 1
        BY <1>6, <2>2, <4>3, <4>4
      <4>6. u[1] < old(u[2])
        BY <2>4, <4>3, <4>5
      <4> QED BY <3>0, <4>6
    <3> QED BY <3>0, <3>1, <3>2
  <2>6. ASSUME NEW s \in slots PROVE rank[s] < i <=> s[1] < new(s[2])
    <3>1. /\ s[2] \in nodes /\ s[1] \in Nat /\ s = <<s[1], s[2]>> /\ rank[s] \in Nat
          /\ t = <<t[1], t[2]>> /\ t[2] \in nodes
      BY <1>4, <1>6
    <3>2. rank[s] < i <=> rank[s] < i - 1 \/ s = t
      <4>1. rank[s] < i <=> rank[s] < i - 1 \/ rank[s] = i - 1
        BY <3>1
      <4>2. rank[s] = i - 1 <=> s = t
        BY <1>6, <2>2
      <4> QED BY <4>1, <4>2
    <3>3. rank[s] < i - 1 <=> s[1] < old(s[2])
      BY <2>4
    <3>4. CASE s[2] = t[2]
      <4>1. s = t <=> s[1] = old(s[2])
        BY <2>5, <3>1, <3>4
      <4>2. new(s[2]) = old(s[2]) + 1 /\ old(s[2]) \in Nat
        BY <2>3, <3>1, <3>4
      <4> QED BY <3>1, <3>2, <3>3, <4>1, <4>2
    <3>5. CASE s[2] # t[2]
      <4>1. s # t /\ new(s[2]) = old(s[2])
        BY <2>3, <3>1, <3>5
      <4> QED BY <3>2, <3>3, <4>1
    <3> QED BY <3>4, <3>5
  <2>7. \A m \in nodes : level(m) <= new(m) /\ new(m) <= level(m) + i
    BY <1>3, <2>0, <2>3, <2>4
  <2>8. ASSUME NEW l \in nodes, NEW m \in nodes, l # m
        PROVE  (new(l) - level(l)) + (new(m) - level(m)) <= i
    <3>1. /\ old(l) \in Nat /\ old(m) \in Nat /\ level(l) \in Nat /\ level(m) \in Nat
          /\ (old(l) - level(l)) + (old(m) - level(m)) <= i - 1
      BY <1>3, <2>3, <2>4, <2>8
    <3>2. \/ new(l) = old(l) + 1 /\ new(m) = old(m)
          \/ new(l) = old(l) /\ new(m) = old(m) + 1
          \/ new(l) = old(l) /\ new(m) = old(m)
      BY <2>3, <2>8
    <3> QED BY <2>0, <3>1, <3>2
  <2>9. Taken(i) /\ Few(i)
    BY <2>6, <2>7, <2>8 DEF new
  <2> HIDE DEF Taken, Few
  <2> QED BY <2>0, <2>9
<1>10. k \in good
  <2> HIDE DEF good
  <2>1. \A i \in 0..k : i \in good
    BY <1>8, <1>9, Induction
  <2> QED BY <2>1
<1>11. Taken(k) /\ Few(k)
  BY <1>10
<1> DEFINE last(m) == size[k][m]
<1>12. /\ \A s \in slots : rank[s] < k <=> s[1] < last(s[2])
       /\ \A m \in nodes : level(m) <= last(m) /\ last(m) <= level(m) + k
       /\ \A l, m \in nodes : l # m => (last(l) - level(l)) + (last(m) - level(m)) <= k
  BY <1>11
<1>13. \A m \in nodes : last(m) \in Nat
  BY <1>1
<1> HIDE DEF last
<1> SUFFICES ASSUME NEW l \in nodes, NEW m \in nodes, last(l) > level(l), last(m) < last(l) - 1
             PROVE  FALSE
  BY <1>13 DEF last, level
<1> DEFINE s == <<last(l) - 1, l>>
           t == <<last(m), m>>
<1>14. /\ last(l) \in Nat /\ last(m) \in Nat /\ level(l) \in Nat /\ level(m) \in Nat
       /\ level(l) <= last(l) /\ last(l) <= level(l) + k /\ level(m) <= last(m)
  BY <1>3, <1>12, <1>13
<1>15. l # m
  BY <1>14
<1>16. (last(l) - level(l)) + (last(m) - level(m)) <= k
  BY <1>12, <1>15
<1>17. s \in slots
  <2>1. last(l) - 1 \in Nat /\ level(l) <= last(l) - 1 /\ last(l) - 1 < level(l) + k
    BY <1>14
  <2> QED BY <1>5, <2>1
<1>18. t \in slots
  <2>1. last(m) < level(m) + k
    BY <1>14, <1>16
  <2> QED BY <1>5, <1>14, <2>1
<1>19. rank[s] < k
  BY <1>12, <1>14, <1>17
<1>20. rank[t] < rank[s]
  <2>1. Sooner(t, s)
    BY DEF Sooner
  <2> QED BY <1>6, <1>17, <1>18, <2>1
<1>21. rank[t] < k
  BY <1>6, <1>17, <1>18, <1>19, <1>20
<1>22. last(m) < last(m)
  BY <1>12, <1>18, <1>21
<1> QED BY <1>14, <1>22

\* What a share must look like for the node to have received its last, what it
\* weighs, ...
Receives(c, procs) == procs # <<>> /\ (c.again /\ ~ c.force => procs[Len(procs)].moveable)
WeighedFor(c, procs) == IF c.seen = NoUsage THEN Len(procs) ELSE LoadOf(procs)

\* ... and when the loads are level: no node that received its last would, without
\* it, carry more than another.
Level(c, configs) ==
  \A n, m \in c.nodes :
    Receives(c, Procs(configs, n)) =>
      WeighedFor(c, Shorter(Procs(configs, n))) <= WeighedFor(c, Procs(configs, m))

\* The weights are those the distribution began with: as none is ever lowered,
\* they have been all the while.
Fresh(c) == c.seen = NoUsage \/ c.seen = mData

\* The balanced method's numbers are the loads.
Counted(c, configs) == \A n \in c.nodes : c.nums[n] = LoadOf(Procs(configs, n))

\* While processes are being dealt out the loads are level.
Levelled ==
  /\ call.at = "await" => call.seen = NoUsage
  /\ call.at = "place" => call.seen # NoUsage
  /\ call.at \in {"place", "finish"} =>
       /\ Covers(mData, call.seen)
       /\ Fresh(call) => Level(call, mCompConfig)
  /\ call.at = "place" /\ Fresh(call) => Counted(call, mCompConfig)

\* Without its last a list is shorter by one.
LEMMA ShorterByOne ==
  ASSUME NEW procs \in Seq(AnyProcess), procs # <<>>
  PROVE  Len(Shorter(procs)) = Len(procs) - 1
<1>1. Len(procs) \in Nat /\ Len(procs) # 0
  BY EmptySeq
<1> QED BY <1>1 DEF Shorter

\* Of what is left of an earlier distribution nothing is moveable.
LeftOver(procs, again, force) ==
  /\ procs \in Seq(AnyProcess)
  /\ procs = <<>> \/ (again /\ ~ force)
  /\ \A i \in 1..Len(procs) : procs[i].moveable = FALSE

\* What a distribution begins with has been received by nobody.
LEMMA NobodyReceives ==
  ASSUME BookTypes, NEW again \in BOOLEAN, NEW force \in BOOLEAN,
         ~ again => DOMAIN mCompConfig = {}, NEW nodes \in SUBSET Node, NEW configs,
         configs = WithContainers(Prepared(again, force), nodes), NEW n \in DOMAIN configs
  PROVE  LeftOver(Procs(configs, n), again, force)
<1> USE DEF LeftOver
<1> DEFINE left == Prepared(again, force)
<1>1. Procs(configs, n) \in Seq(AnyProcess)
  <2>1. configs \in [DOMAIN configs -> Config]
    BY PreparedTyped
  <2> QED BY <2>1, ProcsTyped
<1>2. CASE ~ again \/ force
  <2> DEFINE none == {}
  <2>1. left \in [none -> Config] /\ n \notin none
    BY <1>2 DEF Prepared, BookTypes
  <2>2. n \in DOMAIN WithContainers(left, nodes) /\ configs = WithContainers(left, nodes)
    OBVIOUS
  <2> HIDE DEF left, none
  <2>4. Procs(WithContainers(left, nodes), n) = IF n \in none THEN Procs(left, n) ELSE <<>>
    BY <2>1, <2>2, ContainersEmpty
  <2>5. Procs(configs, n) = <<>> /\ Len(Procs(configs, n)) = 0
    BY <2>1, <2>2, <2>4
  <2> QED BY <1>1, <2>5
<1>3. CASE again /\ ~ force
  <2> DEFINE D == DOMAIN mCompConfig
  <2>1. mCompConfig \in [D -> Config] /\ left = [m \in D |-> RemoveMoveable(mCompConfig[m])]
    BY <1>3 DEF Prepared, BookTypes
  <2>2. left \in [D -> Config] /\ \A m \in D : Procs(left, m) = Kept(mCompConfig[m])
    BY <2>1, KeptIsConfig DEF Procs
  <2> HIDE DEF left, D
  <2>3. Procs(configs, n) = IF n \in D THEN Procs(left, n) ELSE <<>>
    BY <2>2, ContainersEmpty DEF left
  <2>4. CASE n \in D
    <3> DEFINE c == mCompConfig[n]
    <3>1. c \in Config /\ Procs(configs, n) = Kept(c)
      BY <2>1, <2>2, <2>3, <2>4
    <3> HIDE DEF c
    <3>2. PICK at : Pinned(at, Kept(c), c.mProcs)
      BY <3>1, KeptArePinned
    <3> QED BY <1>1, <1>3, <3>1, <3>2 DEF Pinned
  <2>5. CASE n \notin D
    <3>1. Procs(configs, n) = <<>> /\ Len(Procs(configs, n)) = 0
      BY <2>3, <2>5
    <3> QED BY <1>1, <3>1
  <2> QED BY <2>4, <2>5
<1> QED BY <1>2, <1>3

\* After a list has been dealt out, who has received its last has more than before.
LEMMA ReceivedMore ==
  ASSUME BookTypes, NEW again \in BOOLEAN, NEW force \in BOOLEAN,
         ~ again => DOMAIN mCompConfig = {}, NEW nodes \in SUBSET Node, NEW configs,
         configs = WithContainers(Prepared(again, force), nodes), NEW n \in DOMAIN configs,
         NEW list \in Seq(AnyProcess), NEW to, NEW c, c.again = again, c.force = force,
         NEW dealt, dealt = AddAll(configs, list, to), Receives(c, Procs(dealt, n))
  PROVE  /\ Procs(dealt, n) \in Seq(AnyProcess)
         /\ Len(Procs(configs, n)) < Len(Procs(dealt, n))
<1> DEFINE old == Procs(configs, n)
           new == Procs(dealt, n)
<1>1. /\ old \in Seq(AnyProcess) /\ (old = <<>> \/ (again /\ ~ force))
      /\ \A i \in 1..Len(old) : old[i].moveable = FALSE
  <2>1. LeftOver(Procs(configs, n), again, force)
    BY NobodyReceives
  <2> QED BY <2>1 DEF LeftOver
<1>2. /\ new \in Seq(AnyProcess) /\ Len(old) <= Len(new)
      /\ \A j \in 1..Len(old) : new[j] = old[j]
  <2> DEFINE D == DOMAIN configs
  <2>1. configs \in [D -> Config] /\ n \in D
    BY PreparedTyped
  <2> HIDE DEF D
  <2>2. LET more == Procs(AddAll(configs, list, to), n)
        IN /\ more \in Seq(AnyProcess) /\ Len(Procs(configs, n)) <= Len(more)
           /\ \A j \in 1..Len(Procs(configs, n)) : more[j] = Procs(configs, n)[j]
    BY <2>1, AddAllLonger
  <2> QED BY <2>2
<1>3. new # <<>> /\ (again /\ ~ force => new[Len(new)].moveable)
  BY DEF Receives
<1> HIDE DEF old, new
<1>4. Len(old) \in Nat /\ Len(new) \in Nat /\ Len(new) # 0
  BY <1>1, <1>2, <1>3, EmptySeq
<1>5. ASSUME Len(old) = Len(new) PROVE FALSE
  <2>1. old # <<>> /\ Len(new) \in 1..Len(old)
    BY <1>4, <1>5
  <2>2. new[Len(new)] = old[Len(new)] /\ old[Len(new)].moveable = FALSE
    BY <1>1, <1>2, <2>1
  <2> QED BY <1>1, <1>3, <2>1, <2>2
<1>6. Len(old) < Len(new)
  BY <1>2, <1>4, <1>5
<1> QED BY <1>2, <1>6 DEF old, new

\* Statistics that cover each other are the same.
LEMMA CoversBoth ==
  ASSUME NEW d, NEW e, IsStats(d), IsStats(e), Covers(d, e), Covers(e, d)
  PROVE  d = e
<1>1. DOMAIN d = DOMAIN e
  BY DEF Covers
<1>2. ASSUME NEW c \in DOMAIN d PROVE d[c] = e[c]
  <2>1. d[c] \in [cpu : Nat, rss : Nat] /\ e[c] \in [cpu : Nat, rss : Nat]
    BY <1>1 DEF IsStats
  <2>2. /\ d[c].cpu <= e[c].cpu /\ e[c].cpu <= d[c].cpu
        /\ d[c].rss <= e[c].rss /\ e[c].rss <= d[c].rss
    BY <1>1 DEF Covers
  <2>3. d[c].cpu = e[c].cpu /\ d[c].rss = e[c].rss
    BY <2>1, <2>2
  <2> QED BY <2>1, <2>3
<1>3. d = [c \in DOMAIN d |-> d[c]] /\ e = [c \in DOMAIN e |-> e[c]]
  BY DEF IsStats
<1> QED BY <1>1, <1>2, <1>3

\* What the file knows and the director does not raises nothing that it knows, ...
LEMMA FileRaises ==
  ASSUME IsStats(mData)
  PROVE  Covers(WithFile(mData), mData)
<1>1. \A c \in DOMAIN mData : c \in DOMAIN WithFile(mData) /\ WithFile(mData)[c] = mData[c]
  BY DEF WithFile
<1>2. \A c \in DOMAIN mData : mData[c].cpu <= mData[c].cpu /\ mData[c].rss <= mData[c].rss
  BY CoversSelf DEF Covers
<1> QED BY <1>1, <1>2 DEF Covers

\* ... and so no step of a statistics thread lowers a weight.
LEMMA CollectRaises ==
  ASSUME StatsInv, NEW c \in Collector, Collect(c) \/ InitialiseFails(c) \/ PollFails(c)
  PROVE  Covers(mData', mData)
<1>0. IsStats(mData) /\ collector[c].batch \subseteq Report
  BY DEF StatsInv, CollectorState
<1>1. CASE mData' = mData
  BY <1>0, <1>1, CoversSelf
<1>2. CASE Initialise(c)
  BY <1>0, <1>2, FileRaises DEF Initialise
<1>3. CASE ProcessReport(c)
  <2>1. PICK r \in collector[c].batch : mData' = Learn(r)
    BY <1>3 DEF ProcessReport
  <2> QED BY <1>0, <2>1, LearnRaises
<1> QED BY <1>1, <1>2, <1>3 DEF Collect, Enter, Poll, Truncate, Write, Wake,
                               InitialiseFails, PollFails

\* What has to be shown after a step that leaves the weights alone.
LEMMA LevelledAfter ==
  ASSUME UNCHANGED <<pattern, mData>>, NEW configs, NEW c, mCompConfig' = configs, call' = c,
         c.at = "await" => c.seen = NoUsage, c.at = "place" => c.seen # NoUsage,
         c.at \in {"place", "finish"} =>
           Covers(mData, c.seen) /\ (Fresh(c) => Level(c, configs)),
         c.at = "place" /\ Fresh(c) => Counted(c, configs)
  PROVE  Levelled'
<1>1. \A procs : LoadOf(procs)' = LoadOf(procs)
  BY DEF LoadOf, Weight, Measure
<1>2. Level(c, configs)' <=> Level(c, configs)
  BY <1>1 DEF Level, WeighedFor
<1>3. Counted(c, configs)' <=> Counted(c, configs)
  BY <1>1 DEF Counted
<1>4. Fresh(c)' <=> Fresh(c)
  BY DEF Fresh
<1>5. /\ Level(call, mCompConfig)' <=> Level(c, configs)'
      /\ Counted(call, mCompConfig)' <=> Counted(c, configs)'
      /\ Fresh(call)' <=> Fresh(c)'
  BY DEF Level, Counted, Fresh, WeighedFor
<1>6. /\ (call.at)' = c.at /\ (call.seen)' = c.seen
      /\ Covers(mData, call.seen)' = Covers(mData, c.seen)
  OBVIOUS
<1> QED BY <1>2, <1>3, <1>4, <1>5, <1>6 DEF Levelled

\* Weights, books and the distribution in hand are left alone.
LEMMA LevelledKept ==
  ASSUME Levelled, UNCHANGED <<pattern, mData, mCompConfig, call>>
  PROVE  Levelled'
<1> DEFINE configs == mCompConfig
           c == call
<1>1. mCompConfig' = configs /\ call' = c
  OBVIOUS
<1>2. /\ c.at = "await" => c.seen = NoUsage
      /\ c.at = "place" => c.seen # NoUsage
      /\ c.at \in {"place", "finish"} =>
           Covers(mData, c.seen) /\ (Fresh(c) => Level(c, configs))
      /\ c.at = "place" /\ Fresh(c) => Counted(c, configs)
  BY DEF Levelled
<1> HIDE DEF configs, c
<1> QED BY <1>1, <1>2, LevelledAfter

\* A report that raises a weight ends what was said of the loads.
LEMMA LevelledAsRaised ==
  ASSUME Levelled, IsStats(mData), IsStats(mData'), Covers(mData', mData), call \in CallState,
         UNCHANGED <<pattern, mCompConfig, call>>
  PROVE  Levelled'
<1>1. CASE mData' = mData
  BY <1>1, LevelledKept
<1>2. CASE mData' # mData
  <2>1. IsStats(call.seen)
    BY DEF CallState, Stats, IsStats
  <2>2. call.at \in {"place", "finish"} => Covers(mData', call.seen)
    BY <2>1, CoversMore DEF Levelled
  <2>3. call.at \in {"place", "finish"} => call.seen # mData'
    <3> SUFFICES ASSUME call.at \in {"place", "finish"}, call.seen = mData' PROVE FALSE
      OBVIOUS
    <3>1. Covers(mData, mData')
      BY DEF Levelled
    <3> DEFINE d == mData'
    <3>2. IsStats(d) /\ Covers(d, mData) /\ Covers(mData, d) /\ d # mData
      BY <1>2, <3>1
    <3> HIDE DEF d
    <3> QED BY <3>2, CoversBoth
  <2>4. call.seen = NoUsage => (Level(call, mCompConfig)' <=> Level(call, mCompConfig))
    BY DEF Level, WeighedFor
  <2>5. call.at = "place" => ~ Fresh(call)'
    BY <2>3 DEF Fresh, Levelled
  <2>6. call.at = "finish" /\ Fresh(call)' => Fresh(call) /\ Level(call, mCompConfig)'
    BY <2>3, <2>4 DEF Fresh, Levelled
  <2>7. UNCHANGED call
    OBVIOUS
  <2> QED BY <2>2, <2>5, <2>6, <2>7 DEF Levelled
<1> QED BY <1>1, <1>2

\* Nothing is dealt out.
LEMMA LevelledOff ==
  ASSUME call'.at \notin {"await", "place", "finish"}
  PROVE  Levelled'
BY DEF Levelled

\* Nobody has received anything yet.
LEMMA LevelAtFirst ==
  ASSUME NEW c, NEW configs,
         \A n \in c.nodes : LeftOver(Procs(configs, n), c.again, c.force)
  PROVE  Level(c, configs)
<1> SUFFICES ASSUME NEW n \in c.nodes, Receives(c, Procs(configs, n)) PROVE FALSE
  BY DEF Level
<1> DEFINE procs == Procs(configs, n)
<1>1. LeftOver(procs, c.again, c.force) /\ Receives(c, procs)
  OBVIOUS
<1> HIDE DEF procs
<1>2. procs \in Seq(AnyProcess) /\ procs # <<>>
  BY <1>1 DEF LeftOver, Receives
<1>3. Len(procs) \in 1..Len(procs)
  BY <1>2, EmptySeq
<1> QED BY <1>1, <1>3 DEF LeftOver, Receives

\* Whoever has more than at first has at most one more than another.
Even(first, last, nodes, configs, dealt) ==
  /\ \A m \in nodes : first[m] = Len(Procs(configs, m)) /\ last[m] = Len(Procs(dealt, m))
  /\ \A l, m \in nodes : last[l] > first[l] => last[l] - 1 <= last[m]

\* What was dealt out at one go is level, if the numbers of processes are.
LEMMA LevelAsDealt ==
  ASSUME BookTypes, NEW again \in BOOLEAN, NEW force \in BOOLEAN,
         ~ again => DOMAIN mCompConfig = {}, NEW nodes \in SUBSET Node, NEW configs,
         configs = WithContainers(Prepared(again, force), nodes),
         NEW list \in Seq(AnyProcess), NEW to, NEW dealt, dealt = AddAll(configs, list, to),
         NEW c, c.again = again, c.force = force, c.nodes = nodes, c.seen = NoUsage,
         NEW first, NEW last, Even(first, last, nodes, configs, dealt)
  PROVE  Level(c, dealt)
<1> SUFFICES ASSUME NEW l \in nodes, NEW m \in nodes, Receives(c, Procs(dealt, l))
             PROVE  Len(Shorter(Procs(dealt, l))) <= Len(Procs(dealt, m))
  BY DEF Level, WeighedFor
<1>1. l \in DOMAIN configs
  BY PreparedTyped
<1>2. Procs(dealt, l) \in Seq(AnyProcess) /\ Len(Procs(configs, l)) < Len(Procs(dealt, l))
  BY <1>1, ReceivedMore
<1>3. Procs(configs, l) \in Seq(AnyProcess)
  BY <1>1, NobodyReceives DEF LeftOver
<1> DEFINE new == Procs(dealt, l)
           old == Procs(configs, l)
<1>4. /\ new \in Seq(AnyProcess) /\ old \in Seq(AnyProcess) /\ Len(old) < Len(new)
      /\ first[l] = Len(old) /\ last[l] = Len(new) /\ last[m] = Len(Procs(dealt, m))
  BY <1>2, <1>3 DEF Even
<1> HIDE DEF new, old
<1>5. Len(old) \in Nat /\ Len(new) \in Nat /\ new # <<>>
  BY <1>4, EmptySeq
<1>6. last[l] - 1 <= last[m]
  BY <1>4, <1>5 DEF Even
<1>7. Len(Shorter(new)) = Len(new) - 1
  BY <1>4, <1>5, ShorterByOne
<1> QED BY <1>4, <1>6, <1>7 DEF new

\* It ends.
LEMMA LevelledOnEnd ==
  ASSUME BooksInv, NEW how \in {"thrown", "badfile", "done"}, call' = Ended(how)
  PROVE  Levelled'
<1>1. Ended(how).at = how
  BY EndedState DEF BooksInv, BookTypes, CallAt
<1> DEFINE c == Ended(how)
<1>2. c.at \notin {"await", "place", "finish"}
  BY <1>1
<1> HIDE DEF c
<1>3. call'.at = c.at
  BY DEF c
<1> QED BY <1>2, <1>3, LevelledOff

\* The configurations a distribution begins with.
LEMMA AtTheBeginning ==
  ASSUME BooksInv, Fitting, call.at = "await"
  PROVE  /\ BookTypes /\ call.nodes \in SUBSET Node
         /\ call.again \in BOOLEAN /\ call.force \in BOOLEAN
         /\ ~ call.again => DOMAIN mCompConfig = {}
<1>1. ~ call.again => mDistributed = FALSE
  BY DEF Fitting, BooksInv, BookTypes
<1>2. mDistributed = FALSE => DOMAIN mCompConfig = {}
  BY DEF BooksInv, SentAsBooked, Changing
<1> QED BY <1>1, <1>2 DEF BooksInv, BookTypes, CallState

\* The round robin method gives out the lowest slots there are.
LEMMA LevelledOnRoundRobin ==
  ASSUME BooksInv, Fitting, Levelled, RoundRobin
  PROVE  Levelled'
<1> DEFINE nodes == call.nodes
           todo == ToDistribute(call.again, call.force)
           configs == WithContainers(Prepared(call.again, call.force), nodes)
           D == DOMAIN configs
           k == Len(todo)
           to == Swept(configs, nodes, k)
           dealt == AddAll(configs, todo, to)
           c == [call EXCEPT !.at = "finish"]
<1>1. call.at = "await" /\ call.seen = NoUsage /\ UNCHANGED <<pattern, mData>>
  BY DEF RoundRobin, Levelled, CallerStep, statVars
<1>2. /\ BookTypes /\ nodes \in SUBSET Node /\ call.again \in BOOLEAN /\ call.force \in BOOLEAN
      /\ ~ call.again => DOMAIN mCompConfig = {}
  BY <1>1, AtTheBeginning
<1>3. CASE BadFile
  BY <1>3, LevelledOnEnd DEF BadFile
<1>4. CASE call' = [call EXCEPT !.at = "spin"]
  <2>1. call'.at = "spin"
    BY <1>2, <1>4 DEF BookTypes, CallState
  <2> QED BY <2>1, LevelledOff
<1>5. CASE ~ BadFile /\ call' # [call EXCEPT !.at = "spin"]
  <2>1. /\ Loads[file] /\ call' = c /\ mCompConfig' = dealt
        /\ nodes = {} => todo = <<>>
    BY <1>5 DEF RoundRobin
  <2>2. todo \in Seq(AnyProcess) /\ k \in Nat
    BY <1>2, <2>1, DistributedOnce DEF BookTypes
  <2>3. configs \in [D -> Config] /\ nodes \in SUBSET D
    BY <1>2, PreparedTyped
  <2>4. /\ c.at = "finish" /\ c.nodes = nodes /\ c.again = call.again
        /\ c.force = call.force /\ c.seen = NoUsage
    BY <1>1, <1>2 DEF BookTypes, CallState
  <2>5. Level(c, dealt)
    <3>1. CASE nodes = {}
      BY <2>4, <3>1 DEF Level
    <3>2. CASE nodes # {}
      <4> HIDE DEF todo, D, nodes
      <4>0. PICK size : Sized(size, k, nodes, to, configs, dealt)
        <5> HIDE DEF configs, to
        <5> QED BY <2>2, <2>3, AddAllSizes
      <4>1. /\ Grows(size, k, nodes, to)
            /\ \A m \in nodes : /\ size[0][m] = Len(Procs(configs, m))
                                /\ size[k][m] = Len(Procs(dealt, m))
        BY <4>0 DEF Sized
      <4> DEFINE slots == Slots(configs, nodes, k)
      <4>2. PICK rank : Sweeps(rank, slots, to, k)
        <5> HIDE DEF configs, k
        <5> QED BY <1>2, <2>2, <2>3, <3>2, SweepGoes
      <4> HIDE DEF to, dealt, c
      <4>3. \A l, m \in nodes : size[k][l] > size[0][l] => size[k][l] - 1 <= size[k][m]
        <5>1. /\ nodes \in SUBSET Node /\ k \in Nat /\ slots = Slots(configs, nodes, k)
              /\ Sweeps(rank, slots, to, k) /\ Grows(size, k, nodes, to)
              /\ \A m \in nodes : size[0][m] = Len(Procs(configs, m))
          BY <1>2, <2>2, <4>1, <4>2
        <5> HIDE DEF slots, configs, k
        <5> QED BY ONLY <5>1, SweepIsLevel
      <4> DEFINE first == size[0]
                 last == size[k]
      <4>4. Even(first, last, nodes, configs, dealt)
        BY <4>1, <4>3 DEF Even
      <4>5. /\ configs = WithContainers(Prepared(call.again, call.force), nodes)
            /\ dealt = AddAll(configs, todo, to)
        BY DEF dealt
      <4> HIDE DEF first, last, configs, k
      <4>6. /\ BookTypes /\ call.again \in BOOLEAN /\ call.force \in BOOLEAN
            /\ nodes \in SUBSET Node /\ todo \in Seq(AnyProcess)
        BY <1>2, <2>2
      <4>7. ~ call.again => DOMAIN mCompConfig = {}
        BY <1>2
      <4> QED BY ONLY <2>4, <4>4, <4>5, <4>6, <4>7, LevelAsDealt
    <3> QED BY <3>1, <3>2
  <2>6. Covers(mData, c.seen)
    BY <2>4 DEF Covers, NoUsage
  <2> HIDE DEF c, dealt
  <2> QED BY <1>1, <2>1, <2>4, <2>5, <2>6, LevelledAfter
<1> QED BY <1>3, <1>4, <1>5

\* The default method deals out in turns, to nodes that have nothing.
LEMMA LevelledOnDefault ==
  ASSUME BooksInv, Fitting, Levelled, Default
  PROVE  Levelled'
<1> DEFINE nodes == call.nodes
           todo == ToDistribute(FALSE, FALSE)
           configs == WithContainers(mCompConfig, nodes)
           k == Len(todo)
           to == [i \in DOMAIN todo |-> NodeAt(nodes, i)]
           dealt == AddAll(configs, todo, to)
           c == [call EXCEPT !.at = "finish"]
<1>1. call.at = "await" /\ call.seen = NoUsage /\ UNCHANGED <<pattern, mData>>
  BY DEF Default, Awaited, Levelled, CallerStep, statVars
<1>2. /\ BookTypes /\ nodes \in SUBSET Node /\ call.again \in BOOLEAN /\ call.force \in BOOLEAN
      /\ ~ call.again => DOMAIN mCompConfig = {}
  BY <1>1, AtTheBeginning
<1>3. CASE BadFile \/ mDistributed
  BY <1>3, LevelledOnEnd DEF Default, BadFile
<1>4. CASE ~ BadFile /\ ~ mDistributed
  <2>1. /\ Loads[file] /\ call' = c /\ mCompConfig' = dealt
        /\ nodes # {} \/ todo = <<>>
    BY <1>4 DEF Default, InTurns
  <2>2. todo \in Seq(AnyProcess) /\ k \in Nat
    <3>1. todo \in Seq(AnyProcess)
      BY <1>2, <2>1, DistributedOnce DEF BookTypes
    <3> HIDE DEF todo
    <3> QED BY <3>1
  <2>3. DOMAIN mCompConfig = {}
    BY <1>1, <1>2, <1>4 DEF BooksInv, BookTypes, SentAsBooked, Changing
  <2>4. /\ Prepared(call.again, call.force) = mCompConfig
        /\ configs = WithContainers(Prepared(call.again, call.force), nodes)
    BY <1>2, <2>3 DEF Prepared, BookTypes
  <2> DEFINE D == DOMAIN configs
  <2>5. configs \in [D -> Config] /\ nodes \in SUBSET D
    BY <1>2, <2>4, PreparedTyped
  <2>6. /\ c.at = "finish" /\ c.nodes = nodes /\ c.again = call.again
        /\ c.force = call.force /\ c.seen = NoUsage
    BY <1>1, <1>2 DEF BookTypes, CallState
  <2>7. Level(c, dealt)
    <3>1. CASE nodes = {}
      BY <2>6, <3>1 DEF Level
    <3>2. CASE nodes # {}
      <4> HIDE DEF todo, D, nodes
      <4>1. PICK size : Sized(size, k, nodes, to, configs, dealt)
        <5> HIDE DEF configs, to
        <5> QED BY <2>2, <2>5, AddAllSizes
      <4>2. /\ Grows(size, k, nodes, to)
            /\ \A m \in nodes : /\ size[0][m] = Len(Procs(configs, m))
                                /\ size[k][m] = Len(Procs(dealt, m))
        BY <4>1 DEF Sized
      <4>3. \A m \in nodes : size[0][m] = 0
        <5> SUFFICES ASSUME NEW m \in nodes PROVE Len(Procs(configs, m)) = 0
          BY <4>2
        <5> DEFINE none == {}
        <5>1. mCompConfig \in [none -> Config] /\ m \notin none
          BY <1>2, <2>3 DEF BookTypes
        <5> HIDE DEF none
        <5>2. m \in DOMAIN WithContainers(mCompConfig, nodes)
          BY DEF WithContainers
        <5>3. Procs(WithContainers(mCompConfig, nodes), m)
                = IF m \in none THEN Procs(mCompConfig, m) ELSE <<>>
          BY <5>1, <5>2, ContainersEmpty
        <5>4. Procs(configs, m) = <<>>
          BY <5>1, <5>3
        <5> HIDE DEF configs
        <5> QED BY <5>4
      <4>4. \A i \in 1..k : to[i] = NodeAt(nodes, i)
        BY <2>2
      <4>5. \A l, m \in nodes : size[k][l] - 1 <= size[k][m]
        <5> HIDE DEF to, k
        <5> QED BY <1>2, <2>2, <3>2, <4>2, <4>3, <4>4, TurnsAreLevel
      <4> DEFINE first == size[0]
                 last == size[k]
      <4>6. Even(first, last, nodes, configs, dealt)
        BY <4>2, <4>5 DEF Even
      <4>7. dealt = AddAll(configs, todo, to)
        OBVIOUS
      <4>8. /\ BookTypes /\ call.again \in BOOLEAN /\ call.force \in BOOLEAN
            /\ nodes \in SUBSET Node /\ todo \in Seq(AnyProcess)
        BY <1>2, <2>2
      <4>9. ~ call.again => DOMAIN mCompConfig = {}
        BY <2>3
      <4> HIDE DEF first, last, configs, k, to, dealt, c
      <4> QED BY ONLY <2>4, <2>6, <4>6, <4>7, <4>8, <4>9, LevelAsDealt
    <3> QED BY <3>1, <3>2
  <2>8. Covers(mData, c.seen)
    BY <2>6 DEF Covers, NoUsage
  <2> HIDE DEF c, dealt
  <2> QED BY <1>1, <2>1, <2>6, <2>7, <2>8, LevelledAfter
<1> QED BY <1>3, <1>4

\* The balanced method counts what each node has, ...
LEMMA LevelledOnPrepare ==
  ASSUME BooksInv, Fitting, Levelled, IsStats(mData), Prepare
  PROVE  Levelled'
<1> DEFINE nodes == call.nodes
           list == ToDistribute(call.again, call.force)
           todo == Chosen(list, {i \in DOMAIN list : Known(list[i])})
           rest == Chosen(list, {i \in DOMAIN list : ~Known(list[i])})
           configs == WithContainers(Prepared(call.again, call.force), nodes)
           nums == LoadsOf(configs, nodes)
           c == [call EXCEPT !.at = IF todo = <<>> THEN "finish" ELSE "place",
                             !.todo = todo, !.seen = mData, !.rest = rest, !.nums = nums]
<1>1. call.at = "await" /\ mData # NoUsage /\ UNCHANGED <<pattern, mData>>
  BY DEF Prepare, Awaited, NothingLearned, CallerStep, statVars
<1>2. /\ BookTypes /\ nodes \in SUBSET Node /\ call.again \in BOOLEAN /\ call.force \in BOOLEAN
      /\ ~ call.again => DOMAIN mCompConfig = {}
  BY <1>1, AtTheBeginning
<1>3. CASE BadFile
  BY <1>3, LevelledOnEnd DEF BadFile
<1>4. CASE ~ BadFile
  <2>1. call' = c /\ mCompConfig' = configs
    BY <1>4 DEF Prepare
  <2>2. /\ c.at \in {"place", "finish"} /\ c.nodes = nodes /\ c.again = call.again
        /\ c.force = call.force /\ c.seen = mData /\ c.nums = nums
    <3> HIDE DEF todo, rest, nums
    <3> QED BY <1>2 DEF BookTypes, CallState
  <2> HIDE DEF c
  <2>3. \A n \in nodes : n \in DOMAIN configs
    BY <1>2, PreparedTyped
  <2>4. \A n \in nodes : LeftOver(Procs(configs, n), call.again, call.force)
    <3> SUFFICES ASSUME NEW n \in nodes PROVE LeftOver(Procs(configs, n), call.again, call.force)
      OBVIOUS
    <3>1. n \in DOMAIN configs /\ configs = WithContainers(Prepared(call.again, call.force), nodes)
      BY <2>3
    <3> HIDE DEF configs, nodes
    <3> QED BY <1>2, <3>1, NobodyReceives
  <2>5. Counted(c, configs)
    <3> HIDE DEF configs, nodes
    <3> QED BY <2>2 DEF Counted, LoadsOf
  <2> HIDE DEF configs, nodes, nums
  <2>6. Level(c, configs)
    BY <2>2, <2>4, LevelAtFirst
  <2>7. Covers(mData, c.seen)
    BY <2>2, CoversSelf
  <2> QED BY <1>1, <2>1, <2>2, <2>5, <2>6, <2>7, LevelledAfter
<1> QED BY <1>3, <1>4

\* The lightest node is given one more.
LEMMA LevelAsPlaced ==
  ASSUME IsStats(mData), NEW D, NEW configs \in [D -> Config], NEW nodes \in SUBSET D,
         NEW p \in AnyProcess, NEW n \in nodes, NEW more, more = AddTo(configs, n, p),
         NEW b, b.nodes = nodes, b.seen # NoUsage, Level(b, configs), Counted(b, configs),
         \A m \in nodes : b.nums[n] <= b.nums[m],
         NEW c, c.nodes = nodes, c.seen = b.seen, c.again = b.again, c.force = b.force
  PROVE  Level(c, more)
<1> DEFINE load(m) == LoadOf(Procs(configs, m))
<1>1. \A m \in nodes : /\ Procs(configs, m) \in Seq(AnyProcess)
                       /\ Procs(more, m) = IF m = n THEN Append(Procs(configs, m), p)
                                           ELSE Procs(configs, m)
  BY AddToBooks, ProcsTyped
<1>2. \A m \in nodes : load(m) \in Nat /\ load(n) <= load(m)
  BY <1>1, LoadIsNat DEF Counted
<1>3. Weight(p) \in Nat
  BY WeightIsNat
<1> HIDE DEF load
<1>4. \A m \in nodes : LoadOf(Procs(more, m)) \in Nat /\ load(m) <= LoadOf(Procs(more, m))
  <2> SUFFICES ASSUME NEW m \in nodes
               PROVE  LoadOf(Procs(more, m)) \in Nat /\ load(m) <= LoadOf(Procs(more, m))
    OBVIOUS
  <2>1. CASE m = n
    <3>1. LoadOf(Procs(more, m)) = load(m) + Weight(p)
      BY <1>1, <2>1, LoadOfMore DEF load
    <3> QED BY <1>2, <1>3, <3>1
  <2>2. CASE m # n
    BY <1>1, <1>2, <2>2 DEF load
  <2> QED BY <2>1, <2>2
<1> SUFFICES ASSUME NEW l \in nodes, NEW m \in nodes, Receives(c, Procs(more, l))
             PROVE  LoadOf(Shorter(Procs(more, l))) <= LoadOf(Procs(more, m))
  BY DEF Level, WeighedFor
<1>5. LoadOf(Shorter(Procs(more, l))) \in Nat /\ LoadOf(Shorter(Procs(more, l))) <= load(m)
  <2>1. CASE l = n
    <3>1. Shorter(Append(Procs(configs, l), p)) = Procs(configs, l)
      BY <1>1, LastAdded
    <3>2. LoadOf(Shorter(Procs(more, l))) = load(l)
      BY <1>1, <2>1, <3>1 DEF load
    <3> QED BY <1>2, <2>1, <3>2
  <2>2. CASE l # n
    <3> DEFINE procs == Procs(configs, l)
    <3>1. Procs(more, l) = procs /\ procs \in Seq(AnyProcess)
      BY <1>1, <2>2
    <3>2. Receives(b, procs)
      BY <3>1 DEF Receives
    <3>3. LoadOf(Shorter(procs)) <= load(m)
      BY <3>2 DEF Level, WeighedFor, load
    <3> HIDE DEF procs
    <3>4. Shorter(procs) \in Seq(AnyProcess)
      <4>1. procs # <<>> /\ Len(procs) \in Nat
        BY <3>1, <3>2 DEF Receives
      <4> QED BY <3>1, <4>1 DEF Shorter
    <3>5. LoadOf(Shorter(procs)) \in Nat
      BY <3>4, LoadIsNat
    <3> QED BY <3>1, <3>3, <3>5
  <2> QED BY <2>1, <2>2
<1> QED BY <1>2, <1>4, <1>5

\* ... and gives each process to the lightest.
LEMMA LevelledOnPlace ==
  ASSUME BooksInv, Levelled, IsStats(mData), Place
  PROVE  Levelled'
<1> DEFINE nodes == call.nodes
           p == Head(call.todo)
           n == Assignee(call.nums)
           D == DOMAIN mCompConfig
           more == AddTo(mCompConfig, n, p)
           nums == [call.nums EXCEPT ![n] = @ + Weight(p)]
           c == call'
<1>1. /\ call.at = "place" /\ nodes # {} /\ mCompConfig' = more /\ UNCHANGED <<pattern, mData>>
  BY DEF Place, CallerStep, statVars
<1>2. /\ call.todo \in Seq(AnyProcess) /\ call.todo # <<>>
      /\ nodes \in SUBSET Node /\ nodes \in SUBSET D /\ call.nums \in [nodes -> Nat]
      /\ mCompConfig \in [D -> Config]
  BY <1>1 DEF BooksInv, BookTypes, Stages, Changing, CallState, Numbers
<1>3. n \in nodes /\ \A m \in nodes : call.nums[n] <= call.nums[m]
  <2> DEFINE f == call.nums
  <2>1. f \in [nodes -> Nat] /\ n = Assignee(f)
    BY <1>2
  <2> HIDE DEF f, n, nodes
  <2>2. Assignee(f) \in nodes /\ \A m \in nodes : f[Assignee(f)] <= f[m]
    BY <1>1, <1>2, <2>1, LightestIsNode
  <2> QED BY <2>1, <2>2 DEF f
<1>4. p \in AnyProcess
  <2> DEFINE todo == call.todo
  <2>1. todo \in Seq(AnyProcess) /\ todo # <<>>
    BY <1>2
  <2> HIDE DEF todo
  <2>2. Head(todo) \in AnyProcess
    BY <2>1, HeadTailProperties
  <2> QED BY <2>2 DEF todo
<1>5. /\ c.at \in {"place", "finish"} /\ c.nodes = nodes /\ c.seen = call.seen
      /\ c.again = call.again /\ c.force = call.force /\ c.nums = nums
  <2>1. call \in CallState
    BY DEF BooksInv, BookTypes
  <2>2. call' = [call EXCEPT !.todo = Tail(@), !.nums[n] = @ + Weight(p),
                   !.at = IF Len(call.todo) = 1 THEN "finish" ELSE "place"]
    BY DEF Place
  <2> HIDE DEF n, p
  <2> QED BY <2>1, <2>2 DEF CallState
<1>6. /\ Covers(mData, call.seen) /\ call.seen # NoUsage
      /\ Fresh(call) => Level(call, mCompConfig) /\ Counted(call, mCompConfig)
  BY <1>1 DEF Levelled
<1>7. Fresh(c) <=> Fresh(call)
  BY <1>5 DEF Fresh
<1>8. mCompConfig' = more /\ call' = c
  BY <1>1
<1>9. call.nodes = nodes
  OBVIOUS
<1> DEFINE b == call
<1>10. /\ b.nodes = nodes /\ b.seen # NoUsage /\ b.nums \in [nodes -> Nat]
       /\ \A m \in nodes : b.nums[n] <= b.nums[m]
       /\ c.nodes = nodes /\ c.seen = b.seen /\ c.again = b.again /\ c.force = b.force
       /\ c.nums = [b.nums EXCEPT ![n] = @ + Weight(p)]
  BY <1>2, <1>3, <1>5, <1>6
<1>11. Fresh(c) => Level(b, mCompConfig) /\ Counted(b, mCompConfig)
  BY <1>6, <1>7
<1>12. more = AddTo(mCompConfig, n, p)
  OBVIOUS
<1> HIDE DEF p, n, D, more, nums, c, nodes, b
<1>13. Fresh(c) => Level(c, more)
  <2> SUFFICES ASSUME Fresh(c) PROVE Level(c, more)
    OBVIOUS
  <2>1. /\ IsStats(mData) /\ mCompConfig \in [D -> Config] /\ nodes \in SUBSET D
        /\ p \in AnyProcess /\ n \in nodes /\ more = AddTo(mCompConfig, n, p)
    BY <1>2, <1>3, <1>4, <1>12
  <2>2. Level(b, mCompConfig) /\ Counted(b, mCompConfig)
    BY <1>11
  <2>3. \A m \in nodes : b.nums[n] <= b.nums[m]
    BY <1>10
  <2>4. /\ b.nodes = nodes /\ b.seen # NoUsage /\ c.nodes = nodes /\ c.seen = b.seen
        /\ c.again = b.again /\ c.force = b.force
    BY <1>10
  <2> QED BY ONLY <2>1, <2>2, <2>3, <2>4, LevelAsPlaced
<1>14. Fresh(c) => Counted(c, more)
  <2> SUFFICES ASSUME Fresh(c), NEW m \in nodes
               PROVE  c.nums[m] = LoadOf(Procs(more, m))
    BY <1>10 DEF Counted
  <2>1. b.nums[m] = LoadOf(Procs(mCompConfig, m))
    BY <1>10, <1>11 DEF Counted
  <2>2. /\ Procs(mCompConfig, m) \in Seq(AnyProcess)
        /\ Procs(more, m) = IF m = n THEN Append(Procs(mCompConfig, m), p)
                            ELSE Procs(mCompConfig, m)
    BY <1>2, <1>4, <1>12, AddToBooks, ProcsTyped
  <2>3. c.nums[m] = IF m = n THEN b.nums[m] + Weight(p) ELSE b.nums[m]
    BY <1>10
  <2>4. CASE m = n
    <3>1. LoadOf(Append(Procs(mCompConfig, m), p))
            = LoadOf(Procs(mCompConfig, m)) + Weight(p)
      BY <1>4, <2>2, LoadOfMore
    <3> QED BY <2>1, <2>2, <2>3, <2>4, <3>1
  <2>5. CASE m # n
    BY <2>1, <2>2, <2>3, <2>5
  <2> QED BY <2>4, <2>5
<1>15. /\ c.at # "await" /\ (c.at = "place" => c.seen # NoUsage) /\ Covers(mData, c.seen)
  BY <1>5, <1>6, <1>10 DEF b
<1> QED BY <1>1, <1>8, <1>13, <1>14, <1>15, LevelledAfter

LEMMA LevelledOnCall ==
  ASSUME NEW nodes \in SUBSET Node, NEW again \in BOOLEAN, NEW force \in BOOLEAN,
         Call(nodes, again, force) \/ StopWaits
  PROVE  Levelled'
<1>1. call'.at \in {"thrown", "stuck"} \/ (call'.at = "await" /\ call'.seen = NoUsage)
  BY CallTaken
<1> QED BY <1>1 DEF Levelled

\* The loads are level, after every step, as far as they are said to be.
LEMMA LevelledAlways == Spec => []Levelled
<1>1. ASSUME Init PROVE Levelled
  BY <1>1 DEF Init, Levelled, Idle
<1>2. ASSUME Levelled, BooksInv, Fitting /\ Covered, StatsInv, StatsInv', [Next]_vars
      PROVE  Levelled'
  <2>0. IsStats(mData) /\ IsStats(mData') /\ call \in CallState /\ Fitting
    BY <1>2 DEF StatsInv, BooksInv, BookTypes
  <2>1. CASE \E nodes \in SUBSET Node, again, force \in BOOLEAN : Call(nodes, again, force)
    BY <2>1, LevelledOnCall
  <2>11. CASE StopWaits
    <3>1. {} \in SUBSET Node /\ FALSE \in BOOLEAN
      OBVIOUS
    <3> QED BY <2>11, <3>1, LevelledOnCall
  <2>2. CASE RoundRobin
    BY <1>2, <2>0, <2>2, LevelledOnRoundRobin
  <2>3. CASE Default
    BY <1>2, <2>0, <2>3, LevelledOnDefault
  <2>4. CASE Prepare
    BY <1>2, <2>0, <2>4, LevelledOnPrepare
  <2>5. CASE Place
    BY <1>2, <2>0, <2>5, LevelledOnPlace
  <2>6. CASE Finish
    BY <1>2, <2>6, LevelledOnEnd DEF Finish
  <2>7. CASE StopSystem
    <3>1. call' = call /\ call.at \notin {"await", "place", "finish"}
      BY <2>7 DEF StopSystem, InProgress
    <3> QED BY <3>1, LevelledOff
  <2>8. CASE StopAll \/ EditFile \/ UNCHANGED vars
    <3>1. UNCHANGED <<pattern, mData, mCompConfig, call>>
      BY <2>8 DEF StopAll, StopStatistics, EditFile, vars, bookVars, statVars
    <3> QED BY <1>2, <3>1, LevelledKept
  <2>9. CASE \E c \in Collector : Collect(c) \/ InitialiseFails(c) \/ PollFails(c)
    <3>1. PICK c \in Collector : Collect(c) \/ InitialiseFails(c) \/ PollFails(c)
      BY <2>9
    <3>2. UNCHANGED <<pattern, mCompConfig, call>>
      BY <3>1 DEF Collect, Enter, Initialise, Poll, ProcessReport, Truncate, Write,
        Wake, InitialiseFails, PollFails, CollectorStep, bookVars
    <3>3. Covers(mData', mData)
      BY <1>2, <3>1, CollectRaises
    <3> QED BY <1>2, <2>0, <3>2, <3>3, LevelledAsRaised
  <2>10. CASE Crash \/ DividesByZero \/ KillsNobody \/ ParserEnds \/ Reinitialise
    <3>1. Restarted
      BY <2>10 DEF Crash, DividesByZero, KillsNobody, ParserEnds, Reinitialise
    <3>2. call'.at = "idle"
      BY <3>1 DEF Restarted, Idle
    <3> QED BY <3>2, LevelledOff
  <2> QED BY <1>2, <2>11, <2>1, <2>2, <2>3, <2>4, <2>5, <2>6, <2>7, <2>8, <2>9, <2>10
        DEF Next, Distribute
<1> QED BY <1>1, <1>2, StatsAlways, BooksAlways, PlacesAlways, PTL DEF Spec

\* For all files, nodes, statistics, crashes and edits, and every method: when a
\* distribution has given out the processes it has weights of, and no report has raised
\* a weight meanwhile, no node that received one would without its last still carry
\* more than another, what was left there by an earlier distribution counted in.
THEOREM LoadsAreLevel == Spec => []Balanced
<1>1. Levelled => Balanced
  BY DEF Levelled, Balanced, Level, Receives, Received, WeighedFor, Weighed, Shorter, Fresh
<1> QED BY <1>1, LevelledAlways, PTL
=============================================================================
