---------------------------- MODULE ElectionProofs ----------------------------
(***************************************************************************)
(* Proofs about Elections: what holds of the bully and the static election *)
(* whatever happens, and of a ring as long as no daemon joins it.  The     *)
(* bully's invariant is that of BullyProofs; the ring has its own.         *)
(***************************************************************************)
EXTENDS Elections, BullyProofs, FiniteSetTheorems

\* Nobody joins a ring: its candidates listen, or have gone for good.
Closed == type = "ring" => listening = up /\ "start" \notin Faults

-----------------------------------------------------------------------------
(* Helpers.                                                                *)

\* Candidates have a highest: the sets of the ones below each of them are ordered.
LEMMA HighestIs ==
  ASSUME NEW S \in SUBSET Node, S # {}
  PROVE  Highest(S) \in S /\ \A k \in S : Highest(S) >= k
<1> DEFINE from(c) == {k \in S : k >= c}
           rests == {from(c) : c \in S}
           finite == FiniteSubsetsOf(S)
           smaller == StrictSubsetOrdering(S)
<1>0. S \subseteq Nat /\ IsFiniteSet(S)
  BY CandidatesAssumption, FS_Subset
<1>1. \A c \in S : from(c) \in finite
  BY <1>0, FS_Subset DEF FiniteSubsetsOf
<1>2. rests \subseteq finite /\ rests # {}
  BY <1>1
<1>3. IsWellFoundedOn(smaller, finite)
  BY FS_StrictSubsetOrderingWellFounded
<1>4. \E x \in rests : \A y \in rests : ~ (<<y, x>> \in smaller)
  <2> HIDE DEF rests, finite, smaller
  <2> QED BY <1>2, <1>3, WFMin
<1>5. PICK c \in S : \A d \in S : <<from(d), from(c)>> \notin smaller
  BY <1>4
<1>6. ASSUME NEW d \in S, ~ (c >= d) PROVE FALSE
  <2>0. c \in Nat /\ d \in Nat /\ c < d /\ \A k \in S : k \in Nat
    BY <1>0, <1>6
  <2>1. from(d) \subseteq from(c) /\ c \in from(c) /\ c \notin from(d)
    <3>1. \A k \in S : k >= d => k >= c
      BY <2>0
    <3>2. c >= c /\ ~ (c >= d)
      BY <2>0
    <3> QED BY <3>1, <3>2, Zenon
  <2>2. <<from(d), from(c)>> \in smaller
    BY <2>1, <1>1 DEF StrictSubsetOrdering, FiniteSubsetsOf
  <2> QED BY <1>5, <2>2
<1> QED BY <1>6 DEF Highest

LEMMA CalmType == Calm \in RingState /\ Calm.after = NoMessage
BY DEF Calm, RingState

LEMMA NoMessageIsNone == NoMessage \notin Message /\ NoMessage.kind = "none"
BY DEF NoMessage, Message

\* Messages are passed on to mailboxes.
LEMMA PassedType ==
  ASSUME NEW n \in Node, NEW msg \in Message, NEW box \in [Node -> Seq(Message)]
  PROVE  Passed(n, msg, box) \in [Node -> Seq(Message)]
BY DEF Passed

LEMMA OriginatorsType ==
  ASSUME ElectionTypeOK, NEW n \in Node
  PROVE  Originators(n) \subseteq Node
<1>1. mail[n] \in Seq(Message) /\ ring[n] \in RingState
  BY DEF ElectionTypeOK
<1>2. \A i \in DOMAIN mail[n] : mail[n][i].from \in Node
  <2>1. \A i \in DOMAIN mail[n] : mail[n][i] \in Message
    BY <1>1
  <2> QED BY <2>1 DEF Message
<1>3. ring[n].after # NoMessage => ring[n].after.from \in Node
  BY <1>1 DEF RingState, Message
<1> QED BY <1>2, <1>3 DEF Originators

\* A bully's part of a step is a step of BullyElection.
LEMMA BullyPart ==
  ASSUME NEW n \in Node
  PROVE  /\ MainLoop(n) \/ BullyMain(n) \/ Exit(n) => Main(n)
         /\ Listen(n) \/ Deregister(n) \/ SetLeader(n) \/ Suggested(n) => Comm(n)
         /\ DirectorEnds(n) => Director(n)
BY DEF MainLoop, BullyMain, Main, Comm, Director

-----------------------------------------------------------------------------
(* Type correctness.                                                       *)

RingTypeOK == /\ mail \in [Node -> Seq(Message)]
              /\ ring \in [Node -> RingState]
              /\ lost \subseteq Node

\* A daemon of a ring that suggests itself stays where it is.
LEMMA SuggestsItself ==
  ASSUME TypeOK, NEW n \in Node, RingAlone(n) \/ RingAdopts(n)
  PROVE  /\ main' \in [Node -> MainState] /\ main[n].at = "probe"
         /\ \A k \in Node : /\ main'[k].at = main[k].at
                            /\ k # n => main'[k] = main[k]
<1>1. /\ main \in [Node -> MainState] /\ main[n] \in MainState
  BY DEF TypeOK
<1>2. PICK p \in Host : main' = main \/ main' = [main EXCEPT ![n] = [main[n] EXCEPT !.peer = p]]
  BY DEF RingAlone, RingAdopts, Host
<1>3. main[n].at = "probe"
  BY DEF RingAlone, RingAdopts, Electing, AtMain
<1>4. [main[n] EXCEPT !.peer = p] \in MainState /\ [main[n] EXCEPT !.peer = p].at = main[n].at
  BY <1>1 DEF MainState
<1> QED BY <1>1, <1>2, <1>3, <1>4

\* Nobody calls because of the ring.
LEMMA NoCall ==
  ASSUME TypeOK, NEW n \in Node, RingMain(n), NEW k \in Node
  PROVE  main'[k].at = "call" => main'[k] = main[k]
<1>1. CASE RingAlone(n) \/ RingAdopts(n)
  <2>1. k = n => main'[k].at = "probe"
    BY <1>1, SuggestsItself
  <2> QED BY <1>1, <2>1, SuggestsItself
<1>2. CASE ~ (RingAlone(n) \/ RingAdopts(n))
  BY <1>2 DEF TypeOK, RingMain, RingBegin, RingInitiate, RingElected, Goto, At, vars
<1> QED BY <1>1, <1>2

LEMMA RingMainType ==
  ASSUME ElectionTypeOK, NEW n \in Node, RingMain(n)
  PROVE  TypeOK' /\ RingTypeOK'
<1> USE DEF RingTypeOK
<1>0. TypeOK /\ mail \in [Node -> Seq(Message)] /\ ring \in [Node -> RingState]
      /\ lost \subseteq Node
  BY DEF ElectionTypeOK
<1>1. CASE RingBegin(n)
  <2>1. ring' \in [Node -> RingState]
    BY <1>0, <1>1 DEF RingBegin, RingState
  <2> QED
    BY <1>0, <1>1, <2>1, AtType, OneMain DEF RingBegin, Goto, TypeOK
<1>2. CASE RingInitiate(n)
  <2>1. [kind |-> "ELECT", from |-> n, top |-> n] \in Message
    BY DEF Message
  <2>2. mail' \in [Node -> Seq(Message)]
    BY <1>0, <1>2, <2>1, PassedType DEF RingInitiate
  <2>3. ring' \in [Node -> RingState]
    BY <1>0, <1>2 DEF RingInitiate, RingState
  <2> QED
    BY <1>0, <1>2, <2>2, <2>3 DEF RingInitiate, vars, TypeOK
<1>3. CASE RingAlone(n)
  <2>1. mLeaderHost' \in [Node -> Host]
    BY <1>0, <1>3 DEF RingAlone, TypeOK, Host
  <2>2. /\ director' \in [Node -> {"none", "starting", "initialised", "stopping", "ended"}]
        /\ follows' \in [Node -> Host] /\ hbStop' \in [Node -> BOOLEAN]
    <3>1. \/ /\ director' = [director EXCEPT ![n] = "none"] /\ follows' = Abandoned(n)
             /\ hbStop' = [hbStop EXCEPT ![n] = TRUE]
          \/ UNCHANGED <<director, follows, hbStop>>
      BY <1>3 DEF RingAlone
    <3>2. /\ director \in [Node -> {"none", "starting", "initialised", "stopping", "ended"}]
          /\ hbStop \in [Node -> BOOLEAN] /\ follows \in [Node -> Host]
          /\ Abandoned(n) \in [Node -> Host]
      BY <1>0, AbandonedType DEF TypeOK
    <3>3. /\ [director EXCEPT ![n] = "none"]
               \in [Node -> {"none", "starting", "initialised", "stopping", "ended"}]
          /\ [hbStop EXCEPT ![n] = TRUE] \in [Node -> BOOLEAN]
      BY <3>2
    <3> QED
      BY <3>1, <3>2, <3>3
  <2>3. ring' \in [Node -> RingState]
    <3> DEFINE waits == (Answer(n, n) = "change")
    <3>1. ring' = [ring EXCEPT ![n].begun = TRUE, ![n].mElecting = waits]
      BY <1>3 DEF RingAlone
    <3>2. waits \in BOOLEAN
      OBVIOUS
    <3> HIDE DEF waits
    <3> QED BY <1>0, <3>1, <3>2 DEF RingState
  <2>4. main' \in [Node -> MainState]
    BY <1>0, <1>3, SuggestsItself
  <2> QED
    BY <1>0, <1>3, <2>1, <2>2, <2>3, <2>4 DEF RingAlone, TypeOK
<1>4. CASE RingElected(n)
  BY <1>0, <1>4, AtType, OneMain DEF RingElected, Goto, TypeOK, ringVars
<1>5. CASE RingAdopts(n)
  <2>1. ring' \in [Node -> RingState]
    BY <1>0, <1>5 DEF RingAdopts, RingState
  <2>2. main' \in [Node -> MainState] /\ mLeaderHost' \in [Node -> Host]
    BY <1>0, <1>5, SuggestsItself DEF RingAdopts, TypeOK, Host
  <2> QED BY <1>0, <1>5, <2>1, <2>2 DEF RingAdopts, TypeOK
<1> QED
  BY <1>1, <1>2, <1>3, <1>4, <1>5 DEF RingMain

LEMMA RingCommType ==
  ASSUME ElectionTypeOK, NEW n \in Node, RingComm(n)
  PROVE  TypeOK' /\ RingTypeOK'
<1> USE DEF RingTypeOK
<1>0. TypeOK /\ mail \in [Node -> Seq(Message)] /\ ring \in [Node -> RingState]
      /\ lost \subseteq Node
  BY DEF ElectionTypeOK
<1> DEFINE msg == Head(mail[n])
<1>1. ASSUME Reads(n)
      PROVE  /\ msg \in Message /\ msg.top \in Node /\ msg.from \in Node
             /\ Rest(n) \in [Node -> Seq(Message)]
  <2>1. mail[n] \in Seq(Message) /\ mail[n] # <<>>
    BY <1>0, <1>1 DEF Reads
  <2>2. msg \in Message /\ Tail(mail[n]) \in Seq(Message)
    BY <2>1
  <2> QED
    BY <1>0, <2>2 DEF Rest, Message
<1>2. \A m \in Message, box \in [Node -> Seq(Message)] :
        PassesOn(n, m, box) => mail' \in [Node -> Seq(Message)] /\ lost' \subseteq Node
  <2> TAKE m \in Message, box \in [Node -> Seq(Message)]
  <2>1. m.from \in Node
    BY DEF Message
  <2>2. Passed(n, m, box) \in [Node -> Seq(Message)]
    BY PassedType
  <2> QED BY <1>0, <2>1, <2>2 DEF PassesOn
<1>3. UNCHANGED vars => TypeOK'
  BY <1>0 DEF vars, TypeOK
<1>4. CASE RingElect(n)
  <2>1. Reads(n)
    BY <1>4 DEF RingElect
  <2>2. [msg EXCEPT !.top = Higher(n, msg)] \in Message
    BY <1>1, <2>1 DEF Higher, Message
  <2> QED
    BY <1>0, <1>1, <1>2, <1>3, <1>4, <2>1, <2>2 DEF RingElect
<1>5. CASE RingCoordinate(n)
  <2>1. Reads(n)
    BY <1>5 DEF RingCoordinate
  <2>2. [msg EXCEPT !.kind = "COORD"] \in Message
    BY <1>1, <2>1 DEF Message
  <2>3. ring' \in [Node -> RingState]
    BY <1>0, <1>5 DEF RingCoordinate, RingState
  <2> QED
    BY <1>0, <1>1, <1>2, <1>3, <1>5, <2>1, <2>2, <2>3 DEF RingCoordinate
<1>6. CASE RingSuggested(n)
  <2>1. Reads(n)
    BY <1>6 DEF RingSuggested
  <2>2. mLeaderHost' \in [Node -> Host]
    BY <1>0, <1>1, <1>6, <2>1 DEF RingSuggested, TypeOK, Host
  <2>3. comm' \in [Node -> CommState]
    BY <1>0, <1>1, <1>6, <2>1, QuietType DEF RingSuggested, TypeOK, CommState, Host
  <2>4. ring' \in [Node -> RingState]
    BY <1>0, <1>1, <1>6, <2>1 DEF RingSuggested, RingState
  <2> QED
    BY <1>0, <1>1, <1>6, <2>1, <2>2, <2>3, <2>4 DEF RingSuggested, TypeOK
<1>7. CASE RingConclude(n)
  <2>1. ring[n].after \in Message
    BY <1>0, <1>7 DEF RingConclude, RingState
  <2>2. ring' \in [Node -> RingState]
    <3>1. \/ ring' = [ring EXCEPT ![n].after = NoMessage, ![n].mElecting = FALSE]
          \/ ring' = [ring EXCEPT ![n].after = NoMessage]
      BY <1>7 DEF RingConclude
    <3>2. ring[n] \in RingState
      BY <1>0
    <3>3. [ring[n] EXCEPT !.after = NoMessage, !.mElecting = FALSE] \in RingState
      BY <3>2 DEF RingState
    <3>4. [ring[n] EXCEPT !.after = NoMessage] \in RingState
      BY <3>2 DEF RingState
    <3> QED BY <1>0, <3>1, <3>3, <3>4
  <2> QED
    BY <1>0, <1>2, <1>3, <1>7, <2>1, <2>2 DEF RingConclude
<1> QED
  BY <1>4, <1>5, <1>6, <1>7 DEF RingComm

LEMMA OtherTypes ==
  ASSUME ElectionTypeOK, NEW n \in Node
  PROVE  /\ RingGone(n) => RingTypeOK' /\ deaf' \subseteq Node
         /\ StaticElected(n) \/ Unopposed(n) => TypeOK' /\ RingTypeOK'
         /\ CommEnds(n) => TypeOK' /\ RingTypeOK' /\ deaf' \subseteq Node
<1> USE DEF RingTypeOK
<1>0. /\ TypeOK /\ mail \in [Node -> Seq(Message)] /\ ring \in [Node -> RingState]
      /\ deaf \subseteq Node /\ lost \subseteq Node
  BY DEF ElectionTypeOK
<1>1. ASSUME RingGone(n)
      PROVE  RingTypeOK' /\ deaf' \subseteq Node
  BY <1>0, <1>1, OriginatorsType, CalmType DEF RingGone
<1>2. ASSUME StaticElected(n)
      PROVE  TypeOK' /\ RingTypeOK'
  <2>1. Highest(Node) \in Host
    BY HighestIs DEF Host
  <2> QED
    BY <1>0, <1>2, <2>1, AtType, OneMain DEF StaticElected, Goto, TypeOK, ringVars
<1>3. ASSUME Unopposed(n)
      PROVE  TypeOK' /\ RingTypeOK'
  BY <1>0, <1>3 DEF Unopposed, TypeOK, ringVars
<1>4. ASSUME CommEnds(n)
      PROVE  TypeOK' /\ RingTypeOK' /\ deaf' \subseteq Node
  BY <1>0, <1>4, OriginatorsType DEF CommEnds, Happens, TypeOK
<1> QED
  BY <1>1, <1>2, <1>3, <1>4

\* The states the systems start in.
LEMMA InitTypes == ElectionInit => ElectionTypeOK
<1> SUFFICES ASSUME ElectionInit
             PROVE  ElectionTypeOK
  OBVIOUS
<1>1. \A S \in SUBSET Node : \A ports \in SUBSET S : InitWith(S, ports) => TypeOK
  BY AtType, QuietType DEF InitWith, TypeOK, Host
<1>2. ASSUME NEW S \in SUBSET Node, S # {}, InitLed(S)
      PROVE  TypeOK
  BY <1>2, HighestIs, AtType, QuietType DEF InitLed, TypeOK, Host
<1>3. PICK t \in Types : InitElection(t)
  BY DEF ElectionInit
<1>4. /\ type \in Types /\ mail \in [Node -> Seq(Message)] /\ ring \in [Node -> RingState]
      /\ deaf \subseteq Node /\ lost \subseteq Node
  BY <1>3, CalmType DEF InitElection
<1> QED
  BY <1>1, <1>2, <1>4 DEF ElectionInit, ElectionTypeOK

\* Every variable of the three elections keeps its type, whatever fails and joins.
THEOREM ElectionTyping == ElectionSpec => []ElectionTypeOK
<1>1. ElectionTypeOK /\ [ElectionNext]_electionVars => ElectionTypeOK'
  <2> SUFFICES ASSUME ElectionTypeOK, [ElectionNext]_electionVars
               PROVE  ElectionTypeOK'
    OBVIOUS
  <2> USE DEF ElectionTypeOK, RingTypeOK
  <2>1. CASE UNCHANGED electionVars
    BY <2>1 DEF electionVars, threadVars, ringVars, vars, TypeOK
  <2>2. ASSUME NEW n \in Node, ElectionMain(n), UNCHANGED type
        PROVE  ElectionTypeOK'
    <3>1. CASE Exit(n) /\ RingGone(n)
      BY <3>1, <2>2, BullyPart, MainType, OtherTypes
    <3>2. CASE (MainLoop(n) \/ BullyMain(n)) /\ UNCHANGED ringVars /\ UNCHANGED deaf
      BY <3>2, <2>2, BullyPart, MainType DEF ringVars
    <3>3. CASE RingMain(n) /\ UNCHANGED deaf
      BY <3>3, <2>2, RingMainType
    <3>4. CASE StaticElected(n) /\ UNCHANGED deaf
      BY <3>4, <2>2, OtherTypes
    <3> QED
      BY <2>2, <3>1, <3>2, <3>3, <3>4 DEF ElectionMain
  <2>3. ASSUME NEW n \in Node, ElectionComm(n), UNCHANGED type
        PROVE  ElectionTypeOK'
    <3>1. CASE (Listen(n) \/ Deregister(n) \/ SetLeader(n) \/ Suggested(n)) /\ UNCHANGED ringVars
      BY <3>1, <2>3, BullyPart, CommType DEF ringVars, ElectionComm
    <3>2. CASE RingComm(n)
      BY <3>2, <2>3, RingCommType DEF ElectionComm
    <3> QED
      BY <2>3, <3>1, <3>2 DEF ElectionComm
  <2>4. ASSUME NEW n \in Node, ElectionDirector(n), UNCHANGED type
        PROVE  ElectionTypeOK'
    <3>1. CASE (Director(n) \/ DirectorEnds(n)) /\ UNCHANGED ringVars
      BY <3>1, <2>4, BullyPart, DirectorType DEF ringVars, ElectionDirector
    <3>2. CASE Unopposed(n)
      BY <3>2, <2>4, OtherTypes DEF ElectionDirector
    <3> QED
      BY <2>4, <3>1, <3>2 DEF ElectionDirector
  <2>5. ASSUME NEW n \in Node, Disturbance(n, Faults), UNCHANGED type
        PROVE  ElectionTypeOK'
    <3>1. CASE Crash(n) /\ RingGone(n)
      <4>1. TypeOK'
        BY <3>1, GoneType DEF Crash, Happens, TypeOK
      <4> QED BY <3>1, <4>1, <2>5, OtherTypes
    <3>2. CASE Start(n) /\ UNCHANGED <<ringVars, deaf>>
      BY <3>2, <2>5 DEF Start, Happens, TypeOK, ringVars
    <3>3. CASE StopDirector(n) /\ UNCHANGED <<ringVars, deaf>>
      BY <3>3, <2>5, AbandonedType DEF StopDirector, Happens, TypeOK, ringVars
    <3>4. CASE CommEnds(n)
      BY <3>4, <2>5, OtherTypes
    <3> QED
      BY <2>5, <3>1, <3>2, <3>3, <3>4 DEF Disturbance
  <2> QED
    BY <2>1, <2>2, <2>3, <2>4, <2>5 DEF ElectionNext
<1> QED
  BY <1>1, InitTypes, PTL DEF ElectionSpec

-----------------------------------------------------------------------------
(* The bully and the static election: BullyProofs' order.                  *)

LEMMA StaticOrder ==
  ASSUME TypeOK, Order, NEW n \in Node, StaticElected(n) \/ Unopposed(n)
  PROVE  Order'
<1> SUFFICES ASSUME NEW k \in Node
             PROVE  (Above(k) /\ CanAsk(k) /\ HasDirector(k))'
  BY DEF Order
<1> USE NobodyIsNoNode
<1>0. Above(k) /\ CanAsk(k) /\ HasDirector(k)
  BY DEF Order
<1>1. CASE StaticElected(n)
  <2> DEFINE leader == Highest(Node)
  <2>1. leader \in Node /\ leader >= n
    BY HighestIs
  <2> HIDE DEF leader
  <2>2. /\ mLeaderHost' = [mLeaderHost EXCEPT ![n] = leader]
        /\ main' = [main EXCEPT ![n] = At(IF n = leader THEN "lead" ELSE "slave")]
    BY <1>1 DEF StaticElected, Goto, leader
  <2>3. CASE k # n
    BY <1>1, <2>2, <2>3, Frame DEF StaticElected, TypeOK
  <2>4. CASE k = n
    BY <1>0, <1>1, <2>1, <2>2, <2>4
       DEF StaticElected, TypeOK, Above, CanAsk, HasDirector, At
  <2> QED BY <2>3, <2>4
<1>2. CASE Unopposed(n)
  <2>1. /\ director'[k] = director[k] \/ director'[k] = "initialised"
        /\ toTell'[k] = toTell[k] \/ toTell'[k] = {}
    BY <1>2 DEF Unopposed, TypeOK
  <2> QED
    BY <1>0, <1>2, <2>1 DEF Unopposed, Above, CanAsk, HasDirector
<1> QED BY <1>1, <1>2

LEMMA OrderStep ==
  ASSUME TypeOK, Order, type # "ring", [ElectionNext]_electionVars
  PROVE  Order'
<1>1. CASE UNCHANGED electionVars
  BY <1>1 DEF electionVars, threadVars, vars, Order, Above, CanAsk, HasDirector
<1>2. ASSUME NEW n \in Node, ElectionMain(n)
      PROVE  Order'
  BY <1>2, BullyPart, MainOrder, StaticOrder DEF ElectionMain
<1>3. ASSUME NEW n \in Node, ElectionComm(n)
      PROVE  Order'
  BY <1>3, BullyPart, CommOrder DEF ElectionComm
<1>4. ASSUME NEW n \in Node, ElectionDirector(n)
      PROVE  Order'
  BY <1>4, BullyPart, DirectorOrder, StaticOrder DEF ElectionDirector
<1>5. ASSUME NEW n \in Node, Disturbance(n, Faults)
      PROVE  Order'
  <2>1. CASE CommEnds(n)
    BY <2>1 DEF CommEnds, Order, Above, CanAsk, HasDirector
  <2> QED BY <1>5, <2>1, EventsOrder DEF Disturbance
<1> QED BY <1>1, <1>2, <1>3, <1>4, <1>5 DEF ElectionNext

LEMMA LedOrder ==
  ASSUME NEW S \in SUBSET Node, S # {}, InitLed(S)
  PROVE  Order
<1> DEFINE leader == Highest(S)
<1>1. leader \in Node /\ \A k \in S : leader >= k
  BY HighestIs
<1> HIDE DEF leader
<1> USE NobodyIsNoNode
<1> SUFFICES ASSUME NEW k \in Node
             PROVE  Above(k) /\ CanAsk(k) /\ HasDirector(k)
  BY DEF Order
<1>2. /\ mLeaderHost[k] = IF k \in S THEN leader ELSE Nobody
      /\ main[k] = IF k \in S THEN At("heartbeat") ELSE At("elect")
      /\ inbox[k] = <<>> /\ comm[k] = Quiet /\ toTell[k] = {}
      /\ director[k] = IF k = leader THEN "initialised" ELSE "none"
      /\ follows[k] = mLeaderHost[k]
  BY DEF InitLed, leader
<1> QED BY <1>1, <1>2 DEF Above, CanAsk, HasDirector, At, Quiet

LEMMA StartedOrder ==
  ASSUME NEW S \in SUBSET Node, NEW ports \in SUBSET S, InitWith(S, ports)
  PROVE  Order
BY NobodyIsNoNode DEF InitWith, Order, Above, CanAsk, HasDirector, At, Quiet, Lessers

-----------------------------------------------------------------------------
(* In every election: directors run in daemons that run.                   *)

Present(n) ==
  /\ director[n] # "none" => n \in up
  /\ main[n].at = "call" => main[n].peer \in up \cup {Nobody}
  /\ follows[n] \in up \cup {Nobody}

LEMMA PresentFrame ==
  ASSUME NEW k \in Node, Present(k), up \subseteq up',
         director'[k] # "none" => director[k] # "none" \/ k \in up,
         main'[k].at = "call" => main'[k] = main[k],
         follows'[k] \in {follows[k], Nobody}
  PROVE  Present(k)'
BY DEF Present

LEMMA GonePresent ==
  ASSUME TypeOK, NEW n \in Node, Gone(n), NEW k \in Node, Present(k)
  PROVE  Present(k)'
<1>1. /\ up' = up \ {n} /\ director'[k] = IF k = n THEN "none" ELSE director[k]
      /\ main'[k] = IF k = n THEN At("elect")
                    ELSE IF main[k].at = "call" /\ main[k].peer = n THEN At("call")
                    ELSE main[k]
      /\ follows'[k] = IF k = n \/ follows[k] = n THEN Nobody ELSE follows[k]
  BY DEF Gone, TypeOK, Abandoned
<1> QED
  BY <1>1 DEF Present, At

LEMMA MainPresent ==
  ASSUME TypeOK, NEW n \in Node, Main(n), NEW k \in Node, Present(k),
         \A m \in Node : Present(m)
  PROVE  Present(k)'
<1>1. CASE Exit(n)
  BY <1>1, GonePresent DEF Exit
<1>2. CASE CallDirector(n)
  <2>1. PICK t \in LeaderHost(n) :
          Serving(t) /\ main' = [main EXCEPT ![n] = [At("call") EXCEPT !.peer = t]]
    BY <1>2 DEF CallDirector
  <2>2. t \in up
    BY <2>1, LeaderHostType DEF Serving, Present
  <2>3. main'[k] = main[k] \/ main'[k].peer = t
    BY <2>1 DEF TypeOK, At
  <2> QED BY <1>2, <2>2, <2>3 DEF CallDirector, Present
<1>3. CASE Registered(n)
  <2>1. follows'[k] \in {follows[k], main[n].peer, Nobody}
    BY <1>3 DEF Registered, TypeOK
  <2>2. main[n].peer \in up
    BY <1>3 DEF Registered, AtMain, Present
  <2>3. main'[k].at = "call" => main'[k] = main[k]
    BY <1>3 DEF Registered, Goto, At, TypeOK
  <2> QED BY <1>3, <2>1, <2>2, <2>3 DEF Registered, Present
<1>4. CASE ~Exit(n) /\ ~CallDirector(n) /\ ~Registered(n)
  <2>1. up' = up /\ (director'[k] # "none" => director[k] # "none" \/ k \in up)
    BY <1>4 DEF TypeOK, Main, UseLeader, BeginProbe, Elected, Probe, Lead, AwaitDirector,
       Slave, NoDirector, HeartbeatEnds, AtMain
  <2>2. follows'[k] \in {follows[k], Nobody}
    BY <1>4 DEF TypeOK, Main, UseLeader, BeginProbe, Elected, Probe, Lead, AwaitDirector,
       Slave, NoDirector, HeartbeatEnds, Abandoned
  <2>3. main'[k].at = "call" => main'[k] = main[k]
    <3>1. ASSUME NEW m \in Node, Probe(n, m)
          PROVE  main'[k].at = "call" => main'[k] = main[k]
      BY <3>1 DEF Probe, AtMain, TypeOK, MainState
    <3> QED
      BY <1>4, <3>1 DEF TypeOK, Main, UseLeader, BeginProbe, Elected, Lead, AwaitDirector,
         Slave, NoDirector, HeartbeatEnds, Goto, At
  <2> QED BY <2>1, <2>2, <2>3, PresentFrame
<1> QED BY <1>1, <1>2, <1>3, <1>4

LEMMA OtherPresent ==
  ASSUME TypeOK, NEW n \in Node, NEW k \in Node, Present(k)
  PROVE  /\ Comm(n) => Present(k)'
         /\ Director(n) => Present(k)'
         /\ Start(n) \/ StopDirector(n) \/ CommEnds(n) => Present(k)'
         /\ StaticElected(n) \/ Unopposed(n) => Present(k)'
         /\ RingMain(n) \/ RingComm(n) => Present(k)'
<1>1. ASSUME Comm(n)
      PROVE  Present(k)'
  BY <1>1, PresentFrame DEF TypeOK, Comm, Listen, Suggested, Deregister, SetLeader, Abandoned
<1>2. ASSUME Director(n)
      PROVE  Present(k)'
  BY <1>2, PresentFrame DEF TypeOK, Director, Tell, DirectorReady, DirectorEnds
<1>3. ASSUME Start(n) \/ StopDirector(n) \/ CommEnds(n)
      PROVE  Present(k)'
  <2>1. /\ up \subseteq up' /\ main' = main
        /\ follows'[k] \in {follows[k], Nobody}
    BY <1>3 DEF Start, StopDirector, CommEnds, Abandoned
  <2>2. director'[k] # "none" => director[k] # "none"
    BY <1>3 DEF TypeOK, Start, StopDirector, CommEnds, Serving
  <2> QED BY <2>1, <2>2, PresentFrame
<1>4. ASSUME StaticElected(n) \/ Unopposed(n)
      PROVE  Present(k)'
  <2>1. up' = up /\ follows' = follows
    BY <1>4 DEF StaticElected, Unopposed
  <2>2. director'[k] # "none" => director[k] # "none"
    BY <1>4 DEF TypeOK, StaticElected, Unopposed
  <2>3. main'[k].at = "call" => main'[k] = main[k]
    BY <1>4 DEF TypeOK, StaticElected, Unopposed, Goto, At
  <2> QED BY <2>1, <2>2, <2>3, PresentFrame
<1>5. ASSUME RingMain(n)
      PROVE  Present(k)'
  <2>1. main'[k].at = "call" => main'[k] = main[k]
    BY <1>5, NoCall
  <2>2. up' = up /\ (director'[k] # "none" => director[k] # "none" \/ k \in up)
    BY <1>5 DEF TypeOK, RingMain, RingBegin, RingInitiate, RingAlone, RingAdopts, RingElected, vars
  <2>3. follows'[k] \in {follows[k], Nobody}
    BY <1>5 DEF TypeOK, RingMain, RingBegin, RingInitiate, RingAlone, RingAdopts, RingElected,
       vars, Abandoned
  <2> QED BY <2>1, <2>2, <2>3, PresentFrame
<1>6. ASSUME RingComm(n)
      PROVE  Present(k)'
  BY <1>6, PresentFrame
     DEF RingComm, RingElect, RingCoordinate, RingSuggested, RingConclude, vars
<1> QED BY <1>1, <1>2, <1>3, <1>4, <1>5, <1>6

AllPresent == \A n \in Node : Present(n)

LEMMA PresentStep ==
  ASSUME TypeOK, AllPresent, [ElectionNext]_electionVars
  PROVE  AllPresent'
<1> SUFFICES ASSUME NEW k \in Node
             PROVE  Present(k)'
  BY DEF AllPresent
<1>0. Present(k) /\ \A m \in Node : Present(m)
  BY DEF AllPresent
<1>1. CASE UNCHANGED electionVars
  BY <1>0, <1>1 DEF electionVars, threadVars, vars, Present
<1>2. ASSUME NEW n \in Node, ElectionMain(n)
      PROVE  Present(k)'
  BY <1>0, <1>2, BullyPart, MainPresent, OtherPresent DEF ElectionMain
<1>3. ASSUME NEW n \in Node, ElectionComm(n)
      PROVE  Present(k)'
  BY <1>0, <1>3, BullyPart, OtherPresent DEF ElectionComm
<1>4. ASSUME NEW n \in Node, ElectionDirector(n)
      PROVE  Present(k)'
  BY <1>0, <1>4, BullyPart, OtherPresent DEF ElectionDirector
<1>5. ASSUME NEW n \in Node, Disturbance(n, Faults)
      PROVE  Present(k)'
  BY <1>0, <1>5, OtherPresent, GonePresent DEF Disturbance, Crash
<1> QED BY <1>1, <1>2, <1>3, <1>4, <1>5 DEF ElectionNext

-----------------------------------------------------------------------------
(* The ring: how far a message has come.                                   *)

LEMMA Ranks ==
  ASSUME NEW n \in Node
  PROVE  /\ Highest(Node) \in Nat
         /\ \A k \in Node : k \in Nat /\ 1 <= k /\ k <= Highest(Node)
<1>1. Highest(Node) \in Node /\ \A k \in Node : Highest(Node) >= k
  BY HighestIs
<1>2. \A k \in Node : k \in Nat /\ k # 0
  BY CandidatesAssumption
<1> HIDE DEF Highest
<1> QED BY <1>1, <1>2

LEMMA DistanceType ==
  ASSUME NEW n \in Node, NEW k \in Node
  PROVE  Distance(n, k) \in Int
BY Ranks DEF Distance

\* Once round is farther than to anybody else, ...
LEMMA AllAround ==
  ASSUME NEW n \in Node, NEW k \in Node, k # n
  PROVE  Distance(n, k) < Distance(n, n)
<1> DEFINE H == Highest(Node)
<1>1. H \in Nat /\ n \in 1 .. H /\ k \in 1 .. H
  <2>1. n \in Nat /\ k \in Nat /\ H \in Nat /\ 1 <= n /\ n <= H /\ 1 <= k /\ k <= H
    BY Ranks
  <2> HIDE DEF H
  <2> QED BY <2>1
<1> HIDE DEF H
<1>2. Distance(n, k) = (IF k > n THEN k - n ELSE k - n + H) /\ Distance(n, n) = n - n + H
  BY <1>1 DEF Distance, H
<1> QED BY <1>1, <1>2

\* ... and who is on the way from n to m, seen from f before both, lies nearer to n.
LEMMA Between ==
  ASSUME NEW f \in Node, NEW n \in Node, NEW m \in Node, NEW k \in Node, f # n,
         Distance(n, m) <= Distance(n, f),
         Distance(f, n) < Distance(f, k), Distance(f, k) < Distance(f, m)
  PROVE  Distance(n, k) < Distance(n, m)
<1> DEFINE H == Highest(Node)
<1>1. H \in Nat /\ f \in 1 .. H /\ n \in 1 .. H /\ m \in 1 .. H /\ k \in 1 .. H
  <2>1. H \in Nat /\ \A a \in Node : a \in Nat /\ 1 <= a /\ a <= H
    BY Ranks
  <2> HIDE DEF H
  <2> QED BY <2>1
<1> HIDE DEF H
<1>2. \A a, b \in Node : Distance(a, b) = IF b > a THEN b - a ELSE b - a + H
  BY DEF Distance, H
<1> QED BY <1>1, <1>2

LEMMA SameDistance ==
  ASSUME NEW f \in Node, NEW n \in Node, NEW k \in Node,
         Distance(f, n) = Distance(f, k)
  PROVE  k = n
<1> DEFINE H == Highest(Node)
<1>1. H \in Nat /\ \A a \in Node : a \in Nat /\ 1 <= a /\ a <= H
  BY Ranks
<1>2. \A a, b \in Node : Distance(a, b) = IF b > a THEN b - a ELSE b - a + H
  BY DEF Distance
<1> HIDE DEF H
<1> QED BY <1>1, <1>2

\* Nobody that listens ranks above t.
Tops(t) == \A k \in listening : k <= t

\* A message knows whom it has passed: an election's the candidates between its
\* originator and its reader, a coordinator's all of them.
Borne(n, message) ==
  /\ message.kind = "ELECT" =>
       /\ message.from <= message.top
       /\ \A k \in listening : Distance(message.from, k) < Distance(message.from, n)
                                 => k <= message.top
  /\ message.kind = "COORD" => Tops(message.top)

AllBorne(box) == \A n \in Node : \A i \in DOMAIN box[n] : Borne(n, box[n][i])

Tracked == AllBorne(mail)

LEMMA PassedBorne ==
  ASSUME NEW n \in Node, NEW message \in Message, NEW box \in [Node -> Seq(Message)],
         AllBorne(box), \A m \in NextNode(n, message.from) : Borne(m, message)
  PROVE  AllBorne(Passed(n, message, box))
<1> SUFFICES ASSUME NEW m \in Node, NEW i \in DOMAIN Passed(n, message, box)[m]
             PROVE  Borne(m, Passed(n, message, box)[m][i])
  BY DEF AllBorne
<1>1. CASE m \in NextNode(n, message.from)
  <2>1. box[m] \in Seq(Message) /\ Passed(n, message, box)[m] = Append(box[m], message)
    BY <1>1 DEF Passed
  <2>2. i \in 1 .. Len(box[m]) + 1
    BY <2>1
  <2>3. CASE i = Len(box[m]) + 1
    BY <1>1, <2>1, <2>3
  <2>4. CASE i \in DOMAIN box[m]
    <3>1. Append(box[m], message)[i] = box[m][i]
      BY <2>1, <2>4
    <3> QED BY <2>1, <2>4, <3>1 DEF AllBorne
  <2> QED BY <2>1, <2>2, <2>3, <2>4
<1>2. CASE m \notin NextNode(n, message.from)
  BY <1>2 DEF Passed, AllBorne
<1> QED BY <1>1, <1>2

\* What has been read is no longer in the mail.
LEMMA RestBorne ==
  ASSUME ElectionTypeOK, Tracked, NEW n \in Node, Reads(n)
  PROVE  /\ Borne(n, Head(mail[n])) /\ AllBorne(Rest(n))
         /\ Head(mail[n]) \in Message /\ Rest(n) \in [Node -> Seq(Message)]
<1>1. mail \in [Node -> Seq(Message)] /\ mail[n] \in Seq(Message) /\ mail[n] # <<>>
  BY DEF ElectionTypeOK, Reads
<1>2. /\ Head(mail[n]) \in Message /\ Tail(mail[n]) \in Seq(Message)
      /\ Head(mail[n]) = mail[n][1] /\ 1 \in DOMAIN mail[n]
      /\ \A i \in DOMAIN Tail(mail[n]) :
           i + 1 \in DOMAIN mail[n] /\ Tail(mail[n])[i] = mail[n][i + 1]
  BY <1>1
<1>3. Borne(n, Head(mail[n]))
  BY <1>2 DEF Tracked, AllBorne
<1>4. Rest(n) = [mail EXCEPT ![n] = Tail(mail[n])]
  BY DEF Rest
<1>5. AllBorne(Rest(n))
  <2> SUFFICES ASSUME NEW m \in Node, NEW i \in DOMAIN Rest(n)[m]
               PROVE  Borne(m, Rest(n)[m][i])
    BY DEF AllBorne
  <2>1. CASE m = n
    BY <1>1, <1>2, <1>4, <2>1 DEF Tracked, AllBorne
  <2>2. CASE m # n
    BY <1>1, <1>4, <2>2 DEF Tracked, AllBorne
  <2> QED BY <2>1, <2>2
<1> QED BY <1>1, <1>2, <1>3, <1>4, <1>5

\* The originator's message comes back with the highest rank there is, ...
LEMMA BackIsTop ==
  ASSUME NEW n \in Node, NEW message \in Message, listening \subseteq Node,
         message.kind = "ELECT", message.from = n, Borne(n, message)
  PROVE  Tops(message.top)
<1> SUFFICES ASSUME NEW k \in listening
             PROVE  k <= message.top
  BY DEF Tops
<1>1. CASE k = n
  BY <1>1 DEF Borne
<1>2. CASE k # n
  BY <1>2, AllAround DEF Borne
<1> QED BY <1>1, <1>2

\* ... because each reader adds its own before it passes the message on.
LEMMA OnwardBorne ==
  ASSUME NEW n \in Node, NEW message \in Message, listening \subseteq Node,
         message.kind = "ELECT", message.from # n, Borne(n, message),
         NEW m \in NextNode(n, message.from)
  PROVE  Borne(m, [message EXCEPT !.top = Higher(n, message)])
<1> DEFINE f == message.from
           t == Higher(n, message)
           onward == [message EXCEPT !.top = t]
<1>1. f \in Node /\ f \in Nat /\ n \in Nat /\ message.top \in Nat
  BY CandidatesAssumption DEF Message
<1>2. t \in Nat /\ n <= t /\ message.top <= t
  BY <1>1 DEF Higher
<1>3. onward.kind = "ELECT" /\ onward.from = f /\ onward.top = t
  BY DEF Message
<1>4. f <= t
  BY <1>1, <1>2 DEF Borne
<1>5. /\ m \in Node /\ Distance(n, m) <= Distance(n, f)
      /\ \A k \in listening \ {n} : Distance(n, m) <= Distance(n, k)
  BY DEF NextNode
<1>6. ASSUME NEW k \in listening, Distance(f, k) < Distance(f, m)
      PROVE  k <= t
  <2>0. k \in Node /\ k \in Nat /\ Distance(f, k) \in Int /\ Distance(f, n) \in Int
        /\ Distance(n, k) \in Int /\ Distance(n, m) \in Int
    BY <1>1, <1>5, DistanceType, CandidatesAssumption
  <2>1. CASE Distance(f, k) < Distance(f, n)
    <3>1. k <= message.top
      BY <2>1 DEF Borne
    <3> HIDE DEF t
    <3> QED BY <1>1, <1>2, <2>0, <3>1
  <2>2. CASE k = n
    BY <1>2, <2>2
  <2>3. CASE Distance(f, n) < Distance(f, k)
    <3>1. Distance(n, k) < Distance(n, m)
      BY <1>1, <1>5, <1>6, <2>0, <2>3, Between
    <3>2. k = n
      BY <1>5, <2>0, <3>1
    <3> QED BY <2>2, <3>2
  <2>4. CASE Distance(f, n) = Distance(f, k)
    <3>1. k = n
      BY <1>1, <2>0, <2>4, SameDistance
    <3> QED BY <2>2, <3>1
  <2> QED BY <2>0, <2>1, <2>3, <2>4
<1> HIDE DEF t, onward, f
<1>7. Borne(m, onward)
  BY <1>3, <1>4, <1>6 DEF Borne
<1> QED BY <1>7 DEF t, onward, f

-----------------------------------------------------------------------------
(* The ring: no rank above a leader's listens.                             *)

Ranked(n) ==
  /\ ring[n].after # NoMessage => ring[n].after.kind = "COORD" /\ Tops(ring[n].after.top)
  /\ comm[n].at # "idle" => comm[n].who \in Node /\ comm[n].who >= n /\ Tops(comm[n].who)
  /\ main[n].at = "call" /\ main[n].peer # Nobody => main[n].peer >= n
  /\ mLeaderHost[n] # Nobody => mLeaderHost[n] >= n
  /\ follows[n] # Nobody => follows[n] >= n

RingOrder == /\ listening = up /\ "start" \notin Faults
             /\ Tracked
             /\ \A n \in Node : Ranked(n)

\* Who has been above everybody is, when others have gone.
LEMMA RankedFrame ==
  ASSUME NEW k \in Node, Ranked(k), listening' \subseteq listening,
         ring'[k].after \in {ring[k].after, NoMessage},
         comm'[k].at # "idle" => comm[k].at # "idle" /\ comm'[k].who = comm[k].who,
         main'[k].at = "call" => main'[k] = main[k] \/ main'[k].peer = Nobody,
         \/ mLeaderHost'[k] \in {mLeaderHost[k], Nobody, k}
         \/ comm[k].at # "idle" /\ mLeaderHost'[k] = comm[k].who,
         follows'[k] \in {follows[k], Nobody}
  PROVE  Ranked(k)'
<1>0. k >= k
  BY CandidatesAssumption
<1> QED BY <1>0 DEF Ranked, Tops

LEMMA TrackedFrame ==
  ASSUME Tracked, listening' \subseteq listening,
         \A n \in Node : mail'[n] \in {mail[n], <<>>}
  PROVE  Tracked'
<1> SUFFICES ASSUME NEW n \in Node, NEW i \in DOMAIN mail'[n]
             PROVE  Borne(n, mail[n][i])'
  BY DEF Tracked, AllBorne
<1>1. mail'[n] = mail[n] /\ i \in DOMAIN mail[n]
  <2>1. DOMAIN << >> = {}
    OBVIOUS
  <2> QED BY <2>1
<1>2. Borne(n, mail[n][i])
  BY <1>1 DEF Tracked, AllBorne
<1> QED BY <1>1, <1>2 DEF Borne, Tops

LEMMA SameListeners ==
  ASSUME NEW box, AllBorne(box), listening' = listening, mail' = box
  PROVE  Tracked'
BY DEF AllBorne, Tracked, Borne, Tops

LEMMA GoneRing ==
  ASSUME ElectionTypeOK, RingOrder, NEW n \in Node, Gone(n), RingGone(n)
  PROVE  RingOrder'
<1> USE DEF RingOrder, ElectionTypeOK
<1>1. listening' = up' /\ listening' \subseteq listening
  BY DEF Gone
<1>2. Tracked'
  BY <1>1, TrackedFrame DEF RingGone
<1>3. ASSUME NEW k \in Node
      PROVE  Ranked(k)'
  <2>1. /\ ring'[k].after \in {ring[k].after, NoMessage}
        /\ comm'[k] \in {comm[k], Quiet}
        /\ main'[k] \in {main[k], At("elect"), At("call")}
        /\ mLeaderHost'[k] \in {mLeaderHost[k], Nobody}
        /\ follows'[k] \in {follows[k], Nobody}
    BY CalmType DEF Gone, RingGone, TypeOK, Abandoned
  <2>2. comm'[k].at # "idle" => comm[k].at # "idle" /\ comm'[k].who = comm[k].who
    BY <2>1, QuietType
  <2>3. main'[k].at = "call" => main'[k] = main[k] \/ main'[k].peer = Nobody
    BY <2>1 DEF At
  <2> QED BY <1>1, <2>1, <2>2, <2>3, RankedFrame
<1> QED BY <1>1, <1>2, <1>3

LEMMA LoopRing ==
  ASSUME ElectionTypeOK, RingOrder, NEW n \in Node, MainLoop(n), UNCHANGED ringVars
  PROVE  RingOrder'
<1> USE DEF RingOrder, ElectionTypeOK
<1>1. listening' = listening /\ up' = up /\ comm' = comm /\ mail' = mail /\ ring' = ring
  BY DEF MainLoop, UseLeader, Lead, AwaitDirector, Slave, NoDirector, CallDirector,
         Registered, HeartbeatEnds, ringVars
<1>2. Tracked'
  BY <1>1, SameListeners DEF Tracked
<1>3. ASSUME NEW k \in Node
      PROVE  Ranked(k)'
  <2>0. Ranked(k) /\ Ranked(n)
    OBVIOUS
  <2>1. CASE CallDirector(n)
    <3>1. PICK t \in LeaderHost(n) :
            n \in up /\ main' = [main EXCEPT ![n] = [At("call") EXCEPT !.peer = t]]
      BY <2>1 DEF CallDirector, AtMain
    <3>2. t >= n
      BY <2>0, <3>1 DEF LeaderHost, Ranked
    <3>3. main'[k] = main[k] \/ (k = n /\ main'[k].peer = t)
      BY <3>1 DEF TypeOK, At
    <3>4. UNCHANGED <<mLeaderHost, follows>>
      BY <2>1 DEF CallDirector
    <3> QED BY <1>1, <2>0, <3>2, <3>3, <3>4 DEF Ranked, Tops
  <2>2. CASE Registered(n)
    <3>1. /\ main[n].at = "call" /\ main[n].peer # Nobody
          /\ main'[k] = main[k] \/ main'[k].at = "heartbeat"
          /\ follows'[k] \in {follows[k], Nobody} \/ (k = n /\ follows'[k] = main[n].peer)
      BY <2>2 DEF Registered, AtMain, Goto, At, TypeOK
    <3>2. mLeaderHost' = mLeaderHost
      BY <2>2 DEF Registered
    <3> QED BY <1>1, <2>0, <3>1, <3>2 DEF Ranked, Tops
  <2>3. CASE ~CallDirector(n) /\ ~Registered(n)
    <3>1. main'[k].at = "call" => main'[k] = main[k]
      BY <2>3 DEF MainLoop, UseLeader, Lead, AwaitDirector, Slave, NoDirector,
                  HeartbeatEnds, Goto, At, TypeOK
    <3>2. mLeaderHost'[k] \in {mLeaderHost[k], Nobody}
      BY <2>3 DEF MainLoop, UseLeader, Lead, AwaitDirector, Slave, NoDirector,
                  HeartbeatEnds, TypeOK
    <3>3. follows'[k] \in {follows[k], Nobody}
      BY <2>3 DEF MainLoop, UseLeader, Lead, AwaitDirector, Slave, NoDirector,
                  HeartbeatEnds, TypeOK, Abandoned
    <3> QED BY <1>1, <2>0, <3>1, <3>2, <3>3, RankedFrame
  <2> QED BY <2>1, <2>2, <2>3
<1> QED BY <1>1, <1>2, <1>3

LEMMA MainRing ==
  ASSUME ElectionTypeOK, RingOrder, NEW n \in Node, RingMain(n)
  PROVE  RingOrder'
<1> USE DEF RingOrder, ElectionTypeOK
<1>1. listening' = listening /\ up' = up /\ comm' = comm
  BY DEF RingMain, RingBegin, RingInitiate, RingAlone, RingAdopts, RingElected, vars
<1>2. Tracked'
  <2>1. CASE RingInitiate(n)
    <3> DEFINE first == [kind |-> "ELECT", from |-> n, top |-> n]
    <3>1. first \in Message /\ first.from = n /\ first.top = n /\ first.kind = "ELECT"
      BY DEF Message
    <3>2. ASSUME NEW m \in NextNode(n, n)
          PROVE  Borne(m, first)
      <4>1. m \in Node /\ \A k \in listening \ {n} : Distance(n, m) <= Distance(n, k)
        BY DEF NextNode, TypeOK
      <4>2. ASSUME NEW k \in listening, Distance(n, k) < Distance(n, m)
            PROVE  k = n
        <5>1. Distance(n, k) \in Int /\ Distance(n, m) \in Int
          BY <4>1, DistanceType DEF TypeOK
        <5> QED BY <4>1, <4>2, <5>1
      <4>3. n <= n
        BY CandidatesAssumption
      <4> HIDE DEF first
      <4> QED BY <3>1, <4>2, <4>3 DEF Borne
    <3>3. mail' = Passed(n, first, mail)
      BY <2>1 DEF RingInitiate
    <3> HIDE DEF first
    <3>4. AllBorne(Passed(n, first, mail))
      BY <3>1, <3>2, PassedBorne DEF Tracked
    <3> QED BY <1>1, <3>3, <3>4, SameListeners
  <2>2. CASE ~RingInitiate(n)
    <3>1. mail' = mail
      BY <2>2 DEF RingMain, RingBegin, RingAlone, RingAdopts, RingElected, ringVars
    <3> QED BY <1>1, <3>1, SameListeners DEF Tracked
  <2> QED BY <2>1, <2>2
<1>3. ASSUME NEW k \in Node
      PROVE  Ranked(k)'
  <2>1. main'[k].at = "call" => main'[k] = main[k]
    BY NoCall
  <2>2. mLeaderHost'[k] \in {mLeaderHost[k], Nobody, k}
    BY DEF RingMain, RingBegin, RingInitiate, RingAlone, RingAdopts, RingElected, vars, TypeOK
  <2>3. follows'[k] \in {follows[k], Nobody}
    BY DEF RingMain, RingBegin, RingInitiate, RingAlone, RingAdopts, RingElected, vars, TypeOK,
       Abandoned
  <2>4. ring'[k].after = ring[k].after
    <3>1. CASE RingAlone(n)
      <4> DEFINE waits == (Answer(n, n) = "change")
      <4>1. ring' = [ring EXCEPT ![n].begun = TRUE, ![n].mElecting = waits]
        BY <3>1 DEF RingAlone
      <4> HIDE DEF waits
      <4> QED BY <4>1 DEF RingState
    <3>2. CASE ~ RingAlone(n)
      BY <3>2 DEF RingMain, RingBegin, RingInitiate, RingAdopts, RingElected, ringVars, RingState
    <3> QED BY <3>1, <3>2
  <2> QED BY <1>1, <2>1, <2>2, <2>3, <2>4, RankedFrame
<1> QED BY <1>1, <1>2, <1>3

LEMMA CommRing ==
  ASSUME ElectionTypeOK, RingOrder, NEW n \in Node, RingComm(n)
  PROVE  RingOrder'
<1> USE DEF RingOrder, ElectionTypeOK
<1> DEFINE msg == Head(mail[n])
<1>0. listening \subseteq Node /\ Node \subseteq Nat /\ Ranked(n)
  BY CandidatesAssumption DEF TypeOK
<1>1. listening' = listening /\ up' = up
  BY DEF RingComm, RingElect, RingCoordinate, RingSuggested, RingConclude, vars
<1>2. CASE RingElect(n)
  <2> DEFINE onward == [msg EXCEPT !.top = Higher(n, msg)]
  <2>1. Reads(n) /\ msg.kind = "ELECT" /\ msg.from # n
        /\ mail' = Passed(n, onward, Rest(n))
    BY <1>2 DEF RingElect, PassesOn
  <2>2. Borne(n, msg) /\ AllBorne(Rest(n)) /\ msg \in Message
        /\ Rest(n) \in [Node -> Seq(Message)]
    BY <2>1, RestBorne
  <2>3. onward \in Message /\ onward.from = msg.from
    BY <2>2 DEF Message, Higher
  <2>4. \A m \in NextNode(n, msg.from) : Borne(m, onward)
    <3> HIDE DEF msg
    <3> QED BY <1>0, <2>1, <2>2, OnwardBorne
  <2> HIDE DEF msg, onward
  <2>5. AllBorne(Passed(n, onward, Rest(n)))
    BY <2>2, <2>3, <2>4, PassedBorne
  <2>6. Tracked'
    BY <1>1, <2>1, <2>5, SameListeners
  <2>7. ASSUME NEW k \in Node
        PROVE  Ranked(k)'
    BY <1>1, <1>2, RankedFrame DEF RingElect, vars
  <2> QED BY <1>1, <2>6, <2>7
<1>3. CASE RingCoordinate(n)
  <2> DEFINE news == [msg EXCEPT !.kind = "COORD"]
  <2>1. /\ Reads(n) /\ msg.kind = "ELECT" /\ msg.from = n
        /\ mail' \in {Passed(n, news, Rest(n)), Rest(n)}
    BY <1>3 DEF RingCoordinate, PassesOn
  <2>2. Borne(n, msg) /\ AllBorne(Rest(n)) /\ msg \in Message
        /\ Rest(n) \in [Node -> Seq(Message)]
    BY <2>1, RestBorne
  <2>3. news \in Message /\ news.kind = "COORD" /\ news.top = msg.top
    BY <2>2 DEF Message
  <2> HIDE DEF msg, news
  <2>4. \A m \in Node : Borne(m, news)
    BY <1>0, <2>1, <2>2, <2>3, BackIsTop DEF Borne
  <2>5. AllBorne(Passed(n, news, Rest(n)))
    <3>1. \A m \in NextNode(n, news.from) : Borne(m, news)
      BY <1>0, <2>4 DEF NextNode
    <3> QED BY <2>2, <2>3, <3>1, PassedBorne
  <2>6. Tracked'
    BY <1>1, <2>1, <2>2, <2>5, SameListeners
  <2>7. ASSUME NEW k \in Node
        PROVE  Ranked(k)'
    <3>1. ring' = ring \/ ring' = [ring EXCEPT ![n].mElecting = FALSE]
      BY <1>3 DEF RingCoordinate
    <3>2. ring'[k].after = ring[k].after
      <4>1. ring \in [Node -> RingState] /\ ring[k] \in RingState /\ ring[n] \in RingState
        OBVIOUS
      <4>2. ring'[k] \in {ring[k], [ring[k] EXCEPT !.mElecting = FALSE]}
        BY <3>1, <4>1
      <4> QED BY <4>1, <4>2 DEF RingState
    <3> QED BY <1>1, <1>3, <3>2, RankedFrame DEF RingCoordinate, vars
  <2> QED BY <1>1, <2>6, <2>7
<1>4. CASE RingSuggested(n)
  <2>1. Reads(n) /\ msg.kind = "COORD" /\ mail' = Rest(n)
    BY <1>4 DEF RingSuggested
  <2>2. Borne(n, msg) /\ AllBorne(Rest(n)) /\ msg \in Message
    BY <2>1, RestBorne
  <2>3. msg.top \in Node /\ Tops(msg.top) /\ msg.top >= n
    BY <1>0, <2>1, <2>2 DEF Borne, Tops, Reads, Message
  <2>4. Tracked'
    BY <1>1, <2>1, <2>2, SameListeners
  <2>5. ASSUME NEW k \in Node
        PROVE  Ranked(k)'
    <3>1. UNCHANGED <<main, follows>>
      BY <1>4 DEF RingSuggested
    <3>2. CASE k # n
      BY <1>1, <1>4, <3>1, <3>2, RankedFrame DEF RingSuggested, TypeOK
    <3>3. CASE k = n
      <4>1. mLeaderHost'[n] \in {mLeaderHost[n], Nobody, msg.top}
        BY <1>4 DEF RingSuggested, TypeOK
      <4>2. comm'[n] \in {Quiet, [at |-> "deregister", who |-> msg.top]}
        BY <1>4 DEF RingSuggested, TypeOK
      <4>3. ring'[n].after = msg
        BY <1>4 DEF RingSuggested, RingState
      <4> HIDE DEF msg
      <4> QED
        BY <1>0, <1>1, <2>1, <2>3, <3>1, <3>3, <4>1, <4>2, <4>3 DEF Ranked, Quiet, Tops
    <3> QED BY <3>2, <3>3
  <2> QED BY <1>1, <2>4, <2>5
<1>5. CASE RingConclude(n)
  <2> DEFINE news == ring[n].after
  <2>1. /\ news # NoMessage /\ mail' \in {mail, Passed(n, news, mail)}
        /\ UNCHANGED vars
    BY <1>5 DEF RingConclude, PassesOn
  <2>2. news \in Message /\ news.kind = "COORD" /\ Tops(news.top)
    BY <1>0, <2>1 DEF Ranked, RingState
  <2> HIDE DEF news
  <2>3. \A m \in NextNode(n, news.from) : Borne(m, news)
    BY <2>2 DEF Borne
  <2>4. AllBorne(Passed(n, news, mail))
    BY <2>2, <2>3, PassedBorne DEF Tracked
  <2>5. Tracked'
    BY <1>1, <2>1, <2>4, SameListeners DEF Tracked
  <2>6. ASSUME NEW k \in Node
        PROVE  Ranked(k)'
    <3>1. ring'[k].after \in {ring[k].after, NoMessage}
      BY <1>5 DEF RingConclude, RingState
    <3> QED BY <1>1, <2>1, <3>1, RankedFrame DEF vars
  <2> QED BY <1>1, <2>5, <2>6
<1> QED BY <1>2, <1>3, <1>4, <1>5 DEF RingComm

\* What the daemons of a ring do as those of any election.
LEMMA OtherRing ==
  ASSUME ElectionTypeOK, RingOrder, NEW n \in Node
  PROVE  /\ (Listen(n) \/ Deregister(n) \/ SetLeader(n)) /\ UNCHANGED ringVars => RingOrder'
         /\ Unopposed(n) \/ CommEnds(n) => RingOrder'
         /\ DirectorEnds(n) /\ UNCHANGED ringVars => RingOrder'
         /\ StopDirector(n) /\ UNCHANGED ringVars => RingOrder'
<1> USE DEF RingOrder, ElectionTypeOK
<1>1. ASSUME Deregister(n) \/ SetLeader(n), UNCHANGED ringVars
      PROVE  RingOrder'
  <2>1. listening' = listening /\ up' = up /\ main' = main /\ mail' = mail /\ ring' = ring
    BY <1>1 DEF Deregister, SetLeader, ringVars
  <2>2. Tracked'
    BY <2>1, SameListeners DEF Tracked
  <2>3. ASSUME NEW k \in Node
        PROVE  Ranked(k)'
    <3>1. comm'[k].at # "idle" => comm[k].at # "idle" /\ comm'[k].who = comm[k].who
      <4>1. comm \in [Node -> CommState] /\ comm[k] \in CommState
        BY DEF TypeOK
      <4>2. CASE Deregister(n)
        BY <4>1, <4>2 DEF Deregister, CommState
      <4>3. CASE SetLeader(n)
        <5>1. comm'[k] \in {comm[k], Quiet}
          BY <4>1, <4>3 DEF SetLeader
        <5> QED BY <5>1, QuietType
      <4> QED BY <1>1, <4>2, <4>3
    <3>2. \/ mLeaderHost'[k] = mLeaderHost[k]
          \/ comm[k].at # "idle" /\ mLeaderHost'[k] = comm[k].who
      BY <1>1 DEF Deregister, SetLeader, TypeOK
    <3>3. follows'[k] \in {follows[k], Nobody}
      BY <1>1 DEF Deregister, SetLeader, Abandoned
    <3> QED BY <2>1, <3>1, <3>2, <3>3, RankedFrame
  <2> QED BY <2>1, <2>2, <2>3
<1>2. ASSUME \/ Unopposed(n) \/ CommEnds(n)
             \/ (StopDirector(n) \/ DirectorEnds(n)) /\ UNCHANGED ringVars
      PROVE  RingOrder'
  <2>1. /\ listening' = listening /\ up' = up /\ main' = main /\ comm' = comm
        /\ mail' = mail /\ ring' = ring /\ mLeaderHost' = mLeaderHost
    BY <1>2 DEF Unopposed, CommEnds, StopDirector, DirectorEnds, ringVars
  <2>2. Tracked'
    BY <2>1, SameListeners DEF Tracked
  <2>3. ASSUME NEW k \in Node
        PROVE  Ranked(k)'
    <3>1. follows'[k] \in {follows[k], Nobody}
      BY <1>2 DEF Unopposed, CommEnds, StopDirector, DirectorEnds, Abandoned
    <3> QED BY <2>1, <3>1, RankedFrame
  <2> QED BY <2>1, <2>2, <2>3
<1>3. ~Listen(n)
  BY DEF Listen
<1> QED BY <1>1, <1>2, <1>3

LEMMA RingStep ==
  ASSUME ElectionTypeOK, RingOrder, type = "ring", [ElectionNext]_electionVars
  PROVE  RingOrder'
<1>1. CASE UNCHANGED electionVars
  <2>1. UNCHANGED <<vars, mail, ring>>
    BY <1>1 DEF electionVars, threadVars, ringVars
  <2> QED BY <2>1 DEF vars, RingOrder, Tracked, AllBorne, Borne, Tops, Ranked
<1>2. ASSUME NEW n \in Node, ElectionMain(n)
      PROVE  RingOrder'
  BY <1>2, LoopRing, MainRing, GoneRing DEF ElectionMain, Exit
<1>3. ASSUME NEW n \in Node, ElectionComm(n)
      PROVE  RingOrder'
  BY <1>3, CommRing, OtherRing DEF ElectionComm
<1>4. ASSUME NEW n \in Node, ElectionDirector(n)
      PROVE  RingOrder'
  BY <1>4, OtherRing DEF ElectionDirector
<1>5. ASSUME NEW n \in Node, Disturbance(n, Faults)
      PROVE  RingOrder'
  BY <1>5, OtherRing, GoneRing DEF Disturbance, Crash, RingOrder
<1> QED BY <1>1, <1>2, <1>3, <1>4, <1>5 DEF ElectionNext

-----------------------------------------------------------------------------
(* Who takes itself for the leader follows and calls nobody else.          *)

Loyal(n) ==
  /\ main[n].at = "call" /\ main[n].peer \notin {Nobody, n} => mLeaderHost[n] # n
  /\ main[n].at = "heartbeat" /\ follows[n] \notin {Nobody, n} => mLeaderHost[n] # n

AllLoyal == \A n \in Node : Loyal(n)

LEMMA LoyalFrame ==
  ASSUME NEW k \in Node, Loyal(k),
         main'[k].at \in {"call", "heartbeat"} =>
           \/ /\ main'[k] = main[k]
              /\ mLeaderHost'[k] = mLeaderHost[k] \/ mLeaderHost'[k] # k
           \/ main'[k] = At("call"),
         follows'[k] \in {follows[k], Nobody}
  PROVE  Loyal(k)'
BY DEF Loyal, At

LEMMA GoneLoyal ==
  ASSUME TypeOK, NEW n \in Node, Gone(n), NEW k \in Node, Loyal(k)
  PROVE  Loyal(k)'
<1>1. /\ main'[k] \in {main[k], At("elect"), At("call")}
      /\ mLeaderHost'[k] \in {mLeaderHost[k], Nobody}
      /\ follows'[k] \in {follows[k], Nobody}
  BY DEF Gone, TypeOK, Abandoned
<1> QED BY <1>1, LoyalFrame, NobodyIsNoNode DEF At

LEMMA MainLoyal ==
  ASSUME TypeOK, NEW n \in Node, Main(n), NEW k \in Node, Loyal(k)
  PROVE  Loyal(k)'
<1> USE NobodyIsNoNode
<1>1. CASE Exit(n)
  BY <1>1, GoneLoyal DEF Exit
<1>2. CASE CallDirector(n)
  <2>1. PICK t \in LeaderHost(n) : main' = [main EXCEPT ![n] = [At("call") EXCEPT !.peer = t]]
    BY <1>2 DEF CallDirector
  <2>2. UNCHANGED <<mLeaderHost, follows>>
    BY <1>2 DEF CallDirector
  <2>3. CASE k # n
    BY <2>1, <2>2, <2>3 DEF TypeOK, Loyal
  <2>4. CASE k = n
    <3>1. main'[n].at = "call" /\ main'[n].peer = t
      BY <2>1 DEF TypeOK, At
    <3>2. mLeaderHost[n] \in {t, Nobody}
      BY DEF LeaderHost
    <3> QED BY <2>2, <2>4, <3>1, <3>2 DEF Loyal
  <2> QED BY <2>3, <2>4
<1>3. CASE Registered(n)
  <2>1. /\ main[n].at = "call" /\ mLeaderHost' = mLeaderHost
        /\ follows'[n] \in {main[n].peer, Nobody}
        /\ k # n => main'[k] = main[k] /\ follows'[k] = follows[k]
    BY <1>3 DEF Registered, AtMain, Goto, TypeOK
  <2>2. main'[n].at = "heartbeat"
    BY <1>3 DEF Registered, Goto, At, TypeOK
  <2> QED BY <2>1, <2>2 DEF Loyal
<1>4. CASE ~Exit(n) /\ ~CallDirector(n) /\ ~Registered(n)
  <2>1. follows'[k] \in {follows[k], Nobody}
    BY <1>4 DEF TypeOK, Main, UseLeader, BeginProbe, Elected, Probe, Lead, AwaitDirector,
       Slave, NoDirector, HeartbeatEnds, Abandoned
  <2>2. k # n => main'[k] = main[k] /\ mLeaderHost'[k] = mLeaderHost[k]
    BY <1>4 DEF TypeOK, Main, UseLeader, BeginProbe, Elected, Probe, Lead, AwaitDirector,
       Slave, NoDirector, HeartbeatEnds, Goto
  <2>3. main'[n].at \notin {"call", "heartbeat"}
    <3>1. ASSUME NEW m \in Node, Probe(n, m)
          PROVE  main'[n].at \notin {"call", "heartbeat"}
      BY <3>1 DEF Probe, AtMain, TypeOK, MainState
    <3> QED
      BY <1>4, <3>1 DEF TypeOK, Main, UseLeader, BeginProbe, Elected, Lead, AwaitDirector,
         Slave, NoDirector, HeartbeatEnds, Goto, At
  <2> QED BY <2>1, <2>2, <2>3, LoyalFrame
<1> QED BY <1>1, <1>2, <1>3, <1>4

LEMMA OtherLoyal ==
  ASSUME TypeOK, NEW n \in Node, NEW k \in Node, Loyal(k)
  PROVE  /\ Director(n) \/ Listen(n) \/ Deregister(n) => Loyal(k)'
         /\ Start(n) \/ StopDirector(n) \/ CommEnds(n) => Loyal(k)'
         /\ StaticElected(n) \/ Unopposed(n) => Loyal(k)'
         /\ RingMain(n) => Loyal(k)'
         /\ RingElect(n) \/ RingCoordinate(n) \/ RingConclude(n) => Loyal(k)'
<1>1. ASSUME Director(n) \/ Listen(n) \/ Deregister(n)
      PROVE  Loyal(k)'
  <2>1. UNCHANGED <<main, mLeaderHost>> /\ follows'[k] \in {follows[k], Nobody}
    BY <1>1 DEF Director, Tell, DirectorReady, DirectorEnds, Listen, Deregister, Abandoned
  <2> QED BY <2>1, LoyalFrame
<1>2. ASSUME Start(n) \/ StopDirector(n) \/ CommEnds(n)
      PROVE  Loyal(k)'
  <2>1. UNCHANGED <<main, mLeaderHost>> /\ follows'[k] \in {follows[k], Nobody}
    BY <1>2 DEF Start, StopDirector, CommEnds, Abandoned
  <2> QED BY <2>1, LoyalFrame
<1>3. ASSUME StaticElected(n) \/ Unopposed(n)
      PROVE  Loyal(k)'
  <2>1. \/ main'[k].at \notin {"call", "heartbeat"}
        \/ main'[k] = main[k] /\ mLeaderHost'[k] = mLeaderHost[k]
    BY <1>3 DEF TypeOK, StaticElected, Unopposed, Goto, At
  <2>2. follows' = follows
    BY <1>3 DEF StaticElected, Unopposed
  <2> QED BY <2>1, <2>2, LoyalFrame
<1>4. ASSUME RingMain(n)
      PROVE  Loyal(k)'
  <2>1. \/ main'[k].at \notin {"call", "heartbeat"}
        \/ main'[k] = main[k] /\ mLeaderHost'[k] = mLeaderHost[k]
    <3>1. CASE RingAlone(n) \/ RingAdopts(n)
      <4>1. k # n => mLeaderHost'[k] = mLeaderHost[k]
        BY <3>1 DEF TypeOK, RingAlone, RingAdopts
      <4> QED BY <3>1, <4>1, SuggestsItself
    <3>2. CASE ~ (RingAlone(n) \/ RingAdopts(n))
      BY <1>4, <3>2 DEF TypeOK, RingMain, RingBegin, RingInitiate, RingElected, Electing,
         AtMain, Goto, At, vars
    <3> QED BY <3>1, <3>2
  <2>2. follows'[k] \in {follows[k], Nobody}
    BY <1>4 DEF TypeOK, RingMain, RingBegin, RingInitiate, RingAlone, RingAdopts, RingElected,
       vars, Abandoned
  <2> QED BY <2>1, <2>2, LoyalFrame
<1>5. ASSUME RingElect(n) \/ RingCoordinate(n) \/ RingConclude(n)
      PROVE  Loyal(k)'
  BY <1>5, LoyalFrame DEF RingElect, RingCoordinate, RingConclude, vars
<1> QED BY <1>1, <1>2, <1>3, <1>4, <1>5

\* A bully is told of its superiors only, ...
LEMMA SuggestedLoyal ==
  ASSUME TypeOK, Order, NEW n \in Node, Suggested(n) \/ SetLeader(n), AllLoyal
  PROVE  AllLoyal'
<1> SUFFICES ASSUME NEW k \in Node
             PROVE  Loyal(k)'
  BY DEF AllLoyal
<1>0. Loyal(k) /\ Above(n)
  BY DEF AllLoyal, Order
<1>1. UNCHANGED <<main, follows>>
  BY DEF Suggested, SetLeader
<1>2. mLeaderHost'[k] = mLeaderHost[k] \/ mLeaderHost'[k] # k
  <2>1. CASE k # n
    BY <2>1 DEF Suggested, SetLeader, TypeOK
  <2>2. CASE k = n /\ Suggested(n)
    <3>1. Head(inbox[n]) \in Node /\ Head(inbox[n]) > n
      <4>1. inbox[n] \in Seq(Node) /\ inbox[n] # <<>>
        BY <2>2 DEF Suggested, TypeOK
      <4>2. 1 \in 1 .. Len(inbox[n]) /\ Head(inbox[n]) = inbox[n][1] /\ inbox[n][1] \in Node
        BY <4>1
      <4> QED BY <1>0, <4>2 DEF Above
    <3>2. mLeaderHost'[n] \in {Head(inbox[n]), Nobody, mLeaderHost[n]}
      BY <2>2 DEF Suggested, TypeOK
    <3> QED BY <2>2, <3>1, <3>2, NobodyIsNoNode
  <2>3. CASE k = n /\ SetLeader(n)
    BY <1>0, <2>3, NobodyIsNoNode DEF SetLeader, TypeOK, Above
  <2> QED BY <2>1, <2>2, <2>3
<1> QED BY <1>0, <1>1, <1>2, LoyalFrame

\* ... and in a ring, who is told of itself can have nobody else to follow.
LEMMA RingLoyal ==
  ASSUME ElectionTypeOK, RingOrder, AllPresent, AllLoyal,
         NEW n \in Node, RingSuggested(n) \/ SetLeader(n)
  PROVE  AllLoyal'
<1> SUFFICES ASSUME NEW k \in Node
             PROVE  Loyal(k)'
  BY DEF AllLoyal
<1>0. TypeOK /\ Loyal(k) /\ Present(n) /\ Ranked(n) /\ listening = up /\ n \in Nat
  BY CandidatesAssumption DEF AllLoyal, AllPresent, RingOrder, ElectionTypeOK
<1>1. UNCHANGED <<main, follows>>
  BY DEF RingSuggested, SetLeader
<1>2. ASSUME Tops(n)
      PROVE  /\ main[n].at = "call" => main[n].peer \in {n, Nobody}
             /\ follows[n] \in {n, Nobody}
  <2>1. \A p \in up : p >= n => p = n
    BY <1>0, <1>2, CandidatesAssumption DEF Tops, TypeOK
  <2> QED BY <1>0, <2>1 DEF Present, Ranked
<1>3. mLeaderHost'[n] = n => mLeaderHost[n] = n \/ Tops(n)
  <2>1. CASE RingSuggested(n)
    <3> DEFINE msg == Head(mail[n])
    <3>1. Borne(n, msg) /\ msg.kind = "COORD"
      BY <2>1, RestBorne DEF RingSuggested, RingOrder
    <3>2. mLeaderHost'[n] \in {mLeaderHost[n], Nobody, msg.top}
      BY <1>0, <2>1 DEF RingSuggested, TypeOK
    <3> HIDE DEF msg
    <3> QED BY <3>1, <3>2, NobodyIsNoNode DEF Borne
  <2>2. CASE SetLeader(n)
    BY <1>0, <2>2 DEF SetLeader, TypeOK, Ranked
  <2> QED BY <2>1, <2>2
<1>4. k # n => mLeaderHost'[k] = mLeaderHost[k]
  BY <1>0 DEF RingSuggested, SetLeader, TypeOK
<1> QED BY <1>0, <1>1, <1>2, <1>3, <1>4 DEF Loyal

LEMMA LoyalStep ==
  ASSUME ElectionTypeOK, AllPresent, AllLoyal, [ElectionNext]_electionVars,
         type # "ring" => Order, type = "ring" => RingOrder
  PROVE  AllLoyal'
<1>0. TypeOK /\ \A k \in Node : Loyal(k)
  BY DEF ElectionTypeOK, AllLoyal
<1>1. CASE UNCHANGED electionVars
  BY <1>1 DEF electionVars, threadVars, vars, AllLoyal, Loyal
<1>2. ASSUME NEW n \in Node, ElectionMain(n)
      PROVE  AllLoyal'
  BY <1>0, <1>2, BullyPart, MainLoyal, OtherLoyal DEF ElectionMain, AllLoyal
<1>3. ASSUME NEW n \in Node, ElectionComm(n)
      PROVE  AllLoyal'
  <2>1. CASE Listen(n) \/ Deregister(n)
    BY <1>0, <2>1, OtherLoyal DEF AllLoyal
  <2>2. CASE SetLeader(n)
    BY <1>0, <2>2, SuggestedLoyal, RingLoyal
  <2>3. CASE type = "bully" /\ Suggested(n)
    BY <1>0, <2>3, SuggestedLoyal
  <2>4. CASE type = "ring" /\ RingComm(n)
    BY <1>0, <2>4, RingLoyal, OtherLoyal DEF RingComm, AllLoyal
  <2> QED BY <1>3, <2>1, <2>2, <2>3, <2>4 DEF ElectionComm
<1>4. ASSUME NEW n \in Node, ElectionDirector(n)
      PROVE  AllLoyal'
  BY <1>0, <1>4, BullyPart, OtherLoyal DEF ElectionDirector, AllLoyal
<1>5. ASSUME NEW n \in Node, Disturbance(n, Faults)
      PROVE  AllLoyal'
  BY <1>0, <1>5, OtherLoyal, GoneLoyal DEF Disturbance, Crash, AllLoyal
<1> QED BY <1>1, <1>2, <1>3, <1>4, <1>5 DEF ElectionNext

-----------------------------------------------------------------------------
(* The theorems.                                                           *)

\* What is known of the election that is configured.
Ordered == IF type = "ring" THEN RingOrder ELSE Order

LEMMA LedRanked ==
  ASSUME NEW S \in SUBSET Node, S # {}, InitLed(S)
  PROVE  AllPresent /\ AllLoyal
         /\ ("start" \notin Faults /\ (\E t \in Types : InitElection(t)) => RingOrder)
<1> DEFINE leader == Highest(S)
<1>1. leader \in S /\ leader \in Node /\ \A k \in S : leader >= k
  BY HighestIs
<1> HIDE DEF leader
<1> USE NobodyIsNoNode
<1>2. up = S /\ listening = S
  BY DEF InitLed
<1>3. ASSUME NEW k \in Node
      PROVE  /\ mLeaderHost[k] = IF k \in S THEN leader ELSE Nobody
             /\ main[k] = IF k \in S THEN At("heartbeat") ELSE At("elect")
             /\ comm[k] = Quiet
             /\ director[k] = IF k = leader THEN "initialised" ELSE "none"
             /\ follows[k] = mLeaderHost[k]
  BY DEF InitLed, leader
<1>4. AllPresent
  <2> SUFFICES ASSUME NEW k \in Node
               PROVE  Present(k)
    BY DEF AllPresent
  <2>1. main[k].at # "call"
    BY <1>3 DEF At
  <2>2. director[k] # "none" => k \in up
    BY <1>1, <1>2, <1>3
  <2>3. follows[k] \in up \cup {Nobody}
    BY <1>1, <1>2, <1>3
  <2> QED BY <2>1, <2>2, <2>3 DEF Present
<1>5. AllLoyal
  <2> SUFFICES ASSUME NEW k \in Node
               PROVE  Loyal(k)
    BY DEF AllLoyal
  <2>1. main[k].at # "call" /\ follows[k] = mLeaderHost[k]
    BY <1>3 DEF At
  <2> QED BY <2>1 DEF Loyal
<1>6. ASSUME "start" \notin Faults, \E t \in Types : InitElection(t)
      PROVE  RingOrder
  <2>1. \A k \in Node : mail[k] = <<>> /\ ring[k] = Calm
    BY <1>6 DEF InitElection
  <2>2. Tracked
    <3>1. DOMAIN << >> = {}
      OBVIOUS
    <3> QED BY <2>1, <3>1 DEF Tracked, AllBorne
  <2>3. \A k \in Node : Ranked(k)
    BY <1>1, <1>3, <2>1, CalmType DEF Ranked, At, Quiet
  <2> QED BY <1>2, <1>6, <2>2, <2>3 DEF RingOrder
<1> QED BY <1>4, <1>5, <1>6

LEMMA StartedRanked ==
  ASSUME NEW S \in SUBSET Node, NEW ports \in SUBSET S, InitWith(S, ports)
  PROVE  AllPresent /\ AllLoyal
         /\ (listening = up /\ "start" \notin Faults /\ (\E t \in Types : InitElection(t))
               => RingOrder)
<1>1. \A k \in Node : /\ mLeaderHost[k] = Nobody /\ main[k] = At("elect")
                      /\ comm[k] = Quiet /\ director[k] = "none" /\ follows[k] = Nobody
  BY DEF InitWith
<1>2. AllPresent /\ AllLoyal
  BY <1>1 DEF AllPresent, Present, AllLoyal, Loyal, At
<1>3. ASSUME listening = up, "start" \notin Faults, \E t \in Types : InitElection(t)
      PROVE  RingOrder
  <2>1. \A k \in Node : mail[k] = <<>> /\ ring[k] = Calm
    BY <1>3 DEF InitElection
  <2>2. Tracked
    <3>1. DOMAIN << >> = {}
      OBVIOUS
    <3> QED BY <2>1, <3>1 DEF Tracked, AllBorne
  <2>3. \A k \in Node : Ranked(k)
    BY <1>1, <2>1, CalmType DEF Ranked, At, Quiet
  <2> QED BY <1>3, <2>2, <2>3 DEF RingOrder
<1> QED BY <1>2, <1>3

LEMMA ElectionsInvariant ==
  ElectionSpec /\ Closed => [](ElectionTypeOK /\ AllPresent /\ AllLoyal /\ Ordered)
<1>1. ElectionInit /\ Closed => ElectionTypeOK /\ AllPresent /\ AllLoyal /\ Ordered
  <2> SUFFICES ASSUME ElectionInit, Closed
               PROVE  ElectionTypeOK /\ AllPresent /\ AllLoyal /\ Ordered
    OBVIOUS
  <2>1. PICK S \in SUBSET Node : (\E ports \in SUBSET S : InitWith(S, ports))
                                 \/ (S # {} /\ InitLed(S))
    BY DEF ElectionInit
  <2>2. \E t \in Types : InitElection(t)
    BY DEF ElectionInit
  <2>3. CASE \E ports \in SUBSET S : InitWith(S, ports)
    BY <2>2, <2>3, InitTypes, StartedOrder, StartedRanked DEF Closed, Ordered
  <2>4. CASE S # {} /\ InitLed(S)
    BY <2>2, <2>4, InitTypes, LedOrder, LedRanked DEF Closed, Ordered
  <2> QED BY <2>1, <2>3, <2>4
<1>2. /\ ElectionTypeOK /\ AllPresent /\ AllLoyal /\ Ordered
      /\ ElectionTypeOK' /\ [ElectionNext]_electionVars
      => AllPresent' /\ AllLoyal' /\ Ordered'
  <2> SUFFICES ASSUME ElectionTypeOK, AllPresent, AllLoyal, Ordered,
                      [ElectionNext]_electionVars
               PROVE  AllPresent' /\ AllLoyal' /\ Ordered'
    OBVIOUS
  <2>1. TypeOK /\ type' = type
    BY DEF ElectionTypeOK, ElectionNext, electionVars
  <2>2. AllPresent' /\ AllLoyal'
    BY <2>1, PresentStep, LoyalStep DEF Ordered
  <2>3. Ordered'
    BY <2>1, OrderStep, RingStep DEF Ordered
  <2> QED BY <2>2, <2>3
<1> QED
  BY <1>1, <1>2, ElectionTyping, PTL DEF ElectionSpec

\* In every election, no daemon records, calls or follows a leader that ranks below
\* itself: by the bully and the static one whatever fails or joins, by the ring
\* while nobody joins.
THEOREM ElectionsOrder == ElectionSpec /\ Closed => []NeverBelow
<1>1. Ordered => NeverBelow
  BY DEF Ordered, RingOrder, Ranked, Order, Above, NeverBelow
<1> QED
  BY <1>1, ElectionsInvariant, PTL

\* In every election, under the same condition, who takes itself for the leader
\* follows nobody else, and has a director except in a ring.
THEOREM ElectionsServe == ElectionSpec /\ Closed => []LeadersServe
<1>1. AllLoyal /\ Ordered => LeadersServe
  BY DEF AllLoyal, Loyal, Ordered, Order, HasDirector, LeadersServe, LeadersDirect, AtMain
<1> QED
  BY <1>1, ElectionsInvariant, PTL
=============================================================================
