--------------------------- MODULE DirectorProofs ---------------------------
(***************************************************************************)
(* Proofs about Director, for any nodes, components, clients and faults.   *)
(***************************************************************************)
EXTENDS Director, TLAPS

-----------------------------------------------------------------------------
(* Type correctness.                                                       *)

Op == AllOps \cup Registration \cup {"check", "none"}

LEMMA IdleType == Idle \in Activity
BY ConstantsAssumption DEF Idle, Activity, NoShare, Share

\* One thread turns to something else.
LEMMA ThreadType ==
  ASSUME TypeOK, NEW t \in Thread, NEW a \in Activity, thr' = [thr EXCEPT ![t] = a]
  PROVE  thr' \in [Thread -> Activity]
BY DEF TypeOK

LEMMA NodesType ==
  ASSUME TypeOK, NEW t \in Thread, NEW S \in SUBSET Node
  PROVE  [thr[t] EXCEPT !.nodes = S] \in Activity
<1>1. thr[t] \in Activity
  BY DEF TypeOK
<1> QED
  BY <1>1 DEF Activity

LEMMA DoingType ==
  ASSUME NEW op \in Op,
         NEW at \in {"idle", "await", "distribute", "send", "ask", "join", "spin"},
         NEW nodes \in SUBSET Node, NEW plan \in Share
  PROVE  Doing(op, at, nodes, plan) \in Activity
BY IdleType DEF Doing, Op, Activity, Idle

LEMMA RegisteringType ==
  ASSUME NEW op \in Registration, NEW n \in Node
  PROVE  Registering(op, n) \in Activity
BY IdleType DEF Registering, Activity, Idle

LEMMA MessageType ==
  ASSUME TypeOK, NEW t \in Thread, NEW n \in Node
  PROVE  Message(t, n) \in Command
<1>1. CommandOf(thr[t].op) \in {"_START", "_STOP", "_CONFIGURE", "_RESTART", "_FAILSTART"}
  BY DEF CommandOf
<1>2. thr[t].plan[n] \in SUBSET Comp
  BY DEF TypeOK, Activity, Share
<1> QED
  BY <1>1, <1>2 DEF Message, Command

LEMMA WithoutType ==
  ASSUME TypeOK, NEW S
  PROVE  Without(S) \in [Node -> CtrlState]
BY DEF TypeOK, Without, CtrlState

\* What a distribution does to the distributor's books.
LEMMA Distributes ==
  ASSUME TypeOK, NEW nodes \in SUBSET Node, NEW redistribute \in BOOLEAN,
         NEW force \in BOOLEAN, Distribute(nodes, redistribute, force)
  PROVE  /\ mDistributed' = TRUE
         /\ mCompConfig' \in Share /\ mDistState' \in Share
         /\ \A n \in Node : mDistState'[n] \in {mCompConfig'[n], {}}
<1>1. Again(redistribute, force) \subseteq Comp
  BY ConstantsAssumption DEF Again
<1>2. Kept(redistribute, force) \in Share
  BY DEF Kept, Share, NoShare, TypeOK
<1>3. PICK place \in [Again(redistribute, force) -> nodes] :
        /\ mCompConfig' = [n \in Node |->
             Kept(redistribute, force)[n] \cup {c \in DOMAIN place : place[c] = n}]
        /\ mDistState' = [n \in Node |-> IF n \in nodes THEN mCompConfig'[n] ELSE {}]
        /\ mDistributed' = TRUE
  BY DEF Distribute, Placements
<1>4. mCompConfig' \in Share
  <2>1. ASSUME NEW n \in Node
        PROVE  Kept(redistribute, force)[n] \cup {c \in DOMAIN place : place[c] = n}
                 \in SUBSET Comp
    BY <1>1, <1>2 DEF Share
  <2> QED
    BY <1>3, <2>1 DEF Share
<1>5. mDistState' \in Share
  BY <1>3, <1>4 DEF Share
<1> QED
  BY <1>3, <1>4, <1>5

LEMMA DistributesAndSends ==
  ASSUME TypeOK, NEW t \in Thread, NEW op \in Op, NEW nodes \in SUBSET Node,
         NEW targets \in SUBSET Node, NEW redistribute \in BOOLEAN,
         NEW force \in BOOLEAN,
         DistributeAndSend(t, op, nodes, targets, redistribute, force)
  PROVE  /\ mDistributed' \in BOOLEAN /\ mCompConfig' \in Share /\ mDistState' \in Share
         /\ thr' \in [Thread -> Activity]
         /\ \A u \in Thread \ {t} : thr'[u] = thr[u]
         /\ thr'[t].op = op
         /\ \/ thr'[t].at = "spin" /\ UNCHANGED distVars
            \/ /\ thr'[t].at = "send" /\ thr'[t].plan = mDistState'
               /\ Distribute(nodes, redistribute, force)
<1>1. CASE /\ thr' = [thr EXCEPT ![t] = Doing(op, "spin", {}, NoShare)]
           /\ UNCHANGED distVars
  <2>1. Doing(op, "spin", {}, NoShare) \in Activity
    BY DoingType DEF NoShare, Share
  <2> QED
    BY <1>1, <2>1 DEF TypeOK, distVars, Doing, Idle
<1>2. CASE /\ Distribute(nodes, redistribute, force)
           /\ thr' = [thr EXCEPT ![t] = [Doing(op, "send", targets, mDistState')
                        EXCEPT !.who = thr[t].who, !.live = thr[t].live]]
  <2>1. mDistState' \in Share /\ mCompConfig' \in Share /\ mDistributed' = TRUE
    BY <1>2, Distributes
  <2>2. Doing(op, "send", targets, mDistState') \in Activity
    BY <2>1, DoingType
  <2>3. thr[t].who \in Node \cup {NoNode} /\ thr[t].live \in BOOLEAN
    BY DEF TypeOK, Activity
  <2>4. [Doing(op, "send", targets, mDistState')
           EXCEPT !.who = thr[t].who, !.live = thr[t].live] \in Activity
    BY <2>2, <2>3 DEF Activity
  <2> QED
    BY <1>2, <2>1, <2>4 DEF TypeOK, Doing, Idle
<1> QED
  BY <1>1, <1>2 DEF DistributeAndSend

LEMMA TypeInit == Init => TypeOK
<1> SUFFICES ASSUME Init PROVE TypeOK
  OBVIOUS
<1>1. thr \in [Thread -> Activity]
  BY IdleType DEF Init
<1>2. NoShare \in Share
  BY DEF NoShare, Share
<1>3. mStateQueue \in [Node -> Seq(Command)]
  BY DEF Init
<1> QED
  BY <1>1, <1>2, <1>3 DEF Init, TypeOK, Phase, CtrlState, DirectorState

\* A thread has called one more node.
LEMMA OneLess ==
  ASSUME TypeOK, NEW t \in Thread, NEW n, thr' = [thr EXCEPT ![t].nodes = @ \ {n}]
  PROVE  /\ thr' \in [Thread -> Activity]
         /\ \A u \in Thread : /\ thr'[u].op = thr[u].op /\ thr'[u].at = thr[u].at
                              /\ thr'[u].who = thr[u].who /\ thr'[u].live = thr[u].live
                              /\ thr'[u].plan = thr[u].plan
                              /\ thr'[u].nodes \subseteq thr[u].nodes
<1>1. thr' = [thr EXCEPT ![t] = [thr[t] EXCEPT !.nodes = thr[t].nodes \ {n}]]
  BY DEF TypeOK
<1>2. thr[t].nodes \ {n} \in SUBSET Node
  BY DEF TypeOK, Activity
<1>3. thr' \in [Thread -> Activity]
  BY <1>1, <1>2, NodesType, ThreadType
<1>4. \A u \in Thread : thr[u] \in Activity
  BY DEF TypeOK
<1> QED
  BY <1>1, <1>3, <1>4 DEF TypeOK, Activity

\* addDaemon waits for a daemon, not for nobody.
AwaitsDaemon == \A t \in Thread : thr[t].at = "await" => thr[t].who \in Node

LEMMA TypeNext == TypeOK /\ AwaitsDaemon /\ [Next]_vars => TypeOK'
<1> SUFFICES ASSUME TypeOK, AwaitsDaemon, [Next]_vars PROVE TypeOK'
  OBVIOUS
<1> USE DEF daemonVars, systemVars, distVars, boundVars
<1>1. CASE ClientStart
  <2>1. PICK S \in Erasures(Dead) :
          /\ ctrl' = Without(S)
          /\ \/ DistributeAndSend("orb", "start", Registered \ S, Registered \ S, FALSE, FALSE)
             \/ UNCHANGED <<distVars, thr>>
    BY <1>1 DEF ClientStart
  <2>2. ctrl' \in [Node -> CtrlState]
    BY <2>1, WithoutType
  <2>3. /\ mDistributed' \in BOOLEAN /\ mCompConfig' \in Share /\ mDistState' \in Share
        /\ thr' \in [Thread -> Activity]
    <3>1. CASE UNCHANGED <<distVars, thr>>
      BY <3>1 DEF TypeOK
    <3>2. CASE DistributeAndSend("orb", "start", Registered \ S, Registered \ S, FALSE, FALSE)
      <4>1. "start" \in Op /\ "orb" \in Thread /\ Registered \ S \in SUBSET Node
        BY DEF Op, AllOps, Thread, Registered
      <4> QED
        BY <3>2, <4>1, DistributesAndSends
    <3> QED
      BY <2>1, <3>1, <3>2
  <2> QED
    BY <1>1, <2>2, <2>3 DEF ClientStart, Request, Called, TypeOK
<1>2. CASE ClientStop
  <2>1. PICK S \in Erasures(Dead) :
          /\ ctrl' = Without(S)
          /\ thr' = [thr EXCEPT !["orb"] = Doing("stop", "send", Registered \ S, NoShare)]
    BY <1>2 DEF ClientStop
  <2>2. ctrl' \in [Node -> CtrlState]
    BY <2>1, WithoutType
  <2>3. Doing("stop", "send", Registered \ S, NoShare) \in Activity
    BY DoingType DEF Op, AllOps, Registered, NoShare, Share
  <2>4. thr' \in [Thread -> Activity]
    BY <2>1, <2>3, ThreadType DEF Thread
  <2> QED
    BY <1>2, <2>2, <2>4 DEF ClientStop, Request, Called, TypeOK
<1>3. ASSUME NEW op \in Ops, ClientReconfigure(op) PROVE TypeOK'
  <2>1. PICK S \in Erasures(Dead) :
          /\ ctrl' = Without(S)
          /\ thr' = [thr EXCEPT !["orb"] = Doing(op, "distribute", Registered \ S, NoShare)]
    BY <1>3 DEF ClientReconfigure
  <2>2. ctrl' \in [Node -> CtrlState]
    BY <2>1, WithoutType
  <2>3. Doing(op, "distribute", Registered \ S, NoShare) \in Activity
    BY <1>3, DoingType DEF ClientReconfigure, Op, AllOps, Registered, NoShare, Share
  <2>4. thr' \in [Thread -> Activity]
    BY <2>1, <2>3, ThreadType DEF Thread
  <2> QED
    BY <1>3, <2>2, <2>4 DEF ClientReconfigure, Request, Called, TypeOK
<1>4. CASE Redistribute
  <2>1. /\ "orb" \in Thread /\ thr["orb"].op \in Op /\ thr["orb"].nodes \in SUBSET Node
        /\ Registered \in SUBSET Node /\ (thr["orb"].op = "force") \in BOOLEAN
    BY DEF TypeOK, Activity, Op, Thread, Registered
  <2>2. /\ mDistributed' \in BOOLEAN /\ mCompConfig' \in Share /\ mDistState' \in Share
        /\ thr' \in [Thread -> Activity]
    BY <1>4, <2>1, DistributesAndSends DEF Redistribute
  <2> QED
    BY <1>4, <2>2 DEF Redistribute, TypeOK
<1>5. ASSUME NEW op \in Ops, ClientRestart(op) PROVE TypeOK'
  <2>1. Doing(op, "send", Registered, NoShare) \in Activity
    BY <1>5, DoingType DEF ClientRestart, Op, AllOps, Registered, NoShare, Share
  <2>2. thr' \in [Thread -> Activity]
    BY <1>5, <2>1, ThreadType DEF ClientRestart, Thread
  <2> QED
    BY <1>5, <2>2 DEF ClientRestart, Request, Called, TypeOK
<1>6. CASE ClientStatus
  <2>1. PICK S \in Erasures(Dead) :
          /\ ctrl' = Without(S)
          /\ thr' = [thr EXCEPT !["orb"] = Doing("status", "ask", Registered \ S, NoShare)]
    BY <1>6 DEF ClientStatus
  <2>2. ctrl' \in [Node -> CtrlState]
    BY <2>1, WithoutType
  <2>3. Doing("status", "ask", Registered \ S, NoShare) \in Activity
    BY DoingType DEF Op, AllOps, Registered, NoShare, Share
  <2>4. thr' \in [Thread -> Activity]
    BY <2>1, <2>3, ThreadType DEF Thread
  <2> QED
    BY <1>6, <2>2, <2>4 DEF ClientStatus, Request, Called, TypeOK
<1>7. CASE Shutdown
  <2>1. Doing("shutdown", "join", Registered, NoShare) \in Activity
    BY DoingType DEF Op, AllOps, Registered, NoShare, Share
  <2>2. thr' \in [Thread -> Activity]
    BY <1>7, <2>1, ThreadType DEF Shutdown, Thread
  <2> QED
    BY <1>7, <2>2 DEF Shutdown, Request, Called, TypeOK
<1>23. CASE ShutdownNil
  BY <1>23, IdleType DEF ShutdownNil, Called, TypeOK, DirectorState
<1>24. ASSUME NEW n \in Node, Ask(n) \/ Join(n) PROVE TypeOK'
  <2>1. thr' \in [Thread -> Activity]
    BY <1>24, OneLess DEF Ask, Join, Thread
  <2>2. ctrl' \in [Node -> CtrlState]
    BY <1>24 DEF Ask, Join, TypeOK, CtrlState
  <2> QED
    BY <1>24, <2>1, <2>2 DEF Ask, Join, TypeOK
<1>25. CASE StatusRead
  BY <1>25, IdleType DEF StatusRead, TypeOK
<1>8. CASE ShutdownJoined
  <2>1. ctrl' \in [Node -> CtrlState]
    BY <1>8, WithoutType DEF ShutdownJoined
  <2> QED
    BY <1>8, <2>1, IdleType DEF ShutdownJoined, TypeOK, DirectorState
<1>26. CASE DirectorEnds \/ DirectorDeleted
  BY <1>26 DEF DirectorEnds, DirectorDeleted, TypeOK, DirectorState
<1>9. CASE RegisterOne
  <2>1. thr' \in [Thread -> Activity]
    <3>1. thr["orb"].who \in Node
      BY <1>9 DEF RegisterOne, Initialised, AwaitsDaemon, Thread
    <3>2. thr["orb"] \in Activity /\ mDistState \in Share /\ "orb" \in Thread
      BY DEF TypeOK, Thread
    <3> DEFINE a == [thr["orb"] EXCEPT !.at = "send", !.nodes = {thr["orb"].who},
                                       !.plan = mDistState]
    <3>3. a \in Activity
      BY <3>1, <3>2 DEF Activity
    <3>4. thr' = [thr EXCEPT !["orb"] = a]
      BY <1>9, <3>2 DEF RegisterOne, TypeOK
    <3> HIDE DEF a
    <3> QED
      BY <3>2, <3>3, <3>4, ThreadType
  <2> QED
    BY <1>9, <2>1 DEF RegisterOne, Initialised, TypeOK
<1>10. CASE RegisterAdopt
  <2>1. /\ "orb" \in Thread /\ "regAdopt" \in Op /\ Registered \in SUBSET Node
    BY DEF Op, Registration, Thread, Registered
  <2>2. /\ mDistributed' \in BOOLEAN /\ mCompConfig' \in Share /\ mDistState' \in Share
        /\ thr' \in [Thread -> Activity]
    <3>1. CASE DistributeAndSend("orb", "regAdopt", Registered, Registered, FALSE, FALSE)
      BY <3>1, <2>1, DistributesAndSends
    <3>2. CASE thr' = [thr EXCEPT !["orb"] = Idle] /\ UNCHANGED distVars
      BY <3>2, IdleType DEF TypeOK
    <3> QED
      BY <1>10, <3>1, <3>2 DEF RegisterAdopt
  <2> QED
    BY <1>10, <2>2 DEF RegisterAdopt, Initialised, TypeOK
<1>11. CASE CheckDaemons
  <2>1. PICK S \in SUBSET Node, T \in SUBSET Node :
          /\ ctrl' = Without(S) \/ ctrl' = Without(S \cup T)
          /\ \/ UNCHANGED <<thr, distVars>>
             \/ DistributeAndSend("dir", "check", Registered \ (S \cup T),
                                  Registered \ (S \cup T), TRUE, FALSE)
    BY <1>11 DEF CheckDaemons, CleanAndRedistribute, Erasures, Dead
  <2>2. ctrl' \in [Node -> CtrlState]
    BY <2>1, WithoutType
  <2>3. /\ mDistributed' \in BOOLEAN /\ mCompConfig' \in Share /\ mDistState' \in Share
        /\ thr' \in [Thread -> Activity]
    <3>1. CASE UNCHANGED <<thr, distVars>>
      BY <3>1 DEF TypeOK
    <3>2. CASE DistributeAndSend("dir", "check", Registered \ (S \cup T),
                                 Registered \ (S \cup T), TRUE, FALSE)
      <4>1. "check" \in Op /\ "dir" \in Thread /\ Registered \ (S \cup T) \in SUBSET Node
        BY DEF Op, Thread, Registered
      <4> QED
        BY <3>2, <4>1, DistributesAndSends
    <3> QED
      BY <2>1, <3>1, <3>2
  <2> QED
    BY <1>11, <2>2, <2>3 DEF CheckDaemons, CleanAndRedistribute, TypeOK
<1>12. ASSUME NEW t \in Thread, NEW n \in Node, Send(t, n) PROVE TypeOK'
  <2>1. mStateQueue' \in [Node -> Seq(Command)]
    BY <1>12, MessageType DEF Send, TypeOK
  <2>2. thr' \in [Thread -> Activity]
    BY <1>12, OneLess DEF Send
  <2> QED
    BY <1>12, <2>1, <2>2 DEF Send, TypeOK
<1>13. ASSUME NEW t \in Thread, NEW n \in Node, SendErased(t, n) PROVE TypeOK'
  <2>1. thr' \in [Thread -> Activity]
    BY <1>13, OneLess DEF SendErased
  <2> QED
    BY <1>13, <2>1 DEF SendErased, TypeOK
<1>14. ASSUME NEW t \in Thread, NEW n \in Node, SendFails(t, n) PROVE TypeOK'
  BY <1>14, IdleType DEF SendFails, TypeOK, DirectorState
<1>15. ASSUME NEW t \in Thread, NEW n \in Node, SendNil(t, n) PROVE TypeOK'
  BY <1>15, IdleType DEF SendNil, TypeOK, DirectorState
<1>16. ASSUME NEW t \in Thread, Finish(t) PROVE TypeOK'
  <2>1. phase' \in [Node -> Phase]
    BY <1>16 DEF Finish, Answered, TypeOK, Phase
  <2>2. thr' \in [Thread -> Activity]
    BY <1>16, IdleType DEF Finish, TypeOK
  <2>3. mSystemRunning' \in BOOLEAN
    BY <1>16 DEF Finish, TypeOK
  <2>4. mDistributed' \in BOOLEAN /\ mCompConfig' \in Share /\ mDistState' \in Share
    BY <1>16 DEF Finish, TypeOK, NoShare, Share
  <2> QED
    BY <1>16, <2>1, <2>2, <2>3, <2>4 DEF Finish, TypeOK
<1>17. ASSUME NEW n \in Node, CtrlThread(n) PROVE TypeOK'
  BY <1>17 DEF CtrlThread, CtrlInit, CtrlEnds, TypeOK, CtrlState
<1>18. ASSUME NEW n \in Node, Register(n) PROVE TypeOK'
  <2>1. PICK S \in Erasures(Dead) :
          /\ ctrl' \in {Without(S), [Without(S) EXCEPT ![n] = "starting"]}
          /\ \/ UNCHANGED thr
             \/ thr' = [thr EXCEPT !["orb"] = Registering("regStart", n)]
             \/ thr' = [thr EXCEPT !["orb"] =
                    Registering(IF mClientInteraction THEN "regStop" ELSE "regAdopt", n)]
          /\ phase' \in {phase, [phase EXCEPT ![n] = "heartbeat"]}
    BY <1>18 DEF Register
  <2>2. ctrl' \in [Node -> CtrlState]
    BY <2>1, WithoutType DEF CtrlState
  <2>3. thr' \in [Thread -> Activity]
    <3>1. /\ Registering("regStart", n) \in Activity
          /\ Registering("regStop", n) \in Activity
          /\ Registering("regAdopt", n) \in Activity
      BY RegisteringType DEF Registration
    <3> QED
      BY <2>1, <3>1 DEF TypeOK
  <2> QED
    BY <1>18, <2>1, <2>2, <2>3 DEF Register, TypeOK, Phase
<1>19. ASSUME NEW n \in Node, HeartbeatLost(n) PROVE TypeOK'
  BY <1>19 DEF HeartbeatLost, TypeOK, Phase
<1>20. ASSUME NEW n \in Node, CheckNewState(n) PROVE TypeOK'
  <2>1. mStateQueue[n] \in Seq(Command) /\ mStateQueue[n] # <<>>
    BY <1>20 DEF CheckNewState, TypeOK
  <2>2. Head(mStateQueue[n]) \in Command /\ Tail(mStateQueue[n]) \in Seq(Command)
    BY <2>1
  <2>3. RunningAfter(n, Head(mStateQueue[n])) \in BOOLEAN
    BY DEF RunningAfter, TypeOK
  <2>4. ProcsAfter(n, Head(mStateQueue[n])) \in SUBSET Comp
    BY <2>2 DEF ProcsAfter, TypeOK, Share, Command
  <2> QED
    BY <1>20, <2>2, <2>3, <2>4 DEF CheckNewState, TypeOK, Share
<1>21. ASSUME NEW n \in Node, Environment(n) PROVE TypeOK'
  <2>1. CASE CtrlTimesOut(n)
    BY <2>1 DEF CtrlTimesOut, Fault, TypeOK, CtrlState
  <2>2. CASE HeartbeatTimesOut(n)
    BY <2>2 DEF HeartbeatTimesOut, Fault, TypeOK, Phase
  <2>3. CASE Crash(n)
    <3>1. thr' \in [Thread -> Activity]
      <4> DEFINE a == [thr["orb"] EXCEPT !.live = @ /\ thr["orb"].who # n]
      <4>1. thr["orb"] \in Activity /\ "orb" \in Thread
        BY DEF TypeOK, Thread
      <4>2. a \in Activity
        BY <4>1 DEF Activity
      <4>3. thr' = [thr EXCEPT !["orb"] = a]
        BY <2>3 DEF Crash
      <4> HIDE DEF a
      <4> QED
        BY <4>1, <4>2, <4>3, ThreadType
    <3>2. mStateQueue' \in [Node -> Seq(Command)]
      BY <2>3 DEF Crash, TypeOK
    <3> QED
      BY <2>3, <3>1, <3>2 DEF Crash, Fault, TypeOK, Phase, Share
  <2>4. CASE Restart(n)
    BY <2>4 DEF Restart, TypeOK
  <2> QED
    BY <1>21, <2>1, <2>2, <2>3, <2>4 DEF Environment
<1>22. CASE UNCHANGED vars
  BY <1>22 DEF vars, TypeOK
<1> QED
  BY <1>1, <1>2, <1>3, <1>4, <1>5, <1>6, <1>7, <1>8, <1>9, <1>10, <1>11, <1>12, <1>13,
     <1>14, <1>15, <1>16, <1>17, <1>18, <1>19, <1>20, <1>21, <1>22, <1>23, <1>24, <1>25, <1>26
     DEF Next, Client, OrbStep, Broadcast, Daemon

\* A thread that has distributed spins or sends.
LEMMA SpinsOrSends ==
  ASSUME TypeOK, NEW t \in Thread, NEW u \in Thread, NEW op, NEW nodes, NEW targets,
         NEW redistribute, NEW force,
         DistributeAndSend(t, op, nodes, targets, redistribute, force)
  PROVE  thr'[u] = thr[u] \/ thr'[u].at \in {"spin", "send"}
<1>1. PICK a : thr' = [thr EXCEPT ![t] = a] /\ a.at \in {"spin", "send"}
  <2>1. Doing(op, "spin", {}, NoShare).at = "spin"
    BY DEF Doing, Idle
  <2>2. [Doing(op, "send", targets, mDistState')
           EXCEPT !.who = thr[t].who, !.live = thr[t].live].at = "send"
    BY DEF Doing, Idle
  <2> QED
    BY <2>1, <2>2 DEF DistributeAndSend
<1> QED
  BY <1>1 DEF TypeOK

LEMMA AwaitsNext == TypeOK /\ AwaitsDaemon /\ [Next]_vars => AwaitsDaemon'
<1> SUFFICES ASSUME TypeOK, AwaitsDaemon, [Next]_vars, NEW u \in Thread, thr'[u].at = "await"
             PROVE  thr'[u].who \in Node
  BY DEF AwaitsDaemon
<1>1. thr \in [Thread -> Activity] /\ "orb" \in Thread /\ "dir" \in Thread
  BY DEF TypeOK, Thread
<1>2. thr[u].at = "await" => thr[u].who \in Node
  BY DEF AwaitsDaemon
<1> USE DEF Idle
<1>3. CASE Client
  <2>1. CASE ClientStart
    BY <1>1, <1>2, <2>1, SpinsOrSends DEF ClientStart, distVars
  <2>2. CASE ClientStop
    BY <1>1, <1>2, <2>2 DEF ClientStop, Doing
  <2>3. CASE ClientStatus
    BY <1>1, <1>2, <2>3 DEF ClientStatus, Doing
  <2>4. CASE Shutdown
    BY <1>1, <1>2, <2>4 DEF Shutdown, Doing
  <2>5. CASE ShutdownNil
    BY <1>1, <2>5 DEF ShutdownNil
  <2>6. ASSUME NEW op \in Ops, ClientReconfigure(op) PROVE thr'[u].who \in Node
    BY <1>1, <1>2, <2>6 DEF ClientReconfigure, Doing
  <2>7. ASSUME NEW op \in Ops, ClientRestart(op) PROVE thr'[u].who \in Node
    BY <1>1, <1>2, <2>7 DEF ClientRestart, Doing
  <2> QED
    BY <1>3, <2>1, <2>2, <2>3, <2>4, <2>5, <2>6, <2>7 DEF Client
<1>4. CASE OrbStep
  <2>1. CASE Redistribute
    BY <1>1, <1>2, <2>1, SpinsOrSends DEF Redistribute
  <2>2. CASE StatusRead \/ ShutdownJoined
    BY <1>1, <1>2, <2>2 DEF StatusRead, ShutdownJoined
  <2>5. ASSUME NEW n \in Node, Ask(n) \/ Join(n) PROVE thr'[u].who \in Node
    <3>1. thr'[u].at = thr[u].at /\ thr'[u].who = thr[u].who
      BY <2>5, OneLess DEF Ask, Join, Thread
    <3> QED
      BY <1>2, <3>1
  <2>3. CASE RegisterOne
    <3>1. CASE u = "orb"
      BY <1>1, <2>3, <3>1 DEF RegisterOne, Activity
    <3>2. CASE u = "dir"
      BY <1>1, <1>2, <2>3, <3>2 DEF RegisterOne
    <3> QED
      BY <3>1, <3>2 DEF Thread
  <2>4. CASE RegisterAdopt
    <3>1. CASE thr' = [thr EXCEPT !["orb"] = Idle]
      BY <1>1, <1>2, <3>1
    <3>2. CASE DistributeAndSend("orb", "regAdopt", Registered, Registered, FALSE, FALSE)
      BY <1>1, <1>2, <3>2, SpinsOrSends
    <3> QED
      BY <2>4, <3>1, <3>2 DEF RegisterAdopt
  <2> QED
    BY <1>4, <2>1, <2>2, <2>3, <2>4, <2>5 DEF OrbStep
<1>5. CASE CheckDaemons
  BY <1>1, <1>2, <1>5, SpinsOrSends DEF CheckDaemons, CleanAndRedistribute
<1>9. CASE DirectorEnds \/ DirectorDeleted
  BY <1>2, <1>9 DEF DirectorEnds, DirectorDeleted
<1>6. ASSUME NEW t \in Thread, Broadcast(t) PROVE thr'[u].who \in Node
  <2>1. ASSUME NEW n \in Node, Send(t, n) \/ SendErased(t, n)
        PROVE  thr'[u].at = thr[u].at /\ thr'[u].who = thr[u].who
    <3>1. thr' = [thr EXCEPT ![t].nodes = @ \ {n}]
      BY <2>1 DEF Send, SendErased
    <3> QED
      BY <1>1, <3>1 DEF Activity
  <2>2. ASSUME \/ \E n \in Node : SendFails(t, n) \/ SendNil(t, n)
               \/ Finish(t)
        PROVE  thr'[u] \in {thr[u], Idle}
    BY <1>1, <2>2 DEF SendFails, SendNil, Finish
  <2> QED
    BY <1>2, <1>6, <2>1, <2>2 DEF Broadcast
<1>7. ASSUME NEW n \in Node, CtrlThread(n) \/ Daemon(n) \/ Environment(n)
      PROVE  thr'[u].who \in Node
  <2>1. CASE Register(n)
    <3>1. UNCHANGED thr \/ \E op \in Registration :
            thr' = [thr EXCEPT !["orb"] = Registering(op, n)]
      BY <2>1 DEF Register, Registration
    <3>2. \A op \in Registration : Registering(op, n).who = n
      BY DEF Registering
    <3> QED
      BY <1>1, <1>2, <3>1, <3>2
  <2>2. CASE Crash(n)
    <3>1. thr' = [thr EXCEPT !["orb"].live = @ /\ thr["orb"].who # n]
      BY <2>2 DEF Crash
    <3>2. thr'[u].at = thr[u].at /\ thr'[u].who = thr[u].who
      BY <1>1, <3>1 DEF Activity
    <3> QED
      BY <1>2, <3>2
  <2>3. CASE UNCHANGED thr
    BY <1>2, <2>3
  <2> QED
    BY <1>7, <2>1, <2>2, <2>3 DEF CtrlThread, CtrlInit, CtrlEnds, Daemon, HeartbeatLost,
          CheckNewState, Environment, CtrlTimesOut, HeartbeatTimesOut, Restart
<1>8. CASE UNCHANGED vars
  BY <1>2, <1>8 DEF vars
<1> QED
  BY <1>3, <1>4, <1>5, <1>6, <1>7, <1>8, <1>9 DEF Next

\* The model's variables keep their types.
THEOREM Typing == Spec => []TypeOK
<1>1. Init => TypeOK /\ AwaitsDaemon
  BY TypeInit DEF Init, AwaitsDaemon, Idle
<1>2. TypeOK /\ AwaitsDaemon /\ [Next]_vars => TypeOK' /\ AwaitsDaemon'
  BY TypeNext, AwaitsNext
<1> QED
  BY <1>1, <1>2, PTL DEF Spec

-----------------------------------------------------------------------------
(* The distributor's books.                                                *)

\* A distribution of an undistributed system, or a redistribution of a
\* distributed one, gives each component to one node, and takes from a node
\* nothing that is not moveable unless it is forced.
LEMMA BooksKept ==
  ASSUME TypeOK, EachComponentOnce, NEW nodes \in SUBSET Node,
         NEW redistribute \in BOOLEAN, NEW force \in BOOLEAN,
         Distribute(nodes, redistribute, force),
         \/ redistribute = TRUE /\ mDistributed = TRUE
         \/ redistribute = FALSE /\ force = FALSE /\ mDistributed = FALSE
  PROVE  /\ EachComponentOnce' /\ mDistributed'
         /\ force = FALSE => \A n \in Node : mCompConfig[n] \ Moveable \subseteq mCompConfig'[n]
<1>1. PICK place \in [Again(redistribute, force) -> nodes] :
        mCompConfig' = [n \in Node |->
          Kept(redistribute, force)[n] \cup {c \in DOMAIN place : place[c] = n}]
  BY DEF Distribute, Placements
<1>2. mDistributed' = TRUE /\ \A n \in Node : mDistState'[n] \in {mCompConfig'[n], {}}
  BY Distributes
<1>3. ASSUME NEW c \in Comp
      PROVE  \E n \in Node : \A m \in Node : c \in mCompConfig'[m] <=> m = n
  <2>1. CASE c \in Again(redistribute, force)
    <3>1. \A m \in Node : c \notin Kept(redistribute, force)[m]
      BY <2>1 DEF Again, Kept, NoShare, EachComponentOnce, TypeOK, Share
    <3>2. place[c] \in Node
      BY <2>1
    <3>3. \A m \in Node : c \in mCompConfig'[m] <=> m = place[c]
      BY <1>1, <2>1, <3>1
    <3> QED
      BY <3>2, <3>3
  <2>2. CASE c \notin Again(redistribute, force)
    <3>1. redistribute = TRUE /\ force = FALSE /\ c \notin Moveable
      BY <2>2 DEF Again
    <3>2. \A m \in Node : c \in Kept(redistribute, force)[m] <=> c \in mCompConfig[m]
      BY <3>1 DEF Kept
    <3>3. PICK n \in Node : \A m \in Node : c \in mCompConfig[m] <=> m = n
      BY <3>1 DEF EachComponentOnce
    <3>4. \A m \in Node : c \in mCompConfig'[m] <=> m = n
      BY <1>1, <2>2, <3>2, <3>3
    <3> QED
      BY <3>4
  <2> QED
    BY <2>1, <2>2
<1>4. force = FALSE => \A n \in Node : mCompConfig[n] \ Moveable \subseteq mCompConfig'[n]
  BY <1>1 DEF Kept
<1> QED
  BY <1>2, <1>3, <1>4 DEF EachComponentOnce

\* What the two threads are in the middle of agrees with the books: what makes
\* the promises above inductive.
InHand ==
  /\ thr["dir"].op \in {"none", "check"} /\ thr["dir"].at # "distribute"
  /\ thr["orb"].at = "distribute"
       => mDistributed /\ thr["orb"].op \in {"reconfigure", "force"}
  /\ thr["orb"].at = "send" /\ thr["orb"].op \in {"start", "regAdopt"} => mDistributed
  /\ thr["orb"].at # "idle" /\ thr["orb"].op = "regAdopt" => ~mClientInteraction

Books == EachComponentOnce /\ RunningIsDistributed /\ InHand

LEMMA BooksInit == Init => Books
BY DEF Init, Books, EachComponentOnce, RunningIsDistributed, InHand, Thread, Idle, NoShare

\* Steps that leave the books alone, and at most move a thread on within, or
\* out of, a loop, or begin one that sends nothing.
MovesOn ==
  /\ UNCHANGED <<mDistributed, mCompConfig, mDistState, mSystemRunning>>
  /\ mClientInteraction' = mClientInteraction
  /\ \A t \in Thread : \/ /\ thr'[t].op = thr[t].op /\ thr'[t].at = thr[t].at
                          /\ thr'[t].plan = thr[t].plan
                          /\ thr'[t].nodes \subseteq thr[t].nodes
                       \/ thr'[t] = Idle
                       \/ /\ t = "orb" /\ thr'[t].op \in {"status", "shutdown"}
                          /\ thr'[t].at \in {"ask", "join"}

LEMMA BooksMoveOn == Books /\ MovesOn => Books'
BY DEF Books, MovesOn, EachComponentOnce, RunningIsDistributed, InHand, Thread, Idle

LEMMA MoveOnSteps ==
  ASSUME TypeOK
  PROVE  /\ ClientStatus \/ Shutdown \/ ShutdownNil => MovesOn
         /\ StatusRead \/ ShutdownJoined \/ DirectorEnds \/ DirectorDeleted => MovesOn
         /\ \A n \in Node : Ask(n) \/ Join(n) => MovesOn
         /\ \A t \in Thread, n \in Node :
              Send(t, n) \/ SendErased(t, n) \/ SendFails(t, n) \/ SendNil(t, n) => MovesOn
         /\ \A n \in Node : CtrlThread(n) \/ HeartbeatLost(n) \/ CheckNewState(n)
                              \/ Environment(n) => MovesOn
         /\ UNCHANGED vars => MovesOn
<1> USE DEF distVars, systemVars
<1>1. thr \in [Thread -> Activity] /\ "orb" \in Thread
  BY DEF TypeOK, Thread
<1>2. ASSUME NEW t \in Thread, NEW n \in Node, Send(t, n) \/ SendErased(t, n)
      PROVE  MovesOn
  BY <1>2, OneLess DEF Send, SendErased, MovesOn
<1>3. ASSUME NEW t \in Thread, NEW n \in Node, SendFails(t, n) \/ SendNil(t, n)
      PROVE  MovesOn
  BY <1>1, <1>3 DEF SendFails, SendNil, MovesOn
<1>4. ASSUME NEW n \in Node, Crash(n) PROVE MovesOn
  <2>1. thr' = [thr EXCEPT !["orb"].live = @ /\ thr["orb"].who # n]
    BY <1>4 DEF Crash
  <2>2. \A u \in Thread : /\ thr'[u].op = thr[u].op /\ thr'[u].at = thr[u].at
                          /\ thr'[u].plan = thr[u].plan
                          /\ thr'[u].nodes \subseteq thr[u].nodes
    BY <1>1, <2>1 DEF Activity
  <2> QED
    BY <1>4, <2>2 DEF Crash, MovesOn
<1>5. ASSUME NEW n \in Node, CtrlThread(n) \/ HeartbeatLost(n) \/ CheckNewState(n)
                               \/ CtrlTimesOut(n) \/ HeartbeatTimesOut(n) \/ Restart(n)
      PROVE  MovesOn
  BY <1>5 DEF CtrlThread, CtrlInit, CtrlEnds, HeartbeatLost, CheckNewState, CtrlTimesOut,
              HeartbeatTimesOut, Restart, MovesOn
<1>6. ASSUME NEW n \in Node, Ask(n) \/ Join(n) PROVE MovesOn
  BY <1>1, <1>6, OneLess DEF Ask, Join, MovesOn
<1>7. StatusRead \/ ShutdownJoined \/ DirectorEnds \/ DirectorDeleted => MovesOn
  BY <1>1 DEF StatusRead, ShutdownJoined, DirectorEnds, DirectorDeleted, MovesOn
<1>8. UNCHANGED vars => MovesOn
  BY DEF vars, MovesOn
<1>9. ClientStatus \/ Shutdown \/ ShutdownNil => MovesOn
  <2>1. CASE ClientStatus
    <3>1. PICK S : thr' = [thr EXCEPT !["orb"] = Doing("status", "ask", S, NoShare)]
      BY <2>1 DEF ClientStatus
    <3>2. /\ thr'["orb"].op = "status" /\ thr'["orb"].at = "ask"
          /\ \A t \in Thread : t # "orb" => thr'[t] = thr[t]
      BY <1>1, <3>1 DEF Doing, Idle
    <3> QED
      BY <2>1, <3>2 DEF ClientStatus, MovesOn
  <2>2. CASE Shutdown
    BY <1>1, <2>2 DEF Shutdown, MovesOn, Doing, Idle
  <2>3. CASE ShutdownNil
    BY <1>1, <2>3 DEF ShutdownNil, MovesOn
  <2> QED
    BY <2>1, <2>2, <2>3
<1> QED
  BY <1>2, <1>3, <1>4, <1>5, <1>6, <1>7, <1>8, <1>9 DEF Environment

\* A distribution, whatever operation it is part of.
LEMMA BooksDistribute ==
  ASSUME TypeOK, Books, NEW t \in Thread, NEW op \in Op, NEW nodes \in SUBSET Node,
         NEW targets \in SUBSET Node, NEW redistribute \in BOOLEAN, NEW force \in BOOLEAN,
         DistributeAndSend(t, op, nodes, targets, redistribute, force),
         \/ redistribute = TRUE /\ mDistributed = TRUE
         \/ redistribute = FALSE /\ force = FALSE /\ mDistributed = FALSE,
         UNCHANGED mSystemRunning,
         op = "regAdopt" => ~mClientInteraction',
         \/ t = "orb"
         \/ t = "dir" /\ op = "check" /\ UNCHANGED mClientInteraction
  PROVE  Books'
<1>1. /\ \A u \in Thread \ {t} : thr'[u] = thr[u]
      /\ thr'[t].op = op
      /\ \/ thr'[t].at = "spin" /\ UNCHANGED distVars
         \/ thr'[t].at = "send" /\ Distribute(nodes, redistribute, force)
  BY DEF DistributeAndSend, Doing, Idle, TypeOK, Thread
<1>2. EachComponentOnce' /\ (mDistributed => mDistributed')
      /\ (thr'[t].at = "send" => mDistributed')
  <2>1. CASE thr'[t].at = "spin" /\ UNCHANGED distVars
    BY <2>1 DEF Books, EachComponentOnce, distVars
  <2>2. CASE Distribute(nodes, redistribute, force)
    <3>1. EachComponentOnce
      BY DEF Books
    <3> QED
      BY <2>2, <3>1, BooksKept
  <2> QED
    BY <1>1, <2>1, <2>2
<1>3. RunningIsDistributed'
  BY <1>2 DEF Books, RunningIsDistributed
<1>4. InHand'
  BY <1>1, <1>2 DEF Books, InHand, Thread
<1> QED
  BY <1>2, <1>3, <1>4 DEF Books

LEMMA BooksNext == TypeOK /\ AwaitsDaemon /\ Books /\ [Next]_vars => Books'
<1> SUFFICES ASSUME TypeOK, AwaitsDaemon, Books, [Next]_vars PROVE Books'
  OBVIOUS
<1> USE DEF distVars, systemVars, boundVars
<1>1. thr \in [Thread -> Activity] /\ "orb" \in Thread /\ "dir" \in Thread /\ "orb" # "dir"
  BY DEF TypeOK, Thread
<1>2. /\ EachComponentOnce /\ RunningIsDistributed /\ InHand
      /\ mDistributed \in BOOLEAN /\ mSystemRunning \in BOOLEAN
  BY DEF Books, TypeOK
<1>3. MovesOn => Books'
  BY BooksMoveOn
<1>4. CASE ClientStart
  <2>1. /\ mClientInteraction' = TRUE /\ UNCHANGED mSystemRunning
        /\ thr["orb"].at = "idle"
    BY <1>4 DEF ClientStart, Request, Called
  <2>2. CASE UNCHANGED <<distVars, thr>>
    BY <1>2, <2>1, <2>2 DEF Books, EachComponentOnce, RunningIsDistributed, InHand
  <2>3. ASSUME NEW S, ~mDistributed,
               DistributeAndSend("orb", "start", Registered \ S, Registered \ S, FALSE, FALSE)
        PROVE  Books'
    <3>1. "start" \in Op /\ Registered \ S \in SUBSET Node
      BY DEF Op, AllOps, Registered
    <3>2. mDistributed = FALSE
      BY <1>2, <2>3
    <3> QED
      BY <1>1, <2>1, <2>3, <3>1, <3>2, BooksDistribute
  <2> QED
    BY <1>4, <2>2, <2>3 DEF ClientStart
<1>5. CASE ClientStop
  <2>1. /\ UNCHANGED <<mSystemRunning, distVars>>
        /\ thr' = [thr EXCEPT !["orb"] = Doing("stop", "send", thr'["orb"].nodes, NoShare)]
    BY <1>1, <1>5 DEF ClientStop, Doing, Idle
  <2>2. /\ thr'["dir"] = thr["dir"]
        /\ thr'["orb"].at = "send" /\ thr'["orb"].op = "stop"
    BY <1>1, <2>1 DEF Doing, Idle
  <2>3. InHand'
    BY <1>2, <2>1, <2>2 DEF InHand
  <2> QED
    BY <1>2, <2>1, <2>3 DEF Books, EachComponentOnce, RunningIsDistributed
<1>6. ASSUME NEW op \in Ops, ClientReconfigure(op) PROVE Books'
  <2>1. /\ UNCHANGED <<systemVars, distVars>> /\ mSystemRunning
        /\ op \in {"reconfigure", "force"}
        /\ \E S : thr' = [thr EXCEPT !["orb"] = Doing(op, "distribute", S, NoShare)]
    BY <1>6 DEF ClientReconfigure
  <2> QED
    BY <1>1, <1>2, <2>1 DEF Books, EachComponentOnce, RunningIsDistributed, InHand, Doing, Idle
<1>7. CASE Redistribute
  <2>1. /\ thr["orb"].op \in Op /\ thr["orb"].nodes \in SUBSET Node
        /\ Registered \in SUBSET Node /\ (thr["orb"].op = "force") \in BOOLEAN
    BY <1>1 DEF Activity, Op, Registered
  <2>2. mDistributed = TRUE /\ (thr["orb"].op = "regAdopt" => ~mClientInteraction)
    BY <1>2, <1>7 DEF Redistribute, InHand
  <2>3. UNCHANGED <<mSystemRunning, mClientInteraction>>
    BY <1>7 DEF Redistribute
  <2>4. PICK force \in BOOLEAN :
          DistributeAndSend("orb", thr["orb"].op, thr["orb"].nodes, Registered, TRUE, force)
    BY <1>7, <2>1 DEF Redistribute
  <2>5. thr["orb"].op = "regAdopt" => ~mClientInteraction'
    BY <2>2, <2>3
  <2> QED
    BY <1>1, <2>1, <2>2, <2>3, <2>4, <2>5, BooksDistribute
<1>8. ASSUME NEW op \in Ops, ClientRestart(op) PROVE Books'
  <2>1. /\ UNCHANGED <<systemVars, distVars>> /\ op \in {"restart", "failstart"}
        /\ thr' = [thr EXCEPT !["orb"] = Doing(op, "send", Registered, NoShare)]
    BY <1>8 DEF ClientRestart
  <2> QED
    BY <1>1, <1>2, <2>1 DEF Books, EachComponentOnce, RunningIsDistributed, InHand, Doing, Idle
<1>10. CASE RegisterOne
  <2>1. /\ UNCHANGED <<systemVars, distVars>>
        /\ thr["orb"].op \in {"regStart", "regStop"}
    BY <1>10 DEF RegisterOne, Initialised
  <2>2. thr'["orb"].op = thr["orb"].op /\ thr'["dir"] = thr["dir"] /\ thr'["orb"].at = "send"
    <3>1. thr' = [thr EXCEPT !["orb"] = [thr["orb"] EXCEPT
                    !.at = "send", !.nodes = {thr["orb"].who}, !.plan = mDistState]]
      BY <1>1, <1>10 DEF RegisterOne
    <3> QED
      BY <1>1, <3>1 DEF Activity
  <2> QED
    BY <1>2, <2>1, <2>2 DEF Books, EachComponentOnce, RunningIsDistributed, InHand
<1>11. CASE RegisterAdopt
  <2>1. /\ UNCHANGED systemVars /\ thr["orb"].at = "await" /\ thr["orb"].op = "regAdopt"
    BY <1>11 DEF RegisterAdopt, Initialised
  <2>2. ~mClientInteraction'
    BY <1>2, <2>1 DEF InHand
  <2>3. CASE thr' = [thr EXCEPT !["orb"] = Idle] /\ UNCHANGED distVars
    BY <1>1, <1>2, <2>1, <2>3 DEF Books, EachComponentOnce, RunningIsDistributed, InHand, Idle
  <2>4. CASE ~mDistributed /\
             DistributeAndSend("orb", "regAdopt", Registered, Registered, FALSE, FALSE)
    <3>1. "regAdopt" \in Op /\ Registered \in SUBSET Node
      BY DEF Op, Registration, Registered
    <3>2. mDistributed = FALSE
      BY <1>2, <2>4
    <3> QED
      BY <1>1, <2>1, <2>2, <2>4, <3>1, <3>2, BooksDistribute
  <2> QED
    BY <1>11, <2>3, <2>4 DEF RegisterAdopt
<1>12. CASE CheckDaemons
  <2>1. UNCHANGED systemVars
    BY <1>12 DEF CheckDaemons, CleanAndRedistribute
  <2>2. CASE UNCHANGED <<thr, distVars>>
    BY <1>2, <2>1, <2>2 DEF Books, EachComponentOnce, RunningIsDistributed, InHand
  <2>3. ASSUME NEW S, mSystemRunning,
               DistributeAndSend("dir", "check", Registered \ S, Registered \ S, TRUE, FALSE)
        PROVE  Books'
    <3>1. "check" \in Op /\ Registered \ S \in SUBSET Node
      BY DEF Op, Registered
    <3>2. mDistributed = TRUE
      BY <1>2, <2>3 DEF RunningIsDistributed
    <3> QED
      BY <1>1, <2>1, <2>3, <3>1, <3>2, BooksDistribute
  <2> QED
    BY <1>12, <2>2, <2>3 DEF CheckDaemons, CleanAndRedistribute
<1>13. ASSUME NEW t \in Thread, Finish(t) PROVE Books'
  <2>1. /\ thr' = [thr EXCEPT ![t] = Idle] /\ UNCHANGED mClientInteraction
        /\ thr[t].at = "send"
    BY <1>13 DEF Finish, Sent
  <2>2. InHand' \/ mDistributed' # mDistributed
    BY <1>1, <1>2, <2>1 DEF InHand, Idle, Thread
  <2>3. CASE thr[t].op = "stop"
    <3>1. t = "orb"
      BY <1>2, <2>3 DEF InHand, Thread
    <3>2. mDistributed' = FALSE /\ mCompConfig' = NoShare /\ mDistState' = NoShare
          /\ mSystemRunning' = FALSE
      BY <1>13, <2>3 DEF Finish
    <3>3. InHand'
      BY <1>1, <1>2, <2>1, <3>1 DEF InHand, Idle
    <3> QED
      BY <3>2, <3>3 DEF Books, EachComponentOnce, RunningIsDistributed, NoShare
  <2>4. CASE thr[t].op \in {"start", "regAdopt"}
    <3>1. t = "orb"
      BY <1>2, <2>4 DEF InHand, Thread
    <3>2. mDistributed /\ UNCHANGED distVars
      BY <1>2, <1>13, <2>1, <2>4, <3>1 DEF InHand, Finish
    <3> QED
      BY <1>2, <2>2, <3>2 DEF Books, EachComponentOnce, RunningIsDistributed
  <2>5. CASE thr[t].op \notin {"stop", "start", "regAdopt"}
    <3>1. UNCHANGED distVars /\ UNCHANGED mSystemRunning
      BY <1>13, <2>5 DEF Finish
    <3> QED
      BY <1>2, <2>2, <3>1 DEF Books, EachComponentOnce, RunningIsDistributed
  <2> QED
    BY <2>3, <2>4, <2>5
<1>14. ASSUME NEW n \in Node, Register(n) PROVE Books'
  <2>1. /\ UNCHANGED <<systemVars, distVars>>
        /\ \/ UNCHANGED thr
           \/ \E op \in Registration :
                /\ thr' = [thr EXCEPT !["orb"] = Registering(op, n)]
                /\ op = "regAdopt" => ~mClientInteraction
    BY <1>14 DEF Register, Registration
  <2>2. CASE UNCHANGED thr
    BY <1>2, <2>1, <2>2 DEF Books, EachComponentOnce, RunningIsDistributed, InHand
  <2>3. ASSUME NEW op \in Registration, thr' = [thr EXCEPT !["orb"] = Registering(op, n)],
               op = "regAdopt" => ~mClientInteraction
        PROVE  Books'
    <3>1. thr'["dir"] = thr["dir"] /\ thr'["orb"] = Registering(op, n)
      BY <1>1, <2>3
    <3>2. Registering(op, n).op = op /\ Registering(op, n).at = "await"
      BY DEF Registering, Idle
    <3>3. InHand'
      BY <1>2, <2>1, <2>3, <3>1, <3>2 DEF InHand
    <3> QED
      BY <1>2, <2>1, <3>3 DEF Books, EachComponentOnce, RunningIsDistributed
  <2> QED
    BY <2>1, <2>2, <2>3
<1> QED
  BY <1>3, <1>4, <1>5, <1>6, <1>7, <1>8, <1>10, <1>11, <1>12, <1>13, <1>14, MoveOnSteps
     DEF Next, Client, OrbStep, Broadcast, Daemon

LEMMA Invariance == Spec => [](TypeOK /\ AwaitsDaemon /\ Books)
<1>1. Init => TypeOK /\ AwaitsDaemon /\ Books
  BY TypeInit, BooksInit DEF Init, AwaitsDaemon, Idle
<1>2. TypeOK /\ AwaitsDaemon /\ Books /\ [Next]_vars => (TypeOK /\ AwaitsDaemon /\ Books)'
  BY TypeNext, AwaitsNext, BooksNext
<1> QED
  BY <1>1, <1>2, PTL DEF Spec

\* In the distributor's books every component has exactly one node, for every
\* size of the system, every sequence of calls and any number of faults.
THEOREM OneNodeEach == Spec => []EachComponentOnce
BY Invariance, PTL DEF Books

\* A system said to run has been distributed.
THEOREM RunningMeansDistributed == Spec => []RunningIsDistributed
BY Invariance, PTL DEF Books

-----------------------------------------------------------------------------
(* What one step can do to the books.                                      *)

Keeps      == UNCHANGED <<mDistributed, mCompConfig, mDistState, mSystemRunning>>
Begins     == /\ UNCHANGED <<mDistributed, mCompConfig, mDistState>>
              /\ mDistributed = TRUE /\ mSystemRunning' = TRUE
              /\ thr["orb"].at = "send" /\ thr["orb"].op \in {"start", "regAdopt"}
Assigns    == /\ \E nodes \in SUBSET Node : Distribute(nodes, FALSE, FALSE)
              /\ mDistributed = FALSE /\ UNCHANGED mSystemRunning
Rebalances == /\ \E nodes \in SUBSET Node : Distribute(nodes, TRUE, FALSE)
              /\ mDistributed = TRUE /\ UNCHANGED mSystemRunning
Forces     == /\ \E nodes \in SUBSET Node : Distribute(nodes, TRUE, TRUE)
              /\ mDistributed = TRUE /\ UNCHANGED mSystemRunning
              /\ thr["orb"].op = "force"
Resets     == /\ mDistributed' = FALSE /\ mCompConfig' = NoShare /\ mDistState' = NoShare
              /\ mSystemRunning' = FALSE /\ thr["orb"].op = "stop"

LEMMA BookSteps ==
  ASSUME TypeOK, Books, [Next]_vars
  PROVE  Keeps \/ Begins \/ Assigns \/ Rebalances \/ Forces \/ Resets
<1> USE DEF distVars, systemVars
<1>1. /\ InHand /\ RunningIsDistributed
      /\ mDistributed \in BOOLEAN /\ mSystemRunning \in BOOLEAN
  BY DEF Books, TypeOK
<1>2. MovesOn => Keeps
  BY DEF MovesOn, Keeps
<1>3. CASE ClientStart
  <2>1. UNCHANGED mSystemRunning
    BY <1>3 DEF ClientStart
  <2>2. ASSUME NEW S, ~mDistributed,
               DistributeAndSend("orb", "start", Registered \ S, Registered \ S, FALSE, FALSE)
        PROVE  Keeps \/ Assigns
    <3>1. Registered \ S \in SUBSET Node
      BY DEF Registered
    <3> QED
      BY <1>1, <2>1, <2>2, <3>1 DEF DistributeAndSend, Keeps, Assigns
  <2> QED
    BY <1>3, <2>1, <2>2 DEF ClientStart, Keeps
<1>4. CASE Redistribute
  <2>1. UNCHANGED mSystemRunning /\ mDistributed = TRUE /\ thr["orb"].nodes \in SUBSET Node
    BY <1>1, <1>4 DEF Redistribute, InHand, TypeOK, Activity, Thread
  <2>2. CASE thr["orb"].op = "force"
    <3>1. DistributeAndSend("orb", "force", thr["orb"].nodes, Registered, TRUE, TRUE)
      BY <1>4, <2>2 DEF Redistribute
    <3> QED
      BY <2>1, <2>2, <3>1 DEF DistributeAndSend, Keeps, Forces
  <2>3. CASE thr["orb"].op # "force"
    <3>1. DistributeAndSend("orb", thr["orb"].op, thr["orb"].nodes, Registered, TRUE, FALSE)
      BY <1>4, <2>3 DEF Redistribute
    <3> QED
      BY <2>1, <3>1 DEF DistributeAndSend, Keeps, Rebalances
  <2> QED
    BY <2>2, <2>3
<1>5. CASE RegisterAdopt
  <2>1. UNCHANGED mSystemRunning /\ Registered \in SUBSET Node
    BY <1>5 DEF RegisterAdopt, Initialised, Registered
  <2> QED
    BY <1>1, <1>5, <2>1 DEF RegisterAdopt, DistributeAndSend, Keeps, Assigns
<1>6. CASE CheckDaemons
  <2>1. UNCHANGED mSystemRunning
    BY <1>6 DEF CheckDaemons, CleanAndRedistribute
  <2>2. ASSUME NEW S, mSystemRunning,
               DistributeAndSend("dir", "check", Registered \ S, Registered \ S, TRUE, FALSE)
        PROVE  Keeps \/ Rebalances
    <3>1. Registered \ S \in SUBSET Node /\ mDistributed = TRUE
      BY <1>1, <2>2 DEF Registered, RunningIsDistributed
    <3> QED
      BY <2>1, <2>2, <3>1 DEF DistributeAndSend, Keeps, Rebalances
  <2> QED
    BY <1>6, <2>1, <2>2 DEF CheckDaemons, CleanAndRedistribute, Keeps
<1>7. ASSUME NEW t \in Thread, Finish(t) PROVE Keeps \/ Begins \/ Resets
  BY <1>1, <1>7 DEF Finish, Sent, InHand, Thread, Keeps, Begins, Resets
<1>8. CASE \/ ClientStop \/ RegisterOne
           \/ \E op \in Ops : ClientReconfigure(op) \/ ClientRestart(op)
           \/ \E n \in Node : Register(n)
  BY <1>8 DEF ClientStop, RegisterOne, Initialised, ClientReconfigure, ClientRestart,
              Register, Keeps
<1> QED
  BY <1>2, <1>3, <1>4, <1>5, <1>6, <1>7, <1>8, MoveOnSteps
     DEF Next, Client, OrbStep, Broadcast, Daemon

\* Components that are not moveable stay where they are, in every step but a
\* forced redistribution or a stop.
THEOREM PinnedComponentsStay == Spec => PinnedStay
<1>1. ASSUME TypeOK, Books, [Next]_vars
      PROVE  \A c \in Comp \ Moveable, n \in Node :
               c \in mCompConfig[n] /\ c \notin mCompConfig'[n]
                 => thr["orb"].op \in {"force", "stop"}
  <2> SUFFICES ASSUME NEW c \in Comp \ Moveable, NEW n \in Node,
                      c \in mCompConfig[n], c \notin mCompConfig'[n]
               PROVE  thr["orb"].op \in {"force", "stop"}
    OBVIOUS
  <2>1. EachComponentOnce
    BY <1>1 DEF Books
  <2>2. CASE Keeps \/ Begins
    BY <2>2 DEF Keeps, Begins
  <2>3. CASE Assigns
    <3>1. mCompConfig = NoShare
      BY <2>1, <2>3 DEF Assigns, EachComponentOnce
    <3> QED
      BY <3>1 DEF NoShare
  <2>4. CASE Rebalances
    <3>1. PICK nodes \in SUBSET Node : Distribute(nodes, TRUE, FALSE)
      BY <2>4 DEF Rebalances
    <3>2. mDistributed = TRUE
      BY <2>4 DEF Rebalances
    <3>3. mCompConfig[n] \ Moveable \subseteq mCompConfig'[n]
      BY <1>1, <2>1, <3>1, <3>2, BooksKept
    <3> QED
      BY <3>3
  <2>5. CASE Forces \/ Resets
    BY <2>5 DEF Forces, Resets
  <2> QED
    BY <1>1, <2>2, <2>3, <2>4, <2>5, BookSteps
<1> QED
  BY <1>1, Invariance, PTL DEF Spec, PinnedStay

\* After a client's stop only a client's start makes the system run again.
THEOREM StopsAreFinal == Spec => StopIsFinal
<1>1. ASSUME TypeOK, Books, [Next]_vars
      PROVE  mClientInteraction /\ ~mSystemRunning /\ mSystemRunning'
               => thr["orb"].op = "start"
  <2>1. InHand
    BY <1>1 DEF Books
  <2> QED
    BY <1>1, <2>1, BookSteps
       DEF Keeps, Begins, Assigns, Rebalances, Forces, Resets, InHand
<1> QED
  BY <1>1, Invariance, PTL DEF Spec, StopIsFinal

-----------------------------------------------------------------------------
(* What SC_DirRemoteCtrls::mLock achieves for those that take it.          *)

LockInv ==
  /\ ~(Holds("orb") /\ Holds("dir"))
  /\ thr["orb"].op # "check"
  /\ thr["dir"].op \in {"none", "check"}
  /\ LockedShares

Sends(op) == CommandOf(op) \in {"_START", "_CONFIGURE"}

\* Thread t, alone with the lock, turns to something else, and whatever it
\* sends from now on is the distributor's latest.
LEMMA LockedStep ==
  ASSUME TypeOK, LockInv, NEW t \in Thread,
         \A u \in Thread \ {t} : ~Holds(u) /\ thr'[u] = thr[u],
         thr'[t].op \in Op,
         t = "orb" => thr'[t].op # "check",
         t = "dir" => thr'[t].op \in {"none", "check"},
         thr'[t].at = "send" /\ Sends(thr'[t].op) => thr'[t].plan = mDistState'
  PROVE  LockInv'
<1>1. CASE t = "orb"
  <2>1. Fresh("orb")'
    BY <1>1 DEF Fresh, Calling, Sends
  <2> QED
    BY <1>1, <2>1 DEF LockInv, Holds, Thread, LockedShares
<1>2. CASE t = "dir"
  BY <1>2 DEF LockInv, Holds, Thread, LockedShares
<1> QED
  BY <1>1, <1>2 DEF Thread

\* The same for a step without the lock; what it distributes is nothing that a
\* holder of the lock is sending.
LEMMA UnlockedStep ==
  ASSUME TypeOK, LockInv, NEW t \in Thread, t = "dir" => UNCHANGED mDistState,
         \A u \in Thread \ {t} : thr'[u] = thr[u],
         thr'[t].op \in Op,
         t = "orb" => thr'[t].op # "check",
         t = "dir" => thr'[t].op \in {"none", "check"},
         ~Holds(t)'
  PROVE  LockInv'
<1>1. CASE t = "orb"
  BY <1>1 DEF LockInv, Holds, Thread, LockedShares
<1>2. CASE t = "dir"
  <2>1. thr'["orb"] = thr["orb"] /\ mDistState' = mDistState
    BY <1>2 DEF Thread
  <2>2. Holds("orb") => Fresh("orb")'
    BY <2>1 DEF LockInv, LockedShares, Fresh, Calling
  <2> QED
    BY <1>2, <2>1, <2>2 DEF LockInv, Holds, Thread, LockedShares
<1> QED
  BY <1>1, <1>2 DEF Thread

LEMMA LockNext ==
  ASSUME TypeOK, Books, LockInv, [Next]_vars
  PROVE  LockInv'
<1> USE DEF distVars, systemVars
<1>1. thr \in [Thread -> Activity] /\ "orb" \in Thread /\ "dir" \in Thread /\ "orb" # "dir"
      /\ \A t \in Thread : t = "orb" \/ t = "dir"
  BY DEF TypeOK, Thread
<1>2. MovesOn => LockInv'
  <2> SUFFICES ASSUME MovesOn PROVE LockInv'
    OBVIOUS
  <2>1. ASSUME NEW t \in Thread, Holds(t)' PROVE Holds(t)
    BY <2>1 DEF MovesOn, Holds, Idle, Registration
  <2>2. LockedShares'
    <3>1. CASE thr'["orb"] = Idle
      BY <3>1 DEF LockedShares, Holds, Idle
    <3>3. CASE thr'["orb"].at \in {"ask", "join"}
      BY <3>3 DEF LockedShares, Fresh, Calling
    <3>2. CASE thr'["orb"] # Idle /\ thr'["orb"].at \notin {"ask", "join"}
      <4>1. /\ thr'["orb"].op = thr["orb"].op /\ thr'["orb"].at = thr["orb"].at
            /\ thr'["orb"].plan = thr["orb"].plan
            /\ thr'["orb"].nodes \subseteq thr["orb"].nodes
        BY <1>1, <3>2 DEF MovesOn
      <4>2. Fresh("orb") => Fresh("orb")'
        BY <4>1 DEF Fresh, Calling, MovesOn
      <4> QED
        BY <1>1, <2>1, <4>2 DEF LockInv, LockedShares
    <3> QED
      BY <3>1, <3>2, <3>3
  <2> QED
    BY <1>1, <2>1, <2>2 DEF LockInv, MovesOn, Idle
<1>3. CASE ClientStart
  <2>1. LockFree
    BY <1>3 DEF ClientStart
  <2>2. CASE UNCHANGED <<distVars, thr>>
    BY <2>2 DEF LockInv, Holds, LockedShares, Fresh, Calling
  <2>3. ASSUME NEW S,
               DistributeAndSend("orb", "start", Registered \ S, Registered \ S, FALSE, FALSE)
        PROVE  LockInv'
    <3>1. "start" \in Op /\ Registered \ S \in SUBSET Node
      BY DEF Op, AllOps, Registered
    <3>2. /\ \A u \in Thread \ {"orb"} : thr'[u] = thr[u]
          /\ thr'["orb"].op = "start"
          /\ thr'["orb"].at = "send" => thr'["orb"].plan = mDistState'
      BY <1>1, <2>3, <3>1, DistributesAndSends
    <3> QED
      BY <1>1, <2>1, <3>1, <3>2, LockedStep DEF LockFree
  <2> QED
    BY <1>3, <2>2, <2>3 DEF ClientStart
<1>4. CASE ClientStop
  <2>1. LockFree /\ UNCHANGED distVars
    BY <1>4 DEF ClientStop
  <2>2. /\ thr'["orb"].op = "stop" /\ "stop" \in Op /\ ~Sends("stop")
        /\ thr'["dir"] = thr["dir"]
    BY <1>1, <1>4 DEF ClientStop, Doing, Idle, Op, AllOps, Sends, CommandOf
  <2> QED
    BY <1>1, <2>1, <2>2, LockedStep DEF LockFree
<1>5. ASSUME NEW op \in Ops, ClientReconfigure(op) PROVE LockInv'
  <2>1. op \in {"reconfigure", "force"}
    BY <1>5 DEF ClientReconfigure
  <2>2. /\ thr'["orb"].op = op /\ thr'["dir"] = thr["dir"]
        /\ op \in Op /\ ~Holds("orb")'
    BY <1>1, <1>5, <2>1 DEF ClientReconfigure, Doing, Idle, Op, AllOps, Holds, Registration
  <2> QED
    BY <1>1, <2>1, <2>2, UnlockedStep
<1>6. CASE Redistribute
  <2>1. thr["orb"].at = "distribute" /\ thr["orb"].op \in {"reconfigure", "force"}
        /\ thr["orb"].op \in Op
    BY <1>6 DEF Redistribute, Books, InHand, Op, AllOps
  <2>2. PICK S, R \in SUBSET Node :
          DistributeAndSend("orb", thr["orb"].op, S, R, TRUE, thr["orb"].op = "force")
    <3>1. thr["orb"].nodes \in SUBSET Node /\ Registered \in SUBSET Node
      BY <1>1 DEF Activity, Registered
    <3> QED
      BY <1>6, <3>1 DEF Redistribute
  <2>3. /\ \A u \in Thread \ {"orb"} : thr'[u] = thr[u]
        /\ thr'["orb"].op = thr["orb"].op
    BY <1>1, <2>1, <2>2, DistributesAndSends
  <2>4. ~Holds("orb")'
    BY <2>1, <2>3 DEF Holds, Registration
  <2> QED
    BY <1>1, <2>1, <2>3, <2>4, UnlockedStep
<1>7. ASSUME NEW op \in Ops, ClientRestart(op) PROVE LockInv'
  <2>1. op \in {"restart", "failstart"} /\ UNCHANGED distVars
    BY <1>7 DEF ClientRestart
  <2>2. /\ thr'["orb"].op = op /\ thr'["dir"] = thr["dir"]
        /\ op \in Op /\ ~Sends(op) /\ ~Holds("orb")'
    BY <1>1, <1>7, <2>1 DEF ClientRestart, Doing, Idle, Op, AllOps, Sends, CommandOf, Holds,
          Registration
  <2> QED
    BY <1>1, <2>1, <2>2, UnlockedStep
<1>9. CASE RegisterOne
  <2>1. /\ UNCHANGED distVars /\ Holds("orb")
        /\ thr["orb"].op \in Registration
    BY <1>9 DEF RegisterOne, Initialised, Holds, Registration
  <2>2. /\ thr'["orb"].op = thr["orb"].op /\ thr'["dir"] = thr["dir"]
        /\ thr'["orb"].plan = mDistState
    <3>1. thr' = [thr EXCEPT !["orb"] = [thr["orb"] EXCEPT
                    !.at = "send", !.nodes = {thr["orb"].who}, !.plan = mDistState]]
      BY <1>1, <1>9 DEF RegisterOne
    <3> QED
      BY <1>1, <3>1 DEF Activity
  <2>3. ~Holds("dir")
    BY <2>1 DEF LockInv
  <2> QED
    BY <1>1, <2>1, <2>2, <2>3, LockedStep DEF Op, Registration
<1>10. CASE RegisterAdopt
  <2>1. Holds("orb") /\ ~Holds("dir")
    BY <1>10 DEF RegisterAdopt, Initialised, Holds, Registration, LockInv
  <2>2. CASE thr' = [thr EXCEPT !["orb"] = Idle] /\ UNCHANGED distVars
    BY <1>1, <2>1, <2>2, LockedStep DEF Idle, Op
  <2>3. CASE DistributeAndSend("orb", "regAdopt", Registered, Registered, FALSE, FALSE)
    <3>1. "regAdopt" \in Op /\ Registered \in SUBSET Node
      BY DEF Op, Registration, Registered
    <3>2. /\ \A u \in Thread \ {"orb"} : thr'[u] = thr[u]
          /\ thr'["orb"].op = "regAdopt"
          /\ thr'["orb"].at = "send" => thr'["orb"].plan = mDistState'
      BY <1>1, <2>3, <3>1, DistributesAndSends
    <3> QED
      BY <1>1, <2>1, <3>1, <3>2, LockedStep
  <2> QED
    BY <1>10, <2>2, <2>3 DEF RegisterAdopt
<1>11. CASE CheckDaemons
  <2>1. LockFree
    BY <1>11 DEF CheckDaemons, CleanAndRedistribute
  <2>2. CASE UNCHANGED <<thr, distVars>>
    BY <2>2 DEF LockInv, Holds, LockedShares, Fresh, Calling
  <2>3. ASSUME NEW S,
               DistributeAndSend("dir", "check", Registered \ S, Registered \ S, TRUE, FALSE)
        PROVE  LockInv'
    <3>1. "check" \in Op /\ Registered \ S \in SUBSET Node
      BY DEF Op, Registered
    <3>2. /\ \A u \in Thread \ {"dir"} : thr'[u] = thr[u]
          /\ thr'["dir"].op = "check"
          /\ thr'["dir"].at = "send" => thr'["dir"].plan = mDistState'
      BY <1>1, <2>3, <3>1, DistributesAndSends
    <3> QED
      BY <1>1, <2>1, <3>1, <3>2, LockedStep DEF LockFree
  <2> QED
    BY <1>11, <2>2, <2>3 DEF CheckDaemons, CleanAndRedistribute
<1>12. ASSUME NEW t \in Thread, Finish(t) PROVE LockInv'
  <2>1. thr' = [thr EXCEPT ![t] = Idle] /\ thr[t].at = "send"
    BY <1>12 DEF Finish, Sent
  <2>2. CASE thr[t].op = "stop"
    <3>1. Holds(t) /\ \A u \in Thread \ {t} : ~Holds(u)
      BY <1>1, <2>1, <2>2 DEF Holds, LockInv
    <3> QED
      BY <1>1, <2>1, <3>1, LockedStep DEF Idle, Op
  <2>3. CASE thr[t].op # "stop"
    <3>1. UNCHANGED mDistState
      BY <1>12, <2>3 DEF Finish
    <3>2. ~Holds(t)'
      BY <1>1, <2>1 DEF Holds, Idle
    <3> QED
      BY <1>1, <2>1, <3>1, <3>2, UnlockedStep DEF Idle, Op
  <2> QED
    BY <2>2, <2>3
<1>13. ASSUME NEW n \in Node, Register(n) PROVE LockInv'
  <2>1. /\ UNCHANGED distVars /\ LockFree
        /\ \/ UNCHANGED thr
           \/ \E op \in Registration : thr' = [thr EXCEPT !["orb"] = Registering(op, n)]
    BY <1>13 DEF Register, Registration
  <2>2. CASE UNCHANGED thr
    BY <2>1, <2>2 DEF LockInv, Holds, LockedShares, Fresh, Calling
  <2>3. ASSUME NEW op \in Registration, thr' = [thr EXCEPT !["orb"] = Registering(op, n)]
        PROVE  LockInv'
    <3>1. Registering(op, n).op = op /\ Registering(op, n).at = "await"
      BY DEF Registering, Idle
    <3> QED
      BY <1>1, <2>1, <2>3, <3>1, LockedStep DEF LockFree, Op, Registration
  <2> QED
    BY <2>1, <2>2, <2>3
<1> QED
  BY <1>2, <1>3, <1>4, <1>5, <1>6, <1>7, <1>9, <1>10, <1>11, <1>12, <1>13, MoveOnSteps
     DEF Next, Client, OrbStep, Broadcast, Daemon

\* What is sent under the lock is the distributor's latest, also while a client's
\* reconfiguration distributes without it.
THEOREM SharesAreFresh == Spec => []LockedShares
<1>1. Init => LockInv
  BY DEF Init, LockInv, Holds, LockedShares, Thread, Idle
<1>2. TypeOK /\ Books /\ LockInv /\ [Next]_vars => LockInv'
  BY LockNext
<1>3. LockInv => LockedShares
  BY DEF LockInv
<1> QED
  BY <1>1, <1>2, <1>3, Invariance, PTL DEF Spec

-----------------------------------------------------------------------------
(* The director implements Assignment.                                     *)

OwnerOf(c) == CHOOSE n \in Node : c \in mCompConfig[n]

LEMMA OwnerUnique ==
  ASSUME TypeOK, EachComponentOnce, mDistributed = TRUE, NEW c \in Comp
  PROVE  /\ OwnerOf(c) \in Node
         /\ \A n \in Node : c \in mCompConfig[n] <=> n = OwnerOf(c)
<1>1. PICK n \in Node : \A m \in Node : c \in mCompConfig[m] <=> m = n
  BY DEF EachComponentOnce
<1> QED
  BY <1>1 DEF OwnerOf

LEMMA OwnerValue ==
  /\ mDistributed = TRUE => Owner = [c \in Comp |-> OwnerOf(c)]
  /\ mDistributed = FALSE => Owner = [c \in Comp |-> NoNode]
BY DEF Owner, OwnerOf

\* After a step that distributes, every component has an owner.
LEMMA OwnersAfter ==
  ASSUME TypeOK', EachComponentOnce', mDistributed' = TRUE
  PROVE  /\ Owner' \in [Comp -> Node]
         /\ \A c \in Comp, n \in Node : c \in mCompConfig'[n] <=> n = Owner'[c]
<1>1. ASSUME NEW c \in Comp
      PROVE  /\ OwnerOf(c)' \in Node
             /\ \A n \in Node : c \in mCompConfig'[n] <=> n = OwnerOf(c)'
  <2>1. PICK n \in Node : \A m \in Node : c \in mCompConfig'[m] <=> m = n
    BY DEF EachComponentOnce
  <2> QED
    BY <2>1 DEF OwnerOf
<1>2. Owner' = [c \in Comp |-> OwnerOf(c)']
  BY DEF Owner, OwnerOf
<1> QED
  BY <1>1, <1>2

\* Every step of the director is a step of Assignment or changes nothing there.
THEOREM AssignmentImplemented == Spec => ImplementsAssignment
<1>1. Init => A!Init
  BY DEF Init, A!Init, Owner
<1>2. ASSUME TypeOK, Books, TypeOK', Books', [Next]_vars
      PROVE  [A!Next]_(A!vars)
  <2> USE DEF A!Next, A!vars
  <2>1. EachComponentOnce /\ EachComponentOnce'
    BY <1>2 DEF Books
  <2>2. CASE Keeps
    BY <2>2 DEF Keeps, Owner
  <2>3. CASE Begins
    <3>1. Owner' = Owner
      BY <2>3 DEF Begins, Owner
    <3> QED
      BY <2>3, <3>1 DEF Begins, A!Begin
  <2>4. CASE Assigns
    <3>1. mDistributed' = TRUE
      BY <2>4 DEF Assigns, Distribute
    <3>2. Owner' \in [Comp -> Node]
      BY <1>2, <2>1, <3>1, OwnersAfter
    <3> QED
      BY <2>4, <3>1, <3>2 DEF Assigns, A!Assign
  <2>5. CASE Rebalances
    <3>1. PICK nodes \in SUBSET Node : Distribute(nodes, TRUE, FALSE)
      BY <2>5 DEF Rebalances
    <3>2. mDistributed = TRUE /\ mDistributed' = TRUE
      BY <2>5, <3>1 DEF Rebalances, Distribute
    <3>3. Owner' \in [Comp -> Node]
      BY <1>2, <2>1, <3>2, OwnersAfter
    <3>4. \A n \in Node : mCompConfig[n] \ Moveable \subseteq mCompConfig'[n]
      BY <1>2, <2>1, <3>1, <3>2, BooksKept
    <3>5. ASSUME NEW c \in Comp \ Moveable PROVE Owner'[c] = Owner[c]
      <4>1. OwnerOf(c) \in Node /\ c \in mCompConfig[OwnerOf(c)]
        BY <1>2, <2>1, <3>2, OwnerUnique
      <4>2. c \in mCompConfig'[OwnerOf(c)]
        BY <3>4, <4>1
      <4>3. Owner'[c] = OwnerOf(c)
        BY <1>2, <2>1, <3>2, <4>1, <4>2, OwnersAfter
      <4> QED
        BY <3>2, <4>3, OwnerValue
    <3> QED
      BY <2>5, <3>2, <3>3, <3>5 DEF Rebalances, A!Rebalance
  <2>6. CASE Forces
    <3>1. mDistributed' = TRUE
      BY <2>6 DEF Forces, Distribute
    <3>2. Owner' \in [Comp -> Node]
      BY <1>2, <2>1, <3>1, OwnersAfter
    <3> QED
      BY <2>6, <3>1, <3>2 DEF Forces, A!Force
  <2>7. CASE Resets
    BY <2>7 DEF Resets, A!Reset, Owner
  <2> QED
    BY <1>2, <2>2, <2>3, <2>4, <2>5, <2>6, <2>7, BookSteps
<1> QED
  BY <1>1, <1>2, Invariance, PTL DEF Spec, ImplementsAssignment, A!Spec

-----------------------------------------------------------------------------
(* What a daemon comes to when it works off its queue.                     *)

View == [running : BOOLEAN, procs : SUBSET Comp]

\* What a daemon comes to by one command.
Turn(v, c) ==
  CASE c.cmd = "_START"     -> [running |-> TRUE,
                                procs |-> IF v.running THEN v.procs ELSE v.procs \cup c.cfg]
    [] c.cmd = "_CONFIGURE" -> [v EXCEPT !.procs = IF v.running THEN c.cfg ELSE @]
    [] c.cmd = "_STOP"      -> [running |-> FALSE,
                                procs |-> IF v.running THEN {} ELSE v.procs]
    [] OTHER                -> v

\* Some course of turns, one for each command of q, leads from v to w.
Ends(q, v, w) ==
  \E s \in [0 .. Len(q) -> View] :
    /\ s[0] = v /\ s[Len(q)] = w
    /\ \A i \in 1 .. Len(q) : s[i] = Turn(s[i - 1], q[i])

LEMMA TurnType ==
  ASSUME NEW v \in View, NEW c \in Command
  PROVE  Turn(v, c) \in View
BY DEF Turn, View, Command

LEMMA EndsNow ==
  ASSUME NEW v \in View
  PROVE  Ends(<<>>, v, v) /\ \A w : Ends(<<>>, v, w) => v = w
<1>1. Len(<< >>) = 0
  OBVIOUS
<1>2. Ends(<<>>, v, v)
  <2>1. [i \in 0 .. 0 |-> v] \in [0 .. 0 -> View] /\ [i \in 0 .. 0 |-> v][0] = v
    OBVIOUS
  <2>2. 1 .. 0 = {}
    OBVIOUS
  <2> QED BY <1>1, <2>1, <2>2 DEF Ends
<1> QED BY <1>1, <1>2 DEF Ends

\* A turn takes the daemon nearer to where it comes to.
LEMMA EndsOn ==
  ASSUME NEW q \in Seq(Command), q # <<>>, NEW v, NEW w, Ends(q, v, w)
  PROVE  Ends(Tail(q), Turn(v, Head(q)), w)
<1>1. PICK s \in [0 .. Len(q) -> View] :
        /\ s[0] = v /\ s[Len(q)] = w
        /\ \A i \in 1 .. Len(q) : s[i] = Turn(s[i - 1], q[i])
  BY DEF Ends
<1>2. /\ Len(q) \in Nat /\ Len(q) >= 1 /\ Len(Tail(q)) = Len(q) - 1 /\ Head(q) = q[1]
      /\ \A i \in 1 .. Len(q) - 1 : Tail(q)[i] = q[i + 1]
  OBVIOUS
<1> DEFINE n == Len(q)
           t == [i \in 0 .. n - 1 |-> s[i + 1]]
<1>3. n \in Nat /\ n >= 1
  BY <1>2
<1>4. t \in [0 .. n - 1 -> View]
  <2>1. \A i \in 0 .. n - 1 : i + 1 \in 0 .. n
    BY <1>3
  <2> QED BY <1>1, <2>1
<1>5. t[0] = Turn(v, Head(q)) /\ t[n - 1] = w
  <2>1. 0 \in 0 .. n - 1 /\ n - 1 \in 0 .. n - 1 /\ (n - 1) + 1 = n /\ 0 + 1 = 1
        /\ 1 \in 1 .. n /\ 1 - 1 = 0
    BY <1>3
  <2> QED BY <1>1, <1>2, <2>1
<1>6. ASSUME NEW i \in 1 .. n - 1
      PROVE  t[i] = Turn(t[i - 1], Tail(q)[i])
  <2>1. i \in 0 .. n - 1 /\ i - 1 \in 0 .. n - 1 /\ (i - 1) + 1 = i
        /\ i + 1 \in 1 .. n /\ (i + 1) - 1 = i
    BY <1>3
  <2> QED BY <1>1, <1>2, <2>1
<1> HIDE DEF t
<1> QED BY <1>2, <1>4, <1>5, <1>6 DEF Ends

\* A command more comes last.
LEMMA EndsMore ==
  ASSUME NEW q \in Seq(Command), NEW c \in Command, NEW v, NEW w, Ends(q, v, w)
  PROVE  Ends(Append(q, c), v, Turn(w, c))
<1>1. PICK s \in [0 .. Len(q) -> View] :
        /\ s[0] = v /\ s[Len(q)] = w
        /\ \A i \in 1 .. Len(q) : s[i] = Turn(s[i - 1], q[i])
  BY DEF Ends
<1> DEFINE n == Len(q)
           t == [i \in 0 .. n + 1 |-> IF i = n + 1 THEN Turn(w, c) ELSE s[i]]
<1>2. /\ n \in Nat /\ Len(Append(q, c)) = n + 1 /\ Append(q, c)[n + 1] = c
      /\ \A i \in 1 .. n : Append(q, c)[i] = q[i]
  OBVIOUS
<1>3. w \in View /\ Turn(w, c) \in View
  BY <1>1, <1>2, TurnType
<1>4. t \in [0 .. n + 1 -> View]
  <2>1. \A i \in 0 .. n + 1 : i # n + 1 => i \in 0 .. n
    BY <1>2
  <2> QED BY <1>1, <1>3, <2>1
<1>5. t[0] = v /\ t[n + 1] = Turn(w, c)
  <2>1. 0 \in 0 .. n + 1 /\ n + 1 \in 0 .. n + 1 /\ 0 # n + 1
    BY <1>2
  <2> QED BY <1>1, <2>1
<1>6. ASSUME NEW i \in 1 .. n + 1
      PROVE  t[i] = Turn(t[i - 1], Append(q, c)[i])
  <2>1. i \in 0 .. n + 1 /\ i - 1 \in 0 .. n + 1 /\ i - 1 # n + 1
    BY <1>2
  <2>2. CASE i = n + 1
    <3>1. (n + 1) - 1 = n
      BY <1>2
    <3> QED BY <1>1, <1>2, <2>1, <2>2, <3>1
  <2>3. CASE i # n + 1
    <3>1. i \in 1 .. n
      BY <1>2, <2>3
    <3> QED BY <1>1, <1>2, <2>1, <2>3, <3>1
  <2> QED BY <2>2, <2>3
<1> HIDE DEF t
<1> QED BY <1>2, <1>4, <1>5, <1>6 DEF Ends

-----------------------------------------------------------------------------
(* What the director and the daemons believe, without faults.              *)

\* What n comes to when it has worked off its queue.
ViewOf(n) == [running |-> mAppRunning[n], procs |-> mProcs[n]]
Comes(n, w) == Ends(mStateQueue[n], ViewOf(n), w)

Stopped == [running |-> FALSE, procs |-> {}]

\* What the director believes of n.
Believed(n) == IF mSystemRunning THEN [running |-> TRUE, procs |-> mDistState[n]]
               ELSE Stopped

\* Without faults and before a shutdown.
Calm == director = "running" /\ faults = 0 /\ thr["orb"].op # "shutdown"

Newcomer == IF thr["orb"].op = "regStart" /\ thr["orb"].live THEN {thr["orb"].who} ELSE {}

\* The daemons the call in hand has still to reach, ...
Unsent == IF thr["orb"].at = "await" THEN Newcomer ELSE thr["orb"].nodes

\* ... what they come to without it, and what those come to that it has reached.
Before(n, w) ==
  CASE thr["orb"].op = "start" \/ n \in Newcomer    -> w = Stopped
    [] thr["orb"].op \in {"reconfigure", "force"}   -> w.running
    [] OTHER                                        -> w = Believed(n)
After(n) ==
  CASE thr["orb"].op = "start" -> [running |-> TRUE, procs |-> mDistState[n]]
    [] thr["orb"].op = "stop"  -> Stopped
    [] OTHER                   -> Believed(n)

InStep(n) == IF n \in Unsent THEN \E w \in View : Before(n, w) /\ Comes(n, w)
             ELSE Comes(n, After(n))

Course ==
  LET a == thr["orb"] IN
    \/ a.op = "none" /\ a.at = "idle" /\ a.nodes = {}
    \/ a.op = "start" /\ a.at = "send" /\ ~mSystemRunning
    \/ a.op \in {"stop", "restart", "failstart"} /\ a.at = "send"
    \/ a.op = "status" /\ a.at = "ask"
    \/ a.op \in {"reconfigure", "force"} /\ a.at \in {"distribute", "send"} /\ mSystemRunning
    \/ /\ a.op = "regStart" /\ a.at \in {"await", "send"} /\ mSystemRunning
       /\ a.live /\ a.who \in Registered /\ phase[a.who] = "registering"
       /\ a.nodes \subseteq {a.who}

\* Where the daemons and the other thread are meanwhile.
Places ==
  /\ up = Node /\ thr["dir"].at = "idle"
  /\ \A n \in Node :
       /\ ctrl[n] \in {"none", "starting", "ready"}
       /\ phase[n] = "heartbeat" => n \in Registered
       /\ phase[n] = "registering" => n \notin Registered \/ n \in Newcomer
       /\ n \notin Registered => /\ mStateQueue[n] = <<>>
                                 /\ ~mAppRunning[n] /\ mProcs[n] = {}

Promise ==
  /\ Course /\ thr["orb"].nodes \subseteq Registered
  /\ thr["orb"].at = "send" /\ CommandOf(thr["orb"].op) \in {"_START", "_CONFIGURE"}
       => thr["orb"].plan = mDistState
  /\ \A n \in Registered : InStep(n)

Accord == Places /\ (thr["orb"].at = "spin" \/ Promise)

\* Once a shutdown has begun, the director never runs again.
ShutsDown == thr["orb"].op = "shutdown" => thr["orb"].at = "join"

LEMMA ViewTypes ==
  ASSUME TypeOK, NEW n \in Node
  PROVE  ViewOf(n) \in View /\ Stopped \in View /\ Believed(n) \in View /\ After(n) \in View
BY DEF TypeOK, Share, ViewOf, View, Stopped, Believed, After

LEMMA ComesKept ==
  ASSUME UNCHANGED <<mAppRunning, mStateQueue, mProcs>>, NEW n, NEW w
  PROVE  Comes(n, w)' <=> Comes(n, w)
BY DEF Comes, ViewOf

LEMMA PlacesKept ==
  ASSUME Places, UNCHANGED <<daemonVars, ctrl>>, thr'["dir"].at = "idle",
         Newcomer \subseteq Newcomer'
  PROVE  Places' /\ Registered' = Registered
BY DEF Places, daemonVars, Registered

LEMMA NoneDead ==
  ASSUME TypeOK, Places
  PROVE  /\ Dead = {} /\ \A S \in Erasures(Dead) : S = {}
         /\ Without({}) = ctrl
BY DEF TypeOK, Places, Dead, Erasures, Without

\* Between calls every daemon comes to what the director believes of it.
LEMMA AtRest ==
  ASSUME TypeOK, Accord, thr["orb"].at = "idle"
  PROVE  /\ Newcomer = {} /\ Registered = {n \in Node : phase[n] = "heartbeat"}
         /\ \A n \in Registered : Comes(n, Believed(n))
<1>1. thr["orb"].op = "none" /\ thr["orb"].nodes = {} /\ Promise
  BY DEF Accord, Promise, Course
<1>2. Newcomer = {}
  BY <1>1 DEF Newcomer
<1>3. ASSUME NEW n \in Node
      PROVE  n \in Registered <=> phase[n] = "heartbeat"
  BY <1>2 DEF Accord, Places, Registered, TypeOK, Phase
<1>4. ASSUME NEW n \in Registered
      PROVE  Comes(n, Believed(n))
  BY <1>1, <1>2 DEF Promise, InStep, Unsent, After
<1> QED BY <1>2, <1>3, <1>4 DEF Registered

\* What DistributeAndSend leaves the remote call with.
LEMMA SendsTo ==
  ASSUME TypeOK, NEW op, NEW nodes, NEW targets \in SUBSET Node, NEW redistribute, NEW force,
         DistributeAndSend("orb", op, nodes, targets, redistribute, force)
  PROVE  /\ thr'["dir"] = thr["dir"] /\ thr'["orb"].op = op
         /\ \/ thr'["orb"].at = "spin"
            \/ /\ thr'["orb"].at = "send" /\ thr'["orb"].nodes = targets
               /\ thr'["orb"].plan = mDistState'
<1>1. thr \in [Thread -> Activity] /\ "orb" \in Thread /\ "dir" \in Thread /\ "orb" # "dir"
  BY DEF TypeOK, Thread
<1>2. \/ thr' = [thr EXCEPT !["orb"] = Doing(op, "spin", {}, NoShare)]
      \/ thr' = [thr EXCEPT !["orb"] = [Doing(op, "send", targets, mDistState')
                   EXCEPT !.who = thr["orb"].who, !.live = thr["orb"].live]]
  BY DEF DistributeAndSend
<1> QED BY <1>1, <1>2 DEF Doing, Idle

\* A call turns to the daemons: what has been promised without it still holds.
LEMMA CallBegins ==
  ASSUME TypeOK, Accord, UNCHANGED <<daemonVars, ctrl>>,
         thr'["dir"] = thr["dir"], Newcomer = {},
         \/ thr'["orb"].at = "spin"
         \/ /\ \A n \in Registered : InStep(n)'
            /\ Course' /\ thr'["orb"].nodes \subseteq Registered
            /\ thr'["orb"].at = "send" /\ CommandOf(thr'["orb"].op) \in {"_START", "_CONFIGURE"}
                 => thr'["orb"].plan = mDistState'
  PROVE  Accord'
<1>1. Places' /\ Registered' = Registered
  BY PlacesKept DEF Accord, Places
<1> QED BY <1>1 DEF Accord, Promise

LEMMA AccordKept ==
  ASSUME Accord, UNCHANGED <<daemonVars, ctrl, thr, mSystemRunning, mDistState>>
  PROVE  Accord'
<1> USE DEF daemonVars
<1>1. UNCHANGED <<Registered, Newcomer, Unsent>> /\ Course' = Course
  BY DEF Registered, Newcomer, Unsent, Course
<1>2. ASSUME NEW n
      PROVE  InStep(n)' <=> InStep(n)
  BY <1>1 DEF InStep, Before, After, Believed, Comes, ViewOf
<1>3. Places'
  BY <1>1 DEF Accord, Places
<1> QED BY <1>1, <1>2, <1>3 DEF Accord, Promise

\* What is at rest when a client calls.
LEMMA ClientCalls ==
  ASSUME TypeOK, Accord, NEW op, Request(op)
  PROVE  /\ thr["orb"].at = "idle" /\ UNCHANGED daemonVars
         /\ Newcomer = {} /\ Registered \subseteq Node
         /\ \A n \in Registered : Comes(n, Believed(n))
         /\ \A n, w : Comes(n, w)' <=> Comes(n, w)
<1>1. thr["orb"].at = "idle" /\ UNCHANGED daemonVars
  BY DEF Request, Called
<1> QED BY <1>1, AtRest, ComesKept DEF Registered, daemonVars

LEMMA StartAccords ==
  ASSUME TypeOK, Accord, ClientStart
  PROVE  Accord'
<1>1. /\ UNCHANGED <<daemonVars, ctrl, mSystemRunning>> /\ Request("start")
      /\ \/ UNCHANGED <<mDistState, thr>>
         \/ /\ ~mSystemRunning
            /\ DistributeAndSend("orb", "start", Registered, Registered, FALSE, FALSE)
  <2>1. Dead = {} /\ (\A S \in Erasures(Dead) : S = {}) /\ Without({}) = ctrl
    BY NoneDead DEF Accord
  <2>2. PICK S \in Erasures(Dead) :
          /\ ctrl' = Without(S)
          /\ \/ /\ ~mSystemRunning /\ ~mDistributed
                /\ DistributeAndSend("orb", "start", Registered \ S,
                                     Registered \ S, FALSE, FALSE)
             \/ UNCHANGED <<distVars, thr>>
    BY DEF ClientStart
  <2>3. S = {} /\ Registered \ S = Registered
    BY <2>1
  <2> QED BY <2>1, <2>2, <2>3 DEF ClientStart, distVars, Request, Called
<1>2. CASE UNCHANGED <<mDistState, thr>>
  BY <1>1, <1>2, AccordKept
<1>3. CASE /\ ~mSystemRunning
           /\ DistributeAndSend("orb", "start", Registered, Registered, FALSE, FALSE)
  <2>1. /\ Newcomer = {} /\ Registered \subseteq Node
        /\ \A n \in Registered : Comes(n, Believed(n))
        /\ \A n, w : Comes(n, w)' <=> Comes(n, w)
    BY <1>1, ClientCalls
  <2>2. /\ thr'["dir"] = thr["dir"] /\ thr'["orb"].op = "start"
        /\ \/ thr'["orb"].at = "spin"
           \/ /\ thr'["orb"].at = "send" /\ thr'["orb"].nodes = Registered
              /\ thr'["orb"].plan = mDistState'
    BY <1>3, <2>1, SendsTo
  <2>3. ASSUME thr'["orb"].at = "send", thr'["orb"].nodes = Registered
        PROVE  Course' /\ \A n \in Registered : InStep(n)'
    <3>1. Course' /\ Unsent' = Registered
      BY <1>1, <1>3, <2>2, <2>3 DEF Course, Unsent
    <3>2. ASSUME NEW n \in Registered
          PROVE  InStep(n)'
      <4>1. Comes(n, Stopped)' /\ Stopped \in View
        BY <1>3, <2>1, ViewTypes DEF Believed
      <4>2. Before(n, Stopped)'
        BY <2>2 DEF Before
      <4> QED BY <3>1, <4>1, <4>2 DEF InStep
    <3> QED BY <3>1, <3>2
  <2> QED BY <1>1, <2>1, <2>2, <2>3, CallBegins
<1> QED BY <1>1, <1>2, <1>3, Zenon

\* A stop, a restart or a status goes to all that are registered.
LEMMA TellsAll ==
  ASSUME TypeOK, Accord, NEW op \in {"stop", "restart", "failstart", "status"}, NEW at,
         at = IF op = "status" THEN "ask" ELSE "send", Request(op),
         UNCHANGED <<ctrl, mSystemRunning, mDistState>>,
         thr' = [thr EXCEPT !["orb"] = Doing(op, at, Registered, NoShare)]
  PROVE  Accord'
<1>1. /\ Newcomer = {} /\ Registered \subseteq Node /\ UNCHANGED daemonVars
      /\ \A n \in Registered : Comes(n, Believed(n))
      /\ \A n, w : Comes(n, w)' <=> Comes(n, w)
  BY ClientCalls
<1>2. /\ thr'["dir"] = thr["dir"] /\ thr'["orb"].op = op /\ thr'["orb"].at = at
      /\ thr'["orb"].nodes = Registered
  BY DEF TypeOK, Thread, Doing, Idle
<1>3. Course' /\ Unsent' = Registered /\ Newcomer' = {}
  BY <1>2 DEF Course, Unsent, Newcomer
<1>4. ASSUME NEW n \in Registered
      PROVE  InStep(n)'
  <2>1. Believed(n)' = Believed(n) /\ Believed(n) \in View
    BY <1>1, ViewTypes DEF Believed, Stopped
  <2>2. Before(n, Believed(n))'
    BY <1>2, <1>3 DEF Before
  <2> QED BY <1>1, <1>3, <2>1, <2>2 DEF InStep
<1>5. CommandOf(op) \notin {"_START", "_CONFIGURE"}
  BY DEF CommandOf
<1> QED BY <1>1, <1>2, <1>3, <1>4, <1>5, CallBegins

LEMMA ClientAccords ==
  ASSUME TypeOK, Accord, Client, Calm'
  PROVE  Accord'
<1>0. (\A S \in Erasures(Dead) : S = {}) /\ Without({}) = ctrl /\ Registered \ {} = Registered
  BY NoneDead DEF Accord
<1>1. ASSUME ClientStop
      PROVE  Accord'
  <2>1. PICK S \in Erasures(Dead) :
          /\ ctrl' = Without(S)
          /\ thr' = [thr EXCEPT !["orb"] = Doing("stop", "send", Registered \ S, NoShare)]
    BY <1>1 DEF ClientStop
  <2>2. S = {}
    BY <1>0
  <2> QED BY <1>0, <1>1, <2>1, <2>2, TellsAll DEF ClientStop, distVars
<1>2. ASSUME NEW op \in Ops, ClientRestart(op)
      PROVE  Accord'
  BY <1>2, TellsAll DEF ClientRestart, systemVars, distVars
<1>3. ASSUME NEW op \in Ops, ClientReconfigure(op)
      PROVE  Accord'
  <2>1. PICK S \in Erasures(Dead) :
          /\ ctrl' = Without(S)
          /\ thr' = [thr EXCEPT !["orb"] = Doing(op, "distribute", Registered \ S, NoShare)]
    BY <1>3 DEF ClientReconfigure
  <2>2. ctrl' = ctrl /\ thr' = [thr EXCEPT !["orb"] = Doing(op, "distribute", Registered, NoShare)]
    BY <1>0, <2>1
  <2>3. /\ thr'["dir"] = thr["dir"] /\ thr'["orb"].op = op /\ thr'["orb"].at = "distribute"
        /\ thr'["orb"].nodes = Registered
    BY <2>2 DEF TypeOK, Thread, Doing, Idle
  <2>4. /\ Request(op) /\ mSystemRunning /\ op \in {"reconfigure", "force"}
        /\ UNCHANGED <<mSystemRunning, mDistState>>
    BY <1>3 DEF ClientReconfigure, systemVars, distVars
  <2>5. /\ Newcomer = {} /\ Registered \subseteq Node /\ UNCHANGED daemonVars
        /\ \A n \in Registered : Comes(n, Believed(n))
        /\ \A n, w : Comes(n, w)' <=> Comes(n, w)
    BY <2>4, ClientCalls
  <2>6. Course' /\ Unsent' = Registered /\ Newcomer' = {}
    BY <2>3, <2>4 DEF Course, Unsent, Newcomer
  <2>7. ASSUME NEW n \in Registered
        PROVE  InStep(n)'
    <3>1. Believed(n) \in View /\ Believed(n).running /\ Believed(n)' = Believed(n)
      BY <2>4, <2>5, ViewTypes DEF Believed
    <3>2. Before(n, Believed(n))'
      BY <2>3, <2>4, <2>6, <3>1 DEF Before
    <3> QED BY <2>5, <2>6, <3>1, <3>2 DEF InStep
  <2> QED BY <2>2, <2>3, <2>5, <2>6, <2>7, CallBegins
<1>4. ASSUME ClientStatus
      PROVE  Accord'
  <2>1. PICK S \in Erasures(Dead) :
          /\ ctrl' = Without(S)
          /\ thr' = [thr EXCEPT !["orb"] = Doing("status", "ask", Registered \ S, NoShare)]
    BY <1>4 DEF ClientStatus
  <2>2. S = {}
    BY <1>0
  <2> QED BY <1>0, <1>4, <2>1, <2>2, TellsAll DEF ClientStatus, systemVars, distVars
<1>5. ~Shutdown /\ ~ShutdownNil
  BY DEF Shutdown, ShutdownNil, Calm, Doing, Idle, TypeOK, Thread
<1> QED BY <1>1, <1>2, <1>3, <1>4, <1>5, StartAccords DEF Client

LEMMA RedistributeAccords ==
  ASSUME TypeOK, Accord, Redistribute
  PROVE  Accord'
<1> DEFINE op == thr["orb"].op
<1>1. /\ op \in {"reconfigure", "force"} /\ mSystemRunning /\ thr["orb"].at = "distribute"
      /\ Promise
  BY DEF Redistribute, Accord, Promise, Course
<1>2. UNCHANGED <<daemonVars, ctrl, mSystemRunning>>
  BY DEF Redistribute, systemVars
<1>3. Newcomer = {} /\ Registered \subseteq Node
  BY <1>1 DEF Newcomer, Registered
<1>4. /\ thr'["dir"] = thr["dir"] /\ thr'["orb"].op = op
      /\ \/ thr'["orb"].at = "spin"
         \/ /\ thr'["orb"].at = "send" /\ thr'["orb"].nodes = Registered
            /\ thr'["orb"].plan = mDistState'
  BY <1>3, SendsTo DEF Redistribute
<1>5. ASSUME thr'["orb"].at = "send", thr'["orb"].nodes = Registered
      PROVE  Course' /\ \A n \in Registered : InStep(n)'
  <2>1. Course' /\ Unsent' = Registered /\ Newcomer' = {}
    BY <1>1, <1>2, <1>4, <1>5 DEF Course, Unsent, Newcomer
  <2>2. ASSUME NEW n \in Registered
        PROVE  InStep(n)'
    <3>1. PICK w \in View : w.running /\ Comes(n, w)
      <4>1. Believed(n) \in View /\ Believed(n).running /\ After(n) = Believed(n)
        BY <1>1, <1>3, ViewTypes DEF Believed, After
      <4>2. \A w : Before(n, w) => w.running
        BY <1>1, <1>3 DEF Before
      <4> QED BY <1>1, <4>1, <4>2 DEF Promise, InStep
    <3>2. Comes(n, w)'
      BY <1>2, <3>1, ComesKept DEF daemonVars
    <3>3. Before(n, w)'
      BY <1>1, <1>4, <2>1, <3>1 DEF Before
    <3> QED BY <2>1, <3>2, <3>3 DEF InStep
  <2> QED BY <2>1, <2>2
<1> QED BY <1>2, <1>3, <1>4, <1>5, CallBegins

\* A status asks, and leaves everything as it is.
LEMMA AskAccords ==
  ASSUME TypeOK, Accord, (\E n \in Node : Ask(n)) \/ StatusRead
  PROVE  Accord'
<1> DEFINE a == thr["orb"]
<1>1. /\ a.op = "status" /\ a.at = "ask" /\ Promise /\ Newcomer = {} /\ Unsent = a.nodes
      /\ UNCHANGED <<daemonVars, ctrl, mSystemRunning, mDistState>>
  BY DEF Ask, StatusRead, Accord, Promise, Course, Newcomer, Unsent, systemVars, distVars
<1>2. /\ thr'["dir"] = thr["dir"] /\ thr'["orb"].nodes \subseteq a.nodes
      /\ \/ thr'["orb"].op = "status" /\ thr'["orb"].at = "ask"
         \/ thr'["orb"].op = "none" /\ thr'["orb"].at = "idle" /\ thr'["orb"].nodes = {}
  <2>1. a \in Activity /\ "orb" \in Thread /\ "dir" \in Thread
    BY DEF TypeOK, Thread
  <2>2. ASSUME NEW n \in Node, Ask(n)
        PROVE  /\ thr'["dir"] = thr["dir"] /\ thr'["orb"].nodes \subseteq a.nodes
               /\ thr'["orb"].op = a.op /\ thr'["orb"].at = a.at
    BY <2>1, <2>2, OneLess DEF Ask
  <2>3. ASSUME StatusRead
        PROVE  /\ thr'["dir"] = thr["dir"] /\ thr'["orb"] = Idle
    BY <2>1, <2>3 DEF StatusRead, TypeOK
  <2> QED BY <1>1, <2>2, <2>3 DEF Idle
<1>3. /\ Newcomer' = {} /\ Unsent' = thr'["orb"].nodes /\ Course'
      /\ thr'["orb"].at \in {"ask", "idle"}
  BY <1>2 DEF Newcomer, Unsent, Course
<1>4. Places' /\ Registered' = Registered
  BY <1>1, <1>2, <1>3, PlacesKept DEF Accord, Places
<1>5. ASSUME NEW n \in Registered
      PROVE  InStep(n)'
  <2>1. After(n) = Believed(n) /\ After(n)' = Believed(n)
    BY <1>1, <1>2 DEF After, Believed
  <2>2. Comes(n, Believed(n)) /\ Believed(n) \in View
    <3>1. \A w : Before(n, w) => w = Believed(n)
      BY <1>1 DEF Before
    <3> QED BY <1>1, <2>1, <3>1, ViewTypes DEF InStep, Promise, Registered
  <2>3. Comes(n, Believed(n))' /\ Before(n, Believed(n))' /\ Believed(n)' = Believed(n)
    BY <1>1, <1>2, <1>3, <2>2 DEF Comes, ViewOf, Before, Believed, daemonVars
  <2> QED BY <2>1, <2>2, <2>3 DEF InStep
<1>6. thr'["orb"].nodes \subseteq Registered
  BY <1>1, <1>2 DEF Promise
<1> QED BY <1>3, <1>4, <1>5, <1>6 DEF Accord, Promise

\* The newcomer's controller is ready.
LEMMA NewcomerAccords ==
  ASSUME TypeOK, Accord, RegisterOne
  PROVE  Accord'
<1>1. /\ thr["orb"].at = "await" /\ Promise /\ thr["orb"].op = "regStart" /\ mSystemRunning
      /\ thr["orb"].live /\ thr["orb"].who \in Registered /\ phase[thr["orb"].who] = "registering"
  BY DEF RegisterOne, Initialised, Accord, Promise, Course
<1>2. UNCHANGED <<daemonVars, ctrl, mSystemRunning, mDistState>>
  BY DEF RegisterOne, Initialised, systemVars, distVars
<1>3. /\ thr'["dir"] = thr["dir"]
      /\ thr'["orb"] = [thr["orb"] EXCEPT !.at = "send", !.nodes = {thr["orb"].who},
                                          !.plan = mDistState]
  BY DEF RegisterOne, TypeOK, Thread
<1>4. /\ thr'["orb"].op = thr["orb"].op /\ thr'["orb"].who = thr["orb"].who
      /\ thr'["orb"].live = thr["orb"].live /\ thr'["orb"].at = "send"
      /\ thr'["orb"].nodes = {thr["orb"].who} /\ thr'["orb"].plan = mDistState
  <2>1. thr["orb"] \in Activity
    BY DEF TypeOK, Thread
  <2> QED BY <1>3, <2>1 DEF Activity
<1>5. UNCHANGED <<Newcomer, Unsent>>
  BY <1>1, <1>4 DEF Newcomer, Unsent
<1>6. Places' /\ Registered' = Registered
  BY <1>2, <1>3, <1>5, PlacesKept DEF Accord, Places
<1>7. ASSUME NEW n \in Registered
      PROVE  InStep(n)'
  <2>1. InStep(n)
    BY <1>1 DEF Promise
  <2>2. \A w : Before(n, w)' = Before(n, w)
    BY <1>2, <1>4, <1>5 DEF Before, Believed
  <2>3. After(n)' = After(n)
    BY <1>2, <1>4 DEF After, Believed
  <2>4. \A w : Comes(n, w)' <=> Comes(n, w)
    BY <1>2, ComesKept DEF daemonVars
  <2> QED BY <1>5, <2>1, <2>2, <2>3, <2>4 DEF InStep
<1>8. Course'
  BY <1>1, <1>2, <1>4, <1>6 DEF Course, daemonVars
<1> QED BY <1>1, <1>2, <1>4, <1>6, <1>7, <1>8 DEF Accord, Promise

LEMMA SendAccords ==
  ASSUME TypeOK, Accord, NEW n \in Node, Send("orb", n)
  PROVE  Accord'
<1> DEFINE a == thr["orb"]
           m == Message("orb", n)
<1>1. /\ a.at = "send" /\ n \in a.nodes /\ Promise /\ n \in Registered
      /\ UNCHANGED <<up, phase, mAppRunning, mProcs, ctrl, mSystemRunning, mDistState>>
  BY DEF Send, Calling, Accord, Promise, systemVars, distVars
<1>2. a \in Activity /\ thr'["dir"] = thr["dir"] /\ thr'["orb"] = [a EXCEPT !.nodes = @ \ {n}]
  BY DEF TypeOK, Thread, Send
<1>3. /\ thr'["orb"].op = a.op /\ thr'["orb"].at = a.at /\ thr'["orb"].plan = a.plan
      /\ thr'["orb"].who = a.who /\ thr'["orb"].live = a.live
      /\ thr'["orb"].nodes = a.nodes \ {n}
  BY <1>2 DEF Activity
<1>0. a.op \in {"start", "stop", "restart", "failstart", "reconfigure", "force", "regStart"}
  BY <1>1 DEF Promise, Course
<1> HIDE DEF a
<1>4. Newcomer' = Newcomer /\ Unsent = a.nodes /\ Unsent' = a.nodes \ {n}
  BY <1>1, <1>3 DEF Newcomer, Unsent, a
<1>5. m \in Command /\ mStateQueue' = [mStateQueue EXCEPT ![n] = Append(@, m)]
      /\ mStateQueue \in [Node -> Seq(Command)]
  BY MessageType DEF Send, Thread, TypeOK
<1> HIDE DEF m
<1>6. Registered' = Registered /\ Registered \subseteq Node
  BY <1>1 DEF Registered
<1>7. Places'
  <2>1. \A k \in Node : k \notin Registered => mStateQueue'[k] = mStateQueue[k]
    BY <1>1, <1>5
  <2> QED BY <1>1, <1>2, <1>4, <1>6, <2>1 DEF Accord, Places
<1>8. \A k : After(k)' = After(k)
  BY <1>1, <1>3 DEF After, Believed, a
<1>9. \A k, w : Before(k, w)' = Before(k, w)
  BY <1>1, <1>3, <1>4 DEF Before, Believed, a
<1>10. ASSUME NEW k \in Registered, k # n
       PROVE  InStep(k)'
  <2>1. \A w : Comes(k, w)' <=> Comes(k, w)
    BY <1>1, <1>5, <1>6, <1>10 DEF Comes, ViewOf
  <2> QED BY <1>1, <1>4, <1>8, <1>9, <1>10, <2>1 DEF InStep, Promise
<1>11. InStep(n)'
  <2>1. PICK w \in View : Before(n, w) /\ Comes(n, w)
    BY <1>1, <1>4 DEF Promise, InStep
  <2>2. ASSUME NEW x, x = Turn(w, m)
        PROVE  Comes(n, x)'
    <3>1. Ends(Append(mStateQueue[n], m), ViewOf(n), x)
      BY <1>5, <2>1, <2>2, EndsMore DEF Comes, ViewOf
    <3>2. mStateQueue'[n] = Append(mStateQueue[n], m)
      BY <1>5
    <3> QED BY <1>1, <3>1, <3>2 DEF Comes, ViewOf
  <2>3. Turn(w, m) = After(n)
    <3>0. w = [running |-> w.running, procs |-> w.procs]
      BY DEF View
    <3>1. /\ m.cmd = CommandOf(a.op)
          /\ CommandOf(a.op) \in {"_START", "_CONFIGURE"} => m.cfg = mDistState[n]
      BY <1>1 DEF m, a, Message, Promise
    <3>2. CASE a.op = "start"
      <4>1. /\ w = Stopped /\ m.cmd = "_START" /\ m.cfg = mDistState[n]
            /\ After(n) = [running |-> TRUE, procs |-> mDistState[n]]
        BY <2>1, <3>1, <3>2 DEF a, Before, After, CommandOf, Newcomer
      <4> QED BY <4>1 DEF Turn, Stopped
    <3>3. CASE a.op = "stop"
      <4>1. w = Believed(n) /\ m.cmd = "_STOP" /\ After(n) = Stopped
        BY <2>1, <3>1, <3>3 DEF a, Before, After, CommandOf, Newcomer
      <4> QED BY <4>1 DEF Turn, Believed, Stopped
    <3>4. CASE a.op \in {"restart", "failstart"}
      <4>1. w = Believed(n) /\ m.cmd \in {"_RESTART", "_FAILSTART"} /\ After(n) = Believed(n)
        BY <2>1, <3>1, <3>4 DEF a, Before, After, CommandOf, Newcomer
      <4> QED BY <4>1 DEF Turn
    <3>5. CASE a.op \in {"reconfigure", "force"}
      <4>1. /\ w.running /\ m.cmd = "_CONFIGURE" /\ After(n) = Believed(n) /\ mSystemRunning
            /\ m.cfg = mDistState[n]
        BY <1>1, <2>1, <3>1, <3>5 DEF a, Before, After, CommandOf, Newcomer, Promise, Course
      <4>2. Turn(w, m) = [w EXCEPT !.procs = mDistState[n]]
        BY <4>1 DEF Turn
      <4>3. w.running = TRUE
        BY <4>1 DEF View
      <4> QED BY <3>0, <4>1, <4>2, <4>3 DEF Believed
    <3>6. CASE a.op = "regStart"
      <4>1. /\ n \in Newcomer /\ mSystemRunning /\ m.cmd = "_START" /\ m.cfg = mDistState[n]
            /\ After(n) = Believed(n)
        BY <1>1, <3>1, <3>6 DEF a, Promise, Course, Newcomer, CommandOf, After
      <4>2. w = Stopped
        BY <2>1, <3>6, <4>1 DEF a, Before
      <4> QED BY <4>1, <4>2 DEF Turn, Believed, Stopped
    <3> QED BY <1>0, <3>2, <3>3, <3>4, <3>5, <3>6
  <2>4. Comes(n, After(n))'
    BY <1>8, <2>2, <2>3 DEF Comes, ViewOf
  <2> QED BY <1>4, <2>4 DEF InStep
<1>12. Course'
  BY <1>1, <1>3, <1>6 DEF Promise, Course, a
<1> QED BY <1>1, <1>3, <1>6, <1>7, <1>10, <1>11, <1>12 DEF Accord, Promise, a

LEMMA FinishAccords ==
  ASSUME TypeOK, Accord, Finish("orb")
  PROVE  Accord'
<1> DEFINE a == thr["orb"]
<1>1. /\ a.at = "send" /\ a.nodes = {} /\ Promise /\ Unsent = {}
      /\ UNCHANGED <<up, mAppRunning, mStateQueue, mProcs, ctrl>>
  BY DEF Finish, Sent, Accord, Promise, Unsent
<1>2. thr'["dir"] = thr["dir"] /\ thr'["orb"] = Idle
  BY DEF Finish, TypeOK, Thread
<1>3. /\ Course' /\ Unsent' = {} /\ Newcomer' = {} /\ thr'["orb"].nodes = {}
      /\ thr'["orb"].at = "idle" /\ thr'["orb"].op = "none"
  BY <1>2 DEF Course, Unsent, Newcomer, Idle
<1>4. Registered' = Registered /\ Registered \subseteq Node
  BY <1>1 DEF Registered
<1>0. a.op \in {"start", "stop", "restart", "failstart", "reconfigure", "force", "regStart"}
  BY <1>1 DEF Promise, Course
<1>5. ASSUME NEW n \in Registered
      PROVE  After(n) = Believed(n)'
  <2>1. CASE a.op = "start"
    BY <2>1 DEF Finish, After, Believed, distVars
  <2>2. CASE a.op = "stop"
    BY <2>2 DEF Finish, After, Believed
  <2>3. CASE a.op \notin {"start", "stop"}
    <3>1. UNCHANGED <<mSystemRunning, mDistState>>
      BY <1>0, <2>3 DEF Finish, distVars
    <3>2. After(n) = Believed(n)
      BY <2>3 DEF After
    <3> QED BY <3>1, <3>2 DEF Believed
  <2> QED BY <2>1, <2>2, <2>3
<1>6. ASSUME NEW n \in Registered
      PROVE  InStep(n)'
  <2>1. Comes(n, After(n))
    BY <1>1 DEF Promise, InStep
  <2>3. After(n) = Believed(n)'
    BY <1>5
  <2>4. After(n)' = Believed(n)'
    BY <1>3 DEF After
  <2> QED BY <1>1, <1>3, <2>1, <2>3, <2>4 DEF InStep, Comes, ViewOf
<1>7. Places'
  <2>1. ASSUME NEW n \in Node
        PROVE  /\ phase'[n] = "heartbeat" => n \in Registered
               /\ phase'[n] = "registering" => n \notin Registered
    <3>1. CASE a.op = "regStart"
      <4>1. a.live /\ a.who \in Registered /\ Newcomer = {a.who}
            /\ phase' = [phase EXCEPT ![a.who] = "heartbeat"]
        BY <1>1, <3>1 DEF Promise, Course, Newcomer, Finish, Answered, Registration
      <4> QED BY <4>1 DEF Accord, Places, TypeOK
    <3>2. CASE a.op # "regStart"
      <4>1. Newcomer = {} /\ phase' = phase
        BY <1>1, <3>2 DEF Promise, Course, Newcomer, Finish, Registration
      <4> QED BY <4>1 DEF Accord, Places
    <3> QED BY <3>1, <3>2
  <2> QED BY <1>1, <1>2, <1>4, <2>1 DEF Accord, Places
<1> QED BY <1>3, <1>4, <1>6, <1>7 DEF Accord, Promise

LEMMA RegisterAccords ==
  ASSUME TypeOK, Accord, NEW n \in Node, Register(n)
  PROVE  Accord'
<1>1. /\ phase[n] = "registering" /\ thr["orb"].at = "idle"
      /\ UNCHANGED <<mSystemRunning, mDistState>>
      /\ UNCHANGED <<up, mAppRunning, mStateQueue, mProcs>>
  BY DEF Register, systemVars, distVars
<1>2. /\ Newcomer = {} /\ n \notin Registered
      /\ \A k \in Registered : Comes(k, Believed(k))
  BY <1>1, AtRest
<1>3. mStateQueue[n] = <<>> /\ mAppRunning[n] = FALSE /\ mProcs[n] = {}
  BY <1>2 DEF Accord, Places, TypeOK
<1>4. /\ ctrl' = [ctrl EXCEPT ![n] = "starting"]
      /\ IF mSystemRunning
         THEN thr' = [thr EXCEPT !["orb"] = Registering("regStart", n)] /\ UNCHANGED phase
         ELSE phase' = [phase EXCEPT ![n] = "heartbeat"] /\ UNCHANGED thr
  <2>1. (\A S \in Erasures(Dead) : S = {}) /\ Without({}) = ctrl /\ Registered \ {} = Registered
    BY NoneDead DEF Accord
  <2>2. PICK S \in Erasures(Dead) :
       \/ n \in Registered \ S
       \/ /\ n \notin Registered \ S
          /\ ctrl' = [Without(S) EXCEPT ![n] = "starting"]
          /\ IF mSystemRunning
             THEN thr' = [thr EXCEPT !["orb"] = Registering("regStart", n)]
                  /\ UNCHANGED phase
             ELSE IF mAppRunning[n]
             THEN thr' = [thr EXCEPT !["orb"] =
                    Registering(IF mClientInteraction THEN "regStop" ELSE "regAdopt", n)]
                  /\ UNCHANGED phase
             ELSE phase' = [phase EXCEPT ![n] = "heartbeat"] /\ UNCHANGED thr
    BY DEF Register
  <2>3. S = {}
    BY <2>1
  <2> QED BY <1>2, <1>3, <2>1, <2>2, <2>3
<1>5. Registered' = Registered \cup {n} /\ Registered \subseteq Node
  BY <1>4 DEF Registered, TypeOK
<1>6. Comes(n, Stopped)
  <2>1. Stopped = [running |-> mAppRunning[n], procs |-> mProcs[n]] /\ Stopped \in View
    BY <1>3, ViewTypes DEF Stopped
  <2> QED BY <1>3, <2>1, EndsNow DEF Comes, ViewOf
<1>7. /\ \A k, w : Comes(k, w)' <=> Comes(k, w)
      /\ \A k : Believed(k)' = Believed(k)
  BY <1>1, ComesKept DEF Believed
<1>8. CASE mSystemRunning
  <2>1. /\ thr'["dir"] = thr["dir"] /\ thr'["orb"].op = "regStart" /\ thr'["orb"].at = "await"
        /\ thr'["orb"].who = n /\ thr'["orb"].live = TRUE /\ thr'["orb"].nodes = {}
    <3> DEFINE a == Registering("regStart", n)
    <3>1. /\ a.op = "regStart" /\ a.at = "await" /\ a.nodes = {}
          /\ a.who = n /\ a.live = TRUE
      BY DEF Registering, Idle
    <3>2. thr' = [thr EXCEPT !["orb"] = a]
      BY <1>4, <1>8
    <3> HIDE DEF a
    <3> QED BY <3>1, <3>2 DEF TypeOK, Thread
  <2>2. Newcomer' = {n} /\ Unsent' = {n}
    BY <2>1 DEF Newcomer, Unsent
  <2>3. Course'
    BY <1>1, <1>4, <1>5, <1>8, <2>1 DEF Course
  <2>4. Places'
    BY <1>1, <1>2, <1>4, <1>5, <1>8, <2>1, <2>2 DEF Accord, Places, TypeOK
  <2>5. ASSUME NEW k \in Registered'
        PROVE  InStep(k)'
    <3>1. CASE k = n
      <4>1. Before(n, Stopped)' /\ Stopped \in View /\ Comes(n, Stopped)'
        BY <1>6, <1>7, <2>1, <2>2, ViewTypes DEF Before, Stopped
      <4> QED BY <2>2, <3>1, <4>1 DEF InStep
    <3>2. CASE k # n
      <4>1. After(k)' = Believed(k) /\ k \in Registered
        BY <1>5, <1>7, <2>1, <3>2 DEF After
      <4>2. Comes(k, After(k))'
        BY <1>1, <1>2, <4>1 DEF Comes, ViewOf
      <4> QED BY <2>2, <3>2, <4>2 DEF InStep
    <3> QED BY <3>1, <3>2
  <2> QED BY <2>1, <2>3, <2>4, <2>5 DEF Accord, Promise
<1>9. CASE ~mSystemRunning
  <2>1. thr' = thr /\ phase' = [phase EXCEPT ![n] = "heartbeat"]
    BY <1>4, <1>9
  <2>2. Newcomer' = {} /\ Unsent' = {} /\ thr["orb"].op = "none" /\ thr["orb"].nodes = {}
    BY <1>1, <2>1 DEF Newcomer, Unsent, Accord, Promise, Course
  <2>3. Course'
    BY <1>1, <2>1, <2>2 DEF Course
  <2>4. Places'
    BY <1>1, <1>2, <1>4, <1>5, <2>1, <2>2 DEF Accord, Places, TypeOK
  <2>5. ASSUME NEW k \in Registered'
        PROVE  InStep(k)'
    <3>1. After(k)' = Believed(k)
      BY <1>7, <2>1, <2>2 DEF After
    <3>2. Comes(k, Believed(k))
      BY <1>2, <1>5, <1>6, <1>9 DEF Believed
    <3>3. Comes(k, After(k))'
      BY <1>1, <3>1, <3>2 DEF Comes, ViewOf
    <3> QED BY <2>2, <3>3 DEF InStep
  <2> QED BY <1>1, <2>1, <2>2, <2>3, <2>4, <2>5 DEF Accord, Promise
<1> QED BY <1>8, <1>9

LEMMA DaemonAccords ==
  ASSUME TypeOK, Accord, NEW n \in Node, CheckNewState(n)
  PROVE  Accord'
<1> DEFINE q == mStateQueue[n]
           v == Turn(ViewOf(n), Head(q))
<1>1. /\ n \in Registered /\ q # <<>> /\ q \in Seq(Command) /\ Head(q) \in Command
      /\ UNCHANGED <<up, phase, ctrl, thr, mSystemRunning, mDistState>>
  BY DEF CheckNewState, Accord, Places, TypeOK, systemVars, distVars
<1>2. mStateQueue'[n] = Tail(q) /\ ViewOf(n)' = v
  <2>1. /\ mStateQueue'[n] = Tail(q)
        /\ mAppRunning'[n] = RunningAfter(n, Head(q)) /\ mProcs'[n] = ProcsAfter(n, Head(q))
    <3>1. /\ mAppRunning' = [mAppRunning EXCEPT ![n] = RunningAfter(n, Head(q))]
          /\ mProcs' = [mProcs EXCEPT ![n] = ProcsAfter(n, Head(q))]
          /\ mStateQueue' = [mStateQueue EXCEPT ![n] = Tail(q)]
      BY DEF CheckNewState
    <3> HIDE DEF q
    <3>2. mAppRunning'[n] = RunningAfter(n, Head(q))
      BY <3>1, Zenon DEF TypeOK
    <3>3. mProcs'[n] = ProcsAfter(n, Head(q)) /\ mStateQueue'[n] = Tail(q)
      BY <3>1, Zenon DEF TypeOK, Share
    <3> QED BY <3>2, <3>3
  <2>2. v = [running |-> RunningAfter(n, Head(q)), procs |-> ProcsAfter(n, Head(q))]
    <3>1. Head(q).cmd \in {"_START", "_STOP", "_CONFIGURE", "_RESTART", "_FAILSTART"}
      BY <1>1 DEF Command
    <3> HIDE DEF q
    <3> QED BY <3>1 DEF ViewOf, Turn, RunningAfter, ProcsAfter
  <2> QED BY <2>1, <2>2 DEF ViewOf
<1>3. \A k \in Node \ {n} : /\ mStateQueue'[k] = mStateQueue[k]
                            /\ mAppRunning'[k] = mAppRunning[k] /\ mProcs'[k] = mProcs[k]
  BY DEF CheckNewState, TypeOK
<1>4. ASSUME NEW k \in Node, NEW w, Comes(k, w)
      PROVE  Comes(k, w)'
  <2>1. CASE k = n
    <3>1. Ends(Tail(q), v, w)
      BY <1>1, <1>4, <2>1, EndsOn DEF Comes, ViewOf
    <3> QED BY <1>2, <2>1, <3>1 DEF Comes, ViewOf
  <2>2. CASE k # n
    BY <1>3, <1>4, <2>2 DEF Comes, ViewOf
  <2> QED BY <2>1, <2>2
<1>5. /\ UNCHANGED <<Registered, Newcomer, Unsent>> /\ Course' = Course
      /\ \A k : After(k)' = After(k) /\ Believed(k)' = Believed(k)
  BY <1>1 DEF Registered, Newcomer, Unsent, Course, After, Believed
<1>6. \A k, w : Before(k, w)' = Before(k, w)
  BY <1>1, <1>5 DEF Before
<1>7. ASSUME NEW k \in Registered, InStep(k)
      PROVE  InStep(k)'
  <2>0. k \in Node
    BY DEF Registered
  <2>1. CASE k \in Unsent
    BY <1>4, <1>5, <1>6, <1>7, <2>0, <2>1 DEF InStep
  <2>2. CASE k \notin Unsent
    <3>1. Comes(k, After(k))
      BY <1>7, <2>2 DEF InStep
    <3>2. PICK w : w = After(k)
      OBVIOUS
    <3>3. Comes(k, w)'
      BY <1>4, <2>0, <3>1, <3>2
    <3>4. Comes(k, After(k))'
      BY <1>5, <3>2, <3>3 DEF Comes, ViewOf
    <3> QED BY <1>5, <2>2, <3>4 DEF InStep
  <2> QED BY <2>1, <2>2
<1>8. Places'
  BY <1>1, <1>3, <1>5 DEF Accord, Places
<1> QED BY <1>1, <1>5, <1>7, <1>8 DEF Accord, Promise

LEMMA CtrlAccords ==
  ASSUME TypeOK, Accord, NEW n \in Node, CtrlInit(n)
  PROVE  Accord'
<1>1. /\ ctrl' = [ctrl EXCEPT ![n] = "ready"] /\ ctrl[n] = "starting"
      /\ UNCHANGED <<daemonVars, thr, mSystemRunning, mDistState>>
  BY DEF CtrlInit, Accord, Places, systemVars, distVars
<1>2. /\ Registered' = Registered
      /\ \A k \in Node : ctrl'[k] \in {"none", "starting", "ready"}
  BY <1>1 DEF Registered, TypeOK, Accord, Places
<1>3. UNCHANGED <<Newcomer, Unsent>> /\ Course' = Course
  BY <1>1, <1>2 DEF Newcomer, Unsent, Course, daemonVars
<1>4. ASSUME NEW k
      PROVE  InStep(k)' <=> InStep(k)
  BY <1>1, <1>3 DEF InStep, Before, After, Believed, Comes, ViewOf, daemonVars
<1>5. Places'
  BY <1>1, <1>2, <1>3 DEF Accord, Places, daemonVars
<1> QED BY <1>1, <1>2, <1>3, <1>4, <1>5 DEF Accord, Promise

\* What ends the calm: a shutdown, a fault, and a call through a nil reference.
LEMMA CalmBefore ==
  ASSUME TypeOK, ShutsDown, [Next]_vars
  PROVE  ShutsDown' /\ (Calm' => Calm)
<1> USE DEF systemVars, distVars, boundVars, daemonVars
<1>0. thr \in [Thread -> Activity] /\ "orb" \in Thread /\ "dir" \in Thread /\ "orb" # "dir"
      /\ faults \in Nat
  BY DEF TypeOK, Thread
<1> DEFINE Same == \/ thr'["orb"].op = thr["orb"].op /\ thr'["orb"].at = thr["orb"].at
                   \/ thr'["orb"].op # "shutdown" /\ (thr["orb"].op # "shutdown"
                                                       \/ director' # "running")
           Goes == (director' = "running" => director = "running") /\ (faults' = 0 => faults = 0)
<1>1. ASSUME Same, Goes
      PROVE  ShutsDown' /\ (Calm' => Calm)
  BY <1>1 DEF ShutsDown, Calm
<1>2. CASE UNCHANGED vars
  BY <1>1, <1>2 DEF vars
<1>3. CASE Shutdown
  BY <1>0, <1>3 DEF Shutdown, Request, Called, ShutsDown, Calm, Doing, Idle
<1>11. CASE ShutdownNil
  BY <1>0, <1>1, <1>11 DEF ShutdownNil, Called, Idle
<1>12. CASE DirectorEnds \/ DirectorDeleted
  BY <1>1, <1>12 DEF DirectorEnds, DirectorDeleted
<1>4. CASE Client /\ ~Shutdown /\ ~ShutdownNil
  <2>1. thr["orb"].at = "idle" /\ Goes
    BY <1>4 DEF Client, ClientStart, ClientStop, ClientStatus, ClientReconfigure, ClientRestart,
                Request, Called
  <2>2. thr["orb"].op # "shutdown"
    BY <2>1 DEF ShutsDown
  <2>3. ASSUME NEW nodes, NEW targets, NEW r, NEW f,
               DistributeAndSend("orb", "start", nodes, targets, r, f)
        PROVE  thr'["orb"].op # "shutdown"
    BY <1>0, <2>3 DEF DistributeAndSend, Doing, Idle
  <2>4. thr'["orb"].op # "shutdown"
    <3>1. CASE ClientStart
      BY <2>2, <2>3, <3>1 DEF ClientStart
    <3>2. CASE ClientStop
      BY <1>0, <3>2 DEF ClientStop, Doing, Idle
    <3>3. CASE ClientStatus
      BY <1>0, <3>3 DEF ClientStatus, Doing, Idle
    <3>4. ASSUME NEW op \in Ops, ClientReconfigure(op) \/ ClientRestart(op)
          PROVE  thr'["orb"].op # "shutdown"
      BY <1>0, <3>4 DEF ClientReconfigure, ClientRestart, Doing, Idle
    <3> QED BY <1>4, <3>1, <3>2, <3>3, <3>4, Zenon DEF Client
  <2> QED BY <1>1, <2>1, <2>2, <2>4
<1>5. CASE OrbStep
  <2>1. CASE ShutdownJoined
    BY <1>0, <1>1, <2>1 DEF ShutdownJoined, Idle
  <2>2. CASE Redistribute \/ RegisterOne \/ RegisterAdopt
    <3>1. thr["orb"].at \in {"distribute", "await"} /\ Goes
      BY <2>2 DEF Redistribute, RegisterOne, RegisterAdopt, Initialised
    <3>2. thr["orb"].op # "shutdown"
      BY <3>1 DEF ShutsDown
    <3>3. ASSUME NEW op, op # "shutdown", NEW nodes, NEW targets, NEW r, NEW f,
                 DistributeAndSend("orb", op, nodes, targets, r, f)
          PROVE  thr'["orb"].op # "shutdown"
      BY <1>0, <3>3 DEF DistributeAndSend, Doing, Idle
    <3>4. thr'["orb"].op # "shutdown"
      <4>1. CASE Redistribute
        BY <3>2, <3>3, <4>1 DEF Redistribute
      <4>2. CASE RegisterOne
        <5>1. thr["orb"] \in Activity
          BY <1>0
        <5> QED BY <1>0, <3>2, <4>2, <5>1 DEF RegisterOne, Activity
      <4>3. CASE RegisterAdopt
        <5>1. \/ DistributeAndSend("orb", "regAdopt", Registered, Registered, FALSE, FALSE)
              \/ thr' = [thr EXCEPT !["orb"] = Idle]
          BY <4>3 DEF RegisterAdopt
        <5>2. Registered \subseteq Node /\ Idle.op = "none"
          BY DEF Registered, Idle
        <5> QED BY <1>0, <5>1, <5>2, SendsTo
      <4> QED BY <2>2, <4>1, <4>2, <4>3
    <3> QED BY <1>1, <3>1, <3>2, <3>4
  <2>3. ASSUME NEW n \in Node, Ask(n) \/ Join(n)
        PROVE  Same /\ Goes
    <3>1. thr' = [thr EXCEPT !["orb"].nodes = @ \ {n}] /\ Goes
      BY <2>3 DEF Ask, Join
    <3> QED BY <1>0, <3>1, OneLess
  <2>4. CASE StatusRead
    <3>1. thr["orb"].op # "shutdown" /\ Goes
      BY <2>4 DEF StatusRead, ShutsDown
    <3>2. thr'["orb"].op = "none"
      BY <1>0, <2>4 DEF StatusRead, Idle
    <3> QED BY <1>1, <3>1, <3>2
  <2> QED BY <1>1, <1>5, <2>1, <2>2, <2>3, <2>4 DEF OrbStep
<1>6. CASE CheckDaemons
  <2>1. ASSUME NEW nodes, NEW targets, NEW r, NEW f,
               DistributeAndSend("dir", "check", nodes, targets, r, f)
        PROVE  thr'["orb"] = thr["orb"]
    BY <1>0, <2>1 DEF DistributeAndSend
  <2>2. thr'["orb"] = thr["orb"] /\ Goes
    BY <1>6, <2>1 DEF CheckDaemons, CleanAndRedistribute
  <2> QED BY <1>1, <2>2
<1>7. ASSUME NEW t \in Thread, Broadcast(t)
      PROVE  Same /\ Goes
  <2>1. Goes
    BY <1>7 DEF Broadcast, Send, SendErased, SendFails, SendNil, Finish
  <2>2. t = "orb" => thr["orb"].op # "shutdown"
    BY <1>7 DEF Broadcast, Send, SendErased, SendFails, SendNil, Finish, Calling, Sent, ShutsDown
  <2>3. CASE t = "orb"
    <3>1. thr["orb"] \in Activity
      BY <1>0
    <3>2. thr'["orb"].op \in {thr["orb"].op, "none"}
      <4>1. ASSUME NEW n \in Node, Send("orb", n) \/ SendErased("orb", n)
            PROVE  thr'["orb"].op = thr["orb"].op
        BY <1>0, <3>1, <4>1 DEF Send, SendErased, Activity
      <4>2. ASSUME NEW n \in Node, SendFails("orb", n) \/ SendNil("orb", n)
            PROVE  thr'["orb"].op = "none"
        BY <1>0, <4>2 DEF SendFails, SendNil, Idle
      <4>3. Finish("orb") => thr'["orb"].op = "none"
        BY <1>0 DEF Finish, Idle
      <4> QED BY <1>7, <2>3, <4>1, <4>2, <4>3 DEF Broadcast
    <3> QED BY <2>1, <2>2, <2>3, <3>2
  <2>4. CASE t = "dir"
    <3>1. ASSUME NEW n \in Node, Send("dir", n) \/ SendErased("dir", n) \/ SendFails("dir", n)
          PROVE  thr'["orb"] = thr["orb"]
      BY <1>0, <3>1 DEF Send, SendErased, SendFails
    <3>2. ASSUME NEW n \in Node, SendNil("dir", n)
          PROVE  thr'["orb"].op = "none" /\ director' = "crashed"
      BY <1>0, <3>2 DEF SendNil, Idle
    <3>3. Finish("dir") => thr'["orb"] = thr["orb"]
      BY <1>0 DEF Finish
    <3> QED BY <1>7, <2>1, <2>4, <3>1, <3>2, <3>3 DEF Broadcast
  <2> QED BY <2>1, <2>3, <2>4 DEF Thread
<1>8. ASSUME NEW n \in Node, CtrlThread(n)
      PROVE  Same /\ Goes
  BY <1>8 DEF CtrlThread, CtrlInit, CtrlEnds
<1>9. ASSUME NEW n \in Node, Daemon(n)
      PROVE  ShutsDown' /\ (Calm' => Calm)
  <2>1. CASE HeartbeatLost(n) \/ CheckNewState(n)
    BY <1>1, <2>1 DEF HeartbeatLost, CheckNewState
  <2>2. CASE Register(n)
    <3>1. Goes /\ thr["orb"].op # "shutdown"
      BY <2>2 DEF Register, ShutsDown
    <3>2. thr'["orb"].op # "shutdown"
      <4>1. \A op : Registering(op, n).op = op
        BY DEF Registering, Idle
      <4>2. thr' = thr \/ \E op \in Registration : thr' = [thr EXCEPT !["orb"] = Registering(op, n)]
        BY <2>2 DEF Register, Registration
      <4> QED BY <1>0, <3>1, <4>1, <4>2 DEF Registration
    <3> QED BY <1>1, <3>1, <3>2
  <2> QED BY <1>9, <2>1, <2>2 DEF Daemon
<1>10. ASSUME NEW n \in Node, Environment(n)
       PROVE  Same /\ Goes
  <2>1. Goes
    BY <1>0, <1>10 DEF Environment, CtrlTimesOut, HeartbeatTimesOut, Crash, Restart, Fault
  <2>2. thr["orb"] \in Activity
    BY <1>0
  <2>3. Same
    BY <1>0, <1>10, <2>2 DEF Environment, CtrlTimesOut, HeartbeatTimesOut, Crash, Restart, Activity
  <2> QED BY <2>1, <2>3
<1> QED
  BY <1>1, <1>2, <1>3, <1>4, <1>5, <1>6, <1>7, <1>8, <1>9, <1>10, <1>11, <1>12 DEF Next

LEMMA AccordNext ==
  ASSUME TypeOK, Accord, Calm, Calm', [Next]_vars
  PROVE  Accord'
<1> USE DEF systemVars, distVars, boundVars
<1>1. CASE UNCHANGED vars
  BY <1>1, AccordKept DEF vars
<1>2. CASE OrbStep
  <2>1. ~ShutdownJoined
    BY DEF ShutdownJoined, Accord, Promise, Course
  <2>2. ~RegisterAdopt
    BY DEF RegisterAdopt, Initialised, Accord, Promise, Course
  <2>3. ASSUME NEW n \in Node
        PROVE  ~Join(n)
    BY DEF Join, Accord, Promise, Course
  <2> QED BY <1>2, <2>1, <2>2, <2>3, RedistributeAccords, NewcomerAccords, AskAccords DEF OrbStep
<1>3. ~CheckDaemons
  BY NoneDead DEF CheckDaemons, CleanAndRedistribute, Accord
<1>4. ASSUME NEW t \in Thread, Broadcast(t)
      PROVE  Accord'
  <2>1. t = "orb"
    BY <1>4 DEF Broadcast, Send, SendErased, SendFails, SendNil, Finish, Calling, Sent,
                Accord, Places, Thread
  <2>2. ASSUME NEW n \in Node
        PROVE  ~SendErased("orb", n) /\ ~SendFails("orb", n) /\ ~SendNil("orb", n)
    <3>1. Calling("orb", n) => n \in Registered
      BY DEF Calling, Accord, Promise
    <3>2. n \in up
      BY DEF Accord, Places
    <3> QED BY <3>1, <3>2 DEF SendErased, SendFails, SendNil, Registered, Calm
  <2> QED BY <1>4, <2>1, <2>2, SendAccords, FinishAccords DEF Broadcast
<1>5. ASSUME NEW n \in Node, CtrlThread(n)
      PROVE  Accord'
  <2>1. ~CtrlEnds(n)
    BY DEF CtrlEnds, Unanswered, Accord, Places, Registered, Newcomer, Calm
  <2> QED BY <1>5, <2>1, CtrlAccords DEF CtrlThread
<1>6. ASSUME NEW n \in Node, Daemon(n)
      PROVE  Accord'
  <2>1. ~HeartbeatLost(n)
    BY DEF HeartbeatLost, Accord, Places, Registered, Calm, Serving
  <2> QED BY <1>6, <2>1, RegisterAccords, DaemonAccords DEF Daemon
<1>7. ASSUME NEW n \in Node
      PROVE  ~Environment(n)
  <2>1. faults = 0 /\ faults' = 0 /\ n \in up
    BY DEF Calm, Accord, Places
  <2> QED
    BY <2>1 DEF Environment, CtrlTimesOut, HeartbeatTimesOut, Crash, Restart, Fault
<1>8. ~DirectorEnds /\ ~DirectorDeleted
  BY DEF DirectorEnds, DirectorDeleted, Calm
<1> QED
  BY <1>1, <1>2, <1>3, <1>4, <1>5, <1>6, <1>7, <1>8, ClientAccords DEF Next

\* Without faults, however calls, registrations and the daemons' work interleave,
\* a daemon that has worked off its queue while the director rests runs what the
\* director believes it runs.
THEOREM DaemonsAgree == Spec => []Agreement
<1>1. Init => ShutsDown /\ (Calm => Accord)
  <2> SUFFICES ASSUME Init
               PROVE  ShutsDown /\ Accord
    OBVIOUS
  <2>1. /\ thr["orb"] = Idle /\ thr["dir"] = Idle /\ Registered = {}
        /\ \A n \in Node : /\ phase[n] = "registering" /\ mStateQueue[n] = <<>>
                           /\ mAppRunning[n] = FALSE /\ mProcs[n] = {} /\ ctrl[n] = "none"
    BY DEF Init, Thread, Registered, NoShare
  <2>2. Idle.op = "none" /\ Idle.at = "idle" /\ Idle.nodes = {}
    BY DEF Idle
  <2>3. Places
    BY <2>1, <2>2 DEF Init, Places
  <2>4. Promise
    BY <2>1, <2>2 DEF Promise, Course
  <2> QED BY <2>1, <2>2, <2>3, <2>4 DEF Accord, ShutsDown
<1>2. TypeOK /\ ShutsDown /\ (Calm => Accord) /\ [Next]_vars
        => ShutsDown' /\ (Calm' => Accord')
  BY CalmBefore, AccordNext
<1>3. TypeOK /\ (Calm => Accord) => Agreement
  <2> SUFFICES ASSUME TypeOK, Calm => Accord, director = "running", faults = 0,
                      \A t \in Thread : thr[t] = Idle, NEW n \in Node,
                      phase[n] = "heartbeat", mStateQueue[n] = <<>>
               PROVE  /\ ctrl[n] \in {"starting", "ready"}
                      /\ mAppRunning[n] = mSystemRunning
                      /\ mProcs[n] = IF mSystemRunning THEN mDistState[n] ELSE {}
    BY DEF Agreement
  <2>1. thr["orb"].op = "none" /\ thr["orb"].at = "idle"
    BY DEF Thread, Idle
  <2>2. Accord /\ n \in Registered
    BY <2>1, AtRest DEF Calm
  <2>3. ctrl[n] \in {"starting", "ready"}
    BY <2>2 DEF Accord, Places, Registered
  <2>4. [running |-> mAppRunning[n], procs |-> mProcs[n]] = Believed(n)
    <3>1. Comes(n, Believed(n))
      BY <2>1, <2>2, AtRest
    <3> QED BY <3>1, EndsNow, ViewTypes DEF Comes, ViewOf
  <2> QED BY <2>3, <2>4 DEF Believed, Stopped, TypeOK
<1> QED
  BY <1>1, <1>2, <1>3, Invariance, PTL DEF Spec

=============================================================================
