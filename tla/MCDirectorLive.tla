--------------------------- MODULE MCDirectorLive ---------------------------
(* An instance of Director that asks the liveness questions of four        *)
(* situations at once: a director of a new system, one that takes over a   *)
(* system that runs, one that has run it for long, and one that has run it *)
(* for long on a pair of nodes, of which one fails again and again.        *)
EXTENDS MCDirector

VARIABLE situation

\* What clients ask for in each, how often, and how much goes wrong.
OpsIn(s)      == CASE s = "pair"   -> Ops \ {"start"}
                   [] s = "steady" -> {"stop", "reconfigure", "status"}
                   [] OTHER        -> {"start", "stop"}
RequestsIn(s) == IF s = "new" THEN MaxRequests ELSE 1
FaultsIn(s)   == CASE s = "pair" -> MaxFaults [] s = "steady" -> 1 [] OTHER -> 0
NodesIn(s)    == IF s = "pair" THEN {n1, n2} ELSE Node

\* The nodes that do not host the director are alike: of two steady states that
\* differ only in their names one is enough.
Representative ==
  mCompConfig[n2] # {} /\ (mCompConfig[n3] # {} => c1 \in mCompConfig[n2])

LiveInit ==
  \/ situation = "new" /\ Init
  \/ situation = "takeover" /\ InitTakeover
  \/ situation = "steady" /\ InitSteady /\ Representative
  \/ situation = "pair" /\ SteadyOn(NodesIn("pair"))

LiveNext ==
  /\ Next
  /\ requests' <= RequestsIn(situation) /\ faults' <= FaultsIn(situation)
  /\ thr'["orb"].op \in OpsIn(situation) \cup Registration \cup {"none"}
  /\ up' \subseteq NodesIn(situation)
  /\ UNCHANGED situation

LiveSpec == LiveInit /\ [][LiveNext]_<<vars, situation>> /\ Fairness
=============================================================================
