---------------------------- MODULE MCElections ----------------------------
(* An instance of Elections that asks its questions of several situations  *)
(* at once, each with its own daemons and disturbances.                    *)
EXTENDS Elections, NodeConfig, TLC

CONSTANT RingFaults, LedFaults

\* The hosts section of the configuration: three candidates, and a host that is
\* out of use and whose rank another one has taken over.
Hosts == << [host |-> "X00", rank |-> 2, linux |-> TRUE, usable |-> FALSE],
            [host |-> "X01", rank |-> 3, linux |-> TRUE, usable |-> TRUE],
            [host |-> "X02", rank |-> 2, linux |-> TRUE, usable |-> TRUE],
            [host |-> "X03", rank |-> 1, linux |-> TRUE, usable |-> TRUE] >>
Names == {e.host : e \in ToSet(Hosts)}

ASSUME ConfigAssumption ==
  /\ Hosts \in Seq(NodeEntry(Names)) /\ LoadsNodes(Hosts) /\ ElectionsLoad(Hosts)
  /\ Node = Elections(Hosts)
  /\ Node = {RankOf(Hosts, h) : h \in {k \in Names : Runs(Hosts, k)}}

VARIABLE situation

\* pair:  two daemons of a bully system are started at once;
\* trio:  three of a ring, with their ports bound;
\* led:   a led system of three, by the bully or the ring;
\* fixed: two daemons of a static system, the leader among them.
Members == CASE situation = "pair" -> {1, 2} [] situation = "fixed" -> {2, 3}
             [] OTHER -> Node

Kinds == CASE situation = "pair" -> {"crash", "start", "stopDirector"}
           [] situation = "fixed" -> {"crash", "start"}
           [] situation = "trio" -> {"crash"}
           [] OTHER -> {"crash", "deaf"}

SomeFaults == CASE situation = "trio" -> RingFaults [] situation = "led" -> LedFaults
                [] OTHER -> MaxFaults

SituationInit ==
  \/ situation = "pair" /\ InitWith({1, 2}, {}) /\ InitElection("bully")
  \/ situation = "trio" /\ InitWith(Node, Node) /\ InitElection("ring")
  \/ situation = "led" /\ InitLed(Node) /\ \E t \in {"bully", "ring"} : InitElection(t)
  \/ situation = "fixed" /\ InitWith({2, 3}, {}) /\ InitElection("static")

SituationNext ==
  /\ \E n \in Node : \/ ElectionMain(n) \/ ElectionComm(n) \/ ElectionDirector(n)
                     \/ Disturbance(n, Kinds)
  /\ faults' > faults => faults < SomeFaults
  /\ up' \subseteq Members
  /\ UNCHANGED <<type, situation>>

SituationSpec ==
  SituationInit /\ [][SituationNext]_<<electionVars, situation>> /\ ElectionFairness
=============================================================================
