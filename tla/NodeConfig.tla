----------------------------- MODULE NodeConfig -----------------------------
(***************************************************************************)
(* The list of hosts in rpms_config.xml, as SC_XMLNodeConfig reads it: what *)
(* ranks the candidates of an election.                                    *)
(***************************************************************************)
EXTENDS Integers, Sequences, SequencesExt

NodeEntry(hosts) == [host : hosts, rank : Int, linux : BOOLEAN, usable : BOOLEAN]

\* load() throws for another operating system and for a host named twice.
LoadsNodes(list) ==
  /\ \A i \in DOMAIN list : list[i].linux
  /\ \A i, j \in DOMAIN list : list[i].host = list[j].host => i = j

\* getElections() goes through the hosts by name and throws for a rank that a
\* usable host before has, whether or not this one is usable.
ElectionsLoad(byName) ==
  \A i, j \in DOMAIN byName :
    i < j /\ byName[i].usable => byName[i].rank # byName[j].rank

Elections(list) == {e.rank : e \in {f \in ToSet(list) : f.usable}}

NoRank == -1

\* getRank(): of a host that is not listed, or not usable, the daemon never runs.
RankOf(list, host) ==
  LET mine == {e \in ToSet(list) : e.host = host /\ e.usable}
  IN  IF mine = {} THEN NoRank ELSE (CHOOSE e \in mine : TRUE).rank

Runs(list, host) == RankOf(list, host) >= 0
=============================================================================
