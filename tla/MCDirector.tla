----------------------------- MODULE MCDirector -----------------------------
(* Small instances of Director for TLC.                                    *)
EXTENDS Director, TLC

CONSTANTS n1, n2, n3, c1, c2

\* A director that is shut down meets one fault at most.
ShutDown   == thr["orb"].op = "shutdown" \/ director \in {"stopping", "stopped", "deleted"}
SafetyNext == Next /\ (ShutDown' => faults' <= 1)

\* A director begins with a new system or takes over one that runs: the node
\* that has failed then counts among the faults.
SafetySpec == (Init \/ (TakenOver /\ faults = 1)) /\ [][SafetyNext]_vars
=============================================================================
