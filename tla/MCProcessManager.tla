--------------------------- MODULE MCProcessManager ---------------------------
(* Small instances of ProcessManager and StatusReport for TLC.             *)
EXTENDS StatusReport, TLC

\* A process may change, move away and come back.
SomeShares == {1 :> 1 @@ 2 :> 1, 1 :> 2}
=============================================================================
