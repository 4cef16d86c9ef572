--------------------------- MODULE MCBullyElection ---------------------------
(* Small instances of BullyElection for TLC.                               *)
EXTENDS BullyElection, TLC
=============================================================================
