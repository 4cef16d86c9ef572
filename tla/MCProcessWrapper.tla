--------------------------- MODULE MCProcessWrapper ---------------------------
(* Small instances of ProcessWrapper and ProcessOutput for TLC.            *)
EXTENDS ProcessOutput, TLC
=============================================================================
