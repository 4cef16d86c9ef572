--------------------------- MODULE MCRecursiveMutex ---------------------------
(* Small instances of RecursiveMutex for TLC.                              *)
EXTENDS RecursiveMutex, TLC, FiniteSets

CONSTANTS t1, t2, t3

\* Thread ids below IdBound = 8, and above it.
Narrow3 == t1 :> 5 @@ t2 :> 6 @@ t3 :> 7
Wide2   == t1 :> 13 @@ t2 :> 14
=============================================================================
