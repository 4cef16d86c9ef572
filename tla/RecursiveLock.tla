----------------------------- MODULE RecursiveLock -----------------------------
(* What a recursive mutex promises: one thread at a time holds it, and it is *)
(* free again once that thread has unlocked as often as it has locked.      *)
EXTENDS Naturals

CONSTANT Threads

VARIABLE depth      \* how often each thread holds the lock

Init == depth = [t \in Threads |-> 0]

Lock(t) ==
  /\ \A u \in Threads \ {t} : depth[u] = 0
  /\ depth' = [depth EXCEPT ![t] = @ + 1]

Unlock(t) ==
  /\ depth[t] > 0
  /\ depth' = [depth EXCEPT ![t] = @ - 1]

Next == \E t \in Threads : Lock(t) \/ Unlock(t)

Spec == Init /\ [][Next]_depth
=============================================================================
