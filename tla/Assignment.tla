----------------------------- MODULE Assignment -----------------------------
(***************************************************************************)
(* What a director promises about the system configuration, seen from      *)
(* outside: every component has one owner from the moment the system is    *)
(* assigned until it is reset; the system is only said to run while it is  *)
(* assigned; a rebalance moves nothing but moveable components.  Neither   *)
(* daemons, threads nor messages appear here.                              *)
(***************************************************************************)
CONSTANTS Node, Comp, Moveable, NoOwner

VARIABLES assigned, running, owner

vars == <<assigned, running, owner>>

TypeOK == /\ assigned \in BOOLEAN /\ running \in BOOLEAN
          /\ owner \in [Comp -> IF assigned THEN Node ELSE {NoOwner}]

Init == /\ assigned = FALSE /\ running = FALSE
        /\ owner = [c \in Comp |-> NoOwner]

\* Every component is given to some node.
Assign == /\ ~assigned /\ assigned' = TRUE
          /\ owner' \in [Comp -> Node]
          /\ UNCHANGED running

\* All nodes have been told.
Begin == /\ assigned /\ running' = TRUE
         /\ UNCHANGED <<assigned, owner>>

\* Moveable components change owner, or, when forced, all of them.
Rebalance == /\ assigned
             /\ owner' \in [Comp -> Node]
             /\ \A c \in Comp \ Moveable : owner'[c] = owner[c]
             /\ UNCHANGED <<assigned, running>>

Force == /\ assigned
         /\ owner' \in [Comp -> Node]
         /\ UNCHANGED <<assigned, running>>

\* Stopped, and everything forgotten.
Reset == /\ assigned' = FALSE /\ running' = FALSE
         /\ owner' = [c \in Comp |-> NoOwner]

Next == Assign \/ Begin \/ Rebalance \/ Force \/ Reset

Spec == Init /\ [][Next]_vars
=============================================================================
