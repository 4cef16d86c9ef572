--------------------------- MODULE MCDistribution ---------------------------
(* Small instances of Distribution for TLC.                                *)
EXTENDS Distribution, TLC

Child(t, v) == [tag |-> t, value |-> v]
Defaults == [instances |-> 1, retry_max |-> 3, retry_window |-> 9,
             run_type |-> "continuous"]
Entry(name, runnable, moveable, children) ==
  [name |-> name, runnable |-> runnable, moveable |-> moveable, children |-> children]
File(entries) == [wellFormed |-> TRUE, defaults |-> Defaults, components |-> entries]

Two == Entry(1, TRUE, TRUE, <<Child("instances", 2), Child("run_type", "once")>>)

\* Two instances that move and one that does not; the pinned one moveable now;
\* a component that is not runnable, and a name that comes twice; a
\* file that is not well formed.
Plain  == File(<<Two, Entry(2, TRUE, FALSE, <<Child("retry_max", 1)>>)>>)
Edited == File(<<Two, Entry(2, TRUE, TRUE, <<Child("retry_max", 1)>>)>>)
Broken == File(<<Two, Entry(1, FALSE, TRUE, <<>>)>>)

NotXML == [File(<<>>) EXCEPT !.wellFormed = FALSE]

MCFiles == {Plain, Edited, Broken, NotXML}
\* For children in the order of the DTD, the walk of Merge finds each of them.
ASSUME \A given \in SUBSET {Tags[i] : i \in 1..4} :
         LET children == [i \in 1..Cardinality(given) |->
               Child(SelectSeq(Tags, LAMBDA t : t \in given)[i], "set")]
         IN Merge(Defaults, children) =
              [t \in DOMAIN Defaults |-> IF t \in given THEN "set" ELSE Defaults[t]]

MCUsage == {[cpu |-> 0, rss |-> 0], [cpu |-> 1, rss |-> 2]}
MCOldData == {NoFile, [c \in {1, 2} |-> [cpu |-> c, rss |-> 1]]}
=============================================================================
