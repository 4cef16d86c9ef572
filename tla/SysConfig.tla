------------------------------ MODULE SysConfig ------------------------------
(***************************************************************************)
(* The system configuration (rpms_config.xml) as SC_XMLSysConfig reads it, *)
(* and the configuration of one node (SC_XMLDaemonConfig) as the director  *)
(* writes it and the daemon reads it back.  A component is named by its    *)
(* rank in the order of names; an instance by its component and number.    *)
(***************************************************************************)
EXTENDS Integers, Sequences, FiniteSets

\* The elements of <component_defaults> in the order of a std::map, which is
\* also the order the DTD demands of the children of a <component>.
Tags == <<"instances", "retry_max", "retry_window", "run_type">>

\* What the attributes and elements of a file are converted to.
IsFile(f) ==
  /\ f.defaults["instances"] \in Int
  /\ Len(f.components) \in Nat
  /\ \A i \in 1..Len(f.components) :
       LET e == f.components[i]
       IN /\ e.name \in Nat /\ e.runnable \in BOOLEAN /\ e.moveable \in BOOLEAN
          /\ Len(e.children) \in Nat
          /\ \A j \in 1..Len(e.children) :
               e.children[j].tag = "instances" => e.children[j].value \in Int

-----------------------------------------------------------------------------
(* SS_XMLUtil: what parsing a document may come to.                          *)

\* The document; with errors in it and parser.failOnError set, the end of the
\* process; without, a pointer nobody assigned, which may be null and is then
\* refused with an exception, or is used for a document and ends the process.
Parse(wellFormed, failOnError) ==
  IF wellFormed THEN {"document"}
  ELSE UNION {IF fail THEN {"exit"} ELSE {"thrown", "wild"} : fail \in failOnError}

-----------------------------------------------------------------------------
(* SC_ProcessConfig::build: defaults, overridden by the component's own     *)
(* children.  One walk over the defaults with a pointer into the children.  *)

Merge(defaults, children) ==
  LET walk[i \in 0..Len(Tags)] ==
        IF i = 0 THEN [values |-> [t \in {} |-> 0], j |-> 1]
        ELSE LET w   == walk[i - 1]
                 t   == Tags[i]
                 hit == w.j <= Len(children) /\ children[w.j].tag = t
                 v   == IF hit THEN children[w.j].value ELSE defaults[t]
             IN [values |-> [u \in DOMAIN w.values \cup {t} |->
                               IF u = t THEN v ELSE w.values[u]],
                 j |-> IF hit THEN w.j + 1 ELSE w.j]
  IN walk[Len(Tags)].values

RunType(text) == IF text \in {"once", "continuous"} THEN text ELSE "unknown"

Process(e, values, i) ==
  [compName |-> e.name, sysInstance |-> i, runnable |-> e.runnable,
   moveable |-> e.moveable, retryMax |-> values["retry_max"],
   retryWindow |-> values["retry_window"], runType |-> RunType(values["run_type"])]

Build(e, defaults) ==
  LET values == Merge(defaults, e.children)
  IN {Process(e, values, i - 1) : i \in 1..values["instances"]}

-----------------------------------------------------------------------------
(* SC_XMLSysConfig: a map from the internal name to the process.            *)

InternalName(p) == <<p.compName, p.sysInstance>>

\* add() throws when a name comes twice.
Duplicates(f) ==
  \E i, j \in 1..Len(f.components) :
    /\ i # j
    /\ \E p \in Build(f.components[i], f.defaults),
          q \in Build(f.components[j], f.defaults) : InternalName(p) = InternalName(q)

Loaded(f) == UNION {Build(f.components[i], f.defaults) : i \in 1..Len(f.components)}

\* mComponents is a map by internal name.  Strings in it come in the order of these
\* numbers as long as no instance has two digits ("_10" comes before "_2"); no
\* property asks for the order.
Precedes(p, q) == \/ p.compName < q.compName
                  \/ p.compName = q.compName /\ p.sysInstance < q.sysInstance

\* The processes of a set in the order of the map.
InOrder(S) ==
  [i \in 1..Cardinality(S) |->
     CHOOSE p \in S : Cardinality({q \in S : Precedes(q, p)}) = i - 1]

\* What of a sequence is at the places in I, in its order.
Chosen(s, I) ==
  LET chosen[n \in 0..Len(s)] ==
        IF n = 0 THEN <<>>
        ELSE IF n \in I THEN Append(chosen[n - 1], s[n]) ELSE chosen[n - 1]
  IN chosen[Len(s)]

\* getCompList: what is runnable.
CompList(procs) == InOrder({p \in procs : p.runnable})

-----------------------------------------------------------------------------
(* SC_XMLDaemonConfig: a vector of processes, and a document beside it.     *)

Element(p) ==
  [compname |-> p.compName, compinstance |-> p.sysInstance,
   runnable |-> IF p.runnable THEN "1" ELSE "0",
   moveable |-> IF p.moveable THEN "1" ELSE "0",
   retrymax |-> p.retryMax, retrywindow |-> p.retryWindow, runtype |-> p.runType]

NewDocument == <<>>
AddChild(doc, e) == Append(doc, e)

\* removeAllElementsForName: a node's document has elements of one name only.
RemoveAllElements(doc) == Chosen(doc, {})

EmptyConfig == [mProcs |-> <<>>, doc |-> NewDocument]

AddProcess(c, p) == [mProcs |-> Append(c.mProcs, p), doc |-> AddChild(c.doc, Element(p))]

Kept(c) == Chosen(c.mProcs, {i \in DOMAIN c.mProcs : ~c.mProcs[i].moveable})

\* (A mistake: the elements of what has gone stay in the document.)
RemoveMoveable_KeepsElements(c) ==
  [mProcs |-> Kept(c), doc |-> c.doc]

\* removeMoveableProcesses: all elements are removed, and those of the
\* processes that stay put back.
RemoveMoveable(c) ==
  LET kept == Kept(c)
  IN [mProcs |-> kept,
      doc |-> RemoveAllElements(c.doc) \o [i \in DOMAIN kept |-> Element(kept[i])]]

\* The daemon's side: buildAllProcesses over the elements of the document.
Parsed(doc) ==
  [i \in DOMAIN doc |->
     [compName |-> doc[i].compname, sysInstance |-> doc[i].compinstance,
      runnable |-> doc[i].runnable = "1", moveable |-> doc[i].moveable = "1",
      retryMax |-> doc[i].retrymax, retryWindow |-> doc[i].retrywindow,
      runType |-> RunType(doc[i].runtype)]]
=============================================================================
