----------------------------- MODULE StatusReport -----------------------------
(***************************************************************************)
(* A status (or the statistics) of a daemon: a call through the ORB walks  *)
(* over mProcs, process by process, on a thread of the ORB.  It takes no   *)
(* lock, so the main thread and the signal handler of ProcessManager go on *)
(* starting, replacing and erasing what it walks over.                     *)
(* What is put in or replaced does not harm the walk's iterator; an entry  *)
(* that is erased under it does, and what happens then is undefined: the   *)
(* daemon crashes, or the walk goes on from memory that has been freed.    *)
(***************************************************************************)
EXTENDS ProcessManager

\* mProcs is sorted by name.
ASSUME NamesAssumption == Comps \subseteq Nat \ {0}

PastEnd == 0    \* mProcs->end()

\* open: the walk is under way; at: its iterator; freed: an entry it stood on has
\* been erased; seen: SC_DaemonStatus' mComponents; stayed, met,
\* ran: history, the processes managed all along, at any time, and running at any time
\* (forgotten once freed: nothing can be said of the walk any more).
VARIABLE walk

reportVars == <<vars, walk>>

Managed == {c \in Comps : conf[c] # None}

Alives == {c \in Managed : Running(c)}

Entry == [comp : Comps, running : BOOLEAN]

WalkState == [open : BOOLEAN, at : Comps \cup {PastEnd}, freed : BOOLEAN, seen : SUBSET Entry,
              stayed : SUBSET Comps, met : SUBSET Comps, ran : SUBSET Comps]

NoWalk == [open |-> FALSE, at |-> PastEnd, freed |-> FALSE, seen |-> {},
           stayed |-> {}, met |-> {}, ran |-> {}]

\* What a wrapper tells of its process: it runs when the thread does and has a child,
\* which it may not have forked yet or may have reaped.
StatusOf(c) == {[comp |-> c, running |-> r] : r \in {FALSE, Running(c)}}

\* What the caller gets: under the daemon's own element, whose attributes are left
\* out, one for every entry.
Element(e) == [comp |-> e.comp, running |-> e.running]
Document == {Element(e) : e \in walk.seen}

\* The first of S in the map's order, or its end.
FirstOf(S) == IF S = {} THEN PastEnd ELSE CHOOSE c \in S : \A d \in S : c <= d

After(c) == FirstOf({d \in Managed : d > c})

-----------------------------------------------------------------------------
(* The ORB's thread.                                                       *)

\* getDaemonStatus or getProcessStats is called.
Ask ==
  /\ ~Gone /\ ~walk.open
  /\ sent < MaxCommands /\ sent' = sent + 1
  /\ walk' = [NoWalk EXCEPT !.open = TRUE, !.at = FirstOf(Managed),
                            !.stayed = Managed, !.met = Managed, !.ran = Alives]
  /\ UNCHANGED <<mStateQueue, mAppRunning, mRun, at, todo, procs, handler, director, history>>

Walking == walk.open /\ walk.at # PastEnd

\* (A mistake: what does not run is left out.)
Visit_Running ==
  /\ Walking /\ ~walk.freed
  /\ \E e \in StatusOf(walk.at) :
       walk' = [walk EXCEPT !.seen = IF e.running THEN @ \cup {e} ELSE @, !.at = After(walk.at)]
  /\ UNCHANGED vars

\* A process is listed whatever becomes of it: the wrapper answers for one that
\* has not been started, or has ended, as well.
Visit ==
  /\ Walking /\ ~walk.freed
  /\ \E e \in StatusOf(walk.at) :
       walk' = [walk EXCEPT !.seen = @ \cup {e}, !.at = After(walk.at)]
  /\ UNCHANGED vars

\* The iterator is used on an entry that has been erased: it may list what is no
\* longer there, and go anywhere or nowhere from it.
VisitFreed ==
  /\ Walking /\ walk.freed
  /\ \E next \in Managed \cup {PastEnd}, r \in BOOLEAN :
       walk' = [walk EXCEPT !.seen = @ \cup {[comp |-> walk.at, running |-> r]}, !.at = next]
  /\ UNCHANGED vars

CrashFreed ==
  /\ Walking /\ walk.freed /\ ~Gone
  /\ Leaves("failed") /\ UNCHANGED handler
  /\ walk' = NoWalk

Complete == walk.open /\ walk.at = PastEnd

\* Document is returned.
Answered ==
  /\ Complete
  /\ walk' = NoWalk
  /\ UNCHANGED vars

-----------------------------------------------------------------------------
(* What a step of the other threads does to the walk.                      *)

Erased == Walking /\ walk.at \notin Managed'

Beside ==
  walk' = IF Gone' THEN NoWalk
          ELSE IF Erased
          THEN [walk EXCEPT !.freed = TRUE, !.stayed = {}, !.met = {}, !.ran = {}]
          ELSE IF walk.open /\ ~walk.freed
          THEN [walk EXCEPT !.stayed = @ \cap Managed', !.met = @ \cup Managed',
                            !.ran = @ \cup Alives']
          ELSE walk

OrbThread == Visit \/ VisitFreed \/ Answered

ReportInit == Init /\ walk = NoWalk

ReportNext == (Next /\ Beside) \/ Ask \/ OrbThread \/ CrashFreed

\* The threads of the daemon run, and a process that is told to stop does.
ReportSpec ==
  /\ ReportInit /\ [][ReportNext]_reportVars
  /\ WF_vars(MainThread /\ Beside) /\ WF_vars(DirectorCalled /\ Beside)
  /\ WF_reportVars(OrbThread)
  /\ \A c \in Comps : WF_vars(life[c] = "told" /\ End(c) /\ Beside)

-----------------------------------------------------------------------------
(* Properties.                                                             *)

ReportTypeOK == TypeOK /\ walk \in WalkState

Listed == {e.comp : e \in Document}
SaidToRun == {e.comp : e \in {x \in Document : x.running}}

\* A status that is answered lists every process that was managed all the time, none
\* that was not managed at any, and calls none running that did not run at any,
\* whatever commands, restarts and ends of processes the walk ran into - unless the
\* entry under it was erased.
StatusComplete ==
  Complete /\ ~walk.freed =>
    /\ walk.stayed \subseteq Listed
    /\ Listed \subseteq walk.met
    /\ SaidToRun \subseteq walk.ran
=============================================================================
