----------------------------- MODULE ThreadBase -----------------------------
(***************************************************************************)
(* SA_ThreadBase: what a thread object remembers of its thread.  start()   *)
(* holds the object's mutex from the creation of the thread until mRunning *)
(* is set, and the end of the thread takes the same mutex, so each is one  *)
(* step.  The object is an operand: Distribution and Heartbeat each have   *)
(* one, with run() and stop() of their own.                                *)
(***************************************************************************)

ThreadObject == [mRunning : BOOLEAN, mSpent : BOOLEAN, mStopDead : BOOLEAN]

NewThread == [mRunning |-> FALSE, mSpent |-> FALSE, mStopDead |-> FALSE]

\* start() does nothing when the object has a thread or had one.
Startable(t) == ~t.mRunning /\ ~t.mSpent
Started(t) == [t EXCEPT !.mRunning = TRUE]

\* entry() catches what run() throws and terminates the object, unless it was
\* stopped dead: then it keeps saying that it may be started.
Terminated(t) ==
  IF t.mStopDead THEN t ELSE [t EXCEPT !.mRunning = FALSE, !.mSpent = TRUE]

\* stopDead() sends signal 0, which reaches nobody: the thread goes on.
StoppedDead(t) == [t EXCEPT !.mStopDead = TRUE, !.mRunning = FALSE]

\* reset() lets go of a thread that has ended, or that has not.
ResetThread(t) == [t EXCEPT !.mSpent = FALSE]

\* join() returns at once when the object does not think it runs.
JoinWaits(t) == t.mRunning
=============================================================================
