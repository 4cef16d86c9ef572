---------------------------- MODULE ProcessOutput ----------------------------
(***************************************************************************)
(* What becomes of a managed process's output: the process writes into a   *)
(* pipe, and a reader (SA_StreamReader and its three kinds) empties it into *)
(* a log, on a thread of its own beside those of ProcessWrapper.  One      *)
(* stream is modelled; the other is alike.                                 *)
(* A reader is told to stop once its process has been reaped, or by stop() *)
(* when its process is: it finds out when the read it is in comes back.    *)
(* Its join() returns at once, so the object may be replaced, and deleted, *)
(* with its thread still in it: what that thread does next is undefined.   *)
(***************************************************************************)
EXTENDS ProcessWrapper

\* pipe: "full" when the process waits to write; reader: the thread of the
\* current object, which "tests" whether to go on or is in the call that "reads";
\* mShouldRun: the object's; stray: a thread is still in an object that has been
\* deleted.
VARIABLE out

outputVars == <<vars, out>>

OutState == [pipe : {"empty", "some", "full"},
             reader : {"none", "opens", "tests", "reads", "ends"},
             mShouldRun : BOOLEAN, stray : BOOLEAN]

NoOutput == [pipe |-> "empty", reader |-> "none", mShouldRun |-> FALSE, stray |-> FALSE]

Busy == out.reader # "none"

\* The process waits to write and nobody goes on reading.
Unread == out.pipe = "full" /\ (out.reader \in {"none", "ends"} \/ ~out.mShouldRun)

-----------------------------------------------------------------------------
(* The process and its reader.                                             *)

\* A process that was told to end may write on its way.
Write ==
  /\ child \in {"app", "told"}
  /\ out' = [out EXCEPT !.pipe = IF @ = "empty" THEN "some" ELSE "full"]
  /\ UNCHANGED vars

ReaderAt(where) == out.reader = where /\ daemon = "runs"

OpenLog ==
  /\ ReaderAt("opens")
  /\ out' = [out EXCEPT !.reader = "tests"]
  /\ UNCHANGED vars

\* Without a log file the loop is skipped, and the null FILE closed.
LogNotOpened ==
  /\ ReaderAt("opens") /\ "noLogFile" \in Faults
  /\ daemon' = "crashed" /\ out' = [out EXCEPT !.reader = "none"]
  /\ UNCHANGED <<runType, at, mExternalStop, mFailed, mRetryTimes, mChildPID, mRunning,
                 readers, child, status, stopper, now, starts>>

\* The condition of the loop in execute().
TestReading ==
  /\ ReaderAt("tests")
  /\ out' = [out EXCEPT !.reader = IF out.mShouldRun THEN "reads" ELSE "ends"]
  /\ UNCHANGED vars

\* (A mistake: the loop is left when less was read than fits the buffer.)
Read_Once ==
  /\ ReaderAt("reads") /\ out.pipe # "empty"
  /\ out' = [out EXCEPT !.pipe = "empty", !.reader = "ends"]
  /\ UNCHANGED vars

Read ==
  /\ ReaderAt("reads") /\ out.pipe # "empty"
  /\ out' = [out EXCEPT !.pipe = "empty", !.reader = "tests"]
  /\ UNCHANGED vars

\* read() returns 0 when nobody has the pipe open for writing any more.
EndOfFile ==
  /\ ReaderAt("reads") /\ out.pipe = "empty"
  /\ child \in {"zombie", "none"}
  /\ out' = [out EXCEPT !.reader = "ends"]
  /\ UNCHANGED vars

\* The write buffer is purged and the file closed.
EndRead ==
  /\ ReaderAt("ends")
  /\ out' = [out EXCEPT !.reader = "none"]
  /\ UNCHANGED vars

StrayEnds ==
  /\ out.stray /\ daemon = "runs"
  /\ out' = [out EXCEPT !.stray = FALSE]
  /\ UNCHANGED vars

StrayCrashes ==
  /\ out.stray /\ daemon = "runs"
  /\ daemon' = "crashed" /\ UNCHANGED out
  /\ UNCHANGED <<runType, at, mExternalStop, mFailed, mRetryTimes, mChildPID, mRunning,
                 readers, child, status, stopper, now, starts>>

-----------------------------------------------------------------------------
(* What the steps of ProcessWrapper do to it.                              *)

\* forkProcess opens new pipes, readProcPipes creates new readers.
NewPipes == Fork /\ out' = [out EXCEPT !.pipe = "empty"]

NewReaders ==
  Record /\ out' = [out EXCEPT !.reader = "none", !.mShouldRun = TRUE, !.stray = @ \/ Busy]

\* A stop that came before has the readers stopped instead.
StartReaders ==
  /\ Watched
  /\ out' = [out EXCEPT !.reader = IF mExternalStop THEN @ ELSE "opens",
                        !.mShouldRun = @ /\ ~mExternalStop]

\* Of "one" that was started, the stream may be this or the other.
StartFails ==
  /\ Unstarted
  /\ \E r \in {"none"} \cup {"opens" : x \in {readers'} \cap {"one"}} :
       out' = [out EXCEPT !.reader = r]

StopReaders == Forget /\ out' = [out EXCEPT !.mShouldRun = FALSE]

\* A process that waits to write does not end by itself; one that was told to end
\* may, or may go on waiting.
Exits == /\ Exit /\ (child = "app" => out.pipe # "full")
         /\ out' = [out EXCEPT !.pipe = IF @ = "full" THEN "some" ELSE @]

OutputRun ==
  \/ NewPipes \/ NewReaders \/ StartReaders \/ StartFails \/ StopReaders
  \/ /\ \/ Begin \/ Leave \/ GiveUp \/ Retry \/ ForkFails \/ NoLogSpace
        \/ Unreadable \/ Reap \/ Evaluate \/ Terminate
     /\ UNCHANGED out

KillOutput == Kill /\ out' = [out EXCEPT !.mShouldRun = FALSE]

Reader == OpenLog \/ TestReading \/ Read \/ EndOfFile \/ EndRead

ReaderFails == LogNotOpened \/ StrayCrashes

OutputInit == Init /\ out = NoOutput

OutputNext ==
  \/ OutputRun \/ Reader \/ ReaderFails \/ StrayEnds \/ Write \/ KillOutput \/ Exits
  \/ (Stop \/ Exec \/ Tick) /\ UNCHANGED out

OutputSpec == OutputInit /\ [][OutputNext]_outputVars

\* Both threads keep running, and the current reader's; a forked process comes to
\* execute the program, and SIGTERM ends that, if it need not wait for a reader that
\* has gone.  A process that is left alone may run for ever.
OutputFairSpec ==
  /\ OutputSpec
  /\ WF_outputVars(OutputRun) /\ WF_outputVars(KillOutput)
  /\ WF_outputVars(Exec /\ UNCHANGED out)
  /\ WF_outputVars(child = "told" /\ ~Unread /\ Exits)
  /\ WF_outputVars(Reader)

-----------------------------------------------------------------------------
(* Properties.                                                             *)

OutputTypeOK == TypeOK /\ out \in OutState

\* A stop ends the thread and the process, wherever in a restart it comes - unless
\* the signal meets the child before it executes the program, or the child never
\* does, when it has ended unreaped; the process, on its way out, waits to write
\* into a pipe that stop() has left without a reader; a reader could not be started;
\* or stopDead() took the thread for over.
StopEnds ==
  <>[](mExternalStop => \/ at = "ended" /\ child = "none"
                        \/ child \in {"hung", "nameless"}
                        \/ child = "told" /\ Unread
                        \/ ReadersFailed
                        \/ at # "ended" /\ ~mRunning
                        \/ daemon # "runs")

\* No process waits for ever for somebody to read what it writes, however often it
\* is restarted, until it is stopped: stop() takes its readers away before it has
\* ended.  Nor is there a reader when the process's status could not be read or the
\* reader's thread could not be created.
Drained ==
  out.pipe = "full" ~> \/ out.pipe # "full" \/ mExternalStop
                       \/ ReadersFailed \/ ~mRunning \/ daemon # "runs"
=============================================================================
