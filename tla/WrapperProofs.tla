---------------------------- MODULE WrapperProofs ----------------------------
(***************************************************************************)
(* A wrapper's thread leaves no child behind: whatever fails, it passes    *)
(* through waitpid between a fork and its end - but when a reader cannot   *)
(* be started.  Nor does it start its process more often than it should,   *)
(* but for one start in a window.                                          *)
(* What is known of it without its readers holds with them as well: a step *)
(* of the composition is one of the wrapper's, leaves the wrapper alone, or *)
(* fails the daemon.                                                       *)
(***************************************************************************)
EXTENDS ProcessOutput, SequenceTheorems, FiniteSetTheorems, TLAPS

\* Where the thread has no child, and where it knows of none.
Childless == {"new", "loop", "fork", "reaped", "evaluate", "join", "ended"}
Unknowing == {"new", "loop", "fork", "record", "evaluate", "join", "ended"}

\* It goes past waitpid only when a reader failed, and ends then.
Children ==
  \/ /\ at \in Childless => child = "none"
     /\ at \in Unknowing => mChildPID # Own
  \/ ReadersFailed /\ at \in {"join", "ended"}

Inv == TypeOK /\ Children

-----------------------------------------------------------------------------
\* What is left of the retry times is a sequence of times.
LEMMA PrunedType ==
  ASSUME NEW times \in Seq(Nat)
  PROVE  Pruned(times) \in Seq(Nat)
<1>1. Old(times) \subseteq 1 .. Len(times)
  BY DEF Old
<1>2. Cardinality(Old(times)) \in Nat
  <2>1. Len(times) \in Int
    OBVIOUS
  <2>2. IsFiniteSet(1 .. Len(times))
    BY <2>1, FS_Interval
  <2>3. IsFiniteSet(Old(times))
    BY <1>1, <2>2, FS_Subset
  <2> QED BY <2>3, FS_CardinalityType
<1>3. SubSeq(times, Cardinality(Old(times)) + 2, Len(times)) \in Seq(Nat)
  BY <1>2
<1>4. <<>> \in Seq(Nat)
  OBVIOUS
<1> QED BY <1>3, <1>4 DEF Pruned

\* A signal changes a process, but makes none.
LEMMA SignalledType ==
  ASSUME NEW p \in {"none", "image", "app", "told", "hung", "nameless", "zombie"}
  PROVE  /\ Signalled(p) \in {"none", "told", "hung", "nameless", "zombie"}
         /\ p = "none" => Signalled(p) = "none"
  BY DEF Signalled

-----------------------------------------------------------------------------
LEMMA InvInit == Init => Inv
<1> SUFFICES ASSUME Init PROVE Inv
  OBVIOUS
<1>1. <<>> \in Seq(Nat) /\ 0 \in Nat
  OBVIOUS
<1>2. TypeOK
  BY <1>1 DEF Init, TypeOK, FromZero, Own, FromMinus, NoCall
<1>3. Children
  BY DEF Init, Children, FromZero, Own
<1> QED BY <1>2, <1>3 DEF Inv

LEMMA RunStep ==
  ASSUME Inv, Run
  PROVE  Inv'
<1> USE DEF Inv, TypeOK, Children, Childless, Unknowing, At, FromZero, Own, FromMinus, NoCall, Hung,
            ReadersFailed, StoppingReaders
<1>1. CASE Begin
  BY <1>1 DEF Begin
<1>2. CASE Leave
  BY <1>2 DEF Leave
<1>3. CASE GiveUp
  BY <1>3 DEF GiveUp
<1>4. CASE Retry
  <2>1. Append(starts, now) \in Seq(Nat) /\ Append(Pruned(mRetryTimes), now) \in Seq(Nat)
    BY PrunedType
  <2> QED BY <1>4, <2>1 DEF Retry
<1>5. CASE Fork
  BY <1>5 DEF Fork
<1>6. CASE ForkFails
  BY <1>6 DEF ForkFails
<1>7. CASE Record
  BY <1>7 DEF Record
<1>8. CASE Watched
  BY <1>8, SignalledType DEF Watched
<1>9. CASE Unreadable
  <2>0. mRunning' = FALSE /\ at' = "wait"
    BY <1>9 DEF Unreadable
  <2>0a. UNCHANGED <<runType, mExternalStop, mFailed, mRetryTimes, mChildPID, readers,
                       child, status, stopper, daemon, now, starts>>
    BY <1>9 DEF Unreadable
  <2>1. TypeOK'
    <3>1. mRunning' \in BOOLEAN
      BY <2>0
    <3>2. at' \in {"new", "loop", "fork", "record", "watch", "wait", "reaped", "evaluate",
                   "join", "ended"}
      BY <2>0
    <3> QED BY <2>0a, <3>1, <3>2
  <2>2. Children'
    BY <2>0
  <2> QED BY <2>1, <2>2
<1>10. CASE Reap
  BY <1>10 DEF Reap
<1>11. CASE Forget
  BY <1>11 DEF Forget
<1>12. CASE Evaluate
  BY <1>12 DEF Evaluate
<1>13. CASE Terminate
  <2>1. /\ at = "join" /\ at' \in {"join", "ended"} /\ mRunning' \in {mRunning, FALSE}
        /\ daemon' \in {daemon, "crashed"}
        /\ UNCHANGED <<runType, mExternalStop, mFailed, mRetryTimes, mChildPID, readers,
                       child, status, stopper, now, starts>>
    BY <1>13 DEF Terminate
  <2>2. TypeOK'
    <3>1. mRunning' \in BOOLEAN
      BY <2>1
    <3>2. at' \in {"new", "loop", "fork", "record", "watch", "wait", "reaped", "evaluate",
                   "join", "ended"}
      BY <2>1
    <3>3. daemon' \in {"runs", "told", "crashed"}
      BY <2>1
    <3> QED BY <2>1, <3>1, <3>2, <3>3
  <2>3. Children'
    BY <2>1
  <2> QED BY <2>2, <2>3
<1>14. CASE NoLogSpace
  BY <1>14 DEF NoLogSpace
<1>15. CASE Unstarted
  BY <1>15 DEF Unstarted
<1> HIDE DEF Inv, TypeOK, Children, Childless, Unknowing, ReadersFailed
<1> QED BY <1>1, <1>2, <1>3, <1>4, <1>5, <1>6, <1>7, <1>8, <1>9, <1>10, <1>11, <1>12,
           <1>13, <1>14, <1>15 DEF Run

LEMMA OtherStep ==
  ASSUME Inv, Stop \/ Kill \/ Exec \/ Exit \/ Tick
  PROVE  Inv'
<1> USE DEF Inv, TypeOK, Children, Childless, Unknowing, At, FromZero, Own, FromMinus, NoCall, Hung,
            ReadersFailed, StoppingReaders
<1>1. CASE Stop
  BY <1>1 DEF Stop
<1>2. CASE Kill
  BY <1>2, SignalledType DEF Kill
<1>3. CASE Exec
  BY <1>3 DEF Exec
<1>4. CASE Exit
  BY <1>4 DEF Exit
<1>5. CASE Tick
  BY <1>5 DEF Tick
<1> QED BY <1>1, <1>2, <1>3, <1>4, <1>5

-----------------------------------------------------------------------------
(* The starts on record.                                                   *)

Sorted(times) == \A i, j \in DOMAIN times : i <= j => times[i] <= times[j]

\* What mRetryTimes holds are the last of the starts, and the others have left
\* the window - but for the last of them, which went with the old ones.
Remembers ==
  LET gone == Len(starts) - Len(mRetryTimes) IN
    /\ gone \in Nat
    /\ \A i \in 1 .. Len(mRetryTimes) : mRetryTimes[i] = starts[gone + i]
    /\ \A i \in 1 .. gone - 1 : now - starts[i] > RetryWindow

Retries ==
  /\ Sorted(starts) /\ \A i \in DOMAIN starts : starts[i] <= now
  /\ RestartsBounded
  /\ runType = "once" => Len(starts) <= 1 /\ (at \in {"new", "loop"} => Len(starts) = 0)
  /\ runType = "continuous" /\ ~mFailed => Remembers

\* A window holds finitely many starts.
LEMMA RecentFinite ==
  ASSUME TypeOK, NEW t
  PROVE  Recent(t) \subseteq 1 .. Len(starts) /\ IsFiniteSet(Recent(t))
<1>1. Recent(t) \subseteq 1 .. Len(starts)
  BY DEF Recent, TypeOK
<1>2. IsFiniteSet(1 .. Len(starts))
  BY FS_Interval DEF TypeOK
<1> QED BY <1>1, <1>2, FS_Subset

LEMMA UpTo ==
  ASSUME NEW n \in Nat
  PROVE  IsFiniteSet(1 .. n) /\ Cardinality(1 .. n) = n
  BY FS_Interval

\* Of times in order the old ones come first.
LEMMA OldFirst ==
  ASSUME now \in Nat, NEW times \in Seq(Nat), Sorted(times)
  PROVE  /\ Cardinality(Old(times)) \in 0 .. Len(times)
         /\ 1 .. Cardinality(Old(times)) \subseteq Old(times)
<1> DEFINE k == Cardinality(Old(times))
<1>0. Len(times) \in Nat
  OBVIOUS
<1>1. Old(times) \subseteq 1 .. Len(times)
  BY DEF Old
<1>2. IsFiniteSet(1 .. Len(times)) /\ Cardinality(1 .. Len(times)) = Len(times)
  BY <1>0, UpTo
<1>3. IsFiniteSet(Old(times)) /\ k \in 0 .. Len(times)
  BY <1>0, <1>1, <1>2, FS_Subset, FS_CardinalityType
<1>4. ASSUME NEW j \in 1 .. k, j \notin Old(times) PROVE FALSE
  <2>0. j \in Nat /\ j > 0
    BY <1>3
  <2>1. \A i \in Old(times) : i < j
    BY <1>1, <1>3, <1>4, WrapperAssumption DEF Old, Sorted
  <2>2. Old(times) \subseteq 1 .. (j - 1)
    BY <1>1, <1>3, <2>1
  <2>3. IsFiniteSet(1 .. (j - 1)) /\ Cardinality(1 .. (j - 1)) = j - 1
    BY <2>0, FS_Interval
  <2>4. k <= j - 1
    BY <2>2, <2>3, FS_Subset
  <2> QED BY <1>3, <2>0, <2>4
<1> QED BY <1>3, <1>4

\* When the process is tried again, checkFailureRate has dropped some of the first
\* times: if any, the first was old, and all but the last were.
LEMMA PrunedKeeps ==
  ASSUME now \in Nat, NEW times \in Seq(Nat), Sorted(times), ~TooMany(times)
  PROVE  \E d \in 0 .. Len(times) :
           /\ Len(Pruned(times)) = Len(times) - d /\ Len(times) - d <= MaxRetries
           /\ \A i \in 1 .. Len(times) - d : Pruned(times)[i] = times[d + i]
           /\ d > 0 => 1 \in Old(times)
           /\ \A i \in 1 .. d - 1 : i \in Old(times)
<1> DEFINE k == Cardinality(Old(times))
           n == Len(times)
<1>0. n \in Nat /\ ~Wraps(times) /\ ~(Len(Pruned(times)) > MaxRetries)
  BY DEF TooMany
<1>1. k \in 0 .. n /\ 1 .. k \subseteq Old(times)
  BY OldFirst
<1> HIDE DEF k
<1>2. CASE k = 0
  <2>1. Pruned(times) = times
    BY <1>2 DEF Pruned, k
  <2> WITNESS 0 \in 0 .. n
  <2> QED BY <1>0, <2>1, WrapperAssumption
<1>3. CASE k # 0 /\ n = 1
  <2>1. Pruned(times) = <<>> /\ 1 \in Old(times)
    BY <1>1, <1>3 DEF Pruned, k
  <2> WITNESS 1 \in 0 .. n
  <2> QED BY <1>3, <2>1, WrapperAssumption
<1>4. CASE k # 0 /\ n # 1
  <2>1. k < n
    <3>1. ~ (n > 1 /\ k = n)
      BY <1>0 DEF Wraps, k
    <3>2. k \in Nat /\ n \in Nat /\ k <= n
      BY <1>0, <1>1
    <3>3. n > 1
      <4>1. k # 0 /\ n # 1
        BY <1>4
      <4>2. ASSUME NEW a \in Nat, NEW b \in Nat, a <= b, a # 0, b # 1 PROVE b > 1
        BY <4>2
      <4> QED BY <3>2, <4>1, <4>2
    <3> QED BY <3>1, <3>2, <3>3
  <2>2. Pruned(times) = SubSeq(times, k + 2, n)
    BY <1>4 DEF Pruned, k
  <2>3. /\ Len(SubSeq(times, k + 2, n)) = n - (k + 1)
        /\ \A i \in 1 .. n - (k + 1) : SubSeq(times, k + 2, n)[i] = times[k + 1 + i]
    BY <1>0, <1>1, <2>1
  <2>4. k + 1 \in 0 .. n
    BY <1>0, <1>1, <2>1
  <2>5. 1 \in Old(times) /\ \A i \in 1 .. (k + 1) - 1 : i \in Old(times)
    BY <1>0, <1>1, <1>4
  <2>6. Len(Pruned(times)) = n - (k + 1) /\ n - (k + 1) <= MaxRetries
    <3>1. Len(Pruned(times)) = n - (k + 1)
      BY <2>2, <2>3
    <3>2. n - (k + 1) \in Int /\ MaxRetries \in Int
      BY <1>0, <2>4, WrapperAssumption
    <3>3. ~ (n - (k + 1) > MaxRetries)
      BY <1>0, <3>1
    <3> QED BY <3>1, <3>2, <3>3
  <2>7. \A i \in 1 .. n - (k + 1) : Pruned(times)[i] = times[k + 1 + i]
    BY <2>2, <2>3
  <2> QED BY <2>4, <2>5, <2>6, <2>7, Zenon
<1> QED BY <1>2, <1>3, <1>4

\* What neither starts the process nor passes the time keeps the record.
LEMMA RetriesKept ==
  ASSUME Retries,
         UNCHANGED <<starts, now, runType>>,
         mFailed => mFailed',
         mFailed' \/ UNCHANGED mRetryTimes,
         runType = "once" /\ at' \in {"new", "loop"} => at \in {"new", "loop"}
  PROVE  Retries'
<1>1. (Sorted(starts) /\ \A i \in DOMAIN starts : starts[i] <= now)'
  BY DEF Retries, Sorted
<1>2. RestartsBounded'
  BY DEF Retries, RestartsBounded, Recent
<1>3. (runType = "continuous" /\ ~mFailed => Remembers)'
  BY DEF Retries, Remembers
<1> QED BY <1>1, <1>2, <1>3 DEF Retries

\* Time takes starts out of the window.
LEMMA TickRetries ==
  ASSUME TypeOK, Retries, Tick
  PROVE  Retries'
<1>1. /\ UNCHANGED <<runType, mFailed, at, mRetryTimes, starts>>
      /\ now' = now + 1 /\ now \in Nat /\ starts \in Seq(Nat)
  BY DEF Tick, TypeOK
<1>2. (Sorted(starts) /\ \A i \in DOMAIN starts : starts[i] <= now)'
  <2>1. \A i \in DOMAIN starts : starts[i] \in Nat
    BY <1>1
  <2> QED BY <1>1, <2>1 DEF Retries, Sorted
<1>3. ASSUME NEW t \in 0 .. now' PROVE (Cardinality(Recent(t)) <= MaxRetries + 2)'
  <2>1. Recent(t)' = Recent(t)
    BY <1>1 DEF Recent
  <2>2. CASE t <= now
    BY <1>1, <1>3, <2>1, <2>2 DEF Retries, RestartsBounded
  <2>3. CASE t = now + 1
    <3>1. Recent(t) \subseteq Recent(now)
      BY <1>1, <2>3, WrapperAssumption DEF Recent, Retries
    <3>2. Cardinality(Recent(t)) <= Cardinality(Recent(now))
      BY <3>1, RecentFinite, FS_Subset
    <3>3. Cardinality(Recent(now)) <= MaxRetries + 2
      BY <1>1 DEF Retries, RestartsBounded
    <3>4. Cardinality(Recent(now)) \in Nat /\ Cardinality(Recent(t)) \in Nat
      BY RecentFinite, FS_CardinalityType
    <3> QED BY <2>1, <3>2, <3>3, <3>4, WrapperAssumption
  <2> QED BY <1>1, <1>3, <2>2, <2>3
<1>4. (runType = "continuous" /\ ~mFailed => Remembers)'
  BY <1>1, WrapperAssumption DEF Retries, Remembers
<1> QED BY <1>1, <1>2, <1>3, <1>4 DEF Retries, RestartsBounded

\* A start that checkFailureRate allows: of those that are recent at most one is
\* not on the record, and the record is not too long.
LEMMA RetryRetries ==
  ASSUME TypeOK, Retries, Retry
  PROVE  Retries'
<1> DEFINE n == Len(starts)
<1>1. /\ starts \in Seq(Nat) /\ n \in Nat /\ now \in Nat /\ mRetryTimes \in Seq(Nat)
      /\ UNCHANGED <<runType, mFailed, now>> /\ starts' = Append(starts, now)
      /\ at = "loop" /\ at' = "fork" /\ runType \in {"continuous", "once"}
  BY WrapperAssumption DEF Retry, At, TypeOK
<1>2. /\ starts' \in Seq(Nat) /\ Len(starts') = n + 1 /\ starts'[n + 1] = now
      /\ \A i \in 1 .. n : starts'[i] = starts[i]
  BY <1>1
<1>3. \A i \in 1 .. n : starts[i] \in Nat /\ starts[i] <= now
  BY <1>1 DEF Retries
<1>4. (Sorted(starts) /\ \A i \in DOMAIN starts : starts[i] <= now)'
  BY <1>1, <1>2, <1>3 DEF Retries, Sorted
<1>5. ASSUME NEW t \in 0 .. now, t < now PROVE Recent(t)' = Recent(t)
  BY <1>1, <1>2, <1>5 DEF Recent
<1>6. ASSUME NEW lo \in 0 .. n + 1, n + 1 - lo <= MaxRetries + 1,
             \A i \in 1 .. lo - 1 : now - starts[i] > RetryWindow
      PROVE  RestartsBounded'
  <2>1. Recent(now)' \subseteq lo .. n + 1
    BY <1>1, <1>2, <1>6, WrapperAssumption DEF Recent
  <2>2. IsFiniteSet(lo .. n + 1) /\ Cardinality(lo .. n + 1) = n + 1 - lo + 1
    BY <1>1, <1>6, FS_Interval
  <2>3. Cardinality(Recent(now)') <= n + 1 - lo + 1 /\ Cardinality(Recent(now)') \in Nat
    BY <2>1, <2>2, FS_Subset, FS_CardinalityType
  <2>4. Cardinality(Recent(now)') <= MaxRetries + 2
    BY <1>1, <1>6, <2>3, WrapperAssumption
  <2>5. ASSUME NEW t \in 0 .. now PROVE (Cardinality(Recent(t)) <= MaxRetries + 2)'
    <3>1. CASE t = now
      BY <1>1, <2>4, <3>1
    <3>2. CASE t < now
      BY <1>1, <1>5, <3>2 DEF Retries, RestartsBounded
    <3> QED BY <1>1, <3>1, <3>2
  <2> QED BY <1>1, <2>5 DEF RestartsBounded
<1>7. CASE runType = "once"
  <2>1. n = 0
    BY <1>1, <1>7 DEF Retries
  <2>2. RestartsBounded'
    <3>1. \A i \in 1 .. 1 - 1 : now - starts[i] > RetryWindow
      OBVIOUS
    <3> QED BY <1>6, <2>1, <3>1, WrapperAssumption
  <2> QED BY <1>1, <1>2, <1>4, <1>7, <2>1, <2>2 DEF Retries
<1>8. CASE runType = "continuous"
  <2>1. /\ ~mFailed /\ ~TooMany(mRetryTimes)
        /\ mRetryTimes' = Append(Pruned(mRetryTimes), now) /\ Remembers
    BY <1>1, <1>8 DEF Retry, Retries
  <2> DEFINE m == Len(mRetryTimes)
             gone == n - m
  <2>2. /\ m \in Nat /\ gone \in Nat /\ \A i \in 1 .. m : mRetryTimes[i] = starts[gone + i]
        /\ \A i \in 1 .. gone - 1 : now - starts[i] > RetryWindow
    BY <1>1, <2>1 DEF Remembers
  <2>2a. n = gone + m /\ DOMAIN mRetryTimes = 1 .. m /\ DOMAIN starts = 1 .. n
    BY <1>1, <2>2
  <2>2b. \A i, j \in 1 .. n : i <= j => starts[i] <= starts[j]
    BY <2>2a DEF Retries, Sorted
  <2> HIDE DEF n, m, gone
  <2>3. Sorted(mRetryTimes)
    <3>1. \A i \in 1 .. m : gone + i \in 1 .. n
      BY <1>1, <2>2, <2>2a
    <3>2. ASSUME NEW i \in 1 .. m, NEW j \in 1 .. m, i <= j
          PROVE  mRetryTimes[i] <= mRetryTimes[j]
      BY <2>2, <2>2b, <3>1, <3>2
    <3> QED BY <2>2a, <3>2 DEF Sorted
  <2>4. PICK d \in 0 .. m :
          /\ Len(Pruned(mRetryTimes)) = m - d /\ m - d <= MaxRetries
          /\ \A i \in 1 .. m - d : Pruned(mRetryTimes)[i] = mRetryTimes[d + i]
          /\ d > 0 => 1 \in Old(mRetryTimes)
          /\ \A i \in 1 .. d - 1 : i \in Old(mRetryTimes)
    BY <1>1, <2>1, <2>3, PrunedKeeps DEF m
  <2>4a. d \in Nat /\ d <= m /\ m - d <= MaxRetries /\ MaxRetries \in Nat
         /\ m \in Nat /\ gone \in Nat /\ n = gone + m
    BY <2>2, <2>2a, <2>4, WrapperAssumption
  <2>5. ASSUME NEW i \in 1 .. gone + d - 1 PROVE now - starts[i] > RetryWindow
    <3>1. CASE i < gone
      BY <2>2, <3>1
    <3>2. CASE i = gone
      <4>1. d > 0 /\ 1 \in Old(mRetryTimes)
        BY <2>2, <2>4, <2>5, <3>2
      <4>2. starts[gone] <= starts[gone + 1] /\ gone + 1 \in 1 .. n
        BY <2>2, <2>2a, <2>2b, <2>4, <2>5, <3>2, <4>1
      <4>3. now - starts[gone + 1] > RetryWindow
        <5>1. mRetryTimes[1] = starts[gone + 1]
          BY <2>2, <2>4, <4>1
        <5> QED BY <4>1, <5>1 DEF Old
      <4>4. gone \in 1 .. n
        BY <2>2, <2>2a, <2>5, <3>2, <4>2
      <4>5. starts[gone] \in Nat /\ starts[gone + 1] \in Nat
        BY <1>3, <4>2, <4>4
      <4>6. now - starts[gone] > RetryWindow
        <5>1. ASSUME NEW x \in Nat, NEW y \in Nat, x <= y, now - y > RetryWindow
              PROVE  now - x > RetryWindow
          BY <1>1, <5>1, WrapperAssumption
        <5> QED BY <4>2, <4>3, <4>5, <5>1
      <4> QED BY <3>2, <4>6
    <3>3. CASE i > gone
      <4>1. i - gone \in 1 .. d - 1
        BY <2>2, <2>4, <2>5, <3>3
      <4>2. i - gone \in Old(mRetryTimes) /\ mRetryTimes[i - gone] = starts[i]
        <5>1. i - gone \in 1 .. m /\ gone + (i - gone) = i
          BY <2>2, <2>4, <4>1
        <5> QED BY <2>2, <2>4, <4>1, <5>1
      <4> QED BY <4>2 DEF Old
    <3> QED BY <2>2, <2>4, <2>5, <3>1, <3>2, <3>3
  <2>6. RestartsBounded'
    <3>1. gone + d \in 0 .. n + 1 /\ n + 1 - (gone + d) <= MaxRetries + 1
      BY <2>4a
    <3>2. \A i \in 1 .. (gone + d) - 1 : now - starts[i] > RetryWindow
      BY <2>4a, <2>5
    <3> QED BY <1>6, <3>1, <3>2
  <2>7. Remembers'
    <3>1. Pruned(mRetryTimes) \in Seq(Nat)
      BY <1>1, PrunedType
    <3>2. /\ Len(mRetryTimes') = m - d + 1 /\ mRetryTimes'[m - d + 1] = now
          /\ \A i \in 1 .. m - d : mRetryTimes'[i] = Pruned(mRetryTimes)[i]
      <4>1. now \in Nat /\ mRetryTimes' = Append(Pruned(mRetryTimes), now)
            /\ Len(Pruned(mRetryTimes)) = m - d
        BY <1>1, <2>1, <2>4
      <4> QED BY <3>1, <4>1, AppendProperties
    <3>3. Len(starts') - Len(mRetryTimes') = gone + d
      BY <1>2, <2>2, <2>2a, <2>4, <3>2
    <3>4. \A i \in 1 .. m - d + 1 : mRetryTimes'[i] = starts'[gone + d + i]
      <4>1. mRetryTimes'[m - d + 1] = starts'[gone + d + (m - d + 1)]
        <5>1. gone + d + (m - d + 1) = n + 1
          BY <2>4a
        <5> QED BY <1>2, <3>2, <5>1
      <4>2. ASSUME NEW i \in 1 .. m - d PROVE mRetryTimes'[i] = starts'[gone + d + i]
        <5>1. mRetryTimes'[i] = mRetryTimes[d + i] /\ d + i \in 1 .. m
          BY <2>2, <2>4, <3>2
        <5>2. mRetryTimes[d + i] = starts[gone + (d + i)] /\ gone + (d + i) \in 1 .. n
          BY <1>1, <2>2, <2>2a, <5>1
        <5>3. gone + d + i = gone + (d + i)
          BY <2>2, <2>4
        <5> QED BY <1>2, <5>1, <5>2, <5>3
      <4>3. \A i \in 1 .. m - d + 1 : i \in 1 .. m - d \/ i = m - d + 1
        BY <2>2, <2>4
      <4> QED BY <4>1, <4>2, <4>3
    <3>5. \A i \in 1 .. gone + d - 1 : now' - starts'[i] > RetryWindow
      BY <1>1, <1>2, <2>2, <2>2a, <2>4, <2>5
    <3>6. gone + d \in Nat
      BY <2>2, <2>4
    <3> DEFINE l == Len(mRetryTimes')
               g == Len(starts') - l
    <3>7. l = m - d + 1 /\ g = gone + d
      BY <3>2, <3>3
    <3> HIDE DEF l, g
    <3>8. /\ g \in Nat
          /\ \A i \in 1 .. l : mRetryTimes'[i] = starts'[g + i]
          /\ \A i \in 1 .. g - 1 : now' - starts'[i] > RetryWindow
      BY <2>4a, <3>4, <3>5, <3>6, <3>7
    <3> QED BY <3>8 DEF Remembers, g, l
  <2> QED BY <1>1, <1>4, <1>8, <2>6, <2>7 DEF Retries
<1> QED BY <1>1, <1>7, <1>8

LEMMA RetriesInit == Init => Retries
<1> SUFFICES ASSUME Init PROVE Retries
  OBVIOUS
<1>1. starts = <<>> /\ mRetryTimes = <<>> /\ now = 0 /\ at = "new"
  BY DEF Init
<1>2. \A t : Recent(t) = {}
  BY <1>1 DEF Recent
<1>3. RestartsBounded
  BY <1>2, FS_EmptySet, WrapperAssumption DEF RestartsBounded
<1>4. Remembers /\ Sorted(starts)
  BY <1>1 DEF Remembers, Sorted
<1> QED BY <1>1, <1>3, <1>4 DEF Retries

LEMMA RetriesStep ==
  ASSUME TypeOK, Retries, Next
  PROVE  Retries'
<1>1. CASE Begin \/ Leave \/ GiveUp \/ Fork \/ ForkFails \/ NoLogSpace \/ Record \/ Watched
           \/ Unstarted \/ Unreadable
  BY <1>1, RetriesKept
     DEF Begin, Leave, GiveUp, Fork, ForkFails, NoLogSpace, Record, Watched, Unstarted,
         Unreadable, At, TypeOK
<1>2. CASE Reap \/ Forget \/ Evaluate \/ Terminate \/ Stop \/ Kill \/ Exec \/ Exit
  BY <1>2, RetriesKept DEF Reap, Forget, Evaluate, Terminate, Stop, Kill, Exec, Exit, At, TypeOK
<1> QED BY <1>1, <1>2, RetryRetries, TickRetries DEF Next, Run

LEMMA InvAlways == Spec => [](Inv /\ Retries)
<1>1. ASSUME Inv, Retries, [Next]_vars PROVE (Inv /\ Retries)'
  <2>1. CASE Next
    BY <1>1, <2>1, RunStep, OtherStep, RetriesStep DEF Next, Inv
  <2>2. CASE UNCHANGED vars
    <3>1. Inv'
      BY <1>1, <2>2 DEF vars, Inv, TypeOK, Children, ReadersFailed
    <3> QED BY <1>1, <2>2, <3>1, RetriesKept DEF vars
  <2> QED BY <1>1, <2>1, <2>2
<1> QED BY <1>1, InvInit, RetriesInit, PTL DEF Spec

-----------------------------------------------------------------------------
\* The variables of the wrapper's thread, its child and whoever stops it keep
\* their types.
THEOREM WrapperTyping == Spec => []TypeOK
<1>1. Inv => TypeOK
  BY DEF Inv
<1> QED BY <1>1, InvAlways, PTL

\* For any retry limits and faults, a wrapper's thread that has ended has reaped
\* its child, and a later stop() signals no child's pid - unless it was a reader
\* that could not be started.
THEOREM WrapperLeavesNoChild == Spec => []LeavesNoChild
<1>1. Inv => LeavesNoChild
  BY DEF Inv, Children, Childless, Unknowing, LeavesNoChild, ReadersFailed
<1> QED BY <1>1, InvAlways, PTL

\* For any limit, window and clock, and however often a recent start is forgotten with
\* the old ones, no window sees more than one start more than the configuration allows.
THEOREM WrapperRestartsBounded == Spec => []RestartsBounded
<1>1. Retries => RestartsBounded
  BY DEF Retries
<1> QED BY <1>1, InvAlways, PTL

-----------------------------------------------------------------------------
(* The wrapper with its process's output.                                  *)

\* Only a process that runs can wait to write.
WriterWaits == out.pipe = "full" => child \in {"app", "told"}

OutputInv == Inv /\ Retries /\ out \in OutState /\ WriterWaits

LEMMA OutputInvInit == OutputInit => OutputInv
<1>1. OutputInit => Inv /\ Retries
  BY InvInit, RetriesInit DEF OutputInit
<1>2. OutputInit => out \in OutState /\ WriterWaits
  BY DEF OutputInit, NoOutput, OutState, WriterWaits
<1> QED BY <1>1, <1>2 DEF OutputInv

\* The daemon's end changes nothing that its invariant speaks of.
LEMMA CrashStep ==
  ASSUME OutputInv, ReaderFails
  PROVE  OutputInv'
<1>1. daemon' = "crashed" /\ UNCHANGED <<runType, at, mExternalStop, mFailed, mRetryTimes,
        mChildPID, mRunning, readers, child, status, stopper, now, starts>>
  BY DEF ReaderFails, LogNotOpened, StrayCrashes
<1>2. Inv' /\ Retries'
  <2>1. Inv'
    BY <1>1 DEF OutputInv, Inv, TypeOK, Children, ReadersFailed
  <2> QED BY <1>1, <2>1, RetriesKept DEF OutputInv
<1>3. out' \in OutState /\ WriterWaits'
  BY <1>1 DEF OutputInv, ReaderFails, LogNotOpened, StrayCrashes, OutState, WriterWaits
<1> QED BY <1>2, <1>3 DEF OutputInv

\* A reader only empties the pipe, a process only fills its own.
LEMMA ReaderStep ==
  ASSUME OutputInv, Reader \/ StrayEnds \/ Write
  PROVE  OutputInv'
<1>1. UNCHANGED vars
  BY DEF Reader, OpenLog, TestReading, Read, EndOfFile, EndRead, StrayEnds, Write
<1>2. Inv' /\ Retries'
  <2>1. Inv'
    BY <1>1 DEF OutputInv, Inv, TypeOK, Children, ReadersFailed, vars
  <2> QED BY <1>1, <2>1, RetriesKept DEF OutputInv, vars
<1>3. child' = child
  BY <1>1 DEF vars
<1>4. out' \in OutState /\ WriterWaits'
  BY <1>3 DEF OutputInv, Reader, OpenLog, TestReading, Read, EndOfFile, EndRead,
              StrayEnds, Write, OutState, WriterWaits
<1> QED BY <1>2, <1>4 DEF OutputInv

\* Every other step is the wrapper's, and keeps its invariant.
LEMMA WrapperStep ==
  ASSUME OutputInv, OutputRun \/ KillOutput \/ Exits \/ ((Stop \/ Exec \/ Tick) /\ UNCHANGED out)
  PROVE  OutputInv'
<1>1. Run \/ Stop \/ Kill \/ Exec \/ Exit \/ Tick
  BY DEF OutputRun, NewPipes, NewReaders, StartReaders, StartFails, StopReaders, KillOutput,
         Exits, Run
<1>2. Inv' /\ Retries'
  BY <1>1, RunStep, OtherStep, RetriesStep DEF OutputInv, Inv, Next
<1>3. CASE NewPipes \/ NewReaders \/ StopReaders
  <2>1. out' \in OutState
    BY <1>3 DEF OutputInv, NewPipes, NewReaders, StopReaders, OutState, Busy
  <2>2. WriterWaits'
    BY <1>3 DEF OutputInv, NewPipes, NewReaders, StopReaders, Record, Forget, OutState, WriterWaits
  <2> QED BY <1>2, <2>1, <2>2 DEF OutputInv
<1>4. CASE StartReaders \/ KillOutput \/ StartFails
  <2>1. out' \in OutState
    BY <1>4 DEF OutputInv, StartReaders, KillOutput, StartFails, OutState
  <2>2. out'.pipe = out.pipe /\ (child \in {"app", "told"} => child' \in {"app", "told"})
    BY <1>4 DEF OutputInv, StartReaders, KillOutput, StartFails, OutState, Watched, Kill,
                Unstarted, Signalled
  <2> QED BY <1>2, <2>1, <2>2 DEF OutputInv, WriterWaits
<1>5. CASE Exits
  <2>1. out' \in OutState /\ out'.pipe # "full"
    BY <1>5 DEF OutputInv, Exits, OutState
  <2> QED BY <1>2, <2>1 DEF OutputInv, WriterWaits
<1>6. CASE UNCHANGED out /\ ~(Exits \/ StartReaders \/ KillOutput \/ StartFails
                              \/ NewPipes \/ NewReaders \/ StopReaders)
  <2>1. CASE UNCHANGED child
    BY <1>2, <1>6, <2>1 DEF OutputInv, WriterWaits
  <2>2. CASE child \notin {"app", "told"}
    BY <1>2, <1>6, <2>2 DEF OutputInv, WriterWaits
  <2>3. CASE child \in {"app", "told"} /\ child' # child
    <3>1. CASE Begin \/ Leave \/ GiveUp \/ Retry \/ ForkFails \/ NoLogSpace
               \/ Unreadable \/ Reap \/ Evaluate \/ Terminate
      BY <2>3, <3>1 DEF Begin, Leave, GiveUp, Retry, ForkFails, NoLogSpace, Unreadable,
                        Reap, Evaluate, Terminate
    <3>2. CASE Stop \/ Exec \/ Tick
      BY <2>3, <3>2 DEF Stop, Exec, Tick
    <3> QED BY <1>6, <3>1, <3>2 DEF OutputRun
  <2> QED BY <2>1, <2>2, <2>3
<1> QED BY <1>3, <1>4, <1>5, <1>6 DEF OutputRun

LEMMA OutputInvAlways == OutputSpec => []OutputInv
<1>1. ASSUME OutputInv, [OutputNext]_outputVars PROVE OutputInv'
  <2>1. CASE OutputNext
    BY <1>1, <2>1, CrashStep, ReaderStep, WrapperStep DEF OutputNext
  <2>2. CASE UNCHANGED outputVars
    <3>1. Inv' /\ out' \in OutState /\ WriterWaits'
      BY <1>1, <2>2 DEF outputVars, vars, OutputInv, Inv, TypeOK, Children, ReadersFailed,
                        WriterWaits
    <3> QED BY <1>1, <2>2, <3>1, RetriesKept DEF OutputInv, outputVars, vars
  <2> QED BY <1>1, <2>1, <2>2
<1> QED BY <1>1, OutputInvInit, PTL DEF OutputSpec

-----------------------------------------------------------------------------
\* The pipe and the readers of a process keep their types, beside the wrapper's.
THEOREM OutputTyping == OutputSpec => []OutputTypeOK
<1>1. OutputInv => OutputTypeOK
  BY DEF OutputInv, Inv, OutputTypeOK
<1> QED BY <1>1, OutputInvAlways, PTL

\* With the readers, their log files and what an object deleted under its thread
\* may do, a thread that has ended has still reaped its child, but where a reader
\* failed to start.
THEOREM OutputLeavesNoChild == OutputSpec => []LeavesNoChild
<1>1. OutputInv => LeavesNoChild
  BY DEF OutputInv, Inv, Children, Childless, Unknowing, LeavesNoChild
<1> QED BY <1>1, OutputInvAlways, PTL

\* Nor do they add to the starts that a window may see.
THEOREM OutputRestartsBounded == OutputSpec => []RestartsBounded
<1>1. OutputInv => RestartsBounded
  BY DEF OutputInv, Retries
<1> QED BY <1>1, OutputInvAlways, PTL
=============================================================================
