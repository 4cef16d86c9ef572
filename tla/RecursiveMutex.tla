---------------------------- MODULE RecursiveMutex ----------------------------
(***************************************************************************)
(* SC_RecursiveMutex: the lock of the daemon's state queue, the process    *)
(* manager, the director's books, the ini file and the loggers.  It counts *)
(* nested calls itself, on top of a pthread mutex that is recursive too,   *)
(* and reads mThreadId and mCounter before it holds anything.              *)
(*                                                                         *)
(* mThreadId is an unsigned int; pthread_self() has the width of a long.   *)
(* Where both are 32 bits wide every id fits (Narrow); under LP64 the ids  *)
(* are addresses and none does (Wide).                                     *)
(***************************************************************************)
EXTENDS Integers

CONSTANTS
  Threads,
  Id,            \* pthread_self() of each thread
  IdBound,       \* one more than the largest unsigned int
  MaxDepth,      \* bound on the nesting of calls
  NoThread

Narrow == \A t \in Threads : Id[t] < IdBound
Wide   == \A t \in Threads : Id[t] >= IdBound

ASSUME MutexAssumption ==
  /\ IdBound \in Nat \ {0} /\ MaxDepth \in Nat
  /\ Id \in [Threads -> Nat \ {0}]
  /\ \A t, u \in Threads : Id[t] = Id[u] => t = u
  /\ Narrow \/ Wide
  /\ NoThread \notin Threads

VARIABLES
  mThreadId, mCounter,
  owner, count,      \* the pthread mutex: who has it, and how many times
  at,                \* where each thread is in lock() or unlock()
  depth              \* history: the calls of lock() that it has to unlock

vars == <<mThreadId, mCounter, owner, count, at, depth>>

-----------------------------------------------------------------------------
Goto(t, where) == at' = [at EXCEPT ![t] = where]

\* (A mistake: left to the pthread mutex, which counts as well.)
ReadId_Always(t) ==
  /\ at[t] = "user" /\ depth[t] < MaxDepth
  /\ Goto(t, "acquire")
  /\ UNCHANGED <<mThreadId, mCounter, owner, count, depth>>

\* lock(): "mThreadId != pthread_self() || mCounter == 0", without the lock.
ReadId(t) ==
  /\ at[t] = "user" /\ depth[t] < MaxDepth
  /\ Goto(t, IF mThreadId # Id[t] THEN "acquire" ELSE "readCounter")
  /\ UNCHANGED <<mThreadId, mCounter, owner, count, depth>>

ReadCounter(t) ==
  /\ at[t] = "readCounter"
  /\ Goto(t, IF mCounter = 0 THEN "acquire" ELSE "count")
  /\ UNCHANGED <<mThreadId, mCounter, owner, count, depth>>

Acquire(t) ==
  /\ at[t] = "acquire" /\ owner \in {NoThread, t}
  /\ owner' = t /\ count' = count + 1
  /\ Goto(t, "own")
  /\ UNCHANGED <<mThreadId, mCounter, depth>>

Own(t) ==
  /\ at[t] = "own"
  /\ mThreadId' = Id[t] % IdBound
  /\ Goto(t, "count")
  /\ UNCHANGED <<mCounter, owner, count, depth>>

Count(t) ==
  /\ at[t] = "count"
  /\ mCounter' = mCounter + 1
  /\ depth' = [depth EXCEPT ![t] = @ + 1]
  /\ Goto(t, "user")
  /\ UNCHANGED <<mThreadId, owner, count>>

\* unlock()
Unlock(t) ==
  /\ at[t] = "user" /\ depth[t] > 0
  /\ mCounter' = mCounter - 1
  /\ depth' = [depth EXCEPT ![t] = @ - 1]
  /\ Goto(t, IF mCounter' = 0 THEN "clear" ELSE "user")
  /\ UNCHANGED <<mThreadId, owner, count>>

\* (A mistake: the last owner stays on record.)
Clear_Kept(t) ==
  /\ at[t] = "clear"
  /\ Goto(t, "release")
  /\ UNCHANGED <<mThreadId, mCounter, owner, count, depth>>

Clear(t) ==
  /\ at[t] = "clear"
  /\ mThreadId' = 0
  /\ Goto(t, "release")
  /\ UNCHANGED <<mCounter, owner, count, depth>>

Release(t) ==
  /\ at[t] = "release"
  /\ count' = count - 1
  /\ owner' = IF count' = 0 THEN NoThread ELSE owner
  /\ Goto(t, "user")
  /\ UNCHANGED <<mThreadId, mCounter, depth>>

Init ==
  /\ mThreadId = 0 /\ mCounter = 0
  /\ owner = NoThread /\ count = 0
  /\ at = [t \in Threads |-> "user"]
  /\ depth = [t \in Threads |-> 0]

Finish(t) == \/ ReadCounter(t) \/ Acquire(t) \/ Own(t) \/ Count(t)
             \/ Unlock(t) \/ Clear(t) \/ Release(t)

Step(t) == ReadId(t) \/ Finish(t)

Next == \E t \in Threads : Step(t)

Spec == Init /\ [][Next]_vars

\* A thread in a call goes on, and what it has locked it unlocks.
FairSpec == Spec /\ \A t \in Threads : WF_vars(Finish(t))

-----------------------------------------------------------------------------
(* Properties.                                                             *)

TypeOK ==
  /\ mThreadId \in Nat /\ mCounter \in Nat
  /\ owner \in Threads \cup {NoThread} /\ count \in Nat
  /\ at \in [Threads -> {"user", "acquire", "readCounter", "own", "count", "clear",
                         "release"}]
  /\ depth \in [Threads -> Nat]

\* Although lock() looks at mThreadId and mCounter without holding anything,
\* two threads never are between lock() and unlock() at once.
Exclusion == \A t, u \in Threads : depth[t] > 0 /\ depth[u] > 0 => t = u

\* Once every lock() has been unlocked, the mutex is free.
Released ==
  (\A t \in Threads : at[t] = "user" /\ depth[t] = 0) => owner = NoThread

\* lock() and unlock() are those of the abstract lock.
Abstract == INSTANCE RecursiveLock
ImplementsLock == Abstract!Spec

\* A thread that waits for the mutex does not wait while nobody gets it.
SomebodyGetsIt ==
  \A t \in Threads : at[t] = "acquire" ~> \E u \in Threads : depth[u] > 0
=============================================================================
