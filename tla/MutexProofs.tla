----------------------------- MODULE MutexProofs -----------------------------
(***************************************************************************)
(* The mutex excludes, whatever the width of a thread id; where every id   *)
(* fits mThreadId it is also released.  What makes the unlocked reads      *)
(* harmless is Record: mThreadId is a thread's own id only while that      *)
(* thread has locked.                                                      *)
(***************************************************************************)
EXTENDS RecursiveMutex, TLAPS

\* What mThreadId holds for a thread that has set it.
Short(t) == Id[t] % IdBound

Free == owner = NoThread => mThreadId = 0 /\ mCounter = 0 /\ count = 0

Others == \A t \in Threads : t # owner => depth[t] = 0 /\ at[t] \in {"user", "acquire"}

Record == mThreadId # 0 => owner # NoThread /\ mThreadId = Short(owner)

Owner ==
  owner # NoThread =>
    /\ count > 0 /\ mCounter = depth[owner]
    /\ at[owner] \in {"user", "acquire"} /\ mThreadId # 0 => depth[owner] > 0
    /\ at[owner] = "readCounter" => depth[owner] > 0
    /\ at[owner] \in {"clear", "release"} => depth[owner] = 0
    /\ at[owner] = "release" => mThreadId = 0

Inv == TypeOK /\ Free /\ Others /\ Record /\ Owner

\* Where ids fit, the owner has taken the pthread mutex exactly once.
Once ==
  owner # NoThread =>
    /\ count = 1 /\ at[owner] # "acquire"
    /\ at[owner] \in {"user", "readCounter", "count"} => mThreadId = Id[owner]
    /\ at[owner] \in {"user", "readCounter"} => depth[owner] > 0

-----------------------------------------------------------------------------
\* The id on record is less than IdBound, and is the thread's own if that fits.
LEMMA ShortId ==
  ASSUME NEW t \in Threads
  PROVE  /\ Id[t] \in Nat /\ Id[t] # 0
         /\ Short(t) \in Nat /\ Short(t) < IdBound
         /\ Id[t] < IdBound => Short(t) = Id[t]
  BY MutexAssumption DEF Short

\* Only a thread that has locked finds its own id in mThreadId.
LEMMA OwnIdMeansOwner ==
  ASSUME Inv, NEW t \in Threads, mThreadId = Id[t]
  PROVE  owner = t
<1>1. mThreadId # 0 /\ owner # NoThread /\ mThreadId = Short(owner) /\ owner \in Threads
  BY ShortId DEF Inv, Record, TypeOK
<1>2. Id[t] < IdBound
  BY <1>1, ShortId
<1>3. Narrow
  <2>1. ~Wide
    BY <1>2, ShortId, MutexAssumption DEF Wide
  <2> QED BY <2>1, MutexAssumption
<1>4. Short(owner) = Id[owner]
  BY <1>1, <1>3, ShortId DEF Narrow
<1> QED BY <1>1, <1>4, MutexAssumption

-----------------------------------------------------------------------------
LEMMA InvInit == Init => Inv
<1> SUFFICES ASSUME Init PROVE Inv
  OBVIOUS
<1>1. TypeOK
  BY MutexAssumption DEF Init, TypeOK
<1>2. Free /\ Others /\ Record /\ Owner
  BY DEF Init, Free, Others, Record, Owner
<1> QED BY <1>1, <1>2 DEF Inv

LEMMA InvStep ==
  ASSUME Inv, NEW t \in Threads, Step(t)
  PROVE  Inv'
<1> USE DEF Inv, TypeOK, Goto
<1>0. NoThread \notin Threads
  BY MutexAssumption
<1>1. CASE ReadId(t)
  <2>1. mThreadId = Id[t] => owner = t
    BY OwnIdMeansOwner
  <2>2. mThreadId = Id[t] => mThreadId # 0
    BY ShortId
  <2>3. TypeOK'
    BY <1>1 DEF ReadId
  <2>4. (Free /\ Others /\ Record /\ Owner)'
    BY <1>0, <1>1, <2>1, <2>2 DEF ReadId, Free, Others, Record, Owner, Short
  <2> QED BY <2>3, <2>4
<1>2. CASE ReadCounter(t)
  <2>1. owner = t /\ depth[t] > 0 /\ mCounter # 0
    BY <1>2, <1>0 DEF ReadCounter, Others, Owner
  <2> QED BY <1>2, <1>0, <2>1 DEF ReadCounter, Free, Others, Record, Owner, Short
<1>3. CASE Acquire(t)
  <2>1. TypeOK'
    BY <1>3 DEF Acquire
  <2>2. (Free /\ Others /\ Record)'
    BY <1>3, <1>0 DEF Acquire, Free, Others, Record, Owner, Short
  <2>3. Owner'
    BY <1>3, <1>0 DEF Acquire, Free, Others, Record, Owner, Short
  <2> QED BY <2>1, <2>2, <2>3
<1>4. CASE Own(t)
  <2>1. owner = t
    BY <1>4 DEF Own, Others
  <2>2. Short(t) \in Nat /\ mThreadId' = Short(t)
    BY <1>4, ShortId DEF Own, Short
  <2>3. TypeOK'
    BY <1>4, <2>2 DEF Own
  <2>4. (Free /\ Others /\ Record /\ Owner)'
    BY <1>4, <1>0, <2>1, <2>2 DEF Own, Free, Others, Record, Owner, Short
  <2> QED BY <2>3, <2>4
<1>5. CASE Count(t)
  <2>1. owner = t
    BY <1>5 DEF Count, Others
  <2>2. TypeOK'
    BY <1>5 DEF Count
  <2>3. (Free /\ Others /\ Record /\ Owner)'
    BY <1>5, <1>0, <2>1 DEF Count, Free, Others, Record, Owner, Short
  <2> QED BY <2>2, <2>3
<1>6. CASE Unlock(t)
  <2>1. owner = t
    BY <1>6 DEF Unlock, Others
  <2>2. mCounter = depth[t] /\ mCounter' = depth[t] - 1 /\ mCounter' \in Nat
    BY <1>6, <1>0, <2>1 DEF Unlock, Owner
  <2>3. TypeOK'
    BY <1>6, <2>2 DEF Unlock
  <2>4. (Free /\ Others /\ Record /\ Owner)'
    BY <1>6, <1>0, <2>1, <2>2 DEF Unlock, Free, Others, Record, Owner, Short
  <2> QED BY <2>3, <2>4
<1>7. CASE Clear(t)
  <2>1. owner = t
    BY <1>7 DEF Clear, Others
  <2> QED BY <1>7, <1>0, <2>1 DEF Clear, Free, Others, Record, Owner, Short
<1>8. CASE Release(t)
  <2>1. owner = t /\ count > 0 /\ depth[t] = 0 /\ mThreadId = 0 /\ mCounter = 0
    BY <1>8, <1>0 DEF Release, Others, Owner
  <2>2. count' \in Nat /\ count' = count - 1
    BY <1>8, <2>1 DEF Release
  <2>3. TypeOK'
    BY <1>8, <2>2 DEF Release
  <2>4. (Free /\ Others /\ Record /\ Owner)'
    BY <1>8, <1>0, <2>1, <2>2 DEF Release, Free, Others, Record, Owner, Short
  <2> QED BY <2>3, <2>4
<1> QED BY <1>1, <1>2, <1>3, <1>4, <1>5, <1>6, <1>7, <1>8 DEF Step, Finish

\* Inv is inductive.
LEMMA InvNext == Inv /\ [Next]_vars => Inv'
<1> SUFFICES ASSUME Inv, [Next]_vars PROVE Inv'
  OBVIOUS
<1>1. CASE Next
  BY <1>1, InvStep DEF Next
<1>2. CASE UNCHANGED vars
  BY <1>2 DEF vars, Inv, TypeOK, Free, Others, Record, Owner, Short
<1> QED BY <1>1, <1>2

LEMMA InvAlways == Spec => []Inv
<1> QED BY InvInit, InvNext, PTL DEF Spec

-----------------------------------------------------------------------------
\* The mutex's variables keep their types; unlock() never takes mCounter below
\* zero.
THEOREM MutexTyping == Spec => []TypeOK
<1>1. Inv => TypeOK
  BY DEF Inv
<1> QED BY <1>1, InvAlways, PTL

\* For any threads, whatever the width of their ids, no two are between lock()
\* and unlock() at once, though lock() reads mThreadId and mCounter unlocked.
THEOREM MutexExcludes == Spec => []Exclusion
<1>1. Inv => Exclusion
  BY DEF Inv, Others, TypeOK, Exclusion
<1> QED BY <1>1, InvAlways, PTL

\* The mutex is a recursive lock: each step of a thread locks or unlocks the
\* abstract lock, or leaves it alone.
THEOREM MutexImplementsLock == Spec => ImplementsLock
<1>1. Init => Abstract!Init
  BY DEF Init, Abstract!Init
<1>2. ASSUME Inv, [Next]_vars PROVE [Abstract!Next]_depth
  <2>1. CASE UNCHANGED vars
    BY <2>1 DEF vars
  <2>2. ASSUME NEW t \in Threads, Step(t)
        PROVE  Abstract!Lock(t) \/ Abstract!Unlock(t) \/ UNCHANGED depth
    <3>1. CASE Count(t)
      <4>1. owner = t
        BY <1>2, <3>1 DEF Count, Inv, Others
      <4> QED BY <1>2, <3>1, <4>1 DEF Count, Inv, Others, Abstract!Lock
    <3>2. CASE Unlock(t)
      BY <3>2 DEF Unlock, Abstract!Unlock
    <3>3. CASE \/ ReadId(t) \/ ReadCounter(t) \/ Acquire(t) \/ Own(t)
               \/ Clear(t) \/ Release(t)
      BY <3>3 DEF ReadId, ReadCounter, Acquire, Own, Clear, Release
    <3> QED BY <2>2, <3>1, <3>2, <3>3 DEF Step, Finish
  <2> QED BY <1>2, <2>1, <2>2 DEF Next, Abstract!Next
<1>3. []Inv /\ Spec => ImplementsLock
  BY <1>1, <1>2, PTL DEF Spec, ImplementsLock, Abstract!Spec
<1> QED BY <1>3, InvAlways, PTL

-----------------------------------------------------------------------------
LEMMA OnceStep ==
  ASSUME Narrow, Inv, Once, NEW t \in Threads, Step(t)
  PROVE  Once'
<1>0. NoThread \notin Threads /\ Id[t] # 0 /\ Short(t) = Id[t]
  BY MutexAssumption, ShortId DEF Narrow
<1> USE DEF Inv, TypeOK, Goto
<1>1. CASE ReadId(t)
  <2>1. mThreadId = Id[t] => owner = t
    BY OwnIdMeansOwner
  <2> QED BY <1>0, <1>1, <2>1 DEF ReadId, Once, Others
<1>2. CASE ReadCounter(t)
  <2>1. owner = t /\ mCounter # 0
    BY <1>2, <1>0 DEF ReadCounter, Others, Owner
  <2> QED BY <1>2, <1>0, <2>1 DEF ReadCounter, Once
<1>3. CASE Acquire(t)
  <2>1. owner = NoThread /\ count = 0
    BY <1>3, <1>0 DEF Acquire, Once, Free
  <2> QED BY <1>3, <1>0, <2>1 DEF Acquire, Once, Others
<1>4. CASE Own(t)
  <2>1. owner = t
    BY <1>4 DEF Own, Others
  <2> QED BY <1>4, <1>0, <2>1 DEF Own, Once, Short
<1>5. CASE Count(t)
  <2>1. owner = t
    BY <1>5 DEF Count, Others
  <2> QED BY <1>5, <1>0, <2>1 DEF Count, Once
<1>6. CASE Unlock(t)
  <2>1. owner = t /\ mCounter = depth[t]
    BY <1>6, <1>0 DEF Unlock, Others, Owner
  <2> QED BY <1>6, <1>0, <2>1 DEF Unlock, Once
<1>7. CASE Clear(t)
  <2>1. owner = t
    BY <1>7 DEF Clear, Others
  <2> QED BY <1>7, <1>0, <2>1 DEF Clear, Once
<1>8. CASE Release(t)
  <2>1. owner = t /\ count = 1
    BY <1>8, <1>0 DEF Release, Others, Once
  <2> QED BY <1>8, <2>1 DEF Release, Once
<1> QED BY <1>1, <1>2, <1>3, <1>4, <1>5, <1>6, <1>7, <1>8 DEF Step, Finish

\* Where every thread id fits mThreadId, a mutex that has been unlocked as often
\* as it was locked is free.
THEOREM MutexReleased == Narrow => (Spec => []Released)
<1> SUFFICES ASSUME Narrow PROVE Spec => []Released
  OBVIOUS
<1>1. Init => Once
  BY DEF Init, Once
<1>2. Inv /\ Once /\ [Next]_vars => Once'
  <2> SUFFICES ASSUME Inv, Once, [Next]_vars PROVE Once'
    OBVIOUS
  <2>1. CASE Next
    BY <2>1, OnceStep DEF Next
  <2>2. CASE UNCHANGED vars
    BY <2>2 DEF vars, Once
  <2> QED BY <2>1, <2>2
<1>3. Inv /\ Once => Released
  BY DEF Inv, TypeOK, Once, Released
<1> QED BY <1>1, <1>2, <1>3, InvAlways, PTL DEF Spec
=============================================================================
