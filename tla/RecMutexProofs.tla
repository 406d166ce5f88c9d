-------------------------- MODULE RecMutexProofs ----------------------------
(***************************************************************************)
(* Proofs about the recursive mutex, for every set of threads and every    *)
(* nesting depth.                                                          *)
(***************************************************************************)
EXTENDS RecMutex, TLAPS

Owns(t) == owner = t /\ count > 0

GuardSteps == {"check", "own", "leave", "ucheck", "unreal", "disown", "uleave"}

\* Until pthread_once() is over nothing has happened to the mutex.
OnceInv ==
    /\ \A t \in Threads : pc[t] = "init" => once = "busy"
    /\ \A t, u \in Threads : pc[t] = "init" /\ pc[u] = "init" => t = u
    /\ init <=> once = "done"
    /\ ~init => /\ \A t \in Threads : pc[t] \in {"out", "once", "init"}
                /\ guard = NoThread /\ real = NoThread
                /\ owner = NoThread /\ count = 0

GuardInv == \A t \in Threads : guard = t <=> pc[t] \in GuardSteps

\* Who holds real: a thread on its way to become the owner, the owner, or the
\* last owner that is about to release it.
RealInv ==
    \A t \in Threads :
        real = t <=> Owns(t) \/ pc[t] \in {"reenter", "own", "unreal"}

OwnerInv ==
    /\ count > 0 => owner # NoThread
    /\ \A t \in Threads :
        /\ owner = t => count > 0 \/ pc[t] \in {"unreal", "disown"}
        /\ pc[t] \in {"unreal", "disown"} => owner = t /\ count = 0
        /\ pc[t] \in {"reenter", "own"} => count = 0

\* An owner's count is its depth, but for the call it is in the middle of.
DepthInv ==
    \A t \in Threads :
        IF Owns(t)
        THEN count = depth[t] + IF pc[t] \in {"leave", "uenter", "ucheck"}
                                THEN 1 ELSE 0
        ELSE depth[t] = 0 /\ pc[t] # "leave"

IInv == TypeOK /\ OnceInv /\ GuardInv /\ RealInv /\ OwnerInv /\ DepthInv

LEMMA InitIInv == Init => IInv
<1> SUFFICES ASSUME Init PROVE IInv
  OBVIOUS
<1> USE DEF Init
<1>1. TypeOK
  BY DEF TypeOK
<1>2. OnceInv
  BY DEF OnceInv
<1>3. \A t \in Threads : t # NoThread /\ pc[t] = "out" /\ depth[t] = 0
  BY ThreadsAssumption
<1>4. GuardInv /\ RealInv
  BY <1>3 DEF GuardInv, RealInv, Owns, GuardSteps
<1>5. OwnerInv /\ DepthInv
  BY <1>3 DEF OwnerInv, DepthInv, Owns
<1> QED
  BY <1>1, <1>2, <1>4, <1>5 DEF IInv

\* Each step of the code keeps IInv.
LEMMA NextIInv == IInv /\ [Next]_vars => IInv'
<1> SUFFICES ASSUME IInv, [Next]_vars PROVE IInv'
  OBVIOUS
<1> USE ThreadsAssumption
    DEF IInv, TypeOK, OnceInv, GuardInv, RealInv, OwnerInv, DepthInv,
        Owns, GuardSteps, LockSteps, UnlockSteps, Goto
<1>1. CASE UNCHANGED vars
  BY <1>1 DEF vars
<1>2. ASSUME NEW t \in Threads, CallLock(t) PROVE IInv'
  BY <1>2 DEF CallLock
<1>3. ASSUME NEW t \in Threads, LockStep(t) PROVE IInv'
  <2>1. CASE OnceFirst(t)
    BY <2>1 DEF OnceFirst
  <2>2. CASE InitMutexes(t)
    BY <2>2 DEF InitMutexes
  <2>3. CASE OncePassed(t)
    BY <2>3 DEF OncePassed
  <2>4. CASE Enter(t)
    BY <2>4 DEF Enter, LockGuard
  <2>5. CASE LockAgain(t)
    BY <2>5 DEF LockAgain
  <2>6. CASE LockFirst(t)
    BY <2>6 DEF LockFirst, UnlockGuard
  <2>7. CASE LockReal(t)
    BY <2>7 DEF LockReal
  <2>8. CASE Reenter(t)
    BY <2>8 DEF Reenter, LockGuard
  <2>9. CASE Own(t)
    BY <2>9 DEF Own
  <2>10. CASE Leave(t)
    BY <2>10 DEF Leave, UnlockGuard
  <2> QED
    BY <1>3, <2>1, <2>2, <2>3, <2>4, <2>5, <2>6, <2>7, <2>8, <2>9, <2>10
    DEF LockStep
<1>4. ASSUME NEW t \in Threads, CallUnlock(t) PROVE IInv'
  BY <1>4 DEF CallUnlock
<1>5. ASSUME NEW t \in Threads, UnlockStep(t) PROVE IInv'
  <2>1. CASE UEnter(t)
    BY <2>1 DEF UEnter, LockGuard
  <2>2. CASE UnlockOwned(t)
    BY <2>2 DEF UnlockOwned
  <2>3. CASE UnlockStray(t)
    BY <2>3 DEF UnlockStray
  <2>4. CASE UnlockReal(t)
    BY <2>4 DEF UnlockReal
  <2>5. CASE Disown(t)
    BY <2>5 DEF Disown
  <2>6. CASE ULeave(t)
    BY <2>6 DEF ULeave, UnlockGuard
  <2> QED
    BY <1>5, <2>1, <2>2, <2>3, <2>4, <2>5, <2>6 DEF UnlockStep
<1> QED
  BY <1>1, <1>2, <1>3, <1>4, <1>5 DEF Next

LEMMA IInvHolds == Spec => []IInv
  BY InitIInv, NextIInv, PTL DEF Spec

\* Every variable of mutex.c keeps its type.
THEOREM TypeCorrect == Spec => []TypeOK
<1>1. IInv => TypeOK
  BY DEF IInv
<1> QED
  BY <1>1, IInvHolds, PTL

\* No two threads are ever inside the library together, however many threads
\* there are and however deeply they nest their calls.
THEOREM MutexIsExclusive == Spec => []MutualExclusion
<1>1. IInv => MutualExclusion
  BY DEF IInv, TypeOK, DepthInv, Owns, MutualExclusion, Inside
<1> QED
  BY <1>1, IInvHolds, PTL

\* The owner's count is the number of its outstanding lock calls.
THEOREM CountIsDepth == Spec => []DepthMatchesCount
<1>1. IInv => DepthMatchesCount
  BY DEF IInv, TypeOK, RealInv, DepthInv, Owns, DepthMatchesCount, Inside
<1> QED
  BY <1>1, IInvHolds, PTL

\* Once all threads are outside and idle the mutex is free.
THEOREM FreeWhenIdle == Spec => []NothingLeftLocked
<1>1. IInv => NothingLeftLocked
  BY DEF IInv, TypeOK, GuardInv, RealInv, OwnerInv, DepthInv, Owns,
         GuardSteps, NothingLeftLocked, Inside
<1> QED
  BY <1>1, IInvHolds, PTL

\* The two plain mutexes and the owner word implement the abstract lock.
THEOREM Refinement == Spec => ImplementsRecLock
<1>1. Init => Abstract!Init
  BY DEF Init, Abstract!Init
<1>2. IInv /\ [Next]_vars => [Abstract!Next]_depth
  <2> SUFFICES ASSUME IInv, [Next]_vars PROVE [Abstract!Next]_depth
    OBVIOUS
  <2>1. ASSUME NEW t \in Threads, Leave(t) PROVE Abstract!Acquire(t)
    BY <2>1 DEF Leave, Goto, IInv, TypeOK, DepthInv, Owns, Abstract!Acquire
  <2>2. ASSUME NEW t \in Threads, CallUnlock(t)
        PROVE Abstract!Release(t) \/ UNCHANGED depth
    <3> USE <2>2 DEF CallUnlock, IInv, TypeOK
    <3>1. CASE depth[t] > 0
      BY <3>1 DEF Abstract!Release
    <3>2. CASE ~(depth[t] > 0)
      <4>1. depth[t] = 0 /\ depth' = [depth EXCEPT ![t] = 0]
        BY <3>2
      <4> QED
        BY <4>1
    <3> QED
      BY <3>1, <3>2
  <2>3. ASSUME NEW t \in Threads,
               CallLock(t) \/ (LockStep(t) /\ ~Leave(t)) \/ UnlockStep(t)
        PROVE UNCHANGED depth
    BY <2>3 DEF CallLock, LockStep, UnlockStep, OnceFirst, InitMutexes,
       OncePassed, Enter, LockAgain, LockFirst, LockReal, Reenter, Own,
       UEnter, UnlockOwned, UnlockStray, UnlockReal, Disown, ULeave
  <2>4. CASE UNCHANGED vars
    BY <2>4 DEF vars
  <2> QED
    BY <2>1, <2>2, <2>3, <2>4 DEF Next, Abstract!Next
<1> QED
  BY <1>1, <1>2, IInvHolds, PTL DEF Spec, ImplementsRecLock, Abstract!Spec
=============================================================================
