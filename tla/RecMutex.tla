------------------------------ MODULE RecMutex ------------------------------
(***************************************************************************)
(* The recursive mutex of src/mutex.c, which serialises every entry point  *)
(* of the thread-safe library (savesignals() in src/inter.c takes it).     *)
(*                                                                         *)
(* Two plain mutexes make one recursive mutex: "guard" is held for a few   *)
(* instructions to read and write owner and count, "real" for as long as   *)
(* the recursive mutex is locked.  Each action is one step of a thread     *)
(* between two points at which another thread may run.                     *)
(*                                                                         *)
(* An operator whose name starts with Bug_ is no part of the model: it is  *)
(* the definition that follows it with a likely mistake made in it, with   *)
(* which a property of the model must fail.                                *)
(***************************************************************************)
EXTENDS Naturals

CONSTANTS
    Threads,        \* thread identifiers, __mp_threadid()
    NoThread,       \* the identifier 0 that no thread has
    MaxDepth,       \* bound on the nesting of lock calls in one thread
    StrayUnlocks    \* may a thread unlock what it has not locked?

ASSUME ThreadsAssumption == NoThread \notin Threads
ASSUME MaxDepthAssumption == MaxDepth \in Nat \ {0}
ASSUME StrayAssumption == StrayUnlocks \in BOOLEAN

VARIABLES
    once,   \* lockflag, the pthread_once_t of the library
    init,   \* l->init
    guard,  \* the thread that holds l->guard, or NoThread
    real,   \* the thread that holds l->real, or NoThread
    owner,  \* l->owner
    count,  \* l->count
    pc,     \* pc[t]: where thread t is in mutex.c, "out" outside of it
    depth   \* depth[t]: lock calls returned from less unlock calls entered

vars == <<once, init, guard, real, owner, count, pc, depth>>

LockSteps == {"once", "init", "enter", "check", "real", "reenter", "own", "leave"}
UnlockSteps == {"uenter", "ucheck", "unreal", "disown", "uleave"}

TypeOK ==
    /\ once \in {"todo", "busy", "done"}
    /\ init \in BOOLEAN
    /\ {guard, real, owner} \subseteq Threads \cup {NoThread}
    /\ count \in Nat
    /\ pc \in [Threads -> {"out"} \cup LockSteps \cup UnlockSteps]
    /\ depth \in [Threads -> Nat]

Init ==
    /\ once = "todo"
    /\ init = FALSE
    /\ guard = NoThread
    /\ real = NoThread
    /\ owner = NoThread
    /\ count = 0
    /\ pc = [t \in Threads |-> "out"]
    /\ depth = [t \in Threads |-> 0]

Goto(t, from, to) ==
    /\ pc[t] = from
    /\ pc' = [pc EXCEPT ![t] = to]

\* lockmutex() and unlockmutex() of the guard by thread t.
LockGuard(t) == guard = NoThread /\ guard' = t
UnlockGuard == guard' = NoThread

-----------------------------------------------------------------------------
(***************************************************************************)
(* __mp_lockmutex()                                                        *)
(***************************************************************************)
CallLock(t) ==
    /\ depth[t] < MaxDepth
    /\ Goto(t, "out", "once")
    /\ UNCHANGED <<once, init, guard, real, owner, count, depth>>

\* pthread_once() runs __mp_initmutexes() in the first thread to come ...
OnceFirst(t) ==
    /\ once = "todo"
    /\ once' = "busy"
    /\ Goto(t, "once", "init")
    /\ UNCHANGED <<init, guard, real, owner, count, depth>>

\* ... which makes every mutex that is not initialised yet ...
InitMutexes(t) ==
    /\ Goto(t, "init", "once")
    /\ once' = "done"
    /\ init' = TRUE
    /\ IF init
       THEN UNCHANGED <<guard, real, owner, count>>
       ELSE /\ guard' = NoThread
            /\ real' = NoThread
            /\ owner' = NoThread
            /\ count' = 0
    /\ UNCHANGED depth

\* Lets the others pass as soon as the first has begun.
Bug_OncePassed(t) ==
    /\ once # "todo"
    /\ Goto(t, "once", "enter")
    /\ UNCHANGED <<once, init, guard, real, owner, count, depth>>

\* ... and makes the others wait until it has returned.
OncePassed(t) ==
    /\ once = "done"
    /\ Goto(t, "once", "enter")
    /\ UNCHANGED <<once, init, guard, real, owner, count, depth>>

Enter(t) ==
    /\ LockGuard(t)
    /\ Goto(t, "enter", "check")
    /\ UNCHANGED <<once, init, real, owner, count, depth>>

\* Does not ask who the owner is.
Bug_LockAgain(t) ==
    /\ count > 0
    /\ count' = count + 1
    /\ Goto(t, "check", "leave")
    /\ UNCHANGED <<once, init, guard, real, owner, depth>>

LockAgain(t) ==
    /\ owner = t /\ count > 0
    /\ count' = count + 1
    /\ Goto(t, "check", "leave")
    /\ UNCHANGED <<once, init, guard, real, owner, depth>>

\* Waits for the real mutex and takes it without giving up the guard.
Bug_LockFirst(t) ==
    /\ ~(owner = t /\ count > 0)
    /\ real = NoThread /\ real' = t
    /\ Goto(t, "check", "own")
    /\ UNCHANGED <<once, init, guard, owner, count, depth>>

LockFirst(t) ==
    /\ ~(owner = t /\ count > 0)
    /\ UnlockGuard
    /\ Goto(t, "check", "real")
    /\ UNCHANGED <<once, init, real, owner, count, depth>>

LockReal(t) ==
    /\ real = NoThread
    /\ real' = t
    /\ Goto(t, "real", "reenter")
    /\ UNCHANGED <<once, init, guard, owner, count, depth>>

Reenter(t) ==
    /\ LockGuard(t)
    /\ Goto(t, "reenter", "own")
    /\ UNCHANGED <<once, init, real, owner, count, depth>>

Own(t) ==
    /\ owner' = t
    /\ count' = 1
    /\ Goto(t, "own", "leave")
    /\ UNCHANGED <<once, init, guard, real, depth>>

Leave(t) ==
    /\ UnlockGuard
    /\ Goto(t, "leave", "out")
    /\ depth' = [depth EXCEPT ![t] = @ + 1]
    /\ UNCHANGED <<once, init, real, owner, count>>

-----------------------------------------------------------------------------
(***************************************************************************)
(* __mp_unlockmutex()                                                      *)
(***************************************************************************)
CallUnlock(t) ==
    /\ depth[t] > 0 \/ StrayUnlocks
    /\ IF init THEN Goto(t, "out", "uenter") ELSE Goto(t, "out", "out")
    /\ depth' = [depth EXCEPT ![t] = IF @ > 0 THEN @ - 1 ELSE 0]
    /\ UNCHANGED <<once, init, guard, real, owner, count>>

UEnter(t) ==
    /\ LockGuard(t)
    /\ Goto(t, "uenter", "ucheck")
    /\ UNCHANGED <<once, init, real, owner, count, depth>>

\* Looks at the count before it is reduced; gives up the real mutex at every
\* unlock.
Bug_UnlockTooLate(t) ==
    /\ owner = t /\ count > 0
    /\ count' = count - 1
    /\ Goto(t, "ucheck", IF count = 0 THEN "unreal" ELSE "uleave")
    /\ UNCHANGED <<once, init, guard, real, owner, depth>>
Bug_UnlockTooSoon(t) ==
    /\ owner = t /\ count > 0
    /\ count' = count - 1
    /\ Goto(t, "ucheck", "unreal")
    /\ UNCHANGED <<once, init, guard, real, owner, depth>>

UnlockOwned(t) ==
    /\ owner = t /\ count > 0
    /\ count' = count - 1
    /\ Goto(t, "ucheck", IF count' = 0 THEN "unreal" ELSE "uleave")
    /\ UNCHANGED <<once, init, guard, real, owner, depth>>

UnlockStray(t) ==
    /\ ~(owner = t /\ count > 0)
    /\ Goto(t, "ucheck", "uleave")
    /\ UNCHANGED <<once, init, guard, real, owner, count, depth>>

UnlockReal(t) ==
    /\ real' = NoThread
    /\ Goto(t, "unreal", "disown")
    /\ UNCHANGED <<once, init, guard, owner, count, depth>>

Disown(t) ==
    /\ owner' = NoThread
    /\ Goto(t, "disown", "uleave")
    /\ UNCHANGED <<once, init, guard, real, count, depth>>

ULeave(t) ==
    /\ UnlockGuard
    /\ Goto(t, "uleave", "out")
    /\ UNCHANGED <<once, init, real, owner, count, depth>>

-----------------------------------------------------------------------------
LockStep(t) ==
    \/ OnceFirst(t) \/ InitMutexes(t) \/ OncePassed(t) \/ Enter(t)
    \/ LockAgain(t) \/ LockFirst(t) \/ LockReal(t) \/ Reenter(t)
    \/ Own(t) \/ Leave(t)

UnlockStep(t) ==
    \/ UEnter(t) \/ UnlockOwned(t) \/ UnlockStray(t)
    \/ UnlockReal(t) \/ Disown(t) \/ ULeave(t)

Next ==
    \E t \in Threads :
        CallLock(t) \/ LockStep(t) \/ CallUnlock(t) \/ UnlockStep(t)

Spec == Init /\ [][Next]_vars

\* The system keeps scheduling a thread that can run, and a thread that holds
\* the lock gives it back (every entry point of src/inter.c ends in
\* restoresignals()).  Nothing is assumed of who wins a contended mutex.
FairSpec ==
    /\ Spec
    /\ \A t \in Threads :
        /\ WF_vars(LockStep(t) \/ UnlockStep(t))
        /\ WF_vars(depth[t] > 0 /\ CallUnlock(t))

-----------------------------------------------------------------------------
(***************************************************************************)
(* Properties                                                              *)
(***************************************************************************)
\* A thread is inside from the return of its first lock call to the start of
\* its last unlock call.
Inside(t) == depth[t] > 0

\* No two threads are ever inside the library together: owner and count are
\* read under the guard, but real is taken and released around it.
MutualExclusion == \A t, u \in Threads : Inside(t) /\ Inside(u) => t = u

\* The count a thread finds on entry is the number of its own outstanding lock
\* calls, and the mutex it will release is locked by it: a nested unlock never
\* releases the lock early and the last one always does.
DepthMatchesCount ==
    \A t \in Threads :
        pc[t] = "out" /\ Inside(t) => owner = t /\ real = t /\ count = depth[t]

\* The lock is free once every thread is outside and idle: no unlock is lost
\* between the count reaching 0 and real being released.
NothingLeftLocked ==
    (\A t \in Threads : pc[t] = "out" /\ ~Inside(t)) =>
        guard = NoThread /\ real = NoThread /\ owner = NoThread /\ count = 0

\* It behaves as the abstract lock does.
Abstract == INSTANCE RecLock
ImplementsRecLock == Abstract!Spec

\* A thread unlocks what it has not locked.
StrayCall == \E t \in Threads : ~Inside(t) /\ CallUnlock(t)

\* Unless stray unlock calls go on for ever: a nested lock call returns whatever
\* the other threads do, for the owner never waits for the real mutex that it
\* holds itself; the unlock call of the owner returns; and while some thread waits to come in,
\* somebody always gets in again: the lock is never left taken by nobody.
CallsReturn ==
    \/ []<><<StrayCall>>_vars
    \/ /\ \A t \in Threads :
            /\ (pc[t] = "enter" /\ Inside(t)) ~> (pc[t] = "out")
            /\ (pc[t] \in UnlockSteps /\ owner = t) ~> (pc[t] = "out")
       /\ (\E t \in Threads : pc[t] \in LockSteps) ~> (\E t \in Threads : Inside(t))
=============================================================================
