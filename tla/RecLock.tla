------------------------------ MODULE RecLock ------------------------------
(***************************************************************************)
(* What __mp_lockmutex() and __mp_unlockmutex() promise their callers: a   *)
(* lock that one thread at a time may hold, any number of times over.      *)
(* RecMutex.tla is the implementation in src/mutex.c.                      *)
(***************************************************************************)
EXTENDS Naturals

CONSTANT Threads

VARIABLE depth   \* depth[t]: lock calls of thread t that it has not undone

Init == depth = [t \in Threads |-> 0]

\* A thread enters only while every other thread is outside.
Acquire(t) ==
    /\ \A u \in Threads \ {t} : depth[u] = 0
    /\ depth' = [depth EXCEPT ![t] = @ + 1]

Release(t) ==
    /\ depth[t] > 0
    /\ depth' = [depth EXCEPT ![t] = @ - 1]

Next == \E t \in Threads : Acquire(t) \/ Release(t)

Spec == Init /\ [][Next]_depth
=============================================================================
