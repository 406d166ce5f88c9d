----------------------------- MODULE BlockStore -----------------------------
(***************************************************************************)
(* What the allocation manager promises the rest of the library, with no   *)
(* word on how memory is managed: live blocks stay where they are, clear   *)
(* of each other and of the blocks that have been freed but are still held *)
(* back, and the blocks held back are let go in the order of freeing.      *)
(* Alloc.tla is the implementation in src/alloc.c.                         *)
(***************************************************************************)
EXTENDS Integers, Sequences

CONSTANTS
    Guard,      \* no two blocks have less than two of these between them
    Requests,   \* pairs of size and alignment that may be asked for
    Addresses,  \* where a block may be
    Limits      \* how many blocks may be held back

VARIABLES
    live,   \* the blocks in use
    held,   \* the blocks held back, oldest first
    limit   \* the most there may be of these

vars == <<live, held, limit>>

Init == live = {} /\ held = <<>> /\ limit \in Limits

Taken == live \cup {held[k] : k \in 1..Len(held)}

Clear(x, y) ==
    \/ x.block + x.size + 2 * Guard <= y.block
    \/ y.block + y.size + 2 * Guard <= x.block

Allocate(size, align) ==
    \E b \in Addresses :
        LET new == [block |-> b, size |-> size]
        IN  /\ b % align = 0
            /\ \A x \in Taken : Clear(new, x)
            /\ live' = live \cup {new}
            /\ UNCHANGED <<held, limit>>

Resize(x, size) ==
    LET new == [x EXCEPT !.size = size]
    IN  /\ \A y \in Taken \ {x} : Clear(new, y)
        /\ live' = (live \ {x}) \cup {new}
        /\ UNCHANGED <<held, limit>>

\* The block may be reused at once.
Drop(x) ==
    /\ limit = 0
    /\ live' = live \ {x}
    /\ UNCHANGED <<held, limit>>

\* The block is held back, at the cost of the oldest one if there are enough.
Keep(x) ==
    /\ limit > 0
    /\ live' = live \ {x}
    /\ held' = Append(IF Len(held) = limit THEN Tail(held) ELSE held, x)
    /\ UNCHANGED limit

LetGo ==
    /\ held # <<>>
    /\ held' = Tail(held)
    /\ UNCHANGED <<live, limit>>

SetLimit(v) ==
    /\ Len(held) <= v
    /\ limit' = v
    /\ UNCHANGED <<live, held>>

Next ==
    \/ \E r \in Requests : Allocate(r[1], r[2])
    \/ \E x \in live : Drop(x) \/ Keep(x)
    \/ \E x \in live, r \in Requests : Resize(x, r[1])
    \/ LetGo
    \/ \E v \in Limits : SetLimit(v)

Spec == Init /\ [][Next]_vars
=============================================================================
