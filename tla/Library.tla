------------------------------ MODULE Library ------------------------------
(***************************************************************************)
(* The life of the library in one process, and the functions of the        *)
(* program that it calls back: src/inter.c with src/signals.c and the      *)
(* registration of functions in src/info.c.                                *)
(*                                                                         *)
(* The library calls the program back while a call of the program is under *)
(* way: initialisation functions from __mp_init(), finalisation functions  *)
(* from __mp_fini() and the function given to __mp_iterate(), which walks  *)
(* over the nodes of the allocation manager.  What the program does in such*)
(* a function are calls within a call.  A call that calls nobody back is   *)
(* one step here; RecMutex.tla has the lock that makes it one.             *)
(*                                                                         *)
(* Nodes are known by the slots of memory they live in, because the walk   *)
(* holds a pointer to one while the program runs: a slot that is given back*)
(* to the slot table stays readable, and its first word, the link of a node*)
(* to the next, becomes the link of the chain of free slots.               *)
(***************************************************************************)
EXTENDS Integers, Sequences, FiniteSets, FiniteSetsExt

CONSTANTS
    NODESLOTS,  \* the slots of the table of nodes, 1..NODESLOTS
    HEAPS,      \* the lists of nodes that the program may have made
    HEAPLIMIT,  \* where the heap ends when it has grown
    SIZES,      \* sizes asked for
    MAXFINIS,   \* MP_MAXFINIS
    MAXDELSTACK,    \* MP_MAXDELSTACK
    MAXCALLS,   \* bound: calls that the program makes
    MAXNESTED,  \* bound: deletions within deletions
    CAREFUL     \* does the program keep out of what the library cannot cope with?
                \* Then a function called in a walk frees its blocks in reverse
                \* order and does not make the heap grow, and it has no blocks
                \* if the walk shows all nodes; and no finalisation function
                \* fills the table of them up.

ASSUME LibraryAssumption ==
    MAXFINIS \in Nat \ {0} /\ MAXDELSTACK \in Nat \ {0} /\ CAREFUL \in BOOLEAN

VARIABLES
    memhead,    \* its init, fini and recur, and the flag SAFESIGNALS
    frames,     \* the calls under way that call the program back, outermost first
    inits, finis,   \* memhead.inits and memhead.finis up to their counts
    list,       \* memhead.alloc.list: nodes in order of address
    chain,      \* the free slots of the table of nodes
    signals,    \* what SIGINT does now, "default", "ignore" or "handler", and
                \* memhead.signals: what it did before and whether that is saved
    dels, delpos,   \* the delete stack
    calls,      \* the calls made so far, and no variable of the library
    wanted,     \* what the program wants SIGINT to do
    registered, \* how many functions had run when each one was registered
    ran,        \* the functions that have run, numbered by registration
    pending,    \* the deletions under way that have a position, with the number
                \* of those without one that had come before
    told,       \* what the last deletion was told its position is, and its own
    plain,      \* the deletions so far that had no position
    walked      \* what the last walk met, and what it should have met

lifeVars == <<memhead, frames, inits, finis>>
heapVars == <<list, chain>>
delVars == <<dels, delpos>>
ghostVars == <<wanted, registered, ran, pending, told, plain, walked>>
libraryVars ==
    <<lifeVars, heapVars, signals, delVars, calls, ghostVars>>

Top == frames[Len(frames)]

\* Whose calls they are: those of main(), or those of the functions called by
\* one of the calls under way.
Who == IF frames = <<>> THEN "main" ELSE Top.call

\* The program runs: in main(), or in a function that the library has called.
Running == memhead.init /\ (frames # <<>> => Top.calling)

-----------------------------------------------------------------------------
(***************************************************************************)
(* Entering and leaving the library                                        *)
(***************************************************************************)
\* The signals and, in memhead, the depth of calls after savesignals() and after
\* restoresignals(): only the outermost call saves and restores.
Saved(sg) ==
    IF memhead.recur = 0 /\ memhead.safe
    THEN [now |-> "ignore", was |-> sg.now, saved |-> TRUE] ELSE sg

\* Leaves the mark that a handler has been saved.
Bug_Restored(sg) == IF sg.saved THEN [sg EXCEPT !.now = sg.was] ELSE sg
Restored(sg) ==
    IF sg.saved THEN [sg EXCEPT !.now = sg.was, !.saved = FALSE] ELSE sg

Enter ==
    /\ memhead' = [memhead EXCEPT !.recur = @ + 1]
    /\ signals' = Saved(signals)

Leave(m) ==
    /\ memhead' = [m EXCEPT !.recur = @ - 1]
    /\ signals' = IF memhead.recur = 1 THEN Restored(signals) ELSE signals

\* A call that enters the library and leaves it in the same step.
Through(m) ==
    /\ memhead' = m
    /\ signals' = IF memhead.recur = 0 THEN Restored(Saved(signals)) ELSE signals

Count == calls < MAXCALLS /\ calls' = calls + 1

-----------------------------------------------------------------------------
(***************************************************************************)
(* Initialisation and finalisation functions                               *)
(***************************************************************************)
HasRoom == Len(finis) < MAXFINIS

\* __mp_init() up to the calls of the initialisation functions, when the
\* program is loaded.  Reading symbols has registered the functions that are
\* called __mp_init_ and __mp_fini_ something, and options have been read.
Initialise ==
    /\ ~memhead.init /\ ~memhead.fini /\ frames = <<>>
    /\ \E safe \in BOOLEAN, i \in {<<>>, <<"init">>}, f \in {<<>>, <<1>>} :
        /\ memhead' = [init |-> TRUE, fini |-> FALSE, recur |-> 1, safe |-> safe]
        /\ inits' = i /\ finis' = f
        /\ registered' = [k \in 1..Len(f) |-> 0]
    /\ frames' = <<[call |-> "init", calling |-> FALSE]>>
    /\ UNCHANGED <<heapVars, signals, delVars, calls, wanted, ran, pending,
                   told, plain, walked>>

\* The loop over the initialisation functions.
CallInit ==
    /\ frames # <<>> /\ Top.call = "init" /\ ~Top.calling
    /\ IF inits # <<>>
       THEN /\ inits' = Tail(inits)
            /\ frames' = [frames EXCEPT ![Len(frames)].calling = TRUE]
            /\ UNCHANGED <<memhead, signals>>
       ELSE /\ frames' = SubSeq(frames, 1, Len(frames) - 1)
            /\ Leave(memhead)
            /\ UNCHANGED inits
    /\ UNCHANGED <<finis, heapVars, delVars, calls, ghostVars>>

\* __mp_atexit()
AtExit ==
    /\ Running /\ Count
    /\ CAREFUL /\ frames # <<>> /\ frames[1].call = "fini"
        => Len(finis) + 1 < MAXFINIS
    /\ IF HasRoom
       THEN /\ registered' = Append(registered, Len(ran))
            /\ finis' = Append(finis, Len(registered'))
       ELSE UNCHANGED <<registered, finis>>
    /\ Through(memhead)
    /\ UNCHANGED <<frames, inits, heapVars, delVars, wanted, ran, pending,
                   told, plain, walked>>

\* __mp_fini() up to the first finalisation function, when the program exits.
Finalise ==
    /\ memhead.init /\ frames = <<>> /\ pending = <<>>
    /\ frames' = <<[call |-> "fini", calling |-> FALSE]>>
    /\ Enter
    /\ UNCHANGED <<inits, finis, heapVars, delVars, calls, ghostVars>>

\* Calls the functions in the order of their registration.
Bug_NextFini == 1
NextFini == Len(finis)

\* Calls the last of the finalisation functions that are left; with none left,
\* the summary, the trace and the profile are written and the library is dead.
CallFini ==
    /\ frames # <<>> /\ Top.call = "fini" /\ ~Top.calling
    /\ IF finis # <<>>
       THEN /\ ran' = Append(ran, finis[NextFini])
            /\ finis' = SubSeq(finis, 1, NextFini - 1)
                            \o SubSeq(finis, NextFini + 1, Len(finis))
            /\ frames' = [frames EXCEPT ![1].calling = TRUE]
            /\ UNCHANGED <<memhead, signals>>
       ELSE /\ frames' = <<>>
            /\ Leave([memhead EXCEPT !.init = FALSE, !.fini = TRUE])
            /\ UNCHANGED <<ran, finis>>
    /\ UNCHANGED <<inits, heapVars, delVars, calls, wanted, registered, pending,
                   told, plain, walked>>

\* The function returns, and the place after the last function still registered
\* is set to NULL.  When that place is beyond the end of memhead.finis, it is
\* memhead.finicount.
Return ==
    /\ frames # <<>> /\ Top.calling /\ Top.call \in {"init", "fini"}
    /\ frames' = [frames EXCEPT ![Len(frames)].calling = FALSE]
    /\ finis' = IF Top.call = "fini" /\ Len(finis) = MAXFINIS THEN <<>> ELSE finis
    /\ UNCHANGED <<memhead, inits, heapVars, signals, delVars, calls, ghostVars>>

-----------------------------------------------------------------------------
(***************************************************************************)
(* Signals and options                                                     *)
(***************************************************************************)
\* The program installs a handler, or takes it away; it does not do so in a
\* function that the library calls.
Install(h) ==
    /\ Running /\ frames = <<>> /\ Count
    /\ signals' = [signals EXCEPT !.now = h] /\ wanted' = h
    /\ UNCHANGED <<lifeVars, heapVars, delVars, registered, ran, pending,
                   told, plain, walked>>

\* __mp_setoption() of the flag SAFESIGNALS.
SetSafe(b) ==
    /\ Running /\ Count /\ b # memhead.safe
    /\ LET m == [memhead EXCEPT !.safe = b]
       IN  Through(m)
    /\ UNCHANGED <<frames, inits, finis, heapVars, delVars, ghostVars>>

-----------------------------------------------------------------------------
(***************************************************************************)
(* The delete stack                                                        *)
(***************************************************************************)
\* Stores the position wherever the stack pointer is.
Bug_Stored(d) == d >= 0
Stored(d) == d >= 0 /\ d < MAXDELSTACK

\* __mp_pushdelstack(), at the start of a deletion with a position.  The
\* positions of deletions under way are all different.
PushDelete ==
    /\ Running /\ Count /\ Len(pending) < MAXNESTED
    /\ pending' = Append(pending, plain)
    /\ dels' = IF Stored(delpos)
               THEN [dels EXCEPT ![delpos % MAXDELSTACK] = Len(pending) + 1]
               ELSE dels
    /\ delpos' = delpos + 1
    /\ UNCHANGED <<lifeVars, heapVars, signals, wanted, registered, ran, told,
                   plain, walked>>

\* __mp_popdelstack(), whose answer is 0 for no position.  The deletion has the
\* position `own', `before' others without one came before it, and `mixed' says
\* if it had one that others did not within it, or the other way round.
PopDelete(own, before, mixed) ==
    LET d == delpos - 1
    IN  /\ told' = [own |-> own, before |-> before, mixed |-> mixed,
                    got |-> IF d >= 0 /\ d < MAXDELSTACK THEN dels[d] ELSE 0]
        /\ delpos' = d
        /\ UNCHANGED <<lifeVars, heapVars, signals, dels, wanted, registered, ran,
                       walked>>

\* The operator delete, of the last deletion that has a position.
EndDelete ==
    /\ Running /\ Count /\ pending # <<>>
    /\ LET n == Len(pending)
       IN  /\ PopDelete(n, pending[n], pending[n] # plain)
           /\ pending' = SubSeq(pending, 1, n - 1)
    /\ UNCHANGED plain

\* The operator delete of a deletion that has none, at any time: also within
\* others, if MP_NONEWDELETE lets a destructor use a plain delete.
PlainDelete ==
    /\ Running /\ Count
    /\ PopDelete(0, plain, pending # <<>>)
    /\ plain' = plain + 1
    /\ UNCHANGED pending

-----------------------------------------------------------------------------
(***************************************************************************)
(* Nodes, in the slots that they live in                                   *)
(***************************************************************************)
Node(s, a, z, k, n) ==
    [slot |-> s, at |-> a, size |-> z, kind |-> k, num |-> n, by |-> "main"]

Indices(s) == {i \in 1..Len(list) : list[i].slot = s}

\* The first word of the slot s: 0 is the end of the list, -1 is NULL.
Link(s) ==
    IF s = 0 THEN -1
    ELSE IF Indices(s) # {}
    THEN LET i == CHOOSE j \in Indices(s) : TRUE
         IN  IF i < Len(list) THEN list[i + 1].slot ELSE 0
    ELSE LET c == {j \in 1..Len(chain) : chain[j] = s}
         IN  IF c = {} \/ Len(chain) \in c THEN -1
             ELSE chain[(CHOOSE j \in c : TRUE) + 1]

Splice(L, i, j, new) == SubSeq(L, 1, i - 1) \o new \o SubSeq(L, j + 1, Len(L))

\* Do the free nodes i and i + 1 border on each other?
Bordering(L, i) ==
    /\ i \in 1..Len(L) - 1
    /\ L[i].kind = "free" /\ L[i + 1].kind = "free"
    /\ L[i].at + L[i].size = L[i + 1].at

\* Keeps the last of the nodes.
Bug_Kept(first, i, last) == last
Kept(first, i, last) == i

\* mergenode() of node i: it stays, and those it takes in give back their slots.
MergeNode(h, i) ==
    LET L == h.list
        first == IF Bordering(L, i - 1) THEN i - 1 ELSE i
        last == IF Bordering(L, i) THEN i + 1 ELSE i
        size == L[last].at + L[last].size - L[first].at
        k == Kept(first, i, last)
        down == [j \in 1..last - first + 1 |-> L[last + 1 - j].slot]
    IN  [list |-> Splice(L, first, last,
                         <<[L[k] EXCEPT !.at = L[first].at, !.size = size]>>),
         chain |-> SelectSeq(down, LAMBDA s : s # L[k].slot) \o h.chain]

\* splitnode() of node i for l bytes: it becomes the block.  Of the two slots in
\* hand the first is not needed, for there is no gap to its left; the second
\* becomes what is left over to its right.
SplitNode(h, i, l, n) ==
    LET f == h.list[i]
        block == [f EXCEPT !.size = l, !.kind = "alloc", !.num = n, !.by = Who]
        p == h.chain[1]
        q == h.chain[2]
        rest == SubSeq(h.chain, 3, Len(h.chain))
    IN  IF f.size > l
        THEN [list |-> Splice(h.list, i, i,
                              <<block, Node(q, f.at + l, f.size - l, "free", 0)>>),
              chain |-> <<p>> \o rest]
        ELSE [list |-> Splice(h.list, i, i, <<block>>),
              chain |-> <<q, p>> \o rest]

Fits(l) == {i \in 1..Len(list) : list[i].kind = "free" /\ list[i].size >= l}
BestFits(l) ==
    {i \in Fits(l) : \A j \in Fits(l) : list[i].size <= list[j].size}

LastEnd == list[Len(list)].at + list[Len(list)].size

\* The heap grows by a new node at its end.
Grown ==
    MergeNode([list |-> Append(list, Node(chain[1], LastEnd, HEAPLIMIT - LastEnd,
                                          "free", 0)),
               chain |-> Tail(chain)], Len(list) + 1)

\* Does the program use the heap where it now is?
UsesHeap == CAREFUL /\ Who = "walk" => ~Top.all

\* __mp_alloc(): within another call of the library the block is FLG_INTERNAL.
Malloc(l) ==
    /\ Running /\ Count /\ UsesHeap /\ Len(chain) > 3
    /\ LET num == 1 + Max({list[i].num : i \in 1..Len(list)})
       IN  \E h \in
                IF Fits(l) # {}
                THEN {SplitNode([list |-> list, chain |-> chain], i, l, num) :
                        i \in BestFits(l)}
                ELSE IF LastEnd < HEAPLIMIT /\ HEAPLIMIT - LastEnd >= l
                        /\ (CAREFUL => Who # "walk")
                THEN {SplitNode(g, Len(g.list), l, num) : g \in {Grown}}
                ELSE {} :
            list' = h.list /\ chain' = h.chain
    /\ Through(memhead)
    /\ UNCHANGED <<frames, inits, finis, delVars, ghostVars>>

\* __mp_free() of block i.  A function that the library calls frees only what
\* such a function has allocated.
Free(i) ==
    /\ Running /\ Count /\ UsesHeap
    /\ i \in 1..Len(list) /\ list[i].kind = "alloc"
    /\ list[i].by = Who
    /\ CAREFUL /\ Who = "walk" =>
        \A j \in 1..Len(list) : list[j].by = "walk" => list[j].num <= list[i].num
    /\ LET freed == [list EXCEPT ![i] = Node(@.slot, @.at, @.size, "free", 0)]
           h == MergeNode([list |-> freed, chain |-> chain], i)
       IN  list' = h.list /\ chain' = h.chain
    /\ Through(memhead)
    /\ UNCHANGED <<frames, inits, finis, delVars, ghostVars>>

-----------------------------------------------------------------------------
(***************************************************************************)
(* Walking over the nodes                                                  *)
(***************************************************************************)
\* The blocks that a walk since an event should show; the number of a block is
\* also that of the event in which it was allocated.
Due(since) ==
    {list[i].num : i \in {j \in 1..Len(list) :
        list[j].kind # "free" /\ list[j].by = "main" /\ list[j].num > since}}

\* __mp_iterate() and __mp_iterateall(), which shows all nodes, free ones too.
StartWalk(all, since) ==
    /\ Running /\ Count
    /\ all => since = 0
    /\ \A f \in 1..Len(frames) : frames[f].call # "walk"
    /\ frames' = Append(frames,
        [call |-> "walk", calling |-> FALSE, all |-> all, since |-> since,
         n |-> list[1].slot, p |-> 0, met |-> <<>>, due |-> Due(since)])
    /\ Enter
    /\ UNCHANGED <<inits, finis, heapVars, delVars, ghostVars>>

\* Is node x shown in the walk w?  A node in a free slot was a free one.
Shown(w, x) == w.all \/ (x.kind # "free" /\ x.by = "main" /\ x.num > w.since)

NodeIn(s) ==
    IF Indices(s) # {} THEN list[CHOOSE i \in Indices(s) : TRUE]
    ELSE Node(s, 0, 0, "free", 0)

\* The loop: it ends at the node whose link is NULL, reads the link of the
\* node before the function is called, and goes there when that returns.
WalkOn ==
    /\ frames # <<>> /\ Top.call = "walk" /\ ~Top.calling
    /\ LET x == NodeIn(Top.n)
       IN  IF Link(Top.n) = -1
           THEN /\ frames' = SubSeq(frames, 1, Len(frames) - 1)
                /\ walked' = [met |-> Top.met, due |-> Top.due, all |-> Top.all]
                /\ Leave(memhead)
           ELSE /\ frames' = [frames EXCEPT ![Len(frames)] =
                    IF Shown(Top, x)
                    THEN [Top EXCEPT !.calling = TRUE, !.p = Link(Top.n),
                                     !.met = Append(@, x.num)]
                    ELSE [Top EXCEPT !.n = Link(Top.n)]]
                /\ UNCHANGED <<memhead, signals, walked>>
    /\ UNCHANGED <<inits, finis, heapVars, delVars, calls, wanted, registered,
                   ran, pending, told, plain>>

\* The function returns: a negative result ends the walk.
ReturnShown(stop) ==
    /\ frames # <<>> /\ Top.calling /\ Top.call = "walk"
    /\ IF stop
       THEN frames' = SubSeq(frames, 1, Len(frames) - 1) /\ Leave(memhead)
       ELSE /\ frames' = [frames EXCEPT ![Len(frames)] =
                            [@ EXCEPT !.calling = FALSE, !.n = Top.p]]
            /\ UNCHANGED <<memhead, signals>>
    /\ UNCHANGED <<inits, finis, heapVars, delVars, calls, ghostVars>>

-----------------------------------------------------------------------------
LibraryInit ==
    /\ memhead = [init |-> FALSE, fini |-> FALSE, recur |-> 0, safe |-> FALSE]
    /\ frames = <<>> /\ inits = <<>> /\ finis = <<>>
    /\ list \in HEAPS
    /\ chain = LET used == {list[i].slot : i \in 1..Len(list)}
               IN  [i \in 1..NODESLOTS - Len(list) |->
                        Cardinality(used) + i]
    /\ wanted \in {"default", "handler"}
    /\ signals = [now |-> wanted, was |-> "default", saved |-> FALSE]
    /\ dels = [d \in 0..MAXDELSTACK - 1 |-> 0] /\ delpos = 0
    /\ calls = 0 /\ registered = <<>> /\ ran = <<>> /\ pending = <<>>
    /\ told = [own |-> 0, before |-> 0, mixed |-> FALSE, got |-> 0] /\ plain = 0
    /\ walked = [met |-> <<>>, due |-> {}, all |-> FALSE]

\* What the library does by itself, and when the program lets it.
LifeNext ==
    \/ Initialise \/ CallInit \/ Finalise \/ CallFini \/ Return
    \/ WalkOn
    \/ \E stop \in BOOLEAN : ReturnShown(stop)

\* What the program asks for.
WalkCalls == \E all \in BOOLEAN, since \in {0, 1} : StartWalk(all, since)
ExitCalls == AtExit
SignalCalls ==
    \/ \E h \in {"default", "handler"} : Install(h)
    \/ \E b \in BOOLEAN : SetSafe(b)
DeleteCalls == PushDelete \/ EndDelete \/ PlainDelete
HeapCalls ==
    \/ \E l \in SIZES : Malloc(l)
    \/ \E i \in 1..NODESLOTS : Free(i)

LibraryNext ==
    LifeNext \/ WalkCalls \/ ExitCalls \/ SignalCalls \/ DeleteCalls \/ HeapCalls

LibrarySpec == LibraryInit /\ [][LibraryNext]_libraryVars

-----------------------------------------------------------------------------
(***************************************************************************)
(* Properties                                                              *)
(***************************************************************************)
\* When the library has ended, every function that could be registered has run,
\* and none has run twice.  A function that was registered later has run
\* earlier, unless it was registered after the other had been called.
FinishersRun ==
    /\ \A i, j \in 1..Len(ran) :
        /\ i # j => ran[i] # ran[j]
        /\ i < j /\ ran[i] < ran[j] => registered[ran[j]] >= i
    /\ memhead.fini => Len(ran) = Len(registered)

\* Outside the library a signal does what the program has last asked for, and
\* within a call that began with SAFESIGNALS it does nothing: whatever calls
\* are nested in it, and even if they change that option.
SignalsHeld ==
    /\ memhead.recur = 0 => signals.now = wanted
    /\ memhead.recur > 0 /\ signals.saved => signals.now = "ignore"

\* A deletion that has a position is told it if the stack has a place for it,
\* and is told none if not; one that has no position is told none.  Each of the
\* latter takes a place away from all that come after it.  This is so as long as
\* the two kinds are not mixed: that no deletion without a position has come
\* within the one with it, or is itself within one.
DeletionsTold ==
    ~told.mixed =>
        told.got = IF told.own - told.before \in 1..MAXDELSTACK THEN told.own ELSE 0

\* A walk that nobody stops meets every block that was there when it began,
\* each one once and, in __mp_iterate(), nothing else, although the function
\* that it calls allocates and frees blocks of its own.
WalkMeetsAll ==
    LET Met(b) == {i \in 1..Len(walked.met) : walked.met[i] = b}
    IN  /\ \A b \in walked.due : Cardinality(Met(b)) = 1
        /\ ~walked.all => \A i \in 1..Len(walked.met) : walked.met[i] \in walked.due
=============================================================================
