-------------------------------- MODULE Info --------------------------------
(***************************************************************************)
(* What the library knows of each block and what it does with a call to    *)
(* get, resize or free one: src/info.c, with the entry points of           *)
(* src/inter.c that lead to it.  Memory itself is left to the allocation   *)
(* manager (Alloc.tla), of which only the promises of BlockStore.tla are   *)
(* used: a new block is at an address that no other block has, and freed   *)
(* blocks are let go oldest first.                                         *)
(*                                                                         *)
(* Calls of different threads are serialised by the library's lock         *)
(* (RecMutex.tla).  A call is one step unless it cannot get memory and the *)
(* program has a low-memory handler: the handler may call the library      *)
(* again, and then the first call is tried once more.                      *)
(*                                                                         *)
(* An operator whose name starts with Bug_ is no part of the model: it is  *)
(* the definition that follows it with a likely mistake made in it, with   *)
(* which a property of the model must fail.                                *)
(***************************************************************************)
EXTENDS Integers, Sequences, FiniteSets, SequencesExt, Sums

CONSTANTS
    Threads,
    Addresses,      \* bound: where a block may be
    NULL,           \* no block
    SIZES,          \* bound: sizes asked for
    NEWTYPES,       \* bound: functions that make blocks, of "malloc" (and the
                    \* like of it), "xmalloc", "alloca", "new", "newvec"
    RESIZETYPES,    \* bound: functions that resize them, of "realloc",
                    \* "reallocf", "expand", "xrealloc"
    FREETYPES,      \* bound: functions that free them, of "free" (and the like
                    \* of it), "dealloca", "delete", "deletevec"
    FMAX,           \* the NOFREE option
    LIMIT,          \* the LIMIT option
    INFOS,          \* bound: information nodes that there is memory for
    SITES,          \* bound: places that a function may be called from
    MAXPATH,        \* bound: functions that are active in a thread
    HANDLER,        \* is a low-memory handler installed?
    HANDLERCALLS,   \* bound: calls of the library that the handler makes
    MARKS,          \* bound: does the program mark blocks?
    MISUSE          \* bound: does it make calls that it should not?

ASSUME BlocksAssumption ==
    /\ NULL \notin Addresses /\ IsFiniteSet(Addresses)
    /\ SIZES \subseteq Nat /\ FMAX \in Nat /\ LIMIT \in Nat /\ INFOS \in Nat
ASSUME TypesAssumption ==
    /\ NEWTYPES \subseteq {"malloc", "xmalloc", "alloca", "new", "newvec"}
    /\ RESIZETYPES \subseteq {"realloc", "reallocf", "expand", "xrealloc"}
    /\ FREETYPES \subseteq {"free", "dealloca", "delete", "deletevec"}
ASSUME ProgramAssumption ==
    /\ NULL \notin Threads /\ SITES # {}
    /\ MAXPATH \in Nat \ {0} /\ HANDLERCALLS \in Nat
    /\ {HANDLER, MARKS, MISUSE} \subseteq BOOLEAN

VARIABLES
    info,   \* the information nodes of the blocks, by address: live ones and
            \* those that have been freed but are kept
    flist,  \* h->alloc.flist: the freed ones in the order of freeing
    astack, \* h->astack, newest first: blocks with the call stack (oldest call
            \* first) that made them
    slots,  \* slots in use in h->table and h->atable
    mcount, mtotal,     \* number and total size of marked blocks
    frames, \* calls that are waiting for the low-memory handler, innermost last
    path,   \* path[t]: the active functions of thread t, each with the place it
            \* was called from and the blocks that it has by alloca()
    held,   \* the other blocks as the program knows them: type, size, mark
    outcome,\* of the last attempt: who made it, the errors reported, and whether
            \* the program was "right", "wrong" or "rash" to make the call
    aborted \* has __mp_abort() ended the program?

library == <<info, flist, astack, slots, mcount, mtotal>>
program == <<path, held>>
vars == <<info, flist, astack, slots, mcount, mtotal, frames, path, held,
          outcome, aborted>>

\* What a call may change of the library.
Now == [info |-> info, flist |-> flist, astack |-> astack, slots |-> slots,
        mtotal |-> mtotal]

Becomes(h) ==
    /\ info' = h.info /\ flist' = h.flist /\ astack' = h.astack
    /\ slots' = h.slots /\ mtotal' = h.mtotal /\ UNCHANGED mcount

Live(h) == {p \in DOMAIN h.info : h.info[p].kind = "live"}
Freed(h) == {p \in DOMAIN h.info : h.info[p].kind = "freed"}
Sizes(h) == [p \in DOMAIN h.info |-> h.info[p].size]
Asize(h) == SumOf(Sizes(h), Live(h))

\* The blocks of a stack, and what it has of those of B, in the same order.
Blocks(stack) == {stack[k].block : k \in 1..Len(stack)}
Only(stack, B) ==
    LET upto[k \in 0..Len(stack)] ==
            IF k = 0 THEN <<>>
            ELSE IF stack[k].block \in B THEN Append(upto[k - 1], stack[k])
            ELSE upto[k - 1]
    IN  upto[Len(stack)]

With(f, p, d) == [x \in DOMAIN f \cup {p} |-> IF x = p THEN d ELSE f[x]]
Without(f, p) == [x \in DOMAIN f \ {p} |-> f[x]]

\* What an attempt to do something comes to.
Result(h, ret, errors) == [state |-> h, ret |-> ret, errors |-> errors]

-----------------------------------------------------------------------------
(***************************************************************************)
(* Freeing                                                                 *)
(***************************************************************************)
\* The error for a pointer to, or into, a block at p that is not live.
Unknown(h, p, inside) ==
    IF p \notin DOMAIN h.info THEN {"NOTALL"}
    ELSE IF p \in Freed(h) THEN {"PRVFRD"}
    ELSE IF inside THEN {"MISMAT"} ELSE {}

\* Lets alloca() blocks be freed by free().
Bug_CompatibleLax(made, ty) ==
    /\ made # "alloca" => ty \notin {"alloca", "dealloca"}
    /\ made = "new" <=> ty = "delete"
    /\ made = "newvec" <=> ty = "deletevec"

\* May a block of type made be freed by a function of type ty?
Compatible(made, ty) ==
    /\ made = "alloca" <=> ty \in {"alloca", "dealloca"}
    /\ made = "new" <=> ty = "delete"
    /\ made = "newvec" <=> ty = "deletevec"

\* What is kept of a freed block is for the log only.
FreedNode == [kind |-> "freed", type |-> "free", size |-> 0, marked |-> FALSE]

\* __mp_freealloc() of a block whose details are kept: if there are as many freed
\* blocks as allowed the oldest is let go, but not the slot of its node.
Keep(h, p) ==
    LET full == h.flist # <<>> /\ Len(h.flist) = FMAX
        rest == IF full THEN Without(h.info, Head(h.flist)) ELSE h.info
    IN  [h EXCEPT !.info = With(rest, p, FreedNode),
                  !.flist = Append(IF full THEN Tail(@) ELSE @, p)]

\* __mp_freealloc() of a block whose details are not kept.
Drop(h, p) == [h EXCEPT !.info = Without(@, p)]

\* Forgets to give the slot back.
Bug_UnstackLeak(h, p) ==
    [h EXCEPT !.astack = Only(@, Addresses \ {p})]

\* The block is taken off the stack of blocks made by alloca().
Unstack(h, p) ==
    IF p \in Blocks(h.astack)
    THEN [h EXCEPT !.astack = Only(@, Addresses \ {p}), !.slots.alloca = @ - 1]
    ELSE h

\* __mp_freememory()
FreeMemory(h, p, inside, ty) ==
    LET errors ==
            IF p = NULL THEN {}
            ELSE IF Unknown(h, p, inside) # {} THEN Unknown(h, p, inside)
            ELSE IF ~Compatible(h.info[p].type, ty) THEN {"INCOMP"}
            ELSE IF h.info[p].marked THEN {"FREMRK"} ELSE {}
        u == IF ty \in {"alloca", "dealloca"} THEN Unstack(h, p) ELSE h
        freed == IF FMAX > 0 THEN Keep(u, p)
                 ELSE Drop([u EXCEPT !.slots.info = @ - 1], p)
    IN  Result(IF p = NULL \/ errors # {} THEN h ELSE freed, NULL, errors)

-----------------------------------------------------------------------------
(***************************************************************************)
(* The blocks made by alloca()                                             *)
(***************************************************************************)
\* The call stack of thread t, without the place in the calling function where
\* the library is called: what MP_FULLSTACK builds compare.
Chain(t) == [k \in 1..Len(path[t]) |-> path[t][k].site]

\* Takes a function for ended if the caller is no deeper.
Bug_OutOfScope(made, chain) == Len(made) >= Len(chain)

\* __mp_compareaddrs() gives SC_SHALLOWER or SC_DIFFERENT: it goes to the end of
\* both stacks first, and compares addresses only in stacks of the same length.
OutOfScope(made, chain) ==
    \/ Len(made) > Len(chain)
    \/ Len(made) = Len(chain) /\ made # chain

\* The nodes of the functions that are seen to have returned.
Ended(h, t) ==
    LET over == {k \in 1..Len(h.astack) :
                     OutOfScope(h.astack[k].frame, Chain(t))}
    IN  Only(h.astack, {h.astack[k].block : k \in over})

\* Frees the blocks of a stack, newest first.
FreeAll(h, stack) ==
    LET done[k \in 0..Len(stack)] ==
            IF k = 0 THEN Result(h, NULL, {})
            ELSE LET r == FreeMemory(done[k - 1].state, stack[k].block, FALSE,
                                     "alloca")
                 IN  Result(r.state, NULL, done[k - 1].errors \cup r.errors)
    IN  done[Len(stack)]

\* checkalloca(), which does nothing in a call from inside of another one.
CheckAlloca(h, t, nested) ==
    IF nested THEN Result(h, NULL, {}) ELSE FreeAll(h, Ended(h, t))

-----------------------------------------------------------------------------
(***************************************************************************)
(* Getting and resizing                                                    *)
(***************************************************************************)
AtLeastOne(l) == IF l = 0 THEN 1 ELSE l

\* Asks whether the limit has been passed, not whether it will be.
Bug_Refused(h, more, nested) == ~nested /\ LIMIT > 0 /\ Asize(h) > LIMIT

\* A call from inside of another one may exceed the limit.
Refused(h, more, nested) == ~nested /\ LIMIT > 0 /\ Asize(h) + more > LIMIT

\* Functions whose blocks are freed in the same way are not told apart.
NewType(ty) == IF ty \in {"alloca", "new", "newvec"} THEN ty ELSE "malloc"

\* The slots that __mp_getmemory() may have got when it fails: first, for alloca()
\* alone, one of the table of its nodes, and if that is not refused one of the table
\* of information nodes.
SlotsGot(h, l, ty, nested) ==
    {g \in [alloca : {0, 1}, info : {0, 1}] :
        /\ g.alloca = 1 => ty = "alloca"
        /\ g.info = 1 => /\ ty = "alloca" => g.alloca = 1
                         /\ h.slots.info < INFOS
        /\ Refused(h, l, nested) => g.alloca = 0 /\ g.info = 0}

WithSlots(s, g) == [alloca |-> s.alloca + g.alloca, info |-> s.info + g.info]

\* Gives the slot for alloca() back only if the other one was refused.
Bug_GivenBack(s, g) ==
    [alloca |-> IF g.info = 0 THEN s.alloca - g.alloca ELSE s.alloca,
     info |-> s.info - g.info]

GivenBack(s, g) == [alloca |-> s.alloca - g.alloca, info |-> s.info - g.info]

\* __mp_getmemory(): it may fail for the limit, for want of memory for either
\* node or for the block, or when told to by the FAILFREQ option; what it has got
\* by then is given back.
GetMemory(h, t, l, ty, nested) ==
    LET m == [kind |-> "live", type |-> NewType(ty), size |-> AtLeastOne(l),
              marked |-> FALSE]
        block(p) == [h EXCEPT !.info = With(@, p, m), !.slots.info = @ + 1]
        Stacked(x, p) ==
            [x EXCEPT !.astack = <<[block |-> p, frame |-> Chain(t)]>> \o @,
                      !.slots.alloca = @ + 1]
        places == IF Refused(h, l, nested) \/ h.slots.info >= INFOS THEN {}
                  ELSE Addresses \ DOMAIN h.info
        failed(g) == [h EXCEPT !.slots = GivenBack(WithSlots(@, g), g)]
    IN  {Result(failed(g), NULL, {}) : g \in SlotsGot(h, l, ty, nested)}
        \cup {Result(IF ty = "alloca" THEN Stacked(block(p), p) ELSE block(p),
                     p, {}) : p \in places}

\* realloc() frees the block as well.
Bug_FailedResize(h, p, ty) ==
    LET r == FreeMemory(h, p, FALSE, ty) IN Result(r.state, NULL, r.errors)

\* reallocf() does not free the block either.
Bug_FailedResizeLeak(h, p, ty) == Result(h, NULL, {})

FailedResize(h, p, ty) ==
    IF ty = "reallocf" THEN FreeMemory(h, p, FALSE, ty) ELSE Result(h, NULL, {})

\* The node at p gets the new size, and the total of marked blocks with it.
Sized(h, p, l) ==
    [h EXCEPT !.info[p].size = l,
              !.mtotal = IF h.info[p].marked THEN @ - h.info[p].size + l ELSE @]

\* The block moves from p to q with its node.
Moved(h, p, q) == With(h.info, q, h.info[p])

\* __mp_resizememory() of a block that it knows, to a size other than 0: in place,
\* or by way of a new block and freeing of the old one, which gets a node of its
\* own if its details are to be kept.
ResizeBlock(h, p, l, ty, nested) ==
    LET d == h.info[p].size
        keep == FMAX > 0 /\ ty # "expand"
        places == Addresses \ DOMAIN h.info
        here == IF keep THEN {} ELSE {Result(Sized(h, p, l), p, {})}
        moved == IF keep \/ ty = "expand" \/ l = d THEN {}
                 ELSE {Result(Sized(Drop([h EXCEPT !.info = Moved(h, p, q)], p),
                                    q, l), q, {}) : q \in places}
        copied == IF ~keep \/ h.slots.info >= INFOS THEN {}
                  ELSE {Result(Sized(Keep([h EXCEPT !.info = Moved(h, p, q),
                                                    !.slots.info = @ + 1], p),
                                     q, l), q, {}) : q \in places}
        failed == IF nested /\ l = d /\ ~keep THEN {}
                  ELSE {FailedResize(h, p, ty)}
    IN  IF l > d /\ Refused(h, l - d, nested) THEN {FailedResize(h, p, ty)}
        ELSE here \cup moved \cup copied \cup failed

\* __mp_resizememory()
ResizeMemory(h, t, p, inside, l, ty, nested) ==
    IF p = NULL THEN GetMemory(h, t, l, ty, nested)
    ELSE IF Unknown(h, p, inside) # {}
    THEN {Result(h, NULL, Unknown(h, p, inside))}
    ELSE IF h.info[p].type # "malloc" THEN {Result(h, NULL, {"INCOMP"})}
    ELSE IF l = 0 THEN {FreeMemory(h, p, FALSE, ty)}
    ELSE ResizeBlock(h, p, l, ty, nested)

-----------------------------------------------------------------------------
(***************************************************************************)
(* The program, which may be wrong, and what it knows of its blocks.  A    *)
(* call that it is wrong to make must be reported, one that it is right to *)
(* make must not; of a rash one the library cannot know what was meant.    *)
(***************************************************************************)
Active(t) == UNION {path[t][k].blocks : k \in 1..Len(path[t])}

\* Blocks that a call which is waiting for the handler is at work on.
Pending == {frames[k].call.block : k \in 1..Len(frames)}

\* The program does not hand a block to the library while another call has it,
\* nor the blocks that another thread has by alloca().
MayName(t) ==
    {NULL} \cup ((Addresses \ Pending)
                   \ UNION {Active(u) : u \in Threads \ {t}})

\* The thread that holds the library's lock while the handler runs is the only
\* one to get in, as often as the handler calls.
MayCall(t) ==
    /\ ~aborted
    /\ frames # <<>> => /\ t = Last(frames).call.thread
                        /\ Last(frames).left > 0

\* What the manual tells the program to free its blocks with.
FreedBy == [malloc |-> "free", new |-> "delete", newvec |-> "deletevec"]

FreeVerdict(t, p, inside, ty) ==
    IF p = NULL THEN "right"
    ELSE IF inside THEN "wrong"
    ELSE IF ty = "dealloca"
    THEN IF p \in Active(t) THEN "right"
         ELSE IF p \in Blocks(astack) THEN "rash"
         ELSE "wrong"
    ELSE IF p \in DOMAIN held /\ ~held[p].marked /\ ty = FreedBy[held[p].type]
    THEN "right" ELSE "wrong"

ResizeVerdict(p, inside, l, ty) ==
    IF p = NULL THEN "right"
    ELSE IF inside \/ p \notin DOMAIN held THEN "wrong"
    ELSE IF held[p].type # "malloc" \/ (held[p].marked /\ l = 0) THEN "wrong"
    ELSE IF held[p].marked /\ ty = "reallocf" THEN "rash" ELSE "right"

Outcome(t, errors, verdict) ==
    [thread |-> t, errors |-> errors, verdict |-> verdict]

Init ==
    /\ info = [p \in {} |-> FreedNode] /\ flist = <<>> /\ astack = <<>>
    /\ slots = [info |-> 0, alloca |-> 0]
    /\ mcount = 0 /\ mtotal = 0
    /\ frames = <<>>
    /\ \E s \in [Threads -> SITES] :
           path = [t \in Threads |-> <<[site |-> s[t], blocks |-> {}]>>]
    /\ held = [p \in {} |-> NULL]
    /\ outcome = Outcome(NULL, {}, "right")
    /\ aborted = FALSE

-----------------------------------------------------------------------------
(***************************************************************************)
(* Calls                                                                   *)
(***************************************************************************)
Nested == frames # <<>>

\* The handler that makes the call has one call less to make.
Waiting == IF Nested THEN [frames EXCEPT ![Len(frames)].left = @ - 1] ELSE <<>>

\* The call gets what it asked for.
Succeed(c, r, mine, rest) ==
    LET here == Len(path[c.thread])
    IN  /\ r.ret # NULL
        /\ frames' = rest
        /\ IF c.type = "alloca"
           THEN /\ path' = [path EXCEPT ![c.thread][here].blocks =
                                            @ \cup {r.ret}]
                /\ held' = mine
           ELSE /\ held' = With(mine, r.ret,
                                [type |-> NewType(c.type),
                                 size |-> AtLeastOne(c.size),
                                 marked |-> c.before # NULL /\ c.before.marked])
                /\ UNCHANGED path
        /\ UNCHANGED aborted

\* Calls the handler however often it has done so.
Bug_CallHandler(c, r, again, mine, rest) ==
    /\ r.ret = NULL /\ HANDLER
    /\ frames' = Append(rest, [call |-> c, left |-> IF rest = <<>>
                                                    THEN HANDLERCALLS
                                                    ELSE Last(rest).left])
    /\ held' = mine
    /\ UNCHANGED <<path, aborted>>

\* The handler is called before the only other attempt, or before any other one
\* of the operators new.
CallHandler(c, r, again, mine, rest) ==
    /\ r.ret = NULL /\ HANDLER
    /\ again => c.type \in {"new", "newvec"}
    /\ frames' = Append(rest, [call |-> c, left |-> IF rest = <<>>
                                                    THEN HANDLERCALLS
                                                    ELSE Last(rest).left])
    /\ held' = mine
    /\ UNCHANGED <<path, aborted>>

\* The call fails, and with it the program if the function must not.
Fail(c, r, again, mine, rest) ==
    /\ r.ret = NULL
    /\ HANDLER => again /\ c.type \notin {"new", "newvec"}
    /\ frames' = rest
    /\ held' = IF \/ c.before = NULL \/ c.size = 0
                  \/ c.type = "reallocf" /\ ~c.before.marked
               THEN mine ELSE With(mine, c.block, c.before)
    /\ aborted' = (c.type \in {"alloca", "xmalloc", "xrealloc"})
    /\ UNCHANGED path

\* An attempt at call c, of which r0 has come so far.
Attempt(c, r0, again, mine, rest) ==
    \E r \in ResizeMemory(r0.state, c.thread, c.block, c.inside, c.size, c.type,
                          rest # <<>>) :
        /\ Becomes(r.state)
        /\ outcome' = Outcome(c.thread, r0.errors \cup r.errors, c.verdict)
        /\ \/ Succeed(c, r, mine, rest)
           \/ CallHandler(c, r, again, mine, rest)
           \/ Fail(c, r, again, mine, rest)

\* __mp_alloc()
Alloc(t, l, ty) ==
    LET c == [thread |-> t, block |-> NULL, inside |-> FALSE, size |-> l,
              type |-> ty, verdict |-> "right", before |-> NULL]
    IN  /\ MayCall(t) /\ (Nested => ty # "alloca")
        /\ Attempt(c, CheckAlloca(Now, t, Nested), FALSE, held, Waiting)

\* __mp_realloc(): while it lasts the block is not the program's.
Realloc(t, p, inside, l, ty) ==
    LET verdict == ResizeVerdict(p, inside, l, ty)
        takes == p # NULL /\ verdict # "wrong"
        c == [thread |-> t, block |-> p, inside |-> inside, size |-> l,
              type |-> ty, verdict |-> verdict,
              before |-> IF takes THEN held[p] ELSE NULL]
    IN  /\ MayCall(t) /\ p \in MayName(t) /\ (inside => p # NULL)
        /\ MISUSE \/ verdict = "right"
        /\ Attempt(c, CheckAlloca(Now, t, Nested), FALSE,
                   IF takes THEN Without(held, p) ELSE held, Waiting)

\* The low-memory handler returns and the call that is waiting is tried again.
HandlerReturns ==
    /\ Nested /\ ~aborted
    /\ Attempt(Last(frames).call, Result(Now, NULL, {}), TRUE, held, Front(frames))

\* No function of the thread has the block any more.
Forget(functions, p) ==
    [k \in DOMAIN functions |-> [functions[k] EXCEPT !.blocks = @ \ {p}]]

\* __mp_free()
Free(t, p, inside, ty) ==
    LET r0 == CheckAlloca(Now, t, Nested)
        r == FreeMemory(r0.state, p, inside, ty)
        verdict == FreeVerdict(t, p, inside, ty)
    IN  /\ MayCall(t) /\ p \in MayName(t) /\ (inside => p # NULL)
        /\ MISUSE \/ verdict = "right"
        /\ Becomes(r.state)
        /\ outcome' = Outcome(t, r0.errors \cup r.errors, verdict)
        /\ held' = IF verdict = "right" THEN Without(held, p) ELSE held
        /\ path' = IF verdict = "right" /\ ty = "dealloca"
                   THEN [path EXCEPT ![t] = Forget(@, p)] ELSE path
        /\ frames' = Waiting
        /\ UNCHANGED aborted

\* __mp_setmark()
SetMark(t, p) ==
    LET marks == /\ p \in Live(Now) /\ ~info[p].marked
                 /\ info[p].type # "alloca"
    IN  /\ MARKS /\ MayCall(t) /\ p \in MayName(t)
        /\ info' = IF marks THEN [info EXCEPT ![p].marked = TRUE] ELSE info
        /\ mcount' = IF marks THEN mcount + 1 ELSE mcount
        /\ mtotal' = IF marks THEN mtotal + info[p].size ELSE mtotal
        /\ held' = IF marks /\ p \in DOMAIN held
                   THEN [held EXCEPT ![p].marked = TRUE] ELSE held
        /\ outcome' = Outcome(NULL, {}, "right")
        /\ frames' = Waiting
        /\ UNCHANGED <<flist, astack, slots, path, aborted>>

\* A function of the program calls another one.
Enter(t, s) ==
    /\ ~aborted /\ ~(Nested /\ Last(frames).call.thread = t)
    /\ Len(path[t]) < MAXPATH
    /\ path' = [path EXCEPT ![t] = Append(@, [site |-> s, blocks |-> {}])]
    /\ outcome' = Outcome(NULL, {}, "right")
    /\ UNCHANGED <<library, frames, held, aborted>>

\* A function of the program returns, and no more uses the blocks it has by
\* alloca().
Return(t) ==
    /\ ~aborted /\ ~(Nested /\ Last(frames).call.thread = t)
    /\ Len(path[t]) > 1
    /\ path' = [path EXCEPT ![t] = Front(@)]
    /\ outcome' = Outcome(NULL, {}, "right")
    /\ UNCHANGED <<library, frames, held, aborted>>

Next ==
    \/ \E t \in Threads, l \in SIZES, ty \in NEWTYPES : Alloc(t, l, ty)
    \/ \E t \in Threads, p \in Addresses \cup {NULL}, inside \in BOOLEAN :
           \/ \E l \in SIZES, ty \in RESIZETYPES : Realloc(t, p, inside, l, ty)
           \/ \E ty \in FREETYPES : Free(t, p, inside, ty)
    \/ HandlerReturns
    \/ \E t \in Threads, p \in Addresses : SetMark(t, p)
    \/ \E t \in Threads : Return(t) \/ \E s \in SITES : Enter(t, s)

Spec == Init /\ [][Next]_vars

\* A handler has few calls to make and then returns.
FairSpec == Spec /\ WF_vars(HandlerReturns)

-----------------------------------------------------------------------------
(***************************************************************************)
(* Properties                                                              *)
(***************************************************************************)
Kinds == {"malloc", "alloca", "new", "newvec"}
Nodes == [kind : {"live"}, type : Kinds, size : Nat \ {0}, marked : BOOLEAN]
             \cup {FreedNode}
HeldBlocks == [type : Kinds \ {"alloca"}, size : Nat \ {0}, marked : BOOLEAN]
ASSUME NullAssumption == NULL \notin HeldBlocks
Paths == Seq([site : SITES, blocks : SUBSET Addresses])
Errors == {"NOTALL", "PRVFRD", "MISMAT", "INCOMP", "FREMRK"}
Verdicts == {"right", "wrong", "rash"}
CallType == [thread : Threads, block : Addresses \cup {NULL}, inside : BOOLEAN,
             size : SIZES, type : NEWTYPES \cup RESIZETYPES, verdict : Verdicts,
             before : HeldBlocks \cup {NULL}]

\* The state of the library and of the program has its type; above all no block
\* has size 0, however small it was asked to be (__mp_getalloc(), alloc.c:333).
TypeOK ==
    /\ DOMAIN info \subseteq Addresses
    /\ \A p \in DOMAIN info : info[p] \in Nodes
    /\ flist \in Seq(Addresses)
    /\ astack \in Seq([block : Addresses, frame : Seq(SITES)])
    /\ slots \in [info : 0..INFOS, alloca : Nat]
    /\ mcount \in Nat /\ mtotal \in Nat
    /\ frames \in Seq([call : CallType, left : 0..HANDLERCALLS])
    /\ \A t \in Threads : path[t] \in Paths /\ Len(path[t]) \in 1..MAXPATH
    /\ DOMAIN held \subseteq Addresses
    /\ \A p \in DOMAIN held : held[p] \in HeldBlocks
    /\ outcome \in [thread : Threads \cup {NULL}, errors : SUBSET Errors,
                    verdict : Verdicts]
    /\ aborted \in BOOLEAN

\* The stack of alloca() blocks has all the live blocks that were made by alloca()
\* and no others, each once, whether they went in order, by dealloca() or because
\* their functions returned.
StackExact ==
    /\ \A j, k \in 1..Len(astack) : astack[j].block = astack[k].block => j = k
    /\ Blocks(astack) = {p \in Live(Now) : info[p].type = "alloca"}

\* A block made by alloca() is there as long as the function that made it has not
\* returned, whatever calls are made from where meanwhile (checkalloca()).
AllocaInScopeIsLive ==
    aborted \/ \A t \in Threads : \A p \in Active(t) :
                   p \in Live(Now) /\ info[p].type = "alloca"

\* After a call, no block is left of a function that ran deeper than the caller
\* does, nor of one that ran as deep but was reached by another way.
EndedAreFreed ==
    outcome.thread # NULL /\ frames = <<>> =>
        \A k \in 1..Len(astack) :
            LET made == astack[k].frame
                chain == Chain(outcome.thread)
            IN  Len(made) < Len(chain) \/ made = chain

\* No slot is lost, on any way out of a call that fails, and none is given back
\* twice: one is in use for each block, and for each one on the stack.
SlotsExact ==
    /\ slots.info = Cardinality(DOMAIN info)
    /\ slots.alloca = Len(astack)

\* The books that are kept of blocks made by alloca().
AllocaExact == StackExact /\ EndedAreFreed /\ SlotsExact

\* What the program holds is live, and of the kind, size and mark that it has been
\* told: a failed call has left it alone, no other call has freed it.
HeldIsLive ==
    aborted \/ \A p \in DOMAIN held :
        p \in Live(Now) /\ info[p] = [kind |-> "live", type |-> held[p].type,
                                      size |-> held[p].size,
                                      marked |-> held[p].marked]

\* No block is lost: one that is live is the program's, on the stack of alloca()
\* blocks, or that of a call that has still to be answered.
NothingLost ==
    aborted \/ Live(Now) \subseteq DOMAIN held \cup Pending \cup Blocks(astack)

\* The library reports no error to a program that has made none.
ErrorsAreDeserved == outcome.errors # {} => outcome.verdict # "right"

\* A call that the program is wrong to make is reported, whichever block the
\* pointer is to, or into, and whatever that block has gone through.
MisuseIsReported == outcome.verdict = "wrong" => outcome.errors # {}

\* The count and the total of marked blocks are those of the live ones, none of
\* which is freed or loses its mark when it is resized or moved.
MarksExact ==
    LET marked == {p \in Live(Now) : info[p].marked}
    IN  /\ mcount = Cardinality(marked)
        /\ mtotal = SumOf(Sizes(Now), marked)

\* Exactly the blocks in the queue of freed ones are kept, each once and no more
\* of them than the NOFREE option says.
FreedKept ==
    /\ Len(flist) <= FMAX
    /\ \A j, k \in 1..Len(flist) : flist[j] = flist[k] => j = k
    /\ {flist[k] : k \in 1..Len(flist)} = Freed(Now)

\* What the program holds and what the library knows of agree.
BlocksExact == TypeOK /\ HeldIsLive /\ NothingLost /\ MarksExact /\ FreedKept

\* Errors are reported if and only if they have been made.
ErrorsExact == ErrorsAreDeserved /\ MisuseIsReported

\* The live blocks do not come to more than the LIMIT option says, however they
\* got their sizes; a low-memory handler may exceed it, its calls being nested.
LimitKept == LIMIT > 0 /\ ~HANDLER => Asize(Now) <= LIMIT

\* A call for which the low-memory handler runs is answered in the end, or ends
\* the program.
CallsAreAnswered == Nested ~> (~Nested \/ aborted)
=============================================================================
