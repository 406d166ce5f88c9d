------------------------------- MODULE Tools -------------------------------
(***************************************************************************)
(* The tools of tools/heapdiff.c, tools/mtrace.c and tools/mgauge.c on top *)
(* of the library's interface: the prologue and epilogue functions that    *)
(* src/inter.c calls around every operation on the heap, contents files    *)
(* (src/diag.c), the NOFREE option and the functions called at the end.    *)
(*                                                                         *)
(* The tools hook into the same two function pointers: each keeps what was *)
(* there and calls it in its own.  The program starts and ends them one    *)
(* within the other.  A tool's function is one step: it and the functions  *)
(* it hands to __mp_iterate() do not change the blocks of the program.     *)
(*                                                                         *)
(* A block freed while NOFREE is on is kept, with the number it had.       *)
(***************************************************************************)
EXTENDS Integers, Sequences, FiniteSets, Functions, Sums

CONSTANTS
    ADDRS,      \* addresses of blocks; those of kept blocks are not reused
    CONTENTS,   \* contents of blocks: sequences of bytes, not empty
    QUEUES,     \* the values of the NOFREE option that the program starts with
    FLAGS,      \* the sets of flags given to heapdiffstart()
    RATES,      \* the frequencies given to mgaugestart()
    MAXDIFFS,   \* bound: heapdiffs under way
    MAXSTEPS    \* bound: steps of the program

VARIABLES
    blocks,     \* the allocated and the kept blocks
    event,      \* memhead.event
    queue,      \* h->alloc.fmax: how many freed blocks are kept
    hooks,      \* memhead.prologue and memhead.epilogue: names of tools
    mtrace,     \* the variables of mtrace.c, and the event when it was started
    reader,     \* what the trace file says is allocated, and what size it has
    gauge,      \* the variables of mgauge.c, and the bytes that it shows
    hd,         \* the variables of heapdiff.c
    diffs,      \* the heapdiffs under way, outermost first
    files,      \* contents files: named for a heapdiff and a block
    atexit,     \* the tools' functions in memhead.finis
    nesting,    \* which tools the program has started within which
    steps,      \* the steps of the program so far; -1 when it has ended
    report,     \* what the last heapdiff has reported, and what was the case
    within,     \* has a block of alloca() been freed within a traced call?
    zeroed      \* blocks that the program has resized to nothing

toolsVars == <<blocks, event, queue, hooks, mtrace, reader, gauge, hd, diffs,
               files, atexit, nesting, steps, report, within, zeroed>>

NULL == 0           \* addresses, and the special ones passed to the functions
MINUS1 == -1        \* (void *) -1
FREED == -1         \* (size_t) -1
STRINGSIZE == -2        \* (size_t) -2
ALL == 1000         \* ~0 as a value of NOFREE

\* Memory ends before ALL blocks are kept in it; a block has a byte at least.
ToolsAssumption ==
    /\ IsFiniteSet(ADDRS) /\ Cardinality(ADDRS) < ALL
    /\ NULL \notin ADDRS /\ MINUS1 \notin ADDRS
    /\ CONTENTS \subseteq Seq(Nat) \ {<<>>}
    /\ QUEUES \subseteq Nat /\ RATES \subseteq Nat
ASSUME ToolsAssumption

Live(B) == {b \in B : ~b.freed}
Retained(B) == {b \in B : b.freed}
At(B, p) == {b \in Live(B) : b.at = p}

\* What is allocated: there is one block at most at an address.
SizeAt(B, p) == IF At(B, p) = {} THEN 0 ELSE Len((CHOOSE b \in At(B, p) : TRUE).data)
Total(B) == SumOf([p \in ADDRS |-> SizeAt(B, p)], ADDRS)

\* What a call of the library changes step by step.
Now == [blocks |-> blocks, event |-> event, mtrace |-> mtrace, reader |-> reader,
        gauge |-> gauge, diffs |-> diffs, files |-> files]

Becomes(s) ==
    /\ blocks' = s.blocks /\ event' = s.event /\ mtrace' = s.mtrace
    /\ reader' = s.reader /\ gauge' = s.gauge /\ diffs' = s.diffs
    /\ files' = s.files

-----------------------------------------------------------------------------
(***************************************************************************)
(* The prologue and epilogue functions                                     *)
(***************************************************************************)
\* The functions in the order in which they act: a prologue function first
\* calls the one it has replaced, an epilogue function does so at its end.
Prologues ==
    LET Old(h) == IF h = "mtrace" THEN mtrace.oldpro
                  ELSE IF h = "heapdiff" THEN hd.old ELSE "none"
    IN  <<Old(Old(hooks.pro)), Old(hooks.pro), hooks.pro>>

\* The trace calls nobody.
Bug_Epilogues ==
    <<hooks.epi, IF hooks.epi = "mgauge" THEN gauge.old ELSE "none", "none">>
Epilogues ==
    LET Old(h) == IF h = "mtrace" THEN mtrace.oldepi
                  ELSE IF h = "mgauge" THEN gauge.old ELSE "none"
    IN  <<hooks.epi, Old(hooks.epi), Old(Old(hooks.epi))>>

\* Removes the file of the last heapdiff only.
Bug_Forgets(f) == f.id = hd.count
Forgets(f) == f.id \in 1..hd.count

\* prologue() of heapdiff.c and __mp_remcontents(): the files of the block at p,
\* which may be a kept one, when it is about to be freed.
HeapdiffPrologue(s, p, l) ==
    IF l # FREED THEN s
    ELSE [s EXCEPT !.files = {f \in @ :
            ~(Forgets(f) /\ \E b \in s.blocks : b.at = p /\ b.num = f.num)}]

\* prologue() of mtrace.c
MtracePrologue(s, p, l) ==
    [s EXCEPT !.mtrace.pointer = p, !.mtrace.size = l]

\* The lines that epilogue() of mtrace.c writes, as what they mean to a reader:
\* the address that is no longer allocated, and the address and size that are.
Line(gone, new, size) == [gone |-> gone, new |-> new, size |-> size]

\* Does not write that the old address is gone when a block has been moved.
Bug_Lines(s, p) ==
    LET q == s.mtrace.pointer
        l == s.mtrace.size
    IN  CASE q = MINUS1 -> Line(NULL, p, l)
          [] l = FREED -> Line(q, NULL, 0)
          [] l = STRINGSIZE -> Line(NULL, p, SizeAt(s.blocks, q))
          [] OTHER -> Line(IF l = 0 THEN q ELSE NULL, p, l)

Lines(s, p) ==
    LET q == s.mtrace.pointer
        l == s.mtrace.size
    IN  IF q = MINUS1 THEN Line(NULL, p, l)
        ELSE IF l = FREED THEN Line(q, NULL, 0)
        ELSE IF l = STRINGSIZE THEN Line(NULL, p, SizeAt(s.blocks, q))
        ELSE IF q = NULL THEN Line(NULL, p, l)
        ELSE IF l = 0 THEN Line(q, NULL, 0)
        ELSE IF p = NULL THEN Line(NULL, NULL, l)
        ELSE Line(q, p, l)

\* The file as its reader takes it: a line about NULL says nothing.
Read(r, x) ==
    {e \in r : e.at # x.gone}
        \cup (IF x.new = NULL THEN {} ELSE {[at |-> x.new, size |-> x.size]})

MtraceEpilogue(s, p) == [s EXCEPT !.reader = Read(@, Lines(s, p))]

\* updategauge()
Updated(g, B) == IF g.paused THEN g ELSE [g EXCEPT !.shown = Total(B)]

\* epilogue() of mgauge.c
MgaugeEpilogue(s) ==
    LET g == IF s.gauge.count % s.gauge.rate = 0
             THEN Updated(s.gauge, s.blocks) ELSE s.gauge
    IN  [s EXCEPT !.gauge = [g EXCEPT !.count = @ + 1]]

\* The function of a tool is called, or none.
CallPrologue(tool, s, p, l) ==
    IF tool = "heapdiff" THEN HeapdiffPrologue(s, p, l)
    ELSE IF tool = "mtrace" THEN MtracePrologue(s, p, l) ELSE s

CallEpilogue(tool, s, p) ==
    IF tool = "mtrace" THEN MtraceEpilogue(s, p)
    ELSE IF tool = "mgauge" THEN MgaugeEpilogue(s) ELSE s

Prologue(s, p, l) ==
    LET first == CallPrologue(Prologues[1], s, p, l)
        second == CallPrologue(Prologues[2], first, p, l)
    IN  CallPrologue(Prologues[3], second, p, l)

Epilogue(s, p) ==
    LET first == CallEpilogue(Epilogues[1], s, p)
        second == CallEpilogue(Epilogues[2], first, p)
    IN  CallEpilogue(Epilogues[3], second, p)

-----------------------------------------------------------------------------
(***************************************************************************)
(* Operations on the heap                                                  *)
(***************************************************************************)
\* Every heapdiff under way sees what becomes of a block.
Seen(D, freed, touched) ==
    [i \in DOMAIN D |-> [D[i] EXCEPT !.freed = @ \cup freed,
                                     !.touched = @ \cup touched]]

Oldest(B) == {b \in Retained(B) : \A c \in Retained(B) : b.event <= c.event}

\* __mp_recyclefreed() until no more than n blocks are kept.
Recycled(B, n) ==
    {b \in B : b.freed =>
        Cardinality({c \in Retained(B) : c.event >= b.event}) <= n}

\* __mp_freememory() of block b, or the end of its old copy when it has moved:
\* with NOFREE on the block is kept, and the oldest one goes if there are more.
FreeBlock(s, b) ==
    LET full == queue # 0 /\ Cardinality(Retained(s.blocks)) = queue
        room == IF full THEN s.blocks \ Oldest(s.blocks) ELSE s.blocks
        kept == IF queue = 0 THEN {} ELSE {[b EXCEPT !.freed = TRUE, !.event = s.event]}
    IN  [s EXCEPT !.blocks = (room \ {b}) \cup kept,
                  !.diffs = Seen(@, {<<b.num, b.at>>}, {})]

\* checkalloca(): frees a block of alloca(), calling the functions for it.
FreeEnded(s, b) ==
    LET t == Prologue(s, b.at, FREED)
        u == FreeBlock([t EXCEPT !.event = @ + 1], b)
    IN  Epilogue(u, MINUS1)

\* The blocks of alloca() to be freed, and the last one of them.
Ended(B, all) == {b \in Live(B) : b.kind = "ended" \/ (all /\ b.kind = "stack")}
Newest(B) == CHOOSE b \in B : \A c \in B : c.num <= b.num

\* They are freed one after the other.
FreeLast(s, all) ==
    IF Ended(s.blocks, all) = {} THEN s
    ELSE FreeEnded(s, Newest(Ended(s.blocks, all)))

FreeAllEnded(s, all) ==
    LET freed[n \in 0..Cardinality(Ended(s.blocks, all))] ==
            IF n = 0 THEN s ELSE FreeLast(freed[n - 1], all)
    IN  freed[Cardinality(Ended(s.blocks, all))]

\* The start of an operation: the functions are called, then blocks of alloca()
\* that are out of scope are freed.
Begin(p, l) == FreeAllEnded(Prologue(Now, p, l), FALSE)

Step ==
    /\ steps \in 0..MAXSTEPS - 1 /\ steps' = steps + 1
    /\ UNCHANGED report

Operation ==
    /\ Step
    /\ within' = (within \/ (mtrace.on /\ Ended(blocks, FALSE) # {}))
    /\ UNCHANGED <<queue, hooks, hd, atexit, nesting>>

\* Blocks are numbered by the event in which they are allocated.
NewRecord(s, a, d, k) ==
    [num |-> s.event, at |-> a, data |-> d, event |-> s.event, kind |-> k,
     freed |-> FALSE]

FreeAddrs(B) == ADDRS \ {b.at : b \in B}

\* __mp_alloc(), or __mp_realloc() if p is NULL and __mp_strdup() if it is the
\* address of a string: the block gets the contents d.
NewBlock(p, l, d, k) ==
    /\ Operation
    /\ \E s \in {[Begin(p, l) EXCEPT !.event = @ + 1]} :
        \E a \in FreeAddrs(s.blocks) \cup (IF k = "heap" THEN {NULL} ELSE {}) :
            Becomes(Epilogue(
                IF a = NULL THEN s
                ELSE [s EXCEPT !.blocks = @ \cup {NewRecord(s, a, d, k)},
                               !.diffs = Seen(@, {}, {s.event})], a))
    /\ UNCHANGED zeroed

Allocate(d) == \E p \in {MINUS1, NULL} : NewBlock(p, Len(d), d, "heap")
AllocateOnStack(d) == NewBlock(MINUS1, Len(d), d, "stack")
\* strdup(), which tells a prologue function that the size is not known yet.
Duplicate(b) == NewBlock(b.at, STRINGSIZE, b.data, "heap")

\* __mp_free(): of NULL, or of a block by a function that suits it.
Release(p) ==
    /\ Operation
    /\ \E s \in {[Begin(p, FREED) EXCEPT !.event = @ + 1]} :
        Becomes(Epilogue(
            IF At(s.blocks, p) = {} THEN s
            ELSE FreeBlock(s, CHOOSE b \in At(s.blocks, p) : TRUE), MINUS1))
    /\ UNCHANGED zeroed

\* __mp_realloc() of block b to nothing.
ResizeToNothing(b) ==
    /\ Operation
    /\ \E s \in {[Begin(b.at, 0) EXCEPT !.event = @ + 1]} :
        Becomes(Epilogue(FreeBlock(s, b), NULL))
    /\ zeroed' = zeroed \cup {b.num}

Resized(d, l) == [i \in 1..l |-> IF i <= Len(d) THEN d[i] ELSE 0]

\* __mp_realloc() of block b to l bytes: it fails; or the block stays where it
\* is, which it does not with NOFREE on; or it moves and the old one is freed.
Resize(b, l) ==
    /\ Operation
    /\ \E s \in {[Begin(b.at, l) EXCEPT !.event = @ + 1]} :
        LET new(a) == [b EXCEPT !.at = a, !.event = s.event,
                                !.data = Resized(b.data, l)]
            Touched(t) == [t EXCEPT !.diffs = Seen(@, {}, {b.num})]
        IN  \/ Becomes(Epilogue(s, NULL))
            \/ /\ queue = 0
               /\ Becomes(Epilogue(Touched(
                    [s EXCEPT !.blocks = (@ \ {b}) \cup {new(b.at)}]), b.at))
            \/ \E a \in FreeAddrs(s.blocks) :
                LET t == FreeBlock(s, b)
                    moved == IF queue = 0 THEN [t EXCEPT !.diffs = s.diffs] ELSE t
                IN  Becomes(Epilogue(Touched(
                        [moved EXCEPT !.blocks = @ \cup {new(a)}]), a))
    /\ UNCHANGED zeroed

\* __mp_check(), or any other call that frees what is out of scope and has no
\* prologue and epilogue of its own.
Check ==
    /\ Step
    /\ Ended(blocks, FALSE) # {}
    /\ \E s \in {FreeAllEnded(Now, FALSE)} : Becomes(s)
    /\ UNCHANGED <<queue, hooks, hd, atexit, nesting, within, zeroed>>

\* A function of the program returns: its blocks of alloca() are out of scope.
LeaveFunction ==
    /\ Step
    /\ \E b \in Live(blocks) : b.kind = "stack"
    /\ blocks' = {IF b.kind = "stack" /\ ~b.freed THEN [b EXCEPT !.kind = "ended"]
                  ELSE b : b \in blocks}
    /\ UNCHANGED <<event, queue, hooks, mtrace, reader, gauge, hd, diffs, files,
                   atexit, nesting, within, zeroed>>

\* The program writes to a block.
Write(b, d) ==
    /\ Step
    /\ Len(d) = Len(b.data)
    /\ blocks' = (blocks \ {b}) \cup {[b EXCEPT !.data = d]}
    /\ UNCHANGED <<event, queue, hooks, mtrace, reader, gauge, hd, diffs, files,
                   atexit, nesting, within, zeroed>>

-----------------------------------------------------------------------------
(***************************************************************************)
(* Tracing                                                                 *)
(***************************************************************************)
Starts(tool) == nesting' = Append(nesting, tool)
Ends(tool) ==
    /\ nesting # <<>> /\ nesting[Len(nesting)] = tool
    /\ nesting' = SubSeq(nesting, 1, Len(nesting) - 1)

\* __mpt_mtrace() and __mp_prologue(), __mp_epilogue()
StartTrace ==
    /\ Step /\ ~mtrace.on /\ Starts("mtrace")
    /\ mtrace' = [mtrace EXCEPT !.on = TRUE, !.atexit = TRUE, !.since = event,
                                !.oldpro = hooks.pro, !.oldepi = hooks.epi]
    /\ atexit' = IF mtrace.atexit THEN atexit ELSE Append(atexit, "muntrace")
    /\ hooks' = [pro |-> "mtrace", epi |-> "mtrace"]
    /\ reader' = {} /\ within' = FALSE
    /\ UNCHANGED <<blocks, event, queue, gauge, hd, diffs, files, zeroed>>

\* __mpt_muntrace()
EndTrace ==
    /\ Step /\ mtrace.on /\ Ends("mtrace")
    /\ hooks' = [pro |-> mtrace.oldpro, epi |-> mtrace.oldepi]
    /\ mtrace' = [mtrace EXCEPT !.on = FALSE]
    /\ UNCHANGED <<blocks, event, queue, reader, gauge, hd, diffs, files, atexit,
                   within, zeroed>>

-----------------------------------------------------------------------------
(***************************************************************************)
(* The gauge                                                               *)
(***************************************************************************)
\* __mpt_mgaugestart()
StartGauge(u) ==
    /\ Step /\ ~gauge.on /\ Starts("mgauge")
    /\ gauge' = [on |-> TRUE, paused |-> FALSE, count |-> 1, shown |-> Total(blocks),
                 rate |-> IF u = 0 THEN 1 ELSE u, old |-> hooks.epi]
    /\ hooks' = [hooks EXCEPT !.epi = "mgauge"]
    /\ UNCHANGED <<blocks, event, queue, mtrace, reader, hd, diffs, files, atexit,
                   within, zeroed>>

\* __mpt_mgaugeend()
EndGauge ==
    /\ Step /\ gauge.on /\ Ends("mgauge")
    /\ hooks' = [hooks EXCEPT !.epi = gauge.old]
    /\ gauge' = [Updated(gauge, blocks) EXCEPT
                    !.on = FALSE, !.paused = FALSE, !.count = 0, !.rate = 0]
    /\ UNCHANGED <<blocks, event, queue, mtrace, reader, hd, diffs, files, atexit,
                   within, zeroed>>

\* __mpt_mgaugeon() and __mpt_mgaugeoff()
PauseGauge(paused) ==
    /\ Step /\ gauge.on /\ gauge.paused # paused
    /\ gauge' = [gauge EXCEPT !.paused = paused, !.shown = Total(blocks)]
    /\ UNCHANGED <<blocks, event, queue, hooks, mtrace, reader, hd, diffs, files,
                   atexit, nesting, within, zeroed>>

-----------------------------------------------------------------------------
(***************************************************************************)
(* Heap differences                                                        *)
(***************************************************************************)
\* __mp_writealloc(): the file of a block
File(id, b) == [id |-> id, num |-> b.num, data |-> b.data]

\* __mp_iterate(writecallback): files of all blocks that are not freed
Files(id) == {File(id, b) : b \in Live(blocks)}

\* Keeps nothing of what the option was.
Bug_SavedQueue == 0
SavedQueue == queue

\* __mpt_heapdiffstart(): __mp_snapshot(), __mp_getoption(), __mp_setoption()
\* and, with HD_CONTENTS, __mp_writecontents() for every block.
StartDiff(flags) ==
    /\ Step /\ Len(diffs) < MAXDIFFS /\ Starts("heapdiff")
    /\ LET id == hd.count + 1
           contents == "contents" \in flags
       IN  /\ diffs' = Append(diffs,
                [id |-> id, event |-> event, flags |-> flags, nofree |-> SavedQueue,
                 was |-> Live(blocks), freed |-> {}, touched |-> {}])
           /\ files' = files \cup
                (IF contents THEN Files(id) ELSE {})
           /\ hooks' = IF contents /\ hd.total = 0
                       THEN [hooks EXCEPT !.pro = "heapdiff"] ELSE hooks
           /\ hd' = [count |-> id,
                     total |-> hd.total + IF contents THEN 1 ELSE 0,
                     old |-> IF contents /\ hd.total = 0 THEN hooks.pro ELSE hd.old]
           /\ atexit' = IF id = 1 THEN Append(atexit, "cleanup") ELSE atexit
    /\ queue' = IF "freed" \in flags THEN ALL ELSE queue
    /\ UNCHANGED <<blocks, event, mtrace, reader, gauge, within, zeroed>>

\* __mp_cmpalloc(): how many differences it reports.
Differences(old, new) ==
    LET n == Min({Len(old), Len(new)})
    IN  Cardinality({i \in 1..n : old[i] # new[i]})
            + IF Len(old) # Len(new) THEN 1 ELSE 0

\* cmpcallback(): the blocks that differ from what __mp_readalloc() finds in
\* their files for heapdiff id.
Changed(id) ==
    {b \in Live(blocks) : \E f \in files :
        f.id = id /\ f.num = b.num /\ Differences(f.data, b.data) > 0}

\* __mpt_heapdiffend(): the files of the blocks that are allocated are compared
\* and removed, blocks with later events are listed, and the option is put back.
EndDiff ==
    /\ steps \in 0..MAXSTEPS - 1 /\ steps' = steps + 1
    /\ diffs # <<>> /\ Ends("heapdiff")
    /\ LET h == diffs[Len(diffs)]
           contents == "contents" \in h.flags
           last == contents /\ hd.total = 1
           Mine(b) == {f \in files : f.id = h.id /\ f.num = b.num}
           Listed(what, S) == IF what \in h.flags THEN S ELSE {}
           later == {b \in blocks : b.event > h.event}
           same == {b.num : b \in {c \in Live(blocks) :
                        \E w \in h.was : w.num = c.num /\ w.data = c.data}}
           stayed == {b.num : b \in Live(blocks)} \cap {b.num : b \in h.was}
       IN  /\ hooks' = IF last THEN [hooks EXCEPT !.pro = hd.old] ELSE hooks
           /\ hd' = [hd EXCEPT !.total = @ - IF contents THEN 1 ELSE 0]
           /\ files' = files \ UNION {Listed("contents", Mine(b)) : b \in Live(blocks)}
           /\ blocks' = Recycled(blocks, h.nofree)
           /\ queue' = h.nofree
           /\ diffs' = SubSeq(diffs, 1, Len(diffs) - 1)
           /\ report' =
                [changed |-> Listed("contents", {b.num : b \in Changed(h.id)}),
                 freed |-> Listed("freed", {<<b.num, b.at>> : b \in Retained(later)}),
                 unfreed |-> Listed("unfreed", {b.num : b \in Live(later)}),
                 truth |-> [changed |-> Listed("contents", stayed \ same),
                            freed |-> Listed("freed", h.freed),
                            unfreed |-> Listed("unfreed", h.touched
                                            \cap {b.num : b \in Live(blocks)})]]
    /\ UNCHANGED <<event, mtrace, reader, gauge, atexit, within, zeroed>>

-----------------------------------------------------------------------------
(***************************************************************************)
(* The end of the program                                                  *)
(***************************************************************************)
\* __mp_iterate(cleanupcallback): the files that are left when those of all blocks
\* have been removed.
Cleaned(s) == {f \in s.files : ~\E b \in s.blocks : b.num = f.num}

\* __mp_fini(): all blocks of alloca() are freed, then the functions of the tools
\* are called, the last one first.  They touch nothing in common.
Exit ==
    /\ steps >= 0 /\ steps' = -1
    /\ \E s \in {FreeAllEnded(Now, TRUE)} :
        /\ blocks' = s.blocks /\ event' = s.event /\ reader' = s.reader
        /\ gauge' = s.gauge /\ diffs' = s.diffs
        /\ IF \E i \in DOMAIN atexit : atexit[i] = "muntrace" /\ mtrace.on
           THEN /\ mtrace' = [s.mtrace EXCEPT !.on = FALSE]
                /\ hooks' = [pro |-> mtrace.oldpro, epi |-> mtrace.oldepi]
           ELSE mtrace' = s.mtrace /\ UNCHANGED hooks
        /\ files' = IF hd.total # 0 /\ \E i \in DOMAIN atexit : atexit[i] = "cleanup"
                    THEN Cleaned(s) ELSE s.files
    /\ UNCHANGED <<queue, hd, atexit, nesting, report, within, zeroed>>

-----------------------------------------------------------------------------
ToolsInit ==
    /\ blocks = {} /\ event = 0 /\ queue \in QUEUES
    /\ hooks = [pro |-> "none", epi |-> "none"]
    /\ mtrace = [on |-> FALSE, atexit |-> FALSE, since |-> 0, oldpro |-> "none",
                 oldepi |-> "none", pointer |-> NULL, size |-> 0]
    /\ reader = {}
    /\ gauge = [on |-> FALSE, paused |-> FALSE, count |-> 0, shown |-> 0,
                rate |-> 0, old |-> "none"]
    /\ hd = [count |-> 0, total |-> 0, old |-> "none"]
    /\ diffs = <<>> /\ files = {} /\ atexit = <<>> /\ nesting = <<>>
    /\ steps = 0 /\ within = FALSE /\ zeroed = {}
    /\ report = [changed |-> {}, freed |-> {}, unfreed |-> {},
                 truth |-> [changed |-> {}, freed |-> {}, unfreed |-> {}]]

\* What the program asks for: blocks, blocks of alloca(), changes of their
\* contents, and the tools.
BlockCalls ==
    \/ \E d \in CONTENTS : Allocate(d)
    \/ \E b \in Live(blocks) :
        \/ b.kind = "heap" /\ Release(b.at)
        \/ \E d \in CONTENTS : b.kind = "heap" /\ Resize(b, Len(d))
StringCalls ==
    \/ \E b \in Live(blocks) : b.kind = "heap" /\ (Duplicate(b) \/ ResizeToNothing(b))
    \/ Release(NULL)
StackCalls ==
    \/ \E d \in CONTENTS : AllocateOnStack(d)
    \/ \E b \in Live(blocks) : b.kind = "stack" /\ Release(b.at)
    \/ Check \/ LeaveFunction
Writes == \E b \in Live(blocks), d \in CONTENTS : b.kind = "heap" /\ Write(b, d)
TraceCalls == StartTrace \/ EndTrace
GaugeCalls ==
    \/ \E u \in RATES : StartGauge(u)
    \/ EndGauge \/ \E p \in BOOLEAN : PauseGauge(p)
DiffCalls == (\E flags \in FLAGS : StartDiff(flags)) \/ EndDiff

ToolsNext ==
    \/ BlockCalls \/ StringCalls \/ StackCalls \/ Writes
    \/ TraceCalls \/ GaugeCalls \/ DiffCalls \/ Exit

ToolsSpec == ToolsInit /\ [][ToolsNext]_toolsVars

-----------------------------------------------------------------------------
(***************************************************************************)
(* Properties                                                              *)
(***************************************************************************)
Traced == {[at |-> b.at, size |-> Len(b.data)] :
            b \in {c \in Live(blocks) : c.event > mtrace.since}}

\* While tracing is on, the trace file tells its reader which of the blocks
\* allocated or resized since then are allocated, where and how large: whatever
\* other tools are started and ended around it.  Blocks of alloca() that are
\* freed within another call are the exception.
TraceTells == mtrace.on /\ ~within => reader = Traced

\* The same without the exception: the prologue function of mtrace.c keeps one
\* pointer and one size because "the mpatrol library guarantees" that calls
\* of the function are not nested.
TraceTellsAll == mtrace.on => reader = Traced

\* A heapdiff reports as changed the blocks whose contents have changed, as
\* freed those that have been freed since it was started and as unfreed those
\* that have been allocated or resized since and have not been freed: under
\* other heapdiffs in it and around it, which set the NOFREE option too.
DiffsAreTrue ==
    /\ report.changed = report.truth.changed
    /\ report.freed = report.truth.freed
    /\ report.unfreed = report.truth.unfreed

\* There is a file of a block for a heapdiff if and only if that heapdiff is
\* under way and the block was there when it was started and has not been freed
\* since: none are left behind, but for blocks resized to nothing.
FilesBelong ==
    LET want == {<<h.id, b.num>> : h \in {d \in Range(diffs) : "contents" \in d.flags},
                                   b \in Live(blocks)}
        was == {<<h.id, b.num>> : h \in Range(diffs), b \in UNION {d.was : d \in Range(diffs)}}
        have == {<<f.id, f.num>> : f \in {g \in files : g.num \notin zeroed}}
    IN  IF steps < 0 THEN have = {}
        ELSE /\ have \subseteq want \cap was
             /\ \A h \in Range(diffs) : "contents" \in h.flags =>
                    \A b \in Live(blocks) : (\E w \in h.was : w.num = b.num)
                        => <<h.id, b.num>> \in have

\* "All of the allocation contents files will be deleted when the matching call
\* to heapdiffend() is made."
FilesDeleted == \A f \in files : \E h \in Range(diffs) : f.id = h.id

\* A gauge that is updated at every event shows the bytes that are allocated.
GaugeIsCurrent ==
    gauge.on /\ ~gauge.paused /\ gauge.rate = 1 /\ steps >= 0
        => gauge.shown = Total(blocks)
=============================================================================
