------------------------------- MODULE Alloc -------------------------------
(***************************************************************************)
(* The allocation manager of src/alloc.c, with the heap manager of         *)
(* src/heap.c and the slot table of src/slots.c as far as they decide what *)
(* it does.                                                                *)
(*                                                                         *)
(* All user memory is described by one list of nodes.  A free node is a    *)
(* stretch of memory that may be handed out; an allocated or a freed node  *)
(* is a block of the program with an overflow buffer on either side of it. *)
(* A freed node is kept back from reuse until it is recycled.              *)
(*                                                                         *)
(* Calls are serialised by the library's lock (RecMutex.tla), so that an   *)
(* action is a whole call.  The action of a call that fills the user's     *)
(* block includes the filling, done by __mp_getmemory() and                *)
(* __mp_resizememory() of src/info.c before they return.                   *)
(*                                                                         *)
(* An operator whose name starts with Bug_ is no part of the model: it is  *)
(* the definition that follows it with a likely mistake made in it, with   *)
(* which a property of the model must fail.                                *)
(***************************************************************************)
EXTENDS Integers, Sequences, FiniteSets, Sums

CONSTANTS
    WORD,       \* the number of values of size_t: arithmetic is modulo WORD
    PAGE,       \* heap.memory.page
    ALIGN,      \* heap.memory.align, the default alignment
    OFLOWSIZE,  \* the OFLOWSIZE option
    PAGEALLOC, ALLOCUPPER, OFLOWWATCH, PRESERVE,    \* h->flags
    HEAPPAGES,  \* bound: addresses of the pages the system can give out
    SLOTS,      \* nodes in one block of memory for the slot table
    CHUNKS,     \* bound: how many such blocks the system can give out
    SIZES,      \* bound: sizes asked for
    ALIGNS,     \* bound: alignments asked for
    LIMITS      \* bound: values of the NOFREE option

VARIABLES
    list,   \* h->list in order; each node has a block, a size and a kind,
            \* the tree it is in: free (ftree), alloc (atree), freed (gtree)
    flist,  \* h->flist: the blocks of the freed nodes in the order of freeing
    asize, gsize, fsize,    \* total size of allocated, freed and free nodes
    fmax,   \* h->fmax, and FLG_NOFREE in h->flags whenever it is not 0
    trim,   \* the value of a NOFREE option being set, or NoTrim
    table,  \* h->table: number of free slots, number of blocks of slots
    heap,   \* the pages that the heap manager has obtained for user memory
    mem,    \* the content of each byte: "zero" from the system, "user",
            \* or one of h->fbyte ("free") and h->obyte ("over")
    access, \* protection of each page: "rw", "ro" or "none"
    watch   \* bytes with a watch point

vars == <<list, flist, asize, gsize, fsize, fmax, trim, table, heap, mem,
          access, watch>>

-----------------------------------------------------------------------------
(***************************************************************************)
(* Arithmetic on size_t and addresses, src/utils.c                         *)
(***************************************************************************)
Wrap(n) == n % WORD

RoundDown(n, a) == n - (n % a)

RoundUp(n, a) == Wrap(n + ((-n) % a))

\* The least power of two that is not less than n; 0 for 0.
PowerOfTwo(n) ==
    IF n = 0 THEN 0
    ELSE CHOOSE p \in {2^k : k \in 0..n} :
            p >= n /\ \A k \in 0..n : 2^k >= n => p <= 2^k

\* h->oflow as __mp_newallocs() sets it.
Oflow ==
    LET o == PowerOfTwo(OFLOWSIZE)
    IN  IF PAGEALLOC THEN RoundUp(IF o = 0 THEN 1 ELSE o, PAGE) ELSE o

\* The effective alignment of a request for alignment a.
Alignment(a) ==
    IF a = 0 THEN ALIGN ELSE IF a > PAGE THEN PAGE ELSE PowerOfTwo(a)

\* A size_t read as a long.
Signed(n) == IF n < WORD \div 2 THEN n ELSE n - WORD

NoTrim == -1

ASSUME SizesAssumption ==
    /\ WORD \in Nat \ {0} /\ PAGE \in 1..WORD - 1 /\ ALIGN \in 1..PAGE
    /\ SIZES \subseteq 0..WORD - 1 /\ ALIGNS \subseteq 0..WORD - 1
    /\ Oflow \in 0..WORD - 1
    /\ \A a \in ALIGNS : Alignment(a) \in 1..PAGE
ASSUME FlagsAssumption ==
    {PAGEALLOC, ALLOCUPPER, OFLOWWATCH, PRESERVE} \subseteq BOOLEAN
ASSUME HeapAssumption ==
    \A p \in HEAPPAGES : p \in 0..WORD - 1 - PAGE /\ p % PAGE = 0
ASSUME BoundsAssumption ==
    SLOTS \in Nat /\ SLOTS >= 2 /\ CHUNKS \in Nat /\ LIMITS \subseteq Nat

-----------------------------------------------------------------------------
(***************************************************************************)
(* Nodes and the memory they describe                                      *)
(***************************************************************************)
Bytes == UNION {p .. p + PAGE - 1 : p \in HEAPPAGES}

Node(k, b, s) == [block |-> b, size |-> s, kind |-> k]

\* The start and the length of a block with the unused rest of its pages.
Base(n) ==
    IF PAGEALLOC THEN RoundDown(n.block, PAGE) ELSE n.block
Span(n) ==
    IF PAGEALLOC THEN RoundUp(n.size + (n.block - Base(n)), PAGE) ELSE n.size

\* The memory that belongs to a node, from Low to High, which is outside.
Low(n) == IF n.kind = "free" THEN n.block ELSE Base(n) - Oflow
High(n) ==
    IF n.kind = "free" THEN n.block + n.size ELSE Base(n) + Span(n) + Oflow

Run(b, s) == b .. b + s - 1

\* __mp_memset()
Fill(m, area, byte) == [x \in DOMAIN m |-> IF x \in area THEN byte ELSE m[x]]

\* Leaves out the pages that the area covers only in part.
Bug_ProtectWhole(ac, b, s, a) ==
    [p \in DOMAIN ac |-> IF p >= b /\ p + PAGE <= b + s THEN a ELSE ac[p]]

\* __mp_memprotect(): whole pages.
Protect(ac, b, s, a) ==
    [p \in DOMAIN ac |->
        IF s > 0 /\ p + PAGE > b /\ p < b + s THEN a ELSE ac[p]]

\* Tests the flag the wrong way round.
Bug_FillOver(m, area) == IF OFLOWWATCH THEN Fill(m, area, "over") ELSE m

\* An overflow area is filled with the overflow byte or, if FLG_OFLOWWATCH is
\* set, watched by __mp_memwatch().
FillOver(m, area) == IF OFLOWWATCH THEN m ELSE Fill(m, area, "over")
WatchOver(w, area) == IF OFLOWWATCH THEN w \cup area ELSE w

\* What is filled or watched around a block: the two overflow buffers or, when
\* those are protected pages, the unused rest of the pages of the block.
AreaBefore(n) ==
    IF PAGEALLOC THEN Run(Base(n), n.block - Base(n))
                 ELSE Run(n.block - Oflow, Oflow)
AreaAfter(n) ==
    IF PAGEALLOC THEN Run(n.block + n.size, Base(n) + Span(n) - n.block - n.size)
                 ELSE Run(n.block + n.size, Oflow)
OverArea(n) == AreaBefore(n) \cup AreaAfter(n)

\* The list with the nodes i to j replaced by new ones.
Splice(L, i, j, new) ==
    SubSeq(L, 1, i - 1) \o new \o SubSeq(L, j + 1, Len(L))

\* The index of the node of kind k whose block is at b.
IndexOf(L, b, k) == {i \in 1..Len(L) : L[i].block = b /\ L[i].kind = k}

-----------------------------------------------------------------------------
(***************************************************************************)
(* Searching the trees and the list                                        *)
(***************************************************************************)
\* __mp_searchhigher() in ftree: a smallest free node of at least that size.
BestFits(need) ==
    {i \in 1..Len(list) :
        /\ list[i].kind = "free" /\ list[i].size >= need
        /\ \A j \in 1..Len(list) :
            list[j].kind = "free" /\ list[j].size >= need
                => list[i].size <= list[j].size}

\* __mp_searchlower() in atree or gtree: the last block not above p.
SearchLower(k, p) ==
    {i \in 1..Len(list) :
        /\ list[i].kind = k /\ list[i].block <= p
        /\ \A j \in 1..Len(list) :
            list[j].kind = k /\ list[j].block <= p
                => list[j].block <= list[i].block}

\* Where a search of the list for address p starts; 0 is the list head.
SearchFrom(p) ==
    LET lower == IF SearchLower("alloc", p) # {} THEN SearchLower("alloc", p)
                 ELSE SearchLower("freed", p)
    IN  IF lower = {} THEN 0 ELSE CHOOSE i \in lower : TRUE

\* The one node after which a new node for address p is inserted.
InsertAfter(p) ==
    {r \in SearchFrom(p)..Len(list) :
        /\ r = Len(list) \/ list[r + 1].block >= p
        /\ \A q \in SearchFrom(p) + 1 .. r : list[q].block < p}

\* __mp_findalloc() and __mp_findfreed(): {} for NULL.
FindIn(k, p) ==
    {i \in SearchLower(k, p) : list[i].block + list[i].size > p}

\* __mp_findnode(): the first node from there on that does not end before p,
\* unless it starts beyond the s bytes at p.
FindNode(p, s) ==
    LET start == IF SearchFrom(p) = 0 THEN 1 ELSE SearchFrom(p)
        ahead == {i \in start..Len(list) :
                    p < Low(list[i]) \/ High(list[i]) > p}
    IN  {i \in ahead : /\ \A j \in ahead : i <= j
                       /\ p < Low(list[i]) => p + s > Low(list[i])}

-----------------------------------------------------------------------------
(***************************************************************************)
(* The slot table and the heap manager                                     *)
(***************************************************************************)
\* Does not look whether there is a free slot.
Bug_GetNode(t) == {[t EXCEPT !.free = @ - 1]}

\* getnode(): the slot tables it may leave behind when it returns a node.  A
\* new block of slots describes itself with the first of them.
GetNode(t) ==
    IF t.free > 0 THEN {[t EXCEPT !.free = @ - 1]}
    ELSE IF t.chunks < CHUNKS
    THEN {[free |-> SLOTS - 2, chunks |-> t.chunks + 1]}
    ELSE {}

FreeSlots(t, n) == [t EXCEPT !.free = @ + n]

\* getnode() may return NULL only when it needs memory for more slots.
NodeMayFail(t) == t.free = 0

\* Keeps the one node that it got.
Bug_TwoNodesFail(t) ==
    {r \in {t} : NodeMayFail(t)} \cup {q \in GetNode(t) : NodeMayFail(q)}

\* splitnode() asks for two nodes; if it gets one it gives that back.
TwoNodes(t) == UNION {GetNode(p) : p \in GetNode(t)}
TwoNodesFail(t) ==
    {r \in {t} : NodeMayFail(t)}
        \cup {FreeSlots(p, 1) : p \in {q \in GetNode(t) : NodeMayFail(q)}}

\* __mp_heapalloc() and __mp_memalloc(): whole pages, anywhere.  A request
\* for nothing gets one page.
HeapSize(l) == RoundUp(IF l = 0 THEN 1 ELSE l, PAGE)

HeapAlloc(l) ==
    {p \in HEAPPAGES \ heap :
        \A k \in 0 .. (HeapSize(l) \div PAGE) - 1 :
            p + k * PAGE \in HEAPPAGES \ heap}

PagesOf(b, s) == {p \in HEAPPAGES : b <= p /\ p < b + s}

-----------------------------------------------------------------------------
(***************************************************************************)
(* The parts of an operation                                               *)
(***************************************************************************)
\* Do nodes i and i + 1 border on each other, both being free?
Bordering(L, i) ==
    /\ i \in 1..Len(L) - 1
    /\ L[i].kind = "free" /\ L[i + 1].kind = "free"
    /\ L[i].block + L[i].size >= L[i + 1].block

\* mergenode(): the free node i takes in the free nodes it borders on.
MergeNode(L, i) ==
    LET first == IF Bordering(L, i - 1) THEN i - 1 ELSE i
        last  == IF Bordering(L, i) THEN i + 1 ELSE i
        before == IF first < i THEN L[first].size ELSE 0
        after  == IF last > i THEN L[last].size ELSE 0
        whole == Node("free", L[first].block,
                      Wrap(before + L[i].size + after))
    IN  [list |-> Splice(L, first, last, <<whole>>),
         node |-> first,
         slots |-> last - first]

\* How far a block is moved up for its alignment and, in upper page allocation,
\* towards the end of its pages.
Gap(b, a) == IF PAGEALLOC THEN 0 ELSE Wrap(RoundUp(b, a) - b)

Shift(unused, a) ==
    IF PAGEALLOC /\ ALLOCUPPER THEN RoundDown(unused, a) ELSE 0

\* splitnode() with its two new nodes in hand: the free node n becomes a block
\* of l bytes with alignment a, with a free node before it when alignment
\* leaves a gap and one after it when memory is left over.
Pieces(n, l, a) ==
    LET b == Wrap(n.block + Oflow)
        z == Wrap(n.size - 2 * Oflow)
        gap == Gap(b, a)
        s == IF PAGEALLOC THEN RoundUp(l, PAGE) ELSE l
        rest == Wrap(z - gap - s)
        up == Shift(Wrap(s - l), a)
        FreeNode(q, m) ==
            IF m = 0 THEN <<>> ELSE <<Node("free", Wrap(q), m)>>
    IN  [left  |-> FreeNode(b - Oflow, gap),
         block |-> Node("alloc", Wrap(b + gap + up), l),
         right |-> FreeNode(b + gap + s + Oflow, rest),
         unused |-> gap + rest]

\* The part of the state that an operation changes in several steps.
Now == [list |-> list, gsize |-> gsize, fsize |-> fsize, table |-> table,
        mem |-> mem, access |-> access, watch |-> watch]

Becomes(h) ==
    /\ list' = h.list /\ gsize' = h.gsize /\ fsize' = h.fsize
    /\ table' = h.table /\ mem' = h.mem /\ access' = h.access
    /\ watch' = h.watch

\* splitnode() of node i: with two nodes in hand it makes the pieces and sets
\* up the block, of which the caller then fills the bytes that were asked for.
SplitNode(h, i, l, a, asked) ==
    LET new == Pieces(h.list[i], l, a)
        blk == new.block
        spare == 2 - Len(new.left) - Len(new.right)
    IN  /\ \E t \in TwoNodes(h.table) : Becomes(
            [list   |-> Splice(h.list, i, i, new.left \o <<blk>> \o new.right),
             gsize  |-> h.gsize,
             fsize  |-> Wrap(h.fsize - h.list[i].size + new.unused),
             table  |-> FreeSlots(t, spare),
             mem    |-> Fill(FillOver(h.mem, OverArea(blk)),
                             Run(blk.block, asked), "user"),
             access |-> IF PAGEALLOC
                        THEN Protect(h.access, Base(blk), Span(blk), "rw")
                        ELSE h.access,
             watch  |-> WatchOver(h.watch, OverArea(blk))])
        /\ asize' = Wrap(asize + blk.size)

\* Without two nodes the free memory stays as it is and NULL is returned.
SplitFails(h) ==
    /\ \E t \in TwoNodesFail(h.table) : Becomes([h EXCEPT !.table = t])
    /\ UNCHANGED asize

\* The block of node i is put on the free tree, as __mp_freealloc() and
\* __mp_recyclefreed() do it: its overflow buffers and the rest of its pages
\* go with it.
Released(h, i) ==
    LET n == h.list[i]
        b == Wrap(Low(n))
        s == Wrap(High(n) - Low(n))
        new == MergeNode([h.list EXCEPT ![i] = Node("free", b, s)], i)
    IN  [list   |-> new.list,
         gsize  |-> IF n.kind = "freed" THEN Wrap(h.gsize - n.size) ELSE h.gsize,
         fsize  |-> Wrap(h.fsize + s),
         table  |-> FreeSlots(h.table, new.slots),
         mem    |-> IF PAGEALLOC THEN h.mem ELSE Fill(h.mem, Run(b, s), "free"),
         access |-> IF PAGEALLOC THEN Protect(h.access, n.block, n.size, "none")
                    ELSE h.access,
         watch  |-> h.watch \ OverArea(n)]

\* __mp_recyclefreed(): the block that was freed first.
Recycled == {Released(Now, i) : i \in IndexOf(list, Head(flist), "freed")}

-----------------------------------------------------------------------------
(***************************************************************************)
(* The operations                                                          *)
(***************************************************************************)
Init ==
    /\ list = <<>> /\ flist = <<>>
    /\ asize = 0 /\ gsize = 0 /\ fsize = 0
    /\ fmax \in LIMITS
    /\ trim = NoTrim
    /\ table = [free |-> 0, chunks |-> 0]
    /\ heap = {}
    /\ mem = [x \in Bytes |-> "zero"]
    /\ access = [p \in HEAPPAGES |-> "rw"]
    /\ watch = {}

\* The least size of a free node that __mp_getalloc() takes, in size_t.
Need(l, a) == Wrap(l + 2 * Oflow + (IF PAGEALLOC THEN 0 ELSE a - 1))

AtLeastOne(l) == IF l = 0 THEN 1 ELSE l

\* __mp_getalloc() when a free node is large enough.
GetallocReuse(asked, al) ==
    LET l == AtLeastOne(asked)
        a == Alignment(al)
    IN  /\ trim = NoTrim
        /\ \E i \in BestFits(Need(l, a)) :
            SplitNode(Now, i, l, a, asked) \/ SplitFails(Now)
        /\ UNCHANGED <<flist, fmax, trim, heap>>

\* The list once size bytes from the system at p have become a free node after
\* node at, merged with those it borders on, and the state that goes with it.
Extended(at, p, size) ==
    MergeNode(Splice(list, at + 1, at, <<Node("free", p, size)>>), at + 1)

ExtendedState(t, at, p, size) ==
    [list   |-> Extended(at, p, size).list,
     gsize  |-> gsize,
     fsize  |-> Wrap(fsize + size),
     table  |-> FreeSlots(t, Extended(at, p, size).slots),
     mem    |-> IF PAGEALLOC THEN mem ELSE Fill(mem, Run(p, size), "free"),
     access |-> IF PAGEALLOC THEN Protect(access, p, size, "none") ELSE access,
     watch  |-> watch]

\* __mp_getalloc() when it has to go to the heap manager.
GetallocFresh(asked, al) ==
    LET l == AtLeastOne(asked)
        a == Alignment(al)
        size == HeapSize(RoundUp(l + 2 * Oflow, PAGE))
    IN  /\ trim = NoTrim
        /\ BestFits(Need(l, a)) = {}
        /\ \E t \in GetNode(table), p \in HeapAlloc(size) :
            \E at \in InsertAfter(p) :
                LET h == ExtendedState(t, at, p, size)
                IN  /\ heap' = heap \cup PagesOf(p, size)
                    /\ \/ SplitNode(h, Extended(at, p, size).node, l, a, asked)
                       \/ SplitFails(h)
        /\ UNCHANGED <<flist, fmax, trim>>

\* __mp_getalloc() when the node for the new memory came from a new block of
\* slots but the memory itself is refused; without a new block nothing changes.
GetallocRefused(asked, al) ==
    /\ trim = NoTrim
    /\ BestFits(Need(AtLeastOne(asked), Alignment(al))) = {}
    /\ NodeMayFail(table)
    /\ table' \in {FreeSlots(t, 1) : t \in GetNode(table)}
    /\ UNCHANGED <<list, flist, asize, gsize, fsize, fmax, trim, heap, mem,
                   access, watch>>

Getalloc(l, a) ==
    GetallocReuse(l, a) \/ GetallocFresh(l, a) \/ GetallocRefused(l, a)

\* Takes nodes that meet not to border; takes a block for free memory.
Bug_RightFreeStrict(i) ==
    {p \in {i + 1} \cap (1..Len(list)) :
        /\ list[p].kind = "free"
        /\ list[i].block + Span(list[i]) + Oflow > list[p].block}
Bug_RightFreeAnyKind(i) ==
    {p \in {i + 1} \cap (1..Len(list)) :
        list[i].block + Span(list[i]) + Oflow >= Low(list[p])}

\* The free node to the right of node i, if there is one and it borders on it.
RightFree(i) ==
    {p \in {i + 1} \cap (1..Len(list)) :
        /\ list[p].kind = "free"
        /\ list[i].block + Span(list[i]) + Oflow >= list[p].block}

\* Can the block keep the pages that it has?
SamePages(n, l) == PAGEALLOC /\ l <= Span(n) /\ l > Span(n) - PAGE

\* Leaves the overflow area where it was.
Bug_Resized(i, last, l, right, m, asked) ==
    LET n == list[i]
    IN  /\ list' = Splice(list, i, last, <<[n EXCEPT !.size = l]>> \o right)
        /\ asize' = Wrap(asize + l - n.size)
        /\ watch' = watch
        /\ mem' = Fill(m, Run(n.block + n.size, asked - n.size), "user")

\* Common to all ways to resize node i to l bytes: it and its right neighbours
\* up to node last become it and the nodes in right, the old overflow area gives
\* way to a new one, and the caller fills what was added.
Resized(i, last, l, right, m, asked) ==
    LET n == list[i]
        new == [n EXCEPT !.size = l]
    IN  /\ list' = Splice(list, i, last, <<new>> \o right)
        /\ asize' = Wrap(asize + l - n.size)
        /\ watch' = WatchOver(watch \ AreaAfter(n), AreaAfter(new))
        /\ mem' = Fill(FillOver(m, AreaAfter(new)),
                       Run(n.block + n.size, asked - n.size), "user")

ResizeSame(i, asked) ==
    LET l == AtLeastOne(asked)
    IN  /\ SamePages(list[i], l) \/ l = list[i].size
        /\ Resized(i, i, l, <<>>, mem, asked)
        /\ UNCHANGED <<table, fsize, access>>

\* The block grows into the free node to its right.
ResizeGrow(i, asked) ==
    LET n == list[i]
        l == AtLeastOne(asked)
        s == IF PAGEALLOC THEN Wrap(RoundUp(l, PAGE) - Span(n)) ELSE l - n.size
    IN  /\ ~SamePages(n, l) /\ Signed(Wrap(l - n.size)) > 0
        /\ \E p \in RightFree(i) :
            LET rest == Node("free", Wrap(list[p].block + s),
                             Wrap(list[p].size - s))
                used == rest.size = 0
            IN  /\ Wrap(Span(n) + list[p].size) >= l
                /\ Resized(i, p, l, IF used THEN <<>> ELSE <<rest>>, mem, asked)
                /\ table' = FreeSlots(table, IF used THEN 1 ELSE 0)
                /\ access' = IF PAGEALLOC
                             THEN Protect(access, list[p].block - Oflow, s, "rw")
                             ELSE access
        /\ fsize' = Wrap(fsize - s)

\* The block shrinks and gives what it loses to the free node to its right, or
\* to a new one.
ResizeShrink(i, asked) ==
    LET n == list[i]
        l == AtLeastOne(asked)
        s == Wrap(IF PAGEALLOC THEN Span(n) - RoundUp(l, PAGE) ELSE n.size - l)
        Give(last, old) ==
            LET b == Wrap(old.block - s)
            IN  /\ Resized(i, last, l, <<Node("free", b, Wrap(old.size + s))>>,
                           IF PAGEALLOC THEN mem
                           ELSE Fill(mem, Run(b, s), "free"), asked)
                /\ access' = IF PAGEALLOC THEN Protect(access, b, s, "none")
                                          ELSE access
    IN  /\ ~SamePages(n, l) /\ Signed(Wrap(l - n.size)) < 0
        /\ \/ \E p \in RightFree(i) : Give(p, list[p]) /\ UNCHANGED table
           \/ /\ RightFree(i) = {}
              /\ Give(i, Node("free", n.block + Span(n) + Oflow, 0))
              /\ table' \in GetNode(table)
        /\ fsize' = Wrap(fsize + s)

\* __mp_resizealloc().  A call that returns 0 changes nothing, and it always
\* does when blocks end at the end of their pages.
Resizealloc(i, asked) ==
    /\ trim = NoTrim
    /\ list[i].kind = "alloc"
    /\ ~(PAGEALLOC /\ ALLOCUPPER)
    /\ ResizeSame(i, asked) \/ ResizeGrow(i, asked) \/ ResizeShrink(i, asked)
    /\ UNCHANGED <<flist, gsize, fmax, trim, heap>>

\* __mp_freealloc() without an information node to keep, from __mp_freememory()
\* or, for a block that has been moved, from __mp_resizememory(): both of them
\* do so only when NOFREE is off.
FreeallocDrop(i) ==
    /\ trim = NoTrim
    /\ list[i].kind = "alloc"
    /\ fmax = 0
    /\ Becomes(Released(Now, i))
    /\ asize' = Wrap(asize - list[i].size)
    /\ UNCHANGED <<flist, fmax, trim, heap>>

\* The block of node i is put on the freed tree; the pages of a block with pages
\* of its own are protected, other blocks are filled unless they are preserved.
Kept(h, i) ==
    LET n == h.list[i]
    IN  [list   |-> [h.list EXCEPT ![i].kind = "freed"],
         gsize  |-> Wrap(h.gsize + n.size),
         fsize  |-> h.fsize,
         table  |-> h.table,
         mem    |-> IF PAGEALLOC \/ PRESERVE THEN h.mem
                    ELSE Fill(h.mem, Run(n.block, n.size), "free"),
         access |-> IF PAGEALLOC
                    THEN Protect(h.access, n.block, n.size,
                                 IF PRESERVE THEN "ro" ELSE "none")
                    ELSE h.access,
         watch  |-> IF PAGEALLOC /\ ~PRESERVE THEN h.watch \ OverArea(n)
                                              ELSE h.watch]

\* __mp_freealloc() when NOFREE is on: the block is kept, and the oldest one makes
\* room for it if there are as many as allowed.
FreeallocKeep(i) ==
    LET n == list[i]
        full == flist # <<>> /\ Len(flist) = fmax
    IN  /\ trim = NoTrim
        /\ n.kind = "alloc"
        /\ fmax # 0
        /\ \E h \in IF full THEN Recycled ELSE {Now} :
            \E j \in IndexOf(h.list, n.block, "alloc") : Becomes(Kept(h, j))
        /\ flist' = Append(IF full THEN Tail(flist) ELSE flist, n.block)
        /\ asize' = Wrap(asize - n.size)
        /\ UNCHANGED <<fmax, trim, heap>>

Freealloc(i) == FreeallocDrop(i) \/ FreeallocKeep(i)

\* Setting OPT_NOFREE to v: recycle until no more than v freed blocks are kept,
\* then v is the new limit.  No other call comes between these steps.
OptNofree(v) ==
    /\ trim = NoTrim /\ trim' = v
    /\ UNCHANGED <<list, flist, asize, gsize, fsize, fmax, table, heap, mem,
                   access, watch>>

OptNofreeRecycle ==
    /\ trim # NoTrim /\ Len(flist) > trim
    /\ \E h \in Recycled : Becomes(h)
    /\ flist' = Tail(flist)
    /\ UNCHANGED <<asize, fmax, trim, heap>>

OptNofreeDone ==
    /\ trim # NoTrim /\ Len(flist) <= trim
    /\ fmax' = trim /\ trim' = NoTrim
    /\ UNCHANGED <<list, flist, asize, gsize, fsize, table, heap, mem, access,
                   watch>>

Next ==
    \/ \E l \in SIZES, a \in ALIGNS : Getalloc(l, a)
    \/ \E i \in 1..Len(list), l \in SIZES : Resizealloc(i, l)
    \/ \E i \in 1..Len(list) : Freealloc(i)
    \/ \E v \in LIMITS : OptNofree(v)
    \/ OptNofreeRecycle
    \/ OptNofreeDone

Spec == Init /\ [][Next]_vars

-----------------------------------------------------------------------------
(***************************************************************************)
(* Properties                                                              *)
(***************************************************************************)
TypeOK ==
    /\ list \in Seq([block : 0..WORD - 1, size : 0..WORD - 1,
                  kind : {"free", "alloc", "freed"}])
    /\ flist \in Seq(0..WORD - 1)
    /\ {asize, gsize, fsize} \subseteq 0..WORD - 1
    /\ fmax \in LIMITS /\ trim \in LIMITS \cup {NoTrim}
    /\ table \in [free : Nat, chunks : 0..CHUNKS]
    /\ heap \subseteq HEAPPAGES
    /\ mem \in [Bytes -> {"zero", "user", "free", "over"}]
    /\ access \in [HEAPPAGES -> {"rw", "ro", "none"}]
    /\ watch \subseteq Int

Nodes(k) == {i \in 1..Len(list) : list[i].kind = k}
Memory(n) == Run(Low(n), High(n) - Low(n))

\* The nodes describe the memory obtained from the system, each byte exactly
\* once, and the list has them in the order of their addresses: what splitting,
\* merging, growing and shrinking must keep between them.
HeapIsTiled ==
    /\ \A i \in 1..Len(list) : list[i].size > 0
    /\ \A i \in 1..Len(list) - 1 : High(list[i]) <= Low(list[i + 1])
    /\ UNION {Memory(list[i]) : i \in 1..Len(list)} =
            UNION {Run(p, PAGE) : p \in heap}

\* "the memory block list does not ever contain two bordering free nodes"
\* (src/alloc.c:391-393), which __mp_resizealloc() relies on.
NoBorderingFree == \A i \in 1..Len(list) - 1 : ~Bordering(list, i)

\* The totals that limits, summaries and leak reports are computed from are
\* the sums over the nodes, whichever way memory changed hands.
CountersExact ==
    LET sizes == [i \in 1..Len(list) |-> list[i].size]
        Total(k) == SumOf(sizes, Nodes(k))
    IN  asize = Total("alloc") /\ gsize = Total("freed") /\ fsize = Total("free")

\* Every node that was ever made is in the list, describes a block of slots, or
\* is free: no path, and no failure half-way, loses a node.
SlotsBalanced ==
    table.free + Len(list) + table.chunks = SLOTS * table.chunks

\* The freed queue has exactly the freed nodes, each once, and no more of them
\* than the NOFREE option allows.
FreedQueueExact ==
    /\ {flist[k] : k \in 1..Len(flist)} = {list[i].block : i \in Nodes("freed")}
    /\ Len(flist) = Cardinality(Nodes("freed"))
    /\ trim = NoTrim => Len(flist) <= fmax

\* The error that __mp_checkinfo() finds at a node, if any.
Checkinfo(n) ==
    LET Spoilt(area, byte) == \E x \in area : mem[x] # byte
        Filled == n.kind = "free" \/ (n.kind = "freed" /\ ~PRESERVE)
    IN  IF Filled /\ ~PAGEALLOC /\ Spoilt(Run(n.block, n.size), "free")
        THEN IF n.kind = "free" THEN "ET_FRECOR" ELSE "ET_FRDCOR"
        ELSE IF n.kind # "free" /\ ~OFLOWWATCH /\ (n.kind = "alloc" \/ ~PAGEALLOC)
                /\ Spoilt(OverArea(n), "over")
        THEN IF n.kind = "freed" THEN "ET_FRDOVF" ELSE "ET_ALLOVF"
        ELSE "none"

\* __mp_checkinfo() (src/info.c:1117-1237) reports no corruption of free
\* memory, of freed blocks or of overflow buffers as long as the program writes
\* to its own blocks only: no operation leaves bytes of one kind in another.
CheckinfoSilent == \A i \in 1..Len(list) : Checkinfo(list[i]) = "none"

\* The pages of a live block can be read and written; those of a freed block
\* cannot be written when every block has pages of its own.
BlockPagesProtected ==
    \A i \in 1..Len(list) :
        \A p \in PagesOf(Base(list[i]), Span(list[i])) :
            /\ list[i].kind = "alloc" => access[p] = "rw"
            /\ list[i].kind = "freed" /\ PAGEALLOC =>
                    access[p] = IF PRESERVE THEN "ro" ELSE "none"

\* With a block to a page, the overflow buffers are pages that cannot be read or
\* written, and neither can free memory.
OverflowProtected ==
    PAGEALLOC =>
        \A p \in heap :
            access[p] # "none" =>
                \E i \in Nodes("alloc") \cup Nodes("freed") :
                    p \in PagesOf(Base(list[i]), Span(list[i]))

\* Watch points are set on exactly the overflow areas of the blocks that have
\* them, and on no byte that the library or the program may touch.
WatchExact ==
    watch =
        IF ~OFLOWWATCH THEN {}
        ELSE UNION {OverArea(list[i]) :
                i \in Nodes("alloc") \cup
                     IF PAGEALLOC /\ ~PRESERVE THEN {} ELSE Nodes("freed")}

\* The blocks are guarded by the protection of their own pages and by the watch
\* points around them; with blocks at the ends of their pages, which are never
\* resized in place, by the pages around them too.
GuardsInPlace == BlockPagesProtected /\ WatchExact
GuardsExact == GuardsInPlace /\ OverflowProtected

\* Looking up an address finds the block that contains it, and the node whose
\* memory, overflow buffers included, contains it: the searches start from a
\* tree of blocks only and rely on the order of the list.
LookupExact ==
    \A p \in Bytes :
        /\ \A k \in {"alloc", "freed"} :
            FindIn(k, p) = {i \in Nodes(k) :
                                p \in Run(list[i].block, list[i].size)}
        /\ FindNode(p, 1) = {i \in 1..Len(list) : p \in Memory(list[i])}

\* What the operations of the manager must leave behind, whichever way they go.
HeapInOrder ==
    HeapIsTiled /\ NoBorderingFree /\ CountersExact /\ FreedQueueExact /\ LookupExact

\* "If all allocations are not pages then we must add more bytes to the
\* allocation request to account for alignment" (src/alloc.c:341-342): the
\* memory of a block is memory obtained from the system.
BlocksInHeap ==
    \A i \in Nodes("alloc") :
        Memory(list[i]) \subseteq UNION {Run(p, PAGE) : p \in heap}

\* "If there is not enough space in the heap then the NULL pointer will be
\* returned" (doc/mpatrol.texi:8655-8656): no block is larger than the heap.
EnoughSpace ==
    \A i \in Nodes("alloc") : list[i].size <= PAGE * Cardinality(heap)

\* The manager keeps the promises of the abstract one.
BlockOf(i) == [block |-> list[i].block, size |-> list[i].size]

Store == INSTANCE BlockStore WITH
    Guard <- Oflow,
    Requests <- {<<AtLeastOne(l), Alignment(a)>> : l \in SIZES, a \in ALIGNS},
    Addresses <- Bytes,
    Limits <- LIMITS,
    live <- {BlockOf(i) : i \in Nodes("alloc")},
    held <- [k \in 1..Len(flist) |-> BlockOf(CHOOSE i \in IndexOf(list, flist[k], "freed") : TRUE)],
    limit <- fmax

ImplementsBlockStore == Store!Spec
=============================================================================
