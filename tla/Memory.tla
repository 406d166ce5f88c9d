------------------------------- MODULE Memory -------------------------------
(***************************************************************************)
(* The memory operations: memset(), memcpy(), memchr(), memcmp() and their *)
(* like (src/malloc.c), which go through src/inter.c to src/info.c, where  *)
(* the ranges are checked against the blocks of the heap, and to the loops *)
(* of src/memory.c, which handle words where they can.  Also the functions *)
(* that duplicate a string, which is checked in the same way.              *)
(*                                                                         *)
(* The blocks themselves are those of Alloc.tla at one moment.             *)
(***************************************************************************)
EXTENDS Integers, Sequences, FiniteSets, FiniteSetsExt, SequencesExt

CONSTANTS
    WORDBYTES,      \* sizeof(long)
    ADDRSPACE,      \* addresses are below that, and wrap around there
    TOP,            \* bound: the highest address with memory behind it
    PAGEBYTES,      \* the page size
    HEAPS,          \* bound: heaps, as records [pages, oflow, nodes, phase], the
                    \* nodes lowest first, each [kind, block, size]
    LOOKS,          \* bound: what the program's memory may look like, as functions
                    \* from addresses to bytes
    OPTIONS,        \* bound: [check: CHECKMEMORY, allow: ALLOWOFLOW, handler]
    LENGTHS,        \* bound: lengths of ranges
    PATLENGTHS,     \* bound: lengths of patterns
    LIMITS,         \* bound: the n of strndup()
    BYTES           \* bound: the bytes that are set or looked for

ASSUME MemoryAssumption ==
    /\ WORDBYTES \in Nat \ {0} /\ TOP \in Nat \ {0} /\ TOP < ADDRSPACE
    /\ LENGTHS \cup PATLENGTHS \cup LIMITS \subseteq 0..(ADDRSPACE - 1)

VARIABLES
    mem,        \* the bytes at the addresses 1..TOP
    heap,       \* the heap, which stays as it is
    opts,       \* the options
    totals,     \* h->stotal, ctotal, ltotal and dtotal
    call        \* the last call: name, arguments, value, diagnostics in order

memoryVars == <<mem, heap, opts, totals, call>>

-----------------------------------------------------------------------------
(***************************************************************************)
(* The loops of src/memory.c                                               *)
(***************************************************************************)
\* How many of l bytes at t are treated one by one before, in words, and after.
Split(t, l) ==
    LET head == IF t % WORDBYTES = 0 THEN 0
                ELSE Min({WORDBYTES - (t % WORDBYTES), l})
    IN  IF l > WORDBYTES * WORDBYTES
        THEN <<head, (l - head) \div WORDBYTES, (l - head) % WORDBYTES>>
        ELSE <<0, 0, l>>

\* The number of bytes after t that such a loop comes to.
Covered(t, l) ==
    LET parts == Split(t, l) IN parts[1] + parts[2] * WORDBYTES + parts[3]

\* __mp_memset()
MemSet(m, t, c, l) ==
    [a \in DOMAIN m |-> IF a \in t..(t + Covered(t, l) - 1) THEN c ELSE m[a]]

\* __mp_memcheck(): the first byte that is not c, or NULL.
MemCheck(m, t, c, l) ==
    LET other == {a \in t..(t + Covered(t, l) - 1) : m[a] # c}
    IN  IF other = {} THEN 0 ELSE Min(other)

\* __mp_memcompare(): where t first differs from s, or NULL.
MemCompare(m, t, s, l) ==
    LET covered == IF s % WORDBYTES = t % WORDBYTES THEN Covered(s, l) ELSE l
        other == {a \in t..(t + covered - 1) : m[a] # m[s + a - t]}
    IN  IF s = t \/ other = {} THEN 0 ELSE Min(other)

\* __mp_memfind(): the first place among the l bytes at t where the m bytes at s
\* are, or NULL; the first byte is compared before the others.
MemFind(m, t, l, pattern) ==
    LET k == Len(pattern)
        found == {a \in t..(t + l - k) : \A i \in 1..k : m[a + i - 1] = pattern[i]}
    IN  IF k = 0 \/ l < k \/ found = {} THEN 0 ELSE Min(found)

\* The moves of __mp_memcopy(), each <<first offset, bytes>>, from the start on.
Forward(s, t, l) ==
    LET parts == IF s % WORDBYTES = t % WORDBYTES THEN Split(s, l) ELSE <<0, 0, l>>
        words == parts[1] + parts[2] * WORDBYTES
    IN  [i \in 1..parts[1] |-> <<i - 1, 1>>]
          \o [i \in 1..parts[2] |-> <<parts[1] + (i - 1) * WORDBYTES, WORDBYTES>>]
          \o [i \in 1..parts[3] |-> <<words + i - 1, 1>>]

\* And from the end on: first the bytes after the last word.
Backward(s, t, l) ==
    LET after == (s + l) % WORDBYTES
        wide == after = (t + l) % WORDBYTES /\ l > WORDBYTES * WORDBYTES
        n == IF wide THEN Min({after, l}) ELSE 0
        words == IF wide THEN (l - n) \div WORDBYTES ELSE 0
        rest == l - n - words * WORDBYTES
    IN  [i \in 1..n |-> <<l - i, 1>>]
          \o [i \in 1..words |-> <<l - n - i * WORDBYTES, WORDBYTES>>]
          \o [i \in 1..rest |-> <<rest - i, 1>>]

\* Copies upwards when it should copy downwards.
Bug_Moves(s, t, l) ==
    IF t < s /\ t + l > s THEN Backward(s, t, l) ELSE Forward(s, t, l)

Moves(s, t, l) ==
    IF s < t /\ s + l > t THEN Backward(s, t, l) ELSE Forward(s, t, l)

\* __mp_memcopy(), from s to t.
MemCopy(m, t, s, l) ==
    LET move(old, mv) ==
            [a \in DOMAIN old |-> IF a \in (t + mv[1])..(t + mv[1] + mv[2] - 1)
                                  THEN old[s + a - t] ELSE old[a]]
    IN  IF s = t THEN m ELSE FoldLeft(move, m, Moves(s, t, l))

-----------------------------------------------------------------------------
(***************************************************************************)
(* What the library knows of an address                                    *)
(***************************************************************************)
PageBase(n) == IF heap.pages THEN (n.block \div PAGEBYTES) * PAGEBYTES ELSE n.block
PageSpan(n) ==
    LET s == n.size + n.block - PageBase(n)
    IN  IF heap.pages THEN ((s + PAGEBYTES - 1) \div PAGEBYTES) * PAGEBYTES ELSE n.size

From(n) == IF n.kind = "free" THEN n.block ELSE PageBase(n) - heap.oflow
To(n) == IF n.kind = "free" THEN n.block + n.size
         ELSE PageBase(n) + PageSpan(n) + heap.oflow

OfKind(k) == {i \in DOMAIN heap.nodes : heap.nodes[i].kind = k}
LastUpTo(k, p) == {i \in OfKind(k) :
    /\ heap.nodes[i].block <= p
    /\ \A j \in OfKind(k) : heap.nodes[j].block <= p => j <= i}
FirstFrom(k, p) == {i \in OfKind(k) :
    /\ heap.nodes[i].block >= p
    /\ \A j \in OfKind(k) : heap.nodes[j].block >= p => j >= i}

\* __mp_findnode(): the node that has some of the s bytes at p, as a set.
NodeIn(p, s) ==
    LET start == IF LastUpTo("alloc", p) # {} THEN Min(LastUpTo("alloc", p))
                 ELSE IF LastUpTo("freed", p) # {} THEN Min(LastUpTo("freed", p))
                 ELSE 1
        ahead == {i \in start..Len(heap.nodes) :
                    p < From(heap.nodes[i]) \/ To(heap.nodes[i]) > p}
    IN  IF ahead = {} THEN {}
        ELSE {heap.nodes[i] : i \in {j \in {Min(ahead)} :
                  p < From(heap.nodes[j]) => p + s > From(heap.nodes[j])}}

\* Does the range leave the block?
Leaves(n, p, s) == p < n.block \/ p + s > n.block + n.size

If(condition, code) == IF condition THEN <<code>> ELSE <<>>

\* A range of the program's that begins in a node or runs into it, if there is one.
CheckNode(here, p, s) ==
    LET n == CHOOSE n \in here : TRUE
    IN  CASE here = {} -> [ok |-> TRUE, said |-> <<>>]
          [] n.kind = "free" -> [ok |-> FALSE, said |-> <<"FREOPN">>]
          [] n.kind = "freed" -> [ok |-> FALSE, said |-> <<"FRDOPN">>]
          [] n.kind = "alloc" -> [ok |-> Leaves(n, p, s) => opts.allow,
                                  said |-> If(Leaves(n, p, s), "RNGOVF")]

\* __mp_checkrange(): may the operation be done, and what is said?
CheckRange(p, s) ==
    IF p = 0 THEN [ok |-> FALSE, said |-> If(s > 0 \/ opts.check, "NULOPN")]
    ELSE IF s = 0 THEN [ok |-> TRUE, said |-> If(opts.check, "ZEROPN")]
    ELSE CheckNode(NodeIn(p, s), p, s)

\* The checks of two ranges, of which the second is made if the first is passed.
Both(first, second) ==
    IF first.ok THEN [ok |-> second.ok, said |-> first.said \o second.said] ELSE first
CheckRanges(p, s, q, t) == Both(CheckRange(p, s), CheckRange(q, t))

\* Where the loops over a string stop: at its end or at one of the limits.
StopAt(p, limits) ==
    Min({c \in p..(TOP + 1) :
            c = TOP + 1 \/ (\E e \in limits : c >= e) \/ mem[c] = 0})

\* The outcome of the search that ends at c in front of b: 1 is a string that runs
\* into b, 2 a limit beyond b.
Verdict(c, b, limit) ==
    IF limit = {} THEN (IF c = b THEN 1 ELSE 0)
    ELSE IF \E u \in limit : u > b
    THEN (IF c = b THEN 1 ELSE IF opts.allow THEN 0 ELSE 2)
    ELSE 0

\* The string at p, with the node that p is in, if any, the next one that counts,
\* and the limit, if any.
CheckStringIn(here, next, p, limit) ==
    LET n == CHOOSE n \in here : TRUE
        known == here # {} \/ next # {}
        b == IF here = {} THEN From(heap.nodes[Min(next)]) ELSE n.block + n.size
        c == StopAt(p, limit \cup (IF known THEN {b} ELSE {}))
        v == IF here # {} /\ ~(n.block <= p /\ p < b) THEN 1
             ELSE IF known THEN Verdict(c, b, limit) ELSE 0
    IN  IF here # {} /\ n.kind # "alloc"
        THEN [ok |-> FALSE, length |-> 0,
              said |-> <<IF n.kind = "free" THEN "FREOPN" ELSE "FRDOPN">>]
        ELSE [ok |-> v # 1, length |-> c - p,
              said |-> If(v = 1, "STROVF") \o If(v = 2, "RNGOVF")]

\* __mp_checkstring(): the same for a string, of which no more than l bytes are
\* wanted if it is limited.  A string in memory that is not in the heap must end
\* before the next block that is allocated or, if there is none, kept.
CheckString(p, l, limited) ==
    IF p = 0
    THEN [ok |-> FALSE, length |-> 0,
          said |-> If(~limited \/ l > 0 \/ opts.check, "NULOPN")]
    ELSE CheckStringIn(NodeIn(p, 1),
             IF FirstFrom("alloc", p) # {} THEN FirstFrom("alloc", p)
             ELSE FirstFrom("freed", p),
             p, IF limited THEN {(p + l) % ADDRSPACE} ELSE {})

-----------------------------------------------------------------------------
(***************************************************************************)
(* The operations                                                          *)
(***************************************************************************)
\* Before the library is there and after it has gone nothing is checked.
Unchecked == heap.phase # "active"

Outcome(m, ret, said, n) == [mem |-> m, ret |-> ret, said |-> said, n |-> n]

\* What is done if a check is passed; if not, nothing, and ret is returned.
Checked(check, done, ret) ==
    IF check.ok THEN [done EXCEPT !.said = check.said]
    ELSE Outcome(mem, ret, check.said, 0)

Answer(name, args, ret, said) ==
    call' = [name |-> name, args |-> args, ret |-> ret, said |-> said]

\* The operation comes to that; n is added to the library's total of its kind.
Do(name, args, kind, outcome) ==
    /\ mem' = outcome.mem
    /\ totals' = [totals EXCEPT ![kind] = @ + outcome.n]
    /\ Answer(name, args, outcome.ret, outcome.said)

\* __mp_setmemory()
SetMemory(p, l, c) ==
    Checked(CheckRange(p, l), Outcome(MemSet(mem, p, c, l), p, <<>>, l), p)

\* __mp_setmem(); for bzero() the byte is 0.
SetMem(name, p, l, c) ==
    /\ Unchecked => p # 0 \/ l = 0
    /\ Do(name, <<p, l, c>>, "set",
          IF Unchecked THEN Outcome(MemSet(mem, p, c, l), p, <<>>, 0)
          ELSE SetMemory(p, l, c))

\* The outcome of a copy of l bytes, or of those up to byte c with memccpy().
Copied(name, p, q, l, c) ==
    LET stop == IF name = "memccpy" THEN MemFind(mem, p, l, <<c>>) ELSE 0
        n == IF stop = 0 THEN l ELSE stop - p + 1
        ret == IF name # "memccpy" THEN q ELSE IF stop = 0 THEN 0 ELSE q + n
    IN  Outcome(MemCopy(mem, q, p, n), ret, <<>>, n)

Overlap(p, q, l) == l > 0 /\ ((p < q /\ p + l > q) \/ (q < p /\ q + l > p))

\* __mp_copymemory(), from p to q: overlapping ranges are only warned of.
CopyMemory(name, p, q, l, c) ==
    LET warned == If(name \in {"memcpy", "memccpy"} /\ Overlap(p, q, l), "RNGOVL")
    IN  Checked([CheckRanges(p, l, q, l) EXCEPT !.said = warned \o @],
                Copied(name, p, q, l, c), q)

\* __mp_copymem()
CopyMem(name, p, q, l, c) ==
    /\ Unchecked => p # 0 /\ q # 0
    /\ Do(name, <<p, q, l, c>>, "copy",
          IF Unchecked THEN [Copied(name, p, q, l, c) EXCEPT !.n = 0]
          ELSE CopyMemory(name, p, q, l, c))

\* Where a pattern is; memmem() finds an empty one at once.
Found(p, l, pattern) == IF pattern = <<>> THEN p ELSE MemFind(mem, p, l, pattern)

\* __mp_locatememory(); at q is the pattern.
LocateMemory(p, l, q, pattern) ==
    Checked(CheckRanges(p, l, q, Len(pattern)),
            Outcome(mem, Found(p, l, pattern), <<>>, Len(pattern)), 0)

\* __mp_locatemem(), for memmem()
MemMem(p, l, q, m) ==
    LET pattern == [i \in 1..m |-> mem[q + i - 1]]
    IN  /\ Unchecked => p # 0 /\ q # 0
        /\ q = 0 => m = 0
        /\ Do("memmem", <<p, l, q, m>>, "find",
              IF Unchecked THEN Outcome(mem, Found(p, l, pattern), <<>>, 0)
              ELSE LocateMemory(p, l, q, pattern))

\* And for memchr(): the pattern is a byte on the stack, which is at an address that
\* the heap does not have.
MemChr(p, c, l) ==
    /\ Unchecked => p # 0
    /\ Do("memchr", <<p, c, l>>, "find",
          IF Unchecked THEN Outcome(mem, Found(p, l, <<c>>), <<>>, 0)
          ELSE LocateMemory(p, l, TOP + 1, <<c>>))

\* The difference at the first place where two ranges differ.
Difference(p, q, l) ==
    LET at == MemCompare(mem, p, q, l)
    IN  IF at = 0 THEN 0 ELSE mem[at] - mem[q + at - p]

\* __mp_comparememory()
CompareMemory(p, q, l) ==
    Checked(CheckRanges(p, l, q, l), Outcome(mem, Difference(p, q, l), <<>>, l), 0)

\* __mp_comparemem(), for memcmp() and bcmp()
CompareMem(name, p, q, l) ==
    /\ Unchecked => p # 0 /\ q # 0
    /\ Do(name, <<p, q, l>>, "compare",
          IF Unchecked THEN Outcome(mem, Difference(p, q, l), <<>>, 0)
          ELSE CompareMemory(p, q, l))

\* What __mp_checkinfo() does with memory that should have been filled with byte c.
CheckFilled(p, l, c) ==
    /\ p # 0
    /\ Do("memcheck", <<p, c, l>>, "find", Outcome(mem, MemCheck(mem, p, c, l), <<>>, 0))

\* One attempt to make a copy of the string, as the bytes of the new block; none
\* if it is refused or there is no memory for it.
Duplicate(p, check, memory) ==
    IF check.ok /\ memory
    THEN Append([i \in 1..check.length |-> mem[p + i - 1]], 0) ELSE <<>>

\* The attempts, after the check of the string.
Attempts(p, args, check, must, memory) ==
    LET first == Duplicate(p, check, memory[1])
        again == first = <<>> /\ opts.handler
        last == IF again THEN Duplicate(p, check, memory[2]) ELSE first
        said == IF again THEN check.said \o check.said ELSE check.said
    IN  /\ p + check.length <= TOP
        /\ Answer("strdup", args, last, said \o If(last = <<>> /\ must, "OUTMEM"))

\* __mp_strdup(): tried again, from the check of the string on, after a call of the
\* low-memory handler; strdupa(), strndupa() and xstrdup() then end the program.
StrDup(p, l, limited, must, memory) ==
    /\ heap.phase # "early"
    /\ UNCHANGED <<mem, totals>>
    /\ Attempts(p, <<p, l, limited, memory>>, CheckString(p, l, limited), must, memory)

\* The same before the C library is up: sbrk() is asked once for memory.
StrDupEarly(p, l, limited, must, memory) ==
    LET length == StopAt(p, {}) - p
        string == [ok |-> TRUE, length |-> IF limited THEN Min({length, l}) ELSE length]
        copy == IF p = 0 THEN <<>> ELSE Duplicate(p, string, memory[1])
    IN  /\ heap.phase = "early" /\ (p # 0 => p + length <= TOP)
        /\ UNCHANGED <<mem, totals>>
        /\ Answer("strdup", <<p, l, limited, memory>>, copy,
                  If(copy = <<>> /\ must, "abort"))

-----------------------------------------------------------------------------
\* What the library writes into its memory and the program's look of the rest.
Filled(look) == [a \in 1..TOP |->
    LET in(n) == a \in From(n)..(To(n) - 1)
        user(n) == n.kind = "alloc" /\ a \in n.block..(n.block + n.size - 1)
    IN  IF \E i \in DOMAIN heap.nodes : in(heap.nodes[i]) /\ ~user(heap.nodes[i])
        THEN TOP + 1 ELSE look[a]]

MemoryInit ==
    /\ heap \in HEAPS /\ opts \in OPTIONS
    /\ \E look \in LOOKS : mem = Filled(look)
    /\ totals = [set |-> 0, copy |-> 0, find |-> 0, compare |-> 0]
    /\ call = [name |-> "none", args |-> <<>>, ret |-> 0, said |-> <<>>]

\* Ranges of the memory there is; NULL has none, but may be passed.
Ranges == {r \in (0..TOP) \X LENGTHS : r[1] + r[2] - 1 <= TOP}
Pairs == {r \in (0..TOP) \X (0..TOP) \X LENGTHS :
            r[1] + r[3] - 1 <= TOP /\ r[2] + r[3] - 1 <= TOP}

\* The functions of src/malloc.c, with their arguments in their order.
Memset == \E r \in Ranges, c \in BYTES : SetMem("memset", r[1], r[2], c)
Bzero == \E r \in Ranges : SetMem("bzero", r[1], r[2], 0)
Memccpy == \E r \in Pairs, c \in BYTES : CopyMem("memccpy", r[1], r[2], r[3], c)
Memcpy == \E r \in Pairs : CopyMem("memcpy", r[1], r[2], r[3], 0)
Memmove == \E r \in Pairs : CopyMem("memmove", r[1], r[2], r[3], 0)
Memchr == \E r \in Ranges, c \in BYTES : MemChr(r[1], c, r[2])
Memmem == \E r \in Ranges, q \in 0..TOP, m \in PATLENGTHS :
    q + m - 1 <= TOP /\ MemMem(r[1], r[2], q, m)
Memcmp == \E r \in Pairs : CompareMem("memcmp", r[1], r[2], r[3])
Strdup == \E p \in 0..TOP, must \in BOOLEAN, memory \in BOOLEAN \X BOOLEAN :
    StrDup(p, 0, FALSE, must, memory) \/ StrDupEarly(p, 0, FALSE, must, memory)
Strndup == \E p \in 0..TOP, l \in LIMITS, must \in BOOLEAN,
              memory \in BOOLEAN \X BOOLEAN :
    StrDup(p, l, TRUE, must, memory) \/ StrDupEarly(p, l, TRUE, must, memory)

Memcheck == \E r \in Ranges, c \in BYTES \cup {TOP + 1} : CheckFilled(r[1], r[2], c)

\* bound: one call
MemoryNext ==
    /\ call.name = "none" /\ UNCHANGED <<heap, opts>>
    /\ \/ Memset \/ Bzero \/ Memccpy \/ Memcpy \/ Memmove
       \/ Memchr \/ Memmem \/ Memcmp \/ Memcheck \/ Strdup \/ Strndup

-----------------------------------------------------------------------------
UserBytes(n) == n.block..(n.block + n.size - 1)
NodeBytes(n) == From(n)..(To(n) - 1)
NodesOfHeap == {heap.nodes[i] : i \in DOMAIN heap.nodes}

\* Memory that is none of the heap's, and all that the program may use.
Foreign == 1..TOP \ UNION {NodeBytes(n) : n \in NodesOfHeap}
Programs == Foreign \cup
    UNION {UserBytes(n) : n \in {n \in NodesOfHeap : n.kind = "alloc"}}

\* May the program use these bytes in one operation?
Proper(area) ==
    \/ area \subseteq Foreign
    \/ \E n \in NodesOfHeap : n.kind = "alloc" /\ area \subseteq UserBytes(n)
Area(p, l) == p..(p + l - 1)
ProperRange(p, l) == p # 0 /\ Proper(Area(p, l))

Moved(p, q, n) == [a \in 1..TOP |-> IF a \in Area(q, n) THEN mem[p + a - q] ELSE mem[a]]
Quiet(said) == \A i \in DOMAIN said : said[i] \in {"ZEROPN", "RNGOVL"}

\* An operation on memory that the program may use does to it, and returns, what the
\* C library's function does, whatever the ranges' alignment, length and overlap and
\* whether or not the library is active, and nothing is said against it.  The library's
\* own check of memory it has filled finds the first byte that was changed.
OperationsAreExact ==
    LET name == call'.name
        x == call'.args
        ret == call'.ret
        first(p, l, c) == {a \in Area(p, l) : mem[a] = c}
        differ(p, q, l) == {i \in 0..(l - 1) : mem[p + i] # mem[q + i]}
    IN  CASE name \in {"memset", "bzero"} -> ProperRange(x[1], x[2]) =>
               /\ mem' = [a \in 1..TOP |-> IF a \in Area(x[1], x[2]) THEN x[3] ELSE mem[a]]
               /\ ret = x[1] /\ Quiet(call'.said)
          [] name \in {"memcpy", "memmove"} ->
               ProperRange(x[1], x[3]) /\ ProperRange(x[2], x[3]) =>
               mem' = Moved(x[1], x[2], x[3]) /\ ret = x[2] /\ Quiet(call'.said)
          [] name = "memccpy" ->
               ProperRange(x[1], x[3]) /\ ProperRange(x[2], x[3]) =>
               LET at == first(x[1], x[3], x[4])
                   n == IF at = {} THEN x[3] ELSE Min(at) - x[1] + 1
               IN  /\ mem' = Moved(x[1], x[2], n)
                   /\ ret = IF at = {} THEN 0 ELSE x[2] + n
                   /\ Quiet(call'.said)
          [] name = "memchr" -> ProperRange(x[1], x[3]) =>
               LET at == first(x[1], x[3], x[2])
               IN  ret = (IF at = {} THEN 0 ELSE Min(at)) /\ Quiet(call'.said)
          [] name = "memmem" -> ProperRange(x[1], x[2]) /\ ProperRange(x[3], x[4]) =>
               LET at == {a \in x[1]..(x[1] + x[2] - x[4]) :
                            \A i \in 0..(x[4] - 1) : mem[a + i] = mem[x[3] + i]}
               IN  ret = (IF at = {} THEN 0 ELSE Min(at)) /\ Quiet(call'.said)
          [] name = "memcmp" -> ProperRange(x[1], x[3]) /\ ProperRange(x[2], x[3]) =>
               LET d == differ(x[1], x[2], x[3])
               IN  /\ ret = IF d = {} THEN 0 ELSE mem[x[1] + Min(d)] - mem[x[2] + Min(d)]
                   /\ Quiet(call'.said)
          [] name = "memcheck" ->
               LET at == {a \in Area(x[1], x[3]) : mem[a] # x[2]}
               IN  ret = IF at = {} THEN 0 ELSE Min(at)
          [] OTHER -> TRUE

\* While the library is active and ALLOWOFLOW is off, no operation changes a byte that
\* is not the program's: not an overflow buffer, a freed block or free memory, wherever
\* the range begins, how many blocks it spans, and with pages or without; one that is
\* refused changes nothing and is reported.
BuffersIntact ==
    heap.phase = "active" /\ ~opts.allow =>
        /\ \A a \in 1..TOP : mem'[a] # mem[a] => a \in Programs
        /\ call'.name \in {"memset", "memcpy", "memmove"} =>
             LET l == call'.args[Len(call'.args) - 1]
                 to == IF call'.name = "memset" THEN call'.args[1] ELSE call'.args[2]
             IN  l > 0 /\ ~Proper(Area(to, l)) => mem' = mem /\ ~Quiet(call'.said)

\* The duplicate of a string is the string, up to the limit, and a zero byte, unless
\* there was no memory; a string that begins in a block must end in that block or it
\* is not duplicated, and nothing of what follows the block is.
DuplicateIsString ==
    call'.name = "strdup" =>
        LET p == call'.args[1]
            limit == call'.args[2]
            limited == call'.args[3]
            whole == StopAt(p, {}) - p
            n == IF limited THEN Min({limit, whole}) ELSE whole
            proper == ProperRange(p, IF limited /\ n = limit THEN Max({n, 1}) ELSE n + 1)
            noMemory == ~call'.args[4][1] /\ (opts.handler => ~call'.args[4][2])
        IN  /\ proper /\ call'.ret # <<>> =>
                 call'.ret = Append([i \in 1..n |-> mem[p + i - 1]], 0)
            /\ proper /\ call'.ret = <<>> => noMemory \/ heap.phase = "early"
            /\ ~proper /\ p # 0 /\ (\E m \in NodesOfHeap : p \in NodeBytes(m)) =>
                 call'.ret = <<>> /\ call'.said # <<>>

\* All of it: operations do what they should, and where they should not, nothing.
MemoryIsExact ==
    [][OperationsAreExact /\ BuffersIntact /\ DuplicateIsString]_memoryVars
=============================================================================
