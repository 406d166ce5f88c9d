# A TLA+ model of mpatrol

mpatrol is a library that a C or C++ program is linked with to have its dynamic
memory watched. It replaces `malloc()` and its relatives, keeps a record of every
block, surrounds blocks with overflow buffers, fills or protects free memory, checks
all of this on every call, and writes logs, profiles and traces. The code is in
`src/src`; paths such as `alloc.c:361` below are relative to it, and paths with a
directory (`doc/mpatrol.texi`) to `src`.

The project has TLA+ modules for the library, the commands that read its output, and
the tools built on its interface; TLC runs that check them on small instances; and proofs
for instances of any size.

## 1. The system

### 1.1 How a call passes through the library

    program, any thread
       |
    inter.c      savesignals(): the recursive lock, nesting count, signals
       |         checkheap(), checkalloca(), prologue; retry with low-memory handler
    info.c       what is known of each block; decides, reports, traces, profiles
       |
    alloc.c      which memory is whose: free, allocated and freed nodes
       |
    heap.c       stretches of pages obtained from the system
       |
    memory.c     sbrk() or mmap(), protection, watch points, filling

`slots.c` (tables of equal-sized nodes), `list.c` and `tree.c` serve all of these.
Everything below `inter.c` runs with the recursive lock of `mutex.c` held, so that
concurrency is confined to that lock, to what `inter.c` reads before it takes it, and
to callbacks (prologue, epilogue, low-memory handler, iteration) that call the library
again from inside.

### 1.2 Inventory

| component | state | operations | what is hard | what makes it correct |
|---|---|---|---|---|
| recursive mutex (`mutex.c`) | `lockflag`; per mutex `init`, `guard`, `real`, `owner`, `count` | lock, unlock, one-time initialisation | every interleaving of its steps; first calls of several threads; unlocks by threads that hold nothing | exclusion; the count is the caller's depth; nothing left locked; a nested lock never waits |
| allocation manager (`alloc.c`) | the list of nodes, trees of free, allocated and freed nodes, the queue of freed nodes, totals, slot table | get, resize, free, recycle, three searches, delete all, protect | splitting and merging; failing half-way; limits; wrap-around; alignment; keeping bytes, protection and watch points of each stretch right | nodes tile the memory; no two free nodes border; totals exact; no node lost; freed blocks kept in order; checks stay silent |
| heap manager (`heap.c`) | trees and table of memory obtained, protection count | get, free, protect, delete | its own table lives in memory that it manages | whole pages, never the same twice |
| memory interface (`memory.c`) | page size, watch points, break | get pages, protect, watch, fill, compare | several ways of obtaining memory | whole pages are affected |
| slot tables (`slots.c`), lists (`list.c`) | chains of free slots, links | get and free a slot; insert, remove | a block of slots describes itself by its first slot | nothing lost, nothing twice |
| search trees (`tree.c`) | red-black trees with sizes | insert, remove, search lower, equal or higher, order | re-balancing | order, balance, the same set as a list |
| information manager (`info.c`) | per block: type, event, call site, flags; peak and limit; the `alloca` stack | get, resize, relocate, free, fill, copy, check | relocation; partial failure; nested protection | a record for every block and no other; every misuse reported, nothing else |
| interface (`inter.c`, `malloc.c`, `cplus.c`) | `init`, `fini`, `recur`, event number, registered functions, stack of delete positions | about eighty entry points | first call, last call, calls from callbacks, fork, low-memory retry | balanced locking; nothing after the end |
| signals (`signals.c`) | two saved handlers | save, restore, handle a fault | nesting with the lock | the program's handlers are back on return |
| options (`option.c`) | all of the flags | parse, set and read at run time | changes while blocks exist | limits hold after a change |
| leak table (`leaktab.c`), profiling (`profile.c`) | counts by call site and size | add, take off, write | what is taken off was added | outstanding = allocated - freed |
| tracing (`trace.c`), reader (`mptrace.c`) | name caches, cached reservations, open file | write an event, read events | both ends must replace names alike; numbers of any width | the reader sees what was written |
| call stacks and symbols (`stack.c`, `symbol.c`, `addr.c`, `strtab.c`) | frames; symbols by address; shared stacks; strings | walk, look up, share | machine and file formats | |
| diagnostics (`diag.c`), replacement (`mpalloc.c`), tools | text | print | | |

`PROJECT.json` lists the same parts with what has been modelled, and the hazards that
the properties are aimed at, each at its line.

### 1.3 Modules

| part | modules | run | section |
|---|---|---|---|
| recursive mutex | `RecMutex`, abstract `RecLock`, `RecMutexProofs` | `recmutex` | 2 |
| allocation manager | `Alloc`, abstract `BlockStore`, `HeapProofs`, `GuardProofs`, with `Sums`, `SumProofs` | `alloc_bytes`, `alloc_upper`, `alloc_lower` | 3 |
| blocks and their details | `Info`, `Sums`, `SumProofs`, `InfoProofs` | `info_alloca`, `info_kinds`, `info_handler`, `info_threads` | 4 |
| trees, slots, lists | `Tree`, `Slots`, `Lists` | `parts` | 5 |
| operations on memory | `Memory` | `parts` | 5 |
| options and the command | `Options`, `Command`, `CommandProofs` | `parts` | 5 |
| protection of the library's own memory | `Protection`, `ProtectionProofs` | `parts` | 5 |
| what is recorded, and its readers | `Trace`, `MpTrace`, `Profile`, `MProf`, `LeakTab`, `MLeak`, composed by `Records` | `records` | 6 |
| life of the library | `Library`, `LibraryProofs` | `library`, `walk_allocating` | 7 |
| tools on its interface | `Tools`, `Sums`, `LibraryProofs` | `library` | 7 |

`MCRecMutex`, `MCAlloc`, `MCInfo`, `MCParts`, `MCRecords` and `MCLibrary` hold the values
that TLC needs. Each module above them works on what the ones below promise and not on
their detail, which keeps the state spaces small: `Info` on the blocks of `BlockStore`,
`Records` on the blocks of `Info`, `Tools` on blocks with contents and event numbers; and
all of them on calls that `RecMutex` shows to exclude each other.

All parts of the plan are modelled. What stays with TLC, and why, is said at the end of
each section.

## 2. The recursive mutex

### 2.1 Correspondence

`RecMutex` has a program counter per thread with a value for each place in
`__mp_lockmutex()` and `__mp_unlockmutex()` between two accesses to what is shared, as
they are built with POSIX threads. `once` is `lockflag`, `init`, `guard`, `real`,
`owner`, `count` are the fields of the mutex. `guard` and `real` are themselves plain
mutexes and hold the thread that locked them. `depth[t]` is the number of lock calls
returned from less unlock calls entered, a history variable. `owner` and `count` change
in one action each time since the guard is held around them, with one exception:
`Disown` follows `UnlockReal`, both under the guard, and other threads run in between.
With `StrayUnlocks` a thread may also unlock what it has not locked, which the code
guards against.

`RecLock` is the lock a caller wants: one variable, two actions.

### 2.2 Runs

| run | instance | shows |
|---|---|---|
| `recmutex` | three threads, nesting up to 2, stray unlocks, fair scheduling | `MutualExclusion`, `DepthMatchesCount`, `NothingLeftLocked`, `CallsReturn`, and that `RecMutex` implements `RecLock` |

Three threads are one inside, one between the guard and the real mutex, and one that
arrives; nesting of two reaches every branch on `count`. Threads are alike, but symmetry
is not used, as it is unsound for liveness.

Fairness (`FairSpec`): a thread that can take a step inside of the two functions takes it
sometime, which is what the scheduler of the system does, and a thread that holds the lock
gives it back, which holds as every entry point of `inter.c` that calls `savesignals()`
returns by `restoresignals()`. No thread is promised a contended mutex: POSIX does not say
who gets it, and hence a waiting thread may starve. `CallsReturn` is what remains true: a
nested call of the owner never waits, an unlock returns, and of those that wait somebody
gets in. Calls of unlock out of turn take the guard as well; where they go on for ever,
without fairness for the guard nothing is promised, and the property says so.

### 2.3 Proofs

`RecMutexProofs` proves for any set of threads and any bound on nesting that the types
are kept, mutual exclusion, that the count is the depth, that an idle mutex is free, and
that `RecMutex` implements `RecLock`. The invariants are not inductive alone. `IInv` adds:

* `OnceInv`: nobody is past `pthread_once()` before the initialisation is done, so that
  it cannot wipe out a mutex in use;
* `GuardInv`: a thread is between taking and giving up the guard exactly if it holds it;
* `RealInv`: the same for `real`, which a thread also holds while its depth is not 0;
* `OwnerInv`: who is owner without holding `real` is on the way to `Disown`;
* `DepthInv`: `count` and the depth of the owner, place by place.

Each action has a lemma or a step for the conjuncts it can disturb. Refinement follows
from `IInv`: `Leave` is `Acquire` (the guard of `Acquire` is mutual exclusion),
`CallUnlock` with depth above 0 is `Release`, and all others leave `depth` alone.
The assumptions used are the three of `RecMutex`: 0 identifies no thread, the bound is
positive, the flag is Boolean. `CallsReturn` rests on fairness, which is out of reach of
the prover, and is model-checked only.

## 3. The allocation manager

### 3.1 Correspondence

An action of `Alloc` is a call of `alloc.c` made by the layer above, from start to end:
calls are serialised by the lock. The parts a call is made of are operators, and a state
on its way through them is a record (`Now`, `Becomes`).

| code | module |
|---|---|
| `h->list`, with each node's `block` and `size`, and the tree it is in | `list`, a sequence of nodes with a `kind` |
| `h->ftree`, `atree`, `gtree` | the nodes of one kind; a search is a set of indices |
| `h->flist`, `asize`, `gsize`, `fmax` | the same names |
| `h->fsize`, sum of the sizes in the free tree | `fsize` |
| `h->table` of `slots.c` | `table`: free slots and blocks of slots |
| memory from `heap.c` | `heap`, the pages obtained |
| bytes of user memory | `mem`, by kind of content |
| protection of pages, watch points | `access`, `watch` |
| `__mp_getalloc()`, `splitnode()`, `mergenode()`, `getnode()` | `GetallocReuse`, `GetallocFresh`, `GetallocRefused`; `SplitNode`, `MergeNode`, `GetNode` |
| `__mp_resizealloc()` | `ResizeSame`, `ResizeGrow`, `ResizeShrink` |
| `__mp_freealloc()` | `FreeallocDrop`, `FreeallocKeep` |
| `__mp_recyclefreed()` | `Recycled`, `Released` |
| `__mp_findalloc()`, `__mp_findfreed()`, `__mp_findnode()` | `FindIn`, `FindNode` |
| setting `NOFREE` (`option.c`) | `OptNofree`, `OptNofreeRecycle`, `OptNofreeDone` |

Points worth knowing:

* Every request for memory may fail. A second node may be refused after a first has been
  given (`TwoNodesFail`), and memory after the node for it (`GetallocRefused`).
* The heap manager may return any pages that are free. The module says nothing of its own
  nodes, which never touch user memory.
* The filling of a new or grown block, done by `info.c` before the call ends, is part of
  the action, so that between actions every byte has its final content.
* Arithmetic on sizes is modulo `WORD`. Addresses stay below it (`HeapAssumption`), so only
  sizes can wrap.
* A tree with several best fits may return any of them, as equal keys may be in any order.
* `__mp_resizememory()` relocates a block by a `__mp_getalloc()`, a copy and a
  `__mp_freealloc()`, without `NOFREE` when the block cannot grow in place, with `NOFREE`
  always. These are two actions here, and copying is not modelled as it only writes to a
  block of the program.

`BlockStore` is what a caller relies on: blocks stay where they are, keep clear of each
other by two overflow buffers, are aligned, and freed blocks are let go oldest first.
`OptNofreeRecycle` maps to `LetGo`, `OptNofreeDone` to `SetLimit`; a failed request
stutters.

### 3.2 Runs

| run | instance | questions |
|---|---|---|
| `alloc_bytes` | four pages of 8 bytes, one apart; filled buffers of 2 bytes; sizes 1 and 4; up to two freed blocks kept | `TypeOK`, `SlotsBalanced`, `HeapInOrder`, `CheckinfoSilent`, and the refinement |
| `alloc_upper` | eight pages of 4 bytes, a block to a page and at its end, alignments default and 1, one kept | `GuardsExact`: protection of blocks and buffers |
| `alloc_lower` | as above, at the start of its page, watched and preserved, sizes 1, 3, 6 | `GuardsInPlace`: resizing by pages, protection of blocks, watch points |

The bounds are chosen for cases, not for size. In three pages that border and one that
does not, memory from the system comes above, below, between and apart from what is
there, so that merging happens on the left, on the right, on both sides and not at all.
With its two buffers a block of 4 bytes fills a page exactly, and one of 1 byte leaves
room that the next block cannot be aligned in: both a free node that is used up and gaps
before and after blocks occur. A block freed between two blocks, beside free memory and
at either end occurs. Slots come in blocks of 4 of which one describes the block itself,
so that a split that needs two nodes falls across the end of a block of slots, and the
number of blocks of slots is bounded by `CHUNKS`; refusal is possible each time. A queue
limit of 2 makes order visible, and limits are set at any time. `WORD` is 128, above
every address and every size asked for.

`GuardsExact` has `OverflowProtected` where `GuardsInPlace` does not: in `alloc_lower`
observation 2 of section 8 would end the run. `HeapIsTiled` and what rests on it hold for
instances whose alignment is covered by the overflow buffers; otherwise observation 1
would.

### 3.3 Properties

* `HeapInOrder` is the conjunction of
  * `HeapIsTiled`: every byte obtained from the system belongs to exactly one node and the
    nodes are in order. Split, merge, grow, shrink, free and recycle each move boundaries;
  * `NoBorderingFree`: stated by the comment at `alloc.c:391`, and relied on by
    `__mp_resizealloc()`, which looks at a single neighbour;
  * `CountersExact`: the totals are the sums over all nodes;
  * `FreedQueueExact`: queue and freed nodes are the same, within the limit;
  * `LookupExact`: the searches, which start in a tree of blocks and walk the list, find
    for each address what a search of all nodes would.
* `SlotsBalanced`: the slots add up on all paths including failures.
* `CheckinfoSilent`: with a program that stays in its blocks, `__mp_checkinfo()` finds
  nothing: each operation leaves the bytes as the check wants.
* `GuardsInPlace` is `BlockPagesProtected` and `WatchExact`, and `GuardsExact` that with
  `OverflowProtected`: what may be touched can be, and what may not cannot.
* `ImplementsBlockStore`: the refinement; alignment of new blocks is part of it.

### 3.4 Proofs

`HeapProofs` proves, for every page size, alignment, flag, heap, size and limit that the
assumptions of `Alloc` allow:

* `TypeCorrect`: sizes, totals and addresses stay in `size_t`; no operation indexes a node
  that is not there.
* `SlotsAreBalanced`: free slots, nodes in the list and blocks of slots add up, whichever
  request is refused in whichever step.

The inductive invariant is `Now \in State /\ Account(Now) = 0 /\ Others`: the types of the
record that an operation passes along, the balance as a function of that record, and the
types of the rest. Stating the balance of a record rather than of the state lets each part
of an operation have a lemma of its own: splicing changes the length of a list by so much
(`SpliceFacts`), merging gives back as many slots as nodes disappear (`MergeFacts`),
splitting uses as many of its two nodes as there are new pieces (`PiecesFacts`),
`GetNode` and `TwoNodesFail` account for what they took. Then there is a lemma for each
action, and the theorem puts them together. The bound `SLOTS >= 2` is used: a block of
slots must have one besides the one that describes it.

These two are proved without any assumption on how sizes and alignments fit; the
observations of section 8 do not disturb them.

It goes on from there and proves what the layers above rely on:

| theorem | states | under |
|---|---|---|
| `HeapStaysInOrder` | `Spec => []HeapInOrder`, all five parts | `RequestsFit` |
| `HeapIsBlockStore` | `Spec => ImplementsBlockStore` | `RequestsFit`, `PagesAlign` |
| `BlocksStayInHeap` | `Spec => []BlocksInHeap` | `RequestsFit` |

`RequestsFit` says which requests the arithmetic of `alloc.c` is made for. Each part has
its reason in the code:

* the size with both overflow buffers, rounded up to pages, is below `WORD`, and the size
  itself is below half of it. `__mp_getalloc()` adds the buffers and `__mp_resizealloc()`
  reads the difference of two sizes as a `long` without a test (observation 4);
* with a block to a page, overflow buffers are whole pages. `__mp_newallocs()` rounds
  them up, so that this only fails if pages do not divide `WORD`;
* otherwise memory from the system has room for the gap that alignment leaves in it
  (observation 1). It does if alignments divide both pages and overflow buffers, as then
  there is no gap, or if the last page has room to spare.

The three instances of section 3.2 satisfy it. Requests have to be restricted in each of
these ways: TLC finds `HeapInOrder` violated with `WORD` 32, six pages of 4 bytes,
no overflow buffers and a size of 18 (more than half), and in the instance of
`alloc_bytes` with `WORD` 64, `OFLOWSIZE` 16 and a size of 31 (a sum that wraps around) or
with size 4 and alignment 4 (a gap without room). `PagesAlign` asks that there be an alignment to
request, and with a block to a page that alignments divide the page, as powers of two do.

`HeapInOrder` is nearly inductive but not quite: totals are kept only if they do not wrap
around, for which the nodes must lie below `WORD`; a merge is correct only if its neighbours
do not overlap; the queue is right only if a block is known by its address. `HeapInv` is
the invariant of types and slots with `HeapOrder`, and that has three parts:

* `InOrder`: each node is `Sound` (it has bytes, its block with its buffers is inside them,
  and they are whole pages where blocks are), nodes are sorted, no two free ones touch,
  their memory is that of the heap, and the totals are those of the nodes;
* `Queued`: the queue has the freed blocks, each once;
* the limit, as long as no new one is being set.

All three speak of a list and not of the state, because an operation goes through several
lists. Only the first lemmas look at sequences: `SpliceNodes` says which nodes a list has
after some have been replaced, and `Swap` that it stays in order if the new nodes cover
the same memory as the old ones (`Strip`). From then on nodes are sets, and totals are
`SumOf` over a set (`SumProofs` has what is proved of that). `MergeKeeps` is about
`mergenode()`: memory and blocks stay, and no two free nodes touch. `SplitInOrder` is
about `splitnode()`: the pieces cover the free node (`PiecesOfBytes`, `PiecesOfPages`,
which is where wrap-around, alignment and `ALLOCUPPER` are dealt with).
`ExtendedOrder` is about new memory, with `Placed` for the place in the list that the code
finds by a tree of blocks, and `FreshFits` for its size. `RecutInOrder` is about
the three ways to resize. A lemma for each action puts these together, and then one lemma
for each part of `HeapInOrder` shows that `HeapInv` implies it; `LookupExact` needs
that of two blocks the lower one ends first (`Before`).

For the refinement each of these lemmas also says what becomes of the blocks: a new one
(`Made`), another size (`Became`), one less (`Gone`), one that is freed and held back while
the oldest may leave (`Retained`). The queue maps to `HeldBack`, which is characterised
by what it shows (`Shows`, `ShownOnce`) so that the `CHOOSE` in the mapping never has to be
evaluated. `BlocksAreClear` derives from `Sound` and the order that two blocks have two
overflow buffers between them.

`GuardProofs` adds what the bytes hold and which pages can be touched.

| theorem | states | under |
|---|---|---|
| `GuardsStayInPlace` | `Spec => []GuardsInPlace` | `RequestsFit` |
| `GuardsStayExact` | `Spec => []GuardsExact` | `RequestsFit`, `PAGEALLOC => ALLOCUPPER` |
| `ChecksStaySilent` | `Spec => []CheckinfoSilent` | `RequestsFit` |

The second hypothesis of `GuardsStayExact` leaves out blocks at the start of their pages,
for which `OverflowProtected` does not hold (observation 2).

The three need one invariant, `GuardInv`, beside `HeapInv`. What a check expects of free
memory cannot be said node by node, since nodes of free memory are cut, merged and
moved by each operation; it is said byte by byte instead, and page by page:

* `Guarded` of each block: it is filled if it is freed and to be filled (`Emptied`), the
  bytes around it are filled unless they are watched or cannot be reached (`Fenced`), and
  its own pages are protected by its kind (`Shielded`);
* `Clean`: a byte of the heap that is in no block is filled with the free byte, as long as
  blocks are not pages, and `Walled`: a page that is in no block is closed, as long as
  blocks are at the ends of their pages;
* the watch points are those around the blocks that are to be watched, no more and no less.

This depends on the list by its set of blocks alone, so that merging and splitting of free
nodes need no argument at all: the lemmas of `HeapProofs` say what becomes of the blocks,
and there are four things that can become of them. A block is added (`AddBlock`), goes
(`DropBlock`) or is replaced by one in the same place (`ChangeBlock`), or pages come
(`AddMemory`). Each of these asks three things of a step: that it touches no memory outside
of the node of that block (`Elsewhere`), that the block is guarded afterwards, and that
what the block has given up is left as free memory. `SplitMemory`, `ReleasedMemory`,
`KeptMemory`, `ResizedMemory` and `FreshMemory` derive them from the calls of
`__mp_memset()` and `__mp_memprotect()` in the code, where the rounding to pages and the
wrap-around of sizes are dealt with; `Untouched` shows that other blocks, which lie apart
(`Spread`), stay guarded. From `GuardInv` and the tiling of `HeapInv` follows that a
free node has the bytes that are in no block, and so that the check is silent.

### 3.5 Only model-checked

All properties of `Alloc` that a run checks are proved under the hypotheses above. What
the code does without them is for the runs and the observations of section 8.

## 4. Blocks and their details

### 4.1 Correspondence

An action of `Info` is a call of the library by a thread of the program, made with the
lock held, with one exception: when a call gets no memory and the program has registered
a low-memory handler, the call waits in `frames` while the handler runs, and the handler
may call the library itself.

| code | module |
|---|---|
| the nodes of `h->alloc`'s trees that have an information node, with `type`, `size`, `FLG_MARKED` | `info`, by address; `kind` tells live from freed |
| `h->alloc.flist`, limit `fmax` | `flist`, `FMAX` |
| `h->astack`, with `block` and call stack | `astack` |
| slots taken from `h->table` and `h->atable` | `slots` |
| `h->mcount`, `h->mtotal` | `mcount`, `mtotal` |
| C stack of calls that wait for `memhead.nomemory` | `frames` |
| `memhead.recur > 1` | `Nested` |
| `__mp_getmemory()` | `GetMemory` |
| `__mp_resizememory()` | `ResizeMemory`, `ResizeBlock`, `Sized`, `Moved` |
| `__mp_freememory()`, with its table of types | `FreeMemory`, `Compatible`, `Unstack`, `Keep`, `Drop` |
| `checkalloca()`, `__mp_compareaddrs()` | `CheckAlloca`, `OutOfScope` |
| `__mp_alloc()`, `__mp_realloc()`, `__mp_free()`, `__mp_setmark()` | `Alloc`, `Realloc`, `Free`, `SetMark` |
| return of the handler and the next attempt | `HandlerReturns` |

The program is modelled too, as far as the properties speak of it. `path` holds each
thread's active functions with the blocks each has by `alloca()`; `Enter` and `Return`
change it. `held` is what the program knows of its other blocks: the address, kind, size
and mark it has been told, while no call is at work on the block. With each call comes a
verdict, from `path` and `held` alone: `right`, `wrong`, or `rash` where the program does
what it should not but the library cannot tell (such as `dealloca()` of a block whose
function has returned but which is still on the stack). With `MISUSE` the program makes
any of these calls, without it only right ones.

Points worth knowing:

* Functions that the code treats alike are one: `malloc` stands for all that make a
  block of the C kind, `free` for all that free it. `__mp_strdup()` makes blocks as
  `__mp_alloc()` does.
* Any attempt may fail: by the limit, by the `FAILFREQ` option, or for want of a slot for
  the `alloca` stack, of one for the details of the block, or of memory. `SlotsGot` has
  the slots that the call has by then and `GivenBack` the code that returns them.
* A resize happens in place, by moving the block with its node, or, when freed blocks are
  to be kept, by copying into a block with a node of its own.
* `checkalloca()` is modelled as built with `MP_FULLSTACK`, where whole call stacks are
  compared; other builds know one or a few return addresses.
* `FLG_MARKED` blocks are not freed; blocks of `alloca` are not marked.
* Of a freed block the details are kept for the log only, hence `FreedNode` has none.
* The handler makes up to `HANDLERCALLS` calls, none of them `alloca()`, and does not
  touch the block that the waiting call works on.
* `xrealloc()` of size 0 takes the size of the type when it is called through a macro with
  a type (`inter.c:1188`); calls with a type are not modelled.
* `__mp_abort()` ends the program: of `alloca()`, `xmalloc()`, `xrealloc()` that fail.

### 4.2 Runs

| run | instance | questions |
|---|---|---|
| `info_alloca` | one thread, three functions deep, two call sites, three blocks, limit of 4 bytes, freed blocks not kept, misuse | the `alloca` stack, when its blocks go, slots, the limit |
| `info_kinds` | blocks of all kinds, marks, sizes 0, 1, 2, one freed block kept, misuse | records and blocks, errors, marks, freed blocks |
| `info_handler` | two blocks, a handler that makes up to two calls, limit of 3 bytes, marks | retries: blocks kept, marks, an answer to every call |
| `info_threads` | two threads that use `alloca()` | fails `AllocaInScopeIsLive`, see section 8 |

Three functions with two call sites give call stacks that are shallower, deeper, as deep
and different, and the same. Three blocks and one kept make a freed block that is let go
while another is freed. Sizes 0, 1 and 2 are the special size, growing and shrinking.
Blocks, and in `info_alloca` call sites, are alike and reduced by symmetry; `info_handler`
has none as it checks liveness. `CHECK_DEADLOCK` is off since `__mp_abort()` ends the
program, and in small instances all memory may be in use by a program that may not err.
`info_alloca` keeps no freed blocks because of observation 5 of section 8;
`info_handler` leaves out what observation 3 is about, sizes of 0 and `reallocf()`.

Fairness: `HandlerReturns` is weakly fair, that is, a handler makes finitely many calls
and returns, as a handler must that the manual asks to free some memory. Nothing makes
the program call. `CallsAreAnswered` is checked for functions other than operators
`new`: these call the handler until there is memory, as C++ wants and the manual says,
and may do so for ever.

### 4.3 Properties

* `AllocaExact`: `StackExact` and `SlotsExact`, two records of the same blocks, and the
  tables behind them, agree on every path, also if blocks go out of order or calls fail;
  and `EndedAreFreed`, no block of an ended function outlives a call from which that can
  be seen.
* `AllocaInScopeIsLive`: for one thread, `checkalloca()` frees no block too early. It
  fails for two threads.
* `LimitKept`: the limit holds after any sequence of calls that get or resize.
* `BlocksExact`: `HeldIsLive` and `NothingLost`, the library and the program agree about
  each block, both ways, through failed and repeated resizes; `MarksExact` and
  `FreedKept`, totals and queue against the nodes; and the types.
* `ErrorsExact`: `ErrorsAreDeserved` and `MisuseIsReported`, errors are reported exactly
  for the calls that the program is wrong to make. The verdict is computed from what the
  program has been told and not from the library's state.
* `CallsAreAnswered`: no call is tried for ever.

### 4.4 Proofs

All invariants of `Info` are proved, for any set of addresses, sizes, call sites and
threads, any limit and any number of kept blocks, freed ones or calls by the handler.

| theorem | module | states | if |
|---|---|---|---|
| `TypeCorrect` | `InfoProofs` | `Spec => []TypeOK` | |
| `StackIsExact` | `InfoProofs` | `Spec => []StackExact` | |
| `MarksAreExact` | `InfoProofs` | `Spec => []MarksExact` | |
| `FreedAreKept` | `InfoProofs` | `Spec => []FreedKept` | |
| `EndedBlocksGo` | `InfoProofs` | `Spec => []EndedAreFreed` | |
| `AllocaBooks` | `InfoProofs` | `Spec => []AllocaExact` | `FMAX = 0` |
| `AllocaStays` | `InfoProofs` | `Spec => []AllocaInScopeIsLive` | one thread |
| `LimitIsKept` | `InfoProofs` | `Spec => []LimitKept` | `0 \notin SIZES` |
| `BlocksAreExact` | `InfoProofs` | `Spec => []BlocksExact` | `Local`, `Proper` |
| `ErrorsAreExact` | `InfoProofs` | `Spec => []ErrorsExact` | `Local`, `Proper` |

Every hypothesis is needed. TLC finds the conclusion violated without it, and each time
the reason is an error of the code that section 8 lists:

* `FMAX = 0`: the slot of a block that is let go is lost (observation 5);
* one thread, or `Local`, that is one thread or no `alloca()`: `info_threads`. A block that
  is freed too early may be given out again, and then neither do the books agree nor is
  the error of its first owner its own;
* `0 \notin SIZES` of `LimitIsKept`: `malloc(0)` takes the total beyond the limit
  (observation 6);
* `Proper`, that a program with a low-memory handler makes no wrong calls, none of size 0
  and none of `reallocf()`: a call that has come to `NULL` is repeated, although it freed
  its block or was wrong to begin with (observation 3). In the repetition of a wrong call
  the handler may have got a block where there was none, and the call goes unreported.
  Without a handler there is no such restriction.

The argument goes by what a call does to the record `Now` that it passes along, since
`CheckAlloca` frees any number of blocks one after the other before the call itself does
something.

* `State` is the type of that record, and `Right` what its books are: the stack has the live
  `alloca` blocks, the queue the freed ones, the total is that of the marked ones.
* `Freeing(h, g, B)` says what it is to get from `h` to `g` by freeing the blocks of `B`. It
  composes (`FreeingMore`), so that `FreeAll` is freeing of all blocks of the stack it is
  given (`FreeAllEffect`), by induction over the stack. `Adding` and `Carried` say the
  same of making and of resizing a block, and `MemoryResult` that an attempt comes to one of
  these.
* `Attempted` and a lemma for each action (`AllocSteps`, `ReallocSteps`, ...) take a call
  apart into these; each property has a lemma for each action on top of them.
* `EndedInv` strengthens `EndedAreFreed` by `Clean`, which says of a record that no block of
  it is out of scope, and by what is known of calls that wait for the handler, which are
  all of one thread. `ScopedInv` has for `AllocaInScopeIsLive` that the call stack in the
  node of a block is a prefix of the stack of its thread, as long as that: a prefix is never
  shallower nor different. `LimitInv` is the limit with the exception for the handler.
* `HeldInv` of `BlocksExact` and `ErrorsExact` adds the calls that wait: each has its block
  for itself (`AloneAll`), knows it as it is, and was right to be made; every live block is
  held, on the stack, or that of one such call (`KeptIn`).

`SumProofs` has the facts about sums over finite sets that totals need. The induction
theorems of the library take the statement to be proved as an operator, which the
provers do not accept; here it is a set that the elements are to be in (`Induction`,
`SetInduction`, `Recursion`), which works for statements about the elements of a given set.

`CallsAreAnswered` rests on fairness and is model-checked only.

## 5. The parts

`MCParts` puts one part at a time to use (variable `using`). The parts share no state, so
that nothing is lost: the states of all would be those of each put together.

### 5.1 Trees, slots, lists

The run checks the three properties of this section together, as `ContainersWork`.

* `Tree` is `tree.c` with its links: parent, children and colour of every node, and the
  one sentinel that stands for all leaves and whose parent a removal borrows. The left and
  the right copy of each piece of code are one operator with the side as a parameter.
  Insertion with its rotations (`Insert`), removal (`Remove`), searches and walks.
  `TreesWork`: after any sequence of insertions and removals of nine nodes, of which two
  share each key, the tree holds what was put in, in order, balanced, with a clean
  sentinel, and the searches give what a search of a set would. Nine nodes are the fewest
  with which each case of the removal occurs on both sides.
* `Slots` is `slots.c`: how a table rounds size and alignment, cuts blocks of memory into
  slots, and chains free ones. `SlotsApart` for sizes and alignments on all sides of those
  of a link.
* `Lists` is `list.c`: two sentinels laid over each other in the head of a list. The
  variable `contents` is the sequence a caller thinks of. `ListsHold`: walks in both
  directions see that sequence, with nodes moved between two lists.

### 5.2 Operations on memory

`Memory` follows `memset()`, `memcpy()`, `memchr()`, `memcmp()` and their relatives from
`malloc.c` through `inter.c` and `__mp_setmemory()`, `__mp_copymemory()` and so on in
`info.c`, where `__mp_checkrange()` looks the range up among the nodes, down to the loops
of `memory.c`, which handle odd bytes at the ends and whole words between. Addresses wrap
at `ADDRSPACE`. `strdup()` and `strndup()` are there with `__mp_checkstring()`. The heap
is fixed while an operation runs; `SomeHeaps` has the kinds of neighbours there are:
allocated, freed, free, foreign, with overflow buffers of bytes or of pages, at either end
of a page, and the library before its start and after its end.

`MemoryIsExact` is an action property: an operation on memory that the program may use
does what the C library does and nothing is reported; one that is not all the program's
changes no byte that is not the program's, and is reported; a duplicated string is the
string. Sixteen bytes in words of two give every alignment, and ranges of 0, 5 and 6
bytes those with odd ends on either side, on both and on none.

### 5.3 Options and the command

Text is a sequence of tokens: a keyword, a number, a word, or a character that the code
looks for. `Command` reads the command line as `getopt.c` and `mpatrol.c` do, one option
at a time, builds the environment variable, and `Options` cuts and reads that variable as
`option.c` does, with every option, range and rule for options that contradict each other;
later the program may set options (`__mp_setoption()`) and ask for them.

`CommandObeys`: the library does what the command was asked to, and `getopt()` neither
drops nor makes up a word. `SettingsFit`: whatever way options were given, settings that
depend on each other fit. The command lines are all pairs of some options of each kind
with nine typical ones, and each option alone by its name; with the variable unset or
with one of three texts.

`CommandProofs` proves `SettingsAlwaysFit`, which is `Spec => []SettingsFit` for the
specification of the command and the library that it starts: every command line, every
text that the environment has, any numbers and any changes by the program. Assumed is that
a page is a power of two and at least 8 (`PageAssumption`; `__mp_roundup()` needs the
first). The fit is not there while options are being read: bounds may be out of order until
`Bounded`, the seed may be 0 until the end, and the leak table may be asked for and not
switched on. `OptionsInv` hence says what holds at each stage: `Allowed`, the values that
an option may have with the flags that there are, holds all the time; `Settled` from the
start of the program on; and as long as there is no text, or too long a one, the settings
are those at first, for which the bounds need no ordering. There is a lemma for each kind
of option (a flag, a number with a limit, a bound, a file, a pair that excludes each other)
and one for each of the five that are their own; `LettersApart` shows that the cases of
the switch exclude one another, so that each keyword is obeyed by one of them.
`PowerOfTwo` is shown to be defined for every number (`PowerIs`), to round up, to leave
what it has rounded as it is (`PowerOfPower`) and to be monotonic (`PowerRises`).

`CommandObeys` compares texts that are flattened and filtered, which would need induction
over them, and is model-checked only. So are `ContainersWork`, as `Tree` is recursive, and
`MemoryIsExact`, as the loops of `memory.c` are folds over bytes.

### 5.4 Protection of the library's own memory

`Protection` follows how the library makes its own tables writable before it changes them
and read-only afterwards.

| code | model |
|---|---|
| `prot`, `protrecur` of a table; the blocks of memory that it lives in | `guard[p].prot`, `.recur`, `.areas` |
| `__mp_heapprotect()`, `__mp_protectalloc()`, `__mp_protectaddrs()`, `__mp_protectleaktab()`, `__mp_protectprofile()`, `__mp_protectsymbols()`, `__mp_protectstrtab()` | `One`: `Turned`, or `Stuck` if `__mp_memprotect()` is refused for one of its blocks |
| `__mp_protectinfo()`, which has no count, and gives up half-way | `All` |
| the table needs memory, which `__mp_heapalloc()` gets | `Grown` |
| `memhead.recur`, `memhead.init` | `inside`, `started` |
| end of `__mp_init()` | `Protect` |
| `__mp_getmemory()`, `__mp_resizememory()`, `__mp_freememory()`, `__mp_setoption()`, `__mp_setmark()`, `__mp_setuser()`, `__mp_info()`: open all, and close if `recur` is 1; the profile may be written in between | `ChangeBlocks` |
| `__mp_addallocentry()`, `finishmarked()`, `__mp_fini()`, which close whatever `recur` is | `ChangeAndClose` |
| name and file of the caller; `checkalloca()`; the leak table's functions; the profile at the end | `AddString`, `CompareStacks`, `UseLeakTable`, `SaveProfile` |

Which blocks a table writes is not told apart, so that a call needs all of the table to be
writable. `faulted` is set when a table is written that is not, `leftOpen` when a call
from a callback has left all open, and `refusals` counts calls in which the system has
refused something.

* `WritesAllowed`: nothing is written while it is read-only, whatever the counts say.
  After a refusal they say different things: `__mp_protectinfo()` notes the request as
  done before it does the work, tables before the one refused have carried it out, those
  behind it have not, and the next request only moves the counts of the latter.
* `ClosedAgain`: until something is refused, counts come out even, and tables are
  read-only again after the outermost call that allocates, resizes or frees.

The instance has two calls within one another, tables of one block or two, which come and
grow, and one refusal to make memory read-only. Calls deeper inside do what a second one
does, which is not to close.

`ProtectionProofs` proves both for tables of any number of blocks, calls nested to any
depth and any number of refusals.

| theorem | states |
|---|---|
| `WritesAreAllowed` | `ROOMY` and `"rw" \notin REFUSED` imply `ProtectionSpec => []WritesAllowed` |
| `TablesAreClosedAgain` | `ProtectionSpec => []ClosedAgain` |

Neither is inductive. For the first, `SafeInv` says that a table whose `prot` is not
read-only can be written in all of its blocks, that only an open table has a count, and
that if the whole counts as open then so does each table: a table may stay open while the
whole counts as closed, but never the reverse. For the second, `ExactInv` says that all
tables are closed with no count, or all open with no count and a call from a callback has
left them so; a table that is opened on its own while all are open has its count put back
before anything else happens. A lemma says what a request does to one table (`OneOpened`
and its likes), one to all of them (`WholeOpened`, `WholeClosed`), and each kind of call
has one. `ROOMY` is not an idle assumption, as 18 in section 8 shows.

## 6. Records and their readers

`Records` is the program, `info.c` as far as it calls the recorders, and the ends of
`inter.c` and of a forked child. One recorder is on at a time; they see the same calls and
share nothing. `story` is the history that the reader should be told.

| code | module |
|---|---|
| calls of recorders in `__mp_getmemory()`, `__mp_resizememory()`, `__mp_freememory()`, in their order | `Allocate`, `Reallocate`, `Release` in `Records` |
| `__mp_setmark()`, `finishmarked()`, `__mp_reinit()`, `__mp_fini()` | `SetMark`, `FinishMarked`, `Fork`, `Finish` |
| `trace.c`: bytes of an event, LEB128 numbers, cache of names, reservations made before the file is open | `Trace` |
| `mptrace.c`: buffer, decoding, cache of names, table of allocations, slots of the simulation, statistics | `MpTrace`, a field of an event per step |
| `profile.c`: call sites, bins, autosave, the file | `Profile` |
| `mprof.c`, `graph.c`: direct table, leak table, graph | `MProf`, as functions of the file |
| `leaktab.c` and its display in `diag.c` | `LeakTab` |
| lines of the log in `diag.c` and `info.c`, `mleak.c` | `MLeak` |

* `StoryComesBack`: the reader sees what was written, through two caches that must replace
  names alike, a buffer smaller than an event, and a change of file. The bytes of a number
  hold two bits (`LEB` is 4), the caches two names and one reservation and the buffer six
  bytes, so that three names, a second reservation and four calls meet each limit.
* `SimulationReplays`: the program that `mptrace` writes is a legal one.
* `NothingUnsaved`: the last profile has every event, whatever `AUTOSAVE` is changed to
  and whichever events could not be recorded.
* `LeaksAreLive`, `GraphConserves`: what `mprof` derives from a profile is what is live and
  recorded: per place and call stack, by function and by address, and along the edges of
  the graph, also for recursive stacks. Any event may find no memory for its call site
  or for the data of it (`Unrecorded`): the nodes that are there by then stay in the tree,
  nothing is counted and the block is not marked. `NoneLost` excepts resizes that record
  the free and not the allocation, which is observation 12 of section 8.
* `LeakTableHolds`: the table against the blocks, and the report against the table.
* `MLeakFindsLeaks`: `mleak` finds in the log what is still allocated, when allocations
  and frees are logged, or the list at the end, whether or not reallocations are logged
  too. Which block a logged reallocation makes or frees it does not see (observation 13
  of section 8): `story.unlogged` has those, and of them nothing is said.

The widths of integers are those of C, scaled: `INTBITS` for the decoder, which shifts an
`int`. `INTBITS` is as wide as the words that are decoded in the run, which keeps it out of
observation 10 of section 8. A program makes three to five calls, which is enough for a name to be evicted and
come back, for a block to be freed at another site than it was made at, and for a bin, a
slot of the leak table and an address to be used twice.

All of this is model-checked only: what a reader makes of a file is a fold over its bytes,
events or lines, so that a proof would be an induction over data, and `MpTrace` takes bits
apart, which the provers have no operators for.

## 7. The life of the library and the tools

### 7.1 Library

A call that calls the program back is a frame in `frames`; what the program does in there
are calls within a call. All others are one step.

| code | module |
|---|---|
| `__mp_init()`, `__mp_fini()` with their loops over registered functions | `Initialise`, `CallInit`, `Finalise`, `CallFini`, `Return` |
| `__mp_atexit()` | `AtExit` |
| `savesignals()`, `restoresignals()`, `signals.c` | `Enter`, `Leave`, `Through` |
| `__mp_pushdelstack()`, `__mp_popdelstack()`, the operators that call them | `PushDelete`, `EndDelete`, `PlainDelete`, `PopDelete` |
| `__mp_iterate()`, `__mp_iterateall()` | `StartWalk`, `WalkOn`, `ReturnShown` |
| list of nodes, with the slots they live in | `list`, `chain` |
| `mergenode()`, `splitnode()` | `MergeNode`, `SplitNode` |

The walk holds a pointer to a node while the program runs, so nodes are known by their
slots, and a slot given back stays readable: its first word becomes the link of the chain
of free slots, and the walk goes on from there. This is what the code does and it is not
always harmless. `CAREFUL` is a program that keeps out of what the library cannot cope
with (its comment in the module says from what); the run `walk_allocating` is one that
relies on what the manual says instead.

* `FinishersRun`: every function registered runs once, those registered last first, also
  if one registers others while they run.
* `SignalsHeld`: outside of the library a signal does what the program wants, within a
  call nothing, though calls are nested and `SAFESIGNALS` is changed in between.
* `DeletionsTold`: a deletion that has a position is told it if the stack has a place for
  it, and none if not; one that has none is told none. Each operator `delete` pops the
  stack, also where nothing was pushed, so every deletion without a position shifts the
  places of those that follow by one. All of this is for deletions that are not mixed: of
  one without a position that is made while another with a position is under way, and of
  the latter, nothing is said (`told.mixed`); what they are told is observation 15 of
  section 8.
* `WalkMeetsAll`: a walk meets each block once.

### 7.2 Tools

`mtrace`, `mgauge` and `heapdiff` hook into one pointer to a prologue and one to an
epilogue function, keep what was there and call it. The program starts and ends them one
within the other, in any nesting. A call is a step, in which the chain is gone through in
the order of the code (`Prologues`, `Epilogues`): there are three at most in each. Blocks of
`alloca()` that are out of scope are freed within a call one after the other, the newest
first, each with the whole chain around it (`FreeAllEnded`). Blocks have contents, the files in which
contents are kept are there, and `NOFREE`, which nested heapdiffs set and put back.

* `TraceTells`: a reader of the file of `mtrace` knows what is allocated.
* `DiffsAreTrue`: what is reported as changed, freed and unfreed has been.
* `FilesBelong`: there is a contents file for each block that needs one, no other, and
  none at the end.
* `GaugeIsCurrent`: the gauge shows what is allocated.

### 7.3 Run

`library` takes seven kinds of program, each of which uses one part of the interface, with
up to six calls or steps, two heapdiffs at a time, a table of three functions at exit and
a stack of two deletions, so that both overflow. Addresses are alike (symmetry). The runs
of this section and of sections 5 and 6 switch `CHECK_DEADLOCK` off, as programs end.

### 7.4 Proofs

`LibraryProofs` proves seven of the eight properties of `library`, three of `Library` and
the four of `Tools`: for tables of any size, any heap and calls nested to any depth, and for
any number of blocks, heapdiffs and steps. The assumptions are `LibraryAssumption`, that both
tables have room for something, for the third theorem `CAREFUL`, and `ToolsAssumption`:
contents are not empty, as the library makes no block of size 0, addresses are neither
`NULL` nor `(void *) -1`, and memory is finite and ends before `~0` blocks are in it.

| theorem | states |
|---|---|
| `SignalsAreHeld` | `LibrarySpec => []SignalsHeld` |
| `DeletionsAreTold` | `LibrarySpec => []DeletionsTold` |
| `FinishersDoRun` | `CAREFUL` implies `LibrarySpec => []FinishersRun` |
| `TraceAlwaysTells` | `ToolsSpec => []TraceTells` |
| `DiffsAlwaysTrue` | `ToolsSpec => []DiffsAreTrue` |
| `FilesAlwaysBelong` | `ToolsSpec => []FilesBelong` |
| `GaugeStaysCurrent` | `ToolsSpec => []GaugeIsCurrent` |

None of the first three is inductive. `IInv` has a part for each, over a common one:

* `LifeInv`: `recur` counts the frames, which are of calls that return; the start and
  the end of the library are at the bottom and only walks above them. Leaving the
  outermost call is what makes `recur` zero, which is when handlers are put back.
* `SignalInv`: while handlers are saved, they are what the program wants, and what is in
  force is `SIG_IGN`; they are saved only inside a call. `SAFESIGNALS` does not occur in
  it: `savesignals()` and `restoresignals()` go by `saved` alone, and the proof shows that
  it does no harm to change the option in between.
* `EndInv`: what waits in the table was registered later than its neighbour below
  (`FinisInv`), is apart from what has run, and if it has been overtaken by something
  registered before it, then it was registered after that had run (`RanInv`). So far
  any program is covered; that none is missing at the end (`AllRunInv`) needs that the
  functions called do not overfill the table, which is the part of `CAREFUL` used.
* `DeleteInv`: the top of the stack has been moved down by one place for every deletion
  without a position, and so has the place of each deletion under way that none of these
  has come within (`Placed`).

Each action has a lemma for the parts it can disturb, and `NextIInv` puts them together.
What a frame holds besides its kind depends on the call, so the frames are a sequence over
some set (`\E S : F \in Seq(S)`), which is all that pushing and popping needs.
`WalkMeetsAll` is model-checked only: it is about a recursive view of the list.

For the tools the invariant is `ToolsInv`: before the end of the program `CallInv`, after it
that the trace is off and no file is left (`Closed`). `CallInv` says of the four what each
needs of the others.

* `BlocksRight`: blocks, kept ones too, are at addresses of their own, allocated ones have
  numbers of their own, and no number is used twice. So what the trace and the files go by,
  addresses and numbers, tells blocks apart.
* `DiffRight`, of each heapdiff under way: what has been freed since it was started is
  kept with a later event, if it lists what is freed, and an allocated block has a later
  event if and only if it was allocated or resized since.
* `QueueRight`: while a heapdiff that lists what is freed is under way, `NOFREE` is `~0`, and
  every heapdiff within it puts back `~0`. That is why ending an inner one recycles nothing
  that an outer one has still to report. `FewKept` shows that `~0` is never reached.
* `FilesRight`: a file is of a heapdiff under way and of a block that it saw and that is
  still there, or of a block that was resized to nothing, and no such file is missing.
  Within a call this holds but for the block about to be freed, whose files have gone
  with the prologue: that is the last parameter of `FilesRight`.
* `ProChain`, `EpiChain`: which tool is called for which, in each of the orders in which the
  tools can have hooked into the two pointers.
* `Nested`: this order is that of the tools in `nesting`, so that a tool that ends puts
  back the one it found. The heapdiffs share one hook, taken by the first with contents
  and left with the last, so the order is relative to the first of them: `Nested` has a
  function from heapdiffs to places in `nesting`, which starting and ending a tool extends
  and shortens (`NestedDiffStarts`, `NestedDiffEnds` and the like).
* `AtExitInv`: what has to be called at the end has been registered.

A call is a prologue, the freeing of blocks out of scope, a change of the blocks, and an
epilogue. `PrologueIs` and `EpilogueIs` say what the two chains do whichever tools are in
them, `FreeEndedRight` that freeing one block of `alloca()` keeps all parts,
`FreeAllEndedRight` that freeing all does, by induction over their number, and `BeginRight`
and `OperationKeeps` put them around what an operation does, which is the subject of
`FreeFinished`, `NewFinished` and `ResizeFinished`. A trace is told of a call by
the pointer and the size of the prologue, if no freed block of `alloca()` has come in
between: that is `within`, and `TellsPut` has the lines that are written. `EndDiffTells` goes
from the files to what has changed, and `ExitCloses` from `FilesRight` to no files.

## 8. Findings

Two have a run in which TLC shows them.

* `info_threads`. There is one `alloca` stack for all threads, and `checkalloca()`
  (`inter.c:339`) compares it with the call stack of the thread that calls: a block that
  a running function of another thread has by `alloca()` is freed.
  `doc/mpatrol.texi:2087-2089` says the block is freed after its function has returned.
* `walk_allocating`. `__mp_iterate()` reads the link of a node before it calls the
  function and follows it afterwards (`inter.c:2036`). A block freed by the function may
  merge with that node, a free one, and the walk goes on from a free slot, or from one that
  is in use elsewhere. `doc/mpatrol.texi:3101-3104` says that allocating and freeing in the
  function is perfectly safe.

Others were seen while modelling. They have no run of their own, and the instances of the
passing runs keep out of their way where that is said above.

Allocation:

1. `__mp_getalloc()` looks for `l + b + m` bytes, `m` being what alignment may cost, but
   asks the heap manager for `l + b` rounded up to pages (`alloc.c:361`). If the slack of
   the last page is less than the shift, `n->size - s` wraps around in `splitnode()` and
   the block reaches beyond the memory obtained (`BlocksInHeap` in `Alloc` states it). The
   comment at `alloc.c:340-342` says that bytes must be added for alignment.
2. With a block at the start of its pages that shrinks by whole pages, the last pages of
   the free memory behind it are protected and not the ones it gave up, the first of which
   are its new overflow buffer (`alloc.c:536`: `p->block` has moved by then).
   `OverflowProtected` fails; `doc/mpatrol.texi:2279-2283`.
3. `__mp_realloc()` takes the `NULL` of `realloc(p, 0)` for a failure
   (`inter.c:1192-1198`): the low-memory handler is called, and `p`, freed by then, is
   reported as unknown by the second attempt. So is the block of a `reallocf()` that fails.
4. `l + b + m` wraps around for sizes near the largest (`alloc.c:350`), and a small free
   node is taken for a huge request, where `doc/mpatrol.texi:8655-8657` promises `NULL`.
   `EnoughSpace` in `Alloc` fails with a size near `WORD`.
5. `__mp_recyclefreed()` (`alloc.c:682`) drops a freed block without giving back the slots
   of its information node, so that these grow without bound while `NOFREE` is on, whatever
   its limit (`doc/mpatrol.texi:6927-6929`). `SlotsExact` fails with `FMAX` above 0.
6. `info.c:389` adds the size asked for to the total, and a request for 0 bytes is made
   one for 1 byte later: at the limit it exceeds it by one (`doc/mpatrol.texi:9926-9927`).
7. A block made by `alloca()` outlives its function at calls from deeper functions, or from
   the same chain of calls; the comment at `inter.c:327-334` admits it.

Memory and options:

8. `strndup()` with the largest limit makes the check of the range wrap (`info.c:1345`,
   `info.c:1296`; `doc/mpatrol.texi:8749-8752`). `memccpy()` has its full length checked,
   though it may stop before.
9. `--page-alloc-lower` does not take back a `PAGEALLOC=UPPER` from the environment
   (`option.c:872-884`); `EnvironmentIsOverridden` in `Command` states what
   `doc/mpatrol.texi:10471` says. A quoted value that begins with a blank is rejected,
   `--option=` with nothing behind it takes the next word, and `CHECK=-0` checks always.

Records:

10. The decoder shifts an `int` (`utils.c:219`): of a number of more than 32 bits, as
    addresses of 64-bit machines are, the upper part is lost or undefined. The run does
    not show it, as its `INTBITS` is as wide as its words; with 4 bits `StoryComesBack`
    fails.
11. A child writes the profile that it inherited, if there was anything to save, to the
    parent's file (`inter.c:582-583`), and what was still in the buffer of the parent's
    tracing file at the fork is written by both processes.
12. When a resized block cannot be charged to its new call site (`info.c:730`), it stays
    marked as profiled and its free is counted against a site it was never added to.
    `LeaksAreLive` and `GraphConserves` fail without `NoneLost`.
13. `mleak` does not see reallocations that are logged (`diag.c:1402`, `mleak.c:225`;
    `doc/mpatrol.texi:5666-5672`): it knows only the lines of allocations and frees.
    `MLeakFindsLeaks` fails without `story.unlogged`. `--max-stack 0`, no limit by
    `doc/mpatrol.texi:3888`, shows no line at all (`mleak.c:365`).

Life and tools:

14. When the table of functions to run at exit is full as one returns, `NULL` is stored
    behind its end, where `finicount` is, and the rest never run
    (`doc/mpatrol.texi:9266-9268`).
15. The delete stack is changed without the lock (`inter.c:2442`): threads mix up their
    positions. Where `MP_NONEWDELETE` leaves plain `delete` to the program
    (`mpatrol.h:1143-1146`), one in a destructor that `MP_DELETE` runs pops the position of
    that `MP_DELETE` (`inter.c:2457`), which is then told none, or that of the one around
    it; `doc/mpatrol.texi:6339-6344` has the two combined. `DeletionsTold` fails without
    `mixed`. `__mp_iterateall()` shows nodes that a function which uses the heap may
    merge away.
16. A block of `alloca()` that is freed within another call overwrites the one pointer and
    size that `mtrace` keeps (`TraceTellsAll`; comment at `mtrace.c:66-69`). It takes the
    size of every copy of a string from the original, so that the block of a `strndup()`
    that cuts the string short is traced as too large (`mtrace.c:154-161`): `Tools` has
    `strdup()` alone.
17. The contents files of a block that is resized to nothing are never deleted, as
    `realloc(p, 0)` is no free to the prologue function (`FilesDeleted`;
    `doc/mpatrol.texi:3497-3498`). Heapdiffs that are not nested put `NOFREE` back in the
    wrong order and may close the chain of prologue functions to a circle.

Protection:

18. `checkalloca()` and the functions that look up a source line open the table of
    addresses or of strings alone (`inter.c:315`, `inter.c:896`). When that table is full,
    it asks `__mp_heapalloc()` for memory (`addr.c:106`, `strtab.c:142`), which writes the
    table of the heap manager while it is read-only. With `ROOMY = FALSE`, `WritesAllowed`
    fails after three steps.
19. An allocation in a callback, such as a function that `__mp_iterate()` calls, opens all
    tables and does not close them, as `recur` is 2, and neither does the call around it:
    they stay writable until the next outermost call that allocates, resizes or frees,
    where `doc/mpatrol.texi:10010-10011` has them made read-only after every one. Without
    `leftOpen`, `ClosedAgain` fails.
20. No caller looks at what the protection functions return. If the system refuses to make
    memory writable, the next write is a fault (`"rw"` in `REFUSED`); if it refuses to make
    it read-only half-way, counts differ until the end (`info.c:1097-1109`).

## 9. Conventions

An operator whose name starts with `Bug_` is no part of a model. It is a definition with a
likely mistake in it, such as a guard left out, a boundary off by one or a step forgotten,
placed before the definition it is a variant of; with it in place of that definition a
property fails in the run that checks the property. `PROJECT.json` pairs them under
"mutants": for each property of each run there is at least one mistake that it detects.

Where several related facts are stated, a run checks their conjunction under a name of its
own (`HeapInOrder`, `BlocksExact` and so on); the parts are definitions too, each with a
comment on what it says.

To repeat a run: `tlc -config alloc_bytes.cfg MCAlloc`; a proof: `tlapm HeapProofs.tla`.

What is proved is in sections 2.3, 3.4, 4.4, 5.3, 5.4 and 7.4; everything else is model-checked on the
instances given. `RecMutex`, `RecLock`, `Alloc` and `BlockStore` reach no recursive
operator. `Info` has functions defined by recursion in place of recursive operators.
`MpTrace` uses bitwise operators, `Tree` recursive ones: these stay with TLC.

## 10. Not modelled

* The deletion of the library's own memory: `__mp_deleteallocs()`,
  `__mp_deleteheap()`, `__mp_finimutexes()` run when nothing else does any more.
* How memory is obtained, `sbrk()` or `mmap()`, and other systems than POSIX ones: a
  nondeterministic choice of pages. The handler of memory faults, which ends the program.
* Reading of object files and walking of call stacks (`symbol.c`, `stack.c`,
  `machine.c`, `strtab.c`): machine and file formats. Symbols and stacks are given.
* Messages, HTML and layout (`diag.c`, `graph.c` as far as it draws), and the window of
  `mptrace`. Queries that print; the editor that is started at a message.
* What threads do before the start and after the end of the library: `memhead.init` and
  `memhead.fini` are read without the lock (`inter.c:1243`).
* `strndup()` under a trace of calls (observation 16), and deletions of two threads at
  once (observation 15).
* `mpalloc.c`, a substitute that only wraps the C library; `dmalloc.c` and `dbmalloc.c`,
  other interfaces in calls of this one; functions for the Checker compiler.
