------------------------------- MODULE Records -------------------------------
(***************************************************************************)
(* The life of the blocks as the recorders see it: which of them           *)
(* __mp_getmemory(), __mp_resizememory() and __mp_freememory()             *)
(* (src/info.c) call, in which order, and what __mp_setmark(),             *)
(* __mp_reinit() and __mp_fini() (src/inter.c) do to what is recorded.     *)
(* One recorder is on at a time; `story' is the history it should tell.    *)
(***************************************************************************)
EXTENDS MpTrace, MProf, LeakTab, MLeak

CONSTANTS
  Recorders,   \* the recorders that may be on
  PlacesOf,    \* for each of them the places that call the library
  FreersOf,    \* and those that free or resize
  Sizes,       \* sizes that are asked for
  Reserved,    \* sizes of reservations from the system
  Autosaves,   \* values of AUTOSAVE
  LogOptions,  \* combinations of the log options
  MaxCalls,    \* for each recorder, calls that a program makes
  MaxReserves, \* reservations
  NoPlace      \* the place of a call made by the library itself

VARIABLES
  using,    \* the recorder that is on
  blocks,   \* the blocks that are allocated, by index
  index,    \* memhead.count
  story,    \* what the recorder was told
  phase     \* "running", "ended", "read"

recVars == <<using, blocks, index, story, phase>>
recorderVars == <<traceVars, readVars, profVars, leaks, log>>
vars == <<recVars, recorderVars>>

Story0 == [calls |-> 0, rows |-> <<>>, reserves |-> 0, kept |-> 0,
           told |-> TRUE, child |-> FALSE, lost |-> FALSE, unlogged |-> {},
           inherited |-> [b \in 1 .. BINS |-> 0]]

Init ==
  /\ using \in Recorders
  /\ blocks = <<>> /\ index = 0 /\ phase = "running" /\ story = Story0
  /\ TraceInit(using = "trace", "parent")
  /\ ReaderInit
  /\ \E every \in IF using = "profile" THEN Autosaves ELSE {0} :
       ProfileInit(using = "profile", every, "parent")
  /\ LeakInit(using = "leaks")
  /\ \E o \in IF using = "log" THEN LogOptions
              ELSE {[allocs |-> FALSE, reallocs |-> FALSE, frees |-> FALSE,
                     unfreed |-> FALSE]} : LogInit(o)

Running == phase = "running" /\ story.calls < MaxCalls[using]
Places == PlacesOf[using]
FreeAddress == CHOOSE a \in 1 .. MaxCalls[using] + 1 :
  /\ \A n \in DOMAIN blocks : blocks[n].addr # a
  /\ \A b \in 1 .. a - 1 : \E n \in DOMAIN blocks : blocks[n].addr = b

(* leaktabentry(): the source line if it is known, else the function *)
Location(p) ==
  IF p.file # NoName /\ p.line # 0 THEN [name |-> p.file, line |-> p.line]
  ELSE IF p.func # NoName THEN [name |-> p.func, line |-> 0]
  ELSE IF p.stack # <<>> /\ SymbolOf[p.stack[1]] # NoSymbol
  THEN [name |-> SymbolOf[p.stack[1]], line |-> 0]
  ELSE [name |-> NoName, line |-> IF p.stack = <<>> THEN 0 ELSE p.stack[1]]

Traced(bs) == {n \in DOMAIN bs : bs[n].traced}
SizeOf(bs, S) == MapThenSumSet(LAMBDA n : bs[n].size, S)
(* the row that the tracing table should show when bs are allocated *)
Expected(kind, n, b, p, bs) ==
  [kind |-> kind, index |-> n, addr |-> b.addr, size |-> b.size,
   count |-> Cardinality(Traced(bs)), bytes |-> SizeOf(bs, Traced(bs)),
   thread |-> p.thread, func |-> p.func, file |-> p.file, line |-> p.line]
ToldWith(row, lost, unlogged) ==
  story' = [story EXCEPT !.calls = @ + 1, !.rows = @ \o row,
                         !.lost = @ \/ lost, !.unlogged = @ \cup unlogged]
Told(row) == ToldWith(row, FALSE, {})
TraceWrites(n, b, p, Writer(_, _, _, _, _, _, _)) ==
  Writer(n, b.addr, b.size, p.thread, p.func, p.file, p.line)

(* What a mistake in this code would look like *)
Bug_KnownToProfile(recorded) == using = "profile"
(* A block is marked as profiled if the profile has recorded it.           *)
KnownToProfile(recorded) == using = "profile" /\ recorded
(* Which block a realloc() that is logged as such makes or frees is not in *)
(* the log.                                                                *)
Unlogged(n, asRealloc) == IF asRealloc /\ log.options.reallocs THEN {n} ELSE {}

(* __mp_getmemory() once it has a block *)
Allocate(p, l, asRealloc, recorded) ==
  LET n == index + 1
      b == [addr |-> FreeAddress, size |-> l, first |-> l, at |-> p,
            traced |-> using = "trace", profiled |-> KnownToProfile(recorded),
            marked |-> FALSE]
  IN  /\ Running
      /\ index' = n /\ blocks' = (n :> b) @@ blocks
      /\ ToldWith(IF b.traced THEN <<Expected("A", n, b, p, blocks')>> ELSE <<>>,
                  FALSE, Unlogged(n, asRealloc))
      /\ CASE using = "leaks" -> LeakAlloc(Location(p), l)
                                 /\ UNCHANGED <<traceVars, profVars, log>>
           [] using = "profile" -> ProfileAlloc(l, p.stack, recorded)
                                   /\ UNCHANGED <<traceVars, leaks, log>>
           [] using = "trace" -> TraceWrites(n, b, p, TraceAlloc)
                                 /\ UNCHANGED <<profVars, leaks, log>>
           [] using = "log" ->
                /\ IF asRealloc THEN LogReallocAsAlloc(n, l, b.addr)
                   ELSE LogAlloc(n, l, b.addr)
                /\ UNCHANGED <<traceVars, profVars, leaks>>
      /\ UNCHANGED <<using, phase, readVars>>
(* An allocation that fails leaves nothing but its lines in the log *)
AllocateFails(l) ==
  /\ Running /\ using = "log"
  /\ index' = index + 1 /\ Told(<<>>) /\ LogAlloc(index + 1, l, 0)
  /\ UNCHANGED <<using, blocks, phase, readVars, traceVars, profVars, leaks>>

(* __mp_resizememory() of a block, in place or elsewhere: nothing is traced *)
(* when the size stays the same, everything else is told as a block that   *)
(* is freed and allocated.  Whether the profile has recorded the second    *)
(* half is not looked at.                                                  *)
Reallocate(n, p, l, moves, recorded) ==
  LET o == blocks[n]
      b == [o EXCEPT !.addr = IF moves THEN FreeAddress ELSE @, !.size = l,
                     !.at = p]
      traces == o.traced /\ (moves \/ l # o.size)
  IN  /\ Running /\ (recorded \/ o.profiled)
      /\ moves => l # o.size
      /\ blocks' = [blocks EXCEPT ![n] = b]
      /\ ToldWith(IF traces THEN <<Expected("R", n, b, p, blocks')>> ELSE <<>>,
                  ~recorded, {})
      /\ IF using = "leaks" THEN LeakMove(Location(o.at), o.size, Location(p), l)
         ELSE UNCHANGED leaks
      /\ IF o.profiled THEN ProfileMove(o.size, o.at.stack, l, p.stack, recorded)
         ELSE UNCHANGED profVars
      /\ IF traces THEN TraceWrites(n, b, p, TraceRealloc)
         ELSE UNCHANGED traceVars
      /\ LogRealloc(o.addr, l)
      /\ UNCHANGED <<using, index, phase, readVars>>

(* __mp_freememory() *)
Release(n, p, asRealloc) ==
  LET o == blocks[n]
      bs == [i \in DOMAIN blocks \ {n} |-> blocks[i]]
  IN  /\ Running /\ ~o.marked
      /\ blocks' = bs
      /\ ToldWith(IF o.traced THEN <<Expected("F", n, o, p, bs)>> ELSE <<>>,
                  FALSE, Unlogged(n, asRealloc))
      /\ IF using = "leaks" THEN LeakFree(Location(o.at), o.size)
         ELSE UNCHANGED leaks
      /\ IF o.profiled THEN ProfileFree(o.size, o.at.stack)
         ELSE UNCHANGED profVars
      /\ IF o.traced THEN TraceFree(n, p.thread, p.func, p.file, p.line)
         ELSE UNCHANGED traceVars
      /\ IF asRealloc THEN LogReallocAsFree(o.addr, n) ELSE LogFree(o.addr, n)
      /\ UNCHANGED <<using, index, phase, readVars>>
(* The block is left alone when it is marked: the lines in the log are not *)
(* followed by its details.                                                *)
ReleaseFails(n) ==
  /\ Running /\ using = "log" /\ blocks[n].marked
  /\ LogFree(blocks[n].addr, 0) /\ Told(<<>>)
  /\ UNCHANGED <<using, blocks, index, phase, readVars, traceVars, profVars, leaks>>

(* __mp_setmark() *)
SetMark(n) ==
  /\ Running /\ ~blocks[n].marked
  /\ blocks' = [blocks EXCEPT ![n].marked = TRUE]
  /\ story' = [story EXCEPT !.calls = @ + 1]
  /\ UNCHANGED <<using, index, phase, recorderVars>>

(* __mp_heapalloc() *)
(* what finds no room in the cache before the file is open is not kept *)
Reserve(l, internal) ==
  /\ Running /\ using = "trace" /\ story.reserves < MaxReserves
  /\ TraceHeap(0, l, internal)
  /\ story' = [story EXCEPT !.calls = @ + 1, !.reserves = @ + 1,
                 !.kept = @ + (IF head.ready \/ Len(pending) < RESCACHE THEN 1 ELSE 0)]
  /\ UNCHANGED <<using, blocks, index, phase, readVars, profVars, leaks, log>>

(* __mp_setoption() *)
ChangeAutosave(v) ==
  /\ Running /\ using = "profile" /\ v # prof.autosave
  /\ SetAutosave(v)
  /\ story' = [story EXCEPT !.calls = @ + 1]
  /\ UNCHANGED <<using, blocks, index, phase, readVars, traceVars, leaks, log>>

(* The functions that let a program use the leak table itself *)
UseLeakTable(loc, l) ==
  /\ Running /\ using = "leaks"
  /\ \/ AddAllocEntry(loc, l) \/ AddFreeEntry(loc, l)
     \/ ClearLeakTable \/ StartLeakTable \/ StopLeakTable
  /\ story' = [story EXCEPT !.calls = @ + 1, !.told = FALSE]
  /\ UNCHANGED <<using, blocks, index, phase, readVars, traceVars, profVars, log>>

Events(p) == [b \in 1 .. BINS |-> p.acounts[b] + p.dcounts[b]]
(* __mp_reinit() in a new process, which goes on with files of its own: a  *)
(* profile of what happened before is written first, and the blocks of the *)
(* parent process are no longer traced.                                    *)
Fork ==
  /\ Running /\ ~story.child /\ using \in {"trace", "profile"}
  /\ blocks' = [n \in DOMAIN blocks |-> [blocks[n] EXCEPT !.traced = FALSE]]
  /\ story' = [story EXCEPT !.calls = @ + 1, !.rows = <<>>,
                            !.inherited = Events(prof), !.kept = Len(pending), !.child = TRUE]
  /\ LogSplit
  /\ prof' = [prof EXCEPT !.autocount = 0, !.file = "child"]
  /\ saved' = IF prof.autocount > 0
              THEN [saved EXCEPT ![prof.file] = FileOf(prof)] ELSE saved
  /\ ChangeTrace("child")
  /\ UNCHANGED <<using, index, phase, readVars, leaks>>

(* finishmarked(): a marked block is freed for the recorders that know it, *)
(* in the order of the addresses.                                          *)
ToFinish == {n \in DOMAIN blocks :
               blocks[n].marked /\ (blocks[n].profiled \/ blocks[n].traced)}
FinishMarked(n) ==
  /\ phase = "running" /\ n \in ToFinish
  /\ \A i \in ToFinish : blocks[n].addr <= blocks[i].addr
  /\ LET bs == [blocks EXCEPT ![n].traced = FALSE, ![n].profiled = FALSE]
     IN  /\ blocks' = bs
         /\ story' = [story EXCEPT !.calls = MaxCalls[using],
              !.rows = @ \o IF blocks[n].traced
                            THEN <<Expected("F", n, blocks[n], NoPlace, bs)>>
                            ELSE <<>>]
  /\ IF blocks[n].profiled THEN ProfileFree(blocks[n].size, blocks[n].at.stack)
     ELSE UNCHANGED profVars
  /\ IF blocks[n].traced THEN TraceFree(n, 0, NoName, NoName, 0)
     ELSE UNCHANGED traceVars
  /\ UNCHANGED <<using, index, phase, readVars, leaks, log>>

Unmarked == {n \in DOMAIN blocks : ~blocks[n].marked}
ByAddress(S) == SetToSortSeq(S, LAMBDA m, n : blocks[m].addr < blocks[n].addr)
ListOf(s) == [i \in DOMAIN s |-> Entry(s[i], blocks[s[i]].addr, blocks[s[i]].size)]
(* the rest of __mp_fini() *)
Finish ==
  /\ phase = "running"
  /\ ToFinish = {}
  /\ phase' = "ended"
  /\ LogUnfreed(ListOf(ByAddress(Unmarked)))
  /\ EndTrace
  /\ IF prof.autocount > 0 THEN WriteProfile ELSE UNCHANGED profVars
  /\ UNCHANGED <<using, blocks, index, story, readVars, leaks>>

TraceFile == IF story.child THEN "child" ELSE "parent"
ReadTrace ==
  /\ phase = "ended" /\ using = "trace" /\ disk[TraceFile] # <<>>
  /\ OpenFile(disk[TraceFile]) /\ phase' = "read"
  /\ UNCHANGED <<using, blocks, index, story, traceVars, profVars, leaks, log>>
ReadStep == phase = "read" /\ ReadFile
            /\ UNCHANGED <<recVars, traceVars, profVars, leaks, log>>

Next ==
  \/ \E p \in Places, l \in Sizes, r \in {TRUE, using # "profile"} :
       Allocate(p, l, FALSE, r)
  \/ \E p \in FreersOf[using], n \in DOMAIN blocks :
       \/ \E l \in Sizes, m \in BOOLEAN, r \in {TRUE, using # "profile"} :
            Reallocate(n, p, l, m, r)
       \/ Release(n, p, FALSE)
  \/ /\ using = "log"
     /\ \E p \in Places : \/ \E l \in Sizes : Allocate(p, l, TRUE, TRUE)
                          \/ \E n \in DOMAIN blocks : Release(n, p, TRUE)
  \/ \E l \in Sizes : AllocateFails(l)
  \/ \E n \in DOMAIN blocks : SetMark(n) \/ ReleaseFails(n) \/ FinishMarked(n)
  \/ \E l \in Reserved, i \in BOOLEAN : Reserve(l, i)
  \/ \E v \in Autosaves : ChangeAutosave(v)
  \/ \E p \in FreersOf[using], l \in Sizes : UseLeakTable(Location(p), l)
  \/ Fork \/ Finish \/ ReadTrace \/ ReadStep

Spec == Init /\ [][Next]_vars

-----------------------------------------------------------------------------
(* What the recorders promise *)

Recorded(u) == using = u /\ phase # "running"

(* A tracing file that was written through the caches of names and of      *)
(* reservations, and through a change of file in a new process, is read    *)
(* back through a buffer that is smaller than an event as exactly the      *)
(* events that took place: the same rows with the same running totals, no  *)
(* complaint, no digit read past the end of the buffer.                    *)
StoryComesBack ==
  phase = "read" =>
    /\ rd.state # "failed" /\ rd.errors = <<>> /\ ~rd.overrun
    /\ IsPrefix(rd.rows, story.rows)
    /\ rd.state = "done" =>
         /\ rd.rows = story.rows
         /\ rd.stats.rcount + rd.stats.icount = story.kept
         /\ rd.stats.pcount = Max({0} \cup {r.count : r \in Range(story.rows)})
         /\ rd.stats.ptotal = Max({0} \cup {r.bytes : r \in Range(story.rows)})

(* The simulation that mptrace writes uses a slot for one block at a time, *)
(* frees or resizes only what is in a slot, and declares enough of them.   *)
SimulationReplays ==
  phase = "read" =>
    LET S == rd.sim
        InUse[i \in 0 .. Len(S)] ==
          IF i = 0 THEN {}
          ELSE IF S[i].size = 0 THEN InUse[i - 1] \ {S[i].slot}
          ELSE InUse[i - 1] \cup {S[i].slot}
    IN  \A i \in DOMAIN S :
          /\ S[i].slot \in 1 .. rd.maxslots
          /\ (S[i].size = 0 \/ S[i].resize) <=> S[i].slot \in InUse[i - 1]

(* The blocks that a profile knows to be live *)
Live == {n \in DOMAIN blocks : blocks[n].profiled}
StackOf(n) == blocks[n].at.stack
Profiled == Recorded("profile") /\ saved[prof.file].written
Report == saved[prof.file]
Cut(s, k) == IF k = 0 \/ Len(s) < k THEN s ELSE SubSeq(s, 1, k)
PlaceOf(a, useaddresses) ==
  IF useaddresses \/ SymbolOf[a] = NoSymbol THEN <<"addr", a>>
  ELSE <<"symbol", SymbolOf[a]>>
PlacesIn(stack, useaddresses) ==
  [i \in DOMAIN stack |-> PlaceOf(stack[i], useaddresses)]

(* What a profile holds of the events: nodes of call sites that have none  *)
(* may be new since.                                                       *)
Contents(f) ==
  [f EXCEPT !.written = TRUE, !.addrs = <<>>, !.strings = <<>>,
     !.nodes = {[index |-> i.index, parent |-> i.parent, addr |-> i.addr,
                 data |-> i.data] : i \in {n \in Range(f.nodes) : n.data # 0}}]

(* The profile that is left when the program ends holds every event that   *)
(* this process recorded, whatever the autosave interval was set to,       *)
(* whenever a new process was started and whichever call sites were not    *)
(* got.                                                                    *)
NothingUnsaved ==
  Recorded("profile") /\ Events(prof) # story.inherited =>
    /\ saved[prof.file].written
    /\ Contents(saved[prof.file]) = Contents(FileOf(prof))

(* As long as no resize has lost the second of its two events.             *)
NoneLost == ~story.lost

(* The leak table of mprof is the table of the blocks that are live and    *)
(* recorded: with call sites or functions, to any depth of call stack, by  *)
(* number or by size, each group of blocks with a common stack has one     *)
(* line, with their number and their bytes.  Blocks whose call site or its *)
(* data could not be got are in no table.  The direct table adds up to the *)
(* same bytes, and the totals over all bins are those of all these blocks, *)
(* the ones with no call stack included.  Every site is shown under its    *)
(* own name.                                                               *)
LeaksAreLive ==
  Profiled /\ NoneLost =>
    /\ \A k \in DOMAIN Report.nodes :
         /\ NameOf(Report, Report.nodes[k]) = SymbolOf[Report.nodes[k].addr]
         /\ Report.nodes[k].symbol # 0 =>
              Report.addrs[Report.nodes[k].symbol] = SymbolOf[Report.nodes[k].addr]
    /\ AllCount(Report) = Cardinality(Live)
    /\ AllBytes(Report) = SizeOf(blocks, Live)
    /\ \A useaddresses \in BOOLEAN :
         MapThenSumSet(LAMBDA e : Unfreed(e.data).bytes,
                       DirectTable(Report, useaddresses)) =
           SizeOf(blocks, {n \in Live : StackOf(n) # <<>>})
    /\ \A useaddresses \in BOOLEAN : \A depth \in 0 .. 2 :
         LET KeyOf(s) == PlacesIn(Cut(s, depth), useaddresses)
             Of(k) == {n \in Live : StackOf(n) # <<>> /\ KeyOf(StackOf(n)) = k}
             StackAt(n) == [i \in DOMAIN Callers(Report, n) |->
                              Callers(Report, n)[i].addr]
             Table == LeakTable(Report, useaddresses, depth, useaddresses)
         IN  /\ {[key |-> KeyOf(StackAt(e.node)), left |-> e.left] : e \in Table} =
                {[key |-> k, left |-> [count |-> Cardinality(Of(k)),
                                       bytes |-> SizeOf(blocks, Of(k))]] :
                   k \in {KeyOf(StackOf(n)) : n \in {m \in Live : StackOf(m) # <<>>}}}
             /\ \A d, e \in Table :
                  KeyOf(StackAt(d.node)) = KeyOf(StackAt(e.node)) => d = e

(* The graph of mprof: what leaves START and what reaches ALLOC are all    *)
(* the live blocks with a call stack, and no edge carries a block twice: a *)
(* block counts on an edge only if its stack passes there, on all such     *)
(* edges that are no part of a cycle.                                      *)
GraphConserves ==
  Profiled /\ NoneLost =>
    \A useaddresses \in BOOLEAN :
      LET G == BuildGraph(Report, useaddresses)
          Seen == {n \in Live : StackOf(n) # <<>>}
          Path(n) == PlacesIn(StackOf(n), useaddresses)
          End(v) == IF v[1] = "symbol" THEN <<"symbol", Report.addrs[v[2]]>> ELSE v
          Passes(n, e) == \E i \in 1 .. Len(Path(n)) - 1 :
                             Path(n)[i] = End(e.to) /\ Path(n)[i + 1] = End(e.from)
          On(e) == {n \in Seen : Passes(n, e)}
          Sum(S) == MapThenSumSet(LAMBDA e : e.bytes, S)
      IN  /\ Sum({e \in G : e.from = START}) = SizeOf(blocks, Seen)
          /\ Sum({e \in G : e.to = ALLOC}) = SizeOf(blocks, Seen)
          /\ \A e \in {x \in G : x.from # START /\ x.to # ALLOC} :
               /\ e.bytes <= SizeOf(blocks, On(e))
               /\ ~e.cycle => e.count = Cardinality(On(e))

(* While nothing but the library uses the leak table, what is unfreed for  *)
(* a location is what the live blocks of that location are.                *)
LeakTableExact ==
  using = "leaks" /\ story.told =>
    LET Here(loc) == {n \in DOMAIN blocks : Location(blocks[n].at) = loc}
        All == Range(Entries(leaks))
    IN  /\ \A e \in All :
             /\ e.acount - e.dcount = Cardinality(Here(e.loc))
             /\ e.atotal - e.dtotal = SizeOf(blocks, Here(e.loc))
        /\ \A n \in DOMAIN blocks : \E e \in All : e.loc = Location(blocks[n].at)
        /\ leaks.size = Cardinality({e.loc : e \in All})

(* A display of the leak table that is limited to l entries leaves out     *)
(* only what ranks below all that it shows, even after the program has     *)
(* started, stopped, cleared or edited the table; nothing is ever freed    *)
(* more often than it was allocated.                                       *)
ReportRanks ==
  using = "leaks" =>
    /\ \A e \in Range(Entries(leaks)) : e.dcount <= e.acount /\ e.dtotal <= e.atotal
    /\ \A l \in 1 .. 2, o \in {"allocated", "freed", "unfreed"},
          counts, bottom \in BOOLEAN :
         LET shown == PrintLeakTab(leaks, l, o, counts, bottom).lines
             hidden == {e \in Range(Entries(leaks)) : Key(e, o, counts) > 0}
                       \ Range(shown)
         IN  /\ hidden # {} => Len(shown) = l
             /\ \A e \in hidden : \A i \in DOMAIN shown :
                  IF bottom THEN Key(shown[i], o, counts) <= Key(e, o, counts)
                  ELSE Key(shown[i], o, counts) >= Key(e, o, counts)

(* Both: the table is right, and so is what is shown of it.                *)
LeakTableHolds == LeakTableExact /\ ReportRanks

(* doc/mpatrol.texi:5666: mleak "reads in an mpatrol log file, recording   *)
(* the details of each logged memory allocation, reallocation or           *)
(* deallocation and then writes out what the SHOWUNFREED option should     *)
(* have written out".  It does for the blocks that no call made or freed   *)
(* that is logged as a reallocation.                                       *)
LeaksOf(S) == {Entry(n, blocks[n].addr, blocks[n].size) : n \in S}
Indexes(t) == {e.index : e \in t}
MLeakFindsLeaks ==
  Recorded("log") /\ ~log.split =>
    /\ log.options.allocs /\ log.options.frees =>
         \A ignore \in BOOLEAN :
           Indexes(MLeakReads(log.lines, ignore)) \ story.unlogged =
             DOMAIN blocks \ story.unlogged
    /\ ~log.options.allocs /\ log.options.unfreed =>
         MLeakReads(log.lines, FALSE) = LeaksOf(Unmarked)
=============================================================================
