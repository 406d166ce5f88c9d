------------------------------- MODULE Profile -------------------------------
(***************************************************************************)
(* Recording of a profile (src/profile.c).  A call site is a node of a     *)
(* tree ordered by return address; the parent of the node of a call stack  *)
(* is the node of the rest of the stack, so a node stands for the stack    *)
(* that ends in it.  Counts are kept for each site in four size classes    *)
(* and for all blocks in bins of their size.                               *)
(***************************************************************************)
EXTENDS Integers, Sequences, SequencesExt, FiniteSetsExt

CONSTANTS
  BINS,        \* MP_BIN_SIZE
  Bounds,      \* sbound, mbound and lbound
  SymbolOf,    \* the symbol of a return address, NoSymbol for none
  NoSymbol,
  NameLen      \* the length of the name of a symbol

ASSUME ProfileAssumption ==
  /\ BINS \in Nat \ {0}
  /\ Bounds \in [1 .. 3 -> Nat]

VARIABLES
  prof,        \* profhead
  saved        \* the profiling output files

profVars == <<prof, saved>>

Zero4 == [c \in 1 .. 4 |-> 0]
NewData == [acount |-> Zero4, dcount |-> Zero4, atotal |-> Zero4, dtotal |-> Zero4]
NoFile == [nodes |-> <<>>, data |-> <<>>, written |-> FALSE]

(* __mp_newprofile() *)
ProfileInit(on, every, name) ==
  /\ prof = [profiling |-> on, nodes |-> <<>>, data |-> <<>>, dataOf |-> <<>>,
             acounts |-> [b \in 1 .. BINS |-> 0], atotals |-> 0,
             dcounts |-> [b \in 1 .. BINS |-> 0], dtotals |-> 0,
             autosave |-> every, autocount |-> 0, file |-> name]
  /\ saved = [f \in {"parent", "child"} |-> NoFile]

(* the size class of a block *)
Class(l) == 1 + Cardinality({b \in 1 .. 3 : l > Bounds[b]})

NodeOf(p, stack) == CHOOSE i \in DOMAIN p.nodes : p.nodes[i] = stack
(* getcallsite(): the nodes of the outer calls are made before the inner   *)
(* ones, and only those that are not there yet.                            *)
Outer(stack) ==
  [i \in 1 .. Len(stack) |-> SubSeq(stack, Len(stack) + 1 - i, Len(stack))]
CallSite(p, stack) ==
  LET new == SelectSeq(Outer(stack),
                       LAMBDA s : \A j \in DOMAIN p.nodes : p.nodes[j] # s)
  IN  [p EXCEPT !.nodes = @ \o new, !.dataOf = @ \o [i \in DOMAIN new |-> 0]]
(* getprofdata() for a site that has none *)
WithData(p, n) ==
  IF p.dataOf[n] # 0 THEN p
  ELSE [p EXCEPT !.data = Append(@, NewData), !.dataOf[n] = Len(p.data) + 1]
SiteOf(p, stack) ==
  IF stack = <<>> THEN p
  ELSE LET q == CallSite(p, stack) IN WithData(q, NodeOf(q, stack))

Bin(l) == IF l < BINS THEN l ELSE BINS
Beyond(l) == IF l < BINS THEN 0 ELSE l

(* The counts of a site; an unknown stack is not recorded for any *)
SiteAlloc(p, l, stack) ==
  IF stack = <<>> THEN p
  ELSE LET d == p.dataOf[NodeOf(p, stack)]
       IN  [p EXCEPT !.data[d].acount[Class(l)] = @ + 1,
                     !.data[d].atotal[Class(l)] = @ + l]
SiteFree(p, l, stack) ==
  IF stack = <<>> THEN p
  ELSE LET d == p.dataOf[NodeOf(p, stack)]
       IN  [p EXCEPT !.data[d].dcount[Class(l)] = @ + 1,
                     !.data[d].dtotal[Class(l)] = @ + l]

(* __mp_writeprofile(): nodes are written in the order of the tree;        *)
(* symbols get an index and an offset into the string table when they are  *)
(* met first, and the two tables that follow are written in that order.    *)
Before(p, i, j) ==
  \/ p.nodes[i][1] < p.nodes[j][1]
  \/ p.nodes[i][1] = p.nodes[j][1] /\ i < j
TreeOrder(p) == SetToSortSeq(DOMAIN p.nodes, LAMBDA i, j : Before(p, i, j))
Parent(p, i) == IF Len(p.nodes[i]) = 1 THEN 0 ELSE NodeOf(p, Tail(p.nodes[i]))
SymbolAt(p, i) == SymbolOf[p.nodes[i][1]]
FirstMet(p, order) ==
  LET met == [k \in DOMAIN order |-> SymbolAt(p, order[k])]
      First(e) == met[e] # NoSymbol /\ \A j \in 1 .. e - 1 : met[j] # met[e]
  IN  [k \in 1 .. Cardinality({e \in DOMAIN met : First(e)}) |->
         met[SetToSortSeq({e \in DOMAIN met : First(e)}, <)[k]]]
OffsetOf(names, k) ==
  FoldLeft(LAMBDA x, s : x + NameLen[s] + 1, 1, SubSeq(names, 1, k - 1))
NumberOf(names, s) == CHOOSE k \in DOMAIN names : names[k] = s
NodeRecord(p, i, names) ==
  LET s == SymbolAt(p, i)
  IN  [index |-> i, parent |-> Parent(p, i), addr |-> p.nodes[i][1],
       symbol |-> IF s = NoSymbol THEN 0 ELSE NumberOf(names, s),
       name |-> IF s = NoSymbol THEN 0 ELSE OffsetOf(names, NumberOf(names, s)),
       data |-> p.dataOf[i]]
FileOf(p) ==
  LET order == TreeOrder(p)
      names == FirstMet(p, order)
  IN  [written |-> TRUE, acounts |-> p.acounts, atotals |-> p.atotals,
       dcounts |-> p.dcounts, dtotals |-> p.dtotals, data |-> p.data,
       nodes |-> [k \in DOMAIN order |-> NodeRecord(p, order[k], names)],
       addrs |-> names,
       strings |-> [o \in {OffsetOf(names, k) : k \in DOMAIN names} |->
                     names[CHOOSE k \in DOMAIN names : OffsetOf(names, k) = o]]]

Write(p) ==
  /\ prof' = [p EXCEPT !.autocount = 0]
  /\ saved' = [saved EXCEPT ![p.file] = FileOf(p)]
WriteProfile == Write(prof)

AfterAlloc(p, l, stack) ==
  [SiteAlloc(SiteOf(p, stack), l, stack) EXCEPT
     !.acounts[Bin(l)] = @ + 1, !.atotals = @ + Beyond(l)]
AfterFree(p, l, stack) ==
  [SiteFree(SiteOf(p, stack), l, stack) EXCEPT
     !.dcounts[Bin(l)] = @ + 1, !.dtotals = @ + Beyond(l)]

(* What an event does to profhead and to the files, and if it is recorded  *)
Outcome(p, files, recorded) ==
  [prof |-> p, saved |-> files, recorded |-> recorded]
(* What a mistake in this code would look like *)
Bug_Counted(p, files) ==
  LET q == [p EXCEPT !.autocount = @ + 1]
  IN  IF q.autosave # 0 /\ q.autocount % q.autosave = 0
      THEN Outcome([q EXCEPT !.autocount = 0],
                   [files EXCEPT ![q.file] = FileOf(prof)], TRUE)
      ELSE Outcome(q, files, TRUE)
(* The end of __mp_profilealloc() and __mp_profilefree(): every autosave   *)
(* events the profile is written.                                          *)
Counted(p, files) ==
  LET q == [p EXCEPT !.autocount = @ + 1]
  IN  IF q.autosave # 0 /\ q.autocount % q.autosave = 0
      THEN Outcome([q EXCEPT !.autocount = 0],
                   [files EXCEPT ![q.file] = FileOf(q)], TRUE)
      ELSE Outcome(q, files, TRUE)
(* Their first half: a call site whose nodes or data are refused.  Slots   *)
(* for all nodes that are missing are got before the first of them enters  *)
(* the tree, and the data only after the last; nothing has been counted    *)
(* then, and the event is no event.                                        *)
Unrecorded(p, files, stack) ==
  LET complete == \E i \in DOMAIN p.nodes : p.nodes[i] = stack /\ p.dataOf[i] # 0
  IN  IF stack = <<>> \/ complete THEN {}
      ELSE {Outcome(q, files, FALSE) : q \in {p, CallSite(p, stack)}}

Allocs(p, files, l, stack) ==
  {Counted(AfterAlloc(p, l, stack), files)} \cup Unrecorded(p, files, stack)
Frees(p, files, l, stack) ==
  {Counted(AfterFree(p, l, stack), files)} \cup Unrecorded(p, files, stack)

Becomes(o) == prof' = o.prof /\ saved' = o.saved
ProfileAlloc(l, stack, recorded) ==
  \E o \in Allocs(prof, saved, l, stack) : o.recorded = recorded /\ Becomes(o)
ProfileFree(l, stack) == \E o \in Frees(prof, saved, l, stack) : Becomes(o)

(* A block that is moved or resized is freed at the old site and allocated *)
(* at the new one, and either may be the event that has the profile        *)
(* written, or fail.                                                       *)
ProfileMove(d, old, l, new, recorded) ==
  \E f \in Frees(prof, saved, d, old) : \E o \in Allocs(f.prof, f.saved, l, new) :
    o.recorded = recorded /\ Becomes(o)

(* The AUTOSAVE option may be set at any time *)
SetAutosave(v) ==
  IF prof.autocount > 0 THEN Write([prof EXCEPT !.autosave = v])
  ELSE prof' = [prof EXCEPT !.autosave = v] /\ UNCHANGED saved
=============================================================================
