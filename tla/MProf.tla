-------------------------------- MODULE MProf --------------------------------
(***************************************************************************)
(* The mprof command (src/mprof.c, src/graph.c): what it derives from a    *)
(* profiling output file f.  An option says whether call sites in the same *)
(* function are kept apart (useaddresses) and how much of a call stack is  *)
(* compared (maxstack, 0 for all of it).                                   *)
(***************************************************************************)
EXTENDS Profile

(* readfile(): nodes and data are filed under the index they were given *)
NodeAt(f, n) == f.nodes[CHOOSE k \in DOMAIN f.nodes : f.nodes[k].index = n]
NameOf(f, n) == IF n.name = 0 THEN NoSymbol ELSE f.strings[n.name]

(* the totals over all bins *)
SumOver(g) == FoldFunction(+, 0, g)
AllCount(f) == SumOver(f.acounts) - SumOver(f.dcounts)
InBins(counts, last) ==
  SumOver([b \in 1 .. BINS |-> IF b = BINS THEN last ELSE counts[b] * b])
AllBytes(f) == InBins(f.acounts, f.atotals) - InBins(f.dcounts, f.dtotals)

(* sumdata() over a set of nodes *)
SumData(f, S) ==
  LET Sum(field, c) == MapThenSumSet(LAMBDA k : f.data[f.nodes[k].data][field][c], S)
  IN  [field \in {"acount", "dcount", "atotal", "dtotal"} |->
         [c \in 1 .. 4 |-> Sum(field, c)]]
Total(d, field) == SumOver(d[field])
Unfreed(d) == [count |-> Total(d, "acount") - Total(d, "dcount"),
               bytes |-> Total(d, "atotal") - Total(d, "dtotal")]

SamePlace(n, p, useaddresses) ==
  \/ n.addr = p.addr
  \/ ~useaddresses /\ n.symbol # 0 /\ n.symbol = p.symbol

(* The callers of a node, itself first *)
Callers(f, n) ==
  LET Up[i \in 0 .. Len(f.nodes)] ==
        IF i = 0 THEN <<>> ELSE <<NodeAt(f, i)>> \o Up[NodeAt(f, i).parent]
  IN  Up[n.index]

(* What a mistake in this code would look like *)
Bug_CompareStack(f, n, p, useaddresses, maxstack) ==
  LET ns == Callers(f, n)
      ps == Callers(f, p)
      Depth(s) == IF maxstack = 0 \/ Len(s) < maxstack THEN Len(s) ELSE maxstack
  IN  \A i \in 2 .. (IF Depth(ns) < Depth(ps) THEN Depth(ns) ELSE Depth(ps)) :
         SamePlace(ns[i], ps[i], useaddresses)
(* comparestack() *)
CompareStack(f, n, p, useaddresses, maxstack) ==
  LET ns == Callers(f, n)
      ps == Callers(f, p)
      Depth(s) == IF maxstack = 0 \/ Len(s) < maxstack THEN Len(s) ELSE maxstack
  IN  /\ Depth(ns) = Depth(ps)
      /\ \A i \in 2 .. Depth(ns) : SamePlace(ns[i], ps[i], useaddresses)

(* The nodes that follow k in the tree and belong to the same place *)
RunFrom(f, k, useaddresses) ==
  {j \in k .. Len(f.nodes) :
     \A i \in k .. j : SamePlace(f.nodes[i], f.nodes[k], useaddresses)}
WithSite(f, S) == {k \in S : f.nodes[k].data # 0}

(* The groups of sites that a table shows in one line, each with the first *)
(* of them: by place and call stack for leaktable() and buildgraph(), and  *)
(* by place alone, a call stack of one entry, for directtable().           *)
Group(f, k, useaddresses, maxstack) ==
  {j \in WithSite(f, RunFrom(f, k, useaddresses)) :
     CompareStack(f, f.nodes[k], f.nodes[j], useaddresses, maxstack)}
Heads(f, useaddresses, maxstack) ==
  {k \in WithSite(f, DOMAIN f.nodes) :
     \A i \in WithSite(f, 1 .. k - 1) : k \notin Group(f, i, useaddresses, maxstack)}

DirectTable(f, useaddresses) ==
  {[node |-> f.nodes[k], data |-> SumData(f, Group(f, k, useaddresses, 1))] :
    k \in Heads(f, useaddresses, 1)}
(* A line with nothing unfreed is left out; the key is a count or a size *)
LeakTable(f, useaddresses, maxstack, showcounts) ==
  LET Lines == {[node |-> f.nodes[k],
                 left |-> Unfreed(SumData(f, Group(f, k, useaddresses, maxstack)))] :
                k \in Heads(f, useaddresses, maxstack)}
  IN  {e \in Lines : (IF showcounts THEN e.left.count ELSE e.left.bytes) > 0}

(* buildgraph(): the vertices are the places, and each group of call       *)
(* stacks adds its data to the edges along it.  An edge that leads back to *)
(* a place already passed is marked as a cycle and gets nothing.           *)
Vertex(n, useaddresses) ==
  IF useaddresses \/ n.symbol = 0 THEN <<"addr", n.addr>> ELSE <<"symbol", n.symbol>>
START == <<"START", 0>>
ALLOC == <<"ALLOC", 0>>
PathOf(f, k, useaddresses) ==
  [i \in DOMAIN Callers(f, f.nodes[k]) |->
     Vertex(Callers(f, f.nodes[k])[i], useaddresses)]
(* What a mistake in this code would look like *)
Bug_StepsOf(path) ==
  {[from |-> path[1], to |-> ALLOC, cycle |-> FALSE, at |-> 0]}
  \cup {[from |-> path[i + 1], to |-> path[i], cycle |-> FALSE, at |-> i] :
        i \in 1 .. Len(path) - 1}
  \cup {[from |-> START, to |-> path[Len(path)], cycle |-> FALSE, at |-> Len(path)]}
StepsOf(path) ==
  {[from |-> path[1], to |-> ALLOC, cycle |-> FALSE, at |-> 0]}
  \cup {[from |-> path[i + 1], to |-> path[i], at |-> i,
         cycle |-> \E j \in 1 .. i : path[j] = path[i + 1]] :
        i \in 1 .. Len(path) - 1}
  \cup {[from |-> START, to |-> path[Len(path)], cycle |-> FALSE, at |-> Len(path)]}
BuildGraph(f, useaddresses) ==
  LET Steps == UNION {{[step |-> s, left |-> Unfreed(
                          SumData(f, Group(f, k, useaddresses, 0))), head |-> k] :
                         s \in StepsOf(PathOf(f, k, useaddresses))} :
                      k \in Heads(f, useaddresses, 0)}
      Of(e) == {s \in Steps : <<s.step.from, s.step.to>> = e}
      Adds(e) == {s \in Of(e) : ~s.step.cycle}
  IN  {[from |-> e[1], to |-> e[2], cycle |-> Of(e) # Adds(e),
        count |-> MapThenSumSet(LAMBDA s : s.left.count, Adds(e)),
        bytes |-> MapThenSumSet(LAMBDA s : s.left.bytes, Adds(e))] :
        e \in {<<s.step.from, s.step.to>> : s \in Steps}}
=============================================================================
