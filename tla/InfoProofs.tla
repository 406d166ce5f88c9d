----------------------------- MODULE InfoProofs -----------------------------
(***************************************************************************)
(* Proofs about what the library knows of its blocks (Info.tla), for any   *)
(* set of addresses, sizes, call sites and threads, any limit, and a       *)
(* low-memory handler that makes any number of calls.  A call is taken     *)
(* apart into what it does to the record Now: freeing, making and resizing *)
(* a block each have a lemma on what becomes of the books, and a lemma for *)
(* each action puts them together.                                         *)
(***************************************************************************)
EXTENDS Info, SumProofs

\* The record that a call works on.
StackNodes == [block : Addresses, frame : Seq(SITES)]
Infos == UNION {[D -> Nodes] : D \in SUBSET Addresses}
Queues == Seq(Addresses)
Stacks == Seq(StackNodes)
SlotCounts == [info : Int, alloca : Int]
State == [info : Infos, flist : Queues, astack : Stacks, slots : SlotCounts,
          mtotal : Int]

AllocaBlocks(h) == {p \in Live(h) : h.info[p].type = "alloca"}
Marked(h) == {p \in Live(h) : h.info[p].marked}

\* Each block is on the stack once.
Distinct(stack) ==
    \A j, k \in 1..Len(stack) : stack[j].block = stack[k].block => j = k

-----------------------------------------------------------------------------
Selected(stack, B, n) == {k \in 1..n : stack[k].block \in B}
Upto(stack, B, f) ==
    f = [k \in 0..Len(stack) |->
            IF k = 0 THEN <<>>
            ELSE IF stack[k].block \in B THEN Append(f[k - 1], stack[k])
            ELSE f[k - 1]]

LEMMA UptoExists ==
  ASSUME NEW stack \in Seq(StackNodes), NEW B
  PROVE  \E f : Upto(stack, B, f)
<1> DEFINE V == Seq(StackNodes)
           n == Len(stack)
           Next1(k, s) == IF stack[k].block \in B THEN Append(s, stack[k]) ELSE s
           step == [k \in 1..n |-> [s \in V |-> Next1(k, s)]]
<1>1. \A k \in 1..n, s \in V : Next1(k, s) \in V
  OBVIOUS
<1>2. <<>> \in V /\ n \in Nat
  OBVIOUS
<1> HIDE DEF Next1, V, n
<1>3. step \in [1..n -> [V -> V]]
  BY <1>1
<1>4. \A k \in 1..n, s \in V : step[k][s] = Next1(k, s)
  OBVIOUS
<1> HIDE DEF step
<1>5. PICK f \in [0..n -> V] : Unrolls(f, n, <<>>, step)
  BY <1>2, <1>3, Recursion
<1>6. \A k \in 1..n : f[k] = Next1(k, f[k - 1])
  BY <1>2, <1>4, <1>5 DEF Unrolls
<1>7. f = [k \in 0..n |-> IF k = 0 THEN <<>> ELSE Next1(k, f[k - 1])]
  BY <1>5, <1>6 DEF Unrolls
<1> QED BY <1>7 DEF Upto, Next1, n

\* One more node is looked at.
LEMMA AppendNode ==
  ASSUME NEW stack \in Seq(StackNodes), NEW B, NEW n \in Nat, n + 1 <= Len(stack),
         stack[n + 1].block \in B, NEW s \in Seq(StackNodes),
         Range(s) = {stack[k] : k \in Selected(stack, B, n)}
  PROVE  LET a == Append(s, stack[n + 1])
         IN  /\ a \in Seq(StackNodes) /\ Len(a) = Len(s) + 1
             /\ Range(a) = {stack[k] : k \in Selected(stack, B, n + 1)}
             /\ Distinct(stack) /\ Distinct(s) => Distinct(a)
<1> DEFINE e == stack[n + 1]
           a == Append(s, e)
<1>1. e \in StackNodes
  OBVIOUS
<1>2. Selected(stack, B, n + 1) = Selected(stack, B, n) \cup {n + 1}
  BY DEF Selected
<1> HIDE DEF e
<1>3. /\ a \in Seq(StackNodes) /\ Len(a) = Len(s) + 1 /\ Len(s) \in Nat
      /\ a[Len(s) + 1] = e /\ \A k \in 1..Len(s) : a[k] = s[k]
      /\ DOMAIN a = 1..Len(s) + 1 /\ DOMAIN s = 1..Len(s)
  BY <1>1
<1> HIDE DEF a
<1>4. Range(a) = Range(s) \cup {e}
  BY <1>3 DEF Range
<1>5. ASSUME Distinct(stack), Distinct(s) PROVE Distinct(a)
  <2> SUFFICES ASSUME NEW j \in 1..Len(a), NEW k \in 1..Len(a),
                      a[j].block = a[k].block, j < k
               PROVE  FALSE
    BY <1>3 DEF Distinct
  <2>1. k = Len(s) + 1 /\ j \in 1..Len(s)
    BY <1>3, <1>5 DEF Distinct
  <2>2. PICK i \in Selected(stack, B, n) : s[j] = stack[i]
    BY <1>3, <2>1 DEF Range
  <2>3. stack[i].block = stack[n + 1].block
    BY <1>3, <2>1, <2>2 DEF e
  <2>4. i \in 1..n /\ i \in 1..Len(stack) /\ n + 1 \in 1..Len(stack)
    BY DEF Selected
  <2> QED BY <1>5, <2>3, <2>4 DEF Distinct
<1>6. Range(a) = {stack[k] : k \in Selected(stack, B, n + 1)}
  BY <1>2, <1>4 DEF e
<1> QED BY <1>3, <1>5, <1>6 DEF a, e

\* What is left of a stack.
LEMMA OnlyFacts ==
  ASSUME NEW stack \in Seq(StackNodes), NEW B
  PROVE  LET only == Only(stack, B)
         IN  /\ only \in Seq(StackNodes)
             /\ Range(only) = {n \in Range(stack) : n.block \in B}
             /\ Distinct(stack) => Distinct(only)
             /\ Len(only) = Cardinality(Selected(stack, B, Len(stack)))
<1> DEFINE f == CHOOSE f : Upto(stack, B, f)
           P(n) == /\ f[n] \in Seq(StackNodes)
                   /\ Range(f[n]) = {stack[k] : k \in Selected(stack, B, n)}
                   /\ Distinct(stack) => Distinct(f[n])
                   /\ Len(f[n]) = Cardinality(Selected(stack, B, n))
           N == {n \in Nat : n <= Len(stack) => P(n)}
<1>1. Upto(stack, B, f)
  BY UptoExists
<1>2. Only(stack, B) = f[Len(stack)]
  BY DEF Only, Upto
<1> HIDE DEF f
<1>3. 0 \in N
  <2>1. f[0] = <<>>
    BY <1>1 DEF Upto
  <2>2. Selected(stack, B, 0) = {}
    BY DEF Selected
  <2>3. <<>> \in Seq(StackNodes) /\ Range(<<>>) = {} /\ Distinct(<<>>)
        /\ Len(<<>>) = 0
    BY DEF Range, Distinct
  <2>4. Cardinality({}) = 0
    BY FS_EmptySet
  <2>5. P(0)
    BY <2>1, <2>2, <2>3, <2>4
  <2> HIDE DEF P
  <2> QED BY <2>5
<1>4. ASSUME NEW n \in Nat, P(n), n + 1 <= Len(stack) PROVE P(n + 1)
  <2>1. f[n + 1] = IF stack[n + 1].block \in B THEN Append(f[n], stack[n + 1])
                   ELSE f[n]
    <3>1. n + 1 \in 0..Len(stack) /\ n + 1 # 0 /\ (n + 1) - 1 = n
      BY <1>4
    <3> QED BY <1>1, <3>1 DEF Upto
  <2>2. CASE stack[n + 1].block \notin B
    <3>1. Selected(stack, B, n + 1) = Selected(stack, B, n)
      BY <2>2 DEF Selected
    <3>2. f[n + 1] = f[n]
      BY <2>1, <2>2
    <3> QED BY <1>4, <3>1, <3>2
  <2>3. CASE stack[n + 1].block \in B
    <3>1. /\ Selected(stack, B, n + 1) = Selected(stack, B, n) \cup {n + 1}
          /\ n + 1 \notin Selected(stack, B, n)
      BY <2>3 DEF Selected
    <3>2. IsFiniteSet(Selected(stack, B, n))
      <4>1. IsFiniteSet(1..n) /\ Selected(stack, B, n) \in SUBSET (1..n)
        BY FS_Interval DEF Selected
      <4> QED BY <4>1, FS_Subset
    <3>3. Cardinality(Selected(stack, B, n + 1)) = Len(f[n]) + 1
      BY <1>4, <3>1, <3>2, FS_AddElement
    <3>4. f[n + 1] = Append(f[n], stack[n + 1])
      BY <2>1, <2>3
    <3> DEFINE a == Append(f[n], stack[n + 1])
    <3>5. /\ a \in Seq(StackNodes) /\ Len(a) = Len(f[n]) + 1
          /\ Range(a) = {stack[k] : k \in Selected(stack, B, n + 1)}
          /\ Distinct(stack) /\ Distinct(f[n]) => Distinct(a)
      BY <1>4, <2>3, AppendNode
    <3> HIDE DEF a
    <3> QED BY <1>4, <3>3, <3>4, <3>5 DEF a
  <2> QED BY <2>2, <2>3
<1>5. \A n \in Nat : n \in N => n + 1 \in N
  <2> HIDE DEF P
  <2> QED BY <1>4
<1> HIDE DEF N
<1>6. Len(stack) \in N
  BY <1>3, <1>5, Induction
<1>7. P(Len(stack))
  <2> HIDE DEF P
  <2> QED BY <1>6 DEF N
<1>8. {stack[k] : k \in Selected(stack, B, Len(stack))}
          = {n \in Range(stack) : n.block \in B}
  BY DEF Range, Selected
<1> QED BY <1>2, <1>7, <1>8

-----------------------------------------------------------------------------
(***************************************************************************)
(* The books of the library                                                *)
(***************************************************************************)
FlistRight(h) ==
    /\ Len(h.flist) <= FMAX
    /\ \A j, k \in 1..Len(h.flist) : h.flist[j] = h.flist[k] => j = k
    /\ Range(h.flist) = Freed(h)
StackRight(h) == Distinct(h.astack) /\ Blocks(h.astack) = AllocaBlocks(h)
SlotsRight(h) ==
    /\ h.slots.info \in 0..INFOS
    /\ h.slots.alloca = Len(h.astack)
    /\ FMAX = 0 => h.slots.info = Cardinality(DOMAIN h.info)
MarksRight(h, m) ==
    /\ m = Cardinality(Marked(h))
    /\ h.mtotal = SumOf(Sizes(h), Marked(h))
    /\ \A p \in AllocaBlocks(h) : ~h.info[p].marked

Sound(h, m) ==
    h \in State /\ FlistRight(h) /\ StackRight(h) /\ SlotsRight(h) /\ MarksRight(h, m)

LEMMA InfoFacts ==
  ASSUME NEW f \in Infos
  PROVE  /\ DOMAIN f \in SUBSET Addresses /\ IsFiniteSet(DOMAIN f)
         /\ f = [p \in DOMAIN f |-> f[p]] /\ \A p \in DOMAIN f : f[p] \in Nodes
<1>1. PICK D \in SUBSET Addresses : f \in [D -> Nodes]
  BY DEF Infos
<1> QED BY <1>1, FS_Subset, BlocksAssumption

LEMMA WithFacts ==
  ASSUME NEW f \in Infos, NEW p \in Addresses, NEW d \in Nodes
  PROVE  /\ With(f, p, d) \in Infos
         /\ DOMAIN With(f, p, d) = DOMAIN f \cup {p}
         /\ With(f, p, d)[p] = d
         /\ \A q \in DOMAIN f \ {p} : With(f, p, d)[q] = f[q]
<1>1. DOMAIN f \in SUBSET Addresses /\ \A q \in DOMAIN f : f[q] \in Nodes
  BY InfoFacts
<1>2. With(f, p, d) \in [DOMAIN f \cup {p} -> Nodes]
  BY <1>1 DEF With
<1>3. With(f, p, d) \in Infos
  BY <1>1, <1>2 DEF Infos
<1> QED BY <1>3 DEF With

LEMMA WithoutFacts ==
  ASSUME NEW f \in Infos, NEW p
  PROVE  /\ Without(f, p) \in Infos
         /\ DOMAIN Without(f, p) = DOMAIN f \ {p}
         /\ \A q \in DOMAIN f \ {p} : Without(f, p)[q] = f[q]
<1>1. DOMAIN f \in SUBSET Addresses /\ \A q \in DOMAIN f : f[q] \in Nodes
  BY InfoFacts
<1>2. Without(f, p) \in [DOMAIN f \ {p} -> Nodes]
  BY <1>1 DEF Without
<1>3. Without(f, p) \in Infos
  BY <1>1, <1>2 DEF Infos
<1> QED BY <1>3 DEF Without

LEMMA NodeFacts ==
  /\ FreedNode \in Nodes /\ FreedNode.kind = "freed" /\ FreedNode.size \in Nat
  /\ \A d \in Nodes : /\ d.kind \in {"live", "freed"} /\ d.size \in Nat
                      /\ d.kind # "live" => d = FreedNode
                      /\ d.kind = "live" =>
                          d \in [kind : {"live"}, type : Kinds, size : Nat \ {0},
                                 marked : BOOLEAN]
  BY DEF Nodes, FreedNode

LEMMA StateFacts ==
  ASSUME NEW h \in State
  PROVE  /\ Live(h) \cup Freed(h) = DOMAIN h.info /\ Live(h) \cap Freed(h) = {}
         /\ Marked(h) \in SUBSET Live(h) /\ AllocaBlocks(h) \in SUBSET Live(h)
         /\ DOMAIN h.info \in SUBSET Addresses /\ h.info \in Infos
         /\ IsFiniteSet(DOMAIN h.info)
         /\ \A p \in DOMAIN h.info : h.info[p] \in Nodes
         /\ DOMAIN Sizes(h) = DOMAIN h.info
         /\ \A p \in DOMAIN h.info : /\ Sizes(h)[p] = h.info[p].size
                                     /\ Sizes(h)[p] \in Nat
<1>1. h.info \in Infos
  BY DEF State
<1>2. /\ DOMAIN h.info \in SUBSET Addresses /\ IsFiniteSet(DOMAIN h.info)
      /\ \A p \in DOMAIN h.info : h.info[p] \in Nodes
  BY <1>1, InfoFacts
<1>3. /\ Live(h) \cup Freed(h) = DOMAIN h.info /\ Live(h) \cap Freed(h) = {}
      /\ Marked(h) \in SUBSET Live(h) /\ AllocaBlocks(h) \in SUBSET Live(h)
  BY <1>2, NodeFacts DEF Live, Freed, Marked, AllocaBlocks
<1>4. /\ DOMAIN Sizes(h) = DOMAIN h.info
      /\ \A p \in DOMAIN h.info : /\ Sizes(h)[p] = h.info[p].size
                                  /\ Sizes(h)[p] \in Nat
  BY <1>2, NodeFacts DEF Sizes
<1> QED BY <1>1, <1>2, <1>3, <1>4

-----------------------------------------------------------------------------
(***************************************************************************)
(* Updates of the library's state, field by field                          *)
(***************************************************************************)
LEMMA InfoFields ==
  ASSUME NEW h \in State, NEW i \in Infos
  PROVE  LET g == [h EXCEPT !.info = i]
         IN  /\ g \in State /\ g.info = i /\ g.flist = h.flist
             /\ g.astack = h.astack /\ g.slots = h.slots /\ g.mtotal = h.mtotal
  BY DEF State

LEMMA SlotGiven ==
  ASSUME NEW h \in State
  PROVE  LET g == [h EXCEPT !.slots.info = @ - 1]
         IN  /\ g \in State /\ g.info = h.info /\ g.flist = h.flist
             /\ g.astack = h.astack /\ g.mtotal = h.mtotal
             /\ g.slots.alloca = h.slots.alloca
             /\ g.slots.info = h.slots.info - 1
<1> DEFINE o == [h.slots EXCEPT !.info = @ - 1]
           g == [h EXCEPT !.slots.info = @ - 1]
           k == [h EXCEPT !.slots = o]
<1>1. h.slots \in SlotCounts /\ h.slots.info \in Int
  BY DEF State, SlotCounts
<1>2. o \in SlotCounts /\ o.alloca = h.slots.alloca /\ o.info = h.slots.info - 1
  BY <1>1 DEF SlotCounts
<1>3. g = k
  OBVIOUS
<1>4. /\ k \in State /\ k.info = h.info /\ k.flist = h.flist
      /\ k.astack = h.astack /\ k.mtotal = h.mtotal
      /\ k.slots = o
  <2> HIDE DEF o
  <2> QED BY <1>2 DEF State
<1> HIDE DEF o, g, k
<1>5. /\ g \in State /\ g.info = h.info /\ g.flist = h.flist
      /\ g.astack = h.astack /\ g.mtotal = h.mtotal
      /\ g.slots.alloca = h.slots.alloca
      /\ g.slots.info = h.slots.info - 1
  BY <1>2, <1>3, <1>4
<1> QED BY <1>5 DEF g

LEMMA SlotTaken ==
  ASSUME NEW h \in State, NEW i \in Infos
  PROVE  LET g == [h EXCEPT !.info = i, !.slots.info = @ + 1]
         IN  /\ g \in State /\ g.info = i /\ g.flist = h.flist
             /\ g.astack = h.astack /\ g.mtotal = h.mtotal
             /\ g.slots.alloca = h.slots.alloca
             /\ g.slots.info = h.slots.info + 1
<1> DEFINE o == [h.slots EXCEPT !.info = @ + 1]
           g == [h EXCEPT !.info = i, !.slots.info = @ + 1]
           k == [h EXCEPT !.info = i, !.slots = o]
<1>1. h.slots \in SlotCounts /\ h.slots.info \in Int
  BY DEF State, SlotCounts
<1>2. o \in SlotCounts /\ o.alloca = h.slots.alloca /\ o.info = h.slots.info + 1
  BY <1>1 DEF SlotCounts
<1>3. g = k
  OBVIOUS
<1>4. /\ k \in State /\ k.info = i /\ k.flist = h.flist
      /\ k.astack = h.astack /\ k.mtotal = h.mtotal
      /\ k.slots = o
  <2> HIDE DEF o
  <2> QED BY <1>2 DEF State
<1> HIDE DEF o, g, k
<1>5. /\ g \in State /\ g.info = i /\ g.flist = h.flist
      /\ g.astack = h.astack /\ g.mtotal = h.mtotal
      /\ g.slots.alloca = h.slots.alloca
      /\ g.slots.info = h.slots.info + 1
  BY <1>2, <1>3, <1>4
<1> QED BY <1>5 DEF g

LEMMA StackGiven ==
  ASSUME NEW h \in State, NEW s \in Stacks
  PROVE  LET g == [h EXCEPT !.astack = s, !.slots.alloca = @ - 1]
         IN  /\ g \in State /\ g.info = h.info /\ g.flist = h.flist
             /\ g.astack = s /\ g.mtotal = h.mtotal
             /\ g.slots.info = h.slots.info
             /\ g.slots.alloca = h.slots.alloca - 1
<1> DEFINE o == [h.slots EXCEPT !.alloca = @ - 1]
           g == [h EXCEPT !.astack = s, !.slots.alloca = @ - 1]
           k == [h EXCEPT !.astack = s, !.slots = o]
<1>1. h.slots \in SlotCounts /\ h.slots.alloca \in Int
  BY DEF State, SlotCounts
<1>2. o \in SlotCounts /\ o.info = h.slots.info /\ o.alloca = h.slots.alloca - 1
  BY <1>1 DEF SlotCounts
<1>3. g = k
  OBVIOUS
<1>4. /\ k \in State /\ k.info = h.info /\ k.flist = h.flist
      /\ k.astack = s /\ k.mtotal = h.mtotal
      /\ k.slots = o
  <2> HIDE DEF o
  <2> QED BY <1>2 DEF State
<1> HIDE DEF o, g, k
<1>5. /\ g \in State /\ g.info = h.info /\ g.flist = h.flist
      /\ g.astack = s /\ g.mtotal = h.mtotal
      /\ g.slots.info = h.slots.info
      /\ g.slots.alloca = h.slots.alloca - 1
  BY <1>2, <1>3, <1>4
<1> QED BY <1>5 DEF g

LEMMA StackTaken ==
  ASSUME NEW h \in State, NEW s \in Stacks
  PROVE  LET g == [h EXCEPT !.astack = s, !.slots.alloca = @ + 1]
         IN  /\ g \in State /\ g.info = h.info /\ g.flist = h.flist
             /\ g.astack = s /\ g.mtotal = h.mtotal
             /\ g.slots.info = h.slots.info
             /\ g.slots.alloca = h.slots.alloca + 1
<1> DEFINE o == [h.slots EXCEPT !.alloca = @ + 1]
           g == [h EXCEPT !.astack = s, !.slots.alloca = @ + 1]
           k == [h EXCEPT !.astack = s, !.slots = o]
<1>1. h.slots \in SlotCounts /\ h.slots.alloca \in Int
  BY DEF State, SlotCounts
<1>2. o \in SlotCounts /\ o.info = h.slots.info /\ o.alloca = h.slots.alloca + 1
  BY <1>1 DEF SlotCounts
<1>3. g = k
  OBVIOUS
<1>4. /\ k \in State /\ k.info = h.info /\ k.flist = h.flist
      /\ k.astack = s /\ k.mtotal = h.mtotal
      /\ k.slots = o
  <2> HIDE DEF o
  <2> QED BY <1>2 DEF State
<1> HIDE DEF o, g, k
<1>5. /\ g \in State /\ g.info = h.info /\ g.flist = h.flist
      /\ g.astack = s /\ g.mtotal = h.mtotal
      /\ g.slots.info = h.slots.info
      /\ g.slots.alloca = h.slots.alloca + 1
  BY <1>2, <1>3, <1>4
<1> QED BY <1>5 DEF g

LEMMA UnstackFields ==
  ASSUME NEW h \in State, NEW p
  PROVE  /\ Unstack(h, p) \in State /\ Unstack(h, p).info = h.info
         /\ Unstack(h, p).flist = h.flist /\ Unstack(h, p).mtotal = h.mtotal
         /\ Unstack(h, p).slots.info = h.slots.info
         /\ p \in Blocks(h.astack) =>
                /\ Unstack(h, p).astack = Only(h.astack, Addresses \ {p})
                /\ Unstack(h, p).slots.alloca = h.slots.alloca - 1
         /\ p \notin Blocks(h.astack) => Unstack(h, p) = h
<1> DEFINE s == Only(h.astack, Addresses \ {p})
           g == [h EXCEPT !.astack = s, !.slots.alloca = @ - 1]
<1>1. s \in Stacks
  BY OnlyFacts DEF State, Stacks
<1>2. /\ g \in State /\ g.info = h.info /\ g.flist = h.flist
      /\ g.astack = s /\ g.mtotal = h.mtotal
      /\ g.slots.info = h.slots.info
      /\ g.slots.alloca = h.slots.alloca - 1
  <2> HIDE DEF s
  <2> QED BY <1>1, StackGiven
<1>3. Unstack(h, p) = IF p \in Blocks(h.astack) THEN g ELSE h
  BY DEF Unstack
<1> HIDE DEF g
<1> QED BY <1>2, <1>3

LEMMA DropFields ==
  ASSUME NEW h \in State, NEW p
  PROVE  /\ Drop(h, p) \in State /\ Drop(h, p).info = Without(h.info, p)
         /\ Drop(h, p).flist = h.flist /\ Drop(h, p).astack = h.astack
         /\ Drop(h, p).slots = h.slots /\ Drop(h, p).mtotal = h.mtotal
<1>1. Without(h.info, p) \in Infos
  BY WithoutFacts DEF State
<1> QED BY <1>1 DEF Drop, State

\* The queue of freed blocks when one more is kept.
Rest(h) == IF h.flist # <<>> /\ Len(h.flist) = FMAX
           THEN Without(h.info, Head(h.flist)) ELSE h.info
Queue(h, p) == Append(IF h.flist # <<>> /\ Len(h.flist) = FMAX
                      THEN Tail(h.flist) ELSE h.flist, p)

LEMMA KeepFields ==
  ASSUME NEW h \in State, NEW p \in Addresses
  PROVE  /\ Keep(h, p) \in State /\ Keep(h, p).info = With(Rest(h), p, FreedNode)
         /\ Keep(h, p).flist = Queue(h, p) /\ Keep(h, p).astack = h.astack
         /\ Keep(h, p).slots = h.slots /\ Keep(h, p).mtotal = h.mtotal
         /\ Rest(h) \in Infos
<1>1. h.info \in Infos /\ h.flist \in Seq(Addresses)
  BY DEF State, Queues
<1>2. Rest(h) \in Infos
  BY <1>1, WithoutFacts DEF Rest
<1>3. With(Rest(h), p, FreedNode) \in Infos
  BY <1>2, WithFacts, NodeFacts
<1>4. Queue(h, p) \in Queues
  BY <1>1 DEF Queue, Queues
<1> DEFINE w == With(Rest(h), p, FreedNode)
           q == Queue(h, p)
           g == [h EXCEPT !.info = w, !.flist = q]
<1>5. Keep(h, p) = g
  BY DEF Keep, Rest, Queue
<1>6. /\ g \in State /\ g.info = w /\ g.flist = q
      /\ g.astack = h.astack /\ g.slots = h.slots /\ g.mtotal = h.mtotal
  <2> HIDE DEF w, q
  <2> QED BY <1>3, <1>4 DEF State, w, q
<1> HIDE DEF g
<1> QED BY <1>2, <1>5, <1>6

-----------------------------------------------------------------------------
(***************************************************************************)
(* What freeing does                                                       *)
(***************************************************************************)
\* The blocks of B are gone, and all else of the live blocks is as it was.
Freeing(h, g, B) ==
    /\ Live(g) = Live(h) \ B
    /\ \A q \in Live(g) : g.info[q] = h.info[q]
    /\ Range(g.astack) = {n \in Range(h.astack) : n.block \notin B}

Unstacked(h, p, ty) == IF ty \in {"alloca", "dealloca"} THEN Unstack(h, p) ELSE h
Dropped(u, p) == Drop([u EXCEPT !.slots.info = @ - 1], p)
FreedState(h, p, ty) ==
    IF FMAX > 0 THEN Keep(Unstacked(h, p, ty), p) ELSE Dropped(Unstacked(h, p, ty), p)

LEMMA DroppedFields ==
  ASSUME NEW h \in State, NEW p
  PROVE  /\ Dropped(h, p) \in State /\ Dropped(h, p).info = Without(h.info, p)
         /\ Dropped(h, p).flist = h.flist /\ Dropped(h, p).astack = h.astack
         /\ Dropped(h, p).slots.info = h.slots.info - 1
         /\ Dropped(h, p).slots.alloca = h.slots.alloca
         /\ Dropped(h, p).mtotal = h.mtotal
<1> DEFINE g == [h EXCEPT !.slots.info = @ - 1]
<1>1. /\ g \in State /\ g.info = h.info /\ g.flist = h.flist
      /\ g.astack = h.astack /\ g.mtotal = h.mtotal
      /\ g.slots.alloca = h.slots.alloca
      /\ g.slots.info = h.slots.info - 1
  BY SlotGiven
<1>2. Dropped(h, p) = Drop(g, p)
  BY DEF Dropped
<1> HIDE DEF g
<1> QED BY <1>1, <1>2, DropFields

LEMMA BlocksOf ==
  ASSUME NEW s \in Stacks
  PROVE  Blocks(s) = {n.block : n \in Range(s)} /\ Range(s) \in SUBSET StackNodes
  BY DEF Blocks, Range, Stacks

LEMMA StackBlocks ==
  ASSUME NEW s \in Stacks
  PROVE  /\ Len(s) \in Nat /\ DOMAIN s = 1..Len(s)
         /\ \A k \in 1..Len(s) : s[k].block \in Addresses
<1> SUFFICES ASSUME NEW k \in 1..Len(s) PROVE s[k].block \in Addresses
  BY DEF Stacks
<1>1. s[k] \in StackNodes
  BY DEF Stacks
<1> QED BY <1>1 DEF StackNodes

\* A block is taken off the stack with its slot.
LEMMA OneLess ==
  ASSUME NEW s \in Stacks, Distinct(s), NEW p \in Blocks(s)
  PROVE  Len(Only(s, Addresses \ {p})) = Len(s) - 1
<1>1. PICK i \in 1..Len(s) : s[i].block = p
  BY DEF Blocks
<1>2. s \in Seq(StackNodes) /\ Len(s) \in Nat
  BY DEF Stacks
<1>3. \A k \in 1..Len(s) : s[k].block \in Addresses
  <2> SUFFICES ASSUME NEW k \in 1..Len(s) PROVE s[k].block \in Addresses
    OBVIOUS
  <2>1. s[k] \in StackNodes
    BY <1>2
  <2> QED BY <2>1 DEF StackNodes
<1>4. Selected(s, Addresses \ {p}, Len(s)) = (1..Len(s)) \ {i}
  BY <1>1, <1>3 DEF Selected, Distinct
<1>5. Cardinality((1..Len(s)) \ {i}) = Len(s) - 1
  <2>1. IsFiniteSet(1..Len(s)) /\ Cardinality(1..Len(s)) = Len(s)
    BY <1>2, FS_Interval
  <2> QED BY <2>1, FS_RemoveElement
<1>6. Len(Only(s, Addresses \ {p})) = Cardinality(Selected(s, Addresses \ {p}, Len(s)))
  BY <1>2, OnlyFacts
<1> QED BY <1>4, <1>5, <1>6

LEMMA UnstackedEffect ==
  ASSUME NEW h \in State, StackRight(h), NEW p \in Live(h), NEW ty,
         Compatible(h.info[p].type, ty), h.slots.alloca = Len(h.astack)
  PROVE  LET u == Unstacked(h, p, ty)
         IN  /\ u \in State /\ u.info = h.info /\ u.flist = h.flist
             /\ u.mtotal = h.mtotal /\ u.slots.info = h.slots.info
             /\ Range(u.astack) = {n \in Range(h.astack) : n.block # p}
             /\ u.slots.alloca = Len(u.astack) /\ Distinct(u.astack)
<1>0. h.astack \in Stacks /\ h.astack \in Seq(StackNodes)
  BY DEF State, Stacks
<1>1. /\ Unstack(h, p) \in State /\ Unstack(h, p).info = h.info
      /\ Unstack(h, p).flist = h.flist /\ Unstack(h, p).mtotal = h.mtotal
      /\ Unstack(h, p).slots.info = h.slots.info
  BY UnstackFields
<1>2. ASSUME p \notin Blocks(h.astack)
      PROVE  Range(h.astack) = {n \in Range(h.astack) : n.block # p}
  BY <1>0, <1>2, BlocksOf
<1>3. CASE p \in Blocks(h.astack) /\ ty \in {"alloca", "dealloca"}
  <2>1. /\ Unstack(h, p).astack = Only(h.astack, Addresses \ {p})
        /\ Unstack(h, p).slots.alloca = h.slots.alloca - 1
    BY <1>3, UnstackFields
  <2>2. /\ Range(Unstack(h, p).astack)
             = {n \in Range(h.astack) : n.block \in Addresses \ {p}}
        /\ Distinct(Unstack(h, p).astack)
    BY <1>0, <2>1, OnlyFacts DEF StackRight
  <2>3. Range(Unstack(h, p).astack) = {n \in Range(h.astack) : n.block # p}
    BY <1>0, <2>2, BlocksOf DEF StackNodes
  <2>4. Len(Unstack(h, p).astack) = Len(h.astack) - 1
    BY <1>0, <1>3, <2>1, OneLess DEF StackRight
  <2> QED BY <1>1, <1>3, <2>1, <2>2, <2>3, <2>4 DEF Unstacked
<1>4. CASE p \notin Blocks(h.astack) /\ ty \in {"alloca", "dealloca"}
  BY <1>1, <1>2, <1>4, UnstackFields DEF Unstacked, StackRight
<1>5. CASE ty \notin {"alloca", "dealloca"}
  <2>1. p \notin Blocks(h.astack)
    BY <1>5 DEF StackRight, AllocaBlocks, Compatible
  <2> QED BY <1>2, <1>5, <2>1 DEF Unstacked, StackRight
<1> QED BY <1>3, <1>4, <1>5

\* The information nodes when the details of freed blocks are not kept.
LEMMA DroppedInfo ==
  ASSUME NEW h \in State, FlistRight(h), NEW p \in Live(h), NEW g \in State,
         g.info = Without(h.info, p), g.flist = h.flist
  PROVE  /\ Live(g) = Live(h) \ {p} /\ \A q \in Live(g) : g.info[q] = h.info[q]
         /\ FlistRight(g) /\ DOMAIN g.info = DOMAIN h.info \ {p}
<1>1. /\ DOMAIN g.info = DOMAIN h.info \ {p}
      /\ \A q \in DOMAIN h.info \ {p} : g.info[q] = h.info[q]
  <2>1. h.info \in Infos
    BY StateFacts
  <2> QED BY <2>1, WithoutFacts
<1>2. Live(g) = Live(h) \ {p} /\ Freed(g) = Freed(h)
  BY <1>1 DEF Live, Freed
<1>3. \A q \in Live(g) : g.info[q] = h.info[q]
  BY <1>1 DEF Live
<1>4. FlistRight(g)
  BY <1>2 DEF FlistRight
<1> QED BY <1>1, <1>2, <1>3, <1>4

\* The information nodes when they are, and the oldest is let go.
LEMMA KeptInfo ==
  ASSUME NEW h \in State, FlistRight(h), NEW p \in Live(h), NEW g \in State,
         FMAX > 0, g.info = With(Rest(h), p, FreedNode), g.flist = Queue(h, p)
  PROVE  /\ Live(g) = Live(h) \ {p} /\ \A q \in Live(g) : g.info[q] = h.info[q]
         /\ FlistRight(g)
<1> DEFINE full == h.flist # <<>> /\ Len(h.flist) = FMAX
           s == IF full THEN Tail(h.flist) ELSE h.flist
           old == IF full THEN {Head(h.flist)} ELSE {}
<1>0. /\ h.flist \in Seq(Addresses) /\ Len(h.flist) \in Nat /\ h.info \in Infos
      /\ FMAX \in Nat /\ p \in Addresses /\ p \notin Freed(h) /\ Live(h) \subseteq DOMAIN h.info
  BY StateFacts, BlocksAssumption DEF State, Queues
<1>1. /\ s \in Seq(Addresses) /\ Len(s) < FMAX
      /\ \A j, k \in 1..Len(s) : s[j] = s[k] => j = k
      /\ Range(s) = Freed(h) \ old /\ old \subseteq Freed(h)
  <2>1. CASE full
    <3>1. /\ s = Tail(h.flist) /\ s \in Seq(Addresses) /\ Len(s) = Len(h.flist) - 1
          /\ \A k \in 1..Len(s) : s[k] = h.flist[k + 1]
          /\ Head(h.flist) = h.flist[1]
      BY <1>0, <2>1
    <3>2. \A j, k \in 1..Len(s) : s[j] = s[k] => j = k
      <4> SUFFICES ASSUME NEW j \in 1..Len(s), NEW k \in 1..Len(s), s[j] = s[k]
                   PROVE  j = k
        OBVIOUS
      <4>1. j + 1 \in 1..Len(h.flist) /\ k + 1 \in 1..Len(h.flist)
        BY <1>0, <3>1
      <4>2. j + 1 = k + 1
        BY <3>1, <4>1 DEF FlistRight
      <4> QED BY <4>2
    <3>3. Range(s) = Range(h.flist) \ {h.flist[1]}
      <4>1. ASSUME NEW x \in Range(s) PROVE x \in Range(h.flist) \ {h.flist[1]}
        <5>1. PICK k \in 1..Len(s) : x = s[k]
          BY <3>1 DEF Range
        <5>2. k + 1 \in 1..Len(h.flist) /\ 1 \in 1..Len(h.flist) /\ k + 1 # 1
          BY <1>0, <3>1
        <5> QED BY <3>1, <5>1, <5>2 DEF FlistRight, Range
      <4>2. ASSUME NEW x \in Range(h.flist) \ {h.flist[1]} PROVE x \in Range(s)
        <5>1. PICK k \in 1..Len(h.flist) : x = h.flist[k] /\ k # 1
          BY DEF Range
        <5>2. k - 1 \in 1..Len(s) /\ s[k - 1] = h.flist[k]
          BY <1>0, <3>1, <5>1
        <5>3. k - 1 \in DOMAIN s
          BY <3>1, <5>2
        <5> HIDE DEF s
        <5> QED BY <5>1, <5>2, <5>3 DEF Range
      <4> QED BY <4>1, <4>2
    <3>4. h.flist[1] \in Range(h.flist)
      BY <1>0, <2>1 DEF Range
    <3>5. Len(h.flist) = FMAX /\ Range(h.flist) = Freed(h) /\ old = {h.flist[1]}
      BY <2>1, <3>1 DEF FlistRight
    <3> HIDE DEF s, old
    <3> QED BY <1>0, <3>1, <3>2, <3>3, <3>4, <3>5
  <2>2. CASE ~full
    <3>1. Len(h.flist) < FMAX
      <4>1. CASE h.flist = <<>>
        BY <4>1
      <4>2. CASE h.flist # <<>>
        BY <1>0, <2>2, <4>2 DEF FlistRight
      <4> QED BY <4>1, <4>2
    <3> QED BY <1>0, <2>2, <3>1 DEF FlistRight
  <2> QED BY <2>1, <2>2
<1>2. g.flist = Append(s, p) /\ Rest(h) \in Infos
      /\ DOMAIN Rest(h) = DOMAIN h.info \ old
      /\ \A q \in DOMAIN Rest(h) : Rest(h)[q] = h.info[q]
  BY <1>0, WithoutFacts DEF Queue, Rest
<1> HIDE DEF s, old
<1>3. /\ DOMAIN g.info = (DOMAIN h.info \ old) \cup {p} /\ g.info[p] = FreedNode
      /\ \A q \in (DOMAIN h.info \ old) \ {p} : g.info[q] = h.info[q]
  <2>1. FreedNode \in Nodes /\ p \in Addresses /\ Rest(h) \in Infos
    BY <1>0, <1>2, NodeFacts
  <2> DEFINE w == With(Rest(h), p, FreedNode)
  <2>2. /\ DOMAIN w = DOMAIN Rest(h) \cup {p} /\ w[p] = FreedNode
        /\ \A q \in DOMAIN Rest(h) \ {p} : w[q] = Rest(h)[q]
    BY DEF With
  <2> HIDE DEF w
  <2> QED BY <1>2, <2>2 DEF w
<1>4. /\ Live(g) = Live(h) \ {p} /\ Freed(g) = (Freed(h) \ old) \cup {p}
      /\ \A q \in Live(g) : g.info[q] = h.info[q]
  <2>1. FreedNode.kind = "freed"
    BY NodeFacts
  <2>2. old \subseteq Freed(h)
    BY <1>1
  <2> QED BY <1>0, <1>3, <2>1, <2>2 DEF Live, Freed
<1>5. FlistRight(g)
  <2> DEFINE a == Append(s, p)
  <2>1. /\ Len(a) = Len(s) + 1 /\ a[Len(s) + 1] = p /\ Len(s) \in Nat
        /\ \A k \in 1..Len(s) : a[k] = s[k]
        /\ DOMAIN a = 1..Len(s) + 1 /\ DOMAIN s = 1..Len(s)
    BY <1>0, <1>1
  <2> HIDE DEF a
  <2>2. Range(a) = Range(s) \cup {p}
    BY <2>1 DEF Range
  <2>3. p \notin Range(s)
    BY <1>0, <1>1
  <2>4. \A j, k \in 1..Len(a) : a[j] = a[k] => j = k
    <3>1. \A k \in 1..Len(s) : s[k] # p
      BY <2>1, <2>3 DEF Range
    <3> QED BY <1>1, <2>1, <3>1
  <2>5. Len(a) <= FMAX
    BY <1>0, <1>1, <2>1
  <2>6. Range(a) = Freed(g)
    BY <1>1, <1>4, <2>2
  <2>7. g.flist = a
    BY <1>2 DEF a
  <2> QED BY <2>4, <2>5, <2>6, <2>7 DEF FlistRight
<1> QED BY <1>4, <1>5

-----------------------------------------------------------------------------
(***************************************************************************)
(* Sums of sizes                                                           *)
(***************************************************************************)
LEMMA SameSizes ==
  ASSUME NEW h \in State, NEW g \in State, NEW S, S \subseteq DOMAIN h.info,
         S \subseteq DOMAIN g.info, \A q \in S : g.info[q].size = h.info[q].size
  PROVE  /\ SumOf(Sizes(g), S) = SumOf(Sizes(h), S) /\ SumOf(Sizes(h), S) \in Nat
         /\ IsFiniteSet(S)
<1>1. \A q \in S : Sizes(h)[q] = Sizes(g)[q] /\ Sizes(h)[q] \in Nat
  BY StateFacts
<1>2. IsFiniteSet(S)
  BY StateFacts, FS_Subset
<1>3. \A q \in S : Sizes(h)[q] \in Int
  BY <1>1
<1>4. SumOf(Sizes(h), S) = SumOf(Sizes(g), S)
  BY <1>1, <1>2, <1>3, SumSame
<1> QED BY <1>1, <1>2, <1>4, SumNat

\* The block p of S has become the block q of T, perhaps with another size.
Swapped(h, g, S, T, p, q) ==
    /\ p \in S /\ q \in T /\ S \ {p} = T \ {q}
    /\ S \subseteq DOMAIN h.info /\ T \subseteq DOMAIN g.info
    /\ \A x \in S \ {p} : g.info[x].size = h.info[x].size
SwappedSums(h, g, S, T, p, q) ==
    /\ SumOf(Sizes(g), T) = SumOf(Sizes(h), S) - h.info[p].size + g.info[q].size
    /\ Cardinality(T) = Cardinality(S)

LEMMA ReplacedSize ==
  ASSUME NEW h \in State, NEW g \in State, NEW S, NEW T, NEW p, NEW q,
         Swapped(h, g, S, T, p, q)
  PROVE  SwappedSums(h, g, S, T, p, q)
<1> USE DEF Swapped
<1> DEFINE R == S \ {p}
<1>1. IsFiniteSet(S) /\ IsFiniteSet(T) /\ IsFiniteSet(R)
  BY StateFacts, FS_Subset
<1>2. /\ SumOf(Sizes(g), R) = SumOf(Sizes(h), R) /\ SumOf(Sizes(h), R) \in Nat
  BY SameSizes
<1>3. SumOf(Sizes(h), S) = h.info[p].size + SumOf(Sizes(h), R)
  <2>1. (\A x \in S : Sizes(h)[x] \in Int) /\ Sizes(h)[p] = h.info[p].size
    BY StateFacts
  <2> QED BY <1>1, <2>1, SumRemove
<1>4. SumOf(Sizes(g), T) = g.info[q].size + SumOf(Sizes(g), T \ {q})
  <2>1. (\A x \in T : Sizes(g)[x] \in Int) /\ Sizes(g)[q] = g.info[q].size
    BY StateFacts
  <2> QED BY <1>1, <2>1, SumRemove
<1>5. Cardinality(T) = Cardinality(S)
  <2>1. Cardinality(R) = Cardinality(S) - 1 /\ Cardinality(S) \in Nat
    BY <1>1, FS_RemoveElement, FS_CardinalityType
  <2>2. Cardinality(T \ {q}) = Cardinality(T) - 1 /\ Cardinality(T) \in Nat
    BY <1>1, FS_RemoveElement, FS_CardinalityType
  <2>3. Cardinality(T \ {q}) = Cardinality(R)
    OBVIOUS
  <2> HIDE DEF R
  <2> QED BY <2>1, <2>2, <2>3
<1>6. h.info[p].size \in Nat /\ g.info[q].size \in Nat
  BY StateFacts
<1>7. SumOf(Sizes(g), T \ {q}) = SumOf(Sizes(g), R)
  OBVIOUS
<1> HIDE DEF R
<1> QED BY <1>2, <1>3, <1>4, <1>5, <1>6, <1>7 DEF SwappedSums

LEMMA AsizeNat == ASSUME NEW h \in State PROVE Asize(h) \in Nat
  BY SameSizes, StateFacts DEF Asize

-----------------------------------------------------------------------------
\* The block is freed by one of its own functions: the books stay right.
LEMMA FreedSound ==
  ASSUME NEW h, NEW m, Sound(h, m), NEW p \in Live(h), NEW ty,
         Compatible(h.info[p].type, ty), ~h.info[p].marked
  PROVE  LET g == FreedState(h, p, ty)
         IN  Sound(g, m) /\ Freeing(h, g, {p})
<1> DEFINE u == Unstacked(h, p, ty)
           g == FreedState(h, p, ty)
<1>1. /\ h \in State /\ FlistRight(h) /\ StackRight(h) /\ SlotsRight(h)
      /\ MarksRight(h, m) /\ h.slots.alloca = Len(h.astack)
  BY DEF Sound, SlotsRight
<1>2. /\ u \in State /\ u.info = h.info /\ u.flist = h.flist
      /\ u.mtotal = h.mtotal /\ u.slots.info = h.slots.info
      /\ Range(u.astack) = {n \in Range(h.astack) : n.block # p}
      /\ u.slots.alloca = Len(u.astack) /\ Distinct(u.astack)
  BY <1>1, UnstackedEffect
<1>3. p \in Addresses /\ p \in Live(u) /\ FlistRight(u) /\ Live(u) = Live(h)
  BY <1>1, <1>2, StateFacts DEF Live, FlistRight, Freed
<1> HIDE DEF u
<1>4. /\ g \in State /\ FlistRight(g) /\ g.astack = u.astack
      /\ g.mtotal = h.mtotal /\ g.slots.alloca = u.slots.alloca
      /\ Live(g) = Live(h) \ {p} /\ \A q \in Live(g) : g.info[q] = h.info[q]
      /\ FMAX = 0 => /\ g.slots.info = h.slots.info - 1
                     /\ DOMAIN g.info = DOMAIN h.info \ {p}
      /\ FMAX > 0 => g.slots.info = h.slots.info
  <2>1. CASE FMAX = 0
    <3>1. g = Dropped(u, p)
      BY <2>1 DEF FreedState, u
    <3> HIDE DEF g
    <3>2. /\ g \in State /\ g.info = Without(u.info, p) /\ g.flist = u.flist
          /\ g.astack = u.astack /\ g.slots.info = u.slots.info - 1
          /\ g.slots.alloca = u.slots.alloca /\ g.mtotal = u.mtotal
      BY <1>2, <3>1, DroppedFields
    <3>3. /\ Live(g) = Live(u) \ {p} /\ \A q \in Live(g) : g.info[q] = u.info[q]
          /\ FlistRight(g) /\ DOMAIN g.info = DOMAIN u.info \ {p}
      <4>1. /\ u \in State /\ FlistRight(u) /\ p \in Live(u) /\ g \in State
            /\ g.info = Without(u.info, p) /\ g.flist = u.flist
        BY <1>2, <1>3, <3>2
      <4> QED BY <4>1, DroppedInfo, Zenon
    <3> QED BY <1>2, <1>3, <2>1, <3>2, <3>3
  <2>2. CASE FMAX > 0
    <3>1. g = Keep(u, p)
      BY <2>2 DEF FreedState, u
    <3> HIDE DEF g
    <3>2. /\ g \in State /\ g.info = With(Rest(u), p, FreedNode)
          /\ g.flist = Queue(u, p) /\ g.astack = u.astack
          /\ g.slots = u.slots /\ g.mtotal = u.mtotal
      BY <1>2, <1>3, <3>1, KeepFields
    <3>3. /\ Live(g) = Live(u) \ {p} /\ \A q \in Live(g) : g.info[q] = u.info[q]
          /\ FlistRight(g)
      BY <1>2, <1>3, <2>2, <3>2, KeptInfo
    <3> QED BY <1>2, <1>3, <2>2, <3>2, <3>3
  <2> QED BY <2>1, <2>2, BlocksAssumption
<1> HIDE DEF g
<1>5. Freeing(h, g, {p})
  BY <1>2, <1>4 DEF Freeing
<1>6. AllocaBlocks(g) = AllocaBlocks(h) \ {p} /\ Marked(g) = Marked(h)
  BY <1>4 DEF AllocaBlocks, Marked
<1>7. StackRight(g)
  <2>1. h.astack \in Stacks /\ g.astack \in Stacks
    BY <1>1, <1>4 DEF State
  <2>2. Blocks(g.astack) = Blocks(h.astack) \ {p}
    BY <1>2, <1>4, <2>1, BlocksOf
  <2> QED BY <1>1, <1>2, <1>4, <1>6, <2>2 DEF StackRight
<1>8. SlotsRight(g)
  <2>1. CASE FMAX = 0
    <3>1. IsFiniteSet(DOMAIN h.info) /\ p \in DOMAIN h.info
      BY <1>1, StateFacts
    <3>2. /\ Cardinality(DOMAIN h.info) \in Nat
          /\ Cardinality(DOMAIN g.info) \in Nat
          /\ Cardinality(DOMAIN g.info) = Cardinality(DOMAIN h.info) - 1
      BY <1>4, <2>1, <3>1, FS_RemoveElement, FS_CardinalityType
    <3>3. h.slots.info \in 0..INFOS /\ h.slots.info = Cardinality(DOMAIN h.info)
      BY <1>1, <2>1 DEF SlotsRight
    <3>4. g.slots.info \in 0..INFOS
      BY <1>4, <2>1, <3>2, <3>3, BlocksAssumption
    <3> QED BY <1>2, <1>4, <2>1, <3>2, <3>3, <3>4 DEF SlotsRight
  <2>2. CASE FMAX > 0
    BY <1>1, <1>2, <1>4, <2>2 DEF SlotsRight
  <2> QED BY <2>1, <2>2, BlocksAssumption
<1>9. MarksRight(g, m)
  <2>1. SumOf(Sizes(g), Marked(h)) = SumOf(Sizes(h), Marked(h))
    <3>1. /\ Marked(h) \subseteq DOMAIN h.info /\ Marked(h) \subseteq DOMAIN g.info
          /\ \A q \in Marked(h) : g.info[q].size = h.info[q].size
      BY <1>1, <1>4, <1>6, StateFacts
    <3> QED BY <1>1, <1>4, <3>1, SameSizes
  <2>2. \A q \in AllocaBlocks(g) : ~g.info[q].marked
    BY <1>1, <1>4, <1>6 DEF MarksRight, AllocaBlocks
  <2> QED BY <1>1, <1>4, <1>6, <2>1, <2>2 DEF MarksRight
<1> QED BY <1>4, <1>5, <1>7, <1>8, <1>9 DEF Sound, g

Results(m) == {r \in [state : State, ret : Addresses \cup {NULL}, errors : SUBSET Errors] :
                   Sound(r.state, m)}

LEMMA ResultFacts ==
  ASSUME NEW h, NEW m, Sound(h, m), NEW ret \in Addresses \cup {NULL},
         NEW errors \in SUBSET Errors
  PROVE  /\ Result(h, ret, errors) \in Results(m)
         /\ Result(h, ret, errors).state = h /\ Result(h, ret, errors).ret = ret
         /\ Result(h, ret, errors).errors = errors
<1>1. h \in State
  BY DEF Sound
<1> QED BY <1>1 DEF Result, Results

Freeable(h, p, inside, ty) ==
    /\ p \in Live(h) /\ ~inside /\ ~h.info[p].marked
    /\ Compatible(h.info[p].type, ty)

\* __mp_freememory() frees the block or changes nothing; it does the former if and
\* only if it finds no error.
FreeOutcome(h, m, p, inside, ty, r) ==
    /\ r \in Results(m) /\ r.ret = NULL
    /\ p = NULL => r.errors = {}
    /\ p # NULL => (Freeable(h, p, inside, ty) <=> r.errors = {})
    /\ Freeable(h, p, inside, ty) => Freeing(h, r.state, {p})
    /\ ~Freeable(h, p, inside, ty) => r.state = h

LEMMA FreeMemoryEffect ==
  ASSUME NEW h, NEW m, Sound(h, m), NEW p \in Addresses \cup {NULL},
         NEW inside \in BOOLEAN, NEW ty
  PROVE  FreeOutcome(h, m, p, inside, ty, FreeMemory(h, p, inside, ty))
<1> DEFINE sound == Freeable(h, p, inside, ty)
           errors == IF p = NULL THEN {}
                     ELSE IF Unknown(h, p, inside) # {} THEN Unknown(h, p, inside)
                     ELSE IF ~Compatible(h.info[p].type, ty) THEN {"INCOMP"}
                     ELSE IF h.info[p].marked THEN {"FREMRK"} ELSE {}
           g == FreedState(h, p, ty)
           s == IF p = NULL \/ errors # {} THEN h ELSE g
           r == FreeMemory(h, p, inside, ty)
<1>1. r = Result(s, NULL, errors)
  BY DEF FreeMemory, FreedState, Unstacked, Dropped
<1>2. errors \in SUBSET Errors
  BY DEF Unknown, Errors
<1>3. h \in State /\ Live(h) \cup Freed(h) = DOMAIN h.info
      /\ Live(h) \cap Freed(h) = {} /\ DOMAIN h.info \subseteq Addresses
  BY StateFacts DEF Sound
<1>4. p # NULL => (sound <=> errors = {})
  BY <1>3 DEF Unknown, Freeable
<1>5. sound => p # NULL /\ Sound(g, m) /\ Freeing(h, g, {p})
  BY <1>3, FreedSound, BlocksAssumption DEF Freeable
<1>6. p = NULL => errors = {} /\ ~sound
  BY <1>3, BlocksAssumption DEF Freeable
<1> HIDE DEF errors, g, sound
<1>7. Sound(s, m)
  BY <1>4, <1>5
<1>8. (sound => s = g) /\ (~sound => s = h)
  BY <1>4, <1>5, <1>6
<1> HIDE DEF s, r
<1>9. r \in Results(m) /\ r.ret = NULL /\ r.errors = errors /\ r.state = s
  BY <1>1, <1>2, <1>7, ResultFacts
<1>10. FreeOutcome(h, m, p, inside, ty, r)
  BY <1>4, <1>5, <1>6, <1>8, <1>9 DEF FreeOutcome, sound
<1> QED BY <1>10 DEF r

-----------------------------------------------------------------------------
(***************************************************************************)
(* checkalloca()                                                           *)
(***************************************************************************)
One(r, p) == LET q == FreeMemory(r.state, p, FALSE, "alloca")
             IN  Result(q.state, NULL, r.errors \cup q.errors)
Done(h, stack, f) ==
    f = [k \in 0..Len(stack) |-> IF k = 0 THEN Result(h, NULL, {})
                                 ELSE One(f[k - 1], stack[k].block)]

LEMMA OneResult ==
  ASSUME NEW m, NEW r \in Results(m), NEW p \in Addresses
  PROVE  /\ One(r, p) \in Results(m) /\ One(r, p).ret = NULL
         /\ p \in AllocaBlocks(r.state) =>
                /\ One(r, p).errors = r.errors
                /\ Freeing(r.state, One(r, p).state, {p})
<1> DEFINE q == FreeMemory(r.state, p, FALSE, "alloca")
<1>1. Sound(r.state, m) /\ r.errors \in SUBSET Errors /\ r.state \in State
  BY DEF Results
<1>2. /\ q \in Results(m) /\ q.ret = NULL
      /\ (/\ p \in Live(r.state) /\ ~r.state.info[p].marked
          /\ Compatible(r.state.info[p].type, "alloca"))
         => q.errors = {} /\ Freeing(r.state, q.state, {p})
  <2>1. p \in Addresses \cup {NULL} /\ p # NULL /\ FALSE \in BOOLEAN
    BY BlocksAssumption
  <2>2. FreeOutcome(r.state, m, p, FALSE, "alloca", q)
    BY <1>1, <2>1, FreeMemoryEffect
  <2> HIDE DEF q
  <2> QED BY <2>1, <2>2 DEF FreeOutcome, Freeable
<1> HIDE DEF q
<1>3. Sound(q.state, m) /\ q.errors \in SUBSET Errors
  BY <1>2 DEF Results
<1>4. One(r, p) = Result(q.state, NULL, r.errors \cup q.errors)
  BY DEF One, q
<1>5. r.errors \cup q.errors \in SUBSET Errors
  BY <1>1, <1>3
<1>6. /\ One(r, p) \in Results(m) /\ One(r, p).ret = NULL
      /\ One(r, p).state = q.state /\ One(r, p).errors = r.errors \cup q.errors
  BY <1>3, <1>4, <1>5, ResultFacts
<1>7. p \in AllocaBlocks(r.state) =>
          /\ p \in Live(r.state) /\ ~r.state.info[p].marked
          /\ Compatible(r.state.info[p].type, "alloca")
  BY <1>1 DEF AllocaBlocks, Sound, MarksRight, Compatible
<1> QED BY <1>2, <1>6, <1>7

LEMMA DoneExists ==
  ASSUME NEW h, NEW m, Sound(h, m), NEW stack \in Stacks
  PROVE  \E f : Done(h, stack, f) /\ \A k \in 0..Len(stack) : f[k] \in Results(m)
<1> DEFINE V == Results(m)
           n == Len(stack)
           b == Result(h, NULL, {})
           step == [k \in 1..n |-> [r \in V |-> One(r, stack[k].block)]]
<1>1. n \in Nat /\ \A k \in 1..n : stack[k].block \in Addresses
  BY StackBlocks
<1>2. b \in V
  BY ResultFacts
<1>3. \A k \in 1..n, r \in V : One(r, stack[k].block) \in V
  BY <1>1, OneResult
<1> HIDE DEF V, n, b
<1>4. step \in [1..n -> [V -> V]]
  BY <1>3
<1>5. \A k \in 1..n, r \in V : step[k][r] = One(r, stack[k].block)
  OBVIOUS
<1> HIDE DEF step
<1>6. PICK f \in [0..n -> V] : Unrolls(f, n, b, step)
  BY <1>1, <1>2, <1>4, Recursion
<1>7. \A k \in 1..n : f[k] = One(f[k - 1], stack[k].block)
  BY <1>1, <1>5, <1>6 DEF Unrolls
<1>8. f = [k \in 0..n |-> IF k = 0 THEN b ELSE One(f[k - 1], stack[k].block)]
  BY <1>6, <1>7 DEF Unrolls
<1>9. \A k \in 0..n : f[k] \in V
  BY <1>6
<1> QED BY <1>8, <1>9 DEF Done, n, b, V

LEMMA FreeingMore ==
  ASSUME NEW h, NEW g, NEW f, NEW B, NEW p, Freeing(h, g, B), Freeing(g, f, {p})
  PROVE  Freeing(h, f, B \cup {p})
  BY DEF Freeing

\* All that is on the stack is freed, without an error.
AllOutcome(h, m, B, r) ==
    r \in Results(m) /\ r.ret = NULL /\ r.errors = {} /\ Freeing(h, r.state, B)

LEMMA FreeAllEffect ==
  ASSUME NEW h, NEW m, Sound(h, m), NEW stack \in Stacks, Distinct(stack),
         Blocks(stack) \subseteq AllocaBlocks(h)
  PROVE  AllOutcome(h, m, Blocks(stack), FreeAll(h, stack))
<1> DEFINE f == CHOOSE f : Done(h, stack, f)
           B(n) == {stack[k].block : k \in 1..n}
           N == {n \in Nat : n <= Len(stack) => AllOutcome(h, m, B(n), f[n])}
<1>1. Done(h, stack, f)
  BY DoneExists
<1>2. FreeAll(h, stack) = f[Len(stack)]
  BY DEF FreeAll, Done, One
<1> HIDE DEF f
<1>3. Len(stack) \in Nat /\ \A k \in 1..Len(stack) : stack[k].block \in Addresses
  BY StackBlocks
<1>4. 0 \in N
  <2>1. f[0] = Result(h, NULL, {})
    BY <1>1, <1>3 DEF Done
  <2>2. B(0) = {}
    OBVIOUS
  <2>3. Freeing(h, h, {})
    BY DEF Freeing
  <2>4. /\ f[0] \in Results(m) /\ f[0].ret = NULL /\ f[0].errors = {}
        /\ f[0].state = h
    BY <2>1, ResultFacts
  <2>5. AllOutcome(h, m, B(0), f[0])
    <3> HIDE DEF B
    <3> QED BY <2>2, <2>3, <2>4 DEF AllOutcome
  <2> QED BY <2>5
<1>5. ASSUME NEW n \in Nat, n + 1 <= Len(stack), AllOutcome(h, m, B(n), f[n])
      PROVE  AllOutcome(h, m, B(n + 1), f[n + 1])
  <2> DEFINE p == stack[n + 1].block
             r == f[n]
  <2>1. n + 1 \in 1..Len(stack) /\ p \in Addresses
    BY <1>3, <1>5
  <2>2. f[n + 1] = One(r, p)
    BY <1>1, <2>1 DEF Done
  <2>3. B(n + 1) = B(n) \cup {p}
    OBVIOUS
  <2>4. p \notin B(n)
    BY <1>5, <2>1 DEF Distinct
  <2>5. p \in AllocaBlocks(h)
    BY <2>1 DEF Blocks
  <2> HIDE DEF p, r, B
  <2>6. r \in Results(m) /\ r.errors = {} /\ Freeing(h, r.state, B(n))
    BY <1>5 DEF AllOutcome, r
  <2>7. p \in AllocaBlocks(r.state)
    BY <2>4, <2>5, <2>6 DEF Freeing, AllocaBlocks
  <2>8. /\ One(r, p) \in Results(m) /\ One(r, p).ret = NULL
        /\ One(r, p).errors = r.errors /\ Freeing(r.state, One(r, p).state, {p})
    BY <2>1, <2>6, <2>7, OneResult
  <2>9. Freeing(h, One(r, p).state, B(n) \cup {p})
    BY <2>6, <2>8, FreeingMore
  <2> QED BY <2>2, <2>3, <2>6, <2>8, <2>9 DEF AllOutcome
<1>6. \A n \in Nat : n \in N => n + 1 \in N
  <2> HIDE DEF B
  <2> QED BY <1>5
<1> HIDE DEF N
<1>7. Len(stack) \in N
  BY <1>3, <1>4, <1>6, Induction
<1>8. AllOutcome(h, m, B(Len(stack)), f[Len(stack)])
  <2> HIDE DEF B
  <2> QED BY <1>3, <1>7 DEF N
<1> QED BY <1>2, <1>8 DEF Blocks

\* The blocks of functions that have returned, as far as a call in thread t tells.
Over(h, t) ==
    {n.block : n \in {x \in Range(h.astack) : OutOfScope(x.frame, Chain(t))}}

LEMMA CheckAllocaEffect ==
  ASSUME NEW h, NEW m, Sound(h, m), NEW t, NEW nested \in BOOLEAN
  PROVE  AllOutcome(h, m, IF nested THEN {} ELSE Over(h, t), CheckAlloca(h, t, nested))
<1>1. CASE nested
  <2>1. CheckAlloca(h, t, nested) = Result(h, NULL, {})
    BY <1>1 DEF CheckAlloca
  <2>2. Freeing(h, h, {})
    BY DEF Freeing
  <2>3. /\ Result(h, NULL, {}) \in Results(m) /\ Result(h, NULL, {}).ret = NULL
        /\ Result(h, NULL, {}).errors = {} /\ Result(h, NULL, {}).state = h
    BY ResultFacts
  <2> QED BY <1>1, <2>1, <2>2, <2>3 DEF AllOutcome
<1>2. CASE ~nested
  <2> DEFINE over == {k \in 1..Len(h.astack) : OutOfScope(h.astack[k].frame, Chain(t))}
             B == {h.astack[k].block : k \in over}
             e == Only(h.astack, B)
  <2>1. CheckAlloca(h, t, nested) = FreeAll(h, e)
    BY <1>2 DEF CheckAlloca, Ended
  <2>2. h.astack \in Stacks /\ StackRight(h)
    BY DEF Sound, State
  <2>3. B = Over(h, t) /\ B \subseteq Blocks(h.astack)
    <3>1. DOMAIN h.astack = 1..Len(h.astack)
      BY <2>2, StackBlocks
    <3> QED BY <3>1 DEF Over, Range, Blocks
  <2> HIDE DEF B
  <2>4. /\ e \in Seq(StackNodes)
        /\ Range(e) = {n \in Range(h.astack) : n.block \in B}
        /\ Distinct(e)
    BY <2>2, OnlyFacts DEF Stacks, StackRight
  <2> HIDE DEF e
  <2>5. e \in Stacks
    BY <2>4 DEF Stacks
  <2>6. Blocks(e) = B
    <3>1. /\ Blocks(e) = {n.block : n \in Range(e)}
          /\ Blocks(h.astack) = {n.block : n \in Range(h.astack)}
      BY <2>2, <2>5, BlocksOf
    <3> QED BY <2>3, <2>4, <3>1
  <2>7. Blocks(e) \subseteq AllocaBlocks(h)
    BY <2>2, <2>3, <2>6 DEF StackRight
  <2>8. AllOutcome(h, m, Blocks(e), FreeAll(h, e))
    BY <2>4, <2>5, <2>7, FreeAllEffect
  <2> QED BY <1>2, <2>1, <2>3, <2>6, <2>8
<1> QED BY <1>1, <1>2

-----------------------------------------------------------------------------
(***************************************************************************)
(* What getting memory does                                                *)
(***************************************************************************)
NewNode(l, ty) == [kind |-> "live", type |-> NewType(ty), size |-> AtLeastOne(l),
                   marked |-> FALSE]
NewStacked(t, p, ty) ==
    IF ty = "alloca" THEN {[block |-> p, frame |-> Chain(t)]} ELSE {}

\* There is one more block, and one more node on the stack if it is there.
Adding(h, g, p, d, new) ==
    /\ Live(g) = Live(h) \cup {p}
    /\ g.info[p] = d /\ \A q \in Live(h) : g.info[q] = h.info[q]
    /\ Range(g.astack) = Range(h.astack) \cup new

LEMMA NewNodeFacts ==
  ASSUME NEW l \in Nat, NEW ty
  PROVE  /\ NewNode(l, ty) \in Nodes /\ NewNode(l, ty).kind = "live"
         /\ NewNode(l, ty).type = NewType(ty) /\ NewType(ty) \in Kinds
         /\ (NewType(ty) = "alloca" <=> ty = "alloca")
         /\ NewNode(l, ty).size = AtLeastOne(l) /\ ~NewNode(l, ty).marked
         /\ AtLeastOne(l) \in Nat \ {0}
<1>1. AtLeastOne(l) \in Nat \ {0} /\ NewType(ty) \in Kinds
      /\ (NewType(ty) = "alloca" <=> ty = "alloca")
  BY DEF AtLeastOne, NewType, Kinds
<1> QED BY <1>1 DEF NewNode, Nodes

Blocked(h, p, d) == [h EXCEPT !.info = With(@, p, d), !.slots.info = @ + 1]
OnStack(x, t, p) ==
    [x EXCEPT !.astack = <<[block |-> p, frame |-> Chain(t)]>> \o @,
              !.slots.alloca = @ + 1]
Gotten(h, t, p, l, ty) ==
    IF ty = "alloca" THEN OnStack(Blocked(h, p, NewNode(l, ty)), t, p)
    ELSE Blocked(h, p, NewNode(l, ty))

LEMMA BlockedFields ==
  ASSUME NEW h \in State, NEW p \in Addresses, NEW d \in Nodes
  PROVE  /\ Blocked(h, p, d) \in State /\ Blocked(h, p, d).info = With(h.info, p, d)
         /\ Blocked(h, p, d).flist = h.flist /\ Blocked(h, p, d).astack = h.astack
         /\ Blocked(h, p, d).mtotal = h.mtotal
         /\ Blocked(h, p, d).slots.info = h.slots.info + 1
         /\ Blocked(h, p, d).slots.alloca = h.slots.alloca
<1> DEFINE i == With(h.info, p, d)
<1>1. i \in Infos
  BY WithFacts, StateFacts
<1>2. Blocked(h, p, d) = [h EXCEPT !.info = i, !.slots.info = @ + 1]
  BY DEF Blocked
<1> HIDE DEF i
<1> DEFINE g == [h EXCEPT !.info = i, !.slots.info = @ + 1]
<1>3. /\ g \in State /\ g.info = i /\ g.flist = h.flist
      /\ g.astack = h.astack /\ g.mtotal = h.mtotal
      /\ g.slots.alloca = h.slots.alloca
      /\ g.slots.info = h.slots.info + 1
  BY <1>1, SlotTaken
<1> HIDE DEF g
<1> QED BY <1>2, <1>3 DEF g, i

LEMMA OnStackFields ==
  ASSUME NEW x \in State, NEW t, NEW p \in Addresses, Chain(t) \in Seq(SITES)
  PROVE  /\ OnStack(x, t, p) \in State /\ OnStack(x, t, p).info = x.info
         /\ OnStack(x, t, p).flist = x.flist
         /\ OnStack(x, t, p).astack = <<[block |-> p, frame |-> Chain(t)]>> \o x.astack
         /\ OnStack(x, t, p).mtotal = x.mtotal
         /\ OnStack(x, t, p).slots.info = x.slots.info
         /\ OnStack(x, t, p).slots.alloca = x.slots.alloca + 1
<1> DEFINE n == [block |-> p, frame |-> Chain(t)]
           s == <<n>> \o x.astack
           g == [x EXCEPT !.astack = s, !.slots.alloca = @ + 1]
<1>1. s \in Stacks
  <2>1. n \in StackNodes /\ x.astack \in Seq(StackNodes)
    BY DEF StackNodes, State, Stacks
  <2> HIDE DEF n
  <2> QED BY <2>1 DEF Stacks
<1>2. OnStack(x, t, p) = g
  BY DEF OnStack
<1>3. /\ g \in State /\ g.info = x.info /\ g.flist = x.flist
      /\ g.astack = s /\ g.mtotal = x.mtotal
      /\ g.slots.info = x.slots.info
      /\ g.slots.alloca = x.slots.alloca + 1
  <2> HIDE DEF s
  <2> QED BY <1>1, StackTaken
<1> HIDE DEF g
<1> QED BY <1>2, <1>3

LEMMA PushFacts ==
  ASSUME NEW s \in Seq(StackNodes), NEW n \in StackNodes, n.block \notin Blocks(s)
  PROVE  /\ Len(<<n>> \o s) = Len(s) + 1
         /\ Range(<<n>> \o s) = Range(s) \cup {n}
         /\ Distinct(s) => Distinct(<<n>> \o s)
<1> DEFINE a == <<n>> \o s
<1>1. /\ Len(a) = Len(s) + 1 /\ Len(s) \in Nat /\ a[1] = n
      /\ \A k \in 2..Len(s) + 1 : a[k] = s[k - 1]
      /\ DOMAIN a = 1..Len(s) + 1 /\ DOMAIN s = 1..Len(s)
  OBVIOUS
<1> HIDE DEF a
<1>2. Range(a) = Range(s) \cup {n}
  <2>1. ASSUME NEW x \in Range(a) PROVE x \in Range(s) \cup {n}
    <3>1. PICK k \in 1..Len(s) + 1 : x = a[k]
      BY <1>1 DEF Range
    <3>2. CASE k = 1
      BY <1>1, <3>1, <3>2
    <3>3. CASE k # 1
      <4>1. k \in 2..Len(s) + 1 /\ k - 1 \in DOMAIN s
        BY <1>1, <3>3
      <4> QED BY <1>1, <3>1, <4>1 DEF Range
    <3> QED BY <3>2, <3>3
  <2>2. ASSUME NEW x \in Range(s) PROVE x \in Range(a)
    <3>1. PICK k \in 1..Len(s) : x = s[k]
      BY <1>1 DEF Range
    <3>2. k + 1 \in 2..Len(s) + 1 /\ (k + 1) - 1 = k /\ k + 1 \in DOMAIN a
      BY <1>1
    <3> QED BY <1>1, <3>1, <3>2 DEF Range
  <2>3. n \in Range(a)
    BY <1>1 DEF Range
  <2> QED BY <2>1, <2>2, <2>3
<1>3. ASSUME Distinct(s) PROVE Distinct(a)
  <2> SUFFICES ASSUME NEW j \in 1..Len(a), NEW k \in 1..Len(a),
                      a[j].block = a[k].block, j < k
               PROVE  FALSE
    BY <1>1 DEF Distinct
  <2>1. k \in 2..Len(s) + 1 /\ k - 1 \in 1..Len(s) /\ a[k] = s[k - 1]
    BY <1>1
  <2>2. CASE j = 1
    BY <1>1, <2>1, <2>2 DEF Blocks
  <2>3. CASE j # 1
    <3>1. j \in 2..Len(s) + 1 /\ j - 1 \in 1..Len(s) /\ a[j] = s[j - 1]
      BY <1>1, <2>3
    <3>2. s[j - 1].block = s[k - 1].block
      BY <2>1, <3>1
    <3>3. j - 1 = k - 1
      BY <1>3, <2>1, <3>1, <3>2 DEF Distinct
    <3> QED BY <3>3
  <2> QED BY <2>2, <2>3
<1> QED BY <1>1, <1>2, <1>3 DEF a

LEMMA GottenSound ==
  ASSUME NEW h, NEW m, Sound(h, m), NEW t, Chain(t) \in Seq(SITES),
         NEW p \in Addresses \ DOMAIN h.info, NEW l \in Nat, NEW ty,
         h.slots.info < INFOS
  PROVE  LET g == Gotten(h, t, p, l, ty)
         IN  /\ Sound(g, m)
             /\ Adding(h, g, p, NewNode(l, ty), NewStacked(t, p, ty))
<1> DEFINE d == NewNode(l, ty)
           b == Blocked(h, p, d)
           n == [block |-> p, frame |-> Chain(t)]
           g == Gotten(h, t, p, l, ty)
<1>1. /\ h \in State /\ FlistRight(h) /\ StackRight(h) /\ SlotsRight(h)
      /\ MarksRight(h, m) /\ h.slots.alloca = Len(h.astack)
      /\ h.astack \in Seq(StackNodes) /\ h.astack \in Stacks
  BY DEF Sound, SlotsRight, State, Stacks
<1>2. /\ d \in Nodes /\ d.kind = "live" /\ d.type = NewType(ty) /\ ~d.marked
      /\ (NewType(ty) = "alloca" <=> ty = "alloca")
  BY NewNodeFacts
<1>3. /\ Live(h) \cup Freed(h) = DOMAIN h.info /\ h.info \in Infos
      /\ IsFiniteSet(DOMAIN h.info) /\ Live(h) \subseteq DOMAIN h.info
      /\ Marked(h) \subseteq Live(h) /\ AllocaBlocks(h) \subseteq Live(h)
  BY <1>1, StateFacts
<1> HIDE DEF d
<1>4. /\ b \in State /\ b.info = With(h.info, p, d)
      /\ b.flist = h.flist /\ b.astack = h.astack
      /\ b.mtotal = h.mtotal /\ b.slots.info = h.slots.info + 1
      /\ b.slots.alloca = h.slots.alloca
  BY <1>1, <1>2, BlockedFields
<1> HIDE DEF b
<1>5. n \in StackNodes /\ n.block \notin Blocks(h.astack)
  BY <1>1, <1>3 DEF StackNodes, StackRight
<1>6. /\ g \in State /\ g.info = b.info /\ g.flist = h.flist /\ g.mtotal = h.mtotal
      /\ g.slots.info = h.slots.info + 1 /\ g.slots.alloca = Len(g.astack)
      /\ Range(g.astack) = Range(h.astack) \cup NewStacked(t, p, ty)
      /\ Distinct(g.astack)
  <2>1. CASE ty = "alloca"
    <3> DEFINE o == OnStack(b, t, p)
    <3>1. g = o
      BY <2>1 DEF Gotten, b, d
    <3>2. /\ o \in State /\ o.info = b.info /\ o.flist = b.flist
          /\ o.astack = <<n>> \o b.astack /\ o.mtotal = b.mtotal
          /\ o.slots.info = b.slots.info /\ o.slots.alloca = b.slots.alloca + 1
      BY <1>4, OnStackFields
    <3>3. /\ Len(<<n>> \o h.astack) = Len(h.astack) + 1
          /\ Range(<<n>> \o h.astack) = Range(h.astack) \cup {n}
          /\ Distinct(<<n>> \o h.astack)
      <4> HIDE DEF n
      <4> QED BY <1>1, <1>5, PushFacts DEF StackRight
    <3>4. NewStacked(t, p, ty) = {n}
      BY <2>1 DEF NewStacked
    <3> HIDE DEF o, n, g
    <3> QED BY <1>1, <1>4, <3>1, <3>2, <3>3, <3>4
  <2>2. CASE ty # "alloca"
    <3>1. g = b /\ NewStacked(t, p, ty) = {}
      BY <2>2 DEF Gotten, b, d, NewStacked
    <3> HIDE DEF g
    <3> QED BY <1>1, <1>4, <3>1 DEF StackRight
  <2> QED BY <2>1, <2>2
<1> HIDE DEF g
<1>7. /\ DOMAIN g.info = DOMAIN h.info \cup {p} /\ g.info[p] = d
      /\ \A q \in DOMAIN h.info : g.info[q] = h.info[q]
  BY <1>4, <1>6 DEF With
<1>8. /\ Live(g) = Live(h) \cup {p} /\ Freed(g) = Freed(h)
      /\ \A q \in Live(h) : g.info[q] = h.info[q]
  BY <1>2, <1>3, <1>7 DEF Live, Freed
<1>9. Adding(h, g, p, d, NewStacked(t, p, ty))
  BY <1>6, <1>7, <1>8 DEF Adding
<1>10. /\ Marked(g) = Marked(h)
       /\ AllocaBlocks(g) = AllocaBlocks(h) \cup (IF ty = "alloca" THEN {p} ELSE {})
  BY <1>2, <1>3, <1>7, <1>8 DEF Marked, AllocaBlocks
<1>11. StackRight(g)
  <2>1. g.astack \in Stacks
    BY <1>6 DEF State
  <2>2. /\ Blocks(g.astack) = {x.block : x \in Range(g.astack)}
        /\ Blocks(h.astack) = {x.block : x \in Range(h.astack)}
    BY <1>1, <2>1, BlocksOf
  <2>3. Blocks(g.astack)
            = Blocks(h.astack) \cup (IF ty = "alloca" THEN {p} ELSE {})
    <3>1. CASE ty = "alloca"
      <4>1. Range(g.astack) = Range(h.astack) \cup {n} /\ n.block = p
        BY <1>6, <3>1 DEF NewStacked
      <4> HIDE DEF n
      <4> QED BY <2>2, <3>1, <4>1
    <3>2. CASE ty # "alloca"
      BY <1>6, <2>2, <3>2 DEF NewStacked
    <3> QED BY <3>1, <3>2
  <2> QED BY <1>1, <1>6, <1>10, <2>3 DEF StackRight
<1>12. SlotsRight(g)
  <2>1. Cardinality(DOMAIN g.info) = Cardinality(DOMAIN h.info) + 1
    <3>1. p \notin DOMAIN h.info /\ IsFiniteSet(DOMAIN h.info)
      BY <1>3
    <3>2. Cardinality(DOMAIN h.info \cup {p}) = Cardinality(DOMAIN h.info) + 1
      BY <3>1, FS_AddElement
    <3> QED BY <1>7, <3>2, Zenon
  <2>2. g.slots.info \in 0..INFOS
    BY <1>1, <1>6, BlocksAssumption DEF SlotsRight
  <2> QED BY <1>1, <1>6, <2>1, <2>2 DEF SlotsRight
<1>13. MarksRight(g, m)
  <2>1. SumOf(Sizes(g), Marked(h)) = SumOf(Sizes(h), Marked(h))
    <3>1. /\ Marked(h) \subseteq DOMAIN h.info /\ Marked(h) \subseteq DOMAIN g.info
          /\ \A q \in Marked(h) : g.info[q].size = h.info[q].size
      BY <1>3, <1>7
    <3> QED BY <1>1, <1>6, <3>1, SameSizes
  <2>2. \A q \in AllocaBlocks(g) : ~g.info[q].marked
    BY <1>1, <1>2, <1>3, <1>7, <1>10 DEF MarksRight
  <2> QED BY <1>1, <1>6, <1>10, <2>1, <2>2 DEF MarksRight
<1>14. FlistRight(g)
  BY <1>1, <1>6, <1>8 DEF FlistRight
<1> QED BY <1>6, <1>9, <1>11, <1>12, <1>13, <1>14 DEF Sound, g, d

GetOutcome(h, m, t, l, ty, nested, r) ==
    /\ r \in Results(m) /\ r.errors = {}
    /\ r.ret = NULL => r.state = h
    /\ r.ret # NULL => /\ r.ret \in Addresses \ DOMAIN h.info
                       /\ ~Refused(h, l, nested)
                       /\ Adding(h, r.state, r.ret, NewNode(l, ty),
                                 NewStacked(t, r.ret, ty))

\* Whatever slots a failing call has got, it gives them back.
LEMMA SlotsKept ==
  ASSUME NEW h \in State, NEW l, NEW ty, NEW nested,
         NEW g \in SlotsGot(h, l, ty, nested)
  PROVE  [h EXCEPT !.slots = GivenBack(WithSlots(@, g), g)] = h
<1> DEFINE s == GivenBack(WithSlots(h.slots, g), g)
<1>1. h.slots \in SlotCounts /\ g.alloca \in {0, 1} /\ g.info \in {0, 1}
  BY DEF State, SlotsGot
<1>2. h.slots.info \in Int /\ h.slots.alloca \in Int
      /\ h.slots = [info |-> h.slots.info, alloca |-> h.slots.alloca]
  BY <1>1 DEF SlotCounts
<1>3. \A a \in Int, b \in {0, 1} : a + b - b = a
  OBVIOUS
<1>4. s = [alloca |-> h.slots.alloca, info |-> h.slots.info]
  BY <1>1, <1>2, <1>3 DEF GivenBack, WithSlots
<1>5. s = h.slots
  BY <1>2, <1>4
<1>6. [h EXCEPT !.slots = GivenBack(WithSlots(@, g), g)] = [h EXCEPT !.slots = s]
  OBVIOUS
<1> HIDE DEF s
<1>7. [h EXCEPT !.slots = s] = h
  BY <1>5 DEF State
<1> QED BY <1>6, <1>7

\* __mp_getmemory() makes a block where there was none, or changes nothing.
LEMMA GetMemoryEffect ==
  ASSUME NEW h, NEW m, Sound(h, m), NEW t, Chain(t) \in Seq(SITES), NEW l \in Nat,
         NEW ty, NEW nested, NEW r \in GetMemory(h, t, l, ty, nested)
  PROVE  GetOutcome(h, m, t, l, ty, nested, r)
<1> DEFINE places == IF Refused(h, l, nested) \/ h.slots.info >= INFOS THEN {}
                     ELSE Addresses \ DOMAIN h.info
<1>1. \/ r = Result(h, NULL, {})
      \/ \E p \in places : r = Result(Gotten(h, t, p, l, ty), p, {})
  <2> DEFINE failed(g) == [h EXCEPT !.slots = GivenBack(WithSlots(@, g), g)]
  <2>1. \A g \in SlotsGot(h, l, ty, nested) : failed(g) = h
    BY SlotsKept DEF Sound
  <2>2. \/ \E g \in SlotsGot(h, l, ty, nested) : r = Result(failed(g), NULL, {})
        \/ \E p \in places : r = Result(Gotten(h, t, p, l, ty), p, {})
    BY DEF GetMemory, Gotten, OnStack, Blocked, NewNode
  <2> HIDE DEF failed, places
  <2> QED BY <2>1, <2>2
<1>2. CASE r = Result(h, NULL, {})
  <2>1. r \in Results(m) /\ r.errors = {} /\ r.ret = NULL /\ r.state = h
    BY <1>2, ResultFacts
  <2> QED BY <2>1 DEF GetOutcome
<1>3. ASSUME NEW p \in places, r = Result(Gotten(h, t, p, l, ty), p, {})
      PROVE  GetOutcome(h, m, t, l, ty, nested, r)
  <2>1. p \in Addresses \ DOMAIN h.info /\ ~Refused(h, l, nested)
        /\ ~(h.slots.info >= INFOS) /\ p # NULL
    BY BlocksAssumption
  <2>2. h.slots.info < INFOS
    BY <2>1, BlocksAssumption DEF Sound, SlotsRight
  <2> DEFINE g == Gotten(h, t, p, l, ty)
  <2>3. /\ Sound(g, m)
        /\ Adding(h, g, p, NewNode(l, ty), NewStacked(t, p, ty))
    BY <2>1, <2>2, GottenSound
  <2> HIDE DEF g
  <2>4. r \in Results(m) /\ r.errors = {} /\ r.ret = p /\ r.state = g
    BY <1>3, <2>1, <2>3, ResultFacts DEF g
  <2> QED BY <2>1, <2>3, <2>4 DEF GetOutcome
<1> QED BY <1>1, <1>2, <1>3

-----------------------------------------------------------------------------
(***************************************************************************)
(* What resizing does                                                      *)
(***************************************************************************)
SizedNode(d, l) == [d EXCEPT !.size = l]

\* The block p is now at q, perhaps the same place, with the node d.
Replacing(h, g, p, q, d) ==
    /\ Live(g) = (Live(h) \ {p}) \cup {q}
    /\ g.info[q] = d /\ \A x \in Live(h) \ {p} : g.info[x] = h.info[x]
    /\ g.astack = h.astack

LEMMA SizedNodeFacts ==
  ASSUME NEW d \in Nodes, d.kind = "live", NEW l \in Nat \ {0}
  PROVE  /\ SizedNode(d, l) \in Nodes /\ SizedNode(d, l).kind = "live"
         /\ SizedNode(d, l).type = d.type /\ SizedNode(d, l).size = l
         /\ SizedNode(d, l).marked = d.marked
<1>1. d \in [kind : {"live"}, type : Kinds, size : Nat \ {0}, marked : BOOLEAN]
  BY NodeFacts
<1>2. /\ SizedNode(d, l) \in
             [kind : {"live"}, type : Kinds, size : Nat \ {0}, marked : BOOLEAN]
      /\ SizedNode(d, l).kind = "live" /\ SizedNode(d, l).type = d.type
      /\ SizedNode(d, l).size = l /\ SizedNode(d, l).marked = d.marked
  BY <1>1 DEF SizedNode
<1> QED BY <1>2 DEF Nodes

LEMMA SizedFields ==
  ASSUME NEW h \in State, NEW p \in Live(h), NEW l \in Nat \ {0}
  PROVE  /\ Sized(h, p, l) \in State
         /\ DOMAIN Sized(h, p, l).info = DOMAIN h.info
         /\ Sized(h, p, l).info[p] = SizedNode(h.info[p], l)
         /\ \A q \in DOMAIN h.info \ {p} : Sized(h, p, l).info[q] = h.info[q]
         /\ Sized(h, p, l).flist = h.flist /\ Sized(h, p, l).astack = h.astack
         /\ Sized(h, p, l).slots = h.slots
         /\ Sized(h, p, l).mtotal = IF h.info[p].marked
                                    THEN h.mtotal - h.info[p].size + l ELSE h.mtotal
<1> DEFINE d == h.info[p]
           i == [h.info EXCEPT ![p] = SizedNode(d, l)]
           m == IF d.marked THEN h.mtotal - d.size + l ELSE h.mtotal
           g == [h EXCEPT !.info = i, !.mtotal = m]
<1>1. /\ h.info \in Infos /\ p \in DOMAIN h.info /\ d \in Nodes /\ d.kind = "live"
      /\ DOMAIN h.info \in SUBSET Addresses
      /\ \A q \in DOMAIN h.info : h.info[q] \in Nodes
  BY StateFacts DEF Live
<1>2. SizedNode(d, l) \in Nodes /\ d.size \in Nat
  BY <1>1, SizedNodeFacts, NodeFacts
<1>3. m \in Int
  BY <1>2 DEF State
<1>4. /\ DOMAIN i = DOMAIN h.info /\ i[p] = SizedNode(d, l)
      /\ \A q \in DOMAIN h.info \ {p} : i[q] = h.info[q]
  BY <1>1
<1>5. i \in Infos
  <2>1. i \in [DOMAIN h.info -> Nodes]
    <3> HIDE DEF d
    <3>1. h.info \in [DOMAIN h.info -> Nodes]
      BY <1>1, InfoFacts
    <3> QED BY <1>2, <3>1
  <2> QED BY <1>1, <2>1 DEF Infos
<1>6. Sized(h, p, l) = g
  BY DEF Sized, SizedNode
<1>7. /\ g \in State /\ g.info = i /\ g.flist = h.flist /\ g.astack = h.astack
      /\ g.slots = h.slots /\ g.mtotal = m
  <2> HIDE DEF i, m
  <2> QED BY <1>3, <1>5 DEF State
<1> HIDE DEF g, i
<1> QED BY <1>4, <1>6, <1>7

\* A block that is no alloca() one is resized: the books stay right if the parts
\* that this does not touch do.
LEMMA ResizedSound ==
  ASSUME NEW h, NEW m, Sound(h, m), NEW p \in Live(h), h.info[p].type # "alloca",
         NEW q \in Addresses, q = p \/ q \notin DOMAIN h.info, NEW l \in Nat \ {0},
         NEW g \in State, Replacing(h, g, p, q, SizedNode(h.info[p], l)),
         FlistRight(g), SlotsRight(g),
         g.mtotal = IF h.info[p].marked THEN h.mtotal - h.info[p].size + l
                    ELSE h.mtotal
  PROVE  Sound(g, m)
<1> DEFINE d == h.info[p]
           e == SizedNode(d, l)
<1>1. /\ h \in State /\ StackRight(h) /\ MarksRight(h, m)
      /\ h.info[p] \in Nodes /\ d.kind = "live" /\ p \in DOMAIN h.info
      /\ Live(h) \subseteq DOMAIN h.info /\ Marked(h) \subseteq Live(h)
      /\ Live(g) \subseteq DOMAIN g.info /\ AllocaBlocks(h) \subseteq Live(h)
  BY StateFacts DEF Sound, Live
<1>2. /\ e \in Nodes /\ e.kind = "live" /\ e.type = d.type /\ e.size = l
      /\ e.marked = d.marked
  BY <1>1, SizedNodeFacts
<1> HIDE DEF e
<1>3. /\ Live(g) = (Live(h) \ {p}) \cup {q} /\ g.info[q] = e
      /\ \A x \in Live(h) \ {p} : g.info[x] = h.info[x]
      /\ g.astack = h.astack /\ q \notin Live(h) \ {p}
  BY <1>1 DEF Replacing, e
<1>4. AllocaBlocks(g) = AllocaBlocks(h)
  BY <1>1, <1>2, <1>3 DEF AllocaBlocks
<1>5. StackRight(g)
  BY <1>1, <1>3, <1>4 DEF StackRight
<1>6. \A x \in AllocaBlocks(g) : ~g.info[x].marked
  <2>1. \A x \in AllocaBlocks(h) : x # p /\ x \in Live(h) \ {p}
    BY <1>1 DEF AllocaBlocks
  <2> QED BY <1>1, <1>3, <1>4, <2>1 DEF MarksRight
<1>7. m = Cardinality(Marked(g)) /\ g.mtotal = SumOf(Sizes(g), Marked(g))
  <2>1. CASE d.marked
    <3>1. Marked(g) = (Marked(h) \ {p}) \cup {q} /\ p \in Marked(h)
      BY <1>1, <1>2, <1>3, <2>1 DEF Marked
    <3>2. Swapped(h, g, Marked(h), Marked(g), p, q)
      BY <1>1, <1>3, <3>1 DEF Swapped
    <3>3. SwappedSums(h, g, Marked(h), Marked(g), p, q)
      BY <1>1, <3>2, ReplacedSize
    <3> QED BY <1>1, <1>2, <1>3, <2>1, <3>3 DEF MarksRight, SwappedSums
  <2>2. CASE ~d.marked
    <3>1. Marked(g) = Marked(h)
      BY <1>1, <1>2, <1>3, <2>2 DEF Marked
    <3>2. /\ Marked(h) \subseteq DOMAIN h.info /\ Marked(h) \subseteq DOMAIN g.info
          /\ \A x \in Marked(h) : g.info[x].size = h.info[x].size
      <4>1. p \notin Marked(h)
        BY <2>2 DEF Marked
      <4> QED BY <1>1, <1>3, <4>1
    <3>3. SumOf(Sizes(g), Marked(h)) = SumOf(Sizes(h), Marked(h))
      BY <1>1, <3>2, SameSizes
    <3> QED BY <1>1, <2>2, <3>1, <3>3 DEF MarksRight
  <2> QED BY <2>1, <2>2
<1> QED BY <1>5, <1>6, <1>7 DEF Sound, MarksRight

\* The parts that resizing does not touch, while the block is moved.
Carried(h, k, p, q) ==
    /\ k \in State /\ Replacing(h, k, p, q, h.info[p])
    /\ FlistRight(k) /\ SlotsRight(k) /\ k.mtotal = h.mtotal

ResizedOutcome(h, m, p, q, l, g) ==
    Sound(g, m) /\ Replacing(h, g, p, q, SizedNode(h.info[p], l))

LEMMA CarriedSound ==
  ASSUME NEW h, NEW m, Sound(h, m), NEW p \in Live(h), h.info[p].type # "alloca",
         NEW q \in Addresses, q = p \/ q \notin DOMAIN h.info, NEW l \in Nat \ {0},
         NEW k, Carried(h, k, p, q)
  PROVE  ResizedOutcome(h, m, p, q, l, Sized(k, q, l))
<1> DEFINE g == Sized(k, q, l)
           d == h.info[p]
<1>1. /\ k \in State /\ FlistRight(k) /\ SlotsRight(k) /\ k.mtotal = h.mtotal
      /\ Live(k) = (Live(h) \ {p}) \cup {q} /\ k.info[q] = d
      /\ \A x \in Live(h) \ {p} : k.info[x] = h.info[x]
      /\ k.astack = h.astack /\ q \in Live(k)
  BY DEF Carried, Replacing
<1>2. /\ g \in State /\ DOMAIN g.info = DOMAIN k.info
      /\ g.info[q] = SizedNode(d, l)
      /\ \A x \in DOMAIN k.info \ {q} : g.info[x] = k.info[x]
      /\ g.flist = k.flist /\ g.astack = k.astack /\ g.slots = k.slots
      /\ g.mtotal = IF d.marked THEN h.mtotal - d.size + l ELSE h.mtotal
  BY <1>1, SizedFields
<1>3. d \in Nodes /\ d.kind = "live" /\ h \in State /\ Live(h) \subseteq DOMAIN h.info
      /\ Live(k) \subseteq DOMAIN k.info
  BY <1>1, StateFacts DEF Sound, Live
<1>4. SizedNode(d, l).kind = "live"
  BY <1>3, SizedNodeFacts
<1> HIDE DEF g
<1>5. q \notin Live(h) \ {p}
  BY <1>3
<1>6. Live(g) = Live(k) /\ Freed(g) = Freed(k)
  <2>1. k.info[q].kind = "live"
    BY <1>1, <1>3
  <2> QED BY <1>1, <1>2, <1>4, <2>1 DEF Live, Freed
<1>7. Replacing(h, g, p, q, SizedNode(d, l))
  BY <1>1, <1>2, <1>3, <1>5, <1>6 DEF Replacing
<1>8. FlistRight(g) /\ SlotsRight(g)
  BY <1>1, <1>2, <1>6 DEF FlistRight, SlotsRight
<1>9. Sound(g, m)
  BY <1>2, <1>7, <1>8, ResizedSound
<1> QED BY <1>7, <1>9 DEF ResizedOutcome, g

\* In place nothing is moved.
LEMMA HereCarried ==
  ASSUME NEW h, NEW m, Sound(h, m), NEW p \in Live(h)
  PROVE  Carried(h, h, p, p)
  BY DEF Carried, Replacing, Sound

\* The node moves with the block if freed blocks are not kept.
LEMMA MovedCarried ==
  ASSUME NEW h, NEW m, Sound(h, m), NEW p \in Live(h), FMAX = 0,
         NEW q \in Addresses \ DOMAIN h.info
  PROVE  Carried(h, Drop([h EXCEPT !.info = Moved(h, p, q)], p), p, q)
<1> DEFINE i == Moved(h, p, q)
           o == [h EXCEPT !.info = i]
           k == Drop(o, p)
<1>1. /\ h \in State /\ FlistRight(h) /\ SlotsRight(h) /\ h.info \in Infos
      /\ p \in DOMAIN h.info /\ h.info[p] \in Nodes /\ h.info[p].kind = "live"
      /\ IsFiniteSet(DOMAIN h.info)
  BY StateFacts DEF Sound, Live
<1>2. /\ i \in Infos /\ DOMAIN i = DOMAIN h.info \cup {q} /\ i[q] = h.info[p]
      /\ \A x \in DOMAIN h.info \ {q} : i[x] = h.info[x]
  <2> DEFINE d == h.info[p]
  <2>1. i = With(h.info, q, d) /\ d \in Nodes
    BY <1>1 DEF Moved
  <2> HIDE DEF d, i
  <2>2. With(h.info, q, d) \in Infos
    BY <1>1, <2>1, WithFacts
  <2>3. /\ DOMAIN i = DOMAIN h.info \cup {q} /\ i[q] = d
        /\ \A x \in DOMAIN h.info \ {q} : i[x] = h.info[x]
    BY <2>1 DEF With
  <2> QED BY <2>1, <2>2, <2>3 DEF d
<1> HIDE DEF i
<1>3. /\ o \in State /\ o.info = i /\ o.flist = h.flist /\ o.astack = h.astack
      /\ o.slots = h.slots /\ o.mtotal = h.mtotal
  BY <1>1, <1>2, InfoFields
<1> HIDE DEF o
<1>4. /\ k \in State /\ k.info = Without(i, p) /\ k.flist = h.flist
      /\ k.astack = h.astack /\ k.slots = h.slots /\ k.mtotal = h.mtotal
  BY <1>3, DropFields
<1> HIDE DEF k
<1>5. /\ DOMAIN k.info = (DOMAIN h.info \ {p}) \cup {q} /\ k.info[q] = h.info[p]
      /\ \A x \in DOMAIN h.info \ {p} : k.info[x] = h.info[x]
  BY <1>1, <1>2, <1>4 DEF Without
<1>6. /\ Live(k) = (Live(h) \ {p}) \cup {q} /\ Freed(k) = Freed(h)
      /\ \A x \in Live(h) \ {p} : k.info[x] = h.info[x]
  BY <1>1, <1>5 DEF Live, Freed
<1>7. Cardinality(DOMAIN k.info) = Cardinality(DOMAIN h.info)
  <2>1. /\ Cardinality(DOMAIN h.info \ {p}) = Cardinality(DOMAIN h.info) - 1
        /\ IsFiniteSet(DOMAIN h.info \ {p}) /\ Cardinality(DOMAIN h.info) \in Nat
    BY <1>1, FS_RemoveElement, FS_CardinalityType
  <2>2. q \notin DOMAIN h.info \ {p}
    OBVIOUS
  <2>3. Cardinality((DOMAIN h.info \ {p}) \cup {q})
            = Cardinality(DOMAIN h.info \ {p}) + 1
    BY <2>1, <2>2, FS_AddElement
  <2> QED BY <1>5, <2>1, <2>3
<1>8. FlistRight(k) /\ SlotsRight(k)
  BY <1>1, <1>4, <1>6, <1>7 DEF FlistRight, SlotsRight
<1>9. Replacing(h, k, p, q, h.info[p])
  BY <1>4, <1>5, <1>6 DEF Replacing
<1>10. Carried(h, k, p, q)
  BY <1>4, <1>8, <1>9 DEF Carried
<1> QED BY <1>10 DEF k, o, i

\* If they are, the block that is freed gets a node of its own.
LEMMA CopiedCarried ==
  ASSUME NEW h, NEW m, Sound(h, m), NEW p \in Live(h), FMAX > 0,
         NEW q \in Addresses \ DOMAIN h.info, h.slots.info < INFOS
  PROVE  Carried(h, Keep([h EXCEPT !.info = Moved(h, p, q),
                                   !.slots.info = @ + 1], p), p, q)
<1> DEFINE i == Moved(h, p, q)
           o == [h EXCEPT !.info = i, !.slots.info = @ + 1]
           k == Keep(o, p)
<1>1. /\ h \in State /\ FlistRight(h) /\ SlotsRight(h) /\ h.info \in Infos
      /\ p \in DOMAIN h.info /\ h.info[p] \in Nodes /\ h.info[p].kind = "live"
      /\ p \in Addresses
  BY StateFacts DEF Sound, Live
<1>2. /\ i \in Infos /\ DOMAIN i = DOMAIN h.info \cup {q} /\ i[q] = h.info[p]
      /\ \A x \in DOMAIN h.info \ {q} : i[x] = h.info[x]
  <2> DEFINE d == h.info[p]
  <2>1. i = With(h.info, q, d) /\ d \in Nodes
    BY <1>1 DEF Moved
  <2> HIDE DEF d, i
  <2>2. With(h.info, q, d) \in Infos
    BY <1>1, <2>1, WithFacts
  <2>3. /\ DOMAIN i = DOMAIN h.info \cup {q} /\ i[q] = d
        /\ \A x \in DOMAIN h.info \ {q} : i[x] = h.info[x]
    BY <2>1 DEF With
  <2> QED BY <2>1, <2>2, <2>3 DEF d
<1> HIDE DEF i
<1>3. /\ o \in State /\ o.info = i /\ o.flist = h.flist /\ o.astack = h.astack
      /\ o.mtotal = h.mtotal /\ o.slots.alloca = h.slots.alloca
      /\ o.slots.info = h.slots.info + 1
  BY <1>1, <1>2, SlotTaken
<1> HIDE DEF o
<1>4. /\ k \in State /\ k.info = With(Rest(o), p, FreedNode)
      /\ k.flist = Queue(o, p) /\ k.astack = h.astack
      /\ k.slots = o.slots /\ k.mtotal = h.mtotal
  BY <1>1, <1>3, KeepFields
<1> HIDE DEF k
<1>5. /\ Live(o) = Live(h) \cup {q} /\ Freed(o) = Freed(h)
      /\ \A x \in Live(h) : o.info[x] = h.info[x]
  BY <1>1, <1>2, <1>3 DEF Live, Freed
<1>6. FlistRight(o)
  BY <1>1, <1>3, <1>5 DEF FlistRight
<1>7. /\ Live(k) = Live(o) \ {p} /\ \A x \in Live(k) : k.info[x] = o.info[x]
      /\ FlistRight(k)
  BY <1>3, <1>4, <1>5, <1>6, KeptInfo
<1>8. q # p /\ q \notin Live(h)
  BY <1>1 DEF Live
<1>9. Replacing(h, k, p, q, h.info[p])
  BY <1>2, <1>3, <1>4, <1>5, <1>7, <1>8 DEF Replacing
<1>10. SlotsRight(k)
  BY <1>1, <1>3, <1>4, BlocksAssumption DEF SlotsRight
<1>11. Carried(h, k, p, q)
  BY <1>3, <1>4, <1>7, <1>9, <1>10 DEF Carried
<1> QED BY <1>11 DEF k, o, i

\* The block has another size, or else nothing has changed but that reallocf() has
\* freed it.
ResizeOutcome(h, m, p, l, ty, nested, r) ==
    \/ /\ r.ret = NULL
       /\ ty = "reallocf" => FreeOutcome(h, m, p, FALSE, ty, r)
       /\ ty # "reallocf" => r \in Results(m) /\ r.state = h /\ r.errors = {}
    \/ /\ r.ret # NULL /\ r \in Results(m) /\ r.errors = {}
       /\ l <= h.info[p].size \/ ~Refused(h, l - h.info[p].size, nested)
       /\ r.ret = p \/ r.ret \notin DOMAIN h.info
       /\ Replacing(h, r.state, p, r.ret, SizedNode(h.info[p], l))

LEMMA FailedOutcome ==
  ASSUME NEW h, NEW m, Sound(h, m), NEW p \in Addresses, NEW l, NEW ty, NEW nested
  PROVE  ResizeOutcome(h, m, p, l, ty, nested, FailedResize(h, p, ty))
<1> DEFINE r == FailedResize(h, p, ty)
<1>1. CASE ty = "reallocf"
  <2>1. FALSE \in BOOLEAN /\ p \in Addresses \cup {NULL}
    OBVIOUS
  <2>2. FreeOutcome(h, m, p, FALSE, ty, FreeMemory(h, p, FALSE, ty))
    BY <2>1, FreeMemoryEffect
  <2>3. r = FreeMemory(h, p, FALSE, ty)
    BY <1>1 DEF FailedResize
  <2> HIDE DEF r
  <2>4. FreeOutcome(h, m, p, FALSE, ty, r)
    BY <2>2, <2>3
  <2> QED BY <1>1, <2>4 DEF ResizeOutcome, FreeOutcome, r
<1>2. CASE ty # "reallocf"
  <2>1. r = Result(h, NULL, {})
    BY <1>2 DEF FailedResize
  <2>2. r \in Results(m) /\ r.errors = {} /\ r.ret = NULL /\ r.state = h
    BY <2>1, ResultFacts
  <2> QED BY <1>2, <2>2 DEF ResizeOutcome
<1> QED BY <1>1, <1>2

\* A block that is resized is at one place and has the new size.
LEMMA ResizeBlockEffect ==
  ASSUME NEW h, NEW m, Sound(h, m), NEW p \in Live(h), h.info[p].type # "alloca",
         NEW l \in Nat \ {0}, NEW ty, NEW nested,
         NEW r \in ResizeBlock(h, p, l, ty, nested)
  PROVE  ResizeOutcome(h, m, p, l, ty, nested, r)
<1> DEFINE d == h.info[p].size
           kept == FMAX > 0 /\ ty # "expand"
           moved(q) == Drop([h EXCEPT !.info = Moved(h, p, q)], p)
           copied(q) == Keep([h EXCEPT !.info = Moved(h, p, q),
                                       !.slots.info = @ + 1], p)
           may == ~(l > d /\ Refused(h, l - d, nested))
<1>1. \/ r = FailedResize(h, p, ty)
      \/ may /\ r = Result(Sized(h, p, l), p, {})
      \/ /\ may /\ ~(FMAX > 0)
         /\ \E q \in Addresses \ DOMAIN h.info : r = Result(Sized(moved(q), q, l), q, {})
      \/ /\ may /\ FMAX > 0 /\ ~(h.slots.info >= INFOS)
         /\ \E q \in Addresses \ DOMAIN h.info : r = Result(Sized(copied(q), q, l), q, {})
  BY DEF ResizeBlock
<1>2. /\ p \in Addresses /\ p # NULL /\ h.info[p].size \in Nat /\ Live(h) \subseteq DOMAIN h.info
      /\ h.slots.info \in Int /\ INFOS \in Nat /\ FMAX \in Nat
  <2>1. h \in State /\ h.slots.info \in 0..INFOS
    BY DEF Sound, SlotsRight
  <2> QED BY <2>1, StateFacts, BlocksAssumption
<1>3. may => l <= h.info[p].size \/ ~Refused(h, l - h.info[p].size, nested)
  <2> DEFINE refused == Refused(h, l - d, nested)
  <2> HIDE DEF refused
  <2>1. may <=> ~(l > d /\ refused)
    BY DEF refused
  <2>2. may => l <= d \/ ~refused
    <3> HIDE DEF may
    <3> QED BY <1>2, <2>1
  <2> QED BY <2>2 DEF refused
<1> HIDE DEF may, moved, copied
<1>4. ASSUME NEW q \in Addresses, q = p \/ q \notin DOMAIN h.info, may, NEW k,
             Carried(h, k, p, q), r = Result(Sized(k, q, l), q, {})
      PROVE  ResizeOutcome(h, m, p, l, ty, nested, r)
  <2> DEFINE g == Sized(k, q, l)
  <2>1. ResizedOutcome(h, m, p, q, l, g)
    BY <1>4, CarriedSound
  <2> HIDE DEF g
  <2>2. Sound(g, m) /\ Replacing(h, g, p, q, SizedNode(h.info[p], l))
    BY <2>1 DEF ResizedOutcome
  <2>3. r \in Results(m) /\ r.errors = {} /\ r.ret = q /\ r.state = g
    BY <1>4, <2>2, ResultFacts DEF g
  <2>4. q # NULL
    BY BlocksAssumption
  <2> QED BY <1>3, <1>4, <2>2, <2>3, <2>4 DEF ResizeOutcome
<1>5. CASE r = FailedResize(h, p, ty)
  BY <1>2, <1>5, FailedOutcome
<1>6. CASE may /\ r = Result(Sized(h, p, l), p, {})
  BY <1>2, <1>4, <1>6, HereCarried
<1>7. ASSUME NEW q \in Addresses \ DOMAIN h.info, may, FMAX = 0,
             r = Result(Sized(moved(q), q, l), q, {})
      PROVE  ResizeOutcome(h, m, p, l, ty, nested, r)
  <2>1. Carried(h, moved(q), p, q)
    BY <1>7, MovedCarried DEF moved
  <2> QED BY <1>4, <1>7, <2>1
<1>8. ASSUME NEW q \in Addresses \ DOMAIN h.info, may, FMAX > 0, h.slots.info < INFOS,
             r = Result(Sized(copied(q), q, l), q, {})
      PROVE  ResizeOutcome(h, m, p, l, ty, nested, r)
  <2>1. Carried(h, copied(q), p, q)
    BY <1>8, CopiedCarried DEF copied
  <2> QED BY <1>4, <1>8, <2>1
<1>9. /\ ~(FMAX > 0) => FMAX = 0
      /\ ~(h.slots.info >= INFOS) => h.slots.info < INFOS
  BY <1>2
<1> QED BY <1>1, <1>5, <1>6, <1>7, <1>8, <1>9, Zenon

\* May the block at p be resized?
Resizable(h, p, inside) ==
    p \in Live(h) /\ ~inside /\ h.info[p].type = "malloc"

\* The four things that __mp_resizememory() may do: make a block, find an error,
\* free the block, or resize it.
MemoryOutcome(h, m, t, p, inside, l, ty, nested, r) ==
    \/ p = NULL /\ GetOutcome(h, m, t, l, ty, nested, r)
    \/ /\ p # NULL /\ ~Resizable(h, p, inside)
       /\ r \in Results(m) /\ r.ret = NULL /\ r.state = h /\ r.errors # {}
    \/ p # NULL /\ Resizable(h, p, inside) /\ l = 0 /\ FreeOutcome(h, m, p, FALSE, ty, r)
    \/ /\ p # NULL /\ Resizable(h, p, inside) /\ l # 0
       /\ ResizeOutcome(h, m, p, l, ty, nested, r)

LEMMA ResizeMemoryEffect ==
  ASSUME NEW h, NEW m, Sound(h, m), NEW t, Chain(t) \in Seq(SITES),
         NEW p \in Addresses \cup {NULL}, NEW inside \in BOOLEAN, NEW l \in Nat,
         NEW ty, NEW nested, NEW r \in ResizeMemory(h, t, p, inside, l, ty, nested)
  PROVE  MemoryOutcome(h, m, t, p, inside, l, ty, nested, r)
<1>1. CASE p = NULL
  <2>1. r \in GetMemory(h, t, l, ty, nested)
    BY <1>1 DEF ResizeMemory
  <2> QED BY <1>1, <2>1, GetMemoryEffect DEF MemoryOutcome
<1>2. CASE p # NULL
  <2>1. h \in State /\ Live(h) \cup Freed(h) = DOMAIN h.info
        /\ Live(h) \cap Freed(h) = {}
    BY StateFacts DEF Sound
  <2>2. Unknown(h, p, inside) \in SUBSET Errors
        /\ (Unknown(h, p, inside) = {} <=> p \in Live(h) /\ ~inside)
    BY <2>1 DEF Unknown, Errors
  <2>3. CASE ~Resizable(h, p, inside)
    <3> DEFINE e == IF Unknown(h, p, inside) # {} THEN Unknown(h, p, inside)
                    ELSE {"INCOMP"}
    <3>1. r = Result(h, NULL, e)
      BY <1>2, <2>2, <2>3 DEF ResizeMemory, Resizable
    <3>2. e \in SUBSET Errors /\ e # {}
      BY <2>2 DEF Errors
    <3> HIDE DEF e
    <3>3. r \in Results(m) /\ r.ret = NULL /\ r.state = h /\ r.errors = e
      <4>1. h \in State /\ NULL \in Addresses \cup {NULL}
        BY <2>1
      <4> QED BY <3>1, <3>2, <4>1 DEF Result, Results
    <3> QED BY <1>2, <2>3, <3>2, <3>3 DEF MemoryOutcome
  <2>4. CASE Resizable(h, p, inside) /\ l = 0
    <3>1. r = FreeMemory(h, p, FALSE, ty)
      BY <1>2, <2>2, <2>4 DEF ResizeMemory, Resizable
    <3>2. FALSE \in BOOLEAN
      OBVIOUS
    <3>3. FreeOutcome(h, m, p, FALSE, ty, FreeMemory(h, p, FALSE, ty))
      BY <3>2, FreeMemoryEffect
    <3> QED BY <1>2, <2>4, <3>1, <3>3 DEF MemoryOutcome
  <2>5. CASE Resizable(h, p, inside) /\ l # 0
    <3>1. r \in ResizeBlock(h, p, l, ty, nested) /\ p \in Live(h)
          /\ h.info[p].type # "alloca" /\ l \in Nat \ {0}
      BY <1>2, <2>2, <2>5 DEF ResizeMemory, Resizable
    <3>2. ResizeOutcome(h, m, p, l, ty, nested, r)
      BY <3>1, ResizeBlockEffect
    <3> QED BY <1>2, <2>5, <3>2 DEF MemoryOutcome
  <2> QED BY <2>3, <2>4, <2>5
<1> QED BY <1>1, <1>2

LEMMA MemoryResult ==
  ASSUME NEW h, NEW m, NEW t, NEW p, NEW inside, NEW l, NEW ty, NEW nested, NEW r,
         MemoryOutcome(h, m, t, p, inside, l, ty, nested, r)
  PROVE  r \in Results(m)
  BY DEF MemoryOutcome, GetOutcome, FreeOutcome, ResizeOutcome

-----------------------------------------------------------------------------
(***************************************************************************)
(* The state has its type                                                  *)
(***************************************************************************)
Frames == [call : CallType, left : 0..HANDLERCALLS]
GoodCall(c) ==
    /\ c \in CallType /\ (c.before # NULL => c.block \in Addresses)
    /\ c.type \notin RESIZETYPES => c.block = NULL /\ c.before = NULL
FramesRight(s) == s \in Seq(Frames) /\ \A k \in 1..Len(s) : GoodCall(s[k].call)
PathRight(f) ==
    f \in [Threads -> Paths] /\ \A t \in Threads : Len(f[t]) \in 1..MAXPATH
HeldRight(f) == DOMAIN f \subseteq Addresses /\ \A p \in DOMAIN f : f[p] \in HeldBlocks
Outcomes == [thread : Threads \cup {NULL}, errors : SUBSET Errors, verdict : Verdicts]

\* With what there is to know of the books, the type is inductive.
TypeInv ==
    /\ Sound(Now, mcount) /\ FramesRight(frames) /\ PathRight(path)
    /\ HeldRight(held) /\ outcome \in Outcomes /\ aborted \in BOOLEAN

LEMMA TypeFromInv == TypeInv => TypeOK
<1> SUFFICES ASSUME TypeInv PROVE TypeOK
  OBVIOUS
<1> DEFINE h == Now
<1>1. /\ h \in State /\ SlotsRight(h) /\ MarksRight(h, mcount)
      /\ h.info = info /\ h.flist = flist /\ h.astack = astack /\ h.slots = slots
      /\ h.mtotal = mtotal
  BY DEF TypeInv, Sound, Now
<1> HIDE DEF h
<1>2. /\ DOMAIN info \subseteq Addresses /\ \A p \in DOMAIN info : info[p] \in Nodes
      /\ IsFiniteSet(Marked(h)) /\ Marked(h) \subseteq DOMAIN h.info
  BY <1>1, StateFacts, FS_Subset
<1>3. flist \in Seq(Addresses)
  BY <1>1 DEF State, Queues
<1>4. astack \in Seq([block : Addresses, frame : Seq(SITES)])
  BY <1>1 DEF State, Stacks, StackNodes
<1>5. slots \in [info : 0..INFOS, alloca : Nat]
  <2>1. h.slots \in SlotCounts /\ h.slots.info \in 0..INFOS
        /\ h.slots.alloca = Len(h.astack)
    BY <1>1 DEF State, SlotsRight
  <2>2. Len(astack) \in Nat
    BY <1>4
  <2> QED BY <1>1, <2>1, <2>2 DEF SlotCounts
<1>6. mcount \in Nat /\ mtotal \in Nat
  <2>1. mcount \in Nat
    BY <1>1, <1>2, FS_CardinalityType DEF MarksRight
  <2>2. mtotal \in Nat
    BY <1>1, <1>2, SameSizes DEF MarksRight
  <2> QED BY <2>1, <2>2
<1>7. frames \in Seq([call : CallType, left : 0..HANDLERCALLS])
  BY DEF TypeInv, FramesRight, Frames
<1>8. \A t \in Threads : path[t] \in Paths /\ Len(path[t]) \in 1..MAXPATH
  BY DEF TypeInv, PathRight
<1> QED BY <1>2, <1>3, <1>4, <1>5, <1>6, <1>7, <1>8
        DEF TypeOK, TypeInv, HeldRight, Outcomes

LEMMA ChainType ==
  ASSUME PathRight(path), NEW t \in Threads
  PROVE  Chain(t) \in Seq(SITES) /\ Len(Chain(t)) = Len(path[t])
<1> DEFINE s == path[t]
           Functions == [site : SITES, blocks : SUBSET Addresses]
<1>1. s \in Seq(Functions)
  BY DEF PathRight, Paths
<1>2. \A k \in 1..Len(s) : s[k].site \in SITES
  <2> SUFFICES ASSUME NEW k \in 1..Len(s) PROVE s[k].site \in SITES
    OBVIOUS
  <2> HIDE DEF Functions
  <2>1. s[k] \in Functions
    BY <1>1
  <2> QED BY <2>1 DEF Functions
<1>3. Len(s) \in Nat
  BY <1>1
<1>4. Chain(t) = [k \in 1..Len(s) |-> s[k].site]
  BY DEF Chain
<1> HIDE DEF s
<1>5. Chain(t) \in [1..Len(s) -> SITES]
  BY <1>2, <1>4
<1>6. Chain(t) \in Seq(SITES) /\ Len(Chain(t)) = Len(s)
  BY <1>3, <1>4, <1>5
<1> QED BY <1>6 DEF s

\* A state that becomes the library's.
LEMMA BecomesFacts ==
  ASSUME NEW h \in State, Becomes(h) PROVE Now' = h /\ mcount' = mcount
  BY DEF Becomes, Now, State

\* An attempt at a call, after what has been tried before.
Tried(c, r0, again, mine, rest, r) ==
    /\ MemoryOutcome(r0.state, mcount, c.thread, c.block, c.inside, c.size, c.type,
                     rest # <<>>, r)
    /\ Now' = r.state /\ mcount' = mcount
    /\ outcome' = Outcome(c.thread, r0.errors \cup r.errors, c.verdict)
    /\ \/ Succeed(c, r, mine, rest)
       \/ CallHandler(c, r, again, mine, rest)
       \/ Fail(c, r, again, mine, rest)

LEMMA Attempted ==
  ASSUME NEW c \in CallType, NEW r0, Sound(r0.state, mcount), PathRight(path),
         NEW again, NEW mine, NEW rest, Attempt(c, r0, again, mine, rest)
  PROVE  \E r : r \in Results(mcount) /\ Tried(c, r0, again, mine, rest, r)
<1> DEFINE nested == rest # <<>>
<1>1. /\ c.thread \in Threads /\ c.block \in Addresses \cup {NULL}
      /\ c.inside \in BOOLEAN /\ c.size \in Nat
  BY BlocksAssumption DEF CallType
<1>2. Chain(c.thread) \in Seq(SITES)
  BY <1>1, ChainType
<1> HIDE DEF nested
<1>3. PICK r \in ResizeMemory(r0.state, c.thread, c.block, c.inside, c.size, c.type,
                              nested) :
          /\ Becomes(r.state)
          /\ outcome' = Outcome(c.thread, r0.errors \cup r.errors, c.verdict)
          /\ \/ Succeed(c, r, mine, rest)
             \/ CallHandler(c, r, again, mine, rest)
             \/ Fail(c, r, again, mine, rest)
  BY DEF Attempt, nested
<1> DEFINE t == c.thread
           p == c.block
           inside == c.inside
           l == c.size
           ty == c.type
           h == r0.state
<1>4. MemoryOutcome(h, mcount, t, p, inside, l, ty, nested, r)
  <2>1. /\ Sound(h, mcount) /\ Chain(t) \in Seq(SITES) /\ p \in Addresses \cup {NULL}
        /\ inside \in BOOLEAN /\ l \in Nat
        /\ r \in ResizeMemory(h, t, p, inside, l, ty, nested)
    BY <1>1, <1>2, <1>3
  <2> HIDE DEF t, p, inside, l, ty, h
  <2> QED BY <2>1, ResizeMemoryEffect
<1>5. r \in Results(mcount)
  <2> HIDE DEF t, p, inside, l, ty, h
  <2> QED BY <1>4, MemoryResult
<1>6. r.state \in State
  BY <1>5 DEF Results
<1>7. Now' = r.state /\ mcount' = mcount
  BY <1>3, <1>6, BecomesFacts
<1> QED BY <1>3, <1>4, <1>5, <1>7 DEF Tried, nested

LEMMA HeldWith ==
  ASSUME NEW f, HeldRight(f), NEW p \in Addresses, NEW b \in HeldBlocks
  PROVE  HeldRight(With(f, p, b))
  BY DEF HeldRight, With

LEMMA HeldWithout ==
  ASSUME NEW f, HeldRight(f), NEW p PROVE HeldRight(Without(f, p))
  BY DEF HeldRight, Without

\* The program gets a block of alloca() in the function that is running.
Given(f, t, n, p) == [f EXCEPT ![t][n].blocks = @ \cup {p}]

\* The functions that are active are the same but for the blocks that they have.
SameSites(f, g) ==
    \A u \in Threads : /\ Len(g[u]) = Len(f[u])
                       /\ \A k \in 1..Len(f[u]) : g[u][k].site = f[u][k].site

BlocksGiven(f, g, t, n, p) ==
    \A u \in Threads : \A k \in 1..Len(f[u]) :
        g[u][k].blocks = IF u = t /\ k = n THEN f[u][k].blocks \cup {p}
                         ELSE f[u][k].blocks

LEMMA PathBlock ==
  ASSUME NEW f, PathRight(f), NEW t \in Threads, NEW n \in 1..Len(f[t]),
         NEW p \in Addresses
  PROVE  /\ PathRight(Given(f, t, n, p)) /\ SameSites(f, Given(f, t, n, p))
         /\ BlocksGiven(f, Given(f, t, n, p), t, n, p)
<1> DEFINE Functions == [site : SITES, blocks : SUBSET Addresses]
           o == f[t][n]
           e == [o EXCEPT !.blocks = @ \cup {p}]
           s == [f[t] EXCEPT ![n] = e]
           g == [f EXCEPT ![t] = s]
<1>1. /\ f[t] \in Seq(Functions) /\ f \in [Threads -> Seq(Functions)]
      /\ o \in Functions
  <2> HIDE DEF Functions
  <2>1. f \in [Threads -> Seq(Functions)]
    BY DEF PathRight, Paths, Functions
  <2> QED BY <2>1
<1>2. e \in Functions /\ e.site = o.site /\ e.blocks = o.blocks \cup {p}
  <2> HIDE DEF o
  <2> QED BY <1>1
<1>3. /\ s \in Seq(Functions) /\ Len(s) = Len(f[t]) /\ s[n] = e
      /\ \A k \in 1..Len(f[t]) : k # n => s[k] = f[t][k]
  <2> HIDE DEF Functions, e, o
  <2> QED BY <1>1, <1>2
<1>4. Given(f, t, n, p) = g
  BY DEF Given
<1> HIDE DEF s, e
<1>5. /\ g \in [Threads -> Seq(Functions)] /\ g[t] = s
      /\ \A u \in Threads \ {t} : g[u] = f[u]
  <2> HIDE DEF Functions
  <2> QED BY <1>1, <1>3
<1> HIDE DEF g
<1>6. SameSites(f, g)
  <2> SUFFICES ASSUME NEW u \in Threads
               PROVE  /\ Len(g[u]) = Len(f[u])
                      /\ \A k \in 1..Len(f[u]) : g[u][k].site = f[u][k].site
    BY DEF SameSites
  <2>1. CASE u = t
    BY <1>2, <1>3, <1>5, <2>1 DEF o
  <2>2. CASE u # t
    BY <1>5, <2>2
  <2> QED BY <2>1, <2>2
<1>7. ASSUME NEW u \in Threads, NEW k \in 1..Len(f[u])
      PROVE  g[u][k].blocks = IF u = t /\ k = n THEN f[u][k].blocks \cup {p}
                              ELSE f[u][k].blocks
  <2>1. CASE u = t
    BY <1>2, <1>3, <1>5, <2>1 DEF o
  <2>2. CASE u # t
    BY <1>5, <2>2
  <2> QED BY <2>1, <2>2
<1>8. PathRight(g)
  <2>1. g \in [Threads -> Paths]
    BY <1>5 DEF Paths
  <2>2. \A u \in Threads : Len(g[u]) \in 1..MAXPATH
    BY <1>6 DEF PathRight, SameSites
  <2> QED BY <2>1, <2>2 DEF PathRight
<1>9. BlocksGiven(f, g, t, n, p)
  BY <1>7 DEF BlocksGiven
<1> QED BY <1>4, <1>6, <1>8, <1>9

LEMMA FramesMore ==
  ASSUME NEW s, FramesRight(s), NEW c, GoodCall(c), NEW n \in 0..HANDLERCALLS
  PROVE  FramesRight(Append(s, [call |-> c, left |-> n]))
<1> DEFINE e == [call |-> c, left |-> n]
           a == Append(s, e)
<1>1. e \in Frames /\ e.call = c
  BY DEF Frames, GoodCall
<1>2. s \in Seq(Frames)
  BY DEF FramesRight
<1> HIDE DEF e
<1>3. a \in Seq(Frames) /\ Len(a) = Len(s) + 1 /\ Len(s) \in Nat
      /\ a[Len(s) + 1] = e /\ \A k \in 1..Len(s) : a[k] = s[k]
  BY <1>1, <1>2
<1> HIDE DEF a
<1>4. \A k \in 1..Len(a) : GoodCall(a[k].call)
  BY <1>1, <1>3 DEF FramesRight
<1>5. FramesRight(a)
  BY <1>3, <1>4 DEF FramesRight
<1> QED BY <1>5 DEF a, e

\* The frames but the last one, and the last one of them.
LEMMA FramesLess ==
  ASSUME NEW s, FramesRight(s), s # <<>>
  PROVE  /\ FramesRight(Front(s)) /\ GoodCall(Last(s).call)
         /\ Last(s) = s[Len(s)] /\ Len(s) \in 1..Len(s)
         /\ Len(Front(s)) = Len(s) - 1 /\ Last(s).left \in 0..HANDLERCALLS
         /\ \A k \in 1..Len(s) - 1 : Front(s)[k] = s[k]
<1>1. s \in Seq(Frames) /\ Len(s) \in Nat /\ Len(s) > 0
  BY DEF FramesRight
<1>2. /\ Front(s) \in Seq(Frames) /\ Len(Front(s)) = Len(s) - 1
      /\ \A k \in 1..Len(s) - 1 : Front(s)[k] = s[k]
  <2>1. Front(s) = SubSeq(s, 1, Len(s) - 1) /\ Len(s) - 1 \in 0..Len(s)
    BY <1>1 DEF Front
  <2> DEFINE n == Len(s) - 1
             f == SubSeq(s, 1, n)
  <2>2. n \in Nat /\ n <= Len(s)
    BY <1>1
  <2>3. f \in Seq(Frames) /\ Len(f) = n /\ \A k \in 1..n : f[k] = s[k]
    <3> HIDE DEF n
    <3> QED BY <1>1, <2>2
  <2> QED BY <2>1, <2>3
<1>3. Last(s) = s[Len(s)] /\ s[Len(s)] \in Frames
  BY <1>1 DEF Last
<1>4. Last(s).left \in 0..HANDLERCALLS
  BY <1>3 DEF Frames
<1>5. /\ Len(s) \in 1..Len(s) /\ \A k \in 1..Len(Front(s)) : k \in 1..Len(s) - 1
      /\ \A k \in 1..Len(s) - 1 : k \in 1..Len(s)
  BY <1>1, <1>2
<1> HIDE DEF Front, Last
<1> QED BY <1>1, <1>2, <1>3, <1>4, <1>5 DEF FramesRight

LEMMA FramesWaiting ==
  ASSUME FramesRight(frames), frames # <<>> => Last(frames).left > 0
  PROVE  /\ FramesRight(Waiting) /\ Len(Waiting) = Len(frames)
         /\ \A k \in 1..Len(frames) : Waiting[k].call = frames[k].call
<1>1. CASE frames = <<>>
  BY <1>1 DEF Waiting, Nested, FramesRight
<1>2. CASE frames # <<>>
  <2> DEFINE n == Len(frames)
             e == [frames[n] EXCEPT !.left = @ - 1]
             s == [frames EXCEPT ![n] = e]
  <2>1. /\ frames \in Seq(Frames) /\ n \in 1..n /\ frames[n].left \in 0..HANDLERCALLS
        /\ frames[n].left > 0 /\ frames[n] \in Frames
    BY <1>2, FramesLess DEF FramesRight
  <2>2. e \in Frames /\ e.call = frames[n].call
    BY <2>1, ProgramAssumption DEF Frames
  <2>3. Waiting = s
    BY <1>2 DEF Waiting, Nested
  <2> HIDE DEF e
  <2>4. /\ s \in Seq(Frames) /\ Len(s) = n /\ s[n] = e
        /\ \A k \in 1..n : k # n => s[k] = frames[k]
    BY <2>1, <2>2
  <2> HIDE DEF s
  <2>5. \A k \in 1..n : s[k].call = frames[k].call
    BY <2>2, <2>4
  <2>6. FramesRight(s)
    BY <2>4, <2>5 DEF FramesRight
  <2> QED BY <2>3, <2>4, <2>5, <2>6
<1> QED BY <1>1, <1>2

\* What the program is told of a block that it gets.
Told(c) == [type |-> NewType(c.type), size |-> AtLeastOne(c.size),
            marked |-> c.before # NULL /\ c.before.marked]

LEMMA ToldType ==
  ASSUME NEW c \in CallType, c.type # "alloca" PROVE Told(c) \in HeldBlocks
<1>1. c.size \in Nat /\ (c.before # NULL => c.before \in HeldBlocks)
  BY BlocksAssumption DEF CallType
<1>2. AtLeastOne(c.size) \in Nat \ {0}
  BY <1>1 DEF AtLeastOne
<1>3. NewType(c.type) \in Kinds \ {"alloca"}
  BY DEF NewType, Kinds
<1>4. (c.before # NULL /\ c.before.marked) \in BOOLEAN
  OBVIOUS
<1> HIDE DEF HeldBlocks
<1> QED BY <1>2, <1>3, <1>4 DEF Told, HeldBlocks

LEMMA TriedTyped ==
  ASSUME TypeInv, NEW c, GoodCall(c), NEW r0 \in Results(mcount), NEW again, NEW mine,
         HeldRight(mine), NEW rest, FramesRight(rest), NEW r \in Results(mcount),
         Tried(c, r0, again, mine, rest, r)
  PROVE  TypeInv'
<1>1. /\ Now' = r.state /\ mcount' = mcount /\ Sound(r.state, mcount)
      /\ r.errors \in SUBSET Errors /\ r0.errors \in SUBSET Errors
      /\ r.ret \in Addresses \cup {NULL}
      /\ outcome' = Outcome(c.thread, r0.errors \cup r.errors, c.verdict)
      /\ c \in CallType /\ c.thread \in Threads /\ c.verdict \in Verdicts
  BY DEF Tried, Results, GoodCall, CallType
<1>2. Sound(Now', mcount')
  BY <1>1
<1>3. outcome' \in Outcomes
  <2> DEFINE e == r0.errors \cup r.errors
  <2>1. e \in SUBSET Errors
    BY <1>1
  <2> HIDE DEF e
  <2> QED BY <1>1, <2>1 DEF Outcome, Outcomes, e
<1>4. CASE Succeed(c, r, mine, rest)
  <2>1. r.ret \in Addresses /\ frames' = rest /\ aborted' = aborted
    BY <1>1, <1>4 DEF Succeed
  <2>2. CASE c.type = "alloca"
    <3>1. PathRight(path)
      BY DEF TypeInv
    <3> DEFINE n == Len(path[c.thread])
    <3>2. n \in 1..Len(path[c.thread])
      BY <1>1, <3>1 DEF PathRight
    <3>3. path' = Given(path, c.thread, n, r.ret) /\ held' = mine
      BY <1>4, <2>2 DEF Succeed, Given
    <3> HIDE DEF n
    <3>4. PathRight(path')
      BY <1>1, <2>1, <3>1, <3>2, <3>3, PathBlock
    <3> QED BY <1>2, <1>3, <2>1, <3>3, <3>4 DEF TypeInv
  <2>3. CASE c.type # "alloca"
    <3>1. held' = With(mine, r.ret, Told(c)) /\ path' = path
      BY <1>4, <2>3 DEF Succeed, Told
    <3>2. Told(c) \in HeldBlocks
      BY <1>1, <2>3, ToldType
    <3>3. HeldRight(held')
      BY <2>1, <3>1, <3>2, HeldWith
    <3> QED BY <1>2, <1>3, <2>1, <3>1, <3>3 DEF TypeInv
  <2> QED BY <2>2, <2>3
<1>5. CASE CallHandler(c, r, again, mine, rest)
  <2> DEFINE n == IF rest = <<>> THEN HANDLERCALLS ELSE Last(rest).left
  <2>1. frames' = Append(rest, [call |-> c, left |-> n]) /\ held' = mine
        /\ path' = path /\ aborted' = aborted
    BY <1>5 DEF CallHandler
  <2>2. n \in 0..HANDLERCALLS
    BY FramesLess, ProgramAssumption
  <2> HIDE DEF n
  <2>3. FramesRight(frames')
    BY <2>1, <2>2, FramesMore
  <2> QED BY <1>2, <1>3, <2>1, <2>3 DEF TypeInv
<1>6. CASE Fail(c, r, again, mine, rest)
  <2>1. /\ frames' = rest /\ path' = path
        /\ held' = mine \/ (c.before # NULL /\ held' = With(mine, c.block, c.before))
    BY <1>6, Zenon DEF Fail
  <2>2. aborted' \in BOOLEAN
    <3> DEFINE ends == c.type \in {"alloca", "xmalloc", "xrealloc"}
    <3>1. ends \in BOOLEAN
      OBVIOUS
    <3>2. aborted' = ends
      BY <1>6, Zenon DEF Fail
    <3> HIDE DEF ends
    <3> QED BY <3>1, <3>2
  <2>3. HeldRight(held')
    <3>1. c.before # NULL => c.block \in Addresses /\ c.before \in HeldBlocks
      BY DEF GoodCall, CallType
    <3> QED BY <2>1, <3>1, HeldWith
  <2> QED BY <1>2, <1>3, <2>1, <2>2, <2>3 DEF TypeInv
<1> QED BY <1>4, <1>5, <1>6 DEF Tried

-----------------------------------------------------------------------------
(***************************************************************************)
(* The steps, each by what it comes to                                     *)
(***************************************************************************)
Checked(t) == CheckAlloca(Now, t, Nested)

AllocCall(t, l, ty) ==
    [thread |-> t, block |-> NULL, inside |-> FALSE, size |-> l, type |-> ty,
     verdict |-> "right", before |-> NULL]

Takes(p, inside, l, ty) == p # NULL /\ ResizeVerdict(p, inside, l, ty) # "wrong"
ReallocCall(t, p, inside, l, ty) ==
    [thread |-> t, block |-> p, inside |-> inside, size |-> l, type |-> ty,
     verdict |-> ResizeVerdict(p, inside, l, ty),
     before |-> IF Takes(p, inside, l, ty) THEN held[p] ELSE NULL]
Taken(p, inside, l, ty) == IF Takes(p, inside, l, ty) THEN Without(held, p) ELSE held

AllocStep(t, l, ty, r) ==
    /\ MayCall(t) /\ (Nested => ty # "alloca")
    /\ Tried(AllocCall(t, l, ty), Checked(t), FALSE, held, Waiting, r)

ReallocStep(t, p, inside, l, ty, r) ==
    /\ MayCall(t) /\ p \in MayName(t) /\ (inside => p # NULL)
    /\ MISUSE \/ ResizeVerdict(p, inside, l, ty) = "right"
    /\ Tried(ReallocCall(t, p, inside, l, ty), Checked(t), FALSE,
             Taken(p, inside, l, ty), Waiting, r)

HandlerStep(r) ==
    /\ Nested /\ ~aborted
    /\ Tried(Last(frames).call, Result(Now, NULL, {}), TRUE, held, Front(frames), r)

FreeStep(t, p, inside, ty, r) ==
    /\ MayCall(t) /\ p \in MayName(t) /\ (inside => p # NULL)
    /\ MISUSE \/ FreeVerdict(t, p, inside, ty) = "right"
    /\ FreeOutcome(Checked(t).state, mcount, p, inside, ty, r)
    /\ Now' = r.state /\ mcount' = mcount
    /\ outcome' = Outcome(t, Checked(t).errors \cup r.errors,
                          FreeVerdict(t, p, inside, ty))
    /\ held' = IF FreeVerdict(t, p, inside, ty) = "right" THEN Without(held, p)
               ELSE held
    /\ path' = IF FreeVerdict(t, p, inside, ty) = "right" /\ ty = "dealloca"
               THEN [path EXCEPT ![t] = Forget(@, p)] ELSE path
    /\ frames' = Waiting /\ aborted' = aborted

LEMMA CheckedFacts ==
  ASSUME TypeInv, NEW t \in Threads
  PROVE  /\ AllOutcome(Now, mcount, IF Nested THEN {} ELSE Over(Now, t), Checked(t))
         /\ Checked(t) \in Results(mcount) /\ Checked(t).errors = {}
         /\ Sound(Checked(t).state, mcount)
<1> DEFINE n == Nested
           h == Now
<1>1. n \in BOOLEAN /\ Sound(h, mcount)
  BY DEF Nested, TypeInv
<1> HIDE DEF n, h
<1>2. AllOutcome(h, mcount, IF n THEN {} ELSE Over(h, t), CheckAlloca(h, t, n))
  BY <1>1, CheckAllocaEffect
<1>3. AllOutcome(Now, mcount, IF Nested THEN {} ELSE Over(Now, t), Checked(t))
  BY <1>2 DEF n, h, Checked
<1> HIDE DEF Checked
<1>4. Checked(t) \in Results(mcount) /\ Checked(t).errors = {}
  BY <1>3 DEF AllOutcome
<1> QED BY <1>3, <1>4 DEF Results

LEMMA AllocCallType ==
  ASSUME NEW t \in Threads, NEW l \in SIZES, NEW ty \in NEWTYPES
  PROVE  GoodCall(AllocCall(t, l, ty))
  BY DEF GoodCall, AllocCall, CallType, Verdicts

LEMMA ReallocCallType ==
  ASSUME HeldRight(held), NEW t \in Threads, NEW p \in Addresses \cup {NULL},
         NEW inside \in BOOLEAN, NEW l \in SIZES, NEW ty \in RESIZETYPES
  PROVE  /\ GoodCall(ReallocCall(t, p, inside, l, ty))
         /\ Takes(p, inside, l, ty) => p \in DOMAIN held
         /\ HeldRight(Taken(p, inside, l, ty))
<1> DEFINE v == ResizeVerdict(p, inside, l, ty)
           b == IF Takes(p, inside, l, ty) THEN held[p] ELSE NULL
<1>1. v \in Verdicts
  BY DEF ResizeVerdict, Verdicts
<1>2. Takes(p, inside, l, ty) => p \in DOMAIN held
  BY DEF Takes, ResizeVerdict
<1>3. b \in HeldBlocks \cup {NULL} /\ (b # NULL => p \in Addresses)
  BY <1>2 DEF HeldRight
<1>4. HeldRight(Taken(p, inside, l, ty))
  BY HeldWithout DEF Taken
<1> HIDE DEF v, b
<1>5. ReallocCall(t, p, inside, l, ty)
          = [thread |-> t, block |-> p, inside |-> inside, size |-> l, type |-> ty,
             verdict |-> v, before |-> b]
  BY DEF ReallocCall, v, b
<1>6. GoodCall(ReallocCall(t, p, inside, l, ty))
  BY <1>1, <1>3, <1>5 DEF GoodCall, CallType
<1> QED BY <1>2, <1>4, <1>6

LEMMA AllocSteps ==
  ASSUME TypeInv, NEW t \in Threads, NEW l \in SIZES, NEW ty \in NEWTYPES,
         Alloc(t, l, ty)
  PROVE  \E r \in Results(mcount) : AllocStep(t, l, ty, r)
<1> DEFINE c == AllocCall(t, l, ty)
           r0 == Checked(t)
<1>1. c \in CallType /\ Sound(r0.state, mcount) /\ PathRight(path)
  BY AllocCallType, CheckedFacts DEF GoodCall, TypeInv
<1>2. MayCall(t) /\ (Nested => ty # "alloca") /\ Attempt(c, r0, FALSE, held, Waiting)
  BY DEF Alloc, AllocCall, Checked
<1> HIDE DEF c, r0
<1>3. \E r : r \in Results(mcount) /\ Tried(c, r0, FALSE, held, Waiting, r)
  BY <1>1, <1>2, Attempted
<1> QED BY <1>2, <1>3 DEF AllocStep, c, r0

LEMMA ReallocSteps ==
  ASSUME TypeInv, NEW t \in Threads, NEW p \in Addresses \cup {NULL},
         NEW inside \in BOOLEAN, NEW l \in SIZES, NEW ty \in RESIZETYPES,
         Realloc(t, p, inside, l, ty)
  PROVE  \E r \in Results(mcount) : ReallocStep(t, p, inside, l, ty, r)
<1> DEFINE c == ReallocCall(t, p, inside, l, ty)
           r0 == Checked(t)
           mine == Taken(p, inside, l, ty)
<1>1. c \in CallType /\ Sound(r0.state, mcount) /\ PathRight(path)
  BY ReallocCallType, CheckedFacts DEF GoodCall, TypeInv
<1>2. /\ MayCall(t) /\ p \in MayName(t) /\ (inside => p # NULL)
      /\ MISUSE \/ ResizeVerdict(p, inside, l, ty) = "right"
      /\ Attempt(c, r0, FALSE, mine, Waiting)
  BY DEF Realloc, ReallocCall, Checked, Takes, Taken
<1> HIDE DEF c, r0, mine
<1>3. \E r : r \in Results(mcount) /\ Tried(c, r0, FALSE, mine, Waiting, r)
  BY <1>1, <1>2, Attempted
<1> QED BY <1>2, <1>3 DEF ReallocStep, c, r0, mine

LEMMA HandlerSteps ==
  ASSUME TypeInv, HandlerReturns
  PROVE  \E r \in Results(mcount) : HandlerStep(r)
<1> DEFINE c == Last(frames).call
           r0 == Result(Now, NULL, {})
           rest == Front(frames)
<1>1. Nested /\ ~aborted /\ Attempt(c, r0, TRUE, held, rest)
  BY DEF HandlerReturns
<1>2. c \in CallType /\ PathRight(path)
  BY <1>1, FramesLess DEF GoodCall, TypeInv, Nested
<1>3. Sound(r0.state, mcount)
  BY DEF TypeInv, Result
<1> HIDE DEF c, r0, rest
<1>4. \E r : r \in Results(mcount) /\ Tried(c, r0, TRUE, held, rest, r)
  BY <1>1, <1>2, <1>3, Attempted
<1> QED BY <1>1, <1>4 DEF HandlerStep, c, r0, rest

LEMMA FreeSteps ==
  ASSUME TypeInv, NEW t \in Threads, NEW p \in Addresses \cup {NULL},
         NEW inside \in BOOLEAN, NEW ty \in FREETYPES, Free(t, p, inside, ty)
  PROVE  \E r \in Results(mcount) : FreeStep(t, p, inside, ty, r)
<1> DEFINE h == Checked(t).state
           r == FreeMemory(h, p, inside, ty)
<1>1. Sound(h, mcount)
  BY CheckedFacts
<1> HIDE DEF h
<1>2. FreeOutcome(h, mcount, p, inside, ty, r)
  BY <1>1, FreeMemoryEffect
<1>3. Becomes(r.state)
  BY DEF Free, h, Checked
<1>4. r \in Results(mcount) /\ r.state \in State
  <2> HIDE DEF r
  <2> QED BY <1>2 DEF FreeOutcome, Results
<1>5. Now' = r.state /\ mcount' = mcount
  <2> HIDE DEF r
  <2> QED BY <1>3, <1>4, BecomesFacts
<1>6. /\ MayCall(t) /\ p \in MayName(t) /\ (inside => p # NULL)
      /\ MISUSE \/ FreeVerdict(t, p, inside, ty) = "right"
      /\ outcome' = Outcome(t, Checked(t).errors \cup r.errors,
                            FreeVerdict(t, p, inside, ty))
      /\ held' = IF FreeVerdict(t, p, inside, ty) = "right" THEN Without(held, p)
                 ELSE held
      /\ path' = IF FreeVerdict(t, p, inside, ty) = "right" /\ ty = "dealloca"
                 THEN [path EXCEPT ![t] = Forget(@, p)] ELSE path
      /\ frames' = Waiting /\ aborted' = aborted
  BY DEF Free, h, Checked
<1> HIDE DEF r
<1>7. FreeStep(t, p, inside, ty, r)
  BY <1>2, <1>5, <1>6 DEF FreeStep, h
<1> QED BY <1>4, <1>7

\* The block p has been marked.
MarkedNode(d) == [d EXCEPT !.marked = TRUE]
Marking(h, g, p) ==
    /\ DOMAIN g.info = DOMAIN h.info /\ g.info[p] = MarkedNode(h.info[p])
    /\ \A q \in DOMAIN h.info \ {p} : g.info[q] = h.info[q]
    /\ g.flist = h.flist /\ g.astack = h.astack /\ g.slots = h.slots
    /\ g.mtotal = h.mtotal + h.info[p].size
Markable(h, p) == p \in Live(h) /\ ~h.info[p].marked /\ h.info[p].type # "alloca"

LEMMA MarkedNodeFacts ==
  ASSUME NEW d \in Nodes, d.kind = "live"
  PROVE  /\ MarkedNode(d) \in Nodes /\ MarkedNode(d).kind = "live"
         /\ MarkedNode(d).type = d.type /\ MarkedNode(d).size = d.size
         /\ MarkedNode(d).marked
<1>1. d \in [kind : {"live"}, type : Kinds, size : Nat \ {0}, marked : BOOLEAN]
  BY NodeFacts
<1>2. /\ MarkedNode(d) \in
             [kind : {"live"}, type : Kinds, size : Nat \ {0}, marked : BOOLEAN]
      /\ MarkedNode(d).kind = "live" /\ MarkedNode(d).type = d.type
      /\ MarkedNode(d).size = d.size /\ MarkedNode(d).marked
  BY <1>1 DEF MarkedNode
<1> QED BY <1>2 DEF Nodes

LEMMA MarkingSound ==
  ASSUME NEW h, NEW m, Sound(h, m), NEW p, Markable(h, p), NEW g \in State,
         Marking(h, g, p)
  PROVE  Sound(g, m + 1) /\ Live(g) = Live(h)
<1> DEFINE d == h.info[p]
           e == MarkedNode(d)
<1>1. /\ h \in State /\ FlistRight(h) /\ StackRight(h) /\ SlotsRight(h)
      /\ MarksRight(h, m) /\ p \in Live(h) /\ p \in DOMAIN h.info /\ d \in Nodes
      /\ d.kind = "live" /\ ~d.marked /\ d.type # "alloca" /\ d.size \in Nat
      /\ Live(h) \subseteq DOMAIN h.info /\ Marked(h) \subseteq DOMAIN h.info
      /\ IsFiniteSet(Marked(h)) /\ AllocaBlocks(h) \subseteq Live(h)
  BY StateFacts, FS_Subset DEF Sound, Live, Markable
<1>2. /\ e.kind = "live" /\ e.type = d.type /\ e.size = d.size /\ e.marked
  BY <1>1, MarkedNodeFacts
<1>3. /\ DOMAIN g.info = DOMAIN h.info /\ g.info[p] = e
      /\ \A q \in DOMAIN h.info \ {p} : g.info[q] = h.info[q]
      /\ g.flist = h.flist /\ g.astack = h.astack /\ g.slots = h.slots
      /\ g.mtotal = h.mtotal + d.size
  BY DEF Marking
<1> HIDE DEF e
<1>4. Live(g) = Live(h) /\ Freed(g) = Freed(h)
  BY <1>1, <1>2, <1>3 DEF Live, Freed
<1>5. AllocaBlocks(g) = AllocaBlocks(h) /\ Marked(g) = Marked(h) \cup {p}
      /\ p \notin Marked(h)
  BY <1>1, <1>2, <1>3, <1>4 DEF AllocaBlocks, Marked
<1>6. FlistRight(g) /\ StackRight(g) /\ SlotsRight(g)
  BY <1>1, <1>3, <1>4, <1>5 DEF FlistRight, StackRight, SlotsRight
<1>7. m + 1 = Cardinality(Marked(g))
  BY <1>1, <1>5, FS_AddElement DEF MarksRight
<1>8. g.mtotal = SumOf(Sizes(g), Marked(g))
  <2>1. SumOf(Sizes(g), Marked(h)) = SumOf(Sizes(h), Marked(h))
        /\ SumOf(Sizes(h), Marked(h)) \in Nat
    <3>1. /\ Marked(h) \subseteq DOMAIN g.info
          /\ \A q \in Marked(h) : g.info[q].size = h.info[q].size
      BY <1>1, <1>2, <1>3
    <3> QED BY <1>1, <3>1, SameSizes
  <2> DEFINE T == Marked(h) \cup {p}
  <2>2. IsFiniteSet(T) /\ p \in T /\ T \ {p} = Marked(h)
        /\ (\A q \in T : Sizes(g)[q] \in Int) /\ Sizes(g)[p] = d.size
    <3>1. IsFiniteSet(T)
      BY <1>1, FS_AddElement
    <3>2. \A q \in T : Sizes(g)[q] \in Int
      BY <1>1, <1>3, StateFacts
    <3>3. Sizes(g)[p] = d.size
      BY <1>1, <1>2, <1>3, StateFacts
    <3> QED BY <1>5, <3>1, <3>2, <3>3
  <2> HIDE DEF T
  <2>3. SumOf(Sizes(g), T) = d.size + SumOf(Sizes(g), Marked(h))
    BY <2>2, SumRemove
  <2> QED BY <1>1, <1>3, <1>5, <2>1, <2>3 DEF T, MarksRight
<1>9. \A q \in AllocaBlocks(g) : ~g.info[q].marked
  <2>1. p \notin AllocaBlocks(h)
    BY <1>1 DEF AllocaBlocks
  <2> QED BY <1>1, <1>3, <1>5, <2>1 DEF MarksRight
<1> QED BY <1>4, <1>6, <1>7, <1>8, <1>9 DEF Sound, MarksRight

\* __mp_setmark() marks the block, or does nothing.
MarkStep(t, p) ==
    /\ MayCall(t) /\ p \in MayName(t)
    /\ \/ /\ Markable(Now, p)
          /\ Now' \in State /\ Marking(Now, Now', p) /\ mcount' = mcount + 1
          /\ held' = IF p \in DOMAIN held THEN [held EXCEPT ![p].marked = TRUE]
                     ELSE held
       \/ ~Markable(Now, p) /\ Now' = Now /\ mcount' = mcount /\ held' = held
    /\ outcome' = Outcome(NULL, {}, "right")
    /\ frames' = Waiting /\ path' = path /\ aborted' = aborted

LEMMA MarkSteps ==
  ASSUME TypeInv, NEW t \in Threads, NEW p \in Addresses, SetMark(t, p)
  PROVE  MarkStep(t, p)
<1> DEFINE h == Now
           d == info[p]
           i == [info EXCEPT ![p].marked = TRUE]
           j == [info EXCEPT ![p] = MarkedNode(d)]
<1>1. /\ h \in State /\ h.info = info /\ h.flist = flist /\ h.astack = astack
      /\ h.slots = slots /\ h.mtotal = mtotal
  BY DEF TypeInv, Sound, Now
<1>2. Markable(Now, p) <=> p \in Live(Now) /\ ~info[p].marked /\ info[p].type # "alloca"
  BY DEF Markable, Now
<1>3. CASE Markable(Now, p)
  <2>1. /\ info' = i /\ mcount' = mcount + 1 /\ mtotal' = mtotal + info[p].size
        /\ held' = IF p \in DOMAIN held THEN [held EXCEPT ![p].marked = TRUE]
                   ELSE held
        /\ flist' = flist /\ astack' = astack /\ slots' = slots
    BY <1>2, <1>3 DEF SetMark
  <2>2. i = j
    BY DEF MarkedNode
  <2>3. p \in DOMAIN info /\ d \in Nodes /\ d.kind = "live" /\ info \in Infos
        /\ DOMAIN info \in SUBSET Addresses /\ d.size \in Int
    <3>1. p \in Live(h) /\ h \in State
      BY <1>1, <1>3 DEF Markable
    <3>2. p \in DOMAIN h.info /\ h.info[p] \in Nodes /\ h.info \in Infos
          /\ h.info[p].kind = "live" /\ DOMAIN h.info \in SUBSET Addresses
          /\ h.info[p].size \in Int
      <4> HIDE DEF h
      <4> QED BY <3>1, StateFacts DEF Live
    <3> HIDE DEF h
    <3> QED BY <1>1, <3>2
  <2>4. j \in Infos
    <3> DEFINE e == MarkedNode(d)
    <3>1. e \in Nodes
      BY <2>3, MarkedNodeFacts
    <3>2. info \in [DOMAIN info -> Nodes]
      BY <2>3, InfoFacts
    <3> HIDE DEF e, d
    <3>3. j \in [DOMAIN info -> Nodes]
      BY <3>1, <3>2 DEF e
    <3> QED BY <2>3, <3>3 DEF Infos
  <2>5. DOMAIN j = DOMAIN info /\ j[p] = MarkedNode(d)
        /\ \A q \in DOMAIN info \ {p} : j[q] = info[q]
    BY <2>3
  <2> HIDE DEF i, j
  <2>6. /\ Now' = [info |-> j, flist |-> flist, astack |-> astack, slots |-> slots,
                   mtotal |-> mtotal + d.size]
    BY <2>1, <2>2 DEF Now
  <2>7. Now' \in State
    <3>1. flist \in Queues /\ astack \in Stacks /\ slots \in SlotCounts /\ mtotal \in Int
      BY <1>1 DEF State
    <3> QED BY <2>3, <2>4, <2>6, <3>1 DEF State
  <2>8. Marking(Now, Now', p)
    BY <2>5, <2>6 DEF Marking, Now
  <2> QED BY <1>3, <2>1, <2>7, <2>8 DEF MarkStep, SetMark
<1>4. CASE ~Markable(Now, p)
  <2>1. /\ info' = info /\ mcount' = mcount /\ mtotal' = mtotal /\ held' = held
        /\ flist' = flist /\ astack' = astack /\ slots' = slots
    BY <1>2, <1>4 DEF SetMark
  <2>2. Now' = Now
    BY <2>1 DEF Now
  <2> QED BY <1>4, <2>1, <2>2 DEF MarkStep, SetMark
<1> QED BY <1>3, <1>4

\* No function that is active in thread t has the block p any more.
Forgotten(f, t, p) == [f EXCEPT ![t] = Forget(@, p)]

BlocksForgotten(f, g, t, p) ==
    \A u \in Threads : \A k \in 1..Len(f[u]) :
        g[u][k].blocks = IF u = t THEN f[u][k].blocks \ {p} ELSE f[u][k].blocks

LEMMA PathWithout ==
  ASSUME NEW f, PathRight(f), NEW t \in Threads, NEW p
  PROVE  /\ PathRight(Forgotten(f, t, p)) /\ SameSites(f, Forgotten(f, t, p))
         /\ BlocksForgotten(f, Forgotten(f, t, p), t, p)
<1> DEFINE Functions == [site : SITES, blocks : SUBSET Addresses]
           s == f[t]
           w == Forget(s, p)
           g == Forgotten(f, t, p)
<1>1. s \in Seq(Functions) /\ f \in [Threads -> Seq(Functions)]
      /\ Len(s) \in Nat /\ DOMAIN s = 1..Len(s)
  <2> HIDE DEF Functions
  <2>1. f \in [Threads -> Seq(Functions)]
    BY DEF PathRight, Paths, Functions
  <2>2. s \in Seq(Functions)
    BY <2>1
  <2> HIDE DEF s
  <2> QED BY <2>1, <2>2
<1>2. \A k \in 1..Len(s) : /\ w[k] \in Functions /\ w[k].site = s[k].site
                           /\ w[k].blocks = s[k].blocks \ {p}
  <2> SUFFICES ASSUME NEW k \in 1..Len(s)
               PROVE  /\ w[k] \in Functions /\ w[k].site = s[k].site
                      /\ w[k].blocks = s[k].blocks \ {p}
    OBVIOUS
  <2>1. s[k] \in Functions
    <3> HIDE DEF Functions, s
    <3> QED BY <1>1
  <2>2. w[k] = [s[k] EXCEPT !.blocks = @ \ {p}]
    BY <1>1 DEF Forget
  <2> HIDE DEF w, s
  <2> QED BY <2>1, <2>2
<1>3. g = [f EXCEPT ![t] = w]
  BY DEF Forgotten
<1>4. w \in [1..Len(s) -> Functions]
  <2>1. w = [k \in 1..Len(s) |-> w[k]]
    BY <1>1 DEF Forget
  <2> HIDE DEF w, Functions, s
  <2> QED BY <1>2, <2>1
<1>5. w \in Seq(Functions) /\ Len(w) = Len(s)
  <2> HIDE DEF w, Functions, s
  <2> QED BY <1>1, <1>4
<1> HIDE DEF w, s
<1>6. g[t] = w /\ \A u \in Threads \ {t} : g[u] = f[u]
  BY <1>1, <1>3
<1>7. g \in [Threads -> Seq(Functions)]
  <2> HIDE DEF Functions
  <2> QED BY <1>1, <1>3, <1>5
<1> HIDE DEF g
<1>8. SameSites(f, g)
  <2> SUFFICES ASSUME NEW u \in Threads
               PROVE  /\ Len(g[u]) = Len(f[u])
                      /\ \A k \in 1..Len(f[u]) : g[u][k].site = f[u][k].site
    BY DEF SameSites
  <2>1. CASE u = t
    BY <1>2, <1>5, <1>6, <2>1 DEF s
  <2>2. CASE u # t
    BY <1>6, <2>2
  <2> QED BY <2>1, <2>2
<1>9. PathRight(g)
  <2>1. g \in [Threads -> Paths]
    BY <1>7 DEF Paths
  <2> QED BY <1>8, <2>1 DEF PathRight, SameSites
<1>10. ASSUME NEW u \in Threads, NEW k \in 1..Len(f[u])
       PROVE  g[u][k].blocks = IF u = t THEN f[u][k].blocks \ {p}
                               ELSE f[u][k].blocks
  <2>1. CASE u = t
    BY <1>2, <1>5, <1>6, <2>1 DEF s
  <2>2. CASE u # t
    BY <1>6, <2>2
  <2> QED BY <2>1, <2>2
<1>11. BlocksForgotten(f, g, t, p)
  BY <1>10 DEF BlocksForgotten
<1> QED BY <1>8, <1>9, <1>11 DEF g

\* What the handler may still do when it makes a call.
LEMMA CallMay ==
  ASSUME TypeInv, NEW t, MayCall(t)
  PROVE  /\ FramesRight(Waiting) /\ Len(Waiting) = Len(frames)
         /\ \A k \in 1..Len(frames) : Waiting[k].call = frames[k].call
  BY FramesWaiting DEF MayCall, TypeInv

LEMMA AllocTyped ==
  ASSUME TypeInv, NEW t \in Threads, NEW l \in SIZES, NEW ty \in NEWTYPES,
         Alloc(t, l, ty)
  PROVE  TypeInv'
<1>1. PICK r \in Results(mcount) : AllocStep(t, l, ty, r)
  BY AllocSteps
<1> DEFINE c == AllocCall(t, l, ty)
           r0 == Checked(t)
<1>2. /\ GoodCall(c) /\ r0 \in Results(mcount) /\ HeldRight(held)
      /\ FramesRight(Waiting) /\ Tried(c, r0, FALSE, held, Waiting, r)
  BY <1>1, AllocCallType, CheckedFacts, CallMay DEF AllocStep, TypeInv
<1> HIDE DEF c, r0
<1> QED BY <1>2, TriedTyped

LEMMA ReallocTyped ==
  ASSUME TypeInv, NEW t \in Threads, NEW p \in Addresses \cup {NULL},
         NEW inside \in BOOLEAN, NEW l \in SIZES, NEW ty \in RESIZETYPES,
         Realloc(t, p, inside, l, ty)
  PROVE  TypeInv'
<1>1. PICK r \in Results(mcount) : ReallocStep(t, p, inside, l, ty, r)
  BY ReallocSteps
<1> DEFINE c == ReallocCall(t, p, inside, l, ty)
           r0 == Checked(t)
           mine == Taken(p, inside, l, ty)
<1>2. HeldRight(held)
  BY DEF TypeInv
<1>3. GoodCall(c) /\ HeldRight(mine)
  BY <1>2, ReallocCallType
<1>4. /\ r0 \in Results(mcount)
      /\ FramesRight(Waiting) /\ Tried(c, r0, FALSE, mine, Waiting, r)
  BY <1>1, CheckedFacts, CallMay DEF ReallocStep
<1> HIDE DEF c, r0, mine
<1> QED BY <1>3, <1>4, TriedTyped

LEMMA HandlerTyped ==
  ASSUME TypeInv, HandlerReturns
  PROVE  TypeInv'
<1>1. PICK r \in Results(mcount) : HandlerStep(r)
  BY HandlerSteps
<1> DEFINE c == Last(frames).call
           r0 == Result(Now, NULL, {})
           rest == Front(frames)
<1>2. GoodCall(c) /\ FramesRight(rest) /\ HeldRight(held)
  BY <1>1, FramesLess DEF HandlerStep, Nested, TypeInv
<1>3. r0 \in Results(mcount)
  BY ResultFacts DEF TypeInv
<1>4. Tried(c, r0, TRUE, held, rest, r)
  BY <1>1 DEF HandlerStep
<1> HIDE DEF c, r0, rest
<1> QED BY <1>2, <1>3, <1>4, TriedTyped

LEMMA FreeTyped ==
  ASSUME TypeInv, NEW t \in Threads, NEW p \in Addresses \cup {NULL},
         NEW inside \in BOOLEAN, NEW ty \in FREETYPES, Free(t, p, inside, ty)
  PROVE  TypeInv'
<1> DEFINE v == FreeVerdict(t, p, inside, ty)
<1>1. PICK r \in Results(mcount) : FreeStep(t, p, inside, ty, r)
  BY FreeSteps
<1>2. /\ Now' = r.state /\ mcount' = mcount /\ Sound(r.state, mcount)
      /\ r.errors \in SUBSET Errors /\ Checked(t).errors = {}
      /\ outcome' = Outcome(t, Checked(t).errors \cup r.errors, v)
  BY <1>1, CheckedFacts DEF FreeStep, Results
<1>3. v \in Verdicts
  BY DEF FreeVerdict, Verdicts
<1> HIDE DEF v
<1>4. outcome' \in Outcomes
  <2>1. outcome' = Outcome(t, r.errors, v)
    BY <1>2
  <2> QED BY <1>2, <1>3, <2>1 DEF Outcome, Outcomes
<1>5. HeldRight(held')
  BY <1>1, HeldWithout DEF FreeStep, TypeInv
<1>6. PathRight(path')
  <2>1. path' = Forgotten(path, t, p) \/ path' = path
    BY <1>1 DEF FreeStep, Forgotten
  <2> QED BY <2>1, PathWithout DEF TypeInv
<1>7. FramesRight(frames') /\ aborted' \in BOOLEAN
  BY <1>1, CallMay DEF FreeStep, TypeInv
<1>8. Sound(Now', mcount')
  BY <1>2
<1> QED BY <1>4, <1>5, <1>6, <1>7, <1>8 DEF TypeInv

LEMMA MarkTyped ==
  ASSUME TypeInv, NEW t \in Threads, NEW p \in Addresses, SetMark(t, p)
  PROVE  TypeInv'
<1>1. MarkStep(t, p)
  BY MarkSteps
<1>2. Sound(Now', mcount')
  <2> DEFINE h == Now
             g == Now'
             m == mcount
  <2>1. Sound(h, m)
    BY DEF TypeInv
  <2>2. CASE Markable(h, p) /\ g \in State /\ Marking(h, g, p) /\ mcount' = m + 1
    <3> HIDE DEF h, g, m
    <3>1. Sound(g, m + 1)
      BY <2>1, <2>2, MarkingSound
    <3> QED BY <2>2, <3>1 DEF g
  <2>3. CASE g = h /\ mcount' = m
    BY <2>1, <2>3
  <2> QED BY <1>1, <2>2, <2>3 DEF MarkStep
<1>3. HeldRight(held')
  <2>1. HeldRight(held)
    BY DEF TypeInv
  <2> DEFINE b == [held[p] EXCEPT !.marked = TRUE]
  <2>2. CASE p \in DOMAIN held /\ held' = [held EXCEPT ![p].marked = TRUE]
    <3>1. b \in HeldBlocks
      BY <2>1, <2>2 DEF HeldRight, HeldBlocks
    <3>2. held' = [held EXCEPT ![p] = b]
      BY <2>2
    <3> HIDE DEF b
    <3> QED BY <2>1, <3>1, <3>2 DEF HeldRight
  <2>3. CASE held' = held
    BY <2>1, <2>3
  <2> QED BY <1>1, <2>2, <2>3 DEF MarkStep
<1>4. outcome' \in Outcomes
  BY <1>1 DEF MarkStep, Outcome, Outcomes, Verdicts
<1>5. FramesRight(frames') /\ PathRight(path') /\ aborted' \in BOOLEAN
  BY <1>1, CallMay DEF MarkStep, TypeInv
<1> QED BY <1>2, <1>3, <1>4, <1>5 DEF TypeInv

LEMMA EnterTyped ==
  ASSUME TypeInv, NEW t \in Threads, NEW s \in SITES, Enter(t, s)
  PROVE  TypeInv' /\ Now' = Now
<1> DEFINE Functions == [site : SITES, blocks : SUBSET Addresses]
           e == [site |-> s, blocks |-> {}]
           f == path[t]
<1>1. Now' = Now /\ mcount' = mcount /\ frames' = frames /\ held' = held
      /\ aborted' = aborted
  BY DEF Enter, library, Now
<1>2. PathRight(path')
  <2>1. e \in Functions
    OBVIOUS
  <2> HIDE DEF e, Functions
  <2>2. path \in [Threads -> Seq(Functions)]
    BY DEF TypeInv, PathRight, Paths, Functions
  <2> DEFINE a == Append(f, e)
  <2>3. f \in Seq(Functions) /\ a \in Seq(Functions) /\ Len(a) = Len(f) + 1
    BY <2>1, <2>2
  <2>4. path' = [path EXCEPT ![t] = a] /\ Len(f) < MAXPATH
    BY DEF Enter, e
  <2>5. Len(a) \in 1..MAXPATH
    BY <2>3, <2>4, ProgramAssumption DEF TypeInv, PathRight
  <2> HIDE DEF a, f
  <2>6. path' \in [Threads -> Seq(Functions)]
    BY <2>2, <2>3, <2>4
  <2>7. path'[t] = a /\ \A u \in Threads \ {t} : path'[u] = path[u]
    BY <2>2, <2>4
  <2>8. \A u \in Threads : Len(path'[u]) \in 1..MAXPATH
    BY <2>5, <2>7 DEF TypeInv, PathRight
  <2> QED BY <2>6, <2>8 DEF PathRight, Paths, Functions
<1>3. outcome' \in Outcomes
  BY DEF Enter, Outcome, Outcomes, Verdicts
<1> QED BY <1>1, <1>2, <1>3 DEF TypeInv

LEMMA ReturnTyped ==
  ASSUME TypeInv, NEW t \in Threads, Return(t)
  PROVE  TypeInv' /\ Now' = Now
<1> DEFINE Functions == [site : SITES, blocks : SUBSET Addresses]
           f == path[t]
           n == Len(f) - 1
           a == SubSeq(f, 1, n)
<1>1. Now' = Now /\ mcount' = mcount /\ frames' = frames /\ held' = held
      /\ aborted' = aborted
  BY DEF Return, library, Now
<1>2. PathRight(path')
  <2> HIDE DEF Functions
  <2>1. path \in [Threads -> Seq(Functions)]
    BY DEF TypeInv, PathRight, Paths, Functions
  <2>2. f \in Seq(Functions) /\ Len(f) > 1 /\ Len(f) \in 1..MAXPATH /\ Len(f) \in Nat
    BY <2>1 DEF Return, TypeInv, PathRight
  <2>3. n \in 1..MAXPATH /\ n \in Nat /\ n <= Len(f)
    BY <2>2, ProgramAssumption
  <2>4. path' = [path EXCEPT ![t] = a]
    BY DEF Return, Front
  <2>5. a \in Seq(Functions) /\ Len(a) = n
    <3> HIDE DEF n
    <3> QED BY <2>2, <2>3
  <2> HIDE DEF a, f
  <2>6. path' \in [Threads -> Seq(Functions)]
    BY <2>1, <2>4, <2>5
  <2>7. path'[t] = a /\ \A u \in Threads \ {t} : path'[u] = path[u]
    BY <2>1, <2>4
  <2>8. \A u \in Threads : Len(path'[u]) \in 1..MAXPATH
    BY <2>3, <2>5, <2>7 DEF TypeInv, PathRight
  <2> QED BY <2>6, <2>8 DEF PathRight, Paths, Functions
<1>3. outcome' \in Outcomes
  BY DEF Return, Outcome, Outcomes, Verdicts
<1> QED BY <1>1, <1>2, <1>3 DEF TypeInv

LEMMA TypeInit == Init => TypeInv
<1> SUFFICES ASSUME Init PROVE TypeInv
  OBVIOUS
<1> DEFINE h == Now
<1>1. /\ h = [info |-> info, flist |-> flist, astack |-> astack, slots |-> slots,
              mtotal |-> mtotal]
      /\ info = [p \in {} |-> FreedNode] /\ flist = <<>> /\ astack = <<>>
      /\ slots = [info |-> 0, alloca |-> 0] /\ mcount = 0 /\ mtotal = 0
  BY DEF Init, Now
<1>2. info \in Infos /\ DOMAIN info = {}
  <2>1. info \in [{} -> Nodes] /\ {} \in SUBSET Addresses
    BY <1>1
  <2> QED BY <2>1 DEF Infos
<1>3. h \in State
  <2>1. slots \in SlotCounts
    BY <1>1 DEF SlotCounts
  <2>2. flist \in Queues /\ astack \in Stacks
    BY <1>1 DEF Queues, Stacks
  <2> QED BY <1>1, <1>2, <2>1, <2>2 DEF State
<1>4. /\ h.info = info /\ h.flist = <<>> /\ h.astack = <<>>
      /\ h.slots.info = 0 /\ h.slots.alloca = 0 /\ h.mtotal = 0
  BY <1>1
<1> HIDE DEF h
<1>5. Live(h) = {} /\ Freed(h) = {} /\ AllocaBlocks(h) = {} /\ Marked(h) = {}
  BY <1>2, <1>4 DEF Live, Freed, AllocaBlocks, Marked
<1>6. FlistRight(h)
  BY <1>4, <1>5, BlocksAssumption DEF FlistRight, Range
<1>7. StackRight(h)
  BY <1>4, <1>5 DEF StackRight, Distinct, Blocks
<1>8. Cardinality({}) = 0
  BY FS_EmptySet
<1>9. SlotsRight(h)
  BY <1>2, <1>4, <1>8, BlocksAssumption DEF SlotsRight
<1>10. MarksRight(h, mcount)
  <2>1. SumOf(Sizes(h), {}) = 0
    BY SumEmpty
  <2> QED BY <1>1, <1>4, <1>5, <1>8, <2>1 DEF MarksRight
<1>11. Sound(Now, mcount)
  BY <1>3, <1>6, <1>7, <1>9, <1>10 DEF Sound, h
<1>12. FramesRight(frames)
  BY DEF Init, FramesRight
<1>13. PathRight(path)
  <2> DEFINE Functions == [site : SITES, blocks : SUBSET Addresses]
  <2>1. PICK s \in [Threads -> SITES] :
            path = [t \in Threads |-> <<[site |-> s[t], blocks |-> {}]>>]
    BY DEF Init
  <2>2. ASSUME NEW t \in Threads
        PROVE  path[t] \in Seq(Functions) /\ Len(path[t]) = 1
    <3> DEFINE e == [site |-> s[t], blocks |-> {}]
    <3>1. e \in Functions /\ path[t] = <<e>>
      BY <2>1
    <3> HIDE DEF e, Functions
    <3> QED BY <3>1
  <2> HIDE DEF Functions
  <2>3. path \in [Threads -> Seq(Functions)]
    <3>1. path = [t \in Threads |-> path[t]]
      BY <2>1
    <3> QED BY <2>2, <3>1
  <2>4. path \in [Threads -> Paths]
    BY <2>3 DEF Paths, Functions
  <2>5. 1 \in 1..MAXPATH
    BY ProgramAssumption
  <2> QED BY <2>2, <2>4, <2>5 DEF PathRight
<1>14. HeldRight(held)
  BY DEF Init, HeldRight
<1>15. outcome \in Outcomes /\ aborted \in BOOLEAN
  BY DEF Init, Outcome, Outcomes, Verdicts
<1> QED BY <1>11, <1>12, <1>13, <1>14, <1>15 DEF TypeInv

LEMMA TypeStutter == ASSUME TypeInv, UNCHANGED vars PROVE TypeInv' /\ Now' = Now
<1>1. Now' = Now /\ mcount' = mcount /\ frames' = frames /\ path' = path
      /\ held' = held /\ outcome' = outcome /\ aborted' = aborted
  BY DEF vars, Now
<1> QED BY <1>1 DEF TypeInv

\* What each of the steps preserves all of them do.
LEMMA TypeStep == ASSUME TypeInv, [Next]_vars PROVE TypeInv'
<1>1. CASE UNCHANGED vars
  BY <1>1, TypeStutter
<1>2. ASSUME NEW t \in Threads, NEW l \in SIZES, NEW ty \in NEWTYPES, Alloc(t, l, ty)
      PROVE  TypeInv'
  BY <1>2, AllocTyped
<1>3. ASSUME NEW t \in Threads, NEW p \in Addresses \cup {NULL},
             NEW inside \in BOOLEAN, NEW l \in SIZES, NEW ty \in RESIZETYPES,
             Realloc(t, p, inside, l, ty)
      PROVE  TypeInv'
  BY <1>3, ReallocTyped
<1>4. ASSUME NEW t \in Threads, NEW p \in Addresses \cup {NULL},
             NEW inside \in BOOLEAN, NEW ty \in FREETYPES, Free(t, p, inside, ty)
      PROVE  TypeInv'
  BY <1>4, FreeTyped
<1>5. CASE HandlerReturns
  BY <1>5, HandlerTyped
<1>6. ASSUME NEW t \in Threads, NEW p \in Addresses, SetMark(t, p) PROVE TypeInv'
  BY <1>6, MarkTyped
<1>7. ASSUME NEW t \in Threads, Return(t) PROVE TypeInv'
  BY <1>7, ReturnTyped
<1>8. ASSUME NEW t \in Threads, NEW s \in SITES, Enter(t, s) PROVE TypeInv'
  BY <1>8, EnterTyped
<1> QED BY <1>1, <1>2, <1>3, <1>4, <1>5, <1>6, <1>7, <1>8 DEF Next

LEMMA TypeHolds == Spec => []TypeInv
  BY TypeInit, TypeStep, PTL DEF Spec

\* In every state the library's and the program's data have their types, whatever
\* is called, by how many threads, rightly or not, with a handler or without.
THEOREM TypeCorrect == Spec => []TypeOK
  BY TypeHolds, TypeFromInv, PTL

LEMMA BooksFromInv == TypeInv => StackExact /\ MarksExact /\ FreedKept
<1> SUFFICES ASSUME TypeInv PROVE StackExact /\ MarksExact /\ FreedKept
  OBVIOUS
<1> DEFINE h == Now
<1>1. /\ h \in State /\ FlistRight(h) /\ StackRight(h) /\ MarksRight(h, mcount)
      /\ h.info = info /\ h.flist = flist /\ h.astack = astack
      /\ h.mtotal = mtotal
  BY DEF TypeInv, Sound, Now
<1>2. StackExact
  BY <1>1 DEF StackExact, StackRight, Distinct, AllocaBlocks
<1>3. MarksExact
  <2>1. Marked(h) = {p \in Live(Now) : info[p].marked}
    BY <1>1 DEF Marked
  <2> QED BY <1>1, <2>1 DEF MarksExact, MarksRight
<1>4. FreedKept
  <2>1. DOMAIN flist = 1..Len(flist)
    BY <1>1 DEF State, Queues
  <2>2. Range(flist) = {flist[k] : k \in 1..Len(flist)}
    BY <2>1 DEF Range
  <2> QED BY <1>1, <2>2 DEF FreedKept, FlistRight
<1> QED BY <1>2, <1>3, <1>4

\* The stack of alloca() blocks has all of the live ones, each once, for every
\* number of threads: those that it still has for the wrong thread as well.
THEOREM StackIsExact == Spec => []StackExact
  BY TypeHolds, BooksFromInv, PTL

\* The count and total size of marked blocks are those of the live blocks that are
\* marked, through every way of resizing and moving them.
THEOREM MarksAreExact == Spec => []MarksExact
  BY TypeHolds, BooksFromInv, PTL

\* The queue of freed blocks has those whose details are kept, each once, and never
\* more than the NOFREE option says.
THEOREM FreedAreKept == Spec => []FreedKept
  BY TypeHolds, BooksFromInv, PTL

-----------------------------------------------------------------------------
(***************************************************************************)
(* The blocks of functions that have returned                              *)
(***************************************************************************)
LEMMA ChainsSame ==
  ASSUME SameSites(path, path'), NEW t \in Threads PROVE Chain(t)' = Chain(t)
  BY DEF SameSites, Chain

\* Only SetMark, Enter and Return are no call.
LEMMA TriedSites ==
  ASSUME TypeInv, NEW c, GoodCall(c), NEW r0, NEW again, NEW mine, NEW rest,
         NEW r \in Results(mcount), Tried(c, r0, again, mine, rest, r)
  PROVE  SameSites(path, path')
<1>1. CASE path' = path
  BY <1>1 DEF SameSites
<1>2. CASE Succeed(c, r, mine, rest) /\ c.type = "alloca"
  <2> DEFINE n == Len(path[c.thread])
  <2>1. PathRight(path) /\ c.thread \in Threads
    BY DEF TypeInv, GoodCall, CallType
  <2>2. n \in 1..Len(path[c.thread])
    BY <2>1 DEF PathRight
  <2>3. path' = Given(path, c.thread, n, r.ret)
    BY <1>2 DEF Succeed, Given
  <2>4. r.ret \in Addresses
    BY <1>2 DEF Succeed, Results
  <2> HIDE DEF n
  <2> QED BY <2>1, <2>2, <2>3, <2>4, PathBlock
<1> QED BY <1>1, <1>2 DEF Tried, Succeed, CallHandler, Fail

\* What is waiting after an attempt is what was or that and the call itself.
LEMMA TriedFrames ==
  ASSUME NEW c, NEW r0, NEW again, NEW mine, NEW rest, NEW r,
         Tried(c, r0, again, mine, rest, r)
  PROVE  \/ frames' = rest
         \/ /\ HANDLER
            /\ \E n : frames' = Append(rest, [call |-> c, left |-> n])
  BY DEF Tried, Succeed, CallHandler, Fail

LEMMA FreedSites ==
  ASSUME TypeInv, NEW t \in Threads, NEW p, NEW inside, NEW ty, NEW r,
         FreeStep(t, p, inside, ty, r)
  PROVE  SameSites(path, path')
<1>1. CASE path' = path
  BY <1>1 DEF SameSites
<1>2. CASE path' = Forgotten(path, t, p)
  BY <1>2, PathWithout DEF TypeInv
<1> QED BY <1>1, <1>2 DEF FreeStep, Forgotten

\* No node on the stack is of a function that thread t can see to have returned.
Clean(h, t) == \A n \in Range(h.astack) : ~OutOfScope(n.frame, Chain(t))
AllOf(s, t) == \A k \in 1..Len(s) : s[k].call.thread = t

EndedInv ==
    /\ frames = <<>> /\ outcome.thread # NULL => Clean(Now, outcome.thread)
    /\ frames # <<>> => /\ Clean(Now, Last(frames).call.thread)
                        /\ AllOf(frames, Last(frames).call.thread)

\* New nodes are of the function that makes the call.
LEMMA FreeingClean ==
  ASSUME NEW h, NEW g, NEW B, NEW t, Clean(h, t), Freeing(h, g, B)
  PROVE  Clean(g, t)
  BY DEF Clean, Freeing

LEMMA SameChain ==
  ASSUME NEW t, Chain(t) \in Seq(SITES) PROVE ~OutOfScope(Chain(t), Chain(t))
  BY DEF OutOfScope

LEMMA FreeClean ==
  ASSUME NEW h, NEW m, NEW p, NEW inside, NEW ty, NEW t, NEW r, Clean(h, t),
         FreeOutcome(h, m, p, inside, ty, r)
  PROVE  Clean(r.state, t)
<1>1. CASE Freeable(h, p, inside, ty)
  <2>1. Freeing(h, r.state, {p})
    BY <1>1 DEF FreeOutcome
  <2> QED BY <2>1 DEF Clean, Freeing
<1>2. CASE ~Freeable(h, p, inside, ty)
  BY <1>2 DEF FreeOutcome
<1> QED BY <1>1, <1>2

LEMMA MemoryClean ==
  ASSUME NEW h, NEW m, NEW t, NEW p, NEW inside, NEW l, NEW ty, NEW nested, NEW r,
         Chain(t) \in Seq(SITES), Clean(h, t),
         MemoryOutcome(h, m, t, p, inside, l, ty, nested, r)
  PROVE  Clean(r.state, t)
<1>1. CASE r.state = h
  BY <1>1
<1>2. CASE GetOutcome(h, m, t, l, ty, nested, r) /\ r.ret # NULL
  <2>1. Adding(h, r.state, r.ret, NewNode(l, ty), NewStacked(t, r.ret, ty))
    BY <1>2 DEF GetOutcome
  <2>2. \A n \in NewStacked(t, r.ret, ty) : n.frame = Chain(t)
    BY DEF NewStacked
  <2>3. Range(r.state.astack) = Range(h.astack) \cup NewStacked(t, r.ret, ty)
    BY <2>1 DEF Adding
  <2> QED BY <2>2, <2>3, SameChain DEF Clean
<1>3. CASE FreeOutcome(h, m, p, FALSE, ty, r)
  BY <1>3, FreeClean
<1>4. CASE ResizeOutcome(h, m, p, l, ty, nested, r)
  <2>1. CASE r.ret # NULL
    BY <1>4, <2>1 DEF ResizeOutcome, Replacing, Clean
  <2>2. CASE r.ret = NULL
    BY <1>1, <1>3, <1>4, <2>2 DEF ResizeOutcome
  <2> QED BY <2>1, <2>2
<1> QED BY <1>1, <1>2, <1>3, <1>4 DEF MemoryOutcome, GetOutcome

LEMMA CheckedClean ==
  ASSUME TypeInv, EndedInv, NEW t \in Threads, MayCall(t)
  PROVE  Clean(Checked(t).state, t) /\ AllOf(Waiting, t)
<1> DEFINE h == Checked(t).state
           B == IF Nested THEN {} ELSE Over(Now, t)
<1>1. AllOutcome(Now, mcount, B, Checked(t))
  BY CheckedFacts
<1>2. Freeing(Now, h, B)
  BY <1>1 DEF AllOutcome
<1>3. AllOf(Waiting, t)
  <2>1. /\ Len(Waiting) = Len(frames) /\ frames \in Seq(Frames)
        /\ \A k \in 1..Len(frames) : Waiting[k].call = frames[k].call
    BY CallMay DEF TypeInv, FramesRight
  <2>2. AllOf(frames, t)
    BY <2>1 DEF EndedInv, MayCall, AllOf
  <2> QED BY <2>1, <2>2 DEF AllOf
<1>4. CASE Nested
  <2>1. Clean(Now, t)
    BY <1>4 DEF EndedInv, MayCall, Nested
  <2> HIDE DEF h, B
  <2>2. Clean(h, t)
    BY <1>2, <2>1, FreeingClean
  <2> QED BY <1>3, <2>2 DEF h
<1>5. CASE ~Nested
  <2>1. B = Over(Now, t)
    BY <1>5
  <2> HIDE DEF h, B
  <2>2. Clean(h, t)
    BY <1>2, <2>1 DEF Clean, Freeing, Over
  <2> QED BY <1>3, <2>2 DEF h
<1> QED BY <1>4, <1>5

LEMMA TriedClean ==
  ASSUME TypeInv, NEW c, GoodCall(c), NEW r0 \in Results(mcount), NEW again, NEW mine,
         NEW rest, FramesRight(rest), NEW r \in Results(mcount),
         Tried(c, r0, again, mine, rest, r), TypeInv',
         Clean(r0.state, c.thread), AllOf(rest, c.thread)
  PROVE  EndedInv'
<1> DEFINE t == c.thread
<1>1. t \in Threads /\ Chain(t) \in Seq(SITES) /\ t # NULL
  BY ChainType, ProgramAssumption DEF GoodCall, CallType, TypeInv
<1>2. Clean(r.state, t)
  <2> DEFINE p == c.block
             inside == c.inside
             l == c.size
             ty == c.type
             h == r0.state
             nested == rest # <<>>
  <2>1. MemoryOutcome(h, mcount, t, p, inside, l, ty, nested, r) /\ Clean(h, t)
    BY DEF Tried
  <2> HIDE DEF t, p, inside, l, ty, h, nested
  <2> QED BY <1>1, <2>1, MemoryClean
<1>3. Chain(t)' = Chain(t)
  <2>1. SameSites(path, path')
    BY TriedSites
  <2> HIDE DEF t
  <2>2. [k \in 1..Len(path'[t]) |-> path'[t][k].site] = Chain(t)
    BY <1>1, <2>1 DEF SameSites, Chain
  <2> QED BY <2>2 DEF Chain, t
<1>4. Clean(Now, t)'
  BY <1>2, <1>3 DEF Clean, Tried
<1>5. outcome'.thread = t
  BY DEF Tried, Outcome
<1>6. AllOf(frames', t) /\ (frames' # <<>> => Last(frames').call.thread = t)
  <2>1. FramesRight(rest) /\ rest \in Seq(Frames)
    BY DEF FramesRight
  <2>2. CASE frames' = rest
    BY <2>1, <2>2, FramesLess DEF AllOf
  <2>3. ASSUME NEW n, frames' = Append(rest, [call |-> c, left |-> n])
        PROVE  AllOf(frames', t) /\ Last(frames').call.thread = t
    <3> DEFINE e == [call |-> c, left |-> n]
               a == Append(rest, e)
    <3>1. Len(rest) \in Nat /\ e.call = c
      BY <2>1
    <3> HIDE DEF e
    <3>2. Len(a) = Len(rest) + 1 /\ a[Len(rest) + 1] = e
          /\ \A k \in 1..Len(rest) : a[k] = rest[k]
      BY <2>1
    <3> HIDE DEF a
    <3>3. frames' = a
      BY <2>3 DEF a, e
    <3> QED BY <3>1, <3>2, <3>3 DEF AllOf, Last
  <2> QED BY <2>2, <2>3, TriedFrames
<1> HIDE DEF t
<1>7. frames' # <<>> => AllOf(frames', Last(frames').call.thread)
  BY <1>6
<1> QED BY <1>4, <1>5, <1>6, <1>7 DEF EndedInv

\* A property of what the call of Alloc or Realloc, or one of the handler's, comes
\* to is one of the step.
AttemptGood(c, r0, again, mine, rest, r) ==
    /\ GoodCall(c) /\ r0 \in Results(mcount) /\ r0.errors = {} /\ HeldRight(mine)
    /\ FramesRight(rest) /\ r \in Results(mcount)
    /\ Tried(c, r0, again, mine, rest, r)

LEMMA AllocGood ==
  ASSUME TypeInv, NEW t \in Threads, NEW l \in SIZES, NEW ty \in NEWTYPES,
         NEW r \in Results(mcount), AllocStep(t, l, ty, r)
  PROVE  AttemptGood(AllocCall(t, l, ty), Checked(t), FALSE, held, Waiting, r)
  BY AllocCallType, CheckedFacts, CallMay DEF AllocStep, TypeInv, AttemptGood

LEMMA ReallocGood ==
  ASSUME TypeInv, NEW t \in Threads, NEW p \in Addresses \cup {NULL},
         NEW inside \in BOOLEAN, NEW l \in SIZES, NEW ty \in RESIZETYPES,
         NEW r \in Results(mcount), ReallocStep(t, p, inside, l, ty, r)
  PROVE  AttemptGood(ReallocCall(t, p, inside, l, ty), Checked(t), FALSE,
                     Taken(p, inside, l, ty), Waiting, r)
<1>1. HeldRight(held)
  BY DEF TypeInv
<1>2. /\ GoodCall(ReallocCall(t, p, inside, l, ty))
      /\ HeldRight(Taken(p, inside, l, ty))
  BY <1>1, ReallocCallType
<1> QED BY <1>2, CheckedFacts, CallMay DEF ReallocStep, AttemptGood

LEMMA HandlerGood ==
  ASSUME TypeInv, NEW r \in Results(mcount), HandlerStep(r)
  PROVE  AttemptGood(Last(frames).call, Result(Now, NULL, {}), TRUE, held,
                     Front(frames), r)
<1>1. GoodCall(Last(frames).call) /\ FramesRight(Front(frames)) /\ HeldRight(held)
  BY FramesLess DEF HandlerStep, Nested, TypeInv
<1>2. Result(Now, NULL, {}) \in Results(mcount) /\ Result(Now, NULL, {}).errors = {}
  BY ResultFacts DEF TypeInv
<1> QED BY <1>1, <1>2 DEF HandlerStep, AttemptGood

LEMMA GoodClean ==
  ASSUME TypeInv, TypeInv', NEW c, NEW r0, NEW again, NEW mine, NEW rest, NEW r,
         AttemptGood(c, r0, again, mine, rest, r),
         Clean(r0.state, c.thread), AllOf(rest, c.thread)
  PROVE  EndedInv'
  BY TriedClean DEF AttemptGood

LEMMA AllocEnded ==
  ASSUME TypeInv, TypeInv', EndedInv, NEW t \in Threads, NEW l \in SIZES,
         NEW ty \in NEWTYPES, Alloc(t, l, ty)
  PROVE  EndedInv'
<1>1. PICK r \in Results(mcount) : AllocStep(t, l, ty, r)
  BY AllocSteps
<1> DEFINE c == AllocCall(t, l, ty)
           r0 == Checked(t)
<1>2. AttemptGood(c, r0, FALSE, held, Waiting, r)
  BY <1>1, AllocGood
<1>3. c.thread = t /\ Clean(r0.state, t) /\ AllOf(Waiting, t)
  BY <1>1, CheckedClean DEF AllocStep, AllocCall
<1> HIDE DEF c, r0
<1> QED BY <1>2, <1>3, GoodClean

LEMMA ReallocEnded ==
  ASSUME TypeInv, TypeInv', EndedInv, NEW t \in Threads,
         NEW p \in Addresses \cup {NULL}, NEW inside \in BOOLEAN, NEW l \in SIZES,
         NEW ty \in RESIZETYPES, Realloc(t, p, inside, l, ty)
  PROVE  EndedInv'
<1>1. PICK r \in Results(mcount) : ReallocStep(t, p, inside, l, ty, r)
  BY ReallocSteps
<1> DEFINE c == ReallocCall(t, p, inside, l, ty)
           r0 == Checked(t)
           mine == Taken(p, inside, l, ty)
<1>2. AttemptGood(c, r0, FALSE, mine, Waiting, r)
  BY <1>1, ReallocGood
<1>3. c.thread = t /\ Clean(r0.state, t) /\ AllOf(Waiting, t)
  BY <1>1, CheckedClean DEF ReallocStep, ReallocCall
<1> HIDE DEF c, r0, mine
<1> QED BY <1>2, <1>3, GoodClean

LEMMA HandlerEnded ==
  ASSUME TypeInv, TypeInv', EndedInv, HandlerReturns
  PROVE  EndedInv'
<1>1. PICK r \in Results(mcount) : HandlerStep(r)
  BY HandlerSteps
<1> DEFINE c == Last(frames).call
           r0 == Result(Now, NULL, {})
           rest == Front(frames)
<1>2. AttemptGood(c, r0, TRUE, held, rest, r)
  BY <1>1, HandlerGood
<1>3. Clean(r0.state, c.thread)
  BY <1>1 DEF HandlerStep, Nested, EndedInv, Result
<1>4. AllOf(rest, c.thread)
  BY <1>1, FramesLess DEF HandlerStep, Nested, EndedInv, AllOf, TypeInv
<1> HIDE DEF c, r0, rest
<1> QED BY <1>2, <1>3, <1>4, GoodClean

LEMMA FreeEnded ==
  ASSUME TypeInv, TypeInv', EndedInv, NEW t \in Threads,
         NEW p \in Addresses \cup {NULL}, NEW inside \in BOOLEAN,
         NEW ty \in FREETYPES, Free(t, p, inside, ty)
  PROVE  EndedInv'
<1>1. PICK r \in Results(mcount) : FreeStep(t, p, inside, ty, r)
  BY FreeSteps
<1> DEFINE h == Checked(t).state
<1>2. Clean(h, t) /\ AllOf(Waiting, t)
  BY <1>1, CheckedClean DEF FreeStep
<1>3. FreeOutcome(h, mcount, p, inside, ty, r)
  BY <1>1 DEF FreeStep
<1> HIDE DEF h
<1>4. Clean(r.state, t)
  BY <1>2, <1>3, FreeClean
<1>5. Chain(t)' = Chain(t)
  BY <1>1, FreedSites DEF SameSites, Chain
<1>6. Clean(Now, t)'
  BY <1>1, <1>4, <1>5 DEF Clean, FreeStep
<1>7. outcome'.thread = t /\ frames' = Waiting
  BY <1>1 DEF FreeStep, Outcome
<1>8. frames' # <<>> => Last(frames').call.thread = t
  <2>1. FramesRight(Waiting)
    BY <1>1, CallMay DEF FreeStep
  <2> QED BY <1>2, <1>7, <2>1, FramesLess DEF AllOf
<1>9. frames' # <<>> => AllOf(frames', Last(frames').call.thread)
  BY <1>2, <1>7, <1>8
<1> QED BY <1>6, <1>7, <1>8, <1>9 DEF EndedInv

\* A step of which no thread gets an answer, while the same calls wait.
Quiet ==
    /\ outcome'.thread = NULL /\ Now'.astack = Now.astack
    /\ Len(frames') = Len(frames)
    /\ \A k \in 1..Len(frames) : frames'[k].call = frames[k].call
    /\ \A u \in Threads : frames # <<>> /\ u = Last(frames).call.thread =>
                             Chain(u)' = Chain(u)

LEMMA QuietEnded ==
  ASSUME TypeInv, TypeInv', EndedInv, Quiet PROVE EndedInv'
<1>1. /\ frames \in Seq(Frames) /\ frames' \in Seq(Frames) /\ Len(frames) \in Nat
      /\ Len(frames') = Len(frames)
      /\ \A k \in 1..Len(frames) : frames'[k].call = frames[k].call
  BY DEF TypeInv, FramesRight, Quiet
<1>2. CASE frames = <<>>
  <2>1. frames' = <<>>
    BY <1>1, <1>2
  <2> QED BY <2>1 DEF EndedInv, Quiet
<1>3. CASE frames # <<>>
  <2>1. Last(frames).call.thread \in Threads
    BY <1>3, FramesLess DEF TypeInv, GoodCall, CallType
  <2>2. PICK u \in Threads : u = Last(frames).call.thread
    BY <2>1
  <2>3. Clean(Now, u) /\ AllOf(frames, u) /\ Chain(u)' = Chain(u)
        /\ Now'.astack = Now.astack
    BY <1>3, <2>2 DEF EndedInv, Quiet
  <2>4. Clean(Now, u)'
    BY <2>3 DEF Clean
  <2>5. AllOf(frames', u) /\ frames' # <<>>
    BY <1>1, <1>3, <2>3 DEF AllOf
  <2>6. Last(frames').call.thread = u
    BY <1>1, <1>3, <2>5 DEF AllOf, Last
  <2> QED BY <2>4, <2>5, <2>6 DEF EndedInv
<1> QED BY <1>2, <1>3

LEMMA MarkEnded ==
  ASSUME TypeInv, TypeInv', EndedInv, NEW t \in Threads, NEW p \in Addresses,
         SetMark(t, p)
  PROVE  EndedInv'
<1>1. MarkStep(t, p)
  BY MarkSteps
<1>2. /\ outcome'.thread = NULL /\ Now'.astack = Now.astack /\ frames' = Waiting
      /\ path' = path
  BY <1>1 DEF MarkStep, Outcome, Marking
<1>3. /\ Len(Waiting) = Len(frames)
      /\ \A k \in 1..Len(frames) : Waiting[k].call = frames[k].call
  BY <1>1, CallMay DEF MarkStep
<1>4. \A u \in Threads : Chain(u)' = Chain(u)
  BY <1>2 DEF Chain
<1>5. Quiet
  BY <1>2, <1>3, <1>4 DEF Quiet
<1> QED BY <1>5, QuietEnded

LEMMA EnterEnded ==
  ASSUME TypeInv, TypeInv', EndedInv, NEW t \in Threads, NEW s \in SITES, Enter(t, s)
  PROVE  EndedInv'
<1>1. /\ outcome'.thread = NULL /\ Now' = Now /\ frames' = frames
      /\ path' = [path EXCEPT ![t] = Append(@, [site |-> s, blocks |-> {}])]
      /\ ~(frames # <<>> /\ Last(frames).call.thread = t)
  BY EnterTyped DEF Enter, Outcome, Nested
<1>2. \A u \in Threads : u # t => path'[u] = path[u]
  BY <1>1 DEF TypeInv, PathRight
<1>3. \A u \in Threads : frames # <<>> /\ u = Last(frames).call.thread =>
                             Chain(u)' = Chain(u)
  BY <1>1, <1>2 DEF Chain
<1>4. Quiet
  BY <1>1, <1>3 DEF Quiet
<1> QED BY <1>4, QuietEnded

LEMMA ReturnEnded ==
  ASSUME TypeInv, TypeInv', EndedInv, NEW t \in Threads, Return(t)
  PROVE  EndedInv'
<1>1. /\ outcome'.thread = NULL /\ Now' = Now /\ frames' = frames
      /\ path' = [path EXCEPT ![t] = Front(@)]
      /\ ~(frames # <<>> /\ Last(frames).call.thread = t)
  BY ReturnTyped DEF Return, Outcome, Nested
<1>2. \A u \in Threads : u # t => path'[u] = path[u]
  BY <1>1 DEF TypeInv, PathRight
<1>3. \A u \in Threads : frames # <<>> /\ u = Last(frames).call.thread =>
                             Chain(u)' = Chain(u)
  BY <1>1, <1>2 DEF Chain
<1>4. Quiet
  BY <1>1, <1>3 DEF Quiet
<1> QED BY <1>4, QuietEnded

LEMMA StutterEnded ==
  ASSUME TypeInv, EndedInv, UNCHANGED vars PROVE EndedInv'
<1>1. Now' = Now /\ frames' = frames /\ path' = path /\ outcome' = outcome
  BY DEF vars, Now
<1> QED BY <1>1 DEF EndedInv, Clean, Chain

LEMMA EndedInit == Init => EndedInv
  BY ProgramAssumption DEF Init, EndedInv, Outcome

LEMMA EndedStep == ASSUME TypeInv, EndedInv, [Next]_vars PROVE EndedInv'
<1>0. TypeInv'
  BY TypeStep
<1>1. CASE UNCHANGED vars
  BY <1>1, StutterEnded
<1>2. ASSUME NEW t \in Threads, NEW l \in SIZES, NEW ty \in NEWTYPES, Alloc(t, l, ty)
      PROVE  EndedInv'
  BY <1>0, <1>2, AllocEnded
<1>3. ASSUME NEW t \in Threads, NEW p \in Addresses \cup {NULL},
             NEW inside \in BOOLEAN, NEW l \in SIZES, NEW ty \in RESIZETYPES,
             Realloc(t, p, inside, l, ty)
      PROVE  EndedInv'
  BY <1>0, <1>3, ReallocEnded
<1>4. ASSUME NEW t \in Threads, NEW p \in Addresses \cup {NULL},
             NEW inside \in BOOLEAN, NEW ty \in FREETYPES, Free(t, p, inside, ty)
      PROVE  EndedInv'
  BY <1>0, <1>4, FreeEnded
<1>5. CASE HandlerReturns
  BY <1>0, <1>5, HandlerEnded
<1>6. ASSUME NEW t \in Threads, NEW p \in Addresses, SetMark(t, p) PROVE EndedInv'
  BY <1>0, <1>6, MarkEnded
<1>7. ASSUME NEW t \in Threads, Return(t) PROVE EndedInv'
  BY <1>0, <1>7, ReturnEnded
<1>8. ASSUME NEW t \in Threads, NEW s \in SITES, Enter(t, s) PROVE EndedInv'
  BY <1>0, <1>8, EnterEnded
<1> QED BY <1>1, <1>2, <1>3, <1>4, <1>5, <1>6, <1>7, <1>8 DEF Next

LEMMA EndedHolds == Spec => [](TypeInv /\ EndedInv)
<1>1. TypeInv /\ EndedInv /\ [Next]_vars => (TypeInv /\ EndedInv)'
  BY TypeStep, EndedStep
<1> QED BY <1>1, TypeInit, EndedInit, PTL DEF Spec

LEMMA EndedFromInv == TypeInv /\ EndedInv => EndedAreFreed
<1> SUFFICES ASSUME TypeInv, EndedInv, outcome.thread # NULL, frames = <<>>,
                    NEW k \in 1..Len(astack)
             PROVE  LET made == astack[k].frame
                        chain == Chain(outcome.thread)
                    IN  Len(made) < Len(chain) \/ made = chain
  BY DEF EndedAreFreed
<1>1. outcome.thread \in Threads /\ PathRight(path) /\ Clean(Now, outcome.thread)
  BY DEF EndedInv, TypeInv, Outcomes
<1>2. Chain(outcome.thread) \in Seq(SITES)
  BY <1>1, ChainType
<1>3. /\ astack \in Stacks /\ astack[k] \in Range(astack)
      /\ astack[k].frame \in Seq(SITES) /\ Now.astack = astack
  <2>1. Now.astack = astack /\ astack \in Stacks
    BY DEF TypeInv, Sound, State, Now
  <2>2. astack[k] \in StackNodes /\ astack[k] \in Range(astack)
    BY <2>1 DEF Stacks, Range
  <2> QED BY <2>1, <2>2 DEF StackNodes
<1>4. ~OutOfScope(astack[k].frame, Chain(outcome.thread))
  BY <1>1, <1>3 DEF Clean
<1> DEFINE made == astack[k].frame
           chain == Chain(outcome.thread)
<1>5. Len(made) \in Nat /\ Len(chain) \in Nat
  BY <1>2, <1>3
<1> HIDE DEF made, chain
<1>6. Len(made) < Len(chain) \/ made = chain
  BY <1>4, <1>5 DEF OutOfScope, made, chain
<1> QED BY <1>6 DEF made, chain

\* After a call that is no part of another one, no block is on the stack of a
\* function that ran deeper than the caller, nor of one that ran as deep but was
\* reached by another way: checkalloca() misses none, whatever other threads and
\* the low-memory handler do.
THEOREM EndedBlocksGo == Spec => []EndedAreFreed
  BY EndedHolds, EndedFromInv, PTL

LEMMA SlotsFromInv == TypeInv /\ FMAX = 0 => SlotsExact
<1> SUFFICES ASSUME TypeInv, FMAX = 0 PROVE SlotsExact
  OBVIOUS
<1>1. SlotsRight(Now) /\ Now.slots = slots /\ Now.astack = astack /\ Now.info = info
  BY DEF TypeInv, Sound, Now
<1> QED BY <1>1 DEF SlotsExact, SlotsRight

\* The books of alloca() blocks are exact if no freed blocks are kept: those that
\* are keep their slots (see Keep).
THEOREM AllocaBooks == FMAX = 0 => (Spec => []AllocaExact)
<1> SUFFICES ASSUME FMAX = 0 PROVE Spec => []AllocaExact
  OBVIOUS
<1>1. TypeInv /\ EndedInv => AllocaExact
  BY BooksFromInv, EndedFromInv, SlotsFromInv DEF AllocaExact
<1> QED BY <1>1, EndedHolds, PTL

-----------------------------------------------------------------------------
(***************************************************************************)
(* The blocks of functions that have not returned                          *)
(***************************************************************************)
\* The call stack of thread t when only its k oldest calls are active.
Prefix(f, t, k) == [j \in 1..k |-> f[t][j].site]

\* Each block that a function has by alloca() is on the stack with the function.
ScopedIn(h, f) ==
    \A t \in Threads : \A k \in 1..Len(f[t]) : \A p \in f[t][k].blocks :
        \E n \in Range(h.astack) : n.block = p /\ n.frame = Prefix(f, t, k)
OneThread == \A t, u \in Threads : t = u

LEMMA PrefixFacts ==
  ASSUME PathRight(path), NEW t \in Threads, NEW k \in 1..Len(path[t])
  PROVE  ~OutOfScope(Prefix(path, t, k), Chain(t))
<1> DEFINE s == Prefix(path, t, k)
           n == Len(path[t])
<1>1. Chain(t) \in Seq(SITES) /\ Len(Chain(t)) = n
  BY ChainType
<1>2. n \in Nat
  BY <1>1
<1>3. Chain(t) = [j \in 1..n |-> path[t][j].site]
  BY DEF Chain
<1>4. s \in [1..k -> SITES]
  <2>1. \A j \in 1..n : Chain(t)[j] = path[t][j].site /\ Chain(t)[j] \in SITES
    BY <1>1, <1>3
  <2>2. \A j \in 1..k : j \in 1..n
    BY <1>2
  <2> QED BY <2>1, <2>2 DEF Prefix
<1>5. Len(s) = k
  <2> HIDE DEF s
  <2> QED BY <1>2, <1>4
<1>6. k = n => s = Chain(t)
  BY <1>3 DEF Prefix
<1> HIDE DEF s
<1>7. ~OutOfScope(s, Chain(t))
  BY <1>1, <1>2, <1>5, <1>6 DEF OutOfScope
<1> QED BY <1>7 DEF s

\* checkalloca() leaves them all if there is but one thread.
LEMMA CheckedScoped ==
  ASSUME TypeInv, OneThread, ScopedIn(Now, path), NEW t \in Threads
  PROVE  ScopedIn(Checked(t).state, path)
<1> DEFINE h == Checked(t).state
           B == IF Nested THEN {} ELSE Over(Now, t)
<1>1. Freeing(Now, h, B)
  BY CheckedFacts DEF AllOutcome
<1>2. StackRight(Now) /\ Now.astack \in Stacks /\ PathRight(path)
  BY DEF TypeInv, Sound, State
<1> HIDE DEF h
<1> SUFFICES ASSUME NEW u \in Threads, NEW k \in 1..Len(path[u]),
                    NEW p \in path[u][k].blocks
             PROVE  \E n \in Range(h.astack) :
                        n.block = p /\ n.frame = Prefix(path, u, k)
  BY DEF ScopedIn, h
<1>3. PICK n \in Range(Now.astack) : n.block = p /\ n.frame = Prefix(path, u, k)
  BY DEF ScopedIn
<1>4. u = t /\ ~OutOfScope(n.frame, Chain(t))
  BY <1>2, <1>3, PrefixFacts DEF OneThread
<1>5. \A x \in Range(Now.astack) : x.block = n.block => x = n
  BY <1>2, StackBlocks DEF StackRight, Distinct, Range
<1>6. p \notin B
  BY <1>3, <1>4, <1>5 DEF Over
<1>7. n \in Range(h.astack)
  BY <1>1, <1>3, <1>6 DEF Freeing
<1> QED BY <1>3, <1>7

\* Blocks of other functions than alloca() are not on its stack.
LEMMA NotStacked ==
  ASSUME NEW h, NEW m, Sound(h, m), NEW p \in Live(h), h.info[p].type # "alloca"
  PROVE  \A n \in Range(h.astack) : n.block # p
<1>1. h.astack \in Stacks /\ p \notin Blocks(h.astack)
  BY DEF Sound, State, StackRight, AllocaBlocks
<1> QED BY <1>1, BlocksOf

\* Making and resizing blocks takes none off the stack.
LEMMA MemoryStack ==
  ASSUME NEW h, NEW m, Sound(h, m), NEW t, NEW p, NEW inside, NEW l, NEW ty,
         NEW nested, NEW r, MemoryOutcome(h, m, t, p, inside, l, ty, nested, r)
  PROVE  \A n \in Range(h.astack) : n \in Range(r.state.astack)
<1>1. CASE r.state = h
  BY <1>1
<1>2. CASE GetOutcome(h, m, t, l, ty, nested, r) /\ r.ret # NULL
  <2>1. Adding(h, r.state, r.ret, NewNode(l, ty), NewStacked(t, r.ret, ty))
    BY <1>2 DEF GetOutcome
  <2> QED BY <2>1 DEF Adding
<1>3. CASE Resizable(h, p, inside) /\ FreeOutcome(h, m, p, FALSE, ty, r)
  <2>1. \A n \in Range(h.astack) : n.block # p
    BY <1>3, NotStacked DEF Resizable
  <2>2. CASE Freeable(h, p, FALSE, ty)
    BY <1>3, <2>1, <2>2 DEF FreeOutcome, Freeing
  <2>3. CASE ~Freeable(h, p, FALSE, ty)
    BY <1>1, <1>3, <2>3 DEF FreeOutcome
  <2> QED BY <2>2, <2>3
<1>4. CASE Resizable(h, p, inside) /\ ResizeOutcome(h, m, p, l, ty, nested, r)
  <2>1. CASE r.ret # NULL
    BY <1>4, <2>1 DEF ResizeOutcome, Replacing
  <2>2. CASE r.ret = NULL
    BY <1>1, <1>3, <1>4, <2>2 DEF ResizeOutcome
  <2> QED BY <2>1, <2>2
<1> QED BY <1>1, <1>2, <1>3, <1>4 DEF MemoryOutcome, GetOutcome

LEMMA PrefixSame ==
  ASSUME NEW f, NEW g, SameSites(f, g), NEW t \in Threads, NEW k \in 1..Len(f[t]),
         Len(f[t]) \in Nat
  PROVE  Prefix(g, t, k) = Prefix(f, t, k)
  BY DEF SameSites, Prefix

LEMMA TriedScoped ==
  ASSUME TypeInv, NEW c, NEW r0, NEW again, NEW mine, NEW rest, NEW r,
         AttemptGood(c, r0, again, mine, rest, r), ScopedIn(r0.state, path)
  PROVE  ScopedIn(Now', path')
<1> DEFINE t == c.thread
           h == r0.state
           g == r.state
           n == Len(path[t])
<1>1. /\ Sound(h, mcount) /\ t \in Threads /\ PathRight(path) /\ Now' = g
      /\ r \in Results(mcount)
  BY DEF AttemptGood, Tried, GoodCall, CallType, Results, TypeInv
<1>2. MemoryOutcome(h, mcount, t, c.block, c.inside, c.size, c.type, rest # <<>>, r)
  BY DEF AttemptGood, Tried
<1>3. \A x \in Range(h.astack) : x \in Range(g.astack)
  <2> DEFINE p == c.block
             inside == c.inside
             l == c.size
             ty == c.type
             nested == rest # <<>>
  <2> HIDE DEF t, p, inside, l, ty, h, nested
  <2>1. MemoryOutcome(h, mcount, t, p, inside, l, ty, nested, r)
    BY <1>2 DEF t, p, inside, l, ty, h, nested
  <2> QED BY <1>1, <2>1, MemoryStack
<1>4. SameSites(path, path')
  BY TriedSites DEF AttemptGood
<1>5. \A u \in Threads : Len(path[u]) \in Nat
  BY <1>1 DEF PathRight
<1>6. ASSUME NEW u \in Threads, NEW k \in 1..Len(path[u]), NEW p \in path[u][k].blocks
      PROVE  \E x \in Range(g.astack) : x.block = p /\ x.frame = Prefix(path, u, k)
  BY <1>3 DEF ScopedIn
<1>7. CASE path' = path
  BY <1>1, <1>6, <1>7 DEF ScopedIn
<1>8. CASE Succeed(c, r, mine, rest) /\ c.type = "alloca"
  <2>1. c.block = NULL /\ r.ret # NULL
    BY <1>8, TypesAssumption DEF AttemptGood, GoodCall, Succeed
  <2>2. r.ret \in Addresses
    BY <1>1, <2>1 DEF Results
  <2>3. GetOutcome(h, mcount, t, c.size, c.type, rest # <<>>, r)
    BY <1>2, <2>1 DEF MemoryOutcome
  <2>4. Adding(h, g, r.ret, NewNode(c.size, c.type), NewStacked(t, r.ret, c.type))
    BY <2>1, <2>3 DEF GetOutcome
  <2> DEFINE e == [block |-> r.ret, frame |-> Chain(t)]
  <2>5. e \in Range(g.astack) /\ e.block = r.ret /\ e.frame = Prefix(path, t, n)
    BY <1>8, <2>4 DEF Adding, NewStacked, Chain, Prefix
  <2>6. path' = Given(path, t, n, r.ret)
    BY <1>8 DEF Succeed, Given
  <2>7. n \in 1..Len(path[t])
    BY <1>1 DEF PathRight
  <2> HIDE DEF n, e, g, h, t
  <2>8. BlocksGiven(path, path', t, n, r.ret)
    BY <1>1, <2>2, <2>6, <2>7, PathBlock
  <2> SUFFICES ASSUME NEW u \in Threads, NEW k \in 1..Len(path'[u]),
                      NEW p \in path'[u][k].blocks
               PROVE  \E x \in Range(g.astack) :
                          x.block = p /\ x.frame = Prefix(path', u, k)
    BY <1>1 DEF ScopedIn
  <2>9. k \in 1..Len(path[u]) /\ Prefix(path', u, k) = Prefix(path, u, k)
    BY <1>4, <1>5, PrefixSame DEF SameSites
  <2>10. CASE p \in path[u][k].blocks
    BY <1>6, <2>9, <2>10
  <2>11. CASE u = t /\ k = n /\ p = r.ret
    BY <2>5, <2>9, <2>11
  <2> QED BY <2>8, <2>9, <2>10, <2>11 DEF BlocksGiven
<1> QED BY <1>7, <1>8 DEF AttemptGood, Tried, Succeed, CallHandler, Fail

LEMMA AllocScoped ==
  ASSUME TypeInv, OneThread, ScopedIn(Now, path), NEW t \in Threads, NEW l \in SIZES,
         NEW ty \in NEWTYPES, Alloc(t, l, ty)
  PROVE  ScopedIn(Now', path')
<1>1. PICK r \in Results(mcount) : AllocStep(t, l, ty, r)
  BY AllocSteps
<1> DEFINE c == AllocCall(t, l, ty)
           r0 == Checked(t)
<1>2. AttemptGood(c, r0, FALSE, held, Waiting, r)
  BY <1>1, AllocGood
<1>3. ScopedIn(r0.state, path)
  BY CheckedScoped
<1> HIDE DEF c, r0
<1> QED BY <1>2, <1>3, TriedScoped

LEMMA ReallocScoped ==
  ASSUME TypeInv, OneThread, ScopedIn(Now, path), NEW t \in Threads,
         NEW p \in Addresses \cup {NULL}, NEW inside \in BOOLEAN, NEW l \in SIZES,
         NEW ty \in RESIZETYPES, Realloc(t, p, inside, l, ty)
  PROVE  ScopedIn(Now', path')
<1>1. PICK r \in Results(mcount) : ReallocStep(t, p, inside, l, ty, r)
  BY ReallocSteps
<1> DEFINE c == ReallocCall(t, p, inside, l, ty)
           r0 == Checked(t)
           mine == Taken(p, inside, l, ty)
<1>2. AttemptGood(c, r0, FALSE, mine, Waiting, r)
  BY <1>1, ReallocGood
<1>3. ScopedIn(r0.state, path)
  BY CheckedScoped
<1> HIDE DEF c, r0, mine
<1> QED BY <1>2, <1>3, TriedScoped

LEMMA HandlerScoped ==
  ASSUME TypeInv, ScopedIn(Now, path), HandlerReturns
  PROVE  ScopedIn(Now', path')
<1>1. PICK r \in Results(mcount) : HandlerStep(r)
  BY HandlerSteps
<1> DEFINE c == Last(frames).call
           r0 == Result(Now, NULL, {})
           rest == Front(frames)
<1>2. AttemptGood(c, r0, TRUE, held, rest, r)
  BY <1>1, HandlerGood
<1>3. ScopedIn(r0.state, path)
  BY DEF Result
<1> HIDE DEF c, r0, rest
<1> QED BY <1>2, <1>3, TriedScoped

\* A block of alloca() is freed only by dealloca(), or together with its function.
LEMMA FreeScoped ==
  ASSUME TypeInv, OneThread, ScopedIn(Now, path), NEW t \in Threads,
         NEW p \in Addresses \cup {NULL}, NEW inside \in BOOLEAN,
         NEW ty \in FREETYPES, Free(t, p, inside, ty)
  PROVE  ScopedIn(Now', path')
<1>1. PICK r \in Results(mcount) : FreeStep(t, p, inside, ty, r)
  BY FreeSteps
<1> DEFINE h == Checked(t).state
           g == r.state
           v == FreeVerdict(t, p, inside, ty)
<1>2. /\ ScopedIn(h, path) /\ Sound(h, mcount) /\ PathRight(path) /\ Now' = g
      /\ FreeOutcome(h, mcount, p, inside, ty, r)
  BY <1>1, CheckedScoped, CheckedFacts DEF FreeStep, TypeInv
<1>3. /\ SameSites(path, path') /\ \A u \in Threads : Len(path[u]) \in Nat
  BY <1>1, <1>2, FreedSites DEF PathRight
<1>4. \/ path' = path /\ ~(v = "right" /\ ty = "dealloca")
      \/ path' = Forgotten(path, t, p) /\ BlocksForgotten(path, path', t, p)
  BY <1>1, <1>2, PathWithout DEF FreeStep, Forgotten
<1> HIDE DEF h, g
<1> SUFFICES ASSUME NEW u \in Threads, NEW k \in 1..Len(path'[u]),
                    NEW q \in path'[u][k].blocks
             PROVE  \E n \in Range(g.astack) :
                        n.block = q /\ n.frame = Prefix(path', u, k)
  BY <1>2 DEF ScopedIn
<1>5. k \in 1..Len(path[u]) /\ Prefix(path', u, k) = Prefix(path, u, k)
  BY <1>3, PrefixSame DEF SameSites
<1>6. q \in path[u][k].blocks
  BY <1>4, <1>5 DEF BlocksForgotten
<1>7. PICK n \in Range(h.astack) : n.block = q /\ n.frame = Prefix(path, u, k)
  BY <1>2, <1>5, <1>6 DEF ScopedIn
<1>8. CASE ~Freeable(h, p, inside, ty)
  BY <1>2, <1>5, <1>7, <1>8 DEF FreeOutcome, g
<1>9. CASE Freeable(h, p, inside, ty)
  <2>1. Freeing(h, g, {p})
    BY <1>2, <1>9 DEF FreeOutcome, g
  <2>2. q # p
    <3> SUFFICES ASSUME q = p PROVE FALSE
      OBVIOUS
    <3>1. p \in Live(h) /\ ~inside /\ Compatible(h.info[p].type, ty)
      BY <1>9 DEF Freeable
    <3>2. h.info[p].type = "alloca"
      BY <1>2, <1>7, <3>1, NotStacked
    <3>3. ty = "dealloca"
      BY <3>1, <3>2, TypesAssumption DEF Compatible
    <3>4. u = t /\ p \in path[t][k].blocks /\ k \in 1..Len(path[t])
      BY <1>5, <1>6 DEF OneThread
    <3>5. p \in Active(t)
      BY <3>4 DEF Active
    <3>6. v = "right"
      BY <3>1, <3>3, <3>5 DEF FreeVerdict
    <3>7. BlocksForgotten(path, path', t, p)
      BY <1>4, <3>3, <3>6
    <3> QED BY <1>5, <3>4, <3>7 DEF BlocksForgotten
  <2>3. n \in Range(g.astack)
    BY <1>7, <2>1, <2>2 DEF Freeing
  <2> QED BY <1>5, <1>7, <2>3
<1> QED BY <1>8, <1>9

LEMMA MarkScoped ==
  ASSUME TypeInv, ScopedIn(Now, path), NEW t \in Threads, NEW p \in Addresses,
         SetMark(t, p)
  PROVE  ScopedIn(Now', path')
<1>1. MarkStep(t, p)
  BY MarkSteps
<1>2. Now'.astack = Now.astack /\ path' = path
  BY <1>1 DEF MarkStep, Marking
<1> QED BY <1>2 DEF ScopedIn

\* The functions that are active before and after are the same and have the same
\* blocks.
LEMMA PrefixScoped ==
  ASSUME ScopedIn(Now, path), Now' = Now, NEW t \in Threads,
         \A u \in Threads : u # t => path'[u] = path[u],
         \A k \in 1..Len(path'[t]) :
             \/ path'[t][k].blocks = {}
             \/ /\ k \in 1..Len(path[t])
                /\ \A j \in 1..k : path'[t][j] = path[t][j]
                /\ k \in 1..k
  PROVE  ScopedIn(Now', path')
<1> SUFFICES ASSUME NEW u \in Threads, NEW k \in 1..Len(path'[u]),
                    NEW q \in path'[u][k].blocks
             PROVE  \E n \in Range(Now.astack) :
                        n.block = q /\ n.frame = Prefix(path', u, k)
  BY DEF ScopedIn
<1>1. CASE u # t
  <2>1. path'[u] = path[u]
    BY <1>1
  <2>2. k \in 1..Len(path[u]) /\ q \in path[u][k].blocks
    BY <2>1
  <2>3. Prefix(path', u, k) = Prefix(path, u, k)
    BY <2>1 DEF Prefix
  <2> QED BY <2>2, <2>3 DEF ScopedIn
<1>2. CASE u = t
  <2>1. /\ k \in 1..Len(path[t]) /\ k \in 1..k
        /\ \A j \in 1..k : path'[t][j] = path[t][j]
    BY <1>2
  <2>2. Prefix(path', t, k) = Prefix(path, t, k) /\ q \in path[t][k].blocks
    BY <1>2, <2>1 DEF Prefix
  <2> QED BY <1>2, <2>1, <2>2 DEF ScopedIn
<1> QED BY <1>1, <1>2

LEMMA EnterPath ==
  ASSUME PathRight(path), NEW t \in Threads, NEW s \in SITES, Enter(t, s)
  PROVE  /\ \A u \in Threads : u # t => path'[u] = path[u]
         /\ Len(path'[t]) = Len(path[t]) + 1 /\ path'[t][Len(path[t]) + 1].blocks = {}
         /\ \A k \in 1..Len(path[t]) : path'[t][k] = path[t][k]
         /\ Len(path[t]) \in Nat
<1> DEFINE Functions == [site : SITES, blocks : SUBSET Addresses]
           e == [site |-> s, blocks |-> {}]
           f == path[t]
           a == Append(f, e)
<1>1. path' = [path EXCEPT ![t] = a] /\ path \in [Threads -> Seq(Functions)]
  BY DEF Enter, PathRight, Paths
<1>2. f \in Seq(Functions)
  <2> HIDE DEF Functions
  <2> QED BY <1>1
<1> HIDE DEF Functions
<1>3. /\ Len(f) \in Nat /\ Len(a) = Len(f) + 1 /\ a[Len(f) + 1].blocks = {}
      /\ \A k \in 1..Len(f) : a[k] = f[k]
  BY <1>2
<1> HIDE DEF a
<1>4. path'[t] = a /\ \A u \in Threads : u # t => path'[u] = path[u]
  BY <1>1
<1> QED BY <1>3, <1>4

LEMMA ReturnPath ==
  ASSUME PathRight(path), NEW t \in Threads, Return(t)
  PROVE  /\ \A u \in Threads : u # t => path'[u] = path[u]
         /\ Len(path'[t]) = Len(path[t]) - 1 /\ Len(path[t]) \in Nat
         /\ \A k \in 1..Len(path[t]) - 1 : path'[t][k] = path[t][k]
<1> DEFINE Functions == [site : SITES, blocks : SUBSET Addresses]
           f == path[t]
           m == Len(f) - 1
           a == SubSeq(f, 1, m)
<1>1. path' = [path EXCEPT ![t] = a] /\ path \in [Threads -> Seq(Functions)]
      /\ Len(f) > 1
  BY DEF Return, PathRight, Paths, Front
<1>2. f \in Seq(Functions)
  <2> HIDE DEF Functions
  <2> QED BY <1>1
<1> HIDE DEF Functions
<1>3. /\ Len(f) \in Nat /\ Len(a) = Len(f) - 1
      /\ \A k \in 1..Len(f) - 1 : a[k] = f[k]
  <2>1. m \in Nat /\ m <= Len(f)
    BY <1>1, <1>2
  <2> HIDE DEF m
  <2>2. Len(a) = m /\ \A k \in 1..m : a[k] = f[k]
    BY <1>2, <2>1
  <2> QED BY <1>2, <2>2 DEF m
<1> HIDE DEF a
<1>4. path'[t] = a /\ \A u \in Threads : u # t => path'[u] = path[u]
  BY <1>1
<1> QED BY <1>3, <1>4

LEMMA EnterScoped ==
  ASSUME TypeInv, ScopedIn(Now, path), NEW t \in Threads, NEW s \in SITES, Enter(t, s)
  PROVE  ScopedIn(Now', path')
<1>1. Now' = Now /\ PathRight(path)
  BY EnterTyped DEF TypeInv
<1>2. \A k \in 1..Len(path'[t]) :
          \/ path'[t][k].blocks = {}
          \/ /\ k \in 1..Len(path[t])
             /\ \A j \in 1..k : path'[t][j] = path[t][j]
             /\ k \in 1..k
  <2> DEFINE f == path[t]
             a == path'[t]
  <2>1. /\ Len(f) \in Nat /\ Len(a) = Len(f) + 1 /\ a[Len(f) + 1].blocks = {}
        /\ \A k \in 1..Len(f) : a[k] = f[k]
    BY <1>1, EnterPath
  <2> HIDE DEF f, a
  <2>2. ASSUME NEW k \in 1..Len(a), k # Len(f) + 1
        PROVE  k \in 1..Len(f) /\ (\A j \in 1..k : a[j] = f[j]) /\ k \in 1..k
    BY <2>1, <2>2
  <2> QED BY <2>1, <2>2 DEF f, a
<1>3. \A u \in Threads : u # t => path'[u] = path[u]
  BY <1>1, EnterPath
<1> QED BY <1>1, <1>2, <1>3, PrefixScoped

LEMMA ReturnScoped ==
  ASSUME TypeInv, ScopedIn(Now, path), NEW t \in Threads, Return(t)
  PROVE  ScopedIn(Now', path')
<1>1. Now' = Now /\ PathRight(path)
  BY ReturnTyped DEF TypeInv
<1>2. \A k \in 1..Len(path'[t]) :
          \/ path'[t][k].blocks = {}
          \/ /\ k \in 1..Len(path[t])
             /\ \A j \in 1..k : path'[t][j] = path[t][j]
             /\ k \in 1..k
  <2> DEFINE f == path[t]
             a == path'[t]
  <2>1. /\ Len(f) \in Nat /\ Len(a) = Len(f) - 1
        /\ \A k \in 1..Len(f) - 1 : a[k] = f[k]
    BY <1>1, ReturnPath
  <2> HIDE DEF f, a
  <2>2. ASSUME NEW k \in 1..Len(a)
        PROVE  k \in 1..Len(f) /\ (\A j \in 1..k : a[j] = f[j]) /\ k \in 1..k
    BY <2>1
  <2> QED BY <2>2 DEF f, a
<1>3. \A u \in Threads : u # t => path'[u] = path[u]
  BY <1>1, ReturnPath
<1> QED BY <1>1, <1>2, <1>3, PrefixScoped

LEMMA StutterScoped ==
  ASSUME ScopedIn(Now, path), UNCHANGED vars PROVE ScopedIn(Now', path')
<1>1. Now' = Now /\ path' = path
  BY DEF vars, Now
<1> QED BY <1>1

LEMMA ScopedStep ==
  ASSUME TypeInv, OneThread, ScopedIn(Now, path), [Next]_vars
  PROVE  ScopedIn(Now', path')
<1>1. CASE UNCHANGED vars
  BY <1>1, StutterScoped
<1>2. ASSUME NEW t \in Threads, NEW l \in SIZES, NEW ty \in NEWTYPES, Alloc(t, l, ty)
      PROVE  ScopedIn(Now', path')
  BY <1>2, AllocScoped
<1>3. ASSUME NEW t \in Threads, NEW p \in Addresses \cup {NULL},
             NEW inside \in BOOLEAN, NEW l \in SIZES, NEW ty \in RESIZETYPES,
             Realloc(t, p, inside, l, ty)
      PROVE  ScopedIn(Now', path')
  BY <1>3, ReallocScoped
<1>4. ASSUME NEW t \in Threads, NEW p \in Addresses \cup {NULL},
             NEW inside \in BOOLEAN, NEW ty \in FREETYPES, Free(t, p, inside, ty)
      PROVE  ScopedIn(Now', path')
  BY <1>4, FreeScoped
<1>5. CASE HandlerReturns
  BY <1>5, HandlerScoped
<1>6. ASSUME NEW t \in Threads, NEW p \in Addresses, SetMark(t, p)
      PROVE  ScopedIn(Now', path')
  BY <1>6, MarkScoped
<1>7. ASSUME NEW t \in Threads, Return(t) PROVE ScopedIn(Now', path')
  BY <1>7, ReturnScoped
<1>8. ASSUME NEW t \in Threads, NEW s \in SITES, Enter(t, s)
      PROVE  ScopedIn(Now', path')
  BY <1>8, EnterScoped
<1> QED BY <1>1, <1>2, <1>3, <1>4, <1>5, <1>6, <1>7, <1>8 DEF Next

LEMMA ScopedInit == ASSUME Init PROVE ScopedIn(Now, path)
<1>1. PICK s \in [Threads -> SITES] :
          path = [t \in Threads |-> <<[site |-> s[t], blocks |-> {}]>>]
  BY DEF Init
<1>2. \A t \in Threads : \A k \in 1..Len(path[t]) : path[t][k].blocks = {}
  BY <1>1
<1> QED BY <1>2 DEF ScopedIn

\* No function has blocks by alloca(): so it is if the program never calls it.
NoBlocks(f) == \A t \in Threads : \A k \in 1..Len(f[t]) : f[t][k].blocks = {}

LEMMA TriedNoBlocks ==
  ASSUME NEW c, NEW r0, NEW again, NEW mine, NEW rest, NEW r,
         AttemptGood(c, r0, again, mine, rest, r), "alloca" \notin NEWTYPES
  PROVE  path' = path
<1>1. c.type # "alloca"
  BY TypesAssumption DEF AttemptGood, GoodCall, CallType
<1> QED BY <1>1 DEF AttemptGood, Tried, Succeed, CallHandler, Fail

LEMMA NoBlocksStep ==
  ASSUME TypeInv, "alloca" \notin NEWTYPES, NoBlocks(path), [Next]_vars
  PROVE  NoBlocks(path')
<1>0. PathRight(path)
  BY DEF TypeInv
<1>1. CASE path' = path
  BY <1>1
<1>2. ASSUME NEW t \in Threads, NEW l \in SIZES, NEW ty \in NEWTYPES, Alloc(t, l, ty)
      PROVE  path' = path
  <2>1. PICK r \in Results(mcount) : AllocStep(t, l, ty, r)
    BY <1>2, AllocSteps
  <2> QED BY <2>1, AllocGood, TriedNoBlocks
<1>3. ASSUME NEW t \in Threads, NEW p \in Addresses \cup {NULL},
             NEW inside \in BOOLEAN, NEW l \in SIZES, NEW ty \in RESIZETYPES,
             Realloc(t, p, inside, l, ty)
      PROVE  path' = path
  <2>1. PICK r \in Results(mcount) : ReallocStep(t, p, inside, l, ty, r)
    BY <1>3, ReallocSteps
  <2> DEFINE c == ReallocCall(t, p, inside, l, ty)
             r0 == Checked(t)
             mine == Taken(p, inside, l, ty)
  <2>2. AttemptGood(c, r0, FALSE, mine, Waiting, r)
    BY <2>1, ReallocGood
  <2> HIDE DEF c, r0, mine
  <2> QED BY <2>2, TriedNoBlocks
<1>4. CASE HandlerReturns
  <2>1. PICK r \in Results(mcount) : HandlerStep(r)
    BY <1>4, HandlerSteps
  <2>2. path' = path
    BY <2>1, HandlerGood, TriedNoBlocks
  <2> QED BY <1>1, <2>2
<1>5. ASSUME NEW t \in Threads, NEW p \in Addresses \cup {NULL},
             NEW inside \in BOOLEAN, NEW ty \in FREETYPES, Free(t, p, inside, ty)
      PROVE  NoBlocks(path')
  <2>1. PICK r \in Results(mcount) : FreeStep(t, p, inside, ty, r)
    BY <1>5, FreeSteps
  <2>2. path' = path \/ path' = Forgotten(path, t, p)
    BY <2>1 DEF FreeStep, Forgotten
  <2> DEFINE g == Forgotten(path, t, p)
  <2>3. SameSites(path, g) /\ BlocksForgotten(path, g, t, p)
    BY <1>0, PathWithout
  <2> HIDE DEF g
  <2>4. ASSUME NEW u \in Threads, NEW k \in 1..Len(g[u]) PROVE g[u][k].blocks = {}
    <3>1. k \in 1..Len(path[u])
      BY <2>3 DEF SameSites
    <3> QED BY <2>3, <3>1 DEF BlocksForgotten, NoBlocks
  <2>5. NoBlocks(g)
    BY <2>4 DEF NoBlocks
  <2> QED BY <2>2, <2>5 DEF g
<1>6. ASSUME NEW t \in Threads, NEW p \in Addresses, SetMark(t, p) PROVE path' = path
  BY <1>6 DEF SetMark
<1>7. ASSUME NEW t \in Threads, Return(t) PROVE NoBlocks(path')
  <2> SUFFICES ASSUME NEW u \in Threads, NEW k \in 1..Len(path'[u])
               PROVE  path'[u][k].blocks = {}
    BY DEF NoBlocks
  <2>1. CASE u = t
    <3>1. k \in 1..Len(path[t]) /\ path'[t][k] = path[t][k]
      BY <1>0, <1>7, <2>1, ReturnPath
    <3> QED BY <2>1, <3>1 DEF NoBlocks
  <2>2. CASE u # t
    BY <1>0, <1>7, <2>2, ReturnPath DEF NoBlocks
  <2> QED BY <2>1, <2>2
<1>8. ASSUME NEW t \in Threads, NEW s \in SITES, Enter(t, s) PROVE NoBlocks(path')
  <2> SUFFICES ASSUME NEW u \in Threads, NEW k \in 1..Len(path'[u])
               PROVE  path'[u][k].blocks = {}
    BY DEF NoBlocks
  <2>1. CASE u = t
    <3>1. /\ path'[t][Len(path[t]) + 1].blocks = {}
          /\ k # Len(path[t]) + 1 =>
                 k \in 1..Len(path[t]) /\ path'[t][k] = path[t][k]
      BY <1>0, <1>8, <2>1, EnterPath
    <3> QED BY <2>1, <3>1 DEF NoBlocks
  <2>2. CASE u # t
    BY <1>0, <1>8, <2>2, EnterPath DEF NoBlocks
  <2> QED BY <2>1, <2>2
<1>9. CASE UNCHANGED vars
  BY <1>1, <1>9 DEF vars
<1> QED BY <1>1, <1>2, <1>3, <1>4, <1>5, <1>6, <1>7, <1>8, <1>9 DEF Next

\* Either all of the program's functions are on one stack or none has such blocks.
Local == OneThread \/ "alloca" \notin NEWTYPES
ScopedInv == ScopedIn(Now, path) /\ ("alloca" \notin NEWTYPES => NoBlocks(path))

LEMMA NoneScoped == ASSUME NEW h, NEW f, NoBlocks(f) PROVE ScopedIn(h, f)
  BY DEF NoBlocks, ScopedIn

LEMMA CheckedInv ==
  ASSUME TypeInv, ScopedInv, Local, NEW t \in Threads
  PROVE  ScopedIn(Checked(t).state, path)
  BY CheckedScoped, NoneScoped DEF Local, ScopedInv

LEMMA ScopedHolds == ASSUME Local PROVE Spec => []ScopedInv
<1>1. Init => ScopedInv
  <2> SUFFICES ASSUME Init PROVE ScopedInv
    OBVIOUS
  <2>1. NoBlocks(path)
    BY DEF Init, NoBlocks
  <2> QED BY <2>1, ScopedInit DEF ScopedInv
<1>2. TypeInv /\ ScopedInv /\ [Next]_vars => ScopedInv'
  <2> SUFFICES ASSUME TypeInv, ScopedInv, [Next]_vars PROVE ScopedInv'
    OBVIOUS
  <2>1. "alloca" \notin NEWTYPES => NoBlocks(path')
    BY NoBlocksStep DEF ScopedInv
  <2>2. ScopedIn(Now', path')
    BY <2>1, ScopedStep, NoneScoped DEF Local, ScopedInv
  <2> QED BY <2>1, <2>2 DEF ScopedInv
<1> QED BY <1>1, <1>2, TypeHolds, PTL DEF Spec

LEMMA ScopedLive == ASSUME TypeInv, ScopedInv PROVE AllocaInScopeIsLive
<1> SUFFICES ASSUME NEW t \in Threads, NEW p \in Active(t)
             PROVE  p \in Live(Now) /\ info[p].type = "alloca"
  BY DEF AllocaInScopeIsLive
<1>1. PICK k \in 1..Len(path[t]) : p \in path[t][k].blocks
  BY DEF Active
<1>2. PICK n \in Range(Now.astack) : n.block = p
  BY <1>1 DEF ScopedInv, ScopedIn
<1>3. p \in AllocaBlocks(Now)
  <2>1. Now \in State /\ Blocks(Now.astack) = AllocaBlocks(Now)
    BY DEF TypeInv, Sound, StackRight
  <2>2. Now.astack \in Stacks
    BY <2>1 DEF State
  <2> DEFINE s == Now.astack
  <2> HIDE DEF s
  <2>3. Blocks(s) = {x.block : x \in Range(s)}
    BY <2>2, BlocksOf DEF s
  <2>4. p \in Blocks(s)
    BY <1>2, <2>3 DEF s
  <2> QED BY <2>1, <2>4 DEF s
<1> QED BY <1>3 DEF AllocaBlocks, Now

\* The blocks that a function has by alloca() are live until it returns, if the
\* program has one thread: checkalloca() never frees one too early.  With two
\* threads it does.
THEOREM AllocaStays == ASSUME OneThread PROVE Spec => []AllocaInScopeIsLive
<1>1. TypeInv /\ ScopedInv => AllocaInScopeIsLive
  BY ScopedLive
<1>2. Local
  BY DEF Local
<1> QED BY <1>1, <1>2, TypeHolds, ScopedHolds, PTL


-----------------------------------------------------------------------------
(***************************************************************************)
(* The limit                                                               *)
(***************************************************************************)
\* The size of all blocks never grows by freeing some of them,
LEMMA AsizeFreeing ==
  ASSUME NEW h \in State, NEW g \in State, NEW B, Freeing(h, g, B)
  PROVE  Asize(g) <= Asize(h)
<1>1. /\ Live(g) \in SUBSET Live(h) /\ \A q \in Live(g) : g.info[q].size = h.info[q].size
      /\ Live(g) \subseteq DOMAIN g.info /\ Live(h) \subseteq DOMAIN h.info
  BY DEF Freeing, Live
<1>2. SumOf(Sizes(g), Live(g)) = SumOf(Sizes(h), Live(g))
  BY <1>1, SameSizes
<1>3. IsFiniteSet(Live(h)) /\ \A q \in Live(h) : Sizes(h)[q] \in Nat
  BY <1>1, StateFacts, FS_Subset
<1>4. SumOf(Sizes(h), Live(g)) <= SumOf(Sizes(h), Live(h))
  BY <1>1, <1>3, SumSub
<1> QED BY <1>2, <1>4 DEF Asize

\* grows by the size of one that is made,
LEMMA AsizeAdding ==
  ASSUME NEW h \in State, NEW g \in State, NEW p, p \notin DOMAIN h.info, NEW d,
         NEW new, Adding(h, g, p, d, new)
  PROVE  Asize(g) = Asize(h) + d.size
<1> DEFINE L == Live(g)
<1>1. /\ L = Live(h) \cup {p} /\ g.info[p] = d /\ p \in L
      /\ \A q \in Live(h) : g.info[q].size = h.info[q].size
      /\ L \subseteq DOMAIN g.info /\ Live(h) \subseteq DOMAIN h.info
      /\ Live(h) \subseteq DOMAIN g.info /\ p \notin Live(h)
  BY DEF Adding, Live
<1>2. SumOf(Sizes(g), Live(h)) = SumOf(Sizes(h), Live(h))
      /\ SumOf(Sizes(h), Live(h)) \in Nat
  BY <1>1, SameSizes
<1>3. /\ IsFiniteSet(L) /\ Sizes(g)[p] = d.size /\ d.size \in Nat
      /\ \A q \in L : Sizes(g)[q] \in Int
  BY <1>1, StateFacts, FS_Subset
<1>4. L \ {p} = Live(h)
  BY <1>1
<1> HIDE DEF L
<1>5. SumOf(Sizes(g), L) = Sizes(g)[p] + SumOf(Sizes(g), L \ {p})
  BY <1>1, <1>3, SumRemove
<1>6. SumOf(Sizes(g), L) = SumOf(Sizes(h), Live(h)) + d.size
  <2>1. SumOf(Sizes(g), L \ {p}) = SumOf(Sizes(h), Live(h))
    BY <1>2, <1>4
  <2> QED BY <1>2, <1>3, <1>5, <2>1
<1> QED BY <1>6 DEF Asize, L

\* and changes with the size of one that is resized, wherever it goes.
LEMMA AsizeReplacing ==
  ASSUME NEW h \in State, NEW g \in State, NEW p \in Live(h), NEW q,
         q = p \/ q \notin DOMAIN h.info, NEW d, Replacing(h, g, p, q, d)
  PROVE  /\ Asize(g) = Asize(h) - h.info[p].size + d.size
         /\ h.info[p].size \in Nat /\ d.size \in Nat
<1> DEFINE S == Live(h)
           T == Live(g)
<1>1. /\ S \subseteq DOMAIN h.info /\ T \subseteq DOMAIN g.info
      /\ T = (S \ {p}) \cup {q} /\ g.info[q] = d
      /\ \A x \in S \ {p} : g.info[x].size = h.info[x].size
  BY DEF Replacing, Live
<1>2. Swapped(h, g, S, T, p, q)
  BY <1>1 DEF Swapped
<1>3. h.info[p].size \in Nat /\ d.size \in Nat
  BY <1>1, StateFacts
<1> HIDE DEF S, T
<1>4. SwappedSums(h, g, S, T, p, q)
  BY <1>2, ReplacedSize
<1> QED BY <1>1, <1>3, <1>4 DEF SwappedSums, Asize, S, T

\* The limit is kept, and nothing waits for a handler that there is not.
WithinLimit(h) == LIMIT > 0 => Asize(h) <= LIMIT
LimitInv == (frames # <<>> => HANDLER) /\ (~HANDLER => WithinLimit(Now))

LEMMA FreeWithin ==
  ASSUME NEW h, NEW m, Sound(h, m), WithinLimit(h), NEW p, NEW inside, NEW ty, NEW r,
         FreeOutcome(h, m, p, inside, ty, r)
  PROVE  WithinLimit(r.state)
<1> DEFINE g == r.state
           B == {p}
<1>1. h \in State /\ g \in State
  BY DEF Sound, FreeOutcome, Results
<1>2. CASE Freeable(h, p, inside, ty)
  <2>1. Freeing(h, g, B)
    BY <1>2 DEF FreeOutcome
  <2> HIDE DEF g, B
  <2>2. Asize(g) <= Asize(h) /\ Asize(g) \in Nat /\ Asize(h) \in Nat
    BY <1>1, <2>1, AsizeFreeing, AsizeNat
  <2>3. WithinLimit(g)
    BY <2>2, BlocksAssumption DEF WithinLimit
  <2> QED BY <2>3 DEF g
<1>3. CASE ~Freeable(h, p, inside, ty)
  BY <1>3 DEF FreeOutcome
<1> QED BY <1>2, <1>3

\* A call that is not nested either stays within the limit or fails.
LEMMA MemoryWithin ==
  ASSUME NEW h, NEW m, Sound(h, m), WithinLimit(h), NEW t, NEW p, NEW inside,
         NEW l \in Nat \ {0}, NEW ty, NEW nested, ~nested, NEW r,
         MemoryOutcome(h, m, t, p, inside, l, ty, nested, r)
  PROVE  WithinLimit(r.state)
<1> DEFINE g == r.state
           q == r.ret
           d == h.info[p]
<1>1. h \in State /\ g \in State /\ Asize(h) \in Nat
  BY MemoryResult, AsizeNat DEF Sound, Results
<1>2. CASE p = NULL /\ GetOutcome(h, m, t, l, ty, nested, r)
  <2>1. CASE q = NULL
    BY <1>2, <2>1 DEF GetOutcome
  <2>2. CASE q # NULL
    <3> DEFINE e == NewNode(l, ty)
               new == NewStacked(t, q, ty)
    <3>1. q \notin DOMAIN h.info /\ ~Refused(h, l, nested) /\ Adding(h, g, q, e, new)
      BY <1>2, <2>2 DEF GetOutcome
    <3>2. e.size = l
      BY DEF NewNode, AtLeastOne
    <3> HIDE DEF e, new, g, q
    <3>3. Asize(g) = Asize(h) + e.size
      BY <1>1, <3>1, AsizeAdding
    <3>4. WithinLimit(g)
      BY <1>1, <3>1, <3>2, <3>3, BlocksAssumption DEF WithinLimit, Refused
    <3> QED BY <3>4 DEF g
  <2> QED BY <2>1, <2>2
<1>3. CASE r.state = h
  BY <1>3
<1>4. CASE FreeOutcome(h, m, p, FALSE, ty, r)
  <2> DEFINE inner == FALSE
  <2>1. FreeOutcome(h, m, p, inner, ty, r)
    BY <1>4
  <2> HIDE DEF inner
  <2> QED BY <2>1, FreeWithin
<1>5. CASE /\ Resizable(h, p, inside) /\ ResizeOutcome(h, m, p, l, ty, nested, r)
           /\ q # NULL
  <2> DEFINE e == SizedNode(d, l)
  <2>1. /\ p \in Live(h) /\ (q = p \/ q \notin DOMAIN h.info)
        /\ l <= d.size \/ ~Refused(h, l - d.size, nested)
        /\ Replacing(h, g, p, q, e)
    BY <1>5 DEF ResizeOutcome, Resizable
  <2>2. e.size = l
    <3>1. d \in Nodes /\ d.kind = "live"
      BY <1>1, <2>1, StateFacts DEF Live
    <3> HIDE DEF d
    <3> QED BY <3>1, SizedNodeFacts
  <2> HIDE DEF e, g, q
  <2>3. Asize(g) = Asize(h) - d.size + l /\ d.size \in Nat
    BY <1>1, <2>1, <2>2, AsizeReplacing
  <2> HIDE DEF d
  <2>4. WithinLimit(g)
    <3>1. CASE l <= d.size
      BY <1>1, <2>3, <3>1, BlocksAssumption DEF WithinLimit
    <3>2. CASE ~Refused(h, l - d.size, nested)
      BY <1>1, <2>3, <3>2, BlocksAssumption DEF WithinLimit, Refused
    <3> QED BY <2>1, <3>1, <3>2
  <2> QED BY <2>4 DEF g
<1>6. CASE ResizeOutcome(h, m, p, l, ty, nested, r) /\ q = NULL
  BY <1>3, <1>4, <1>6 DEF ResizeOutcome
<1> QED BY <1>2, <1>3, <1>4, <1>5, <1>6 DEF MemoryOutcome

LEMMA TriedWithin ==
  ASSUME TypeInv, NEW c, NEW r0, NEW again, NEW mine, NEW rest, NEW r,
         AttemptGood(c, r0, again, mine, rest, r), rest # <<>> => HANDLER,
         ~HANDLER => WithinLimit(r0.state), 0 \notin SIZES
  PROVE  LimitInv'
<1>1. /\ Sound(r0.state, mcount) /\ c.size \in Nat \ {0} /\ Now' = r.state
  BY BlocksAssumption DEF AttemptGood, Tried, GoodCall, CallType, Results
<1>2. frames' # <<>> => HANDLER
  BY TriedFrames DEF AttemptGood
<1>3. ASSUME ~HANDLER PROVE WithinLimit(Now')
  <2> DEFINE h == r0.state
             t == c.thread
             p == c.block
             inside == c.inside
             l == c.size
             ty == c.type
             nested == rest # <<>>
  <2>1. /\ Sound(h, mcount) /\ WithinLimit(h) /\ l \in Nat \ {0} /\ ~nested
        /\ MemoryOutcome(h, mcount, t, p, inside, l, ty, nested, r)
    BY <1>1, <1>3 DEF AttemptGood, Tried
  <2> HIDE DEF h, t, p, inside, l, ty, nested
  <2> QED BY <1>1, <2>1, MemoryWithin
<1> QED BY <1>2, <1>3 DEF LimitInv

\* checkalloca() frees only.
LEMMA CheckedWithin ==
  ASSUME TypeInv, LimitInv, NEW t \in Threads, ~HANDLER
  PROVE  WithinLimit(Checked(t).state)
<1> DEFINE h == Now
           g == Checked(t).state
           B == IF Nested THEN {} ELSE Over(Now, t)
<1>1. h \in State /\ g \in State /\ Freeing(h, g, B) /\ WithinLimit(h)
  BY CheckedFacts DEF TypeInv, Sound, AllOutcome, Results, LimitInv
<1> HIDE DEF h, g, B
<1>2. Asize(g) <= Asize(h) /\ Asize(g) \in Nat /\ Asize(h) \in Nat
  BY <1>1, AsizeFreeing, AsizeNat
<1>3. WithinLimit(g)
  BY <1>1, <1>2, BlocksAssumption DEF WithinLimit
<1> QED BY <1>3 DEF g

\* There is something for a handler to go on with only if there was.
LEMMA WaitingWithin ==
  ASSUME LimitInv PROVE Waiting # <<>> => HANDLER
  BY DEF LimitInv, Waiting, Nested

LEMMA LimitStep ==
  ASSUME TypeInv, LimitInv, 0 \notin SIZES, [Next]_vars PROVE LimitInv'
<1>1. ASSUME NEW t \in Threads, NEW l \in SIZES, NEW ty \in NEWTYPES, Alloc(t, l, ty)
      PROVE  LimitInv'
  <2>1. PICK r \in Results(mcount) : AllocStep(t, l, ty, r)
    BY <1>1, AllocSteps
  <2> DEFINE c == AllocCall(t, l, ty)
             r0 == Checked(t)
  <2>2. /\ AttemptGood(c, r0, FALSE, held, Waiting, r)
        /\ ~HANDLER => WithinLimit(r0.state)
    BY <2>1, AllocGood, CheckedWithin
  <2> HIDE DEF c, r0
  <2> QED BY <2>2, WaitingWithin, TriedWithin
<1>2. ASSUME NEW t \in Threads, NEW p \in Addresses \cup {NULL},
             NEW inside \in BOOLEAN, NEW l \in SIZES, NEW ty \in RESIZETYPES,
             Realloc(t, p, inside, l, ty)
      PROVE  LimitInv'
  <2>1. PICK r \in Results(mcount) : ReallocStep(t, p, inside, l, ty, r)
    BY <1>2, ReallocSteps
  <2> DEFINE c == ReallocCall(t, p, inside, l, ty)
             r0 == Checked(t)
             mine == Taken(p, inside, l, ty)
  <2>2. /\ AttemptGood(c, r0, FALSE, mine, Waiting, r)
        /\ ~HANDLER => WithinLimit(r0.state)
    BY <2>1, ReallocGood, CheckedWithin
  <2> HIDE DEF c, r0, mine
  <2> QED BY <2>2, WaitingWithin, TriedWithin
<1>3. CASE HandlerReturns
  <2>1. PICK r \in Results(mcount) : HandlerStep(r)
    BY <1>3, HandlerSteps
  <2> DEFINE c == Last(frames).call
             r0 == Result(Now, NULL, {})
             rest == Front(frames)
  <2>2. /\ AttemptGood(c, r0, TRUE, held, rest, r)
        /\ ~HANDLER => WithinLimit(r0.state)
        /\ HANDLER
    BY <2>1, HandlerGood DEF LimitInv, Result, HandlerStep, Nested
  <2> HIDE DEF c, r0, rest
  <2> QED BY <2>2, TriedWithin
<1>4. ASSUME NEW t \in Threads, NEW p \in Addresses \cup {NULL},
             NEW inside \in BOOLEAN, NEW ty \in FREETYPES, Free(t, p, inside, ty)
      PROVE  LimitInv'
  <2>1. PICK r \in Results(mcount) : FreeStep(t, p, inside, ty, r)
    BY <1>4, FreeSteps
  <2>2. frames' # <<>> => HANDLER
    BY <2>1, WaitingWithin DEF FreeStep
  <2>3. ASSUME ~HANDLER PROVE WithinLimit(Now')
    <3> DEFINE h == Checked(t).state
    <3>1. /\ Sound(h, mcount) /\ WithinLimit(h) /\ Now' = r.state
          /\ FreeOutcome(h, mcount, p, inside, ty, r)
      BY <2>1, <2>3, CheckedFacts, CheckedWithin DEF FreeStep
    <3> HIDE DEF h
    <3> QED BY <3>1, FreeWithin
  <2> QED BY <2>2, <2>3 DEF LimitInv
<1>5. ASSUME NEW t \in Threads, NEW p \in Addresses, SetMark(t, p) PROVE LimitInv'
  <2>1. MarkStep(t, p)
    BY <1>5, MarkSteps
  <2>2. frames' # <<>> => HANDLER
    BY <2>1, WaitingWithin DEF MarkStep
  <2> DEFINE h == Now
             g == Now'
  <2>3. CASE Markable(h, p) /\ g \in State /\ Marking(h, g, p)
    <3>1. Sound(h, mcount)
      BY DEF TypeInv
    <3> HIDE DEF h, g
    <3>2. Live(g) = Live(h)
      BY <2>3, <3>1, MarkingSound
    <3>3. \A q \in Live(h) : g.info[q].size = h.info[q].size
      <4>1. h \in State /\ p \in DOMAIN h.info /\ h.info[p].kind = "live"
        BY <2>3, <3>1 DEF Sound, Markable, Live
      <4>2. MarkedNode(h.info[p]).size = h.info[p].size
        BY <4>1, StateFacts, MarkedNodeFacts
      <4> QED BY <2>3, <4>2 DEF Marking, Live
    <3>4. Asize(g) = Asize(h)
      <4>1. h \in State /\ Live(h) \subseteq DOMAIN h.info /\ Live(h) \subseteq DOMAIN g.info
        BY <3>1, <3>2 DEF Sound, Live
      <4>2. SumOf(Sizes(g), Live(h)) = SumOf(Sizes(h), Live(h))
        BY <2>3, <3>3, <4>1, SameSizes
      <4> QED BY <3>2, <4>2 DEF Asize
    <3>5. WithinLimit(h) => WithinLimit(g)
      BY <3>4 DEF WithinLimit
    <3> QED BY <2>2, <3>5 DEF LimitInv, h, g
  <2>4. CASE g = h
    BY <2>2, <2>4 DEF LimitInv
  <2> QED BY <2>1, <2>3, <2>4 DEF MarkStep
<1>6. ASSUME Now' = Now, frames' = frames PROVE LimitInv'
  BY <1>6 DEF LimitInv
<1>7. ASSUME NEW t \in Threads, Return(t) PROVE LimitInv'
  <2>1. Now' = Now /\ frames' = frames
    BY <1>7, ReturnTyped DEF Return
  <2> QED BY <1>6, <2>1
<1>8. ASSUME NEW t \in Threads, NEW s \in SITES, Enter(t, s) PROVE LimitInv'
  <2>1. Now' = Now /\ frames' = frames
    BY <1>8, EnterTyped DEF Enter
  <2> QED BY <1>6, <2>1
<1>9. CASE UNCHANGED vars
  <2>1. Now' = Now /\ frames' = frames
    BY <1>9 DEF vars, Now
  <2> QED BY <1>6, <2>1
<1> QED BY <1>1, <1>2, <1>3, <1>4, <1>5, <1>7, <1>8, <1>9 DEF Next

LEMMA LimitInit == ASSUME Init PROVE LimitInv
<1> DEFINE h == Now
<1>1. Live(h) = {} /\ frames = <<>>
  BY DEF Init, Now, Live
<1> HIDE DEF h
<1>2. Asize(h) = 0
  BY <1>1, SumEmpty DEF Asize
<1> QED BY <1>1, <1>2, BlocksAssumption DEF LimitInv, WithinLimit, h

LEMMA LimitHolds == ASSUME 0 \notin SIZES PROVE Spec => []LimitInv
<1>1. Init => LimitInv
  BY LimitInit
<1>2. TypeInv /\ LimitInv /\ [Next]_vars => LimitInv'
  BY LimitStep
<1> QED BY <1>1, <1>2, TypeHolds, PTL DEF Spec

\* Without a low-memory handler the live blocks never come to more than the LIMIT
\* option says, on every way to make, resize and move them.  A block of size 0 gets
\* one byte that is not asked for in the comparison, and may exceed it by that.
THEOREM LimitIsKept == ASSUME 0 \notin SIZES PROVE Spec => []LimitKept
<1>1. LimitInv => LimitKept
  BY DEF LimitInv, WithinLimit, LimitKept
<1> QED BY <1>1, LimitHolds, PTL

-----------------------------------------------------------------------------
(***************************************************************************)
(* What the program holds                                                  *)
(***************************************************************************)
\* The node that a block has of which the program knows b.
Node(b) == [kind |-> "live", type |-> b.type, size |-> b.size, marked |-> b.marked]
Agrees(h, p, b) == p \in Live(h) /\ h.info[p] = Node(b)
AgreesAll(h, f) == \A p \in DOMAIN f : Agrees(h, p, f[p])

\* A call that waits for the handler is one that it was right to make, and it has
\* the block that it is to resize for itself.
Alone(h, c, f) ==
    /\ c.verdict = "right" /\ c.size # 0 /\ c.type # "reallocf" /\ ~c.inside
    /\ c.block = NULL <=> c.before = NULL
    /\ c.block # NULL => /\ Agrees(h, c.block, c.before) /\ c.before.type = "malloc"
                         /\ c.block \notin DOMAIN f
PendingIn(s) == {s[k].call.block : k \in 1..Len(s)}
AloneAll(h, s, f) ==
    /\ \A k \in 1..Len(s) : Alone(h, s[k].call, f)
    /\ \A j, k \in 1..Len(s) :
           s[j].call.block = s[k].call.block => j = k \/ s[j].call.block = NULL

\* Every live block is accounted for, B being those that are in between.
KeptIn(h, s, f, B) ==
    Live(h) \subseteq DOMAIN f \cup PendingIn(s) \cup Blocks(h.astack) \cup B

Books(h, s, f, B) ==
    /\ AgreesAll(h, f) /\ AloneAll(h, s, f) /\ KeptIn(h, s, f, B)
    /\ s # <<>> => HANDLER
None == {}
Just(p) == {p}

\* Blocks that are freed must be neither held nor waited for.
LEMMA BooksFreeing ==
  ASSUME NEW h \in State, NEW g \in State, NEW s, NEW f, NEW B, Books(h, s, f, B),
         NEW D, Freeing(h, g, D), D \cap DOMAIN f = {}, D \cap PendingIn(s) = {},
         NEW C, B \subseteq C \cup D
  PROVE  Books(g, s, f, C)
<1>1. ASSUME NEW p, p \notin D, NEW b, Agrees(h, p, b) PROVE Agrees(g, p, b)
  BY <1>1 DEF Freeing, Agrees
<1>2. AgreesAll(g, f)
  BY <1>1 DEF Books, AgreesAll
<1>3. AloneAll(g, s, f)
  BY <1>1 DEF Books, AloneAll, Alone, PendingIn
<1>4. /\ Blocks(h.astack) = {n.block : n \in Range(h.astack)}
      /\ Blocks(g.astack) = {n.block : n \in Range(g.astack)}
  BY BlocksOf DEF State
<1>5. Blocks(h.astack) \ D \subseteq Blocks(g.astack)
  BY <1>4 DEF Freeing
<1>6. KeptIn(g, s, f, C)
  <2>1. /\ Live(g) = Live(h) \ D
        /\ Live(h) \subseteq DOMAIN f \cup PendingIn(s) \cup Blocks(h.astack) \cup B
    BY DEF Freeing, Books, KeptIn
  <2> QED BY <1>5, <2>1 DEF KeptIn
<1> QED BY <1>2, <1>3, <1>6 DEF Books

\* What waits is the same but for how often the handler may still call.
LEMMA BooksWaiting ==
  ASSUME NEW h, NEW s, NEW f, NEW B, Books(h, s, f, B), NEW w, Len(w) = Len(s),
         \A k \in 1..Len(s) : w[k].call = s[k].call, w # <<>> => HANDLER
  PROVE  Books(h, w, f, B)
<1>1. PendingIn(w) = PendingIn(s)
  BY DEF PendingIn
<1>2. AloneAll(h, w, f)
  BY DEF Books, AloneAll
<1>3. KeptIn(h, w, f, B)
  BY <1>1 DEF Books, KeptIn
<1> QED BY <1>2, <1>3 DEF Books

\* The program gets the block that is in between,
LEMMA BooksWith ==
  ASSUME NEW h, NEW s, NEW f, NEW p, NEW b, Books(h, s, f, Just(p)), Agrees(h, p, b),
         p \notin PendingIn(s)
  PROVE  Books(h, s, With(f, p, b), None)
<1> DEFINE w == With(f, p, b)
<1>1. /\ DOMAIN w = DOMAIN f \cup {p} /\ w[p] = b
      /\ \A q \in DOMAIN f \ {p} : w[q] = f[q]
  BY DEF With
<1> HIDE DEF w
<1>2. AgreesAll(h, w)
  BY <1>1 DEF Books, AgreesAll
<1>3. AloneAll(h, s, w)
  BY <1>1 DEF Books, AloneAll, Alone, PendingIn
<1>4. KeptIn(h, s, w, None)
  BY <1>1 DEF Books, KeptIn, Just, None
<1> QED BY <1>2, <1>3, <1>4 DEF Books, w

\* or gives one away.
LEMMA BooksWithout ==
  ASSUME NEW h, NEW s, NEW f, NEW p, Books(h, s, f, None)
  PROVE  Books(h, s, Without(f, p), Just(p)) /\ p \notin DOMAIN Without(f, p)
<1> DEFINE w == Without(f, p)
<1>1. DOMAIN w = DOMAIN f \ {p} /\ \A q \in DOMAIN w : w[q] = f[q]
  BY DEF Without
<1> HIDE DEF w
<1>2. AgreesAll(h, w)
  BY <1>1 DEF Books, AgreesAll
<1>3. AloneAll(h, s, w)
  BY <1>1 DEF Books, AloneAll, Alone
<1>4. KeptIn(h, s, w, Just(p))
  BY <1>1 DEF Books, KeptIn, Just, None
<1> QED BY <1>1, <1>2, <1>3, <1>4 DEF Books, w

\* One more call waits, perhaps with the block that is in between.
LEMMA BooksMore ==
  ASSUME NEW h, NEW s, s \in Seq(Frames), NEW f, NEW B, Books(h, s, f, B), NEW c,
         NEW n, [call |-> c, left |-> n] \in Frames, HANDLER, Alone(h, c, f),
         c.block \notin PendingIn(s) \/ c.block = NULL, B \subseteq Just(c.block)
  PROVE  Books(h, Append(s, [call |-> c, left |-> n]), f, None)
<1> DEFINE e == [call |-> c, left |-> n]
           w == Append(s, e)
           m == Len(s)
<1>1. e.call = c /\ e \in Frames
  OBVIOUS
<1> HIDE DEF e
<1>2. /\ m \in Nat /\ Len(w) = m + 1 /\ w[m + 1] = e /\ \A k \in 1..m : w[k] = s[k]
  BY <1>1
<1> HIDE DEF w
<1>3. \A k \in 1..Len(w) : k = m + 1 \/ k \in 1..m
  BY <1>2
<1>4. PendingIn(w) = PendingIn(s) \cup {c.block}
  <2>1. (\A k \in 1..m : k \in 1..Len(w)) /\ m + 1 \in 1..Len(w)
    BY <1>2
  <2> QED BY <1>1, <1>2, <1>3, <2>1 DEF PendingIn
<1>5. AloneAll(h, w, f)
  <2>1. \A k \in 1..Len(w) : Alone(h, w[k].call, f)
    BY <1>1, <1>2, <1>3 DEF Books, AloneAll
  <2>2. ASSUME NEW j \in 1..Len(w), NEW k \in 1..Len(w),
               w[j].call.block = w[k].call.block
        PROVE  j = k \/ w[j].call.block = NULL
    <3>1. CASE j \in 1..m /\ k \in 1..m
      BY <1>2, <2>2, <3>1 DEF Books, AloneAll
    <3>2. \A i \in 1..m : w[i].call.block \in PendingIn(s)
      BY <1>2 DEF PendingIn
    <3>3. w[m + 1].call.block = c.block
      BY <1>1, <1>2
    <3> QED BY <1>3, <2>2, <3>1, <3>2, <3>3
  <2> QED BY <2>1, <2>2 DEF AloneAll
<1>6. KeptIn(h, w, f, None)
  BY <1>4 DEF Books, KeptIn, Just, None
<1> QED BY <1>5, <1>6 DEF Books, w, e

\* A block is made.
LEMMA BooksAdding ==
  ASSUME NEW h \in State, NEW g \in State, NEW s, NEW f, Books(h, s, f, None), NEW p,
         p \notin Live(h), NEW d, NEW new, Adding(h, g, p, d, new)
  PROVE  /\ Books(g, s, f, Just(p)) /\ (p \notin PendingIn(s) \/ p = NULL)
         /\ p \in Blocks(g.astack) => Books(g, s, f, None)
<1>1. ASSUME NEW q, NEW b, Agrees(h, q, b) PROVE Agrees(g, q, b)
  BY <1>1 DEF Adding, Agrees
<1>2. AgreesAll(g, f)
  BY <1>1 DEF Books, AgreesAll
<1>3. AloneAll(g, s, f)
  BY <1>1 DEF Books, AloneAll, Alone
<1>4. p \notin PendingIn(s) \/ p = NULL
  BY DEF Books, AloneAll, Alone, Agrees, PendingIn
<1>5. Blocks(h.astack) \subseteq Blocks(g.astack)
  <2>1. /\ Blocks(h.astack) = {n.block : n \in Range(h.astack)}
        /\ Blocks(g.astack) = {n.block : n \in Range(g.astack)}
    BY BlocksOf DEF State
  <2> QED BY <2>1 DEF Adding
<1>6. /\ Live(g) = Live(h) \cup {p}
      /\ Live(h) \subseteq DOMAIN f \cup PendingIn(s) \cup Blocks(h.astack)
  BY DEF Adding, Books, KeptIn, None
<1>7. KeptIn(g, s, f, Just(p)) /\ (p \in Blocks(g.astack) => KeptIn(g, s, f, None))
  BY <1>5, <1>6 DEF KeptIn, Just, None
<1> QED BY <1>2, <1>3, <1>4, <1>7 DEF Books

\* The block that is in between is resized, and perhaps moved.
LEMMA BooksReplacing ==
  ASSUME NEW h, NEW g, NEW s, NEW f, NEW p \in Live(h), Books(h, s, f, Just(p)),
         p \notin DOMAIN f, p \notin PendingIn(s), NEW q,
         q = p \/ q \notin Live(h), NEW d, Replacing(h, g, p, q, d)
  PROVE  Books(g, s, f, Just(q)) /\ (q \notin PendingIn(s) \/ q = NULL)
<1>1. ASSUME NEW x, x # p, NEW b, Agrees(h, x, b) PROVE Agrees(g, x, b)
  BY <1>1 DEF Replacing, Agrees
<1>2. AgreesAll(g, f)
  BY <1>1 DEF Books, AgreesAll
<1>3. AloneAll(g, s, f)
  BY <1>1 DEF Books, AloneAll, Alone, PendingIn
<1>4. q \notin PendingIn(s) \/ q = NULL
  BY DEF Books, AloneAll, Alone, Agrees, PendingIn
<1>5. KeptIn(g, s, f, Just(q))
  BY DEF Books, KeptIn, Just, Replacing
<1> QED BY <1>2, <1>3, <1>4, <1>5 DEF Books

-----------------------------------------------------------------------------
(***************************************************************************)
(* What an attempt at a call does to what the program holds                *)
(***************************************************************************)
\* What is known of a call before an attempt at it, f being what the program holds
\* besides and s the calls that wait.
Fits(h, c, f, s) ==
    /\ c.verdict = "wrong" =>
           /\ c.before = NULL /\ c.block # NULL
           /\ Resizable(h, c.block, c.inside) => c.size = 0 /\ h.info[c.block].marked
    /\ c.verdict # "wrong" =>
           /\ ~c.inside
           /\ c.block = NULL <=> c.before = NULL
           /\ c.block # NULL =>
                  /\ Agrees(h, c.block, c.before) /\ c.before.type = "malloc"
                  /\ c.block \notin DOMAIN f /\ c.block \notin PendingIn(s)
                  /\ c.before.marked => c.size # 0
                  /\ c.verdict = "right" /\ c.before.marked => c.type # "reallocf"
    /\ HANDLER => c.verdict = "right" /\ c.size # 0 /\ c.type # "reallocf"
    /\ c.block # NULL => c.type \in RESIZETYPES
Own(c) == IF c.before = NULL THEN None ELSE Just(c.block)

\* Nothing comes of the attempt but an answer: the program has back what it had.
LEMMA BooksBack ==
  ASSUME NEW h, NEW c, NEW f, NEW s, Fits(h, c, f, s), Books(h, s, f, Own(c)),
         c.verdict # "wrong", c.before # NULL
  PROVE  Books(h, s, With(f, c.block, c.before), None)
<1> DEFINE p == c.block
           b == c.before
<1>1. Books(h, s, f, Just(p)) /\ Agrees(h, p, b) /\ p \notin PendingIn(s)
  BY DEF Fits, Own
<1> HIDE DEF p, b
<1>2. Books(h, s, With(f, p, b), None)
  BY <1>1, BooksWith
<1> QED BY <1>2 DEF p, b

\* The call waits.
LEMMA BooksWait ==
  ASSUME NEW h, NEW c, NEW f, NEW s, s \in Seq(Frames), Fits(h, c, f, s),
         Books(h, s, f, Own(c)), HANDLER, NEW n, [call |-> c, left |-> n] \in Frames
  PROVE  Books(h, Append(s, [call |-> c, left |-> n]), f, None)
<1>1. Alone(h, c, f) /\ (c.block \notin PendingIn(s) \/ c.block = NULL)
  BY DEF Fits, Alone
<1> DEFINE B == Own(c)
<1>2. B \subseteq Just(c.block)
  BY DEF Own, Just, None
<1> HIDE DEF B
<1>3. Books(h, s, f, B)
  BY DEF B
<1> QED BY <1>1, <1>2, <1>3, BooksMore

\* The attempt has changed nothing, and found no error that was not made.
LEMMA SameBooks ==
  ASSUME NEW c, NEW r0, NEW again, NEW mine, NEW rest, NEW r,
         AttemptGood(c, r0, again, mine, rest, r), r.state = r0.state, r.ret = NULL,
         Fits(r0.state, c, mine, rest), Books(r0.state, rest, mine, Own(c)),
         c.verdict # "wrong", c.before # NULL => c.size # 0,
         c.before # NULL /\ c.type = "reallocf" => c.before.marked,
         FramesRight(frames')
  PROVE  Books(Now', frames', held', None)
<1> DEFINE h == r0.state
<1>1. Now' = h
  BY DEF AttemptGood, Tried
<1>2. CASE CallHandler(c, r, again, mine, rest)
  <2> DEFINE n == IF rest = <<>> THEN HANDLERCALLS ELSE Last(rest).left
  <2>1. frames' = Append(rest, [call |-> c, left |-> n]) /\ held' = mine /\ HANDLER
    BY <1>2 DEF CallHandler
  <2>2. rest \in Seq(Frames) /\ n \in 0..HANDLERCALLS
    BY FramesLess, ProgramAssumption DEF AttemptGood, FramesRight
  <2> HIDE DEF n
  <2>3. [call |-> c, left |-> n] \in Frames
    BY <2>2 DEF Frames, AttemptGood, GoodCall
  <2> QED BY <1>1, <2>1, <2>2, <2>3, BooksWait
<1>3. CASE Fail(c, r, again, mine, rest)
  <2>1. frames' = rest /\ (c.before = NULL => held' = mine)
        /\ (c.before # NULL => held' = With(mine, c.block, c.before))
    BY <1>3 DEF Fail
  <2>2. CASE c.before = NULL
    BY <1>1, <2>1, <2>2 DEF Own
  <2>3. CASE c.before # NULL
    BY <1>1, <2>1, <2>3, BooksBack
  <2> QED BY <2>2, <2>3
<1> QED BY <1>2, <1>3 DEF AttemptGood, Tried, Succeed

\* A wrong call is refused.
LEMMA WrongBooks ==
  ASSUME NEW c, NEW r0, NEW again, NEW mine, NEW rest, NEW r,
         AttemptGood(c, r0, again, mine, rest, r), c.verdict = "wrong",
         Fits(r0.state, c, mine, rest), Books(r0.state, rest, mine, Own(c))
  PROVE  Books(Now', frames', held', None) /\ r.errors # {}
<1> DEFINE h == r0.state
           t == c.thread
           p == c.block
           inside == c.inside
           l == c.size
           ty == c.type
           nested == rest # <<>>
<1>1. /\ MemoryOutcome(h, mcount, t, p, inside, l, ty, nested, r)
      /\ p # NULL /\ c.before = NULL /\ ~HANDLER
      /\ Resizable(h, p, inside) => l = 0 /\ h.info[p].marked
      /\ Books(h, rest, mine, None) /\ Now' = r.state
  BY DEF AttemptGood, Tried, Fits, Own
<1>2. r.state = h /\ r.ret = NULL /\ r.errors # {}
  <2> HIDE DEF h, t, p, inside, l, ty, nested
  <2>1. CASE ~Resizable(h, p, inside)
    BY <1>1, <2>1 DEF MemoryOutcome
  <2>2. CASE Resizable(h, p, inside)
    <3>1. FreeOutcome(h, mcount, p, FALSE, ty, r)
      BY <1>1, <2>2 DEF MemoryOutcome
    <3>2. ~Freeable(h, p, FALSE, ty)
      BY <1>1, <2>2 DEF Freeable
    <3> QED BY <1>1, <3>1, <3>2 DEF FreeOutcome
  <2> QED BY <2>1, <2>2
<1>3. frames' = rest /\ held' = mine
  <2>1. Fail(c, r, again, mine, rest)
    BY <1>1, <1>2 DEF AttemptGood, Tried, Succeed, CallHandler
  <2> QED BY <1>1, <2>1 DEF Fail
<1> QED BY <1>1, <1>2, <1>3

\* A new block is the program's, or that of the function that called alloca().
LEMMA NewBooks ==
  ASSUME TypeInv, NEW c, NEW r0, NEW again, NEW mine, NEW rest, NEW r,
         AttemptGood(c, r0, again, mine, rest, r), c.verdict # "wrong",
         c.block = NULL, Fits(r0.state, c, mine, rest),
         Books(r0.state, rest, mine, Own(c)), FramesRight(frames')
  PROVE  Books(Now', frames', held', None) /\ r.errors = {}
<1> DEFINE h == r0.state
           g == r.state
           l == c.size
           ty == c.type
           d == NewNode(l, ty)
           new == NewStacked(c.thread, r.ret, ty)
<1>1. /\ GetOutcome(h, mcount, c.thread, l, ty, rest # <<>>, r)
      /\ c.before = NULL /\ Books(h, rest, mine, None) /\ Now' = g
      /\ h \in State /\ g \in State /\ r.ret \in Addresses \cup {NULL}
  BY DEF AttemptGood, Tried, MemoryOutcome, Fits, Own, Results, Sound
<1>2. r.errors = {}
  BY <1>1 DEF GetOutcome
<1>3. CASE r.ret = NULL
  <2>1. r.state = r0.state
    BY <1>1, <1>3 DEF GetOutcome
  <2> QED BY <1>1, <1>2, <1>3, <2>1, SameBooks
<1>4. CASE r.ret # NULL
  <2> DEFINE q == r.ret
  <2>1. q \in Addresses /\ q \notin Live(h) /\ Adding(h, g, q, d, new)
    BY <1>1, <1>4 DEF GetOutcome, Live
  <2>2. Succeed(c, r, mine, rest)
    BY <1>4 DEF AttemptGood, Tried, CallHandler, Fail
  <2>3. frames' = rest
    BY <2>2 DEF Succeed
  <2>4. /\ Books(g, rest, mine, Just(q)) /\ q \notin PendingIn(rest)
        /\ q \in Blocks(g.astack) => Books(g, rest, mine, None)
    <3> HIDE DEF d, new, h, g, q
    <3> QED BY <1>1, <1>4, <2>1, BooksAdding DEF q
  <2>5. CASE ty = "alloca"
    <3> DEFINE e == [block |-> q, frame |-> Chain(c.thread)]
    <3>1. new = {e} /\ e.block = q
      BY <2>5 DEF NewStacked
    <3> HIDE DEF e
    <3>2. q \in Blocks(g.astack)
      <4>1. g.astack \in Stacks /\ e \in Range(g.astack)
        BY <1>1, <2>1, <3>1 DEF State, Adding
      <4> QED BY <3>1, <4>1, BlocksOf
    <3>3. held' = mine
      BY <2>2, <2>5 DEF Succeed
    <3> QED BY <1>1, <1>2, <2>3, <2>4, <3>2, <3>3
  <2>6. CASE ty # "alloca"
    <3> DEFINE b == Told(c)
               mark == c.before # NULL /\ c.before.marked
    <3>1. held' = With(mine, q, b)
      BY <2>2, <2>6 DEF Succeed, Told
    <3>2. mark = FALSE
      BY <1>1, Zenon
    <3>3. b = [type |-> NewType(ty), size |-> AtLeastOne(l), marked |-> mark]
      BY DEF Told
    <3> HIDE DEF mark, b
    <3>4. d = Node(b)
      BY <3>2, <3>3 DEF Node, NewNode
    <3>5. Agrees(g, q, b)
      BY <2>1, <3>4 DEF Agrees, Adding
    <3> HIDE DEF g, q
    <3>6. Books(g, rest, With(mine, q, b), None)
      BY <2>4, <3>5, BooksWith
    <3> QED BY <1>1, <1>2, <2>3, <3>1, <3>6
  <2> QED BY <2>5, <2>6
<1> QED BY <1>3, <1>4

\* A block that is resized, freed by realloc(), or left alone.
LEMMA ResizedBooks ==
  ASSUME TypeInv, NEW c, NEW r0, NEW again, NEW mine, NEW rest, NEW r,
         AttemptGood(c, r0, again, mine, rest, r), c.verdict # "wrong",
         c.block # NULL, Fits(r0.state, c, mine, rest), rest # <<>> => HANDLER,
         Books(r0.state, rest, mine, Own(c)), FramesRight(frames')
  PROVE  /\ Books(Now', frames', held', None)
         /\ c.verdict = "right" => r.errors = {}
<1> DEFINE h == r0.state
           g == r.state
           t == c.thread
           p == c.block
           b == c.before
           l == c.size
           ty == c.type
           inside == c.inside
           nested == rest # <<>>
           q == r.ret
<1>1. /\ Books(h, rest, mine, Just(p)) /\ Now' = g /\ Sound(h, mcount)
      /\ h \in State /\ g \in State /\ q \in Addresses \cup {NULL}
      /\ p \in Live(h) /\ h.info[p] = Node(b) /\ b.type = "malloc" /\ b # NULL
      /\ p \notin DOMAIN mine /\ p \notin PendingIn(rest) /\ ty \in RESIZETYPES
      /\ b.marked => l # 0
      /\ c.verdict = "right" /\ b.marked => ty # "reallocf"
      /\ HANDLER => l # 0 /\ ty # "reallocf"
      /\ l \in Nat /\ b \in HeldBlocks
  BY BlocksAssumption
     DEF AttemptGood, Tried, Fits, Own, Results, Sound, Agrees, GoodCall, CallType
<1>2. Resizable(h, p, inside)
  BY <1>1 DEF Resizable, Node, Fits
<1>3. MemoryOutcome(h, mcount, t, p, inside, l, ty, nested, r)
  BY DEF AttemptGood, Tried
<1>4. Freeable(h, p, FALSE, ty) <=> ~b.marked
  BY <1>1, TypesAssumption DEF Freeable, Node, Compatible
<1>5. CASE FreeOutcome(h, mcount, p, FALSE, ty, r) /\ ~b.marked
           /\ (l = 0 \/ ty = "reallocf")
  <2> DEFINE B == {p}
  <2>1. Freeing(h, g, B) /\ q = NULL /\ r.errors = {}
    BY <1>1, <1>4, <1>5 DEF FreeOutcome
  <2>2. frames' = rest /\ held' = mine
    <3>1. Fail(c, r, again, mine, rest)
      BY <1>1, <1>5, <2>1 DEF AttemptGood, Tried, Succeed, CallHandler
    <3> QED BY <1>1, <1>5, <3>1 DEF Fail
  <2>3. B \cap DOMAIN mine = {} /\ B \cap PendingIn(rest) = {} /\ Just(p) \subseteq None \cup B
    BY <1>1 DEF Just, None
  <2> HIDE DEF h, g, B
  <2>4. Books(g, rest, mine, None)
    BY <1>1, <2>1, <2>3, BooksFreeing
  <2> QED BY <1>1, <2>1, <2>2, <2>4
<1>6. CASE /\ l # 0 /\ ResizeOutcome(h, mcount, p, l, ty, nested, r)
           /\ q = NULL /\ (ty = "reallocf" => b.marked)
  <2>1. CASE ty = "reallocf"
    <3>1. r.state = h
      BY <1>4, <1>6, <2>1 DEF ResizeOutcome, FreeOutcome
    <3> QED BY <1>1, <1>6, <2>1, <3>1, SameBooks
  <2>2. CASE ty # "reallocf"
    <3>1. r.state = h /\ r.errors = {}
      BY <1>6, <2>2 DEF ResizeOutcome
    <3> QED BY <1>1, <1>6, <2>2, <3>1, SameBooks
  <2> QED BY <2>1, <2>2
<1>7. CASE l # 0 /\ ResizeOutcome(h, mcount, p, l, ty, nested, r) /\ q # NULL
  <2> DEFINE d == SizedNode(h.info[p], l)
             e == Told(c)
             mark == c.before # NULL /\ c.before.marked
  <2>1. /\ q \in Addresses /\ (q = p \/ q \notin Live(h)) /\ Replacing(h, g, p, q, d)
        /\ r.errors = {}
    BY <1>1, <1>7 DEF ResizeOutcome, Live
  <2>2. Succeed(c, r, mine, rest) /\ ty # "alloca"
    BY <1>1, <1>7, TypesAssumption DEF AttemptGood, Tried, CallHandler, Fail
  <2>3. frames' = rest /\ held' = With(mine, q, e)
    BY <2>2 DEF Succeed, Told
  <2>4. d = Node(e)
    <3>1. b.marked \in BOOLEAN
      BY <1>1 DEF HeldBlocks
    <3>2. mark = b.marked
      BY <1>1, <3>1
    <3>3. NewType(ty) = "malloc" /\ AtLeastOne(l) = l
      BY <1>1, <1>7, TypesAssumption DEF NewType, AtLeastOne
    <3>4. d = [kind |-> "live", type |-> "malloc", size |-> l, marked |-> b.marked]
      BY <1>1 DEF SizedNode, Node
    <3>5. e = [type |-> NewType(ty), size |-> AtLeastOne(l), marked |-> mark]
      BY DEF Told
    <3> HIDE DEF mark, e, d
    <3> QED BY <3>2, <3>3, <3>4, <3>5 DEF Node
  <2> HIDE DEF d, e, g, h, p, q
  <2>5. Books(g, rest, mine, Just(q)) /\ q \notin PendingIn(rest)
    BY <1>1, <1>7, <2>1, BooksReplacing DEF q
  <2>6. Agrees(g, q, e)
    BY <2>1, <2>4 DEF Agrees, Replacing
  <2>7. Books(g, rest, With(mine, q, e), None)
    BY <2>5, <2>6, BooksWith
  <2> QED BY <1>1, <2>1, <2>3, <2>7
<1>8. \/ FreeOutcome(h, mcount, p, FALSE, ty, r) /\ l = 0
      \/ l # 0 /\ ResizeOutcome(h, mcount, p, l, ty, nested, r)
  BY <1>2, <1>3 DEF MemoryOutcome
<1>9. q = NULL /\ ty = "reallocf" /\ l # 0 => FreeOutcome(h, mcount, p, FALSE, ty, r)
  BY <1>8 DEF ResizeOutcome
<1> QED BY <1>1, <1>5, <1>6, <1>7, <1>8, <1>9

LEMMA TriedBooks ==
  ASSUME TypeInv, NEW c, NEW r0, NEW again, NEW mine, NEW rest, NEW r,
         AttemptGood(c, r0, again, mine, rest, r), rest # <<>> => HANDLER,
         Fits(r0.state, c, mine, rest), Books(r0.state, rest, mine, Own(c))
  PROVE  Books(Now', frames', held', None) /\ ErrorsExact'
<1>1. FramesRight(frames')
  BY TriedTyped DEF AttemptGood, TypeInv
<1>2. outcome' = Outcome(c.thread, r.errors, c.verdict)
  BY DEF AttemptGood, Tried
<1>3. /\ Books(Now', frames', held', None)
      /\ c.verdict = "right" => r.errors = {}
      /\ c.verdict = "wrong" => r.errors # {}
  BY <1>1, WrongBooks, NewBooks, ResizedBooks
<1> QED BY <1>2, <1>3 DEF ErrorsExact, ErrorsAreDeserved, MisuseIsReported, Outcome

-----------------------------------------------------------------------------
(***************************************************************************)
(* The steps                                                               *)
(***************************************************************************)
\* With a low-memory handler, calls are made twice, the second time when they may
\* no longer be right: those of a program that makes wrong ones, and realloc() to
\* size 0 and reallocf(), which free the block the first time.
Proper == HANDLER => ~MISUSE /\ 0 \notin SIZES /\ "reallocf" \notin RESIZETYPES

HeldInv == Books(Now, frames, held, None) /\ ErrorsExact

\* checkalloca() frees no block that the program holds or is waiting for.
LEMMA CheckedBooks ==
  ASSUME TypeInv, HeldInv, NEW t \in Threads
  PROVE  Books(Checked(t).state, frames, held, None)
<1> DEFINE h == Now
           g == Checked(t).state
           D == IF Nested THEN {} ELSE Over(Now, t)
<1>1. /\ Freeing(h, g, D) /\ h \in State /\ g \in State
      /\ Blocks(h.astack) = AllocaBlocks(h) /\ Books(h, frames, held, None)
      /\ HeldRight(held)
  BY CheckedFacts DEF TypeInv, Sound, StackRight, AllOutcome, Results, HeldInv
<1>2. D \subseteq AllocaBlocks(h)
  <2>1. Blocks(h.astack) = {n.block : n \in Range(h.astack)}
    BY <1>1, BlocksOf DEF State
  <2>2. Over(h, t) \subseteq Blocks(h.astack)
    BY <2>1 DEF Over
  <2> QED BY <1>1, <2>2
<1> HIDE DEF h, g, D
<1>3. D \cap DOMAIN held = {}
  <2> SUFFICES ASSUME NEW p \in DOMAIN held, p \in D PROVE FALSE
    OBVIOUS
  <2> DEFINE b == held[p]
  <2>1. Agrees(h, p, b) /\ b \in HeldBlocks
    BY <1>1 DEF Books, AgreesAll, HeldRight
  <2>2. p \in AllocaBlocks(h)
    BY <1>2
  <2> HIDE DEF b
  <2> QED BY <2>1, <2>2 DEF Agrees, Node, AllocaBlocks, HeldBlocks
<1>4. D \cap PendingIn(frames) = {}
  <2> SUFFICES ASSUME NEW k \in 1..Len(frames), frames[k].call.block \in D PROVE FALSE
    BY DEF PendingIn
  <2> DEFINE c == frames[k].call
  <2>1. Alone(h, c, held) /\ c.block \in Live(h) /\ h.info[c.block].type = "alloca"
    BY <1>1, <1>2 DEF Books, AloneAll, AllocaBlocks
  <2>2. c.block # NULL
    <3>1. h \in State /\ c.block \in Addresses
      BY <1>1, <2>1, StateFacts
    <3> QED BY <3>1, BlocksAssumption
  <2> HIDE DEF c
  <2> QED BY <2>1, <2>2 DEF Alone, Agrees, Node
<1>5. Books(g, frames, held, None)
  <2>1. None \subseteq None \cup D
    OBVIOUS
  <2> QED BY <1>1, <1>3, <1>4, <2>1, BooksFreeing
<1> QED BY <1>5 DEF g

LEMMA WaitingBooks ==
  ASSUME TypeInv, NEW t, MayCall(t), NEW h, NEW f, NEW B, Books(h, frames, f, B)
  PROVE  /\ Books(h, Waiting, f, B) /\ PendingIn(Waiting) = Pending
         /\ PendingIn(frames) = Pending /\ (Waiting # <<>> => HANDLER)
<1>1. /\ Len(Waiting) = Len(frames)
      /\ \A k \in 1..Len(frames) : Waiting[k].call = frames[k].call
  BY CallMay
<1>2. Waiting # <<>> => HANDLER
  BY DEF Books, Waiting, Nested
<1>3. Books(h, Waiting, f, B)
  BY <1>1, <1>2, BooksWaiting
<1> QED BY <1>1, <1>2, <1>3 DEF Pending, PendingIn

LEMMA AllocHeld ==
  ASSUME TypeInv, HeldInv, Proper, NEW t \in Threads, NEW l \in SIZES,
         NEW ty \in NEWTYPES, Alloc(t, l, ty)
  PROVE  HeldInv'
<1>1. PICK r \in Results(mcount) : AllocStep(t, l, ty, r)
  BY AllocSteps
<1> DEFINE c == AllocCall(t, l, ty)
           r0 == Checked(t)
           h == r0.state
<1>2. AttemptGood(c, r0, FALSE, held, Waiting, r)
  BY <1>1, AllocGood
<1>3. Books(h, frames, held, None)
  BY CheckedBooks
<1>4. Books(h, Waiting, held, None) /\ (Waiting # <<>> => HANDLER)
  <2> HIDE DEF h
  <2> QED BY <1>1, <1>3, WaitingBooks DEF AllocStep
<1>5. Own(c) = None
  BY DEF Own, AllocCall
<1>6. Fits(h, c, held, Waiting)
  BY TypesAssumption DEF Fits, AllocCall, Proper
<1> HIDE DEF c, r0
<1> QED BY <1>2, <1>4, <1>5, <1>6, TriedBooks DEF HeldInv

LEMMA ReallocHeld ==
  ASSUME TypeInv, HeldInv, Proper, NEW t \in Threads, NEW p \in Addresses \cup {NULL},
         NEW inside \in BOOLEAN, NEW l \in SIZES, NEW ty \in RESIZETYPES,
         Realloc(t, p, inside, l, ty)
  PROVE  HeldInv'
<1>1. PICK r \in Results(mcount) : ReallocStep(t, p, inside, l, ty, r)
  BY ReallocSteps
<1> DEFINE c == ReallocCall(t, p, inside, l, ty)
           r0 == Checked(t)
           h == r0.state
           mine == Taken(p, inside, l, ty)
           v == ResizeVerdict(p, inside, l, ty)
<1>2. AttemptGood(c, r0, FALSE, mine, Waiting, r)
  BY <1>1, ReallocGood
<1>3. Books(h, frames, held, None)
  BY CheckedBooks
<1>4. /\ MayCall(t) /\ p \in MayName(t) /\ (inside => p # NULL)
      /\ MISUSE \/ v = "right"
  BY <1>1 DEF ReallocStep
<1>5. /\ Books(h, Waiting, held, None) /\ PendingIn(Waiting) = Pending
      /\ Waiting # <<>> => HANDLER
  <2> HIDE DEF h
  <2> QED BY <1>3, <1>4, WaitingBooks
<1>6. p \notin PendingIn(Waiting) \/ p = NULL
  BY <1>4, <1>5 DEF MayName
<1>7. c.block = p /\ c.verdict = v /\ c.size = l /\ c.type = ty /\ c.inside = inside
      /\ c.before = IF Takes(p, inside, l, ty) THEN held[p] ELSE NULL
  BY DEF ReallocCall
<1>8. CASE v = "wrong"
  <2>1. /\ MISUSE /\ ~HANDLER /\ p # NULL /\ c.before = NULL /\ mine = held
        /\ Waiting = <<>>
        /\ \/ inside \/ p \notin DOMAIN held
           \/ held[p].type # "malloc" \/ (held[p].marked /\ l = 0)
    BY <1>4, <1>5, <1>7, <1>8 DEF Proper, Takes, Taken, ResizeVerdict
  <2>2. ASSUME Resizable(h, p, inside) PROVE l = 0 /\ h.info[p].marked
    <3>1. PendingIn(Waiting) = {}
      BY <2>1 DEF PendingIn
    <3>2. p \notin Blocks(h.astack)
      <4>1. Sound(h, mcount)
        BY CheckedFacts
      <4> HIDE DEF h
      <4> QED BY <2>2, <4>1 DEF Resizable, Sound, StackRight, AllocaBlocks
    <3>3. p \in DOMAIN held
      BY <1>5, <2>2, <3>1, <3>2 DEF Books, KeptIn, Resizable, None
    <3>4. h.info[p] = Node(held[p])
      BY <1>5, <3>3 DEF Books, AgreesAll, Agrees
    <3> HIDE DEF h
    <3> QED BY <2>1, <2>2, <3>3, <3>4 DEF Resizable, Node
  <2>3. Fits(h, c, mine, Waiting)
    <3> HIDE DEF c, h, mine, v
    <3> QED BY <1>7, <1>8, <2>1, <2>2, TypesAssumption DEF Fits
  <2>4. Own(c) = None
    BY <2>1 DEF Own
  <2> HIDE DEF c, r0, mine, v
  <2> QED BY <1>2, <1>5, <2>1, <2>3, <2>4, TriedBooks DEF HeldInv
<1>9. CASE v # "wrong" /\ p = NULL
  <2>1. v = "right" /\ ~inside /\ mine = held /\ c.before = NULL
    BY <1>4, <1>7, <1>9 DEF Takes, Taken, ResizeVerdict
  <2>2. Fits(h, c, mine, Waiting)
    <3>1. ty # "reallocf" \/ ~HANDLER
      BY DEF Proper
    <3> HIDE DEF c, h, mine, v
    <3> QED BY <1>7, <1>9, <2>1, <3>1 DEF Fits, Proper
  <2>3. Own(c) = None
    BY <2>1 DEF Own
  <2> HIDE DEF c, r0, mine, v
  <2> QED BY <1>2, <1>5, <2>1, <2>2, <2>3, TriedBooks DEF HeldInv
<1>10. CASE v # "wrong" /\ p # NULL
  <2> DEFINE b == held[p]
  <2>1. /\ Takes(p, inside, l, ty) /\ c.before = b /\ mine = Without(held, p)
        /\ ~inside /\ p \in DOMAIN held /\ b.type = "malloc" /\ ~(b.marked /\ l = 0)
        /\ v = "right" => ~(b.marked /\ ty = "reallocf")
    BY <1>4, <1>7, <1>10 DEF Takes, Taken, ResizeVerdict
  <2>2. b # NULL
    BY <2>1, NullAssumption DEF TypeInv, HeldRight
  <2>3. Agrees(h, p, b)
    BY <1>5, <2>1 DEF Books, AgreesAll
  <2>4. Books(h, Waiting, mine, Just(p)) /\ p \notin DOMAIN mine
    <3> HIDE DEF h
    <3> QED BY <1>5, <2>1, BooksWithout
  <2>5. HANDLER => v = "right" /\ l # 0 /\ ty # "reallocf"
    BY <1>4 DEF Proper
  <2>6. Fits(h, c, mine, Waiting)
    <3> HIDE DEF c, h, mine, v, b
    <3> QED BY <1>6, <1>7, <1>10, <2>1, <2>2, <2>3, <2>4, <2>5 DEF Fits
  <2>7. Own(c) = Just(p)
    BY <1>7, <2>1, <2>2 DEF Own
  <2> HIDE DEF c, r0, mine, v
  <2> QED BY <1>2, <1>5, <2>4, <2>6, <2>7, TriedBooks DEF HeldInv
<1> QED BY <1>8, <1>9, <1>10

\* The frame that is tried again is the last; what it has at hand is in between.
LEMMA LastBooks ==
  ASSUME TypeInv, Books(Now, frames, held, None), frames # <<>>
  PROVE  LET c == Last(frames).call
         IN  Books(Now, Front(frames), held, Own(c)) /\ Fits(Now, c, held, Front(frames))
<1> DEFINE h == Now
           s == frames
           w == Front(frames)
           n == Len(s)
           c == Last(frames).call
           f == held
<1>1. /\ c = s[n].call /\ n \in 1..n /\ n \in Nat /\ Len(w) = n - 1 /\ GoodCall(c)
      /\ \A k \in 1..n - 1 : w[k] = s[k]
  BY FramesLess DEF TypeInv
<1>2. Books(h, s, f, None) /\ HANDLER /\ h \in State /\ HeldRight(f) /\ n = Len(s)
  BY DEF Books, TypeInv, Sound
<1> HIDE DEF h, s, w, n, c, f
<1>3. Alone(h, c, f)
  BY <1>1, <1>2 DEF Books, AloneAll
<1>4. \A k \in 1..n : k = n \/ k \in 1..Len(w)
  BY <1>1
<1>5. \A k \in 1..Len(w) : k \in 1..n /\ k # n /\ w[k] = s[k]
  BY <1>1
<1>6. PendingIn(s) = PendingIn(w) \cup {c.block}
  BY <1>1, <1>2, <1>4, <1>5 DEF PendingIn
<1>7. c.block \notin PendingIn(w) \/ c.block = NULL
  BY <1>1, <1>2, <1>5 DEF Books, AloneAll, PendingIn
<1>8. AloneAll(h, w, f)
  BY <1>2, <1>5 DEF Books, AloneAll
<1>9. KeptIn(h, w, f, Own(c))
  <2>1. Live(h) \subseteq DOMAIN f \cup PendingIn(w) \cup {c.block} \cup Blocks(h.astack)
    BY <1>2, <1>6 DEF Books, KeptIn, None
  <2>2. NULL \notin Live(h)
    BY <1>2, StateFacts, BlocksAssumption
  <2>3. c.block = NULL \/ Own(c) = {c.block}
    BY <1>3 DEF Alone, Own, Just
  <2> QED BY <2>1, <2>2, <2>3 DEF KeptIn
<1>10. Books(h, w, f, Own(c))
  BY <1>2, <1>8, <1>9 DEF Books
<1>11. Fits(h, c, f, w)
  <2>1. c.block # NULL => c.type \in RESIZETYPES
    BY <1>1 DEF GoodCall
  <2> QED BY <1>3, <1>7, <2>1 DEF Fits, Alone
<1> QED BY <1>10, <1>11 DEF h, w, c, f

LEMMA HandlerHeld ==
  ASSUME TypeInv, HeldInv, HandlerReturns
  PROVE  HeldInv'
<1>1. PICK r \in Results(mcount) : HandlerStep(r)
  BY HandlerSteps
<1> DEFINE c == Last(frames).call
           r0 == Result(Now, NULL, {})
           rest == Front(frames)
<1>2. AttemptGood(c, r0, TRUE, held, rest, r)
  BY <1>1, HandlerGood
<1>3. r0.state = Now
  BY DEF Result
<1>4. Books(Now, rest, held, Own(c)) /\ Fits(Now, c, held, rest) /\ HANDLER
  BY <1>1, LastBooks DEF HandlerStep, Nested, HeldInv, Books
<1> HIDE DEF c, r0, rest
<1> QED BY <1>2, <1>3, <1>4, TriedBooks DEF HeldInv

\* A block that a function has by alloca() is freed for it, and for no reason that
\* the library could give not to.
LEMMA ActiveFreeable ==
  ASSUME TypeInv, ScopedInv, Local, NEW t \in Threads, NEW p \in Active(t)
  PROVE  Freeable(Checked(t).state, p, FALSE, "dealloca")
<1> DEFINE h == Checked(t).state
<1>1. Sound(h, mcount) /\ ScopedIn(h, path)
  BY CheckedFacts, CheckedInv
<1> HIDE DEF h
<1>2. PICK k \in 1..Len(path[t]) : p \in path[t][k].blocks
  BY DEF Active
<1>3. PICK n \in Range(h.astack) : n.block = p
  BY <1>1, <1>2 DEF ScopedIn
<1>4. h.astack \in Stacks /\ Blocks(h.astack) = AllocaBlocks(h)
  BY <1>1 DEF Sound, State, StackRight
<1>5. p \in AllocaBlocks(h)
  BY <1>3, <1>4, BlocksOf
<1>6. ~h.info[p].marked
  BY <1>1, <1>5 DEF Sound, MarksRight
<1>7. Compatible("alloca", "dealloca")
  BY DEF Compatible
<1> QED BY <1>5, <1>6, <1>7 DEF Freeable, AllocaBlocks, h

\* The program is right to free a block if and only if it is freed, unless it is
\* one of alloca() that another function has.
LEMMA VerdictsRight ==
  ASSUME TypeInv, ScopedInv, Local, HeldInv, NEW t \in Threads,
         NEW p \in Addresses, p \in MayName(t), NEW inside \in BOOLEAN,
         NEW ty \in FREETYPES
  PROVE  LET v == FreeVerdict(t, p, inside, ty)
             h == Checked(t).state
         IN  /\ v = "right" => Freeable(h, p, inside, ty)
             /\ v = "wrong" => ~Freeable(h, p, inside, ty)
             /\ v = "rash" => p \in Blocks(astack)
             /\ v \in {"right", "wrong", "rash"}
<1> DEFINE v == FreeVerdict(t, p, inside, ty)
           h == Checked(t).state
<1>1. Books(h, frames, held, None) /\ Sound(h, mcount) /\ HeldRight(held)
      /\ Freeing(Now, h, IF Nested THEN {} ELSE Over(Now, t))
  BY CheckedBooks, CheckedFacts DEF TypeInv, AllOutcome
<1>2. p # NULL /\ p \notin PendingIn(frames)
  BY BlocksAssumption DEF MayName, Pending, PendingIn
<1>3. ty \in {"free", "dealloca", "delete", "deletevec"}
  BY TypesAssumption
<1>4. Blocks(h.astack) = AllocaBlocks(h) /\ AllocaBlocks(h) \subseteq Blocks(astack)
  <2>1. Blocks(h.astack) = AllocaBlocks(h) /\ Blocks(Now.astack) = AllocaBlocks(Now)
    BY <1>1 DEF TypeInv, Sound, StackRight
  <2>2. AllocaBlocks(h) \subseteq AllocaBlocks(Now)
    <3> HIDE DEF h
    <3> QED BY <1>1 DEF Freeing, AllocaBlocks
  <2> QED BY <2>1, <2>2 DEF Now
<1>5. ASSUME NEW q \in DOMAIN held
      PROVE  /\ h.info[q] = Node(held[q]) /\ q \in Live(h)
             /\ held[q].type \in {"malloc", "new", "newvec"}
  <2>1. Agrees(h, q, held[q]) /\ held[q] \in HeldBlocks
    BY <1>1 DEF Books, AgreesAll, HeldRight
  <2> DEFINE b == held[q]
  <2> HIDE DEF b, h
  <2>2. b.type \in {"malloc", "new", "newvec"}
    BY <2>1 DEF b, HeldBlocks, Kinds
  <2> QED BY <2>1, <2>2 DEF b, Agrees
<1>6. ASSUME p \in Live(h) PROVE p \in DOMAIN held \/ h.info[p].type = "alloca"
  BY <1>1, <1>2, <1>4, <1>6 DEF Books, KeptIn, None, AllocaBlocks
<1>7. CASE v = "right"
  <2>1. CASE ty = "dealloca"
    <3>1. p \in Active(t) /\ inside = FALSE
      BY <1>2, <1>7, <2>1 DEF FreeVerdict
    <3> QED BY <1>7, <2>1, <3>1, ActiveFreeable
  <2>2. CASE ty # "dealloca"
    <3> DEFINE b == held[p]
    <3>1. p \in DOMAIN held /\ ~b.marked /\ ty = FreedBy[b.type] /\ ~inside
      BY <1>2, <1>7, <2>2 DEF FreeVerdict
    <3>2. p \in Live(h) /\ h.info[p] = Node(b) /\ b.type \in {"malloc", "new", "newvec"}
      BY <1>5, <3>1
    <3> HIDE DEF h, b
    <3>3. Compatible(b.type, ty)
      BY <3>1, <3>2 DEF Compatible, FreedBy
    <3>4. Freeable(h, p, inside, ty)
      BY <3>1, <3>2, <3>3 DEF Freeable, Node
    <3> QED BY <1>7, <3>4 DEF h
  <2> QED BY <2>1, <2>2
<1>8. CASE v = "wrong"
  <2> SUFFICES ASSUME Freeable(h, p, inside, ty) PROVE FALSE
    BY <1>8
  <2>1. p \in Live(h) /\ ~inside /\ ~h.info[p].marked /\ Compatible(h.info[p].type, ty)
    BY DEF Freeable
  <2>2. CASE ty = "dealloca"
    <3>1. p \notin Blocks(astack)
      BY <1>2, <1>8, <2>1, <2>2 DEF FreeVerdict
    <3>2. h.info[p].type # "alloca"
      BY <1>4, <2>1, <3>1 DEF AllocaBlocks
    <3> QED BY <2>1, <2>2, <3>2 DEF Compatible
  <2>3. CASE ty # "dealloca"
    <3>1. h.info[p].type # "alloca"
      BY <1>3, <2>1, <2>3 DEF Compatible
    <3>2. p \in DOMAIN held
      BY <1>6, <2>1, <3>1
    <3> DEFINE b == held[p]
    <3>3. h.info[p] = Node(b) /\ b.type \in {"malloc", "new", "newvec"}
      BY <1>5, <3>2
    <3>4. b.marked \/ ty # FreedBy[b.type]
      BY <1>2, <1>8, <2>1, <2>3, <3>2 DEF FreeVerdict
    <3> HIDE DEF b, h
    <3>5. h.info[p].type = b.type /\ h.info[p].marked = b.marked
      BY <3>3 DEF Node
    <3> QED BY <1>3, <2>1, <2>3, <3>3, <3>4, <3>5 DEF Compatible, FreedBy
  <2> QED BY <2>2, <2>3
<1>9. v = "rash" => p \in Blocks(astack)
  BY DEF FreeVerdict
<1>10. v \in {"right", "wrong", "rash"}
  BY DEF FreeVerdict
<1> QED BY <1>7, <1>8, <1>9, <1>10

LEMMA FreeHeld ==
  ASSUME TypeInv, ScopedInv, Local, HeldInv, NEW t \in Threads,
         NEW p \in Addresses \cup {NULL}, NEW inside \in BOOLEAN,
         NEW ty \in FREETYPES, Free(t, p, inside, ty)
  PROVE  HeldInv'
<1>1. PICK r \in Results(mcount) : FreeStep(t, p, inside, ty, r)
  BY FreeSteps
<1> DEFINE v == FreeVerdict(t, p, inside, ty)
           h == Checked(t).state
           g == r.state
           w == IF v = "right" THEN Without(held, p) ELSE held
<1>2. /\ MayCall(t) /\ p \in MayName(t) /\ (inside => p # NULL)
      /\ FreeOutcome(h, mcount, p, inside, ty, r) /\ Now' = g
      /\ outcome' = Outcome(t, r.errors, v)
      /\ held' = w /\ frames' = Waiting
  BY <1>1, CheckedFacts DEF FreeStep
<1>3. Books(h, frames, held, None) /\ Sound(h, mcount) /\ HeldRight(held)
      /\ h \in State /\ g \in State
  BY CheckedBooks, CheckedFacts DEF TypeInv, Sound, Results
<1>4. /\ Books(h, Waiting, held, None) /\ PendingIn(Waiting) = Pending
      /\ Waiting # <<>> => HANDLER
  <2> HIDE DEF h
  <2> QED BY <1>2, <1>3, WaitingBooks
<1>5. CASE p = NULL
  <2>1. ~Freeable(h, p, inside, ty)
    BY <1>3, <1>5, StateFacts, BlocksAssumption DEF Freeable
  <2>2. g = h /\ r.errors = {} /\ v = "right"
    BY <1>2, <1>5, <2>1 DEF FreeOutcome, FreeVerdict
  <2>3. p \notin Live(h)
    BY <1>3, <1>5, StateFacts, BlocksAssumption
  <2>4. Books(Now', frames', held', None)
    <3>1. w = Without(held, p)
      BY <2>2
    <3> HIDE DEF h, w
    <3>2. Books(h, Waiting, w, Just(p))
      BY <1>4, <3>1, BooksWithout
    <3>3. Books(h, Waiting, w, None)
      BY <2>3, <3>2 DEF Books, KeptIn, Just, None
    <3> QED BY <1>2, <2>2, <3>3
  <2>5. ErrorsExact'
    BY <1>2, <2>2 DEF ErrorsExact, ErrorsAreDeserved, MisuseIsReported, Outcome
  <2> QED BY <2>4, <2>5 DEF HeldInv
<1>6. CASE p # NULL
  <2>0. p \in Addresses /\ p \notin PendingIn(Waiting)
    BY <1>2, <1>4, <1>6 DEF MayName
  <2>1. /\ v = "right" => Freeable(h, p, inside, ty)
        /\ v = "wrong" => ~Freeable(h, p, inside, ty)
        /\ v = "rash" => p \in Blocks(astack)
        /\ v \in {"right", "wrong", "rash"}
    BY <1>2, <2>0, VerdictsRight
  <2>2. ErrorsExact'
    <3>1. Freeable(h, p, inside, ty) <=> r.errors = {}
      BY <1>2, <1>6 DEF FreeOutcome
    <3> HIDE DEF v, h
    <3> QED BY <1>2, <2>1, <3>1
            DEF ErrorsExact, ErrorsAreDeserved, MisuseIsReported, Outcome
  <2>3. CASE v = "right"
    <3> DEFINE D == {p}
    <3>1. Freeing(h, g, D)
      BY <1>2, <2>1, <2>3 DEF FreeOutcome
    <3>2. Books(h, Waiting, w, Just(p)) /\ p \notin DOMAIN w
      <4> HIDE DEF h
      <4> QED BY <1>4, <2>3, BooksWithout
    <3>3. D \cap DOMAIN w = {} /\ D \cap PendingIn(Waiting) = {}
          /\ Just(p) \subseteq None \cup D
      BY <2>0, <3>2 DEF Just, None
    <3> HIDE DEF h, g, w, D
    <3>4. Books(g, Waiting, w, None)
      BY <1>3, <3>1, <3>2, <3>3, BooksFreeing
    <3> QED BY <1>2, <2>2, <3>4 DEF HeldInv
  <2>4. CASE v # "right" /\ ~Freeable(h, p, inside, ty)
    <3>1. g = h
      BY <1>2, <2>4 DEF FreeOutcome
    <3>2. Books(Now', frames', held', None)
      BY <1>2, <1>4, <2>4, <3>1
    <3> QED BY <2>2, <3>2 DEF HeldInv
  <2>5. CASE v = "rash" /\ Freeable(h, p, inside, ty)
    <3> DEFINE D == {p}
    <3>1. Freeing(h, g, D)
      BY <1>2, <2>5 DEF FreeOutcome
    <3>2. h.info[p].type = "alloca"
      <4>1. p \in AllocaBlocks(Now) /\ Freeing(Now, h, IF Nested THEN {} ELSE Over(Now, t))
            /\ p \in Live(h)
        BY <2>1, <2>5, CheckedFacts
           DEF TypeInv, Sound, StackRight, AllOutcome, Freeable, Now
      <4> HIDE DEF h
      <4> QED BY <4>1 DEF AllocaBlocks, Freeing
    <3>3. p \notin DOMAIN held
      <4> SUFFICES ASSUME p \in DOMAIN held PROVE FALSE
        OBVIOUS
      <4> DEFINE b == held[p]
      <4>1. Agrees(h, p, b) /\ b \in HeldBlocks
        BY <1>3 DEF Books, AgreesAll, HeldRight
      <4> HIDE DEF b, h
      <4> QED BY <3>2, <4>1 DEF Agrees, Node, HeldBlocks
    <3>4. w = held
      BY <2>5
    <3>5. D \cap DOMAIN held = {} /\ D \cap PendingIn(Waiting) = {}
          /\ None \subseteq None \cup D
      BY <2>0, <3>3
    <3> HIDE DEF h, g, w, D
    <3>6. Books(g, Waiting, held, None)
      BY <1>3, <1>4, <3>1, <3>5, BooksFreeing
    <3> QED BY <1>2, <2>2, <3>4, <3>6 DEF HeldInv
  <2> QED BY <2>1, <2>3, <2>4, <2>5
<1> QED BY <1>5, <1>6

\* A block is marked for the library and for the program at once.
LEMMA BooksMarking ==
  ASSUME NEW h, NEW m, Sound(h, m), NEW s, NEW f, Books(h, s, f, None), NEW p,
         Markable(h, p), p \notin PendingIn(s), NEW g \in State, Marking(h, g, p),
         HeldRight(f), NEW w,
         w = IF p \in DOMAIN f THEN [f EXCEPT ![p].marked = TRUE] ELSE f
  PROVE  Books(g, s, w, None)
<1>1. /\ Live(g) = Live(h) /\ g.astack = h.astack /\ h \in State
      /\ \A q \in Live(h) \ {p} : g.info[q] = h.info[q]
      /\ p \in Live(h) /\ g.info[p] = MarkedNode(h.info[p])
  BY MarkingSound DEF Marking, Markable, Sound, Live
<1>2. DOMAIN w = DOMAIN f /\ \A q \in DOMAIN f \ {p} : w[q] = f[q]
  OBVIOUS
<1>3. p \in DOMAIN f => w[p] = [f[p] EXCEPT !.marked = TRUE]
  OBVIOUS
<1>4. ASSUME NEW q, q # p, NEW b, Agrees(h, q, b) PROVE Agrees(g, q, b)
  BY <1>1, <1>4 DEF Agrees
<1>5. ASSUME NEW q \in DOMAIN w PROVE Agrees(g, q, w[q])
  <2>1. Agrees(h, q, f[q])
    BY <1>2 DEF Books, AgreesAll
  <2>2. CASE q # p
    BY <1>2, <1>4, <2>1, <2>2
  <2>3. CASE q = p
    <3> DEFINE b == f[p]
               e == w[p]
    <3>1. b \in HeldBlocks /\ e = [b EXCEPT !.marked = TRUE] /\ h.info[p] = Node(b)
      BY <1>2, <1>3, <2>1, <2>3 DEF HeldRight, Agrees
    <3> HIDE DEF b, e
    <3>2. e.type = b.type /\ e.size = b.size /\ e.marked = TRUE
      BY <3>1 DEF HeldBlocks
    <3> DEFINE o == [kind |-> "live", type |-> b.type, size |-> b.size,
                     marked |-> TRUE]
    <3>3. Node(e) = o
      BY <3>2, Zenon DEF Node
    <3>4. MarkedNode(Node(b)) = o
      <4> DEFINE u == [kind |-> "live", type |-> b.type, size |-> b.size,
                       marked |-> b.marked]
      <4>1. [u EXCEPT !.marked = TRUE] = o
        <5> DEFINE v == b.marked
                   yes == TRUE
                   type == b.type
                   size == b.size
        <5> HIDE DEF v, yes, type, size
        <5>1. [[kind |-> "live", type |-> type, size |-> size, marked |-> v]
                   EXCEPT !.marked = yes]
                  = [kind |-> "live", type |-> type, size |-> size, marked |-> yes]
          OBVIOUS
        <5> QED BY <5>1, Zenon DEF v, yes, type, size
      <4>2. Node(b) = u
        BY DEF Node
      <4> HIDE DEF u, o
      <4> QED BY <4>1, <4>2 DEF MarkedNode
    <3> HIDE DEF o
    <3> QED BY <1>1, <2>3, <3>1, <3>3, <3>4 DEF Agrees, e
  <2> QED BY <2>2, <2>3
<1>6. AloneAll(g, s, w)
  BY <1>2, <1>4 DEF Books, AloneAll, Alone, PendingIn
<1>7. KeptIn(g, s, w, None)
  BY <1>1, <1>2 DEF Books, KeptIn
<1> QED BY <1>5, <1>6, <1>7 DEF Books, AgreesAll

LEMMA MarkHeld ==
  ASSUME TypeInv, HeldInv, NEW t \in Threads, NEW p \in Addresses, SetMark(t, p)
  PROVE  HeldInv'
<1> DEFINE h == Now
           g == Now'
           w == held'
<1>1. MarkStep(t, p)
  BY MarkSteps
<1>2. /\ Sound(h, mcount) /\ HeldRight(held) /\ MayCall(t) /\ p \in MayName(t)
      /\ Books(h, frames, held, None) /\ frames' = Waiting
      /\ outcome' = Outcome(NULL, {}, "right")
  BY <1>1 DEF TypeInv, HeldInv, MarkStep
<1>3. Books(h, Waiting, held, None) /\ p \notin PendingIn(Waiting)
  <2>1. p \notin Pending
    BY <1>2, BlocksAssumption DEF MayName
  <2> HIDE DEF h
  <2> QED BY <1>2, <2>1, WaitingBooks
<1>4. ErrorsExact'
  BY <1>2 DEF ErrorsExact, ErrorsAreDeserved, MisuseIsReported, Outcome
<1>5. CASE /\ Markable(h, p) /\ g \in State /\ Marking(h, g, p)
           /\ w = IF p \in DOMAIN held THEN [held EXCEPT ![p].marked = TRUE] ELSE held
  <2>1. Books(g, Waiting, w, None)
    <3> HIDE DEF h, g, w
    <3> QED BY <1>2, <1>3, <1>5, BooksMarking
  <2> QED BY <1>2, <1>4, <2>1 DEF HeldInv
<1>6. CASE g = h /\ w = held
  BY <1>2, <1>3, <1>4, <1>6 DEF HeldInv
<1> QED BY <1>1, <1>5, <1>6 DEF MarkStep

LEMMA SameHeld ==
  ASSUME HeldInv, Now' = Now, frames' = frames, held' = held, ErrorsExact'
  PROVE  HeldInv'
  BY DEF HeldInv

LEMMA HeldStep ==
  ASSUME TypeInv, ScopedInv, Local, Proper, HeldInv, [Next]_vars PROVE HeldInv'
<1>1. CASE UNCHANGED vars
  <2>1. Now' = Now /\ frames' = frames /\ held' = held /\ outcome' = outcome
    BY <1>1 DEF vars, Now
  <2>2. ErrorsExact'
    BY <2>1 DEF HeldInv, ErrorsExact, ErrorsAreDeserved, MisuseIsReported
  <2> QED BY <2>1, <2>2, SameHeld
<1>2. ASSUME NEW t \in Threads, NEW l \in SIZES, NEW ty \in NEWTYPES, Alloc(t, l, ty)
      PROVE  HeldInv'
  BY <1>2, AllocHeld
<1>3. ASSUME NEW t \in Threads, NEW p \in Addresses \cup {NULL},
             NEW inside \in BOOLEAN, NEW l \in SIZES, NEW ty \in RESIZETYPES,
             Realloc(t, p, inside, l, ty)
      PROVE  HeldInv'
  BY <1>3, ReallocHeld
<1>4. ASSUME NEW t \in Threads, NEW p \in Addresses \cup {NULL},
             NEW inside \in BOOLEAN, NEW ty \in FREETYPES, Free(t, p, inside, ty)
      PROVE  HeldInv'
  BY <1>4, FreeHeld
<1>5. CASE HandlerReturns
  BY <1>5, HandlerHeld
<1>6. ASSUME NEW t \in Threads, NEW p \in Addresses, SetMark(t, p) PROVE HeldInv'
  BY <1>6, MarkHeld
<1>7. ASSUME outcome' = Outcome(NULL, {}, "right") PROVE ErrorsExact'
  BY <1>7 DEF ErrorsExact, ErrorsAreDeserved, MisuseIsReported, Outcome
<1>8. ASSUME NEW t \in Threads, Return(t) PROVE HeldInv'
  <2>1. Now' = Now /\ frames' = frames /\ held' = held
        /\ outcome' = Outcome(NULL, {}, "right")
    BY <1>8, ReturnTyped DEF Return
  <2> QED BY <1>7, <2>1, SameHeld
<1>9. ASSUME NEW t \in Threads, NEW s \in SITES, Enter(t, s) PROVE HeldInv'
  <2>1. Now' = Now /\ frames' = frames /\ held' = held
        /\ outcome' = Outcome(NULL, {}, "right")
    BY <1>9, EnterTyped DEF Enter
  <2> QED BY <1>7, <2>1, SameHeld
<1> QED BY <1>1, <1>2, <1>3, <1>4, <1>5, <1>6, <1>8, <1>9 DEF Next

LEMMA HeldInit == ASSUME Init PROVE HeldInv
<1> DEFINE h == Now
<1>1. Live(h) = {} /\ frames = <<>> /\ DOMAIN held = {} /\ outcome = Outcome(NULL, {}, "right")
  BY DEF Init, Now, Live
<1> HIDE DEF h
<1>2. Books(h, frames, held, None)
  <2>1. AgreesAll(h, held)
    BY <1>1 DEF AgreesAll
  <2>2. AloneAll(h, frames, held)
    BY <1>1 DEF AloneAll
  <2>3. KeptIn(h, frames, held, None)
    BY <1>1 DEF KeptIn
  <2> QED BY <1>1, <2>1, <2>2, <2>3 DEF Books
<1>3. ErrorsExact
  BY <1>1 DEF ErrorsExact, ErrorsAreDeserved, MisuseIsReported, Outcome
<1> QED BY <1>2, <1>3 DEF HeldInv, h

LEMMA HeldHolds == ASSUME Local, Proper PROVE Spec => []HeldInv
<1>1. Init => HeldInv
  BY HeldInit
<1>2. TypeInv /\ ScopedInv /\ HeldInv /\ [Next]_vars => HeldInv'
  BY HeldStep
<1> QED BY <1>1, <1>2, TypeHolds, ScopedHolds, PTL DEF Spec

LEMMA HeldFromInv == ASSUME TypeInv, HeldInv PROVE HeldIsLive /\ NothingLost
<1> DEFINE h == Now
<1>1. Books(h, frames, held, None) /\ h.info = info /\ Blocks(h.astack) = Blocks(astack)
  BY DEF HeldInv, Now
<1> HIDE DEF h
<1>2. ASSUME NEW p \in DOMAIN held
      PROVE  /\ p \in Live(h)
             /\ info[p] = [kind |-> "live", type |-> held[p].type,
                           size |-> held[p].size, marked |-> held[p].marked]
  BY <1>1 DEF Books, AgreesAll, Agrees, Node
<1>3. HeldIsLive
  BY <1>2 DEF HeldIsLive, h
<1>4. Live(h) \subseteq DOMAIN held \cup Pending \cup Blocks(astack)
  BY <1>1 DEF Books, KeptIn, None, PendingIn, Pending
<1>5. NothingLost
  BY <1>4 DEF NothingLost, h
<1> QED BY <1>3, <1>5

\* What the program holds and what the library knows of agree: a failed call has
\* left a block alone, no call has freed or changed one that it was not given, and
\* no block is lost on any way out of a call, however often it was tried again.
THEOREM BlocksAreExact == ASSUME Local, Proper PROVE Spec => []BlocksExact
<1>1. TypeInv /\ HeldInv => BlocksExact
  BY TypeFromInv, BooksFromInv, HeldFromInv DEF BlocksExact
<1> QED BY <1>1, TypeHolds, HeldHolds, PTL

\* Errors are reported if and only if they have been made: of each call that the
\* program was wrong to make, and of none that it was right to make.
THEOREM ErrorsAreExact == ASSUME Local, Proper PROVE Spec => []ErrorsExact
<1>1. HeldInv => ErrorsExact
  BY DEF HeldInv
<1> QED BY <1>1, HeldHolds, PTL
=============================================================================
