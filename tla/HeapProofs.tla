----------------------------- MODULE HeapProofs -----------------------------
(***************************************************************************)
(* Proofs about the allocation manager (Alloc.tla) for every page size,    *)
(* overflow size, flag, heap and bound: that it keeps its numbers in their *)
(* types, loses no node, and keeps the heap in order.                      *)
(***************************************************************************)
EXTENDS Alloc, SequenceTheorems, SumProofs


Size == 0..WORD - 1
NodeType == [block : Size, size : Size, kind : {"free", "alloc", "freed"}]
Table == [free : Nat, chunks : 0..CHUNKS]
Content == [Bytes -> {"zero", "user", "free", "over"}]
Protection == [HEAPPAGES -> {"rw", "ro", "none"}]

\* What the parts of an operation work on.
State == [list : Seq(NodeType), gsize : Size, fsize : Size, table : Table,
          mem : Content, access : Protection, watch : SUBSET Int]

\* The nodes of a table that are taken by others than itself, negated.
Slack(t) == t.free + t.chunks - SLOTS * t.chunks

\* Nodes in the list and in the table together.
Account(h) == Slack(h.table) + Len(h.list)

-----------------------------------------------------------------------------
(***************************************************************************)
(* Arithmetic                                                              *)
(***************************************************************************)
LEMMA WordFacts ==
    /\ WORD \in Nat /\ PAGE \in Nat /\ PAGE > 0 /\ WORD > PAGE
    /\ ALIGN \in 1..PAGE /\ Oflow \in Int
    /\ 0 \in Size /\ 1 \in Size /\ SIZES \subseteq Size
    /\ \A a \in ALIGNS : Alignment(a) \in 1..PAGE
    /\ HEAPPAGES \subseteq Size
  BY SizesAssumption, HeapAssumption DEF Size

LEMMA WrapSize == ASSUME NEW n \in Int PROVE Wrap(n) \in Size
  BY WordFacts DEF Wrap, Size

LEMMA RoundUpSize ==
  ASSUME NEW n \in Int, NEW a \in Nat, a > 0 PROVE RoundUp(n, a) \in Size
<1>1. n + ((-n) % a) \in Int
  OBVIOUS
<1> QED BY <1>1, WrapSize DEF RoundUp

LEMMA RoundDownInt ==
  ASSUME NEW n \in Int, NEW a \in Nat, a > 0 PROVE RoundDown(n, a) \in Int
  BY DEF RoundDown

\* The memory of a node is bounded by integers.
LEMMA NodeBounds ==
  ASSUME NEW n \in NodeType
  PROVE  /\ Base(n) \in Int /\ Span(n) \in Int
         /\ Low(n) \in Int /\ High(n) \in Int
         /\ n.block \in Int /\ n.size \in Int
<1>1. n.block \in Int /\ n.size \in Int
  BY WordFacts DEF NodeType, Size
<1>2. Base(n) \in Int
  BY <1>1, WordFacts, RoundDownInt DEF Base
<1>3. Span(n) \in Int
  <2>1. RoundUp(n.size + (n.block - Base(n)), PAGE) \in Size
    BY <1>1, <1>2, WordFacts, RoundUpSize
  <2> QED BY <1>1, <2>1 DEF Span, Size
<1> QED BY <1>1, <1>2, <1>3, WordFacts DEF Low, High

LEMMA NodeIsTyped ==
  ASSUME NEW b \in Size, NEW s \in Size, NEW k \in {"free", "alloc", "freed"}
  PROVE  Node(k, b, s) \in NodeType
  BY DEF Node, NodeType

-----------------------------------------------------------------------------
(***************************************************************************)
(* The list                                                                *)
(***************************************************************************)
LEMMA ConcatThree ==
  ASSUME NEW S, NEW x \in Seq(S), NEW y \in Seq(S), NEW z \in Seq(S)
  PROVE  /\ x \o y \o z \in Seq(S)
         /\ Len(x \o y \o z) = Len(x) + Len(y) + Len(z)
<1>1. x \o y \in Seq(S) /\ Len(x \o y) = Len(x) + Len(y)
  OBVIOUS
<1> QED BY <1>1

LEMMA SpliceFacts ==
  ASSUME NEW S, NEW L \in Seq(S), NEW new \in Seq(S),
         NEW i \in Nat, NEW j \in Nat,
         1 <= i, i <= j + 1, j <= Len(L)
  PROVE  /\ Splice(L, i, j, new) \in Seq(S)
         /\ Len(Splice(L, i, j, new)) = Len(L) - (j - i + 1) + Len(new)
<1>1. /\ SubSeq(L, 1, i - 1) \in Seq(S)
      /\ Len(SubSeq(L, 1, i - 1)) = i - 1
  BY SubSeqProperties
<1>2. /\ SubSeq(L, j + 1, Len(L)) \in Seq(S)
      /\ Len(SubSeq(L, j + 1, Len(L))) = Len(L) - j
  BY SubSeqProperties
<1>3. Len(L) \in Nat /\ Len(new) \in Nat
  OBVIOUS
<1> DEFINE left == Len(SubSeq(L, 1, i - 1))
           right == Len(SubSeq(L, j + 1, Len(L)))
<1>4. /\ Splice(L, i, j, new) \in Seq(S)
      /\ Len(Splice(L, i, j, new)) = left + Len(new) + right
  BY <1>1, <1>2, ConcatThree DEF Splice
<1>5. left = i - 1 /\ right = Len(L) - j
  BY <1>1, <1>2
<1> HIDE DEF left, right
<1> QED BY <1>3, <1>4, <1>5

LEMMA SpliceOne ==
  ASSUME NEW S, NEW L \in Seq(S), NEW e \in S, NEW i \in Nat, NEW j \in Nat,
         1 <= i, i <= j + 1, j <= Len(L)
  PROVE  /\ Splice(L, i, j, <<e>>) \in Seq(S)
         /\ Len(Splice(L, i, j, <<e>>)) = Len(L) - (j - i)
<1>1. PICK one \in Seq(S) : one = <<e>> /\ Len(one) = 1
  <2>1. <<e>> \in Seq(S) /\ Len(<<e>>) = 1
    OBVIOUS
  <2> QED BY <2>1, Zenon
<1>2. Splice(L, i, j, one) \in Seq(S)
  BY SpliceFacts
<1>3. Len(Splice(L, i, j, one)) = Len(L) - (j - i + 1) + Len(one)
  BY SpliceFacts
<1>4. Len(L) \in Nat
  OBVIOUS
<1>5. Len(Splice(L, i, j, one)) = Len(L) - (j - i)
  BY <1>1, <1>3, <1>4
<1> QED BY <1>1, <1>2, <1>5

\* Merging makes the list shorter by the nodes whose slots it gives back.
LEMMA MergeFacts ==
  ASSUME NEW L \in Seq(NodeType), NEW i \in 1..Len(L)
  PROVE  /\ MergeNode(L, i).list \in Seq(NodeType)
         /\ MergeNode(L, i).slots \in Nat
         /\ Len(MergeNode(L, i).list) + MergeNode(L, i).slots = Len(L)
         /\ MergeNode(L, i).node \in 1..Len(MergeNode(L, i).list)
<1> DEFINE first == IF Bordering(L, i - 1) THEN i - 1 ELSE i
           last  == IF Bordering(L, i) THEN i + 1 ELSE i
           before == IF first < i THEN L[first].size ELSE 0
           after  == IF last > i THEN L[last].size ELSE 0
           whole == Node("free", L[first].block,
                         Wrap(before + L[i].size + after))
<1>1. /\ first \in Nat /\ last \in Nat
      /\ 1 <= first /\ first <= i /\ i <= last /\ last <= Len(L)
  BY DEF Bordering
<1>2. before \in Int /\ L[i].size \in Int /\ after \in Int
  <2> HIDE DEF first, last
  <2>1. \A k \in 1..Len(L) : L[k].size \in Int
    BY NodeBounds
  <2> QED BY <1>1, <2>1
<1>3. whole \in NodeType
  <2>1. L[first] \in NodeType
    BY <1>1
  <2>2. L[first].block \in Size
    BY <2>1 DEF NodeType
  <2>3. Wrap(before + L[i].size + after) \in Size
    BY <1>2, WrapSize
  <2> HIDE DEF before, after, first
  <2> QED BY <2>2, <2>3, NodeIsTyped
<1>4. MergeNode(L, i) = [list |-> Splice(L, first, last, <<whole>>),
                         node |-> first, slots |-> last - first]
  BY DEF MergeNode
<1> HIDE DEF first, last, whole
<1>5. first <= last + 1
  BY <1>1
<1>6. Splice(L, first, last, <<whole>>) \in Seq(NodeType)
  BY <1>1, <1>3, <1>5, SpliceOne
<1>7. Len(Splice(L, first, last, <<whole>>)) = Len(L) - (last - first)
  BY <1>1, <1>3, <1>5, SpliceOne
<1>8. Len(L) \in Nat
  OBVIOUS
<1> QED BY <1>1, <1>4, <1>6, <1>7, <1>8

-----------------------------------------------------------------------------
(***************************************************************************)
(* The slot table                                                          *)
(***************************************************************************)
LEMMA SlackSum ==
  ASSUME NEW c \in Nat PROVE SLOTS * (c + 1) = SLOTS * c + SLOTS
  BY BoundsAssumption

LEMMA FreeSlotsFacts ==
  ASSUME NEW t \in Table, NEW n \in Nat
  PROVE  FreeSlots(t, n) \in Table /\ Slack(FreeSlots(t, n)) = Slack(t) + n
<1>1. /\ FreeSlots(t, n) = [free |-> t.free + n, chunks |-> t.chunks]
      /\ t.free \in Nat /\ t.chunks \in 0..CHUNKS
  BY DEF FreeSlots, Table
<1>2. SLOTS * t.chunks \in Int
  BY <1>1, BoundsAssumption
<1> QED BY <1>1, <1>2 DEF Slack, Table

LEMMA GetNodeFacts ==
  ASSUME NEW t \in Table, NEW r \in GetNode(t)
  PROVE  r \in Table /\ Slack(r) = Slack(t) - 1
<1>1. t.free \in Nat /\ t.chunks \in 0..CHUNKS /\ CHUNKS \in Nat
  BY BoundsAssumption DEF Table
<1>2. SLOTS \in Nat /\ SLOTS >= 2 /\ SLOTS * t.chunks \in Int
  BY <1>1, BoundsAssumption
<1>3. CASE t.free > 0
  <2>1. r = [free |-> t.free - 1, chunks |-> t.chunks]
    BY <1>3 DEF GetNode, Table
  <2> QED BY <1>1, <1>2, <1>3, <2>1 DEF Slack, Table
<1>4. CASE ~(t.free > 0)
  <2>1. t.chunks < CHUNKS /\ r = [free |-> SLOTS - 2, chunks |-> t.chunks + 1]
    BY <1>4 DEF GetNode
  <2>2. t.chunks + 1 \in 0..CHUNKS /\ t.free = 0
    BY <1>1, <1>4, <2>1
  <2>3. SLOTS * (t.chunks + 1) = SLOTS * t.chunks + SLOTS
    BY <1>1, SlackSum
  <2> QED BY <1>1, <1>2, <2>1, <2>2, <2>3 DEF Slack, Table
<1> QED BY <1>3, <1>4

LEMMA TwoNodesFacts ==
  ASSUME NEW t \in Table, NEW r \in TwoNodes(t)
  PROVE  r \in Table /\ Slack(r) = Slack(t) - 2
<1>1. PICK p \in GetNode(t) : r \in GetNode(p)
  BY DEF TwoNodes
<1>2. p \in Table /\ Slack(p) = Slack(t) - 1
  BY <1>1, GetNodeFacts
<1>3. r \in Table /\ Slack(r) = Slack(p) - 1
  BY <1>1, <1>2, GetNodeFacts
<1>4. Slack(t) \in Int
  BY BoundsAssumption DEF Slack, Table
<1> QED BY <1>2, <1>3, <1>4

LEMMA TwoNodesFailFacts ==
  ASSUME NEW t \in Table, NEW r \in TwoNodesFail(t)
  PROVE  r \in Table /\ Slack(r) = Slack(t)
<1>1. CASE r = t
  BY <1>1
<1>2. CASE \E p \in GetNode(t) : r = FreeSlots(p, 1)
  <2>1. PICK p \in GetNode(t) : r = FreeSlots(p, 1)
    BY <1>2
  <2>2. p \in Table /\ Slack(p) = Slack(t) - 1
    BY <2>1, GetNodeFacts
  <2>3. r \in Table /\ Slack(r) = Slack(p) + 1
    BY <2>1, <2>2, FreeSlotsFacts
  <2>4. Slack(t) \in Int
    BY BoundsAssumption DEF Slack, Table
  <2> QED BY <2>2, <2>3, <2>4
<1> QED BY <1>1, <1>2 DEF TwoNodesFail

-----------------------------------------------------------------------------
(***************************************************************************)
(* Memory                                                                  *)
(***************************************************************************)
LEMMA FillFacts ==
  ASSUME NEW m \in Content, NEW area,
         NEW byte \in {"zero", "user", "free", "over"}
  PROVE  Fill(m, area, byte) \in Content /\ FillOver(m, area) \in Content
  BY DEF Fill, FillOver, Content

LEMMA ProtectFacts ==
  ASSUME NEW ac \in Protection, NEW b, NEW s, NEW a \in {"rw", "ro", "none"}
  PROVE  Protect(ac, b, s, a) \in Protection
  BY DEF Protect, Protection

LEMMA RunIsInt == ASSUME NEW b, NEW s PROVE Run(b, s) \subseteq Int
  BY DEF Run

LEMMA WatchFacts ==
  ASSUME NEW w \in SUBSET Int, NEW n, NEW k
  PROVE  /\ WatchOver(w, OverArea(n)) \in SUBSET Int
         /\ WatchOver(w \ AreaAfter(k), AreaAfter(n)) \in SUBSET Int
         /\ w \ OverArea(n) \in SUBSET Int
<1>1. AreaBefore(n) \subseteq Int
  BY RunIsInt DEF AreaBefore
<1>2. AreaAfter(n) \subseteq Int
  BY RunIsInt DEF AreaAfter
<1> QED BY <1>1, <1>2 DEF OverArea, WatchOver

-----------------------------------------------------------------------------
(***************************************************************************)
(* The parts of an operation                                               *)
(***************************************************************************)
\* A free piece is one node or none.
LEMMA PieceFacts ==
  ASSUME NEW q \in Int, NEW m \in Size
  PROVE  LET p == IF m = 0 THEN <<>> ELSE <<Node("free", Wrap(q), m)>>
         IN  p \in Seq(NodeType) /\ Len(p) <= 1
<1>1. CASE m = 0
  BY <1>1
<1>2. CASE m # 0
  <2>1. Node("free", Wrap(q), m) \in NodeType
    BY WrapSize, NodeIsTyped
  <2> QED BY <1>2, <2>1
<1> QED BY <1>1, <1>2

LEMMA PiecesFacts ==
  ASSUME NEW n \in NodeType, NEW l \in Size, NEW a \in 1..PAGE
  PROVE  \E x \in Seq(NodeType), e \in NodeType, y \in Seq(NodeType), u \in Int :
           /\ Pieces(n, l, a) =
                [left |-> x, block |-> e, right |-> y, unused |-> u]
           /\ Len(x) <= 1 /\ Len(y) <= 1
<1> DEFINE b == Wrap(n.block + Oflow)
           z == Wrap(n.size - 2 * Oflow)
           gap == Gap(b, a)
           s == IF PAGEALLOC THEN RoundUp(l, PAGE) ELSE l
           rest == Wrap(z - gap - s)
           up == Shift(Wrap(s - l), a)
           FreeNode(q, m) ==
             IF m = 0 THEN <<>> ELSE <<Node("free", Wrap(q), m)>>
<1>1. n.block \in Int /\ n.size \in Int /\ Oflow \in Int /\ l \in Int
  BY NodeBounds, WordFacts DEF Size
<1>2. b \in Size /\ z \in Size
  BY <1>1, WrapSize
<1>3. b \in Int /\ z \in Int /\ a \in Nat /\ a > 0
  BY <1>2, WordFacts DEF Size
<1> HIDE DEF b, z
<1>4. gap \in Size
  <2>1. RoundUp(b, a) \in Int
    BY <1>3, RoundUpSize, WordFacts DEF Size
  <2>2. Wrap(RoundUp(b, a) - b) \in Size
    BY <1>3, <2>1, WrapSize
  <2> QED BY <2>2, WordFacts DEF Gap
<1>5. s \in Size
  BY <1>1, RoundUpSize, WordFacts
<1>6. gap \in Int /\ s \in Int
  BY <1>4, <1>5, WordFacts DEF Size
<1> HIDE DEF gap, s
<1>7. rest \in Size /\ rest \in Int
  <2>1. rest \in Size
    BY <1>3, <1>6, WrapSize
  <2> QED BY <2>1, WordFacts DEF Size
<1>8. up \in Int
  <2>1. Wrap(s - l) \in Size
    BY <1>1, <1>6, WrapSize
  <2>2. Wrap(s - l) \in Int
    BY <2>1, WordFacts DEF Size
  <2> QED BY <1>3, <2>2, RoundDownInt DEF Shift
<1> HIDE DEF rest, up
<1>9. Node("alloc", Wrap(b + gap + up), l) \in NodeType
  <2>1. Wrap(b + gap + up) \in Size
    BY <1>3, <1>6, <1>8, WrapSize
  <2> QED BY <2>1, NodeIsTyped
<1>10. /\ FreeNode(b - Oflow, gap) \in Seq(NodeType)
       /\ Len(FreeNode(b - Oflow, gap)) <= 1
  <2>1. b - Oflow \in Int
    BY <1>1, <1>3
  <2> QED BY <1>4, <2>1, PieceFacts
<1>11. /\ FreeNode(b + gap + s + Oflow, rest) \in Seq(NodeType)
       /\ Len(FreeNode(b + gap + s + Oflow, rest)) <= 1
  <2>1. b + gap + s + Oflow \in Int
    BY <1>1, <1>3, <1>6
  <2> QED BY <1>7, <2>1, PieceFacts
<1>12. Pieces(n, l, a) =
         [left  |-> FreeNode(b - Oflow, gap),
          block |-> Node("alloc", Wrap(b + gap + up), l),
          right |-> FreeNode(b + gap + s + Oflow, rest),
          unused |-> gap + rest]
  BY DEF Pieces, b, z, gap, s, rest, up
<1> HIDE DEF FreeNode
<1>13. gap + rest \in Int
  BY <1>6, <1>7
<1> QED BY <1>9, <1>10, <1>11, <1>12, <1>13, Zenon

\* Releasing a block keeps the account.
LEMMA ReleasedFacts ==
  ASSUME NEW h \in State, NEW i \in 1..Len(h.list)
  PROVE  /\ Released(h, i) \in State
         /\ Account(Released(h, i)) = Account(h)
<1> DEFINE n == h.list[i]
           b == Wrap(Low(n))
           s == Wrap(High(n) - Low(n))
           L == [h.list EXCEPT ![i] = Node("free", b, s)]
           new == MergeNode(L, i)
<1>1. /\ h.list \in Seq(NodeType) /\ h.gsize \in Size /\ h.fsize \in Size
      /\ h.table \in Table /\ h.mem \in Content /\ h.access \in Protection
      /\ h.watch \in SUBSET Int
  BY DEF State
<1>2. n \in NodeType
  BY <1>1
<1>3. /\ Low(n) \in Int /\ High(n) \in Int /\ n.size \in Int
      /\ h.gsize \in Int /\ h.fsize \in Int
  <2>1. Low(n) \in Int /\ High(n) \in Int /\ n.size \in Int
    <3> HIDE DEF n
    <3> QED BY <1>2, NodeBounds
  <2>2. h.gsize \in Int /\ h.fsize \in Int
    BY <1>1, WordFacts DEF Size
  <2> QED BY <2>1, <2>2
<1>4. b \in Size /\ s \in Size /\ s \in Int
  <2>1. b \in Size /\ s \in Size
    BY <1>3, WrapSize
  <2> QED BY <2>1, WordFacts DEF Size
<1>5. L \in Seq(NodeType) /\ Len(L) = Len(h.list)
  <2>1. Node("free", b, s) \in NodeType
    BY <1>4, NodeIsTyped
  <2> HIDE DEF b, s
  <2> QED BY <1>1, <2>1
<1>6. /\ new.list \in Seq(NodeType) /\ new.slots \in Nat
      /\ Len(new.list) + new.slots = Len(L)
  <2> HIDE DEF L
  <2>1. i \in 1..Len(L)
    BY <1>5
  <2> QED BY <1>5, <2>1, MergeFacts
<1>7. /\ FreeSlots(h.table, new.slots) \in Table
      /\ Slack(FreeSlots(h.table, new.slots)) = Slack(h.table) + new.slots
  <2> HIDE DEF new
  <2> QED BY <1>1, <1>6, FreeSlotsFacts
<1> HIDE DEF n, b, s, L, new
<1>8. Wrap(h.gsize - n.size) \in Size /\ Wrap(h.fsize + s) \in Size
  BY <1>3, <1>4, WrapSize
<1>9. /\ Fill(h.mem, Run(b, s), "free") \in Content
      /\ Protect(h.access, n.block, n.size, "none") \in Protection
      /\ h.watch \ OverArea(n) \in SUBSET Int
  BY <1>1, FillFacts, ProtectFacts, WatchFacts
<1>10. Released(h, i) =
        [list   |-> new.list,
         gsize  |-> IF n.kind = "freed" THEN Wrap(h.gsize - n.size) ELSE h.gsize,
         fsize  |-> Wrap(h.fsize + s),
         table  |-> FreeSlots(h.table, new.slots),
         mem    |-> IF PAGEALLOC THEN h.mem ELSE Fill(h.mem, Run(b, s), "free"),
         access |-> IF PAGEALLOC THEN Protect(h.access, n.block, n.size, "none")
                    ELSE h.access,
         watch  |-> h.watch \ OverArea(n)]
  BY DEF Released, n, b, s, L, new
<1>11. Released(h, i) \in State
  BY <1>1, <1>6, <1>7, <1>8, <1>9, <1>10 DEF State
<1>12. Slack(h.table) \in Int
  BY <1>1, BoundsAssumption DEF Slack, Table
<1>13. Account(Released(h, i)) = Account(h)
  BY <1>1, <1>5, <1>6, <1>7, <1>10, <1>12 DEF Account
<1> QED BY <1>11, <1>13

LEMMA BecomesFacts ==
  ASSUME NEW h \in State, Becomes(h)
  PROVE  Now' \in State /\ Account(Now)' = Account(h)
  BY DEF Becomes, Now, State, Account

\* A node gives way to another one with nodes to its left and right.
LEMMA SpliceAround ==
  ASSUME NEW S, NEW L \in Seq(S), NEW x \in Seq(S), NEW e \in S,
         NEW y \in Seq(S), NEW i \in 1..Len(L)
  PROVE  /\ Splice(L, i, i, x \o <<e>> \o y) \in Seq(S)
         /\ Len(Splice(L, i, i, x \o <<e>> \o y)) = Len(L) + Len(x) + Len(y)
<1>1. <<e>> \in Seq(S) /\ Len(<<e>>) = 1
  OBVIOUS
<1>2. PICK all \in Seq(S) :
        /\ all = x \o <<e>> \o y
        /\ Len(all) = Len(x) + 1 + Len(y)
  <2>1. /\ x \o <<e>> \o y \in Seq(S)
        /\ Len(x \o <<e>> \o y) = Len(x) + Len(<<e>>) + Len(y)
    BY <1>1, ConcatThree
  <2> QED BY <1>1, <2>1, Zenon
<1>3. i \in Nat /\ 1 <= i /\ i <= i + 1 /\ i <= Len(L)
  OBVIOUS
<1>4. Splice(L, i, i, all) \in Seq(S)
  BY <1>3, SpliceFacts
<1>5. Len(Splice(L, i, i, all)) = Len(L) - (i - i + 1) + Len(all)
  BY <1>3, SpliceFacts
<1>6. Len(L) \in Nat /\ Len(x) \in Nat /\ Len(y) \in Nat
  OBVIOUS
<1>7. Len(Splice(L, i, i, all)) = Len(L) + Len(x) + Len(y)
  BY <1>2, <1>3, <1>5, <1>6
<1> QED BY <1>2, <1>4, <1>7

\* splitnode() takes two slots and uses or returns them.
LEMMA SplitNodeFacts ==
  ASSUME NEW h \in State, NEW i \in 1..Len(h.list), NEW l \in Size,
         NEW a \in 1..PAGE, NEW asked, asize \in Size,
         SplitNode(h, i, l, a, asked)
  PROVE  /\ Now' \in State /\ Account(Now)' = Account(h)
         /\ asize' \in Size
<1>1. /\ h.list \in Seq(NodeType) /\ h.gsize \in Size /\ h.fsize \in Size
      /\ h.table \in Table /\ h.mem \in Content /\ h.access \in Protection
      /\ h.watch \in SUBSET Int /\ h.list[i] \in NodeType
  BY DEF State
<1>2. PICK x \in Seq(NodeType), blk \in NodeType, y \in Seq(NodeType), u \in Int :
        /\ Pieces(h.list[i], l, a) =
             [left |-> x, block |-> blk, right |-> y, unused |-> u]
        /\ Len(x) <= 1 /\ Len(y) <= 1
  <2>1. h.list[i] \in NodeType
    BY <1>1
  <2> QED BY <2>1, PiecesFacts
<1> DEFINE spare == 2 - Len(x) - Len(y)
           all == x \o <<blk>> \o y
           After(t) ==
             [list   |-> Splice(h.list, i, i, all),
              gsize  |-> h.gsize,
              fsize  |-> Wrap(h.fsize - h.list[i].size + u),
              table  |-> FreeSlots(t, spare),
              mem    |-> Fill(FillOver(h.mem, OverArea(blk)),
                              Run(blk.block, asked), "user"),
              access |-> IF PAGEALLOC
                         THEN Protect(h.access, Base(blk), Span(blk), "rw")
                         ELSE h.access,
              watch  |-> WatchOver(h.watch, OverArea(blk))]
<1>3. PICK t \in TwoNodes(h.table) : Becomes(After(t))
  BY <1>2 DEF SplitNode
<1>4. asize' = Wrap(asize + blk.size)
  BY <1>2 DEF SplitNode
<1>5. spare \in Nat
  <2>1. Len(x) <= 1 /\ Len(y) <= 1
    BY <1>2, Zenon
  <2> QED BY <2>1
<1>6. Len(h.list) \in Nat /\ Len(x) \in Nat /\ Len(y) \in Nat
  BY <1>1
<1>7. Splice(h.list, i, i, all) \in Seq(NodeType)
  BY <1>1, SpliceAround
<1>8. Len(Splice(h.list, i, i, all)) = Len(h.list) + 2 - spare
  <2> DEFINE new == Len(Splice(h.list, i, i, all))
             old == Len(h.list)
             left == Len(x)
             right == Len(y)
  <2>1. new = old + left + right
    BY <1>1, SpliceAround
  <2>2. spare = 2 - left - right
    OBVIOUS
  <2>3. old \in Nat /\ left \in Nat /\ right \in Nat
    BY <1>6
  <2> HIDE DEF new, old, left, right, spare
  <2>4. new = old + 2 - spare
    BY <2>1, <2>2, <2>3
  <2> QED BY <2>4 DEF new, old
<1> HIDE DEF all
<1> HIDE DEF spare
<1>10. t \in Table /\ Slack(t) = Slack(h.table) - 2
  BY <1>1, <1>3, TwoNodesFacts
<1>11. /\ FreeSlots(t, spare) \in Table
       /\ Slack(FreeSlots(t, spare)) = Slack(t) + spare
  BY <1>5, <1>10, FreeSlotsFacts
<1>12. /\ Fill(FillOver(h.mem, OverArea(blk)), Run(blk.block, asked), "user")
            \in Content
       /\ Protect(h.access, Base(blk), Span(blk), "rw") \in Protection
       /\ WatchOver(h.watch, OverArea(blk)) \in SUBSET Int
  BY <1>1, FillFacts, ProtectFacts, WatchFacts
<1>13. /\ h.fsize \in Int /\ h.list[i].size \in Int /\ asize \in Int
       /\ blk.size \in Int
  <2>1. h.list[i].size \in Int
    BY <1>1, NodeBounds
  <2>2. blk.size \in Int
    BY NodeBounds
  <2> QED BY <1>1, <2>1, <2>2, WordFacts DEF Size
<1>14. /\ Wrap(h.fsize - h.list[i].size + u) \in Size
       /\ Wrap(asize + blk.size) \in Size
  <2>1. h.fsize - h.list[i].size + u \in Int
    BY <1>13
  <2>2. asize + blk.size \in Int
    BY <1>13
  <2>3. Wrap(h.fsize - h.list[i].size + u) \in Size
    BY <2>1, WrapSize, Zenon
  <2>4. Wrap(asize + blk.size) \in Size
    BY <2>2, WrapSize, Zenon
  <2> QED BY <2>3, <2>4
<1>15. After(t) \in State
  BY <1>1, <1>7, <1>11, <1>12, <1>14 DEF State
<1>16. Account(After(t)) = Account(h)
  <2>1. Slack(h.table) \in Int
    BY <1>1, BoundsAssumption DEF Slack, Table
  <2>2. Account(After(t)) = Slack(FreeSlots(t, spare))
                              + Len(Splice(h.list, i, i, all))
    BY DEF Account
  <2>3. Account(h) = Slack(h.table) + Len(h.list)
    BY DEF Account
  <2> HIDE DEF After
  <2> QED BY <1>5, <1>6, <1>8, <1>10, <1>11, <2>1, <2>2, <2>3
<1> HIDE DEF After
<1>17. Now' \in State /\ Account(Now)' = Account(After(t))
  BY <1>3, <1>15, BecomesFacts
<1> QED BY <1>4, <1>14, <1>16, <1>17

LEMMA SplitFailsFacts ==
  ASSUME NEW h \in State, asize \in Size, SplitFails(h)
  PROVE  /\ Now' \in State /\ Account(Now)' = Account(h)
         /\ asize' \in Size
<1>1. PICK t \in TwoNodesFail(h.table) : Becomes([h EXCEPT !.table = t])
  BY DEF SplitFails
<1>2. t \in Table /\ Slack(t) = Slack(h.table)
  <2>1. h.table \in Table
    BY DEF State
  <2> QED BY <1>1, <2>1, TwoNodesFailFacts
<1>3. /\ [h EXCEPT !.table = t] \in State
      /\ Account([h EXCEPT !.table = t]) = Account(h)
  BY <1>2 DEF State, Account
<1>4. asize' \in Size
  BY DEF SplitFails
<1> QED BY <1>1, <1>3, <1>4, BecomesFacts

LEMMA SearchFromFacts ==
  ASSUME NEW p, Len(list) \in Nat PROVE SearchFrom(p) \in 0..Len(list)
<1> DEFINE lower == IF SearchLower("alloc", p) # {} THEN SearchLower("alloc", p)
                    ELSE SearchLower("freed", p)
<1>1. lower \subseteq 1..Len(list)
  BY DEF SearchLower
<1>2. SearchFrom(p) = IF lower = {} THEN 0 ELSE CHOOSE i \in lower : TRUE
  BY DEF SearchFrom
<1> HIDE DEF lower
<1>3. CASE lower = {}
  BY <1>2, <1>3
<1>4. CASE lower # {}
  <2>1. SearchFrom(p) \in lower
    BY <1>2, <1>4
  <2>2. SearchFrom(p) \in 1..Len(list)
    BY <1>1, <2>1
  <2> HIDE DEF lower
  <2> QED BY <2>2
<1> QED BY <1>3, <1>4

\* New memory takes one slot for its node, less those of nodes merged with it.
LEMMA ExtendedFacts ==
  ASSUME Now \in State, NEW t \in GetNode(table), NEW p \in Size,
         NEW at \in 0..Len(list), NEW size \in Size
  PROVE  /\ ExtendedState(t, at, p, size) \in State
         /\ Account(ExtendedState(t, at, p, size)) = Account(Now)
         /\ Extended(at, p, size).node
                \in 1..Len(ExtendedState(t, at, p, size).list)
<1> DEFINE L == Splice(list, at + 1, at, <<Node("free", p, size)>>)
           new == MergeNode(L, at + 1)
<1>1. /\ list \in Seq(NodeType) /\ gsize \in Size /\ fsize \in Size
      /\ table \in Table /\ mem \in Content /\ access \in Protection
      /\ watch \in SUBSET Int
  BY DEF State, Now
<1>2. Node("free", p, size) \in NodeType
  BY NodeIsTyped
<1>3. /\ at + 1 \in Nat /\ at \in Nat /\ 1 <= at + 1 /\ at + 1 <= at + 1
      /\ at <= Len(list) /\ Len(list) \in Nat
  BY <1>1
<1>4. L \in Seq(NodeType)
  BY <1>1, <1>2, <1>3, SpliceOne
<1>5. Len(L) = Len(list) + 1
  <2>1. Len(L) = Len(list) - (at - (at + 1))
    BY <1>1, <1>2, <1>3, SpliceOne
  <2> HIDE DEF L
  <2> QED BY <1>3, <2>1
<1> HIDE DEF L
<1>6. at + 1 \in 1..Len(L)
  BY <1>3, <1>5
<1>7. /\ new.list \in Seq(NodeType) /\ new.slots \in Nat
      /\ Len(new.list) + new.slots = Len(L)
      /\ new.node \in 1..Len(new.list)
  BY <1>4, <1>6, MergeFacts
<1>8. t \in Table /\ Slack(t) = Slack(table) - 1
  BY <1>1, GetNodeFacts
<1>9. /\ FreeSlots(t, new.slots) \in Table
      /\ Slack(FreeSlots(t, new.slots)) = Slack(t) + new.slots
  <2> HIDE DEF new
  <2> QED BY <1>7, <1>8, FreeSlotsFacts
<1>10. Wrap(fsize + size) \in Size
  <2>1. fsize + size \in Int
    BY <1>1, WordFacts DEF Size
  <2> QED BY <2>1, WrapSize
<1>11. Extended(at, p, size) = new
  BY DEF Extended, L, new
<1> HIDE DEF new
<1>12. ExtendedState(t, at, p, size) =
        [list |-> new.list, gsize |-> gsize, fsize |-> Wrap(fsize + size),
         table |-> FreeSlots(t, new.slots),
         mem |-> IF PAGEALLOC THEN mem ELSE Fill(mem, Run(p, size), "free"),
         access |-> IF PAGEALLOC THEN Protect(access, p, size, "none")
                    ELSE access,
         watch |-> watch]
  BY <1>11 DEF ExtendedState
<1>13. /\ Fill(mem, Run(p, size), "free") \in Content
       /\ Protect(access, p, size, "none") \in Protection
  BY <1>1, FillFacts, ProtectFacts
<1>14. ExtendedState(t, at, p, size) \in State
  BY <1>1, <1>7, <1>9, <1>10, <1>12, <1>13 DEF State
<1>15. Account(ExtendedState(t, at, p, size)) = Account(Now)
  <2>1. Slack(table) \in Int
    BY <1>1, BoundsAssumption DEF Slack, Table
  <2>2. Account(ExtendedState(t, at, p, size))
            = Slack(FreeSlots(t, new.slots)) + Len(new.list)
    BY <1>12 DEF Account
  <2>3. Account(Now) = Slack(table) + Len(list)
    BY DEF Account, Now
  <2>4. Len(new.list) = Len(list) + 1 - new.slots
    BY <1>3, <1>5, <1>7
  <2> QED BY <1>3, <1>7, <1>8, <1>9, <2>1, <2>2, <2>3, <2>4
<1> QED BY <1>7, <1>11, <1>12, <1>14, <1>15

-----------------------------------------------------------------------------
(***************************************************************************)
(* Every operation keeps the types and the account                         *)
(***************************************************************************)
Others ==
    /\ asize \in Size /\ flist \in Seq(Size)
    /\ fmax \in LIMITS /\ trim \in LIMITS \cup {NoTrim}
    /\ heap \subseteq HEAPPAGES

IInv == Now \in State /\ Account(Now) = 0 /\ Others

LEMMA RequestFacts ==
  ASSUME NEW asked \in SIZES, NEW al \in ALIGNS
  PROVE  AtLeastOne(asked) \in Size /\ Alignment(al) \in 1..PAGE
  BY WordFacts DEF AtLeastOne

LEMMA GetallocReuseStep ==
  ASSUME IInv, NEW asked \in SIZES, NEW al \in ALIGNS, GetallocReuse(asked, al)
  PROVE  IInv'
<1> DEFINE l == AtLeastOne(asked)
           a == Alignment(al)
<1>1. PICK i \in BestFits(Need(l, a)) :
        SplitNode(Now, i, l, a, asked) \/ SplitFails(Now)
  BY DEF GetallocReuse
<1>2. i \in 1..Len(Now.list)
  BY DEF BestFits, Now
<1>3. l \in Size /\ a \in 1..PAGE
  BY RequestFacts
<1> HIDE DEF l, a
<1>4. Now \in State /\ asize \in Size /\ Account(Now) = 0
  BY DEF IInv, Others
<1>5. Now' \in State /\ Account(Now)' = Account(Now) /\ asize' \in Size
  BY <1>1, <1>2, <1>3, <1>4, SplitNodeFacts, SplitFailsFacts
<1> QED BY <1>4, <1>5 DEF IInv, Others, GetallocReuse

LEMMA GetallocFreshStep ==
  ASSUME IInv, NEW asked \in SIZES, NEW al \in ALIGNS, GetallocFresh(asked, al)
  PROVE  IInv'
<1> DEFINE l == AtLeastOne(asked)
           a == Alignment(al)
           size == HeapSize(RoundUp(l + 2 * Oflow, PAGE))
<1>1. PICK t \in GetNode(table), p \in HeapAlloc(size) :
        \E at \in InsertAfter(p) :
          /\ heap' = heap \cup PagesOf(p, size)
          /\ \/ SplitNode(ExtendedState(t, at, p, size),
                          Extended(at, p, size).node, l, a, asked)
             \/ SplitFails(ExtendedState(t, at, p, size))
  BY DEF GetallocFresh
<1>2. PICK at \in InsertAfter(p) :
        /\ heap' = heap \cup PagesOf(p, size)
        /\ \/ SplitNode(ExtendedState(t, at, p, size),
                        Extended(at, p, size).node, l, a, asked)
           \/ SplitFails(ExtendedState(t, at, p, size))
  BY <1>1
<1>3. l \in Size /\ a \in 1..PAGE
  BY RequestFacts
<1>4. size \in Size
  <2>1. l + 2 * Oflow \in Int
    BY <1>3, WordFacts DEF Size
  <2>2. RoundUp(l + 2 * Oflow, PAGE) \in Int
    <3> HIDE DEF l
    <3> QED BY <2>1, RoundUpSize, WordFacts DEF Size
  <2> HIDE DEF l
  <2> QED BY <2>2, RoundUpSize, WordFacts DEF HeapSize
<1> HIDE DEF l, a, size
<1>5. Now \in State /\ asize \in Size /\ Account(Now) = 0
  BY DEF IInv, Others
<1>6. p \in Size
  BY WordFacts DEF HeapAlloc
<1>7. at \in 0..Len(list)
  <2>1. Len(list) \in Nat
    BY <1>5 DEF State, Now
  <2>2. SearchFrom(p) \in 0..Len(list)
    BY <2>1, SearchFromFacts
  <2>3. at \in SearchFrom(p)..Len(list)
    BY DEF InsertAfter
  <2> QED BY <2>1, <2>2, <2>3
<1> DEFINE h == ExtendedState(t, at, p, size)
<1>8. /\ h \in State /\ Account(h) = 0
      /\ Extended(at, p, size).node \in 1..Len(h.list)
  BY <1>4, <1>5, <1>6, <1>7, ExtendedFacts
<1>9. \/ SplitNode(h, Extended(at, p, size).node, l, a, asked)
      \/ SplitFails(h)
  BY <1>2
<1> HIDE DEF h
<1>10. Now' \in State /\ Account(Now)' = Account(h) /\ asize' \in Size
  BY <1>3, <1>5, <1>8, <1>9, SplitNodeFacts, SplitFailsFacts
<1>11. heap' \subseteq HEAPPAGES
  BY <1>2 DEF IInv, Others, PagesOf
<1> QED BY <1>8, <1>10, <1>11 DEF IInv, Others, GetallocFresh

LEMMA GetallocRefusedStep ==
  ASSUME IInv, NEW asked \in SIZES, NEW al \in ALIGNS,
         GetallocRefused(asked, al)
  PROVE  IInv'
<1>1. PICK t \in GetNode(table) : table' = FreeSlots(t, 1)
  BY DEF GetallocRefused
<1>2. table \in Table
  BY DEF IInv, State, Now
<1>3. t \in Table /\ Slack(t) = Slack(table) - 1
  BY <1>2, GetNodeFacts
<1>4. table' \in Table /\ Slack(table') = Slack(t) + 1
  BY <1>1, <1>3, FreeSlotsFacts
<1>5. Slack(table) \in Int
  BY <1>2, BoundsAssumption DEF Slack, Table
<1>6. Slack(table') = Slack(table)
  BY <1>3, <1>4, <1>5
<1>7. Now' \in State
  BY <1>4 DEF GetallocRefused, IInv, State, Now
<1>8. Account(Now)' = Account(Now)
  BY <1>6 DEF GetallocRefused, Account, Now
<1> QED BY <1>7, <1>8 DEF GetallocRefused, IInv, Others

\* What all ways to resize a block have in common.
LEMMA ResizedFacts ==
  ASSUME IInv, NEW i \in 1..Len(list), NEW last \in 1..Len(list), i <= last,
         NEW l \in Size, NEW right \in Seq(NodeType), NEW m \in Content,
         NEW asked, Resized(i, last, l, right, m, asked)
  PROVE  /\ list' \in Seq(NodeType)
         /\ Len(list') = Len(list) - (last - i) + Len(right)
         /\ asize' \in Size /\ watch' \in SUBSET Int /\ mem' \in Content
<1> DEFINE n == list[i]
           new == [n EXCEPT !.size = l]
<1>1. /\ list \in Seq(NodeType) /\ watch \in SUBSET Int /\ asize \in Size
  BY DEF IInv, Others, State, Now
<1>2. n \in NodeType /\ new \in NodeType
  <2>1. n \in NodeType
    BY <1>1
  <2> HIDE DEF n
  <2> QED BY <2>1 DEF NodeType
<1>3. n.size \in Int /\ asize \in Int /\ l \in Int
  <2>1. n.size \in Int
    BY <1>2, NodeBounds
  <2> QED BY <1>1, <2>1, WordFacts DEF Size
<1>4. asize' \in Size
  <2>1. asize' = Wrap(asize + l - n.size)
    BY DEF Resized
  <2>2. asize + l - n.size \in Int
    BY <1>3
  <2> HIDE DEF n
  <2> QED BY <2>1, <2>2, WrapSize
<1>5. watch' \in SUBSET Int
  BY <1>1, WatchFacts DEF Resized
<1>6. mem' \in Content
  BY FillFacts DEF Resized
<1>7. list' = Splice(list, i, last, <<new>> \o right)
  BY DEF Resized
<1> HIDE DEF new
<1>8. <<new>> \in Seq(NodeType) /\ Len(<<new>>) = 1
  BY <1>2
<1>9. PICK all \in Seq(NodeType) :
        all = <<new>> \o right /\ Len(all) = 1 + Len(right)
  <2>1. /\ <<new>> \o right \in Seq(NodeType)
        /\ Len(<<new>> \o right) = Len(<<new>>) + Len(right)
    BY <1>8
  <2> QED BY <1>8, <2>1, Zenon
<1>10. /\ i \in Nat /\ last \in Nat /\ 1 <= i /\ i <= last + 1
       /\ last <= Len(list) /\ Len(list) \in Nat /\ Len(right) \in Nat
  BY <1>1
<1>11. list' = Splice(list, i, last, all)
  BY <1>7, <1>9
<1>12. list' \in Seq(NodeType)
  BY <1>1, <1>10, <1>11, SpliceFacts
<1>13. Len(list') = Len(list) - (last - i + 1) + Len(all)
  <2>1. Len(Splice(list, i, last, all)) = Len(list) - (last - i + 1) + Len(all)
    BY <1>1, <1>10, SpliceFacts
  <2> QED BY <1>11, <2>1, Zenon
<1>14. Len(list') = Len(list) - (last - i) + Len(right)
  BY <1>9, <1>10, <1>13
<1> QED BY <1>4, <1>5, <1>6, <1>12, <1>14

\* The invariant again once the list and the table agree.
LEMMA ResizedKeeps ==
  ASSUME IInv,
         list' \in Seq(NodeType), fsize' \in Size, table' \in Table,
         mem' \in Content, access' \in Protection, watch' \in SUBSET Int,
         asize' \in Size,
         Slack(table') - Slack(table) = Len(list) - Len(list'),
         UNCHANGED <<flist, gsize, fmax, trim, heap>>
  PROVE  IInv'
<1>1. Now' \in State
  BY DEF IInv, State, Now
<1>2. Slack(table) \in Int /\ Slack(table') \in Int
  BY BoundsAssumption DEF IInv, State, Now, Slack, Table
<1>3. Len(list) \in Nat /\ Len(list') \in Nat
  BY DEF IInv, State, Now
<1>4. Account(Now) = Slack(table) + Len(list)
  BY DEF Account, Now
<1>5. Account(Now)' = Slack(table') + Len(list')
  BY DEF Account, Now
<1>6. Account(Now)' = Account(Now)
  BY <1>2, <1>3, <1>4, <1>5
<1> QED BY <1>1, <1>6 DEF IInv, Others

LEMMA ResizeSameStep ==
  ASSUME IInv, NEW i \in 1..Len(list), NEW asked \in SIZES,
         ResizeSame(i, asked), UNCHANGED <<flist, gsize, fmax, trim, heap>>
  PROVE  IInv'
<1> DEFINE l == AtLeastOne(asked)
<1>1. Resized(i, i, l, <<>>, mem, asked) /\ UNCHANGED <<table, fsize, access>>
  BY DEF ResizeSame
<1>2. l \in Size
  BY WordFacts DEF AtLeastOne
<1> HIDE DEF l
<1>3. <<>> \in Seq(NodeType) /\ Len(<<>>) = 0 /\ i <= i
  OBVIOUS
<1>4. /\ mem \in Content /\ list \in Seq(NodeType) /\ table \in Table
      /\ fsize \in Size /\ access \in Protection
  BY DEF IInv, State, Now
<1>5. /\ list' \in Seq(NodeType)
      /\ Len(list') = Len(list) - (i - i) + Len(<<>>)
      /\ asize' \in Size /\ watch' \in SUBSET Int /\ mem' \in Content
  BY <1>1, <1>2, <1>3, <1>4, ResizedFacts
<1>6. Len(list') = Len(list)
  BY <1>3, <1>4, <1>5
<1>7. Slack(table') - Slack(table) = Len(list) - Len(list')
  <2>1. Slack(table) \in Int /\ Len(list) \in Nat /\ table' = table
    BY <1>1, <1>4, BoundsAssumption DEF Slack, Table
  <2> QED BY <1>6, <2>1
<1>8. fsize' \in Size /\ table' \in Table /\ access' \in Protection
  BY <1>1, <1>4
<1> QED BY <1>5, <1>7, <1>8, ResizedKeeps

LEMMA ResizeGrowStep ==
  ASSUME IInv, NEW i \in 1..Len(list), NEW asked \in SIZES,
         ResizeGrow(i, asked), UNCHANGED <<flist, gsize, fmax, trim, heap>>
  PROVE  IInv'
<1> DEFINE n == list[i]
           l == AtLeastOne(asked)
           s == IF PAGEALLOC THEN Wrap(RoundUp(l, PAGE) - Span(n))
                ELSE l - n.size
           Rest(p) == Node("free", Wrap(list[p].block + s),
                           Wrap(list[p].size - s))
           Right(p) == IF Rest(p).size = 0 THEN <<>> ELSE <<Rest(p)>>
<1>1. PICK p \in RightFree(i) :
        /\ Resized(i, p, l, Right(p), mem, asked)
        /\ table' = FreeSlots(table, IF Rest(p).size = 0 THEN 1 ELSE 0)
        /\ access' = IF PAGEALLOC
                     THEN Protect(access, list[p].block - Oflow, s, "rw")
                     ELSE access
  BY DEF ResizeGrow
<1>2. fsize' = Wrap(fsize - s)
  BY DEF ResizeGrow
<1>3. /\ mem \in Content /\ list \in Seq(NodeType) /\ table \in Table
      /\ fsize \in Size /\ access \in Protection
  BY DEF IInv, State, Now
<1>4. p = i + 1 /\ p \in 1..Len(list) /\ i <= p
  BY DEF RightFree
<1>5. l \in Size
  BY WordFacts DEF AtLeastOne
<1>6. s \in Int
  <2>1. n \in NodeType
    BY <1>3
  <2>2. Span(n) \in Int /\ n.size \in Int
    <3> HIDE DEF n
    <3> QED BY <2>1, NodeBounds
  <2>3. l \in Int
    BY <1>5, WordFacts DEF Size
  <2> HIDE DEF n, l
  <2>4. RoundUp(l, PAGE) \in Int
    BY <2>3, RoundUpSize, WordFacts DEF Size
  <2>5. RoundUp(l, PAGE) - Span(n) \in Int /\ l - n.size \in Int
    BY <2>2, <2>3, <2>4
  <2>6. Wrap(RoundUp(l, PAGE) - Span(n)) \in Int
    BY <2>5, WrapSize, WordFacts DEF Size
  <2> QED BY <2>5, <2>6
<1> HIDE DEF s, l
<1>7. Rest(p) \in NodeType
  <2>1. list[p].block \in Int /\ list[p].size \in Int
    BY <1>3, <1>4, NodeBounds
  <2>2. /\ Wrap(list[p].block + s) \in Size
        /\ Wrap(list[p].size - s) \in Size
    BY <1>6, <2>1, WrapSize
  <2> QED BY <2>2, NodeIsTyped
<1> HIDE DEF Rest
<1>8. Right(p) \in Seq(NodeType)
  BY <1>7
<1>9. /\ Rest(p).size = 0 => Len(Right(p)) = 0
      /\ Rest(p).size # 0 => Len(Right(p)) = 1
  BY <1>7
<1> HIDE DEF Right
<1>10. /\ list' \in Seq(NodeType)
       /\ Len(list') = Len(list) - (p - i) + Len(Right(p))
       /\ asize' \in Size /\ watch' \in SUBSET Int /\ mem' \in Content
  BY <1>1, <1>3, <1>4, <1>5, <1>8, ResizedFacts
<1>11. fsize' \in Size
  <2>1. fsize - s \in Int
    BY <1>3, <1>6, WordFacts DEF Size
  <2> QED BY <1>2, <2>1, WrapSize
<1>12. access' \in Protection
  BY <1>1, <1>3, ProtectFacts
<1>13. Len(list) \in Nat /\ Slack(table) \in Int /\ p - i = 1
  BY <1>3, <1>4, BoundsAssumption DEF Slack, Table
<1>14. /\ table' \in Table
       /\ Slack(table') - Slack(table) = Len(list) - Len(list')
  <2>1. CASE Rest(p).size = 0
    <3>1. table' = FreeSlots(table, 1) /\ Len(Right(p)) = 0
      BY <1>1, <1>9, <2>1
    <3>2. table' \in Table /\ Slack(table') = Slack(table) + 1
      BY <1>3, <3>1, FreeSlotsFacts
    <3>3. Len(list') = Len(list) - 1
      BY <1>10, <1>13, <3>1
    <3> QED BY <1>13, <3>2, <3>3
  <2>2. CASE Rest(p).size # 0
    <3>1. table' = FreeSlots(table, 0) /\ Len(Right(p)) = 1
      BY <1>1, <1>9, <2>2
    <3>2. table' \in Table /\ Slack(table') = Slack(table) + 0
      BY <1>3, <3>1, FreeSlotsFacts
    <3>3. Len(list') = Len(list)
      BY <1>10, <1>13, <3>1
    <3> QED BY <1>13, <3>2, <3>3
  <2> QED BY <2>1, <2>2
<1> QED BY <1>10, <1>11, <1>12, <1>14, ResizedKeeps

LEMMA ResizeShrinkStep ==
  ASSUME IInv, NEW i \in 1..Len(list), NEW asked \in SIZES,
         ResizeShrink(i, asked), UNCHANGED <<flist, gsize, fmax, trim, heap>>
  PROVE  IInv'
<1> DEFINE n == list[i]
           l == AtLeastOne(asked)
           s == Wrap(IF PAGEALLOC THEN Span(n) - RoundUp(l, PAGE) ELSE n.size - l)
           End == Node("free", n.block + Span(n) + Oflow, 0)
           New(old) == Node("free", Wrap(old.block - s), Wrap(old.size + s))
           Give(last, old) ==
             /\ Resized(i, last, l, <<New(old)>>,
                        IF PAGEALLOC THEN mem
                        ELSE Fill(mem, Run(Wrap(old.block - s), s), "free"),
                        asked)
             /\ access' = IF PAGEALLOC
                          THEN Protect(access, Wrap(old.block - s), s, "none")
                          ELSE access
<1>1. \/ \E p \in RightFree(i) : Give(p, list[p]) /\ UNCHANGED table
      \/ Give(i, End) /\ table' \in GetNode(table)
  BY DEF ResizeShrink
<1>2. fsize' = Wrap(fsize + s)
  BY DEF ResizeShrink
<1>3. /\ mem \in Content /\ list \in Seq(NodeType) /\ table \in Table
      /\ fsize \in Size /\ access \in Protection
  BY DEF IInv, State, Now
<1>4. l \in Size
  BY WordFacts DEF AtLeastOne
<1>5. n \in NodeType
  BY <1>3
<1>6. Span(n) \in Int /\ n.size \in Int /\ n.block \in Int
  <2> HIDE DEF n
  <2> QED BY <1>5, NodeBounds
<1>7. End.block \in Int /\ End.size \in Int
  <2> HIDE DEF n
  <2> QED BY <1>6, WordFacts DEF Node
<1>8. s \in Size /\ s \in Int
  <2> HIDE DEF n, l
  <2>1. l \in Int
    BY <1>4, WordFacts DEF Size
  <2>2. RoundUp(l, PAGE) \in Int
    BY <2>1, RoundUpSize, WordFacts DEF Size
  <2>3. Span(n) - RoundUp(l, PAGE) \in Int /\ n.size - l \in Int
    BY <1>6, <2>1, <2>2
  <2>4. s \in Size
    BY <2>3, WrapSize
  <2> QED BY <2>4, WordFacts DEF Size
<1> HIDE DEF n, l, s, End
<1>9. ASSUME NEW last \in 1..Len(list), i <= last, NEW old,
             old.block \in Int, old.size \in Int, Give(last, old)
      PROVE  /\ list' \in Seq(NodeType) /\ Len(list') = Len(list) - (last - i) + 1
             /\ asize' \in Size /\ watch' \in SUBSET Int /\ mem' \in Content
             /\ access' \in Protection
  <2>1. New(old) \in NodeType
    <3>1. Wrap(old.block - s) \in Size /\ Wrap(old.size + s) \in Size
      BY <1>8, <1>9, WrapSize
    <3> QED BY <3>1, NodeIsTyped
  <2> HIDE DEF New
  <2>2. <<New(old)>> \in Seq(NodeType) /\ Len(<<New(old)>>) = 1
    BY <2>1
  <2>3. PICK right \in Seq(NodeType) : right = <<New(old)>> /\ Len(right) = 1
    BY <2>2, Zenon
  <2>4. PICK m \in Content : Resized(i, last, l, right, m, asked)
    <3>1. Fill(mem, Run(Wrap(old.block - s), s), "free") \in Content
      BY <1>3, FillFacts
    <3> QED BY <1>3, <1>9, <2>3, <3>1
  <2>5. /\ list' \in Seq(NodeType)
        /\ Len(list') = Len(list) - (last - i) + Len(right)
        /\ asize' \in Size /\ watch' \in SUBSET Int /\ mem' \in Content
    BY <1>4, <1>9, <2>4, ResizedFacts
  <2>6. access' \in Protection
    BY <1>3, <1>9, ProtectFacts
  <2> QED BY <2>3, <2>5, <2>6
<1>10. fsize' \in Size
  <2>1. fsize + s \in Int
    BY <1>3, <1>8, WordFacts DEF Size
  <2> QED BY <1>2, <2>1, WrapSize
<1>11. Len(list) \in Nat /\ Slack(table) \in Int
  BY <1>3, BoundsAssumption DEF Slack, Table
<1> HIDE DEF Give
<1>12. CASE \E p \in RightFree(i) : Give(p, list[p]) /\ UNCHANGED table
  <2>1. PICK p \in RightFree(i) : Give(p, list[p]) /\ UNCHANGED table
    BY <1>12
  <2>2. p = i + 1 /\ p \in 1..Len(list) /\ i <= p
    BY DEF RightFree
  <2>3. list[p].block \in Int /\ list[p].size \in Int
    BY <1>3, <2>2, NodeBounds
  <2>4. /\ list' \in Seq(NodeType) /\ Len(list') = Len(list) - (p - i) + 1
        /\ asize' \in Size /\ watch' \in SUBSET Int /\ mem' \in Content
        /\ access' \in Protection
    BY <1>9, <2>1, <2>2, <2>3
  <2>5. Len(list') = Len(list)
    BY <1>11, <2>2, <2>4
  <2>6. Slack(table') - Slack(table) = Len(list) - Len(list')
    BY <1>11, <2>1, <2>5
  <2>7. table' \in Table
    BY <1>3, <2>1
  <2> QED BY <1>10, <2>4, <2>6, <2>7, ResizedKeeps
<1>13. CASE Give(i, End) /\ table' \in GetNode(table)
  <2>1. i <= i
    OBVIOUS
  <2>2. /\ list' \in Seq(NodeType) /\ Len(list') = Len(list) - (i - i) + 1
        /\ asize' \in Size /\ watch' \in SUBSET Int /\ mem' \in Content
        /\ access' \in Protection
    BY <1>7, <1>9, <1>13, <2>1
  <2>3. Len(list') = Len(list) + 1
    BY <1>11, <2>2
  <2>4. table' \in Table /\ Slack(table') = Slack(table) - 1
    BY <1>3, <1>13, GetNodeFacts
  <2>5. Slack(table') - Slack(table) = Len(list) - Len(list')
    BY <1>11, <2>3, <2>4
  <2> QED BY <1>10, <2>2, <2>4, <2>5, ResizedKeeps
<1> QED BY <1>1, <1>12, <1>13

LEMMA RecycledFacts ==
  ASSUME IInv, NEW h \in Recycled
  PROVE  h \in State /\ Account(h) = 0
<1>1. PICK i \in IndexOf(list, Head(flist), "freed") : h = Released(Now, i)
  BY DEF Recycled
<1>2. i \in 1..Len(Now.list)
  BY DEF IndexOf, Now
<1> QED BY <1>1, <1>2, ReleasedFacts DEF IInv

LEMMA FreeallocDropStep ==
  ASSUME IInv, NEW i \in 1..Len(list), FreeallocDrop(i)
  PROVE  IInv'
<1>1. i \in 1..Len(Now.list)
  BY DEF Now
<1>2. Released(Now, i) \in State /\ Account(Released(Now, i)) = 0
  BY <1>1, ReleasedFacts DEF IInv
<1>3. Now' \in State /\ Account(Now)' = 0
  BY <1>2, BecomesFacts DEF FreeallocDrop
<1>4. asize' \in Size
  <2>1. list[i] \in NodeType /\ asize \in Size
    BY DEF IInv, Others, State, Now
  <2>2. list[i].size \in Int /\ asize \in Int
    BY <2>1, NodeBounds, WordFacts DEF Size
  <2>3. asize - list[i].size \in Int
    BY <2>2
  <2> QED BY <2>3, WrapSize DEF FreeallocDrop
<1> QED BY <1>3, <1>4 DEF FreeallocDrop, IInv, Others

LEMMA KeptFacts ==
  ASSUME NEW h \in State, NEW i \in 1..Len(h.list)
  PROVE  Kept(h, i) \in State /\ Account(Kept(h, i)) = Account(h)
<1> DEFINE n == h.list[i]
           L == [h.list EXCEPT ![i].kind = "freed"]
<1>1. /\ h.list \in Seq(NodeType) /\ h.gsize \in Size /\ h.fsize \in Size
      /\ h.table \in Table /\ h.mem \in Content /\ h.access \in Protection
      /\ h.watch \in SUBSET Int /\ n \in NodeType
  BY DEF State
<1>2. L \in Seq(NodeType) /\ Len(L) = Len(h.list)
  <2>1. [n EXCEPT !.kind = "freed"] \in NodeType
    <3> HIDE DEF n
    <3> QED BY <1>1 DEF NodeType
  <2>2. L = [h.list EXCEPT ![i] = [n EXCEPT !.kind = "freed"]]
    BY DEF L
  <2> QED BY <1>1, <2>1, <2>2
<1>3. Wrap(h.gsize + n.size) \in Size
  <2>1. n.size \in Int
    <3> HIDE DEF n
    <3> QED BY <1>1, NodeBounds
  <2>2. h.gsize + n.size \in Int
    BY <1>1, <2>1, WordFacts DEF Size
  <2> QED BY <2>2, WrapSize
<1> HIDE DEF n, L
<1>4. /\ Fill(h.mem, Run(n.block, n.size), "free") \in Content
      /\ Protect(h.access, n.block, n.size, IF PRESERVE THEN "ro" ELSE "none")
            \in Protection
      /\ h.watch \ OverArea(n) \in SUBSET Int
  BY <1>1, FillFacts, ProtectFacts, WatchFacts
<1>5. Kept(h, i) =
        [list   |-> L,
         gsize  |-> Wrap(h.gsize + n.size),
         fsize  |-> h.fsize,
         table  |-> h.table,
         mem    |-> IF PAGEALLOC \/ PRESERVE THEN h.mem
                    ELSE Fill(h.mem, Run(n.block, n.size), "free"),
         access |-> IF PAGEALLOC
                    THEN Protect(h.access, n.block, n.size,
                                 IF PRESERVE THEN "ro" ELSE "none")
                    ELSE h.access,
         watch  |-> IF PAGEALLOC /\ ~PRESERVE THEN h.watch \ OverArea(n)
                                              ELSE h.watch]
  BY DEF Kept, n, L
<1>6. Kept(h, i) \in State
  BY <1>1, <1>2, <1>3, <1>4, <1>5 DEF State
<1> QED BY <1>2, <1>5, <1>6 DEF Account

LEMMA FreeallocKeepStep ==
  ASSUME IInv, NEW i \in 1..Len(list), FreeallocKeep(i)
  PROVE  IInv'
<1> DEFINE n == list[i]
           full == flist # <<>> /\ Len(flist) = fmax
<1>1. PICK h \in IF full THEN Recycled ELSE {Now} :
        \E j \in IndexOf(h.list, n.block, "alloc") : Becomes(Kept(h, j))
  BY DEF FreeallocKeep
<1>2. PICK j \in IndexOf(h.list, n.block, "alloc") : Becomes(Kept(h, j))
  BY <1>1
<1>3. h \in State /\ Account(h) = 0
  BY RecycledFacts DEF IInv
<1>4. j \in 1..Len(h.list)
  BY DEF IndexOf
<1>5. Kept(h, j) \in State /\ Account(Kept(h, j)) = 0
  BY <1>3, <1>4, KeptFacts
<1>6. Now' \in State /\ Account(Now)' = 0
  BY <1>2, <1>5, BecomesFacts
<1>7. /\ n.block \in Size /\ n.size \in Int /\ asize \in Int
      /\ flist \in Seq(Size)
  <2>1. n \in NodeType /\ asize \in Size /\ flist \in Seq(Size)
    BY DEF IInv, Others, State, Now
  <2> HIDE DEF n
  <2> QED BY <2>1, NodeBounds, WordFacts DEF Size, NodeType
<1>8. asize' \in Size
  <2>1. asize - n.size \in Int
    BY <1>7
  <2> QED BY <2>1, WrapSize DEF FreeallocKeep
<1>9. flist' \in Seq(Size)
  <2>1. flist' = Append(IF full THEN Tail(flist) ELSE flist, n.block)
    BY DEF FreeallocKeep
  <2>2. CASE full
    <3>1. Tail(flist) \in Seq(Size)
      BY <1>7, <2>2
    <3> HIDE DEF n
    <3> QED BY <1>7, <2>1, <2>2, <3>1
  <2>3. CASE ~full
    <3> HIDE DEF n
    <3> QED BY <1>7, <2>1, <2>3
  <2> QED BY <2>2, <2>3
<1> QED BY <1>6, <1>8, <1>9 DEF FreeallocKeep, IInv, Others

LEMMA OptNofreeRecycleStep == ASSUME IInv, OptNofreeRecycle PROVE IInv'
<1>1. PICK h \in Recycled : Becomes(h)
  BY DEF OptNofreeRecycle
<1>2. Now' \in State /\ Account(Now)' = 0
  BY <1>1, RecycledFacts, BecomesFacts
<1>3. flist' \in Seq(Size)
  <2>1. flist \in Seq(Size) /\ trim \in Nat /\ Len(flist) > trim
    BY BoundsAssumption DEF IInv, Others, OptNofreeRecycle
  <2>2. flist # <<>>
    BY <2>1
  <2> QED BY <2>1, <2>2 DEF OptNofreeRecycle
<1> QED BY <1>2, <1>3 DEF OptNofreeRecycle, IInv, Others

LEMMA InitIInv == Init => IInv
<1> SUFFICES ASSUME Init PROVE IInv
  OBVIOUS
<1>1. <<>> \in Seq(NodeType) /\ Len(<<>>) = 0 /\ <<>> \in Seq(Size)
  OBVIOUS
<1>2. Now \in State
  <2>1. table \in Table
    BY BoundsAssumption DEF Init, Table
  <2>2. mem \in Content /\ access \in Protection /\ watch \in SUBSET Int
    BY DEF Init, Content, Protection
  <2>3. list \in Seq(NodeType) /\ gsize \in Size /\ fsize \in Size
    BY <1>1, WordFacts DEF Init
  <2> QED BY <2>1, <2>2, <2>3 DEF Now, State
<1>3. Account(Now) = 0
  <2>1. Len(list) = 0 /\ table.free = 0 /\ table.chunks = 0
    BY <1>1 DEF Init
  <2>2. SLOTS * 0 = 0
    BY BoundsAssumption
  <2> QED BY <2>1, <2>2 DEF Now, Account, Slack
<1> QED BY <1>1, <1>2, <1>3, WordFacts DEF IInv, Others, Init

LEMMA NextIInv == IInv /\ [Next]_vars => IInv'
<1> SUFFICES ASSUME IInv, [Next]_vars PROVE IInv'
  OBVIOUS
<1>1. CASE UNCHANGED vars
  BY <1>1 DEF vars, IInv, Others, Now, Account
<1>2. ASSUME NEW l \in SIZES, NEW a \in ALIGNS, Getalloc(l, a) PROVE IInv'
  BY <1>2, GetallocReuseStep, GetallocFreshStep, GetallocRefusedStep
     DEF Getalloc
<1>3. ASSUME NEW i \in 1..Len(list), NEW l \in SIZES, Resizealloc(i, l)
      PROVE  IInv'
  BY <1>3, ResizeSameStep, ResizeGrowStep, ResizeShrinkStep DEF Resizealloc
<1>4. ASSUME NEW i \in 1..Len(list), Freealloc(i) PROVE IInv'
  BY <1>4, FreeallocDropStep, FreeallocKeepStep DEF Freealloc
<1>5. ASSUME NEW v \in LIMITS, OptNofree(v) PROVE IInv'
  BY <1>5 DEF OptNofree, IInv, Others, Now, Account
<1>6. CASE OptNofreeRecycle
  BY <1>6, OptNofreeRecycleStep
<1>7. CASE OptNofreeDone
  <2>1. trim \in LIMITS
    BY <1>7 DEF OptNofreeDone, IInv, Others
  <2> QED BY <1>7, <2>1 DEF OptNofreeDone, IInv, Others, Now, Account
<1> QED BY <1>1, <1>2, <1>3, <1>4, <1>5, <1>6, <1>7 DEF Next

LEMMA Inductive == Spec => []IInv
  BY InitIInv, NextIInv, PTL DEF Spec

-----------------------------------------------------------------------------
(***************************************************************************)
(* Theorems                                                                *)
(***************************************************************************)
\* Sizes and totals stay within size_t, the slot table never has less than no
\* free slot, and no operation of src/alloc.c leaves a field without a value.
THEOREM TypeCorrect == Spec => []TypeOK
<1>1. IInv => TypeOK
  BY DEF IInv, Others, TypeOK, Now, State, NodeType, Table, Content,
         Protection, Size
<1> QED BY <1>1, Inductive, PTL

\* No node is ever lost or used twice, whichever request fails in whichever
\* place: what getnode() takes from the slot table is in the list, and what
\* leaves the list is given back.
THEOREM SlotsAreBalanced == Spec => []SlotsBalanced
<1>1. IInv => SlotsBalanced
  <2> SUFFICES ASSUME IInv PROVE SlotsBalanced
    OBVIOUS
  <2>1. Account(Now) = table.free + table.chunks - SLOTS * table.chunks
                         + Len(list)
    BY DEF Account, Slack, Now
  <2>2. /\ table.free \in Int /\ table.chunks \in Int
        /\ SLOTS * table.chunks \in Int /\ Len(list) \in Int
    BY BoundsAssumption DEF IInv, State, Now, Table
  <2>3. Account(Now) = 0
    BY DEF IInv
  <2> QED BY <2>1, <2>2, <2>3 DEF SlotsBalanced
<1> QED BY <1>1, Inductive, PTL


-----------------------------------------------------------------------------
(***************************************************************************)
(* Multiples                                                               *)
(***************************************************************************)
LEMMA Quotient ==
  ASSUME NEW n \in Int, NEW a \in Nat, a > 0
  PROVE  /\ (n % a) \in 0..a - 1 /\ (n \div a) \in Int
         /\ n = (a * (n \div a)) + (n % a)
  BY SMT

LEMMA Remainder ==
  ASSUME NEW a \in Nat, a > 0, NEW q \in Int, NEW r \in 0..a - 1
  PROVE  ((a * q) + r) % a = r
  BY SMT

\* A multiple of a.
LEMMA MultipleOf ==
  ASSUME NEW x \in Int, NEW a \in Nat, a > 0, x % a = 0
  PROVE  \E q \in Int : x = a * q
<1>1. (x \div a) \in Int /\ x = (a * (x \div a)) + (x % a)
  BY Quotient
<1>2. (a * (x \div a)) \in Int
  BY <1>1
<1>3. x = a * (x \div a)
  BY <1>1, <1>2
<1> QED BY <1>1, <1>3

LEMMA MultiplePlus ==
  ASSUME NEW x \in Int, NEW a \in Nat, a > 0, x % a = 0, NEW u \in 0..a - 1
  PROVE  (x + u) % a = u
<1>1. PICK q \in Int : x = a * q
  BY MultipleOf
<1> QED BY <1>1, Remainder

LEMMA Multiples ==
  ASSUME NEW x \in Int, NEW y \in Int, NEW a \in Nat, a > 0, x % a = 0, y % a = 0
  PROVE  (x + y) % a = 0 /\ (x - y) % a = 0
<1>1. PICK q \in Int : x = a * q
  BY MultipleOf
<1>2. PICK r \in Int : y = a * r
  BY MultipleOf
<1>3. x + y = (a * (q + r)) + 0 /\ x - y = (a * (q - r)) + 0
  BY <1>1, <1>2
<1>4. (q + r) \in Int /\ (q - r) \in Int /\ 0 \in 0..a - 1
  OBVIOUS
<1> QED BY <1>3, <1>4, Remainder

LEMMA Factor ==
  ASSUME NEW a \in Nat, a > 0, NEW d \in Int
  PROVE  /\ a * d \in Int /\ (d >= 1 => a * d >= a) /\ (d <= -1 => a * d <= -a)
         /\ (d = 0 => a * d = 0)
  BY SMT

\* Multiples are apart by a at least.
LEMMA Apart ==
  ASSUME NEW x \in Int, NEW y \in Int, NEW a \in Nat, a > 0,
         x % a = 0, y % a = 0, x < y
  PROVE  x + a <= y
<1>1. (y - x) % a = 0
  BY Multiples
<1>2. y - x \in Int
  OBVIOUS
<1>3. PICK q \in Int : y - x = a * q
  BY <1>1, <1>2, MultipleOf
<1>4. q >= 1
  BY <1>3, Factor
<1> QED BY <1>3, <1>4, Factor

LEMMA Divides ==
  ASSUME NEW x \in Int, NEW b \in Nat, b > 0, NEW a \in Nat, a > 0,
         x % b = 0, b % a = 0
  PROVE  x % a = 0
<1>1. PICK q \in Int : x = b * q
  BY MultipleOf
<1>2. PICK r \in Int : b = a * r
  <2>1. b \in Int
    OBVIOUS
  <2> QED BY <2>1, MultipleOf
<1>3. x = (a * (r * q)) + 0 /\ r * q \in Int /\ 0 \in 0..a - 1
  BY <1>1, <1>2
<1> QED BY <1>3, Remainder

-----------------------------------------------------------------------------
(***************************************************************************)
(* Rounding, src/utils.c                                                   *)
(***************************************************************************)
\* The multiple of a that is not less than n and less than n + a.
LEMMA UpFacts ==
  ASSUME NEW n \in Int, NEW a \in Nat, a > 0
  PROVE  /\ ((-n) % a) \in 0..a - 1
         /\ (n + ((-n) % a)) % a = 0
<1>1. ((-n) % a) \in 0..a - 1 /\ ((-n) \div a) \in Int
      /\ -n = (a * ((-n) \div a)) + ((-n) % a)
  BY Quotient
<1> DEFINE q == (-n) \div a
           r == (-n) % a
<1>2. q \in Int /\ -q \in Int /\ r \in 0..a - 1 /\ -n = (a * q) + r
  BY <1>1
<1> HIDE DEF q, r
<1>3. a * q \in Int /\ a * (-q) = -(a * q)
  BY <1>2
<1>4. n + r = (a * (-q)) + 0
  BY <1>2, <1>3
<1>5. (n + r) % a = 0
  <2>1. 0 \in 0..a - 1
    OBVIOUS
  <2> QED BY <1>2, <1>4, <2>1, Remainder
<1> QED BY <1>2, <1>5 DEF r

\* There is only one.
LEMMA UpIs ==
  ASSUME NEW n \in Int, NEW a \in Nat, a > 0,
         NEW r \in Int, r % a = 0, n <= r, r < n + a
  PROVE  n + ((-n) % a) = r
<1> DEFINE u == (-n) % a
<1>1. u \in 0..a - 1 /\ (n + u) % a = 0
  BY UpFacts
<1> HIDE DEF u
<1>2. ~(n + u < r)
  <2>1. n + u \in Int
    BY <1>1
  <2> QED BY <1>1, <2>1, Apart
<1>3. ~(r < n + u)
  <2>1. n + u \in Int
    BY <1>1
  <2> QED BY <1>1, <2>1, Apart
<1>4. n + u = r
  BY <1>1, <1>2, <1>3
<1> QED BY <1>4 DEF u

\* A lower address is rounded up to a lower one.
LEMMA UpMonotone ==
  ASSUME NEW m \in Int, NEW n \in Int, NEW a \in Nat, a > 0, m <= n
  PROVE  m + ((-m) % a) <= n + ((-n) % a)
<1> DEFINE u == (-m) % a
           v == (-n) % a
<1>1. /\ u \in 0..a - 1 /\ (m + u) % a = 0
      /\ v \in 0..a - 1 /\ (n + v) % a = 0
  BY UpFacts
<1> HIDE DEF u, v
<1>2. ~(n + v < m + u)
  <2>1. n + v \in Int /\ m + u \in Int
    BY <1>1
  <2> QED BY <1>1, <2>1, Apart
<1>3. m + u <= n + v
  BY <1>1, <1>2
<1> QED BY <1>3 DEF u, v

\* Below WORD nothing wraps around.
LEMMA WrapSame == ASSUME NEW n \in 0..WORD - 1 PROVE Wrap(n) = n
  BY WordFacts DEF Wrap

LEMMA RoundUpIs ==
  ASSUME NEW n \in Int, NEW a \in Nat, a > 0,
         NEW r \in 0..WORD - 1, r % a = 0, n <= r, r < n + a
  PROVE  RoundUp(n, a) = r
<1>1. r \in Int
  BY WordFacts
<1>2. n + ((-n) % a) = r
  BY <1>1, UpIs
<1> QED BY <1>2, WrapSame DEF RoundUp

LEMMA RoundUpFacts ==
  ASSUME NEW n \in Nat, NEW a \in Nat, a > 0, n + a <= WORD
  PROVE  /\ RoundUp(n, a) = n + ((-n) % a)
         /\ RoundUp(n, a) \in n .. n + a - 1 /\ RoundUp(n, a) % a = 0
<1>1. ((-n) % a) \in 0..a - 1 /\ (n + ((-n) % a)) % a = 0
  BY UpFacts
<1> DEFINE u == (-n) % a
<1>2. u \in 0..a - 1 /\ (n + u) % a = 0
  BY <1>1
<1> HIDE DEF u
<1>3. n + u \in 0..WORD - 1
  BY <1>2, WordFacts
<1>4. RoundUp(n, a) = n + u
  BY <1>3, WrapSame DEF RoundUp, u
<1>5. RoundUp(n, a) \in n .. n + a - 1
  BY <1>2, <1>4
<1>6. RoundUp(n, a) % a = 0
  BY <1>2, <1>4
<1> QED BY <1>4, <1>5, <1>6 DEF u

LEMMA RoundDownFacts ==
  ASSUME NEW n \in Nat, NEW a \in Nat, a > 0
  PROVE  /\ RoundDown(n, a) \in 0..n /\ n < RoundDown(n, a) + a
         /\ RoundDown(n, a) % a = 0
<1>1. (n % a) \in 0..a - 1 /\ (n \div a) \in Int /\ n = (a * (n \div a)) + (n % a)
  BY Quotient
<1> DEFINE q == n \div a
           r == n % a
<1>2. q \in Int /\ r \in 0..a - 1 /\ n = (a * q) + r
  BY <1>1
<1>3. r <= n
  <2> HIDE DEF q
  <2>1. CASE q >= 0
    <3>1. a * q >= 0
      BY <2>1, <1>2, Factor
    <3>2. a * q \in Int
      BY <1>2
    <3> HIDE DEF r
    <3> QED BY <1>2, <3>1, <3>2
  <2>2. CASE q < 0
    <3>1. a * q <= -a /\ a * q \in Int
      BY <2>2, <1>2, Factor
    <3> HIDE DEF r
    <3> QED BY <1>2, <3>1
  <2> QED BY <1>2, <2>1, <2>2
<1>4. RoundDown(n, a) = n - r
  BY DEF RoundDown
<1> HIDE DEF q, r
<1>5. n - r = (a * q) + 0 /\ 0 \in 0..a - 1
  <2>1. a * q \in Int
    BY <1>2
  <2> QED BY <1>2, <2>1
<1>6. (n - r) % a = 0
  BY <1>2, <1>5, Remainder
<1> QED BY <1>2, <1>3, <1>4, <1>6

LEMMA RoundDownIs ==
  ASSUME NEW r \in Nat, NEW a \in Nat, a > 0, r % a = 0, NEW u \in 0..a - 1
  PROVE  RoundDown(r + u, a) = r
<1>1. r \in Int
  OBVIOUS
<1>2. (r + u) % a = u
  BY <1>1, MultiplePlus
<1> QED BY <1>2 DEF RoundDown

-----------------------------------------------------------------------------
(***************************************************************************)
(* Lists                                                                   *)
(***************************************************************************)
NodesOf(L) == {L[k] : k \in 1..Len(L)}

\* The nodes of a list but those from i to j, and those.
Outside(L, i, j) == {L[k] : k \in (1..Len(L)) \ (i..j)}
Inside(L, i, j) == {L[k] : k \in i..j}

LEMMA ConcatAt ==
  ASSUME NEW S, NEW x \in Seq(S), NEW y \in Seq(S), NEW z \in Seq(S)
  PROVE  \A k \in 1..Len(x) + Len(y) + Len(z) :
            (x \o y \o z)[k] =
                IF k <= Len(x) THEN x[k]
                ELSE IF k <= Len(x) + Len(y) THEN y[k - Len(x)]
                ELSE z[k - (Len(x) + Len(y))]
<1>1. PICK s \in Seq(S) : s = x \o y
  BY ConcatProperties
<1>2. /\ Len(s) = Len(x) + Len(y)
      /\ \A k \in 1..Len(x) + Len(y) :
            s[k] = IF k <= Len(x) THEN x[k] ELSE y[k - Len(x)]
  BY <1>1, ConcatProperties
<1>3. \A k \in 1..Len(s) + Len(z) :
        (s \o z)[k] = IF k <= Len(s) THEN s[k] ELSE z[k - Len(s)]
  BY ConcatProperties
<1>4. Len(x) \in Nat /\ Len(y) \in Nat /\ Len(z) \in Nat
  OBVIOUS
<1> DEFINE t == s \o z
<1>5. \A k \in 1..Len(s) + Len(z) :
        t[k] = IF k <= Len(s) THEN s[k] ELSE z[k - Len(s)]
  BY <1>3
<1>6. t = x \o y \o z
  BY <1>1
<1> HIDE DEF t
<1>7. \A k \in 1..Len(x) + Len(y) + Len(z) :
        t[k] = IF k <= Len(x) THEN x[k]
               ELSE IF k <= Len(x) + Len(y) THEN y[k - Len(x)]
               ELSE z[k - (Len(x) + Len(y))]
  BY <1>2, <1>4, <1>5
<1> QED BY <1>6, <1>7

\* M is L with the nodes from i to j replaced by new ones.
Replaced(M, L, i, j, new) ==
    /\ Len(M) = Len(L) - (j - i + 1) + Len(new)
    /\ \A k \in 1..Len(L) - (j - i + 1) + Len(new) :
            M[k] = IF k < i THEN L[k]
                   ELSE IF k < i + Len(new) THEN new[k - (i - 1)]
                   ELSE L[k - (i - 1 + Len(new)) + j]

\* Where the nodes of a list are after some have been replaced by others.
LEMMA SpliceAt ==
  ASSUME NEW S, NEW L \in Seq(S), NEW new \in Seq(S),
         NEW i \in Nat, NEW j \in Nat, 1 <= i, i <= j + 1, j <= Len(L)
  PROVE  /\ Splice(L, i, j, new) \in Seq(S)
         /\ Replaced(Splice(L, i, j, new), L, i, j, new)
<1>0. Len(L) \in Nat /\ Len(new) \in Nat
  OBVIOUS
<1>1. PICK x \in Seq(S) : x = SubSeq(L, 1, i - 1)
  <2>1. \A k \in 1..i - 1 : L[k] \in S
    OBVIOUS
  <2>2. SubSeq(L, 1, i - 1) \in Seq(S)
    BY <2>1, SubSeqProperties
  <2> QED BY <2>2
<1>2. Len(x) = i - 1 /\ \A k \in 1..i - 1 : x[k] = L[k]
  <2>1. \A k \in 1..i - 1 : L[k] \in S
    OBVIOUS
  <2>2. /\ Len(SubSeq(L, 1, i - 1)) =
                IF 1 <= i - 1 THEN (i - 1) - 1 + 1 ELSE 0
        /\ \A k \in 1..(i - 1) - 1 + 1 : SubSeq(L, 1, i - 1)[k] = L[1 + k - 1]
    BY <2>1, SubSeqProperties
  <2> QED BY <1>1, <2>2
<1>3. PICK z \in Seq(S) : z = SubSeq(L, j + 1, Len(L))
  <2>1. \A k \in j + 1..Len(L) : L[k] \in S
    OBVIOUS
  <2>2. SubSeq(L, j + 1, Len(L)) \in Seq(S)
    BY <1>0, <2>1, SubSeqProperties
  <2> QED BY <2>2
<1>4. Len(z) = Len(L) - j /\ \A k \in 1..Len(L) - j : z[k] = L[k + j]
  <2>1. \A k \in j + 1..Len(L) : L[k] \in S
    OBVIOUS
  <2>2. /\ Len(SubSeq(L, j + 1, Len(L))) =
                IF j + 1 <= Len(L) THEN Len(L) - (j + 1) + 1 ELSE 0
        /\ \A k \in 1..Len(L) - (j + 1) + 1 :
            SubSeq(L, j + 1, Len(L))[k] = L[(j + 1) + k - 1]
    BY <1>0, <2>1, SubSeqProperties
  <2>3. \A k \in 1..Len(L) - j : (j + 1) + k - 1 = k + j
    BY <1>0
  <2> QED BY <1>0, <1>3, <2>2, <2>3
<1>5. Splice(L, i, j, new) = x \o new \o z
  BY <1>1, <1>3 DEF Splice
<1> DEFINE M == Splice(L, i, j, new)
<1>6. \A k \in 1..Len(x) + Len(new) + Len(z) :
        M[k] = IF k <= Len(x) THEN x[k]
               ELSE IF k <= Len(x) + Len(new) THEN new[k - Len(x)]
               ELSE z[k - (Len(x) + Len(new))]
  BY <1>5, ConcatAt
<1> HIDE DEF M
<1>7. \A k \in 1..Len(L) - (j - i + 1) + Len(new) :
        M[k] = IF k < i THEN L[k]
               ELSE IF k < i + Len(new) THEN new[k - (i - 1)]
               ELSE L[k - (i - 1 + Len(new)) + j]
  <2> SUFFICES ASSUME NEW k \in 1..Len(L) - (j - i + 1) + Len(new)
               PROVE  M[k] = IF k < i THEN L[k]
                             ELSE IF k < i + Len(new) THEN new[k - (i - 1)]
                             ELSE L[k - (i - 1 + Len(new)) + j]
    OBVIOUS
  <2>1. k \in 1..Len(x) + Len(new) + Len(z)
    BY <1>0, <1>2, <1>4
  <2>2. CASE k < i
    BY <1>0, <1>2, <1>6, <2>1, <2>2
  <2>3. CASE k >= i /\ k < i + Len(new)
    BY <1>0, <1>2, <1>6, <2>1, <2>3
  <2>4. CASE k >= i + Len(new)
    <3>1. M[k] = z[k - (i - 1 + Len(new))]
      BY <1>0, <1>2, <1>6, <2>1, <2>4
    <3>2. k - (i - 1 + Len(new)) \in 1..Len(L) - j
      BY <1>0, <2>4
    <3>3. z[k - (i - 1 + Len(new))] = L[k - (i - 1 + Len(new)) + j]
      BY <1>4, <3>2
    <3> QED BY <1>0, <2>4, <3>1, <3>3
  <2> QED BY <1>0, <2>2, <2>3, <2>4
<1>8. M \in Seq(S)
  BY SpliceFacts DEF M
<1>9. Len(M) = Len(L) - (j - i + 1) + Len(new)
  BY SpliceFacts DEF M
<1> QED BY <1>7, <1>8, <1>9 DEF M, Replaced

\* The nodes of a list after some have been replaced by others.
LEMMA SpliceNodes ==
  ASSUME NEW S, NEW L \in Seq(S), NEW new \in Seq(S),
         NEW i \in Nat, NEW j \in Nat, 1 <= i, i <= j + 1, j <= Len(L)
  PROVE  /\ NodesOf(Splice(L, i, j, new)) = Outside(L, i, j) \cup NodesOf(new)
         /\ NodesOf(L) = Outside(L, i, j) \cup Inside(L, i, j)
<1> DEFINE M == Splice(L, i, j, new)
           n == Len(new)
           s == Len(L)
           m == Len(M)
<1>1. n \in Nat /\ s \in Nat
  OBVIOUS
<1>0. Replaced(M, L, i, j, new)
  BY SpliceAt
<1>2. m = s - (j - i + 1) + n
  BY <1>0 DEF Replaced
<1>3. \A k \in 1..m :
        M[k] = IF k < i THEN L[k] ELSE IF k < i + n THEN new[k - (i - 1)]
               ELSE L[k - (i - 1 + n) + j]
  BY <1>0, <1>2 DEF Replaced
<1>4. j <= s
  OBVIOUS
<1> HIDE DEF M, n, s, m
<1>5. ASSUME NEW k \in 1..m
      PROVE  M[k] \in Outside(L, i, j) \cup NodesOf(new)
  <2>1. CASE k < i
    <3>1. k \in (1..s) \ (i..j) /\ M[k] = L[k]
      BY <1>1, <1>2, <1>3, <1>4, <2>1
    <3> QED BY <3>1 DEF Outside, s
  <2>2. CASE k >= i /\ k < i + n
    <3>1. k - (i - 1) \in 1..n /\ M[k] = new[k - (i - 1)]
      BY <1>1, <1>2, <1>3, <1>4, <2>2
    <3> QED BY <3>1 DEF NodesOf, n
  <2>3. CASE k >= i + n
    <3>1. /\ k - (i - 1 + n) + j \in (1..s) \ (i..j)
          /\ M[k] = L[k - (i - 1 + n) + j]
      BY <1>1, <1>2, <1>3, <1>4, <2>3
    <3> QED BY <3>1 DEF Outside, s
  <2> QED BY <1>1, <2>1, <2>2, <2>3
<1>6. ASSUME NEW q \in (1..s) \ (i..j)
      PROVE  \E k \in 1..m : M[k] = L[q]
  <2>1. CASE q < i
    <3>1. q \in 1..m /\ M[q] = L[q]
      BY <1>1, <1>2, <1>3, <1>4, <2>1
    <3> QED BY <3>1
  <2>2. CASE q > j
    <3> DEFINE k == q - j + (i - 1 + n)
    <3>1. /\ k \in 1..m /\ ~(k < i) /\ ~(k < i + n)
          /\ k - (i - 1 + n) + j = q
      BY <1>1, <1>2, <1>4, <2>2
    <3> HIDE DEF k
    <3>2. M[k] = L[q]
      BY <1>3, <3>1
    <3> QED BY <3>1, <3>2
  <2> QED BY <1>1, <2>1, <2>2
<1>7. ASSUME NEW q \in 1..n
      PROVE  \E k \in 1..m : M[k] = new[q]
  <2> DEFINE k == q + (i - 1)
  <2>1. k \in 1..m /\ ~(k < i) /\ k < i + n /\ k - (i - 1) = q
    BY <1>1, <1>2, <1>4
  <2> HIDE DEF k
  <2>2. M[k] = new[q]
    BY <1>3, <2>1
  <2> QED BY <2>1, <2>2
<1>8. NodesOf(M) = Outside(L, i, j) \cup NodesOf(new)
  <2>1. NodesOf(M) \subseteq Outside(L, i, j) \cup NodesOf(new)
    BY <1>5 DEF NodesOf, m
  <2>2. Outside(L, i, j) \subseteq NodesOf(M)
    BY <1>6 DEF NodesOf, Outside, m, s
  <2>3. NodesOf(new) \subseteq NodesOf(M)
    BY <1>7 DEF NodesOf, m, n
  <2> QED BY <2>1, <2>2, <2>3
<1>9. NodesOf(L) = Outside(L, i, j) \cup Inside(L, i, j)
  <2>1. 1..s = ((1..s) \ (i..j)) \cup (i..j)
    BY <1>1, <1>4
  <2> QED BY <2>1 DEF NodesOf, Outside, Inside, s
<1> QED BY <1>8, <1>9 DEF M

\* A node that changes is replaced by one.
LEMMA ExceptIsSplice ==
  ASSUME NEW S, NEW L \in Seq(S), NEW i \in 1..Len(L), NEW one \in Seq(S),
         NEW e \in S, Len(one) = 1, one[1] = e
  PROVE  [L EXCEPT ![i] = e] = Splice(L, i, i, one)
<1>1. i \in Nat /\ 1 <= i /\ i <= i + 1 /\ i <= Len(L)
  OBVIOUS
<1>2. /\ Splice(L, i, i, one) \in Seq(S)
      /\ Replaced(Splice(L, i, i, one), L, i, i, one)
  BY <1>1, SpliceAt, Zenon
<1>3. Len(Splice(L, i, i, one)) = Len(L) - (i - i + 1) + Len(one)
  BY <1>2 DEF Replaced
<1> DEFINE M == Splice(L, i, i, one)
           R == [L EXCEPT ![i] = e]
           s == Len(L)
<1>0. Len(L) \in Nat
  OBVIOUS
<1>4. R \in Seq(S) /\ Len(R) = s /\ \A k \in 1..s : R[k] = IF k = i THEN e ELSE L[k]
  OBVIOUS
<1> HIDE DEF M, R, s
<1>5. Len(M) = s
  BY <1>0, <1>1, <1>3 DEF M, s
<1>6. \A k \in 1..s - (i - i + 1) + Len(one) :
        M[k] = IF k < i THEN L[k] ELSE IF k < i + Len(one) THEN one[k - (i - 1)]
               ELSE L[k - (i - 1 + Len(one)) + i]
  BY <1>2 DEF M, s, Replaced
<1>7. s \in Nat
  BY <1>0 DEF s
<1>8. ASSUME NEW k \in 1..s PROVE R[k] = M[k]
  <2>1. k \in 1..s - (i - i + 1) + Len(one)
    BY <1>1, <1>7
  <2>2. CASE k < i
    BY <1>4, <1>6, <2>1, <2>2
  <2>3. CASE k = i
    <3>1. k - (i - 1) = 1 /\ ~(k < i) /\ k < i + Len(one)
      BY <1>1, <2>3
    <3>2. M[k] = one[k - (i - 1)]
      BY <1>6, <2>1, <3>1, Zenon
    <3> QED BY <1>4, <2>3, <3>1, <3>2
  <2>4. CASE k > i
    <3>1. k - (i - 1 + Len(one)) + i = k /\ ~(k < i) /\ ~(k < i + Len(one))
      BY <1>1, <1>7, <2>4
    <3> QED BY <1>4, <1>6, <2>1, <2>4, <3>1
  <2> QED BY <1>1, <1>7, <2>2, <2>3, <2>4
<1>9. M \in Seq(S)
  BY <1>2 DEF M
<1>10. R = M
  BY <1>4, <1>5, <1>8, <1>9, SeqEqual
<1> QED BY <1>10 DEF R, M

-----------------------------------------------------------------------------
(***************************************************************************)
(* Nodes that lie in order                                                 *)
(***************************************************************************)
\* The sizes that blocks have.
Asked == {AtLeastOne(l) : l \in SIZES}

\* A node has bytes, all of them addresses, that hold the block; with blocks on
\* pages of their own these are whole pages.
Sound(n) ==
    /\ n \in NodeType /\ n.size > 0
    /\ 0 <= Low(n) /\ Low(n) <= n.block
    /\ n.block + n.size <= High(n) /\ High(n) <= WORD - 1
    /\ n.kind # "free" => n.size \in Asked
    /\ PAGEALLOC => /\ Low(n) % PAGE = 0 /\ High(n) % PAGE = 0
                    /\ n.kind # "free" /\ ~ALLOCUPPER => n.block % PAGE = 0

Sorted(L) ==
    \A i \in 1..Len(L), j \in 1..Len(L) : i < j => High(L[i]) <= Low(L[j])

Tiled(L) == Sorted(L) /\ \A i \in 1..Len(L) : Sound(L[i])

\* The bytes of a set of nodes.
MemoryOf(R) == UNION {Memory(n) : n \in R}

\* Nodes in order that make up the memory from lo to hi.
Strip(N, lo, hi) ==
    /\ N \in Seq(NodeType) /\ Tiled(N)
    /\ \A k \in 1..Len(N) : lo <= Low(N[k]) /\ High(N[k]) <= hi
    /\ MemoryOf(NodesOf(N)) = lo..hi - 1

LEMMA SoundFacts ==
  ASSUME NEW n, Sound(n)
  PROVE  /\ n \in NodeType /\ n.block \in Nat /\ n.size \in Nat /\ n.size > 0
         /\ Low(n) \in Nat /\ High(n) \in Nat /\ Low(n) < High(n)
         /\ Low(n) <= n.block /\ n.block + n.size <= High(n) /\ High(n) <= WORD - 1
<1>1. n \in NodeType
  BY DEF Sound
<1>2. /\ Low(n) \in Int /\ High(n) \in Int /\ n.block \in Int /\ n.size \in Int
  BY <1>1, NodeBounds
<1>3. n.block \in Nat /\ n.size \in Nat
  BY <1>1, WordFacts DEF NodeType, Size
<1> QED BY <1>1, <1>2, <1>3, WordFacts DEF Sound

LEMMA FreeBounds ==
  ASSUME NEW n, n.kind = "free"
  PROVE  Low(n) = n.block /\ High(n) = n.block + n.size
  BY DEF Low, High

LEMMA MemoryIs ==
  ASSUME NEW n, Sound(n)
  PROVE  Memory(n) = Low(n) .. High(n) - 1
<1>1. Low(n) \in Int /\ High(n) \in Int
  BY SoundFacts
<1> DEFINE lo == Low(n)
           hi == High(n)
<1> HIDE DEF lo, hi
<1>2. lo + (hi - lo) - 1 = hi - 1
  BY <1>1 DEF lo, hi
<1> QED BY <1>2 DEF Memory, Run, lo, hi

LEMMA TiledFacts ==
  ASSUME NEW L \in Seq(NodeType), Tiled(L)
  PROVE  /\ \A i \in 1..Len(L) : Sound(L[i])
         /\ \A i \in 1..Len(L), j \in 1..Len(L) : i < j => High(L[i]) <= Low(L[j])
  BY DEF Tiled, Sorted

\* Replacing nodes by others in the place of them keeps a list in order.
LEMMA SpliceTiled ==
  ASSUME NEW L \in Seq(NodeType), NEW new \in Seq(NodeType),
         NEW i \in Nat, NEW j \in Nat, 1 <= i, i <= j + 1, j <= Len(L),
         Tiled(L), Tiled(new), NEW lo \in Int, NEW hi \in Int, lo <= hi,
         \A k \in 1..Len(new) : lo <= Low(new[k]) /\ High(new[k]) <= hi,
         \A k \in 1..Len(L) : k < i => High(L[k]) <= lo,
         \A k \in 1..Len(L) : k > j => hi <= Low(L[k])
  PROVE  Tiled(Splice(L, i, j, new))
<1> DEFINE M == Splice(L, i, j, new)
           n == Len(new)
           s == Len(L)
           m == Len(M)
           Lw(q) == Low(L[q])
           Hw(q) == High(L[q])
<1>0. Replaced(M, L, i, j, new)
  BY SpliceAt
<1>1. n \in Nat /\ s \in Nat
  OBVIOUS
<1>2. m = s - (j - i + 1) + n
  BY <1>0 DEF Replaced
<1>3. \A k \in 1..m :
        M[k] = IF k < i THEN L[k] ELSE IF k < i + n THEN new[k - (i - 1)]
               ELSE L[k - (i - 1 + n) + j]
  BY <1>0, <1>2 DEF Replaced
<1>4. j <= s
  OBVIOUS
<1> HIDE DEF M, n, s, m
<1>5. /\ \A k \in 1..s : Sound(L[k])
      /\ \A k \in 1..s, q \in 1..s : k < q => High(L[k]) <= Low(L[q])
  BY TiledFacts DEF s
<1>6. /\ \A k \in 1..n : Sound(new[k])
      /\ \A k \in 1..n, q \in 1..n : k < q => High(new[k]) <= Low(new[q])
  BY TiledFacts DEF n
<1>7. /\ \A k \in 1..n : lo <= Low(new[k]) /\ High(new[k]) <= hi
      /\ \A k \in 1..s : k < i => High(L[k]) <= lo
      /\ \A k \in 1..s : k > j => hi <= Low(L[k])
  BY DEF n, s
<1>8. /\ \A k \in 1..s : Low(L[k]) \in Int /\ High(L[k]) \in Int
      /\ \A k \in 1..n : Low(new[k]) \in Int /\ High(new[k]) \in Int
  BY <1>5, <1>6, SoundFacts
\* Each node is one before, one of the new ones, or one behind.
<1>9. ASSUME NEW k \in 1..m
      PROVE  \/ k < i /\ k \in 1..s /\ M[k] = L[k]
             \/ k >= i /\ k < i + n /\ k - (i - 1) \in 1..n /\ M[k] = new[k - (i - 1)]
             \/ /\ k >= i + n /\ k - (i - 1 + n) + j \in 1..s
                /\ k - (i - 1 + n) + j > j /\ M[k] = L[k - (i - 1 + n) + j]
  BY <1>1, <1>2, <1>3, <1>4
<1>10. ASSUME NEW k \in 1..m PROVE Sound(M[k])
  BY <1>5, <1>6, <1>9
<1>11. ASSUME NEW k \in 1..m, NEW q \in 1..m, k < q
       PROVE  High(M[k]) <= Low(M[q])
  <2>1. CASE k < i /\ k \in 1..s /\ M[k] = L[k]
    <3>1. CASE q < i /\ q \in 1..s /\ M[q] = L[q]
      BY <1>5, <1>11, <2>1, <3>1
    <3>2. CASE q - (i - 1) \in 1..n /\ M[q] = new[q - (i - 1)]
      BY <1>7, <1>8, <2>1, <3>2
    <3>3. CASE /\ q - (i - 1 + n) + j \in 1..s
               /\ q - (i - 1 + n) + j > j /\ M[q] = L[q - (i - 1 + n) + j]
      BY <1>7, <1>8, <2>1, <3>3
    <3> QED BY <1>9, <3>1, <3>2, <3>3
  <2>2. CASE k >= i /\ k < i + n /\ k - (i - 1) \in 1..n /\ M[k] = new[k - (i - 1)]
    <3>1. ~(q < i)
      BY <1>11, <2>2
    <3>2. CASE q - (i - 1) \in 1..n /\ M[q] = new[q - (i - 1)]
      <4>1. k - (i - 1) < q - (i - 1)
        BY <1>11
      <4> QED BY <1>6, <2>2, <3>2, <4>1
    <3>3. CASE /\ q - (i - 1 + n) + j \in 1..s
               /\ q - (i - 1 + n) + j > j /\ M[q] = L[q - (i - 1 + n) + j]
      BY <1>7, <1>8, <2>2, <3>3
    <3> QED BY <1>9, <3>1, <3>2, <3>3
  <2>3. CASE /\ k >= i + n /\ k - (i - 1 + n) + j \in 1..s
             /\ k - (i - 1 + n) + j > j /\ M[k] = L[k - (i - 1 + n) + j]
    <3>1. ~(q < i) /\ ~(q < i + n)
      BY <1>1, <1>11, <2>3
    <3>2. /\ q - (i - 1 + n) + j \in 1..s
          /\ q - (i - 1 + n) + j > j /\ M[q] = L[q - (i - 1 + n) + j]
      BY <1>9, <3>1
    <3>3. k - (i - 1 + n) + j < q - (i - 1 + n) + j
      BY <1>1, <1>11
    <3> QED BY <1>5, <2>3, <3>2, <3>3
  <2> QED BY <1>9, <2>1, <2>2, <2>3
<1> QED BY <1>10, <1>11 DEF Tiled, Sorted, M, m

LEMMA MemoryOfUnion ==
  ASSUME NEW A, NEW B
  PROVE  MemoryOf(A \cup B) = MemoryOf(A) \cup MemoryOf(B)
  BY DEF MemoryOf

LEMMA NodesOfNone == NodesOf(<<>>) = {} /\ MemoryOf({}) = {}
  BY DEF NodesOf, MemoryOf

LEMMA NodesOfOne ==
  ASSUME NEW S, NEW N \in Seq(S), Len(N) = 1
  PROVE  NodesOf(N) = {N[1]}
  BY DEF NodesOf

LEMMA StripNone ==
  ASSUME NEW lo \in Int PROVE Strip(<<>>, lo, lo)
<1>1. MemoryOf(NodesOf(<<>>)) = {} /\ lo..lo - 1 = {}
  BY NodesOfNone
<1> QED BY <1>1 DEF Strip, Tiled, Sorted

LEMMA StripOne ==
  ASSUME NEW n, Sound(n), NEW N \in Seq(NodeType), Len(N) = 1, N[1] = n
  PROVE  Strip(N, Low(n), High(n)) /\ NodesOf(N) = {n}
<1>1. NodesOf(N) = {n}
  BY NodesOfOne
<1>2. MemoryOf(NodesOf(N)) = Low(n) .. High(n) - 1
  <2>1. MemoryOf({n}) = Memory(n)
    BY DEF MemoryOf
  <2> QED BY <1>1, <2>1, MemoryIs
<1>3. \A k \in 1..Len(N) : k = 1
  OBVIOUS
<1>4. Tiled(N)
  BY <1>3 DEF Tiled, Sorted
<1>5. Low(n) \in Int /\ High(n) \in Int
  BY SoundFacts
<1>6. \A k \in 1..Len(N) : Low(n) <= Low(N[k]) /\ High(N[k]) <= High(n)
  BY <1>3, <1>5
<1> QED BY <1>1, <1>2, <1>4, <1>6 DEF Strip

LEMMA StripConcat ==
  ASSUME NEW x, NEW y, NEW lo \in Int, NEW mid \in Int, NEW hi \in Int,
         lo <= mid, mid <= hi, Strip(x, lo, mid), Strip(y, mid, hi)
  PROVE  Strip(x \o y, lo, hi) /\ NodesOf(x \o y) = NodesOf(x) \cup NodesOf(y)
<1>1. /\ x \in Seq(NodeType) /\ y \in Seq(NodeType) /\ Tiled(x) /\ Tiled(y)
      /\ \A k \in 1..Len(x) : lo <= Low(x[k]) /\ High(x[k]) <= mid
      /\ \A k \in 1..Len(y) : mid <= Low(y[k]) /\ High(y[k]) <= hi
      /\ MemoryOf(NodesOf(x)) = lo..mid - 1 /\ MemoryOf(NodesOf(y)) = mid..hi - 1
  BY DEF Strip
<1> DEFINE M == x \o y
           s == Len(x)
           n == Len(y)
<1>2. /\ M \in Seq(NodeType) /\ Len(M) = s + n /\ s \in Nat /\ n \in Nat
      /\ \A k \in 1..s + n : M[k] = IF k <= s THEN x[k] ELSE y[k - s]
  BY <1>1, ConcatProperties
<1>3. /\ \A k \in 1..s : /\ Sound(x[k]) /\ lo <= Low(x[k]) /\ High(x[k]) <= mid
      /\ \A k \in 1..s, q \in 1..s : k < q => High(x[k]) <= Low(x[q])
      /\ \A k \in 1..n : /\ Sound(y[k]) /\ mid <= Low(y[k]) /\ High(y[k]) <= hi
      /\ \A k \in 1..n, q \in 1..n : k < q => High(y[k]) <= Low(y[q])
  BY <1>1, TiledFacts
<1> HIDE DEF M, s, n
<1>4. /\ \A k \in 1..s : Low(x[k]) \in Int /\ High(x[k]) \in Int
      /\ \A k \in 1..n : Low(y[k]) \in Int /\ High(y[k]) \in Int
  BY <1>3, SoundFacts
<1>5. ASSUME NEW k \in 1..s + n
      PROVE  \/ k \in 1..s /\ M[k] = x[k]
             \/ k > s /\ k - s \in 1..n /\ M[k] = y[k - s]
  BY <1>2
<1>6. ASSUME NEW k \in 1..s + n
      PROVE  Sound(M[k]) /\ lo <= Low(M[k]) /\ High(M[k]) <= hi
  <2>1. CASE k \in 1..s /\ M[k] = x[k]
    BY <1>3, <1>4, <2>1
  <2>2. CASE k - s \in 1..n /\ M[k] = y[k - s]
    BY <1>3, <1>4, <2>2
  <2> QED BY <1>5, <2>1, <2>2
<1>7. ASSUME NEW k \in 1..s + n, NEW q \in 1..s + n, k < q
      PROVE  High(M[k]) <= Low(M[q])
  <2>1. CASE k \in 1..s /\ M[k] = x[k]
    <3>1. CASE q \in 1..s /\ M[q] = x[q]
      BY <1>3, <1>7, <2>1, <3>1
    <3>2. CASE q - s \in 1..n /\ M[q] = y[q - s]
      BY <1>3, <1>4, <2>1, <3>2
    <3> QED BY <1>5, <3>1, <3>2
  <2>2. CASE k > s /\ k - s \in 1..n /\ M[k] = y[k - s]
    <3>1. q > s /\ k - s < q - s /\ ~(q \in 1..s)
      BY <1>2, <1>7, <2>2
    <3>2. q - s \in 1..n /\ M[q] = y[q - s]
      BY <1>5, <3>1
    <3> QED BY <1>3, <2>2, <3>1, <3>2
  <2> QED BY <1>5, <2>1, <2>2
<1>8. Tiled(M)
  BY <1>2, <1>6, <1>7 DEF Tiled, Sorted
<1>9. NodesOf(M) = NodesOf(x) \cup NodesOf(y)
  <2>1. NodesOf(M) \subseteq NodesOf(x) \cup NodesOf(y)
    BY <1>2, <1>5 DEF NodesOf, s, n
  <2>2. NodesOf(x) \subseteq NodesOf(M)
    <3>1. \A k \in 1..s : k \in 1..Len(M) /\ M[k] = x[k]
      BY <1>2
    <3> QED BY <3>1 DEF NodesOf, s
  <2>3. NodesOf(y) \subseteq NodesOf(M)
    <3>1. \A k \in 1..n : k + s \in 1..Len(M) /\ M[k + s] = y[k]
      BY <1>2
    <3> QED BY <3>1 DEF NodesOf, n
  <2> QED BY <2>1, <2>2, <2>3
<1>10. MemoryOf(NodesOf(M)) = lo..hi - 1
  <2>1. MemoryOf(NodesOf(M)) = (lo..mid - 1) \cup (mid..hi - 1)
    BY <1>1, <1>9, MemoryOfUnion
  <2> QED BY <2>1
<1> QED BY <1>2, <1>6, <1>8, <1>9, <1>10 DEF Strip, M

LEMMA NodesOfFinite ==
  ASSUME NEW S, NEW L \in Seq(S)
  PROVE  IsFiniteSet(NodesOf(L)) /\ NodesOf(L) \subseteq S
<1>1. L \in [1..Len(L) -> NodesOf(L)] /\ NodesOf(L) \subseteq S
  BY DEF NodesOf
<1>2. L \in Surjection(1..Len(L), NodesOf(L))
  BY <1>1 DEF Surjection, NodesOf
<1>3. IsFiniteSet(1..Len(L))
  BY FS_Interval
<1>4. IsFiniteSet(NodesOf(L))
  BY <1>2, <1>3, FS_Surjection
<1> QED BY <1>1, <1>4

\* A list M has the nodes of a list L, but new ones from lo to hi for old ones;
\* all the others are R.
Swapped(L, M, R, old, new, lo, hi) ==
    /\ M \in Seq(NodeType) /\ Tiled(M)
    /\ NodesOf(L) = R \cup old /\ NodesOf(M) = R \cup new
    /\ IsFiniteSet(R)
    /\ \A r \in R : Sound(r) /\ (High(r) <= lo \/ hi <= Low(r))

LEMMA Swap ==
  ASSUME NEW L \in Seq(NodeType), Tiled(L),
         NEW i \in Nat, NEW j \in Nat, 1 <= i, i <= j + 1, j <= Len(L),
         NEW lo \in Int, NEW hi \in Int, lo <= hi,
         NEW new, Strip(new, lo, hi),
         \A k \in 1..Len(L) : k < i => High(L[k]) <= lo,
         \A k \in 1..Len(L) : k > j => hi <= Low(L[k])
  PROVE  Swapped(L, Splice(L, i, j, new), Outside(L, i, j), Inside(L, i, j),
                 NodesOf(new), lo, hi)
<1>1. /\ new \in Seq(NodeType) /\ Tiled(new)
      /\ \A k \in 1..Len(new) : lo <= Low(new[k]) /\ High(new[k]) <= hi
  BY DEF Strip
<1>2. Splice(L, i, j, new) \in Seq(NodeType)
  BY <1>1, SpliceAt
<1>3. Tiled(Splice(L, i, j, new))
  BY <1>1, SpliceTiled
<1>4. /\ NodesOf(Splice(L, i, j, new)) = Outside(L, i, j) \cup NodesOf(new)
      /\ NodesOf(L) = Outside(L, i, j) \cup Inside(L, i, j)
  BY <1>1, SpliceNodes
<1>5. IsFiniteSet(Outside(L, i, j))
  <2>1. IsFiniteSet(NodesOf(L))
    BY NodesOfFinite
  <2>2. Outside(L, i, j) \in SUBSET NodesOf(L)
    BY <1>4
  <2> QED BY <2>1, <2>2, FS_Subset
<1>6. ASSUME NEW r \in Outside(L, i, j)
      PROVE  Sound(r) /\ (High(r) <= lo \/ hi <= Low(r))
  <2>1. PICK k \in (1..Len(L)) \ (i..j) : r = L[k]
    BY DEF Outside
  <2>2. Sound(r)
    BY <2>1, TiledFacts
  <2>3. k < i \/ k > j
    BY <2>1
  <2> QED BY <2>1, <2>2, <2>3
<1> QED BY <1>2, <1>3, <1>4, <1>5, <1>6 DEF Swapped

-----------------------------------------------------------------------------
(***************************************************************************)
(* Totals                                                                  *)
(***************************************************************************)
SizeOf == [n \in NodeType |-> n.size]
OfKind(R, k) == {n \in R : n.kind = k}

\* The total size of the nodes of a kind, and what one node adds to it.
Held(R, k) == SumOf(SizeOf, OfKind(R, k))
Part(n, k) == IF n.kind = k THEN n.size ELSE 0

LEMMA SizeOfFacts ==
  \A n \in NodeType : SizeOf[n] = n.size /\ SizeOf[n] \in Nat
<1>1. \A n \in NodeType : n.size \in Nat
  BY WordFacts DEF NodeType, Size
<1> QED BY <1>1 DEF SizeOf

LEMMA HeldInt ==
  ASSUME NEW R \in SUBSET NodeType, IsFiniteSet(R), NEW k
  PROVE  Held(R, k) \in Nat
<1>1. IsFiniteSet(OfKind(R, k)) /\ OfKind(R, k) \subseteq NodeType
  BY FS_Subset DEF OfKind
<1>2. \A n \in OfKind(R, k) : SizeOf[n] \in Nat
  BY <1>1, SizeOfFacts
<1> HIDE DEF OfKind
<1> QED BY <1>1, <1>2, SumNat DEF Held

LEMMA HeldAdd ==
  ASSUME NEW R \in SUBSET NodeType, IsFiniteSet(R), NEW k,
         NEW n \in NodeType, n \notin R
  PROVE  Held(R \cup {n}, k) = Held(R, k) + Part(n, k)
<1> DEFINE O == OfKind(R, k)
<1>1. IsFiniteSet(O) /\ O \subseteq NodeType
  BY FS_Subset DEF OfKind
<1>2. Held(R, k) \in Nat
  BY HeldInt
<1>3. CASE n.kind = k
  <2>1. OfKind(R \cup {n}, k) = O \cup {n}
    BY <1>3 DEF OfKind
  <2>2. n \notin O
    BY DEF OfKind
  <2>3. \A m \in O \cup {n} : SizeOf[m] \in Int
    BY <1>1, SizeOfFacts
  <2> HIDE DEF O
  <2>4. SumOf(SizeOf, O \cup {n}) = SizeOf[n] + SumOf(SizeOf, O)
    BY <1>1, <2>2, <2>3, SumAdd
  <2>5. Held(R, k) = SumOf(SizeOf, O)
    BY DEF Held, O
  <2>6. SizeOf[n] = n.size /\ n.size \in Nat
    BY SizeOfFacts
  <2>7. Held(R \cup {n}, k) = SumOf(SizeOf, O \cup {n})
    BY <2>1 DEF Held
  <2>8. Part(n, k) = n.size
    BY <1>3 DEF Part
  <2> QED BY <1>2, <2>4, <2>5, <2>6, <2>7, <2>8
<1>4. CASE n.kind # k
  <2>1. OfKind(R \cup {n}, k) = OfKind(R, k)
    BY <1>4 DEF OfKind
  <2> QED BY <1>2, <1>4, <2>1 DEF Held, Part
<1> QED BY <1>3, <1>4

\* Nodes apart from each other.
Apt(R) ==
    /\ R \in SUBSET NodeType /\ IsFiniteSet(R)
    /\ \A n \in R : Sound(n)
    /\ \A n \in R, m \in R : n # m => High(n) <= Low(m) \/ High(m) <= Low(n)

\* They are no larger together than the memory up to the last one.
LEMMA SumUpTo ==
  ASSUME NEW R, Apt(R), NEW hi \in Nat, \A n \in R : High(n) <= hi
  PROVE  SumOf(SizeOf, R) <= hi
<1> DEFINE Q == {T \in SUBSET R :
                    \A h \in Nat : (\A n \in T : High(n) <= h)
                                        => SumOf(SizeOf, T) <= h}
<1>1. /\ IsFiniteSet(R) /\ R \subseteq NodeType /\ \A n \in R : Sound(n)
      /\ \A n \in R, m \in R : n # m => High(n) <= Low(m) \/ High(m) <= Low(n)
  BY DEF Apt
<1>2. ASSUME NEW T \in SUBSET R, \A U \in SUBSET T : U # T => U \in Q
      PROVE  T \in Q
  <2> SUFFICES ASSUME NEW h \in Nat, \A n \in T : High(n) <= h
               PROVE  SumOf(SizeOf, T) <= h
    OBVIOUS
  <2>1. CASE T = {}
    BY <2>1, SumEmpty
  <2>2. CASE T # {}
    <3> DEFINE N == {WORD - Low(n) : n \in T}
    <3>1. \A n \in T : Low(n) \in Nat /\ High(n) \in Nat /\ Low(n) < High(n)
                       /\ High(n) <= WORD - 1
      BY <1>1, SoundFacts
    <3>2. N \in SUBSET Nat /\ N # {}
      <4>1. \A n \in T : WORD - Low(n) \in Nat
        BY <3>1, WordFacts
      <4> QED BY <2>2, <4>1
    <3>3. PICK w \in N : \A v \in N : w <= v
      <4> HIDE DEF N
      <4> QED BY <3>2, Least
    <3>4. PICK m \in T : w = WORD - Low(m)
      OBVIOUS
    <3>5. ASSUME NEW n \in T \ {m} PROVE High(n) <= Low(m)
      <4>1. WORD - Low(m) <= WORD - Low(n)
        BY <3>3, <3>4
      <4>2. Low(n) <= Low(m)
        BY <3>1, <4>1, WordFacts
      <4>3. ~(High(m) <= Low(n))
        BY <3>1, <4>2
      <4> QED BY <1>1, <3>5, <4>3
    <3> HIDE DEF N
    <3>6. T \ {m} \in Q
      BY <1>2
    <3>7. SumOf(SizeOf, T \ {m}) <= Low(m)
      BY <3>1, <3>5, <3>6
    <3>8. IsFiniteSet(T) /\ \A n \in T : SizeOf[n] \in Nat /\ SizeOf[n] = n.size
      BY <1>1, FS_Subset, SizeOfFacts
    <3>9. SumOf(SizeOf, T) = SizeOf[m] + SumOf(SizeOf, T \ {m})
      BY <3>8, SumRemove
    <3>10. IsFiniteSet(T \ {m})
      BY <3>8, FS_RemoveElement
    <3>11. SumOf(SizeOf, T \ {m}) \in Nat
      BY <3>8, <3>10, SumNat
    <3>12. /\ Low(m) <= m.block /\ m.block + m.size <= High(m) /\ High(m) <= h
           /\ m.block \in Nat /\ m.size \in Nat /\ High(m) \in Nat
      BY <1>1, SoundFacts
    <3>13. SizeOf[m] = m.size
      BY <3>8
    <3> HIDE DEF Q
    <3> QED BY <3>1, <3>7, <3>9, <3>11, <3>12, <3>13
  <2> QED BY <2>1, <2>2
<1> HIDE DEF Q
<1>3. \A T \in SUBSET R : T \in Q
  BY <1>1, <1>2, SubsetInduction
<1>4. R \in Q
  BY <1>3
<1> QED BY <1>4 DEF Q

\* A total is a size.
LEMMA HeldBound ==
  ASSUME NEW R, Apt(R), NEW k
  PROVE  Held(R, k) \in 0..WORD - 1
<1>1. Apt(OfKind(R, k))
  BY FS_Subset DEF Apt, OfKind
<1>2. \A n \in OfKind(R, k) : High(n) <= WORD - 1
  BY <1>1, SoundFacts DEF Apt
<1>3. SumOf(SizeOf, OfKind(R, k)) <= WORD - 1
  BY <1>1, <1>2, SumUpTo, WordFacts
<1>4. Held(R, k) \in Nat
  BY HeldInt DEF Apt
<1> QED BY <1>3, <1>4, WordFacts DEF Held

LEMMA TiledApt ==
  ASSUME NEW L \in Seq(NodeType), Tiled(L)
  PROVE  Apt(NodesOf(L))
<1>1. \A i \in 1..Len(L), j \in 1..Len(L) :
        L[i] # L[j] => High(L[i]) <= Low(L[j]) \/ High(L[j]) <= Low(L[i])
  <2> SUFFICES ASSUME NEW i \in 1..Len(L), NEW j \in 1..Len(L), L[i] # L[j]
               PROVE  High(L[i]) <= Low(L[j]) \/ High(L[j]) <= Low(L[i])
    OBVIOUS
  <2>1. i < j \/ j < i
    OBVIOUS
  <2> QED BY <2>1, TiledFacts
<1>2. \A i \in 1..Len(L) : Sound(L[i])
  BY TiledFacts
<1>3. IsFiniteSet(NodesOf(L)) /\ NodesOf(L) \subseteq NodeType
  BY NodesOfFinite
<1> QED BY <1>1, <1>2, <1>3 DEF Apt, NodesOf

\* The totals over the list are those over its nodes.
LEMMA HeldIsTotal ==
  ASSUME list \in Seq(NodeType), Tiled(list), NEW k
  PROVE  SumOf([i \in 1..Len(list) |-> list[i].size], Nodes(k))
            = Held(NodesOf(list), k)
<1> DEFINE f == [i \in 1..Len(list) |-> list[i].size]
           S == Nodes(k)
<1>1. S \in SUBSET (1..Len(list)) /\ IsFiniteSet(S)
  <2>1. S \in SUBSET (1..Len(list)) /\ IsFiniteSet(1..Len(list))
    BY FS_Interval DEF Nodes
  <2> QED BY <2>1, FS_Subset
<1>2. \A i \in S : f[i] \in Int /\ f[i] = SizeOf[list[i]]
  <2>1. \A i \in S : i \in 1..Len(list) /\ list[i] \in NodeType
    BY <1>1
  <2> QED BY <2>1, SizeOfFacts
<1>3. \A i \in S, j \in S : list[i] = list[j] => i = j
  <2> SUFFICES ASSUME NEW i \in S, NEW j \in S, list[i] = list[j], i < j
               PROVE  FALSE
    BY <1>1
  <2>1. i \in 1..Len(list) /\ j \in 1..Len(list)
    BY <1>1
  <2>2. High(list[i]) <= Low(list[i])
    BY <2>1, TiledFacts
  <2> QED BY <2>1, <2>2, TiledFacts, SoundFacts
<1>4. Renamed(list, S) = OfKind(NodesOf(list), k)
  BY DEF Nodes, OfKind, NodesOf, Renamed
<1> HIDE DEF f, S
<1>5. SumOf(f, S) = SumOf(SizeOf, Renamed(list, S))
  <2> DEFINE g == SizeOf
  <2>1. \A i \in S : f[i] \in Int /\ f[i] = g[list[i]]
    BY <1>2
  <2> HIDE DEF g
  <2>2. IsFiniteSet(S)
    BY <1>1
  <2>3. SumOf(f, S) = SumOf(g, Renamed(list, S))
    BY <1>3, <2>1, <2>2, SumImage
  <2> QED BY <2>3 DEF g
<1> QED BY <1>4, <1>5 DEF f, S, Held

-----------------------------------------------------------------------------
(***************************************************************************)
(* Merging free nodes                                                      *)
(***************************************************************************)
Kinds == {"free", "alloc", "freed"}

Free(n) == n.kind = "free"

\* No two free nodes border on each other, or only those that one node is of.
NoTouch(R) ==
    \A n \in R, m \in R : Free(n) /\ Free(m) => High(n) # Low(m)
TouchOnly(R, x) ==
    \A n \in R, m \in R :
        Free(n) /\ Free(m) /\ High(n) = Low(m) => n = x \/ m = x

LEMMA TiledDistinct ==
  ASSUME NEW L \in Seq(NodeType), Tiled(L),
         NEW i \in 1..Len(L), NEW j \in 1..Len(L), L[i] = L[j]
  PROVE  i = j
<1>1. \A q \in 1..Len(L) : Sound(L[q])
  BY TiledFacts
<1>2. /\ Low(L[i]) \in Nat /\ High(L[i]) \in Nat /\ Low(L[i]) < High(L[i])
      /\ Low(L[j]) \in Nat /\ High(L[j]) \in Nat /\ Low(L[j]) < High(L[j])
  BY <1>1, SoundFacts
<1>3. ~(i < j)
  <2> SUFFICES ASSUME i < j PROVE FALSE
    OBVIOUS
  <2>1. High(L[i]) <= Low(L[j])
    BY TiledFacts
  <2> QED BY <1>2, <2>1
<1>4. ~(j < i)
  <2> SUFFICES ASSUME j < i PROVE FALSE
    OBVIOUS
  <2>1. High(L[j]) <= Low(L[i])
    BY TiledFacts
  <2> QED BY <1>2, <2>1
<1> QED BY <1>3, <1>4

\* Nodes that meet are next to each other in the list.
LEMMA Neighbours ==
  ASSUME NEW L \in Seq(NodeType), Tiled(L),
         NEW i \in 1..Len(L), NEW j \in 1..Len(L), High(L[i]) = Low(L[j])
  PROVE  j = i + 1
<1>1. \A q \in 1..Len(L) : /\ Low(L[q]) \in Nat /\ High(L[q]) \in Nat
                           /\ Low(L[q]) < High(L[q])
  BY TiledFacts, SoundFacts
<1>2. \A p \in 1..Len(L), q \in 1..Len(L) : p < q => High(L[p]) <= Low(L[q])
  BY TiledFacts
<1>3. ~(j < i)
  BY <1>1, <1>2
<1>4. j # i
  BY <1>1
<1>5. ~(i + 1 < j)
  <2> SUFFICES ASSUME i + 1 < j PROVE FALSE
    OBVIOUS
  <2>1. i + 1 \in 1..Len(L) /\ i < i + 1
    OBVIOUS
  <2>2. High(L[i]) <= Low(L[i + 1]) /\ High(L[i + 1]) <= Low(L[j])
    BY <1>2, <2>1
  <2> QED BY <1>1, <2>1, <2>2
<1> QED BY <1>3, <1>4, <1>5

LEMMA OutsideFacts ==
  ASSUME NEW L \in Seq(NodeType), Tiled(L),
         NEW i \in 1..Len(L), NEW j \in 1..Len(L), NEW q \in 1..Len(L)
  PROVE  /\ L[q] \in Outside(L, i, j) <=> q \notin i..j
         /\ Outside(L, i, j) \in SUBSET NodeType /\ IsFiniteSet(Outside(L, i, j))
<1>1. L[q] \in Outside(L, i, j) <=> q \notin i..j
  BY TiledDistinct DEF Outside
<1>2. Outside(L, i, j) \in SUBSET NodesOf(L)
  BY DEF Outside, NodesOf
<1>3. IsFiniteSet(NodesOf(L)) /\ NodesOf(L) \subseteq NodeType
  BY NodesOfFinite
<1> QED BY <1>1, <1>2, <1>3, FS_Subset

\* Free memory from lo to hi adds to the free nodes only.
FreePart(k, s) == IF k = "free" THEN s ELSE 0

\* The nodes of a list from i to j are free, and without gaps between them.
Solid(L, i, j) ==
    /\ MemoryOf(Inside(L, i, j)) = Low(L[i]) .. High(L[j]) - 1
    /\ \A k \in Kinds :
        Held(NodesOf(L), k) =
            Held(Outside(L, i, j), k) + FreePart(k, High(L[j]) - Low(L[i]))
    /\ \A n \in Inside(L, i, j) : Free(n)

LEMMA HeldFree ==
  ASSUME NEW R \in SUBSET NodeType, IsFiniteSet(R), NEW n, Sound(n), Free(n),
         n \notin R, NEW k
  PROVE  /\ Held(R \cup {n}, k) = Held(R, k) + FreePart(k, High(n) - Low(n))
         /\ R \cup {n} \in SUBSET NodeType /\ IsFiniteSet(R \cup {n})
<1>1. /\ n \in NodeType /\ High(n) = n.block + n.size /\ Low(n) = n.block
      /\ n.block \in Nat /\ n.size \in Nat
  BY SoundFacts, FreeBounds DEF Free
<1>2. Part(n, k) = FreePart(k, High(n) - Low(n))
  BY <1>1 DEF Part, FreePart, Free
<1>3. Held(R \cup {n}, k) = Held(R, k) + Part(n, k)
  BY <1>1, HeldAdd
<1> QED BY <1>1, <1>2, <1>3, FS_AddElement

LEMMA SolidOne ==
  ASSUME NEW L \in Seq(NodeType), Tiled(L), NEW i \in 1..Len(L), Free(L[i])
  PROVE  Solid(L, i, i)
<1> DEFINE n == L[i]
           R == Outside(L, i, i)
<1>1. Inside(L, i, i) = {n}
  BY DEF Inside
<1>2. NodesOf(L) = R \cup {n}
  BY <1>1 DEF NodesOf, Outside, Inside
<1>3. n \notin R /\ R \in SUBSET NodeType /\ IsFiniteSet(R)
  BY OutsideFacts
<1>4. Sound(n)
  BY TiledFacts
<1>5. MemoryOf({n}) = Memory(n)
  BY DEF MemoryOf
<1>6. Memory(n) = Low(n) .. High(n) - 1
  BY <1>4, MemoryIs
<1>7. \A k \in Kinds : Held(R \cup {n}, k) = Held(R, k) + FreePart(k, High(n) - Low(n))
  <2> HIDE DEF n, R
  <2> QED BY <1>3, <1>4, HeldFree DEF n
<1> QED BY <1>1, <1>2, <1>5, <1>6, <1>7 DEF Solid

LEMMA SolidTwo ==
  ASSUME NEW L \in Seq(NodeType), Tiled(L),
         NEW i \in 1..Len(L), NEW j \in 1..Len(L), j = i + 1,
         Free(L[i]), Free(L[j]), High(L[i]) = Low(L[j])
  PROVE  Solid(L, i, j)
<1> DEFINE n == L[i]
           m == L[j]
           R == Outside(L, i, j)
<1>1. Inside(L, i, j) = {n} \cup {m}
  <2>1. i..j = {i} \cup {j}
    OBVIOUS
  <2> QED BY <2>1 DEF Inside
<1>2. NodesOf(L) = (R \cup {n}) \cup {m}
  <2>1. NodesOf(L) = R \cup Inside(L, i, j)
    <3>1. 1..Len(L) = ((1..Len(L)) \ (i..j)) \cup (i..j)
      OBVIOUS
    <3> QED BY <3>1 DEF NodesOf, Outside, Inside
  <2> QED BY <1>1, <2>1
<1>3. /\ n \notin R /\ m \notin R /\ n # m
      /\ R \in SUBSET NodeType /\ IsFiniteSet(R)
  BY OutsideFacts, TiledDistinct
<1>4. Sound(n) /\ Sound(m)
  BY TiledFacts
<1>5. MemoryOf({n} \cup {m}) = Memory(n) \cup Memory(m)
  BY DEF MemoryOf
<1> DEFINE a == Low(n)
           b == High(n)
           c == High(m)
<1>6. /\ a \in Nat /\ b \in Nat /\ c \in Nat /\ a < b /\ b < c /\ Low(m) = b
  BY <1>4, SoundFacts
<1>7. Memory(n) = a..b - 1 /\ Memory(m) = b..c - 1
  BY <1>4, <1>6, MemoryIs
<1>8. Free(n) /\ Free(m)
  OBVIOUS
<1> HIDE DEF n, m, R
<1>9. ASSUME NEW k \in Kinds
      PROVE  Held(NodesOf(L), k) = Held(R, k) + FreePart(k, c - a)
  <2>1. /\ Held(R \cup {n}, k) = Held(R, k) + FreePart(k, b - a)
        /\ R \cup {n} \in SUBSET NodeType /\ IsFiniteSet(R \cup {n})
    BY <1>3, <1>4, <1>8, HeldFree
  <2>2. m \notin R \cup {n}
    BY <1>3
  <2> DEFINE S == R \cup {n}
  <2>3. S \in SUBSET NodeType /\ IsFiniteSet(S) /\ m \notin S
    BY <2>1, <2>2
  <2> HIDE DEF S
  <2>4. Held(S \cup {m}, k) = Held(S, k) + FreePart(k, c - b)
    BY <1>4, <1>6, <1>8, <2>3, HeldFree
  <2>5. Held(R, k) \in Nat
    BY <1>3, HeldInt
  <2>6. Held(S, k) = Held(R, k) + FreePart(k, b - a)
    BY <2>1 DEF S
  <2>7. Held(NodesOf(L), k) = Held(S \cup {m}, k)
    BY <1>2 DEF S
  <2> HIDE DEF a, b, c
  <2> QED BY <1>6, <2>4, <2>5, <2>6, <2>7 DEF FreePart
<1> HIDE DEF a, b, c
<1>10. MemoryOf(Inside(L, i, j)) = a..c - 1
  <2>1. MemoryOf(Inside(L, i, j)) = Memory(n) \cup Memory(m)
    BY <1>1, <1>5, Zenon
  <2>2. (a..b - 1) \cup (b..c - 1) = a..c - 1
    BY <1>6
  <2> QED BY <1>7, <2>1, <2>2, Zenon
<1> QED BY <1>1, <1>8, <1>9, <1>10 DEF Solid, a, c, n, m, R

LEMMA SolidThree ==
  ASSUME NEW L \in Seq(NodeType), Tiled(L), NEW i \in 1..Len(L),
         NEW j \in 1..Len(L), j = i + 1, NEW q \in 1..Len(L), q = j + 1,
         Free(L[i]), Free(L[j]), Free(L[q]),
         High(L[i]) = Low(L[j]), High(L[j]) = Low(L[q])
  PROVE  Solid(L, i, q)
<1> DEFINE n == L[i]
           m == L[j]
           x == L[q]
           R == Outside(L, i, q)
<1>1. Inside(L, i, q) = {n} \cup {m} \cup {x}
  <2>1. i..q = {i} \cup {j} \cup {q}
    OBVIOUS
  <2> QED BY <2>1 DEF Inside
<1>2. NodesOf(L) = ((R \cup {n}) \cup {m}) \cup {x}
  <2>1. NodesOf(L) = R \cup Inside(L, i, q)
    <3>1. 1..Len(L) = ((1..Len(L)) \ (i..q)) \cup (i..q)
      OBVIOUS
    <3> QED BY <3>1 DEF NodesOf, Outside, Inside
  <2> QED BY <1>1, <2>1
<1>3. /\ n \notin R /\ m \notin R /\ x \notin R /\ n # m /\ n # x /\ m # x
      /\ R \in SUBSET NodeType /\ IsFiniteSet(R)
  <2>1. i \in i..q /\ j \in i..q /\ q \in i..q
    OBVIOUS
  <2>2. n # m /\ n # x /\ m # x
    <3>1. i # j /\ i # q /\ j # q
      OBVIOUS
    <3> QED BY <3>1, TiledDistinct
  <2> QED BY <2>1, <2>2, OutsideFacts
<1>4. Sound(n) /\ Sound(m) /\ Sound(x)
  BY TiledFacts
<1>5. MemoryOf({n} \cup {m} \cup {x}) = Memory(n) \cup Memory(m) \cup Memory(x)
  BY DEF MemoryOf
<1> DEFINE a == Low(n)
           b == High(n)
           c == High(m)
           d == High(x)
<1>6. /\ a \in Nat /\ b \in Nat /\ c \in Nat /\ d \in Nat
      /\ a < b /\ b < c /\ c < d /\ Low(m) = b /\ Low(x) = c
  BY <1>4, SoundFacts
<1>7. Memory(n) = a..b - 1 /\ Memory(m) = b..c - 1 /\ Memory(x) = c..d - 1
  BY <1>4, <1>6, MemoryIs
<1>8. Free(n) /\ Free(m) /\ Free(x)
  OBVIOUS
<1> HIDE DEF n, m, x, R
<1>9. ASSUME NEW k \in Kinds
      PROVE  Held(NodesOf(L), k) = Held(R, k) + FreePart(k, d - a)
  <2> DEFINE S == R \cup {n}
             T == S \cup {m}
  <2>1. /\ Held(S, k) = Held(R, k) + FreePart(k, b - a)
        /\ S \in SUBSET NodeType /\ IsFiniteSet(S)
    BY <1>3, <1>4, <1>8, HeldFree
  <2>2. m \notin S /\ x \notin T
    BY <1>3
  <2>3. Held(NodesOf(L), k) = Held(T \cup {x}, k)
    BY <1>2
  <2> HIDE DEF S
  <2>4. /\ Held(T, k) = Held(S, k) + FreePart(k, c - b)
        /\ T \in SUBSET NodeType /\ IsFiniteSet(T)
    <3>1. /\ Held(T, k) = Held(S, k) + FreePart(k, High(m) - Low(m))
          /\ T \in SUBSET NodeType /\ IsFiniteSet(T)
      BY <1>4, <1>8, <2>1, <2>2, HeldFree
    <3> QED BY <1>6, <3>1
  <2> HIDE DEF T
  <2>5. Held(T \cup {x}, k) = Held(T, k) + FreePart(k, d - c)
    <3>1. Held(T \cup {x}, k) = Held(T, k) + FreePart(k, High(x) - Low(x))
      BY <1>4, <1>8, <2>2, <2>4, HeldFree
    <3> QED BY <1>6, <3>1
  <2>6. Held(R, k) \in Nat
    BY <1>3, HeldInt
  <2> HIDE DEF a, b, c, d
  <2> QED BY <1>6, <2>1, <2>3, <2>4, <2>5, <2>6 DEF FreePart
<1> HIDE DEF a, b, c, d
<1>10. MemoryOf(Inside(L, i, q)) = a..d - 1
  <2>1. MemoryOf(Inside(L, i, q)) = Memory(n) \cup Memory(m) \cup Memory(x)
    BY <1>1, <1>5, Zenon
  <2>2. (a..b - 1) \cup (b..c - 1) \cup (c..d - 1) = a..d - 1
    BY <1>6
  <2> QED BY <1>7, <2>1, <2>2, Zenon
<1> QED BY <1>1, <1>8, <1>9, <1>10 DEF Solid, a, d, n, m, x, R

\* The same blocks, live or freed.
Blocks(R) == {n \in R : ~Free(n)}

\* What merging free node i of a list L promises: M is a list of the same
\* memory and the same blocks, in which no free nodes border on each other and
\* node q has the memory of node i.
Merged(L, i, M, q) ==
    /\ M \in Seq(NodeType) /\ Tiled(M) /\ NoTouch(NodesOf(M))
    /\ MemoryOf(NodesOf(M)) = MemoryOf(NodesOf(L))
    /\ \A k \in Kinds : Held(NodesOf(M), k) = Held(NodesOf(L), k)
    /\ Blocks(NodesOf(M)) = Blocks(NodesOf(L))
    /\ q \in 1..Len(M) /\ Free(M[q])
    /\ Low(M[q]) <= Low(L[i]) /\ High(L[i]) <= High(M[q])

LEMMA BorderingMeets ==
  ASSUME NEW L \in Seq(NodeType), Tiled(L), NEW i \in Int, NEW j, j = i + 1,
         Bordering(L, i)
  PROVE  /\ i \in 1..Len(L) /\ j \in 1..Len(L) /\ Free(L[i]) /\ Free(L[j])
         /\ High(L[i]) = Low(L[j])
<1>1. i \in 1..Len(L) /\ j \in 1..Len(L) /\ Free(L[i]) /\ Free(L[j])
  BY DEF Bordering, Free
<1>2. High(L[i]) <= Low(L[j])
  BY <1>1, TiledFacts
<1>3. L[i].block + L[i].size >= L[j].block
  BY DEF Bordering
<1>4. High(L[i]) = L[i].block + L[i].size /\ Low(L[j]) = L[j].block
  BY <1>1, FreeBounds DEF Free
<1>5. L[i].block \in Nat /\ L[i].size \in Nat /\ L[j].block \in Nat
  BY <1>1, TiledFacts, SoundFacts
<1> QED BY <1>1, <1>2, <1>3, <1>4, <1>5

LEMMA NotBordering ==
  ASSUME NEW L \in Seq(NodeType), Tiled(L), NEW i \in 1..Len(L),
         NEW j \in 1..Len(L), Free(L[i]), Free(L[j]), High(L[i]) = Low(L[j])
  PROVE  j = i + 1 /\ Bordering(L, i)
<1>1. j = i + 1
  BY Neighbours
<1>2. High(L[i]) = L[i].block + L[i].size /\ Low(L[j]) = L[j].block
  BY FreeBounds DEF Free
<1>3. L[i].block \in Nat /\ L[i].size \in Nat /\ L[j].block \in Nat
  BY TiledFacts, SoundFacts
<1> DEFINE b == L[i].block
           s == L[i].size
           c == L[j].block
<1>4. b + s = c /\ b \in Nat /\ s \in Nat /\ c \in Nat
  BY <1>2, <1>3
<1> HIDE DEF b, s, c
<1>5. b + s >= c
  BY <1>4
<1>6. L[i].kind = "free" /\ L[j].kind = "free" /\ i \in 1..Len(L) - 1
  BY <1>1 DEF Free
<1> QED BY <1>1, <1>5, <1>6 DEF Bordering, b, s, c

\* A free node from lo to hi.
LEMMA FreeIsSound ==
  ASSUME NEW lo \in Nat, NEW hi \in Nat, lo < hi, hi <= WORD - 1,
         PAGEALLOC => lo % PAGE = 0 /\ hi % PAGE = 0
  PROVE  /\ Sound(Node("free", lo, hi - lo))
         /\ Low(Node("free", lo, hi - lo)) = lo
         /\ High(Node("free", lo, hi - lo)) = hi
         /\ Free(Node("free", lo, hi - lo))
         /\ Node("free", lo, hi - lo).size = hi - lo
<1> DEFINE n == Node("free", lo, hi - lo)
<1>1. n.kind = "free" /\ n.block = lo /\ n.size = hi - lo
  BY DEF Node
<1>2. n \in NodeType
  <2>1. lo \in Size /\ hi - lo \in Size
    BY WordFacts DEF Size
  <2> QED BY <2>1, NodeIsTyped
<1> HIDE DEF n
<1>3. Low(n) = lo /\ High(n) = hi
  BY <1>1, FreeBounds
<1>4. Sound(n)
  BY <1>1, <1>2, <1>3 DEF Sound
<1> QED BY <1>1, <1>3, <1>4 DEF n, Free

LEMMA MergeKeeps ==
  ASSUME NEW L \in Seq(NodeType), Tiled(L), NEW i \in 1..Len(L), Free(L[i]),
         TouchOnly(NodesOf(L), L[i])
  PROVE  Merged(L, i, MergeNode(L, i).list, MergeNode(L, i).node)
<1> DEFINE left == Bordering(L, i - 1)
           right == Bordering(L, i)
           first == IF left THEN i - 1 ELSE i
           last == IF right THEN i + 1 ELSE i
           before == IF first < i THEN L[first].size ELSE 0
           after == IF last > i THEN L[last].size ELSE 0
           lo == Low(L[first])
           hi == High(L[last])
           whole == Node("free", L[first].block,
                         Wrap(before + L[i].size + after))
           M == Splice(L, first, last, <<whole>>)
<1>1. left => /\ i - 1 \in 1..Len(L) /\ Free(L[i - 1])
              /\ High(L[i - 1]) = Low(L[i])
  <2>1. i - 1 \in Int /\ i = (i - 1) + 1
    OBVIOUS
  <2> QED BY <2>1, BorderingMeets
<1>2. right => /\ i + 1 \in 1..Len(L) /\ Free(L[i + 1])
               /\ High(L[i]) = Low(L[i + 1])
  <2>1. i \in Int /\ i + 1 \in Int
    OBVIOUS
  <2> QED BY <2>1, BorderingMeets
<1>3. /\ first \in 1..Len(L) /\ last \in 1..Len(L) /\ first <= i /\ i <= last
      /\ Free(L[first]) /\ Free(L[last])
  BY <1>1, <1>2
<1>4. \A q \in 1..Len(L) :
        /\ Sound(L[q]) /\ L[q].block \in Nat /\ L[q].size \in Nat
        /\ Low(L[q]) \in Nat /\ High(L[q]) \in Nat /\ Low(L[q]) < High(L[q])
        /\ High(L[q]) <= WORD - 1
        /\ Free(L[q]) => Low(L[q]) = L[q].block /\ High(L[q]) = L[q].block + L[q].size
  BY TiledFacts, SoundFacts, FreeBounds DEF Free
<1>5. Solid(L, first, last)
  <2>1. CASE left /\ right
    <3>1. PICK a \in 1..Len(L), c \in 1..Len(L) : a = i - 1 /\ c = i + 1
      BY <1>1, <1>2, <2>1
    <3>2. i = a + 1 /\ c = i + 1
      BY <3>1
    <3>3. first = a /\ last = c
      BY <2>1, <3>1
    <3>4. Solid(L, a, c)
      BY <1>1, <1>2, <2>1, <3>1, <3>2, SolidThree
    <3> QED BY <3>3, <3>4
  <2>2. CASE left /\ ~right
    <3>1. PICK a \in 1..Len(L) : a = i - 1
      BY <1>1, <2>2
    <3>2. i = a + 1
      BY <3>1
    <3>3. first = a /\ last = i
      BY <2>2, <3>1
    <3>4. Solid(L, a, i)
      BY <1>1, <2>2, <3>1, <3>2, SolidTwo
    <3> QED BY <3>3, <3>4
  <2>3. CASE ~left /\ right
    <3>1. PICK c \in 1..Len(L) : c = i + 1
      BY <1>2, <2>3
    <3>3. first = i /\ last = c
      BY <2>3, <3>1
    <3>4. Solid(L, i, c)
      BY <1>2, <2>3, <3>1, SolidTwo
    <3> QED BY <3>3, <3>4
  <2>4. CASE ~left /\ ~right
    <3>1. first = i /\ last = i
      BY <2>4
    <3> QED BY <3>1, SolidOne
  <2> QED BY <2>1, <2>2, <2>3, <2>4
<1>6. /\ before + L[i].size + after = hi - lo /\ lo = L[first].block
      /\ lo \in Nat /\ hi \in Nat /\ lo < hi /\ hi <= WORD - 1
      /\ lo <= Low(L[i]) /\ High(L[i]) <= hi
  <2>0. /\ lo \in Nat /\ hi \in Nat /\ hi <= WORD - 1 /\ lo = L[first].block
    BY <1>3, <1>4
  <2>1. CASE left /\ right
    <3>1. first = i - 1 /\ last = i + 1
      BY <2>1
    <3>2. i - 1 \in 1..Len(L) /\ i + 1 \in 1..Len(L)
      BY <1>1, <1>2, <2>1
    <3> DEFINE a == L[i - 1].block
               b == L[i].block
               c == L[i + 1].block
               x == L[i - 1].size
               y == L[i].size
               z == L[i + 1].size
    <3>3. /\ a \in Nat /\ b \in Nat /\ c \in Nat
          /\ x \in Nat /\ y \in Nat /\ z \in Nat
      BY <1>4, <3>2
    <3>4. /\ a + x = b /\ b + y = c /\ a < a + x /\ b < b + y /\ c < c + z
          /\ Low(L[i]) = b /\ High(L[i]) = b + y
          /\ lo = a /\ hi = c + z
      BY <1>1, <1>2, <1>4, <2>1, <3>1, <3>2
    <3>5. before = x /\ after = z
      BY <3>1
    <3> HIDE DEF a, b, c, x, z, y, before, after, lo, hi
    <3>6. before + y + after = hi - lo
      BY <3>3, <3>4, <3>5
    <3>7. lo < hi /\ lo <= Low(L[i]) /\ High(L[i]) <= hi
      BY <3>3, <3>4
    <3> QED BY <2>0, <3>6, <3>7 DEF y
  <2>2. CASE left /\ ~right
    <3>1. first = i - 1 /\ last = i
      BY <2>2
    <3>2. i - 1 \in 1..Len(L) /\ Free(L[i - 1]) /\ High(L[i - 1]) = Low(L[i])
      BY <1>1, <2>2
    <3> DEFINE a == L[i - 1].block
               b == L[i].block
               x == L[i - 1].size
               y == L[i].size
    <3>3. a \in Nat /\ b \in Nat /\ x \in Nat /\ y \in Nat
      BY <1>4, <3>2
    <3>4. /\ a + x = b /\ a < a + x /\ b < b + y
          /\ Low(L[i]) = b /\ High(L[i]) = b + y
          /\ lo = a /\ hi = b + y
      BY <1>4, <3>1, <3>2
    <3>5. before = x /\ after = 0
      BY <3>1
    <3> HIDE DEF a, b, x, y, before, after, lo, hi
    <3>6. before + y + after = hi - lo
      BY <3>3, <3>4, <3>5
    <3>7. lo < hi /\ lo <= Low(L[i]) /\ High(L[i]) <= hi
      BY <3>3, <3>4
    <3> QED BY <2>0, <3>6, <3>7 DEF y
  <2>3. CASE ~left /\ right
    <3>1. first = i /\ last = i + 1
      BY <2>3
    <3>2. i + 1 \in 1..Len(L) /\ Free(L[i + 1]) /\ High(L[i]) = Low(L[i + 1])
      BY <1>2, <2>3
    <3> DEFINE b == L[i].block
               c == L[i + 1].block
               y == L[i].size
               z == L[i + 1].size
    <3>3. b \in Nat /\ c \in Nat /\ y \in Nat /\ z \in Nat
      BY <1>4, <3>2
    <3>4. /\ b + y = c /\ b < b + y /\ c < c + z
          /\ Low(L[i]) = b /\ High(L[i]) = b + y
          /\ lo = b /\ hi = c + z
      BY <1>4, <3>1, <3>2
    <3>5. before = 0 /\ after = z
      BY <3>1
    <3> HIDE DEF b, c, z, y, before, after, lo, hi
    <3>6. before + y + after = hi - lo
      BY <3>3, <3>4, <3>5
    <3>7. lo < hi /\ lo <= Low(L[i]) /\ High(L[i]) <= hi
      BY <3>3, <3>4
    <3> QED BY <2>0, <3>6, <3>7 DEF y
  <2>4. CASE ~left /\ ~right
    <3>1. first = i /\ last = i
      BY <2>4
    <3> QED BY <1>4, <2>0, <3>1
  <2> QED BY <2>1, <2>2, <2>3, <2>4
<1>7. /\ Sound(whole) /\ Low(whole) = lo /\ High(whole) = hi /\ Free(whole)
  <2> HIDE DEF before, after, lo, hi
  <2>1. Wrap(before + L[i].size + after) = hi - lo
    <3>1. hi - lo \in 0..WORD - 1
      BY <1>6, WordFacts
    <3> QED BY <1>6, <3>1, WrapSame
  <2>2. whole = Node("free", lo, hi - lo)
    BY <1>6, <2>1
  <2>3. PAGEALLOC => lo % PAGE = 0 /\ hi % PAGE = 0
    BY <1>3, <1>4 DEF Sound, lo, hi
  <2> HIDE DEF whole
  <2> QED BY <1>6, <2>2, <2>3, FreeIsSound
<1> HIDE DEF whole, before, after
<1>8. PICK one \in Seq(NodeType) : one = <<whole>> /\ Len(one) = 1 /\ one[1] = whole
  <2>1. /\ <<whole>> \in Seq(NodeType) /\ Len(<<whole>>) = 1
        /\ <<whole>>[1] = whole
    BY <1>7 DEF Sound
  <2> QED BY <2>1, Zenon
<1>9. Strip(one, lo, hi) /\ NodesOf(one) = {whole}
  <2>1. Strip(one, Low(whole), High(whole)) /\ NodesOf(one) = {whole}
    BY <1>7, <1>8, StripOne
  <2> QED BY <1>7, <2>1
<1>10. /\ MergeNode(L, i).list = Splice(L, first, last, one)
       /\ MergeNode(L, i).node = first
  BY <1>8 DEF MergeNode, whole, before, after
<1> HIDE DEF first, last
<1>11. /\ first \in Nat /\ last \in Nat /\ 1 <= first /\ first <= last + 1
       /\ last <= Len(L) /\ lo <= hi /\ lo \in Int /\ hi \in Int
  BY <1>3, <1>6
<1>12. /\ \A k \in 1..Len(L) : k < first => High(L[k]) <= lo
       /\ \A k \in 1..Len(L) : k > last => hi <= Low(L[k])
  BY <1>3, TiledFacts
<1> DEFINE R == Outside(L, first, last)
           old == Inside(L, first, last)
           N == Splice(L, first, last, one)
<1> HIDE DEF lo, hi
<1>13. Swapped(L, N, R, old, NodesOf(one), lo, hi)
  BY <1>9, <1>11, <1>12, Swap
<1>14. /\ N \in Seq(NodeType) /\ Tiled(N)
       /\ NodesOf(L) = R \cup old /\ NodesOf(N) = R \cup {whole}
       /\ IsFiniteSet(R) /\ \A r \in R : Sound(r) /\ (High(r) <= lo \/ hi <= Low(r))
  BY <1>9, <1>13 DEF Swapped
<1>15. Replaced(N, L, first, last, one)
  BY <1>11, SpliceAt
<1> HIDE DEF R, old, N
<1>16. MemoryOf(NodesOf(N)) = MemoryOf(NodesOf(L))
  <2>1. MemoryOf({whole}) = lo..hi - 1
    BY <1>9 DEF Strip
  <2>2. MemoryOf(old) = lo..hi - 1
    BY <1>5 DEF Solid, old, lo, hi
  <2>3. MemoryOf(NodesOf(N)) = MemoryOf(R) \cup MemoryOf({whole})
    BY <1>14, MemoryOfUnion, Zenon
  <2>4. MemoryOf(NodesOf(L)) = MemoryOf(R) \cup MemoryOf(old)
    BY <1>14, MemoryOfUnion, Zenon
  <2> QED BY <2>1, <2>2, <2>3, <2>4, Zenon
<1>17. R \in SUBSET NodeType /\ whole \notin R
  <2>1. R \in SUBSET NodeType
    BY <1>14 DEF Sound
  <2>2. \A r \in R : r # whole
    BY <1>6, <1>7, <1>14, SoundFacts
  <2> QED BY <2>1, <2>2
<1>18. \A k \in Kinds : Held(NodesOf(N), k) = Held(NodesOf(L), k)
  <2> SUFFICES ASSUME NEW k \in Kinds
               PROVE  Held(NodesOf(N), k) = Held(NodesOf(L), k)
    OBVIOUS
  <2>1. Held(NodesOf(L), k) = Held(R, k) + FreePart(k, hi - lo)
    BY <1>5 DEF Solid, R, lo, hi
  <2>2. Held(R \cup {whole}, k) = Held(R, k) + FreePart(k, hi - lo)
    BY <1>7, <1>14, <1>17, HeldFree
  <2> QED BY <1>14, <2>1, <2>2
<1>19. Blocks(NodesOf(N)) = Blocks(NodesOf(L))
  <2>1. \A n \in old : Free(n)
    BY <1>5 DEF Solid, old
  <2> QED BY <1>7, <1>14, <2>1 DEF Blocks
<1>20. first \in 1..Len(N) /\ N[first] = whole
  <2>1. /\ Len(N) = Len(L) - (last - first + 1) + Len(one)
        /\ \A k \in 1..Len(L) - (last - first + 1) + Len(one) :
            N[k] = IF k < first THEN L[k]
                   ELSE IF k < first + Len(one) THEN one[k - (first - 1)]
                   ELSE L[k - (first - 1 + Len(one)) + last]
    BY <1>15 DEF Replaced
  <2>2. /\ first \in 1..Len(L) - (last - first + 1) + Len(one)
        /\ ~(first < first) /\ first < first + Len(one) /\ first - (first - 1) = 1
    BY <1>8, <1>11
  <2> QED BY <1>8, <2>1, <2>2
<1>21. NoTouch(NodesOf(N))
  <2> SUFFICES ASSUME NEW n \in NodesOf(N), NEW m \in NodesOf(N),
                      Free(n), Free(m), High(n) = Low(m)
               PROVE  FALSE
    BY DEF NoTouch
  <2>1. CASE n \in R /\ m \in R
    <3>1. n = L[i] \/ m = L[i]
      BY <1>14, <2>1 DEF TouchOnly
    <3>2. L[i] \notin R
      <4>1. i \in first..last
        BY <1>3
      <4> QED BY <1>3, <4>1, OutsideFacts DEF R
    <3> QED BY <2>1, <3>1, <3>2
  <2>2. CASE n = whole /\ m \in R
    <3>1. PICK q \in 1..Len(L) : m = L[q] /\ q \notin first..last
      BY <2>2 DEF R, Outside
    <3>2. High(L[last]) = Low(L[q])
      BY <1>7, <2>2, <3>1 DEF hi
    <3>3. q = last + 1 /\ Bordering(L, last)
      BY <1>3, <2>2, <3>1, <3>2, NotBordering
    <3>4. L[last] \in NodesOf(L) /\ m \in NodesOf(L)
      BY <1>3, <3>1 DEF NodesOf
    <3>5. L[last] = L[i] \/ m = L[i]
      BY <1>3, <3>1, <3>2, <3>4 DEF TouchOnly
    <3>6. last = i
      BY <1>3, <3>1, <3>5, TiledDistinct
    <3>7. last = i + 1
      BY <3>3, <3>6 DEF last
    <3> QED BY <3>6, <3>7
  <2>3. CASE n \in R /\ m = whole
    <3>1. PICK q \in 1..Len(L) : n = L[q] /\ q \notin first..last
      BY <2>3 DEF R, Outside
    <3>2. High(L[q]) = Low(L[first])
      BY <1>7, <2>3, <3>1 DEF lo
    <3>3. first = q + 1 /\ Bordering(L, q)
      BY <1>3, <2>3, <3>1, <3>2, NotBordering
    <3>4. L[first] \in NodesOf(L) /\ n \in NodesOf(L)
      BY <1>3, <3>1 DEF NodesOf
    <3>5. L[first] = L[i] \/ n = L[i]
      BY <1>3, <3>1, <3>2, <3>4 DEF TouchOnly
    <3>6. first = i
      BY <1>3, <3>1, <3>5, TiledDistinct
    <3>7. q = i - 1
      BY <3>3, <3>6
    <3>8. first = i - 1
      BY <3>3, <3>7 DEF first
    <3> QED BY <3>6, <3>8
  <2>4. CASE n = whole /\ m = whole
    BY <1>6, <1>7, <2>4
  <2> QED BY <1>14, <2>1, <2>2, <2>3, <2>4
<1>22. Low(N[first]) <= Low(L[i]) /\ High(L[i]) <= High(N[first]) /\ Free(N[first])
  BY <1>6, <1>7, <1>20
<1> QED BY <1>10, <1>14, <1>16, <1>18, <1>19, <1>20, <1>21, <1>22 DEF Merged, N

-----------------------------------------------------------------------------
(***************************************************************************)
(* Splitting a free node                                                   *)
(***************************************************************************)
\* A free piece from lo to hi is one free node, or none if it is empty.
FreeNodes(lo, hi) == IF lo = hi THEN {} ELSE {Node("free", lo, hi - lo)}
Piece(x, lo, hi) == lo <= hi /\ Strip(x, lo, hi) /\ NodesOf(x) = FreeNodes(lo, hi)

\* What splitnode() and others put into the list for one.
PieceList(q, s) == IF s = 0 THEN <<>> ELSE <<Node("free", q, s)>>

LEMMA PieceMade ==
  ASSUME NEW lo \in Nat, NEW hi \in Nat, lo <= hi, hi <= WORD - 1,
         PAGEALLOC => lo % PAGE = 0 /\ hi % PAGE = 0, NEW s, s = hi - lo
  PROVE  Piece(PieceList(lo, s), lo, hi)
<1>1. CASE lo = hi
  <2>1. PieceList(lo, s) = <<>>
    BY <1>1 DEF PieceList
  <2>2. Strip(<<>>, lo, hi) /\ NodesOf(<<>>) = {}
    BY <1>1, StripNone, NodesOfNone
  <2> QED BY <1>1, <2>1, <2>2 DEF Piece, FreeNodes
<1>2. CASE lo # hi
  <2> DEFINE n == Node("free", lo, hi - lo)
  <2>1. Sound(n) /\ Low(n) = lo /\ High(n) = hi
    BY <1>2, FreeIsSound
  <2>2. PieceList(lo, s) = <<n>>
    BY <1>2 DEF PieceList
  <2> HIDE DEF n
  <2>3. PICK one \in Seq(NodeType) : one = <<n>> /\ Len(one) = 1 /\ one[1] = n
    <3>1. <<n>> \in Seq(NodeType) /\ Len(<<n>>) = 1 /\ <<n>>[1] = n
      BY <2>1 DEF Sound
    <3> QED BY <3>1, Zenon
  <2>4. Strip(one, lo, hi) /\ NodesOf(one) = {n}
    <3>1. Strip(one, Low(n), High(n)) /\ NodesOf(one) = {n}
      BY <2>1, <2>3, StripOne
    <3> QED BY <2>1, <3>1
  <2>5. FreeNodes(lo, hi) = {n}
    BY <1>2 DEF FreeNodes, n
  <2>6. PieceList(lo, s) = one
    BY <2>2, <2>3
  <2> QED BY <2>4, <2>5, <2>6 DEF Piece
<1> QED BY <1>1, <1>2

\* Adding a free piece adds its size to the free nodes.
Adds(R, lo, hi) ==
    /\ R \cup FreeNodes(lo, hi) \in SUBSET NodeType
    /\ IsFiniteSet(R \cup FreeNodes(lo, hi))
    /\ \A k : Held(R \cup FreeNodes(lo, hi), k) = Held(R, k) + FreePart(k, hi - lo)

LEMMA HeldFreeNodes ==
  ASSUME NEW R \in SUBSET NodeType, IsFiniteSet(R),
         NEW lo \in Nat, NEW hi \in Nat, lo <= hi, hi <= WORD - 1,
         PAGEALLOC => lo % PAGE = 0 /\ hi % PAGE = 0,
         lo < hi => Node("free", lo, hi - lo) \notin R
  PROVE  Adds(R, lo, hi)
<1> SUFFICES ASSUME NEW k
             PROVE  /\ R \cup FreeNodes(lo, hi) \in SUBSET NodeType
                    /\ IsFiniteSet(R \cup FreeNodes(lo, hi))
                    /\ Held(R \cup FreeNodes(lo, hi), k)
                            = Held(R, k) + FreePart(k, hi - lo)
  BY Zenon DEF Adds
<1>1. CASE lo = hi
  <2>1. R \cup FreeNodes(lo, hi) = R
    BY <1>1 DEF FreeNodes
  <2>2. FreePart(k, hi - lo) = 0
    BY <1>1 DEF FreePart
  <2>3. Held(R, k) \in Nat
    BY HeldInt
  <2>4. Held(R, k) = Held(R, k) + FreePart(k, hi - lo)
    BY <2>2, <2>3
  <2> QED BY <2>1, <2>4
<1>2. CASE lo < hi
  <2> DEFINE n == Node("free", lo, hi - lo)
  <2>1. Sound(n) /\ Low(n) = lo /\ High(n) = hi /\ Free(n)
    BY <1>2, FreeIsSound
  <2>2. FreeNodes(lo, hi) = {n}
    BY <1>2 DEF FreeNodes
  <2>3. n \notin R
    BY <1>2
  <2> HIDE DEF n
  <2>4. /\ Held(R \cup {n}, k) = Held(R, k) + FreePart(k, High(n) - Low(n))
        /\ R \cup {n} \in SUBSET NodeType /\ IsFiniteSet(R \cup {n})
    BY <2>1, <2>3, HeldFree
  <2> QED BY <2>1, <2>2, <2>4
<1> QED BY <1>1, <1>2

\* What the requests of a program must be like for the heap to stay in order:
\* no size wraps around when the overflow buffers are added and the sum is
\* rounded to pages, sizes differ by what a long can hold, overflow buffers that
\* are pages are whole ones, and memory from the system has room for the gap
\* that alignment leaves.
RequestsFit ==
    /\ PAGEALLOC => Oflow % PAGE = 0
    /\ \A l \in Asked : l + 2 * Oflow + PAGE <= WORD /\ l < WORD \div 2
    /\ ~PAGEALLOC =>
        \A l \in Asked, al \in ALIGNS, p \in HEAPPAGES :
            l + 2 * Oflow + ((-(p + Oflow)) % Alignment(al))
                <= HeapSize(RoundUp(l + 2 * Oflow, PAGE))

\* The free node n has room for a block of l bytes with alignment a.
Fits(n, l, a) ==
    l + 2 * Oflow + (IF PAGEALLOC THEN 0 ELSE (-(n.block + Oflow)) % a) <= n.size

\* The pieces p of a free node n: a block of l bytes, with its overflow buffers
\* from c to d, and free pieces on either side.
Cut(p, n, l, c, d) ==
    /\ Piece(p.left, Low(n), c) /\ Piece(p.right, d, High(n))
    /\ Sound(p.block) /\ p.block.kind = "alloc" /\ p.block.size = l
    /\ Low(p.block) = c /\ High(p.block) = d
    /\ p.unused = (c - Low(n)) + (High(n) - d)

\* Their block is aligned as long as pages are.
Aligned(blk, a) == (PAGEALLOC => PAGE % a = 0) => blk.block % a = 0

LEMMA AskedFacts ==
  ASSUME RequestsFit, NEW l \in Asked
  PROVE  /\ l \in Size /\ l \in Nat /\ l > 0 /\ Oflow \in Nat
         /\ l + 2 * Oflow + PAGE <= WORD /\ l < WORD \div 2
         /\ PAGEALLOC => Oflow % PAGE = 0
<1>1. Oflow \in Nat
  BY SizesAssumption
<1>2. l \in Size /\ l > 0
  BY WordFacts DEF Asked, AtLeastOne, Size
<1>3. l \in Nat
  BY <1>2, WordFacts DEF Size
<1> QED BY <1>1, <1>2, <1>3 DEF RequestsFit

\* A block that starts u bytes behind the start b of its pages.
LEMMA BlockOnPages ==
  ASSUME PAGEALLOC, NEW n, NEW b \in Nat, b % PAGE = 0, NEW u \in 0..PAGE - 1,
         n.block = b + u, NEW l \in Nat, n.size = l,
         NEW s \in 0..WORD - 1, s % PAGE = 0, l + u <= s, s < l + u + PAGE
  PROVE  Base(n) = b /\ Span(n) = s
<1>1. PAGE \in Nat /\ PAGE > 0
  BY WordFacts
<1>2. Base(n) = b
  <2>1. RoundDown(b + u, PAGE) = b
    BY <1>1, RoundDownIs
  <2> QED BY <2>1 DEF Base
<1>3. n.size + (n.block - Base(n)) = l + u
  BY <1>2
<1>4. RoundUp(l + u, PAGE) = s
  <2>1. l + u \in Int
    OBVIOUS
  <2> QED BY <1>1, <2>1, RoundUpIs
<1> QED BY <1>2, <1>3, <1>4 DEF Span

LEMMA BlockBounds ==
  ASSUME NEW n, ~Free(n)
  PROVE  Low(n) = Base(n) - Oflow /\ High(n) = Base(n) + Span(n) + Oflow
  BY DEF Low, High, Free

LEMMA BlockWithoutPages ==
  ASSUME ~PAGEALLOC, NEW n
  PROVE  Base(n) = n.block /\ Span(n) = n.size
  BY DEF Base, Span

LEMMA BlockIsSound ==
  ASSUME NEW b \in Nat, NEW l \in Asked, NEW c \in Nat, NEW d \in Nat,
         NEW n, n = Node("alloc", b, l), Low(n) = c, High(n) = d,
         c <= b, b + l <= d, d <= WORD - 1, RequestsFit,
         PAGEALLOC => c % PAGE = 0 /\ d % PAGE = 0 /\ (~ALLOCUPPER => b % PAGE = 0)
  PROVE  Sound(n)
<1>1. l \in Size /\ l \in Nat /\ l > 0
  BY AskedFacts
<1>2. b \in Size
  BY <1>1, WordFacts DEF Size
<1>3. n \in NodeType
  BY <1>1, <1>2, NodeIsTyped
<1>4. n.block = b /\ n.size = l
  BY DEF Node
<1> QED BY <1>1, <1>3, <1>4 DEF Sound

\* The pieces when blocks are not pages.
LEMMA PiecesOfBytes ==
  ASSUME ~PAGEALLOC, RequestsFit, NEW n, Sound(n), Free(n), NEW l \in Asked,
         NEW a \in 1..PAGE, Fits(n, l, a)
  PROVE  /\ \E c \in Nat, d \in Nat : Cut(Pieces(n, l, a), n, l, c, d)
         /\ Aligned(Pieces(n, l, a).block, a)
<1> DEFINE B == n.block
           N == n.size
           O == Oflow
           g == (-(B + O)) % a
           c == B + g
           d == B + g + l + 2 * O
           rest == N - (g + l + 2 * O)
           blk == Node("alloc", c + O, l)
<1>1. /\ B \in Nat /\ N \in Nat /\ O \in Nat /\ l \in Nat /\ l > 0
      /\ a \in Nat /\ a > 0 /\ WORD \in Nat
      /\ B + N <= WORD - 1 /\ Low(n) = B /\ High(n) = B + N
  BY SoundFacts, FreeBounds, AskedFacts, WordFacts DEF Free
<1>2. g \in Nat /\ (B + O) + g \in Int
  <2>1. B + O \in Int
    BY <1>1
  <2> HIDE DEF B, O
  <2>2. g \in 0..a - 1
    BY <1>1, <2>1, UpFacts
  <2> QED BY <1>1, <2>1, <2>2
<1>3. l + 2 * O + g <= N
  BY DEF Fits
<1>4. RoundUp(B + O, a) = Wrap((B + O) + g)
  BY DEF RoundUp
<1> HIDE DEF B, N, O, g
<1>5. /\ c \in Nat /\ d \in Nat /\ rest \in Nat /\ B <= c /\ c <= d /\ d <= B + N
      /\ B + N - d = rest /\ c - B = g
  BY <1>1, <1>2, <1>3
<1>6. /\ B + O \in 0..WORD - 1 /\ (B + O) + g \in 0..WORD - 1 /\ g \in 0..WORD - 1
      /\ N - 2 * O \in 0..WORD - 1 /\ rest \in 0..WORD - 1 /\ d \in 0..WORD - 1
      /\ (B + O) - O = B /\ ((B + O) + g) - (B + O) = g /\ B \in 0..WORD - 1
      /\ (N - 2 * O) - g - l = rest /\ (B + O) + g + l + O = d
      /\ (B + O) + g + 0 = c + O /\ c + O \in 0..WORD - 1
  BY <1>1, <1>2, <1>3
<1> HIDE DEF c, d, rest
<1>7. Wrap(B + O) = B + O /\ Wrap(N - 2 * O) = N - 2 * O /\ Wrap(rest) = rest
  BY <1>6, WrapSame
<1>8. Gap(B + O, a) = g
  BY <1>4, <1>6, WrapSame DEF Gap
<1>9. Shift(Wrap(l - l), a) = 0
  BY DEF Shift
<1>10. Pieces(n, l, a) = [left  |-> PieceList(B, g), block |-> blk,
                          right |-> PieceList(d, rest), unused |-> g + rest]
  <2>1. Pieces(n, l, a) =
          [left  |-> IF g = 0 THEN <<>> ELSE <<Node("free", Wrap((B + O) - O), g)>>,
           block |-> Node("alloc", Wrap((B + O) + g + 0), l),
           right |-> IF rest = 0 THEN <<>>
                     ELSE <<Node("free", Wrap((B + O) + g + l + O), rest)>>,
           unused |-> g + rest]
    BY <1>6, <1>7, <1>8, <1>9 DEF Pieces, B, N, O
  <2>2. Wrap((B + O) - O) = B
    BY <1>6, WrapSame
  <2>3. Wrap((B + O) + g + 0) = c + O
    BY <1>6, WrapSame
  <2>4. Wrap((B + O) + g + l + O) = d
    BY <1>6, WrapSame
  <2> QED BY <2>1, <2>2, <2>3, <2>4 DEF PieceList
<1>11. ~Free(blk) /\ blk.kind = "alloc" /\ blk.block = c + O /\ blk.size = l
  BY DEF Node, Free
<1>12. Low(blk) = c /\ High(blk) = d
  <2>1. Low(blk) = Base(blk) - O /\ High(blk) = Base(blk) + Span(blk) + O
    BY <1>11, BlockBounds DEF O
  <2>2. Base(blk) = c + O /\ Span(blk) = l
    BY <1>11, BlockWithoutPages
  <2>3. (c + O) - O = c /\ (c + O) + l + O = d
    BY <1>1, <1>2 DEF c, d
  <2> QED BY <2>1, <2>2, <2>3
<1>13. Sound(blk)
  <2>1. c + O \in Nat /\ c <= c + O /\ (c + O) + l <= d /\ d <= WORD - 1
    BY <1>1, <1>2, <1>5 DEF c, d
  <2> QED BY <1>5, <1>12, <2>1, BlockIsSound
<1>14. Piece(PieceList(B, g), Low(n), c) /\ Piece(PieceList(d, rest), d, High(n))
  <2>1. c <= WORD - 1
    BY <1>1, <1>5
  <2>2. Piece(PieceList(B, g), B, c)
    BY <1>1, <1>5, <2>1, PieceMade
  <2>3. Piece(PieceList(d, rest), d, B + N)
    <3>1. B + N \in Nat
      BY <1>1
    <3> QED BY <1>1, <1>5, <3>1, PieceMade
  <2> QED BY <1>1, <2>2, <2>3
<1>15. g + rest = (c - Low(n)) + (High(n) - d)
  <2>1. g + rest = (c - B) + ((B + N) - d)
    BY <1>1, <1>2, <1>5
  <2> QED BY <1>1, <2>1
<1>16. blk.block % a = 0
  <2> DEFINE x == B + O
  <2>1. x \in Int /\ g = (-x) % a /\ c + O = x + g
    BY <1>1, <1>2 DEF c, g, B, O
  <2> HIDE DEF x
  <2>2. (x + g) % a = 0
    BY <1>1, <2>1, UpFacts
  <2> QED BY <1>11, <2>1, <2>2
<1> HIDE DEF blk
<1>17. Cut(Pieces(n, l, a), n, l, c, d)
  BY <1>10, <1>11, <1>12, <1>13, <1>14, <1>15 DEF Cut
<1>18. Aligned(Pieces(n, l, a).block, a)
  BY <1>10, <1>16 DEF Aligned
<1> QED BY <1>5, <1>17, <1>18

\* The pieces when blocks are pages: the block takes whole pages, and it starts
\* further up in them when it has to end at the end of them.
LEMMA PiecesOfPages ==
  ASSUME PAGEALLOC, RequestsFit, NEW n, Sound(n), Free(n), NEW l \in Asked,
         NEW a \in 1..PAGE, Fits(n, l, a)
  PROVE  /\ \E c \in Nat, d \in Nat : Cut(Pieces(n, l, a), n, l, c, d)
         /\ Aligned(Pieces(n, l, a).block, a)
<1> DEFINE B == n.block
           N == n.size
           O == Oflow
           s == RoundUp(l, PAGE)
           up == Shift(Wrap(s - l), a)
           d == B + s + 2 * O
           rest == N - (s + 2 * O)
           blk == Node("alloc", B + O + up, l)
<1>1. /\ B \in Nat /\ N \in Nat /\ O \in Nat /\ l \in Nat /\ l > 0
      /\ a \in Nat /\ a > 0 /\ WORD \in Nat /\ PAGE \in Nat /\ PAGE > 0
      /\ B + N <= WORD - 1 /\ Low(n) = B /\ High(n) = B + N
      /\ B % PAGE = 0 /\ (B + N) % PAGE = 0 /\ O % PAGE = 0
      /\ l + PAGE <= WORD
  <2>1. B % PAGE = 0 /\ (B + N) % PAGE = 0
    BY FreeBounds DEF Sound, Free
  <2> QED BY <2>1, SoundFacts, FreeBounds, AskedFacts, WordFacts DEF Free
<1>2. l + 2 * O <= N
  BY <1>1 DEF Fits
<1>3. s \in Nat /\ l <= s /\ s < l + PAGE /\ s % PAGE = 0
  <2>1. s \in l .. l + PAGE - 1 /\ s % PAGE = 0
    BY <1>1, RoundUpFacts
  <2> HIDE DEF s
  <2> QED BY <1>1, <2>1
<1> HIDE DEF B, N, O, s
<1>4. (B + O) % PAGE = 0 /\ B + O \in Nat
  <2>1. (B + O) % PAGE = 0
    BY <1>1, Multiples
  <2> QED BY <1>1, <2>1
\* What is free is whole pages, too.
<1>5. s + 2 * O <= N
  <2> DEFINE z == N - (O + O)
             x == l + ((-l) % PAGE)
  <2>1. (O + O) % PAGE = 0 /\ ((B + N) - B) % PAGE = 0 /\ O + O \in Int
    <3>1. B \in Int /\ O \in Int /\ B + N \in Int
      BY <1>1
    <3>2. (O + O) % PAGE = 0
      BY <1>1, <3>1, Multiples
    <3>3. ((B + N) - B) % PAGE = 0
      BY <1>1, <3>1, Multiples
    <3> QED BY <3>1, <3>2, <3>3
  <2>2. (B + N) - B = N
    BY <1>1
  <2>3. z % PAGE = 0 /\ z \in Int
    BY <1>1, <2>1, <2>2, Multiples
  <2>4. l <= z
    BY <1>1, <1>2
  <2> HIDE DEF z
  <2>5. s - PAGE < z
    BY <1>1, <1>3, <2>3, <2>4
  <2>6. PAGE % PAGE = 0
    BY <1>1
  <2>7. (s - PAGE) % PAGE = 0 /\ s - PAGE \in Int
    <3>1. s \in Int /\ PAGE \in Int
      BY <1>1, <1>3
    <3>2. (s - PAGE) % PAGE = 0
      BY <1>1, <1>3, <2>6, <3>1, Multiples
    <3> QED BY <3>1, <3>2
  <2>8. (s - PAGE) + PAGE <= z
    BY <1>1, <2>3, <2>5, <2>7, Apart
  <2>9. s <= z
    BY <1>1, <1>3, <2>8
  <2> QED BY <1>1, <1>3, <2>9 DEF z
<1>6. Wrap(s - l) = s - l /\ s - l \in Nat /\ s - l < PAGE
  <2>1. s - l \in 0..WORD - 1 /\ s - l < PAGE
    BY <1>1, <1>3
  <2> QED BY <1>1, <2>1, WrapSame
<1>7. up \in Nat /\ up <= s - l /\ (~ALLOCUPPER => up = 0)
  <2>1. RoundDown(s - l, a) \in 0 .. s - l
    BY <1>1, <1>6, RoundDownFacts
  <2> QED BY <1>6, <2>1 DEF Shift
<1> HIDE DEF up
<1>8. /\ d \in Nat /\ rest \in Nat /\ B <= d /\ d <= B + N /\ B + N - d = rest
      /\ d % PAGE = 0
  <2>1. (s + (B + O)) % PAGE = 0 /\ s + (B + O) \in Int
    <3> DEFINE b == B + O
    <3>1. s \in Int /\ b \in Int /\ b % PAGE = 0
      BY <1>3, <1>4
    <3> HIDE DEF b
    <3>2. (s + b) % PAGE = 0
      BY <1>1, <1>3, <3>1, Multiples
    <3> QED BY <3>1, <3>2 DEF b
  <2>2. ((s + (B + O)) + O) % PAGE = 0
    <3> DEFINE b == s + (B + O)
    <3>1. O \in Int /\ b \in Int /\ b % PAGE = 0
      BY <1>1, <2>1
    <3> HIDE DEF b
    <3>2. (b + O) % PAGE = 0
      BY <1>1, <3>1, Multiples
    <3> QED BY <3>2 DEF b
  <2>3. (s + (B + O)) + O = d
    BY <1>1, <1>3
  <2> QED BY <1>1, <1>3, <1>5, <2>2, <2>3
<1>9. /\ B + O \in 0..WORD - 1 /\ N - 2 * O \in 0..WORD - 1
      /\ rest \in 0..WORD - 1 /\ d \in 0..WORD - 1
      /\ (N - 2 * O) - 0 - s = rest /\ (B + O) + 0 + s + O = d
      /\ (B + O) + 0 + up = B + O + up /\ B + O + up \in 0..WORD - 1
      /\ 0 + rest = rest
  BY <1>1, <1>3, <1>5, <1>7
<1> HIDE DEF d, rest
<1>10. Wrap(B + O) = B + O /\ Wrap(N - 2 * O) = N - 2 * O /\ Wrap(rest) = rest
  BY <1>9, WrapSame
<1>11. Pieces(n, l, a) = [left  |-> <<>>, block |-> blk,
                          right |-> PieceList(d, rest), unused |-> rest]
  <2>1. Pieces(n, l, a) =
          [left  |-> <<>>,
           block |-> Node("alloc", Wrap((B + O) + 0 + up), l),
           right |-> IF rest = 0 THEN <<>>
                     ELSE <<Node("free", Wrap((B + O) + 0 + s + O), rest)>>,
           unused |-> 0 + rest]
    BY <1>9, <1>10 DEF Pieces, Gap, B, N, O, s, up
  <2>2. Wrap((B + O) + 0 + up) = B + O + up
    BY <1>9, WrapSame
  <2>3. Wrap((B + O) + 0 + s + O) = d
    BY <1>9, WrapSame
  <2> QED BY <1>9, <2>1, <2>2, <2>3 DEF PieceList
<1>12. ~Free(blk) /\ blk.kind = "alloc" /\ blk.block = (B + O) + up /\ blk.size = l
  <2>1. B + O + up = (B + O) + up
    OBVIOUS
  <2> QED BY <2>1 DEF Node, Free
<1>13. Low(blk) = B /\ High(blk) = d
  <2>1. Low(blk) = Base(blk) - O /\ High(blk) = Base(blk) + Span(blk) + O
    BY <1>12, BlockBounds DEF O
  <2>2. /\ up \in 0..PAGE - 1 /\ s \in 0..WORD - 1 /\ l + up <= s
        /\ s < l + up + PAGE
    BY <1>1, <1>3, <1>5, <1>6, <1>7
  <2>3. Base(blk) = B + O /\ Span(blk) = s
    <3> HIDE DEF blk
    <3> QED BY <1>1, <1>3, <1>4, <1>12, <2>2, BlockOnPages
  <2>4. (B + O) - O = B /\ (B + O) + s + O = d
    BY <1>1, <1>3 DEF d
  <2> QED BY <2>1, <2>3, <2>4
<1>14. Sound(blk)
  <2>1. /\ B + O + up \in Nat /\ B <= B + O + up /\ (B + O + up) + l <= d
        /\ d <= WORD - 1
    BY <1>1, <1>3, <1>6, <1>7, <1>8 DEF d
  <2>2. ~ALLOCUPPER => (B + O + up) % PAGE = 0
    <3>1. ~ALLOCUPPER => B + O + up = B + O
      BY <1>1, <1>7
    <3> QED BY <1>4, <3>1
  <2> DEFINE b == B + O + up
  <2>3. blk = Node("alloc", b, l) /\ b \in Nat /\ B <= b /\ b + l <= d
        /\ (~ALLOCUPPER => b % PAGE = 0)
    BY <2>1, <2>2
  <2> HIDE DEF b, blk
  <2> QED BY <1>1, <1>8, <1>13, <2>1, <2>3, BlockIsSound
<1>15. Piece(<<>>, Low(n), B) /\ Piece(PieceList(d, rest), d, High(n))
  <2>1. Piece(PieceList(B, 0), B, B)
    <3>1. B <= WORD - 1 /\ B <= B /\ 0 = B - B
      BY <1>1
    <3> QED BY <1>1, <3>1, PieceMade
  <2>2. PieceList(B, 0) = <<>>
    BY DEF PieceList
  <2>3. Piece(PieceList(d, rest), d, B + N)
    <3>1. B + N \in Nat
      BY <1>1
    <3> QED BY <1>1, <1>8, <3>1, PieceMade
  <2> QED BY <1>1, <2>1, <2>2, <2>3
<1>16. rest = (B - Low(n)) + (High(n) - d)
  <2>1. rest = (B - B) + ((B + N) - d)
    BY <1>1, <1>8
  <2> QED BY <1>1, <2>1
<1>17. PAGE % a = 0 => blk.block % a = 0
  <2> SUFFICES ASSUME PAGE % a = 0 PROVE blk.block % a = 0
    OBVIOUS
  <2> DEFINE x == B + O
  <2>1. x \in Int /\ x % PAGE = 0
    BY <1>1, <1>4
  <2> HIDE DEF x
  <2>2. x % a = 0
    BY <1>1, <2>1, Divides
  <2>3. up % a = 0 /\ up \in Int
    <3>1. up = RoundDown(s - l, a) \/ up = 0
      BY <1>6 DEF Shift, up
    <3>2. RoundDown(s - l, a) % a = 0
      BY <1>1, <1>6, RoundDownFacts
    <3>3. 0 % a = 0
      BY <1>1
    <3> QED BY <1>7, <3>1, <3>2, <3>3
  <2>4. (x + up) % a = 0
    BY <1>1, <2>1, <2>2, <2>3, Multiples
  <2> QED BY <1>12, <2>4 DEF x
<1> HIDE DEF blk
<1>18. Cut(Pieces(n, l, a), n, l, B, d)
  BY <1>11, <1>12, <1>13, <1>14, <1>15, <1>16 DEF Cut
<1>19. Aligned(Pieces(n, l, a).block, a)
  BY <1>11, <1>17 DEF Aligned
<1> QED BY <1>1, <1>8, <1>18, <1>19

-----------------------------------------------------------------------------
(***************************************************************************)
(* The order of the heap                                                   *)
(***************************************************************************)
\* The list L is in order, describes the bytes of M and has no free nodes that
\* border on each other; a, g and f are the totals of its nodes.
InOrder(L, a, g, f, M) ==
    /\ L \in Seq(NodeType) /\ Tiled(L) /\ NoTouch(NodesOf(L))
    /\ MemoryOf(NodesOf(L)) = M
    /\ a = Held(NodesOf(L), "alloc") /\ g = Held(NodesOf(L), "freed")
    /\ f = Held(NodesOf(L), "free")

\* No other free node borders on the free ones among the new nodes.
Closed(R, new, lo, hi) ==
    /\ NoTouch(new)
    /\ \A n \in new : /\ Sound(n) /\ lo <= Low(n) /\ High(n) <= hi
                      /\ Free(n) => \A r \in R : Free(r) =>
                            /\ ~(Low(n) = lo /\ High(r) = lo)
                            /\ ~(High(n) = hi /\ Low(r) = hi)

LEMMA SwapNoTouch ==
  ASSUME NEW L, NEW N, NEW R, NEW old, NEW new, NEW lo \in Int, NEW hi \in Int,
         Swapped(L, N, R, old, new, lo, hi), NoTouch(NodesOf(L)),
         Closed(R, new, lo, hi)
  PROVE  NoTouch(NodesOf(N))
<1> SUFFICES ASSUME NEW n \in NodesOf(N), NEW m \in NodesOf(N),
                    Free(n), Free(m), High(n) = Low(m)
             PROVE  FALSE
  BY DEF NoTouch
<1>1. /\ NodesOf(L) = R \cup old /\ NodesOf(N) = R \cup new
      /\ \A r \in R : Sound(r) /\ (High(r) <= lo \/ hi <= Low(r))
  BY DEF Swapped
<1>2. /\ NoTouch(new)
      /\ \A x \in new : /\ Sound(x) /\ lo <= Low(x) /\ High(x) <= hi
                        /\ Free(x) => \A r \in R : Free(r) =>
                              /\ ~(Low(x) = lo /\ High(r) = lo)
                              /\ ~(High(x) = hi /\ Low(r) = hi)
  BY DEF Closed
<1>3. \A x \in R \cup new : /\ Low(x) \in Nat /\ High(x) \in Nat
                            /\ Low(x) < High(x)
  BY <1>1, <1>2, SoundFacts
<1>4. CASE n \in R /\ m \in R
  BY <1>1, <1>4 DEF NoTouch
<1>5. CASE n \in new /\ m \in new
  BY <1>2, <1>5 DEF NoTouch
<1>6. CASE n \in R /\ m \in new
  BY <1>1, <1>2, <1>3, <1>6
<1>7. CASE n \in new /\ m \in R
  BY <1>1, <1>2, <1>3, <1>7
<1> QED BY <1>1, <1>4, <1>5, <1>6, <1>7

\* The memory of the new nodes is that of the old ones.
LEMMA SwapMemory ==
  ASSUME NEW L, NEW N, NEW R, NEW old, NEW new, NEW lo, NEW hi,
         Swapped(L, N, R, old, new, lo, hi), MemoryOf(old) = MemoryOf(new)
  PROVE  MemoryOf(NodesOf(N)) = MemoryOf(NodesOf(L))
<1>1. NodesOf(L) = R \cup old /\ NodesOf(N) = R \cup new
  BY DEF Swapped
<1>2. MemoryOf(NodesOf(L)) = MemoryOf(R) \cup MemoryOf(old)
  BY <1>1, MemoryOfUnion, Zenon
<1>3. MemoryOf(NodesOf(N)) = MemoryOf(R) \cup MemoryOf(new)
  BY <1>1, MemoryOfUnion, Zenon
<1> QED BY <1>2, <1>3, Zenon

\* Totals do not wrap around.
LEMMA TotalFits ==
  ASSUME NEW N \in Seq(NodeType), Tiled(N), NEW k, NEW t,
         t = Held(NodesOf(N), k)
  PROVE  Wrap(t) = t /\ t \in Nat
<1>1. Held(NodesOf(N), k) \in 0..WORD - 1
  BY TiledApt, HeldBound
<1>2. t \in 0..WORD - 1
  BY <1>1
<1> HIDE DEF Held
<1> QED BY <1>2, WordFacts, WrapSame

\* A piece lies apart from the nodes around it.
LEMMA PieceIsNew ==
  ASSUME NEW lo \in Nat, NEW hi \in Nat, lo < hi, NEW R,
         \A r \in R : Low(r) \in Int /\ High(r) \in Int /\ Low(r) < High(r)
                        /\ (High(r) <= lo \/ hi <= Low(r))
  PROVE  Node("free", lo, hi - lo) \notin R
<1> DEFINE n == Node("free", lo, hi - lo)
<1>1. n.kind = "free" /\ n.block = lo /\ n.size = hi - lo
  BY DEF Node
<1> HIDE DEF n
<1>2. Low(n) = lo /\ High(n) = lo + (hi - lo)
  BY <1>1, FreeBounds
<1>3. High(n) = hi
  BY <1>2
<1>4. \A r \in R : r # n
  BY <1>2, <1>3
<1> QED BY <1>4 DEF n

\* The pieces of a node in order.
LEMMA CutStrip ==
  ASSUME NEW n, Sound(n), Free(n), NEW p, NEW l, NEW c \in Nat, NEW d \in Nat,
         Cut(p, n, l, c, d)
  PROVE  /\ Strip(p.left \o <<p.block>> \o p.right, Low(n), High(n))
         /\ NodesOf(p.left \o <<p.block>> \o p.right)
                = (FreeNodes(Low(n), c) \cup {p.block}) \cup FreeNodes(d, High(n))
<1> DEFINE x == p.left
           y == p.right
           blk == p.block
           lo == Low(n)
           hi == High(n)
<1>1. /\ lo <= c /\ Strip(x, lo, c) /\ NodesOf(x) = FreeNodes(lo, c)
      /\ d <= hi /\ Strip(y, d, hi) /\ NodesOf(y) = FreeNodes(d, hi)
      /\ Sound(blk) /\ Low(blk) = c /\ High(blk) = d
  BY DEF Cut, Piece
<1>2. lo \in Nat /\ hi \in Nat /\ c < d
  BY <1>1, SoundFacts
<1> HIDE DEF x, y, blk, lo, hi
<1>3. PICK one \in Seq(NodeType) : one = <<blk>> /\ Len(one) = 1 /\ one[1] = blk
  <2>1. <<blk>> \in Seq(NodeType) /\ Len(<<blk>>) = 1 /\ <<blk>>[1] = blk
    BY <1>1 DEF Sound
  <2> QED BY <2>1, Zenon
<1>4. Strip(one, c, d) /\ NodesOf(one) = {blk}
  <2>1. Strip(one, Low(blk), High(blk)) /\ NodesOf(one) = {blk}
    BY <1>1, <1>3, StripOne
  <2> QED BY <1>1, <2>1
<1>5. lo \in Int /\ c \in Int /\ d \in Int /\ hi \in Int /\ c <= d /\ lo <= d
  BY <1>1, <1>2
<1>6. Strip(x \o one, lo, d) /\ NodesOf(x \o one) = NodesOf(x) \cup NodesOf(one)
  BY <1>1, <1>4, <1>5, StripConcat
<1>7. /\ Strip((x \o one) \o y, lo, hi)
      /\ NodesOf((x \o one) \o y) = NodesOf(x \o one) \cup NodesOf(y)
  BY <1>1, <1>5, <1>6, StripConcat
<1>8. NodesOf((x \o one) \o y)
        = (FreeNodes(lo, c) \cup {blk}) \cup FreeNodes(d, hi)
  BY <1>1, <1>4, <1>6, <1>7, Zenon
<1> QED BY <1>3, <1>7, <1>8 DEF x, y, blk, lo, hi

LEMMA FreeNodesAre ==
  ASSUME NEW lo \in Nat, NEW hi \in Nat, lo <= hi, hi <= WORD - 1,
         PAGEALLOC => lo % PAGE = 0 /\ hi % PAGE = 0,
         NEW n \in FreeNodes(lo, hi)
  PROVE  lo < hi /\ Sound(n) /\ Free(n) /\ Low(n) = lo /\ High(n) = hi
<1>1. lo < hi /\ n = Node("free", lo, hi - lo)
  BY DEF FreeNodes
<1> QED BY <1>1, FreeIsSound

\* The pieces of a node are its block and free nodes, which do not border.
Sides(p, n, l, c, d) ==
    /\ Low(n) \in Nat /\ High(n) \in Nat /\ Low(n) <= c /\ c < d
    /\ d <= High(n) /\ High(n) <= WORD - 1
    /\ PAGEALLOC => /\ Low(n) % PAGE = 0 /\ c % PAGE = 0
                    /\ d % PAGE = 0 /\ High(n) % PAGE = 0
    /\ Sound(p.block) /\ ~Free(p.block) /\ p.block.kind = "alloc"
    /\ Low(p.block) = c /\ High(p.block) = d /\ p.block.size = l
    /\ \A m \in FreeNodes(Low(n), c) :
           Sound(m) /\ Free(m) /\ Low(m) = Low(n) /\ High(m) = c
    /\ \A m \in FreeNodes(d, High(n)) :
           Sound(m) /\ Free(m) /\ Low(m) = d /\ High(m) = High(n)

LEMMA CutFacts ==
  ASSUME NEW n, Sound(n), Free(n), NEW p, NEW l, NEW c \in Nat, NEW d \in Nat,
         Cut(p, n, l, c, d)
  PROVE  Sides(p, n, l, c, d)
<1>1. /\ Low(n) <= c /\ d <= High(n) /\ Sound(p.block)
      /\ p.block.kind = "alloc" /\ p.block.size = l
      /\ Low(p.block) = c /\ High(p.block) = d
  BY DEF Cut, Piece
<1>2. /\ Low(n) \in Nat /\ High(n) \in Nat /\ High(n) <= WORD - 1 /\ c < d
  BY <1>1, SoundFacts
<1>3. PAGEALLOC => /\ Low(n) % PAGE = 0 /\ c % PAGE = 0
                   /\ d % PAGE = 0 /\ High(n) % PAGE = 0
  BY <1>1 DEF Sound
<1>4. c <= WORD - 1
  BY <1>1, <1>2, WordFacts
<1>5. ~Free(p.block)
  BY <1>1 DEF Free
<1>6. \A m \in FreeNodes(Low(n), c) :
        Sound(m) /\ Free(m) /\ Low(m) = Low(n) /\ High(m) = c
  BY <1>1, <1>2, <1>3, <1>4, FreeNodesAre
<1>7. \A m \in FreeNodes(d, High(n)) :
        Sound(m) /\ Free(m) /\ Low(m) = d /\ High(m) = High(n)
  BY <1>1, <1>2, <1>3, FreeNodesAre
<1> QED BY <1>1, <1>2, <1>3, <1>5, <1>6, <1>7 DEF Sides

\* What the pieces add to the totals.
CutAdds(R, p, n, l, c, d) ==
    \A k : Held(R \cup ((FreeNodes(Low(n), c) \cup {p.block})
                            \cup FreeNodes(d, High(n))), k)
            = Held(R, k) + FreePart(k, (c - Low(n)) + (High(n) - d))
                + (IF k = "alloc" THEN l ELSE 0)

LEMMA CutTotals ==
  ASSUME NEW n, Sound(n), Free(n), NEW p, NEW l \in Nat, NEW c \in Nat,
         NEW d \in Nat, Sides(p, n, l, c, d), NEW R \in SUBSET NodeType,
         IsFiniteSet(R),
         \A r \in R : Sound(r) /\ (High(r) <= Low(n) \/ High(n) <= Low(r))
  PROVE  CutAdds(R, p, n, l, c, d)
<1> SUFFICES ASSUME NEW k
             PROVE  Held(R \cup ((FreeNodes(Low(n), c) \cup {p.block})
                                    \cup FreeNodes(d, High(n))), k)
                    = Held(R, k) + FreePart(k, (c - Low(n)) + (High(n) - d))
                        + (IF k = "alloc" THEN l ELSE 0)
  BY Zenon DEF CutAdds
<1> DEFINE lo == Low(n)
           hi == High(n)
           blk == p.block
           R1 == R \cup FreeNodes(lo, c)
           R2 == R1 \cup {blk}
           R3 == R2 \cup FreeNodes(d, hi)
<1>1. /\ lo \in Nat /\ hi \in Nat /\ lo <= c /\ c < d /\ d <= hi
      /\ hi <= WORD - 1
      /\ PAGEALLOC => /\ lo % PAGE = 0 /\ c % PAGE = 0
                      /\ d % PAGE = 0 /\ hi % PAGE = 0
      /\ Sound(blk) /\ ~Free(blk) /\ blk.kind = "alloc"
      /\ Low(blk) = c /\ High(blk) = d /\ blk.size = l
      /\ \A m \in FreeNodes(lo, c) :
            Sound(m) /\ Free(m) /\ Low(m) = lo /\ High(m) = c
  BY DEF Sides
<1>2. \A r \in R : /\ Low(r) \in Int /\ High(r) \in Int /\ Low(r) < High(r)
                   /\ (High(r) <= lo \/ hi <= Low(r))
  BY SoundFacts
<1> HIDE DEF lo, hi, blk
<1>3. /\ Held(R1, k) = Held(R, k) + FreePart(k, c - lo)
      /\ R1 \in SUBSET NodeType /\ IsFiniteSet(R1)
  <2>1. ASSUME lo < c PROVE Node("free", lo, c - lo) \notin R
    <3>1. \A r \in R : /\ Low(r) \in Int /\ High(r) \in Int /\ Low(r) < High(r)
                       /\ (High(r) <= lo \/ c <= Low(r))
      BY <1>1, <1>2
    <3> QED BY <1>1, <2>1, <3>1, PieceIsNew
  <2>2. /\ lo \in Nat /\ c \in Nat /\ lo <= c /\ c <= WORD - 1
        /\ PAGEALLOC => lo % PAGE = 0 /\ c % PAGE = 0
    BY <1>1, WordFacts
  <2>3. Adds(R, lo, c)
    BY <2>1, <2>2, HeldFreeNodes, Zenon
  <2> QED BY <2>3 DEF Adds
<1>4. blk \notin R1
  <2>1. \A r \in R : r # blk
    BY <1>1, <1>2
  <2>2. \A r \in FreeNodes(lo, c) : r # blk
    BY <1>1
  <2> QED BY <2>1, <2>2
<1>5. blk \in NodeType
  BY <1>1 DEF Sound
<1>6. Held(R2, k) = Held(R1, k) + Part(blk, k)
  <2> HIDE DEF R1
  <2> QED BY <1>3, <1>4, <1>5, HeldAdd
<1>7. R2 \in SUBSET NodeType /\ IsFiniteSet(R2)
  <2> HIDE DEF R1
  <2>1. IsFiniteSet(R1 \cup {blk})
    BY <1>3, FS_AddElement
  <2> QED BY <1>3, <1>5, <2>1
<1>8. Held(R3, k) = Held(R2, k) + FreePart(k, hi - d)
  <2>1. ASSUME d < hi PROVE Node("free", d, hi - d) \notin R2
    <3>1. ASSUME NEW r \in R2
          PROVE  /\ Low(r) \in Int /\ High(r) \in Int /\ Low(r) < High(r)
                 /\ (High(r) <= d \/ hi <= Low(r))
      <4>1. CASE r \in R
        BY <1>1, <1>2, <4>1
      <4>2. CASE r \in FreeNodes(lo, c)
        BY <1>1, <4>2, SoundFacts
      <4>3. CASE r = blk
        BY <1>1, <4>3, SoundFacts
      <4> QED BY <4>1, <4>2, <4>3
    <3> HIDE DEF R2
    <3> QED BY <1>1, <2>1, <3>1, PieceIsNew
  <2>2. /\ hi \in Nat /\ d \in Nat /\ d <= hi /\ hi <= WORD - 1
        /\ PAGEALLOC => d % PAGE = 0 /\ hi % PAGE = 0
    BY <1>1
  <2> HIDE DEF R2
  <2>3. Adds(R2, d, hi)
    BY <1>7, <2>1, <2>2, HeldFreeNodes, Zenon
  <2> QED BY <2>3 DEF Adds
<1>9. R \cup ((FreeNodes(lo, c) \cup {blk}) \cup FreeNodes(d, hi)) = R3
  OBVIOUS
<1>10. Held(R, k) \in Nat
  BY HeldInt
<1> HIDE DEF R1, R2, R3
<1>11. Part(blk, k) = IF k = "alloc" THEN l ELSE 0
  BY <1>1 DEF Part
<1>12. FreePart(k, c - lo) + FreePart(k, hi - d) = FreePart(k, (c - lo) + (hi - d))
  <2>1. c - lo \in Nat /\ hi - d \in Nat
    BY <1>1
  <2>2. 0 + 0 = 0
    OBVIOUS
  <2> QED BY <2>1, <2>2 DEF FreePart
<1> DEFINE e == Held(R, k)
           u == FreePart(k, c - lo)
           v == FreePart(k, hi - d)
           w == Part(blk, k)
<1>13. e \in Nat /\ u \in Nat /\ v \in Nat /\ w \in Nat
  <2>1. c - lo \in Nat /\ hi - d \in Nat
    BY <1>1
  <2>2. u \in Nat /\ v \in Nat
    BY <2>1 DEF FreePart
  <2>3. w \in Nat
    BY <1>11
  <2> QED BY <1>10, <2>2, <2>3
<1>14. Held(R3, k) = ((e + u) + w) + v
  BY <1>3, <1>6, <1>8
<1> HIDE DEF e, u, v, w
<1>15. Held(R3, k) = e + (u + v) + w
  BY <1>13, <1>14
<1> QED BY <1>9, <1>11, <1>12, <1>15 DEF e, u, v, w, lo, hi, blk

\* Splitting a free node keeps the heap in order.
SplitList(L, i, p) == Splice(L, i, i, p.left \o <<p.block>> \o p.right)

LEMMA SplitInOrder ==
  ASSUME NEW L, NEW ta, NEW tg, NEW tf, NEW M, InOrder(L, ta, tg, tf, M),
         NEW i \in 1..Len(L), Free(L[i]), NEW p, NEW l \in Nat, NEW c \in Nat,
         NEW d \in Nat, Cut(p, L[i], l, c, d)
  PROVE  /\ InOrder(SplitList(L, i, p), Wrap(ta + p.block.size), tg,
                    Wrap(tf - L[i].size + p.unused), M)
         /\ Blocks(NodesOf(SplitList(L, i, p))) = Blocks(NodesOf(L)) \cup {p.block}
         /\ p.block \notin NodesOf(L)
<1> DEFINE n == L[i]
           lo == Low(n)
           hi == High(n)
           blk == p.block
           new == p.left \o <<blk>> \o p.right
           N == SplitList(L, i, p)
           R == Outside(L, i, i)
           old == Inside(L, i, i)
           fresh == (FreeNodes(lo, c) \cup {blk}) \cup FreeNodes(d, hi)
<1>1. /\ L \in Seq(NodeType) /\ Tiled(L) /\ NoTouch(NodesOf(L))
      /\ MemoryOf(NodesOf(L)) = M
      /\ ta = Held(NodesOf(L), "alloc") /\ tg = Held(NodesOf(L), "freed")
      /\ tf = Held(NodesOf(L), "free")
  BY DEF InOrder
<1>2. Sound(n) /\ n \in NodesOf(L) /\ Free(n) /\ Cut(p, n, l, c, d)
  BY <1>1, TiledFacts DEF NodesOf
<1>3. Sides(p, n, l, c, d)
  <2> HIDE DEF n
  <2> QED BY <1>2, CutFacts
<1>4. Strip(new, lo, hi) /\ NodesOf(new) = fresh
  <2> HIDE DEF n
  <2> QED BY <1>2, CutStrip
<1>5. /\ lo \in Nat /\ hi \in Nat /\ lo <= c /\ c < d /\ d <= hi
      /\ hi <= WORD - 1 /\ Sound(blk) /\ ~Free(blk)
      /\ Low(blk) = c /\ High(blk) = d /\ blk.size = l
      /\ \A m \in FreeNodes(lo, c) :
            Sound(m) /\ Free(m) /\ Low(m) = lo /\ High(m) = c
      /\ \A m \in FreeNodes(d, hi) :
            Sound(m) /\ Free(m) /\ Low(m) = d /\ High(m) = hi
  BY <1>3 DEF Sides
<1>6. Solid(L, i, i)
  BY <1>1, SolidOne
<1>7. p.unused = (c - lo) + (hi - d) /\ n.size = hi - lo
  <2>1. p.unused = (c - lo) + (hi - d)
    BY DEF Cut
  <2>2. lo = n.block /\ hi = n.block + n.size /\ n.block \in Nat /\ n.size \in Nat
    BY <1>2, FreeBounds, SoundFacts DEF Free
  <2>3. n.size = (n.block + n.size) - n.block
    BY <2>2
  <2> QED BY <2>1, <2>2, <2>3
<1> HIDE DEF lo, hi, blk, new, fresh
<1>8. Swapped(L, N, R, old, NodesOf(new), lo, hi)
  <2>1. /\ i \in Nat /\ 1 <= i /\ i <= i + 1 /\ i <= Len(L)
        /\ lo \in Int /\ hi \in Int /\ lo <= hi
    BY <1>1, <1>5
  <2>2. /\ \A k \in 1..Len(L) : k < i => High(L[k]) <= lo
        /\ \A k \in 1..Len(L) : k > i => hi <= Low(L[k])
    BY <1>1, TiledFacts DEF lo, hi
  <2>3. Swapped(L, Splice(L, i, i, new), R, old, NodesOf(new), lo, hi)
    BY <1>1, <1>4, <2>1, <2>2, Swap, Zenon
  <2> QED BY <2>3 DEF SplitList, new, blk
<1>9. /\ N \in Seq(NodeType) /\ Tiled(N)
      /\ NodesOf(L) = R \cup old /\ NodesOf(N) = R \cup fresh /\ IsFiniteSet(R)
      /\ \A r \in R : Sound(r) /\ (High(r) <= lo \/ hi <= Low(r))
  BY <1>4, <1>8 DEF Swapped
<1> HIDE DEF N, R, old
<1>10. \A n1 \in old : Free(n1)
  BY <1>6 DEF Solid, old
<1>11. MemoryOf(NodesOf(N)) = M
  <2>1. MemoryOf(old) = lo..hi - 1
    BY <1>6 DEF Solid, old, lo, hi
  <2>2. MemoryOf(NodesOf(new)) = lo..hi - 1
    BY <1>4 DEF Strip
  <2>3. MemoryOf(NodesOf(N)) = MemoryOf(NodesOf(L))
    BY <1>8, <2>1, <2>2, SwapMemory
  <2> QED BY <1>1, <2>3
<1>12. NoTouch(NodesOf(N))
  <2>1. NoTouch(fresh)
    <3>1. \A m \in fresh :
            Free(m) => \/ Low(m) = lo /\ High(m) = c /\ lo < c
                       \/ Low(m) = d /\ High(m) = hi /\ d < hi
      <4>1. \A m \in FreeNodes(lo, c) : lo < c
        BY <1>5, SoundFacts
      <4>2. \A m \in FreeNodes(d, hi) : d < hi
        BY <1>5, SoundFacts
      <4>3. ASSUME NEW m \in fresh, Free(m)
            PROVE  m \in FreeNodes(lo, c) \/ m \in FreeNodes(d, hi)
        BY <1>5, <4>3 DEF fresh
      <4>4. /\ \A m \in FreeNodes(lo, c) : Low(m) = lo /\ High(m) = c
            /\ \A m \in FreeNodes(d, hi) : Low(m) = d /\ High(m) = hi
        BY <1>5
      <4>5. ASSUME NEW m \in fresh, Free(m)
            PROVE  \/ Low(m) = lo /\ High(m) = c /\ lo < c
                   \/ Low(m) = d /\ High(m) = hi /\ d < hi
        <5>1. CASE m \in FreeNodes(lo, c)
          BY <4>1, <4>4, <5>1
        <5>2. CASE m \in FreeNodes(d, hi)
          BY <4>2, <4>4, <5>2
        <5> QED BY <4>3, <4>5, <5>1, <5>2
      <4> QED BY <4>5
    <3>2. \A m \in fresh, q \in fresh : Free(m) /\ Free(q) => High(m) # Low(q)
      <4> HIDE DEF fresh
      <4> QED BY <1>5, <3>1
    <3> QED BY <3>2 DEF NoTouch
  <2>2. \A m \in fresh : /\ Sound(m) /\ lo <= Low(m) /\ High(m) <= hi
    BY <1>5 DEF fresh
  <2>3. ASSUME NEW m \in fresh, Free(m), NEW r \in R, Free(r)
        PROVE  ~(Low(m) = lo /\ High(r) = lo) /\ ~(High(m) = hi /\ Low(r) = hi)
    <3>1. r \in NodesOf(L)
      BY <1>9
    <3>2. High(r) # Low(n) /\ High(n) # Low(r)
      BY <1>1, <1>2, <2>3, <3>1 DEF NoTouch
    <3> QED BY <3>2 DEF lo, hi
  <2>4. Closed(R, fresh, lo, hi)
    BY <2>1, <2>2, <2>3 DEF Closed
  <2>5. Swapped(L, N, R, old, fresh, lo, hi)
    BY <1>4, <1>8
  <2> QED BY <1>1, <1>5, <2>4, <2>5, SwapNoTouch
<1>13. R \in SUBSET NodeType
  BY <1>9 DEF Sound
<1>14. ASSUME NEW k \in Kinds
       PROVE  /\ Held(R, k) \in Nat
              /\ Held(NodesOf(L), k) = Held(R, k) + FreePart(k, hi - lo)
              /\ Held(NodesOf(N), k)
                    = Held(R, k) + FreePart(k, (c - lo) + (hi - d))
                        + (IF k = "alloc" THEN l ELSE 0)
  <2>1. Held(R, k) \in Nat
    BY <1>9, <1>13, HeldInt
  <2>2. Held(NodesOf(L), k) = Held(R, k) + FreePart(k, hi - lo)
    BY <1>6 DEF Solid, R, lo, hi
  <2>3. Held(NodesOf(N), k)
            = Held(R, k) + FreePart(k, (c - lo) + (hi - d))
                + (IF k = "alloc" THEN l ELSE 0)
    <3>1. \A r \in R : Sound(r) /\ (High(r) <= Low(n) \/ High(n) <= Low(r))
      BY <1>9 DEF lo, hi
    <3>2. Held(R \cup ((FreeNodes(Low(n), c) \cup {p.block})
                        \cup FreeNodes(d, High(n))), k)
            = Held(R, k) + FreePart(k, (c - Low(n)) + (High(n) - d))
                + (IF k = "alloc" THEN l ELSE 0)
      <4> HIDE DEF n
      <4>1. CutAdds(R, p, n, l, c, d)
        BY <1>2, <1>3, <1>9, <1>13, <3>1, CutTotals, Zenon
      <4> QED BY <4>1, Zenon DEF CutAdds
    <3> QED BY <1>9, <3>2 DEF fresh, lo, hi, blk
  <2> QED BY <2>1, <2>2, <2>3
<1>15. /\ "alloc" \in Kinds /\ "freed" \in Kinds /\ "free" \in Kinds
       /\ FreePart("alloc", hi - lo) = 0 /\ FreePart("freed", hi - lo) = 0
       /\ FreePart("alloc", (c - lo) + (hi - d)) = 0
       /\ FreePart("freed", (c - lo) + (hi - d)) = 0
       /\ FreePart("free", hi - lo) = hi - lo
       /\ FreePart("free", (c - lo) + (hi - d)) = (c - lo) + (hi - d)
  BY DEF Kinds, FreePart
<1>16. Held(NodesOf(N), "alloc") = ta + blk.size
  <2>1. Held(NodesOf(N), "alloc") = Held(R, "alloc") + 0 + l
    BY <1>14, <1>15
  <2>2. ta = Held(R, "alloc") + 0 /\ Held(R, "alloc") \in Nat
    BY <1>1, <1>14, <1>15
  <2> QED BY <1>5, <2>1, <2>2
<1>17. Held(NodesOf(N), "freed") = tg
  <2>1. Held(NodesOf(N), "freed") = Held(R, "freed") + 0 + 0
    BY <1>14, <1>15
  <2>2. tg = Held(R, "freed") + 0 /\ Held(R, "freed") \in Nat
    BY <1>1, <1>14, <1>15
  <2> QED BY <2>1, <2>2
<1>18. Held(NodesOf(N), "free") = tf - n.size + p.unused
  <2> DEFINE e == Held(R, "free")
  <2>1. Held(NodesOf(N), "free") = e + ((c - lo) + (hi - d)) + 0
    BY <1>14, <1>15
  <2>2. tf = e + (hi - lo) /\ e \in Nat
    BY <1>1, <1>14, <1>15
  <2> HIDE DEF e, n
  <2> QED BY <1>5, <1>7, <2>1, <2>2
<1>19. Wrap(ta + blk.size) = ta + blk.size
  BY <1>9, <1>16, TotalFits
<1>20. Wrap(tf - n.size + p.unused) = tf - n.size + p.unused
  BY <1>9, <1>18, TotalFits
<1>21. Blocks(NodesOf(N)) = Blocks(NodesOf(L)) \cup {blk}
  <2>1. \A m \in fresh : m = blk \/ Free(m)
    BY <1>5 DEF fresh
  <2>2. blk \in fresh
    BY DEF fresh
  <2> QED BY <1>5, <1>9, <1>10, <2>1, <2>2 DEF Blocks
<1>22. InOrder(N, Wrap(ta + blk.size), tg, Wrap(tf - n.size + p.unused), M)
  BY <1>9, <1>11, <1>12, <1>16, <1>17, <1>18, <1>19, <1>20 DEF InOrder
<1>23. blk \notin NodesOf(L)
  <2>1. blk \notin R
    <3>1. \A r \in R : Low(r) \in Nat /\ High(r) \in Nat /\ Low(r) < High(r)
      BY <1>9, SoundFacts
    <3>2. c \in Nat /\ d \in Nat
      OBVIOUS
    <3> QED BY <1>5, <1>9, <3>1, <3>2
  <2>2. blk \notin old
    BY <1>5, <1>10
  <2> QED BY <1>9, <2>1, <2>2
<1> QED BY <1>21, <1>22, <1>23 DEF N, blk

-----------------------------------------------------------------------------
(***************************************************************************)
(* A node that changes in its place                                        *)
(***************************************************************************)
\* N is L with node e for node i, which is among others, R.
Put(L, N, R, i, e) ==
    /\ N \in Seq(NodeType) /\ Tiled(N) /\ Len(N) = Len(L) /\ N[i] = e
    /\ NodesOf(L) = R \cup {L[i]} /\ NodesOf(N) = R \cup {e}
    /\ R \in SUBSET NodeType /\ IsFiniteSet(R) /\ L[i] \notin R /\ e \notin R
    /\ MemoryOf(NodesOf(N)) = MemoryOf(NodesOf(L))

LEMMA PutKeeps ==
  ASSUME NEW L \in Seq(NodeType), Tiled(L), NEW i \in 1..Len(L),
         NEW e, Sound(e), Low(e) = Low(L[i]), High(e) = High(L[i])
  PROVE  Put(L, [L EXCEPT ![i] = e], Outside(L, i, i), i, e)
<1> DEFINE N == [L EXCEPT ![i] = e]
           R == Outside(L, i, i)
           lo == Low(L[i])
           hi == High(L[i])
<1>1. e \in NodeType
  BY DEF Sound
<1>2. PICK one \in Seq(NodeType) : one = <<e>> /\ Len(one) = 1 /\ one[1] = e
  <2>1. <<e>> \in Seq(NodeType) /\ Len(<<e>>) = 1 /\ <<e>>[1] = e
    BY <1>1
  <2> QED BY <2>1, Zenon
<1>3. N = Splice(L, i, i, one)
  <2>1. Len(one) = 1 /\ one[1] = e
    BY <1>2
  <2>2. [L EXCEPT ![i] = e] = Splice(L, i, i, one)
    BY <1>1, <2>1, ExceptIsSplice, SMTT(20)
  <2> QED BY <2>2
<1>4. lo \in Int /\ hi \in Int /\ lo <= hi /\ Sound(L[i]) /\ L[i] \in NodeType
  BY TiledFacts, SoundFacts
<1>5. Strip(one, lo, hi) /\ NodesOf(one) = {e}
  BY <1>2, StripOne
<1>6. /\ i \in Nat /\ 1 <= i /\ i <= i + 1 /\ i <= Len(L)
  OBVIOUS
<1>7. /\ \A k \in 1..Len(L) : k < i => High(L[k]) <= lo
      /\ \A k \in 1..Len(L) : k > i => hi <= Low(L[k])
  BY TiledFacts
<1>8. Inside(L, i, i) = {L[i]}
  <2>1. i..i = {i}
    OBVIOUS
  <2> QED BY <2>1 DEF Inside
<1>9. N \in Seq(NodeType) /\ Len(N) = Len(L) /\ N[i] = e
  BY <1>1
<1> HIDE DEF N, R, lo, hi
<1>10. Swapped(L, N, R, Inside(L, i, i), NodesOf(one), lo, hi)
  <2>1. Swapped(L, Splice(L, i, i, one), R, Inside(L, i, i), NodesOf(one), lo, hi)
    BY <1>4, <1>5, <1>6, <1>7, Swap, Zenon DEF R
  <2> QED BY <1>3, <2>1
<1>11. /\ Tiled(N) /\ NodesOf(L) = R \cup {L[i]} /\ NodesOf(N) = R \cup {e}
       /\ IsFiniteSet(R)
       /\ \A r \in R : Sound(r) /\ (High(r) <= lo \/ hi <= Low(r))
  BY <1>5, <1>8, <1>10 DEF Swapped
<1>12. \A r \in R : r # L[i] /\ r # e
  <2>1. \A r \in R : Low(r) \in Int /\ High(r) \in Int /\ Low(r) < High(r)
    BY <1>11, SoundFacts
  <2>2. lo < hi
    BY <1>4, SoundFacts DEF lo, hi
  <2>3. ASSUME NEW r \in R PROVE ~(Low(r) = lo /\ High(r) = hi)
    BY <1>4, <1>11, <2>1, <2>2
  <2> QED BY <2>3 DEF lo, hi
<1>13. R \in SUBSET NodeType
  BY <1>11 DEF Sound
<1>14. MemoryOf(NodesOf(N)) = MemoryOf(NodesOf(L))
  <2>1. MemoryOf(NodesOf(one)) = lo..hi - 1
    BY <1>5 DEF Strip
  <2>2. MemoryOf({L[i]}) = lo..hi - 1
    <3>1. MemoryOf({L[i]}) = Memory(L[i])
      BY DEF MemoryOf
    <3> QED BY <1>4, <3>1, MemoryIs DEF lo, hi
  <2> QED BY <1>8, <1>10, <2>1, <2>2, SwapMemory
<1>15. L[i] \notin R /\ e \notin R
  BY <1>12
<1>16. Put(L, N, R, i, e)
  BY <1>9, <1>11, <1>13, <1>14, <1>15 DEF Put
<1> QED BY <1>16 DEF N, R

\* What the change does to the totals.
LEMMA PutTotals ==
  ASSUME NEW L, NEW N, NEW R, NEW i, NEW e, Put(L, N, R, i, e),
         L[i] \in NodeType, e \in NodeType, NEW k
  PROVE  /\ Held(R, k) \in Nat
         /\ Held(NodesOf(L), k) = Held(R, k) + Part(L[i], k)
         /\ Held(NodesOf(N), k) = Held(R, k) + Part(e, k)
<1>1. /\ NodesOf(L) = R \cup {L[i]} /\ NodesOf(N) = R \cup {e}
      /\ R \in SUBSET NodeType /\ IsFiniteSet(R) /\ L[i] \notin R /\ e \notin R
  BY DEF Put
<1>2. Held(R, k) \in Nat
  BY <1>1, HeldInt
<1>3. Held(R \cup {L[i]}, k) = Held(R, k) + Part(L[i], k)
  BY <1>1, HeldAdd, Zenon
<1>4. Held(R \cup {e}, k) = Held(R, k) + Part(e, k)
  BY <1>1, HeldAdd, Zenon
<1> QED BY <1>1, <1>2, <1>3, <1>4

-----------------------------------------------------------------------------
(***************************************************************************)
(* Releasing a block                                                       *)
(***************************************************************************)
\* The node of a block becomes a free one of the same memory.
LEMMA ReleasedNode ==
  ASSUME NEW n, Sound(n)
  PROVE  /\ Sound(Node("free", Wrap(Low(n)), Wrap(High(n) - Low(n))))
         /\ Low(Node("free", Wrap(Low(n)), Wrap(High(n) - Low(n)))) = Low(n)
         /\ High(Node("free", Wrap(Low(n)), Wrap(High(n) - Low(n)))) = High(n)
         /\ Free(Node("free", Wrap(Low(n)), Wrap(High(n) - Low(n))))
         /\ Node("free", Wrap(Low(n)), Wrap(High(n) - Low(n))).size = High(n) - Low(n)
         /\ Wrap(High(n) - Low(n)) = High(n) - Low(n)
<1> DEFINE lo == Low(n)
           hi == High(n)
<1>1. /\ lo \in Nat /\ hi \in Nat /\ lo < hi /\ hi <= WORD - 1
      /\ PAGEALLOC => lo % PAGE = 0 /\ hi % PAGE = 0
  BY SoundFacts DEF Sound
<1> HIDE DEF lo, hi
<1>2. lo \in 0..WORD - 1 /\ hi - lo \in 0..WORD - 1
  BY <1>1, WordFacts
<1>3. Wrap(lo) = lo /\ Wrap(hi - lo) = hi - lo
  BY <1>2, WrapSame
<1>4. /\ Sound(Node("free", lo, hi - lo)) /\ Low(Node("free", lo, hi - lo)) = lo
      /\ High(Node("free", lo, hi - lo)) = hi /\ Free(Node("free", lo, hi - lo))
      /\ Node("free", lo, hi - lo).size = hi - lo
  BY <1>1, FreeIsSound
<1> QED BY <1>3, <1>4 DEF lo, hi

\* What is left of the total of allocated blocks without block n.
Without(ta, n) == IF n.kind = "alloc" THEN Wrap(ta - n.size) ELSE ta

LEMMA ReleasedInOrder ==
  ASSUME NEW h, NEW ta, NEW M, InOrder(h.list, ta, h.gsize, h.fsize, M),
         NEW i \in 1..Len(h.list), ~Free(h.list[i])
  PROVE  /\ InOrder(Released(h, i).list, Without(ta, h.list[i]),
                    Released(h, i).gsize, Released(h, i).fsize, M)
         /\ Blocks(NodesOf(Released(h, i).list))
                = Blocks(NodesOf(h.list)) \ {h.list[i]}
<1> DEFINE L == h.list
           n == h.list[i]
           b == Wrap(Low(n))
           s == Wrap(High(n) - Low(n))
           e == Node("free", b, s)
           P == [h.list EXCEPT ![i] = e]
           N == MergeNode(P, i).list
           R == Outside(L, i, i)
           r == Released(h, i)
<1>1. /\ r.list = N
      /\ r.gsize = IF n.kind = "freed" THEN Wrap(h.gsize - n.size) ELSE h.gsize
      /\ r.fsize = Wrap(h.fsize + s)
  BY DEF Released
<1>2. /\ L \in Seq(NodeType) /\ Tiled(L) /\ NoTouch(NodesOf(L))
      /\ MemoryOf(NodesOf(L)) = M
      /\ ta = Held(NodesOf(L), "alloc") /\ h.gsize = Held(NodesOf(L), "freed")
      /\ h.fsize = Held(NodesOf(L), "free")
  BY DEF InOrder
<1>3. Sound(n) /\ n \in NodeType /\ n \in NodesOf(L)
  BY <1>2, TiledFacts DEF NodesOf, Sound
<1>4. /\ Sound(e) /\ Low(e) = Low(n) /\ High(e) = High(n) /\ Free(e)
      /\ e.size = s
  <2> HIDE DEF n
  <2> QED BY <1>3, ReleasedNode
<1>5. e \in NodeType
  BY <1>4 DEF Sound
<1> HIDE DEF e, s, r
<1>6. Put(L, P, R, i, e)
  BY <1>2, <1>4, PutKeeps
<1> HIDE DEF P, R, N
<1>7. /\ P \in Seq(NodeType) /\ Tiled(P) /\ Len(P) = Len(L) /\ P[i] = e
      /\ NodesOf(L) = R \cup {n} /\ NodesOf(P) = R \cup {e}
      /\ n \notin R /\ MemoryOf(NodesOf(P)) = MemoryOf(NodesOf(L))
  BY <1>6 DEF Put
<1>8. TouchOnly(NodesOf(P), P[i])
  <2> SUFFICES ASSUME NEW x \in NodesOf(P), NEW y \in NodesOf(P),
                      Free(x), Free(y), High(x) = Low(y), x # e, y # e
               PROVE  FALSE
    BY <1>7 DEF TouchOnly
  <2>1. x \in NodesOf(L) /\ y \in NodesOf(L)
    BY <1>7
  <2> QED BY <1>2, <2>1 DEF NoTouch
<1>9. Merged(P, i, N, MergeNode(P, i).node)
  <2>1. i \in 1..Len(P) /\ Free(P[i])
    BY <1>4, <1>7
  <2> QED BY <1>7, <1>8, <2>1, MergeKeeps DEF N
<1>10. /\ N \in Seq(NodeType) /\ Tiled(N) /\ NoTouch(NodesOf(N))
       /\ MemoryOf(NodesOf(N)) = MemoryOf(NodesOf(P))
       /\ \A k \in Kinds : Held(NodesOf(N), k) = Held(NodesOf(P), k)
       /\ Blocks(NodesOf(N)) = Blocks(NodesOf(P))
  BY <1>9 DEF Merged
<1>11. Blocks(NodesOf(N)) = Blocks(NodesOf(L)) \ {n}
  BY <1>4, <1>7, <1>10 DEF Blocks
<1>12. ASSUME NEW k \in Kinds
       PROVE  /\ Held(R, k) \in Nat
              /\ Held(NodesOf(L), k) = Held(R, k) + Part(n, k)
              /\ Held(NodesOf(N), k) = Held(R, k) + Part(e, k)
  BY <1>3, <1>5, <1>6, <1>10, PutTotals
<1>13. "alloc" \in Kinds /\ "freed" \in Kinds /\ "free" \in Kinds
  BY DEF Kinds
<1>14. /\ Part(e, "alloc") = 0 /\ Part(e, "freed") = 0 /\ Part(e, "free") = s
       /\ Part(n, "free") = 0 /\ n.kind \in {"alloc", "freed"}
       /\ n.size \in Nat /\ s \in Int
  <2>1. e.kind = "free" /\ n.kind # "free"
    BY <1>4 DEF Free
  <2>2. n.kind \in {"free", "alloc", "freed"}
    BY <1>3 DEF NodeType
  <2>3. n.size \in Nat /\ e.size \in Nat
    BY <1>3, <1>4, SoundFacts
  <2> QED BY <1>4, <2>1, <2>2, <2>3 DEF Part
<1>15. Held(NodesOf(N), "alloc") = Without(ta, n)
  <2>1. Held(NodesOf(N), "alloc") = Held(R, "alloc")
    BY <1>12, <1>13, <1>14
  <2>2. CASE n.kind = "alloc"
    <3>1. Part(n, "alloc") = n.size
      BY <2>2 DEF Part
    <3>2. Held(NodesOf(N), "alloc") = ta - n.size
      BY <1>2, <1>12, <1>13, <1>14, <2>1, <3>1
    <3>3. Wrap(ta - n.size) = ta - n.size
      BY <1>10, <3>2, TotalFits
    <3> QED BY <2>2, <3>2, <3>3 DEF Without
  <2>3. CASE n.kind # "alloc"
    <3>1. Part(n, "alloc") = 0
      BY <2>3 DEF Part
    <3>2. Held(NodesOf(N), "alloc") = ta
      BY <1>2, <1>12, <1>13, <2>1, <3>1
    <3> QED BY <2>3, <3>2 DEF Without
  <2> QED BY <2>2, <2>3
<1>16. Held(NodesOf(N), "freed") = r.gsize
  <2>1. Held(NodesOf(N), "freed") = Held(R, "freed")
    BY <1>12, <1>13, <1>14
  <2>2. CASE n.kind = "freed"
    <3>1. Part(n, "freed") = n.size
      BY <2>2 DEF Part
    <3>2. Held(NodesOf(N), "freed") = h.gsize - n.size
      BY <1>2, <1>12, <1>13, <1>14, <2>1, <3>1
    <3>3. Wrap(h.gsize - n.size) = h.gsize - n.size
      BY <1>10, <3>2, TotalFits
    <3> QED BY <1>1, <2>2, <3>2, <3>3
  <2>3. CASE n.kind # "freed"
    <3>1. Part(n, "freed") = 0
      BY <2>3 DEF Part
    <3>2. Held(NodesOf(N), "freed") = h.gsize
      BY <1>2, <1>12, <1>13, <2>1, <3>1
    <3> QED BY <1>1, <2>3, <3>2
  <2> QED BY <2>2, <2>3
<1>17. Held(NodesOf(N), "free") = r.fsize
  <2>1. Held(NodesOf(N), "free") = h.fsize + s
    BY <1>2, <1>12, <1>13, <1>14
  <2>2. Wrap(h.fsize + s) = h.fsize + s
    BY <1>10, <2>1, TotalFits
  <2> QED BY <1>1, <2>1, <2>2
<1>18. InOrder(N, Without(ta, n), r.gsize, r.fsize, M)
  BY <1>2, <1>7, <1>10, <1>15, <1>16, <1>17 DEF InOrder
<1> QED BY <1>1, <1>11, <1>18 DEF r

\* The block of a node as a freed one.
AsFreed(n) == [n EXCEPT !.kind = "freed"]

LEMMA FreedNode ==
  ASSUME NEW n, Sound(n), n.kind = "alloc"
  PROVE  /\ Sound(AsFreed(n)) /\ AsFreed(n).kind = "freed"
         /\ AsFreed(n).size = n.size /\ AsFreed(n).block = n.block
         /\ Low(AsFreed(n)) = Low(n) /\ High(AsFreed(n)) = High(n)
<1> DEFINE e == AsFreed(n)
<1>1. n \in NodeType
  BY DEF Sound
<1>2. e \in NodeType /\ e.kind = "freed" /\ e.size = n.size /\ e.block = n.block
  BY <1>1 DEF NodeType, AsFreed
<1> HIDE DEF e
<1>3. Base(e) = Base(n) /\ Span(e) = Span(n)
  <2>1. Base(e) = Base(n)
    BY <1>2 DEF Base
  <2> QED BY <1>2, <2>1 DEF Span
<1>4. Low(e) = Low(n) /\ High(e) = High(n)
  BY <1>2, <1>3 DEF Low, High
<1>5. Sound(e)
  BY <1>2, <1>4 DEF Sound
<1> QED BY <1>2, <1>4, <1>5 DEF e

LEMMA KeptInOrder ==
  ASSUME NEW h, NEW ta, NEW M, InOrder(h.list, ta, h.gsize, h.fsize, M),
         NEW i \in 1..Len(h.list), h.list[i].kind = "alloc"
  PROVE  /\ InOrder(Kept(h, i).list, Wrap(ta - h.list[i].size),
                    Kept(h, i).gsize, Kept(h, i).fsize, M)
         /\ Blocks(NodesOf(Kept(h, i).list))
                = (Blocks(NodesOf(h.list)) \ {h.list[i]}) \cup {AsFreed(h.list[i])}
<1> DEFINE L == h.list
           n == h.list[i]
           e == AsFreed(n)
           N == [h.list EXCEPT ![i] = e]
           R == Outside(L, i, i)
           r == Kept(h, i)
<1>1. r.list = N /\ r.gsize = Wrap(h.gsize + n.size) /\ r.fsize = h.fsize
  BY DEF Kept, AsFreed
<1>2. /\ L \in Seq(NodeType) /\ Tiled(L) /\ NoTouch(NodesOf(L))
      /\ MemoryOf(NodesOf(L)) = M
      /\ ta = Held(NodesOf(L), "alloc") /\ h.gsize = Held(NodesOf(L), "freed")
      /\ h.fsize = Held(NodesOf(L), "free")
  BY DEF InOrder
<1>3. Sound(n) /\ n \in NodeType /\ n \in NodesOf(L)
  BY <1>2, TiledFacts DEF NodesOf, Sound
<1>4. /\ Sound(e) /\ e.kind = "freed" /\ e.size = n.size
      /\ Low(e) = Low(n) /\ High(e) = High(n)
  BY <1>3, FreedNode
<1>5. e \in NodeType /\ ~Free(e) /\ ~Free(n) /\ n.size \in Nat
  BY <1>3, <1>4, SoundFacts DEF Sound, Free
<1> HIDE DEF e, r
<1>6. Put(L, N, R, i, e)
  BY <1>2, <1>4, PutKeeps
<1> HIDE DEF R, N
<1>7. /\ N \in Seq(NodeType) /\ Tiled(N)
      /\ NodesOf(L) = R \cup {n} /\ NodesOf(N) = R \cup {e}
      /\ n \notin R /\ MemoryOf(NodesOf(N)) = MemoryOf(NodesOf(L))
  BY <1>6 DEF Put
<1>8. NoTouch(NodesOf(N))
  <2>1. \A x \in NodesOf(N) : Free(x) => x \in NodesOf(L)
    BY <1>5, <1>7
  <2> QED BY <1>2, <2>1 DEF NoTouch
<1>9. Blocks(NodesOf(N)) = (Blocks(NodesOf(L)) \ {n}) \cup {e}
  BY <1>5, <1>7 DEF Blocks
<1>10. ASSUME NEW k \in Kinds
       PROVE  /\ Held(R, k) \in Nat
              /\ Held(NodesOf(L), k) = Held(R, k) + Part(n, k)
              /\ Held(NodesOf(N), k) = Held(R, k) + Part(e, k)
  BY <1>3, <1>5, <1>6, PutTotals
<1>11. "alloc" \in Kinds /\ "freed" \in Kinds /\ "free" \in Kinds
  BY DEF Kinds
<1>12. /\ Part(n, "alloc") = n.size /\ Part(n, "freed") = 0 /\ Part(n, "free") = 0
       /\ Part(e, "alloc") = 0 /\ Part(e, "freed") = n.size /\ Part(e, "free") = 0
  BY <1>4 DEF Part
<1>13. Held(NodesOf(N), "alloc") = ta - n.size
  BY <1>2, <1>5, <1>10, <1>11, <1>12
<1>14. Held(NodesOf(N), "freed") = h.gsize + n.size
  BY <1>2, <1>5, <1>10, <1>11, <1>12
<1>15. Held(NodesOf(N), "free") = h.fsize
  BY <1>2, <1>10, <1>11, <1>12
<1>16. /\ Wrap(ta - n.size) = ta - n.size
       /\ Wrap(h.gsize + n.size) = h.gsize + n.size
  BY <1>7, <1>13, <1>14, TotalFits
<1>17. InOrder(N, Wrap(ta - n.size), r.gsize, r.fsize, M)
  BY <1>1, <1>2, <1>7, <1>8, <1>13, <1>14, <1>15, <1>16 DEF InOrder
<1> QED BY <1>1, <1>9, <1>17 DEF r, e

-----------------------------------------------------------------------------
(***************************************************************************)
(* The queue of freed blocks                                               *)
(***************************************************************************)
\* The freed blocks among the blocks of B are queued in q, each of them once.
Queued(q, B) ==
    /\ q \in Seq(Size)
    /\ \A k \in 1..Len(q) : \E n \in B : n.kind = "freed" /\ n.block = q[k]
    /\ \A n \in B : n.kind = "freed" => \E k \in 1..Len(q) : q[k] = n.block
    /\ \A j \in 1..Len(q), k \in 1..Len(q) : q[j] = q[k] => j = k

\* A block is known by its address.
Distinct(B) == \A n \in B, m \in B : n.block = m.block => n = m

LEMMA BlocksDistinct ==
  ASSUME NEW L \in Seq(NodeType), Tiled(L)
  PROVE  /\ Distinct(Blocks(NodesOf(L)))
         /\ \A i \in 1..Len(L), j \in 1..Len(L) : L[i].block = L[j].block => i = j
<1>1. /\ \A i \in 1..Len(L) : Sound(L[i])
      /\ \A i \in 1..Len(L), j \in 1..Len(L) : i < j => High(L[i]) <= Low(L[j])
  BY TiledFacts
<1>2. \A i \in 1..Len(L) :
        /\ L[i].block \in Nat /\ L[i].size \in Nat /\ L[i].size > 0
        /\ Low(L[i]) \in Nat /\ High(L[i]) \in Nat
        /\ Low(L[i]) <= L[i].block /\ L[i].block + L[i].size <= High(L[i])
  BY <1>1, SoundFacts
<1>3. ASSUME NEW i \in 1..Len(L), NEW j \in 1..Len(L), i < j
      PROVE  L[i].block # L[j].block
  <2>1. High(L[i]) <= Low(L[j])
    BY <1>1, <1>3
  <2>2. /\ L[i].block \in Nat /\ L[i].size \in Nat /\ L[i].size > 0
        /\ L[i].block + L[i].size <= High(L[i]) /\ High(L[i]) \in Nat
    BY <1>2
  <2>3. Low(L[j]) \in Nat /\ Low(L[j]) <= L[j].block /\ L[j].block \in Nat
    BY <1>2
  <2> QED BY <2>1, <2>2, <2>3
<1>4. ASSUME NEW i \in 1..Len(L), NEW j \in 1..Len(L), L[i].block = L[j].block
      PROVE  i = j
  <2>1. i < j \/ j < i \/ i = j
    OBVIOUS
  <2> QED BY <1>3, <1>4, <2>1
<1>5. Distinct(Blocks(NodesOf(L)))
  BY <1>4 DEF Distinct, Blocks, NodesOf
<1> QED BY <1>4, <1>5

\* Only the freed blocks count.
LEMMA QueueSame ==
  ASSUME NEW q, NEW B, NEW C, Queued(q, B),
         \A n : n.kind = "freed" => (n \in B <=> n \in C)
  PROVE  Queued(q, C)
<1>1. /\ q \in Seq(Size)
      /\ \A k \in 1..Len(q) : \E n \in B : n.kind = "freed" /\ n.block = q[k]
      /\ \A n \in B : n.kind = "freed" => \E k \in 1..Len(q) : q[k] = n.block
      /\ \A j \in 1..Len(q), k \in 1..Len(q) : q[j] = q[k] => j = k
  BY DEF Queued
<1>2. \A k \in 1..Len(q) : \E n \in C : n.kind = "freed" /\ n.block = q[k]
  BY <1>1
<1>3. \A n \in C : n.kind = "freed" => \E k \in 1..Len(q) : q[k] = n.block
  BY <1>1
<1> QED BY <1>1, <1>2, <1>3 DEF Queued

\* The block that was freed first leaves.
LEMMA QueueTail ==
  ASSUME NEW q, NEW B, Queued(q, B), Distinct(B), q # <<>>,
         NEW n \in B, n.kind = "freed", n.block = Head(q)
  PROVE  Queued(Tail(q), B \ {n})
<1>1. /\ q \in Seq(Size)
      /\ \A k \in 1..Len(q) : \E m \in B : m.kind = "freed" /\ m.block = q[k]
      /\ \A m \in B : m.kind = "freed" => \E k \in 1..Len(q) : q[k] = m.block
      /\ \A j \in 1..Len(q), k \in 1..Len(q) : q[j] = q[k] => j = k
  BY DEF Queued
<1> DEFINE t == Tail(q)
           s == Len(q)
<1>2. /\ t \in Seq(Size) /\ Len(t) = s - 1 /\ s \in Nat /\ s >= 1
      /\ \A k \in 1..s - 1 : t[k] = q[k + 1]
      /\ Head(q) = q[1]
  BY <1>1, HeadTailProperties
<1> HIDE DEF t, s
<1>3. \A k \in 1..s - 1 : k + 1 \in 1..s /\ k + 1 # 1 /\ 1 \in 1..s
  BY <1>2
<1>4. ASSUME NEW k \in 1..s - 1
      PROVE  \E m \in B \ {n} : m.kind = "freed" /\ m.block = t[k]
  <2>1. k + 1 \in 1..s /\ t[k] = q[k + 1] /\ k + 1 # 1 /\ 1 \in 1..s
    BY <1>2, <1>3
  <2>2. PICK m \in B : m.kind = "freed" /\ m.block = q[k + 1]
    BY <1>1, <2>1 DEF s
  <2>3. q[k + 1] # q[1]
    BY <1>1, <2>1 DEF s
  <2>4. m # n
    BY <1>2, <2>2, <2>3
  <2> QED BY <2>1, <2>2, <2>4
<1>5. ASSUME NEW m \in B \ {n}, m.kind = "freed"
      PROVE  \E k \in 1..s - 1 : t[k] = m.block
  <2>1. PICK j \in 1..s : q[j] = m.block
    BY <1>1, <1>5 DEF s
  <2>2. m.block # n.block
    BY DEF Distinct
  <2>3. j # 1
    BY <1>2, <2>1, <2>2
  <2>4. j - 1 \in 1..s - 1 /\ (j - 1) + 1 = j
    BY <1>2, <2>1, <2>3
  <2>5. t[j - 1] = m.block
    BY <1>2, <2>1, <2>4
  <2> QED BY <2>4, <2>5
<1>6. ASSUME NEW j \in 1..s - 1, NEW k \in 1..s - 1, t[j] = t[k] PROVE j = k
  <2>1. q[j + 1] = q[k + 1] /\ j + 1 \in 1..s /\ k + 1 \in 1..s
    BY <1>2, <1>3, <1>6
  <2>2. j + 1 = k + 1
    BY <1>1, <2>1 DEF s
  <2> QED BY <2>2
<1>7. Queued(t, B \ {n})
  BY <1>2, <1>4, <1>5, <1>6 DEF Queued
<1> QED BY <1>7 DEF t

\* A block that is freed comes last.
LEMMA QueueAppend ==
  ASSUME NEW q, NEW B, Queued(q, B), Distinct(B), NEW n \in B,
         n.kind = "alloc", n.block \in Size,
         NEW e, e.kind = "freed", e.block = n.block
  PROVE  Queued(Append(q, n.block), (B \ {n}) \cup {e})
<1>1. /\ q \in Seq(Size)
      /\ \A k \in 1..Len(q) : \E m \in B : m.kind = "freed" /\ m.block = q[k]
      /\ \A m \in B : m.kind = "freed" => \E k \in 1..Len(q) : q[k] = m.block
      /\ \A j \in 1..Len(q), k \in 1..Len(q) : q[j] = q[k] => j = k
  BY DEF Queued
<1> DEFINE t == Append(q, n.block)
           s == Len(q)
           b == n.block
           C == (B \ {n}) \cup {e}
<1>2. /\ t \in Seq(Size) /\ Len(t) = s + 1 /\ s \in Nat
      /\ \A k \in 1..s : t[k] = q[k]
      /\ t[s + 1] = b
  BY <1>1, AppendProperties
<1>3. \A m \in B : m.kind = "freed" => m \in C
  OBVIOUS
<1>4. \A k \in 1..s : q[k] # b
  <2> SUFFICES ASSUME NEW k \in 1..s, q[k] = b PROVE FALSE
    OBVIOUS
  <2>1. PICK m \in B : m.kind = "freed" /\ m.block = q[k]
    BY <1>1
  <2>2. m = n
    BY <2>1 DEF Distinct
  <2> QED BY <2>1, <2>2
<1>5. e \in C /\ e.kind = "freed" /\ e.block = b
  OBVIOUS
<1>6. \A m \in C : m = e \/ m \in B
  OBVIOUS
<1> HIDE DEF t, s, b, C
<1>7. \A k \in 1..s + 1 : k \in 1..s \/ k = s + 1
  BY <1>2
<1>8. ASSUME NEW k \in 1..s + 1
      PROVE  \E m \in C : m.kind = "freed" /\ m.block = t[k]
  <2>1. CASE k \in 1..s
    <3>1. PICK m \in B : m.kind = "freed" /\ m.block = q[k]
      BY <1>1, <2>1 DEF s
    <3> QED BY <1>2, <1>3, <2>1, <3>1
  <2>2. CASE k = s + 1
    BY <1>2, <1>5, <2>2
  <2> QED BY <1>7, <2>1, <2>2
<1>9. ASSUME NEW m \in C, m.kind = "freed"
      PROVE  \E k \in 1..s + 1 : t[k] = m.block
  <2>1. CASE m = e
    <3>1. s + 1 \in 1..s + 1
      BY <1>2
    <3> QED BY <1>2, <1>5, <2>1, <3>1
  <2>2. CASE m \in B
    <3>1. PICK k \in 1..s : q[k] = m.block
      BY <1>1, <1>9, <2>2 DEF s
    <3>2. k \in 1..s + 1 /\ t[k] = q[k]
      BY <1>2, <3>1
    <3> QED BY <3>1, <3>2
  <2> QED BY <1>6, <2>1, <2>2
<1>10. ASSUME NEW j \in 1..s + 1, NEW k \in 1..s + 1, t[j] = t[k] PROVE j = k
  <2>1. CASE j \in 1..s /\ k \in 1..s
    BY <1>1, <1>2, <1>10, <2>1 DEF s
  <2>2. CASE j \in 1..s /\ k = s + 1
    BY <1>2, <1>4, <1>10, <2>2
  <2>3. CASE j = s + 1 /\ k \in 1..s
    BY <1>2, <1>4, <1>10, <2>3
  <2>4. CASE j = s + 1 /\ k = s + 1
    BY <2>4
  <2> QED BY <1>7, <2>1, <2>2, <2>3, <2>4
<1>11. Queued(t, C)
  BY <1>2, <1>8, <1>9, <1>10 DEF Queued
<1> QED BY <1>11 DEF t, C

-----------------------------------------------------------------------------
(***************************************************************************)
(* Every operation keeps the heap in order                                 *)
(***************************************************************************)
HeapBytes(H) == UNION {Run(p, PAGE) : p \in H}

\* The inductive invariant: the list is in order and describes the memory from
\* the system, the totals are those of its nodes, and the freed queue has its
\* freed blocks, no more of them than the NOFREE option allows.
HeapOrder ==
    /\ InOrder(list, asize, gsize, fsize, HeapBytes(heap))
    /\ Queued(flist, Blocks(NodesOf(list)))
    /\ trim = NoTrim => Len(flist) <= fmax

HeapInv == IInv /\ HeapOrder

LEMMA BlockOfList ==
  ASSUME NEW L, NEW i \in 1..Len(L)
  PROVE  L[i].kind \in {"alloc", "freed"}
            => L[i] \in Blocks(NodesOf(L)) /\ ~Free(L[i])
  BY DEF Blocks, NodesOf, Free

\* What __mp_recyclefreed() leaves.
Recycling(h, n) ==
    /\ n \in Blocks(NodesOf(list)) /\ n.kind = "freed"
    /\ InOrder(h.list, asize, h.gsize, h.fsize, HeapBytes(heap))
    /\ Blocks(NodesOf(h.list)) = Blocks(NodesOf(list)) \ {n}
    /\ Queued(Tail(flist), Blocks(NodesOf(h.list)))

LEMMA RecycledInOrder ==
  ASSUME HeapInv, flist # <<>>, NEW h \in Recycled
  PROVE  \E n : Recycling(h, n)
<1>1. PICK i \in IndexOf(list, Head(flist), "freed") : h = Released(Now, i)
  BY DEF Recycled
<1> DEFINE n == list[i]
           B == Blocks(NodesOf(list))
<1>2. i \in 1..Len(list) /\ n.block = Head(flist) /\ n.kind = "freed"
  BY DEF IndexOf
<1>3. n \in B /\ ~Free(n)
  BY <1>2, BlockOfList
<1>4. /\ InOrder(list, asize, gsize, fsize, HeapBytes(heap))
      /\ Queued(flist, B)
  BY DEF HeapInv, HeapOrder
<1>5. Distinct(B)
  BY <1>4, BlocksDistinct DEF InOrder
<1>6. Now.list = list /\ Now.gsize = gsize /\ Now.fsize = fsize
  BY DEF Now
<1>7. InOrder(Now.list, asize, Now.gsize, Now.fsize, HeapBytes(heap))
  BY <1>4, <1>6
<1>8. /\ InOrder(Released(Now, i).list, Without(asize, n),
                 Released(Now, i).gsize, Released(Now, i).fsize, HeapBytes(heap))
      /\ Blocks(NodesOf(Released(Now, i).list)) = B \ {n}
  <2>1. i \in 1..Len(Now.list) /\ ~Free(Now.list[i])
    BY <1>2, <1>3, <1>6
  <2>2. /\ InOrder(Released(Now, i).list, Without(asize, Now.list[i]),
                   Released(Now, i).gsize, Released(Now, i).fsize, HeapBytes(heap))
        /\ Blocks(NodesOf(Released(Now, i).list))
                = Blocks(NodesOf(Now.list)) \ {Now.list[i]}
    BY <1>7, <2>1, ReleasedInOrder, Zenon
  <2> QED BY <1>6, <2>2
<1>9. Without(asize, n) = asize
  BY <1>2 DEF Without
<1>10. Queued(Tail(flist), B \ {n})
  BY <1>2, <1>3, <1>4, <1>5, QueueTail
<1>11. Recycling(h, n)
  BY <1>1, <1>2, <1>3, <1>8, <1>9, <1>10 DEF Recycling
<1> QED BY <1>11

\* Block n is no longer there.
Gone(n) == Blocks(NodesOf(list')) = Blocks(NodesOf(list)) \ {n}

LEMMA FreeallocDropOrder ==
  ASSUME HeapInv, NEW i \in 1..Len(list), FreeallocDrop(i)
  PROVE  HeapOrder' /\ Gone(list[i])
<1> DEFINE n == list[i]
           h == Released(Now, i)
           B == Blocks(NodesOf(list))
<1>1. /\ n.kind = "alloc" /\ Becomes(h) /\ asize' = Wrap(asize - n.size)
      /\ flist' = flist /\ fmax' = fmax /\ trim' = trim /\ heap' = heap
  BY DEF FreeallocDrop
<1>2. /\ InOrder(list, asize, gsize, fsize, HeapBytes(heap))
      /\ Queued(flist, B) /\ (trim = NoTrim => Len(flist) <= fmax)
  BY DEF HeapInv, HeapOrder
<1>3. Now.list = list /\ Now.gsize = gsize /\ Now.fsize = fsize
  BY DEF Now
<1>4. /\ InOrder(h.list, Without(asize, n), h.gsize, h.fsize, HeapBytes(heap))
      /\ Blocks(NodesOf(h.list)) = B \ {n}
  <2>1. i \in 1..Len(Now.list) /\ ~Free(Now.list[i])
    BY <1>1, <1>3, BlockOfList
  <2>2. InOrder(Now.list, asize, Now.gsize, Now.fsize, HeapBytes(heap))
    BY <1>2, <1>3
  <2>3. /\ InOrder(h.list, Without(asize, Now.list[i]), h.gsize, h.fsize,
                   HeapBytes(heap))
        /\ Blocks(NodesOf(h.list)) = Blocks(NodesOf(Now.list)) \ {Now.list[i]}
    BY <2>1, <2>2, ReleasedInOrder, Zenon
  <2> QED BY <1>3, <2>3
<1>5. Without(asize, n) = Wrap(asize - n.size)
  BY <1>1 DEF Without
<1> HIDE DEF h
<1>6. list' = h.list /\ gsize' = h.gsize /\ fsize' = h.fsize
  BY <1>1 DEF Becomes
<1>7. InOrder(list, asize, gsize, fsize, HeapBytes(heap))'
  BY <1>1, <1>4, <1>5, <1>6
<1>8. Queued(flist, Blocks(NodesOf(list)))'
  <2>1. Queued(flist, B \ {n})
    <3>1. \A m : m.kind = "freed" => (m \in B <=> m \in B \ {n})
      BY <1>1
    <3> QED BY <1>2, <3>1, QueueSame
  <2> QED BY <1>1, <1>4, <1>6, <2>1
<1>9. Gone(n)
  BY <1>4, <1>6 DEF Gone
<1> QED BY <1>1, <1>2, <1>7, <1>8, <1>9 DEF HeapOrder

LEMMA OptNofreeRecycleOrder ==
  ASSUME HeapInv, OptNofreeRecycle
  PROVE  HeapOrder' /\ \E n : n.kind = "freed" /\ Gone(n)
<1>1. PICK h \in Recycled : Becomes(h)
  BY DEF OptNofreeRecycle
<1>2. /\ trim # NoTrim /\ trim' = trim /\ flist' = Tail(flist)
      /\ asize' = asize /\ heap' = heap /\ Len(flist) > trim
  BY DEF OptNofreeRecycle
<1>3. flist # <<>>
  <2>1. trim \in Nat
    BY <1>2, BoundsAssumption DEF HeapInv, IInv, Others
  <2> QED BY <1>2, <2>1
<1>4. PICK n : Recycling(h, n)
  BY <1>3, RecycledInOrder
<1>5. list' = h.list /\ gsize' = h.gsize /\ fsize' = h.fsize
  BY <1>1 DEF Becomes
<1>6. /\ InOrder(list, asize, gsize, fsize, HeapBytes(heap))'
      /\ Queued(flist, Blocks(NodesOf(list)))'
  BY <1>2, <1>4, <1>5 DEF Recycling
<1>7. n.kind = "freed" /\ Gone(n)
  BY <1>4, <1>5 DEF Recycling, Gone
<1> QED BY <1>2, <1>6, <1>7 DEF HeapOrder

\* The state k has freed block n at the end of the queue q.
HoldsBack(k, B, ta, q, n, M) ==
    /\ InOrder(k.list, ta, k.gsize, k.fsize, M)
    /\ Queued(Append(q, n.block), Blocks(NodesOf(k.list)))
    /\ Blocks(NodesOf(k.list)) = (B \ {n}) \cup {AsFreed(n)}

LEMMA KeepOrder ==
  ASSUME NEW h, NEW ta, NEW M, InOrder(h.list, ta, h.gsize, h.fsize, M),
         NEW q, Queued(q, Blocks(NodesOf(h.list))),
         NEW j \in 1..Len(h.list), NEW n, h.list[j] = n, n.kind = "alloc"
  PROVE  HoldsBack(Kept(h, j), Blocks(NodesOf(h.list)), Wrap(ta - n.size), q, n, M)
<1> DEFINE B == Blocks(NodesOf(h.list))
<1>1. /\ InOrder(Kept(h, j).list, Wrap(ta - n.size), Kept(h, j).gsize,
                 Kept(h, j).fsize, M)
      /\ Blocks(NodesOf(Kept(h, j).list)) = (B \ {n}) \cup {AsFreed(n)}
  BY KeptInOrder
<1>2. h.list \in Seq(NodeType) /\ Tiled(h.list)
  BY DEF InOrder
<1>3. Sound(n) /\ n \in NodeType
  BY <1>2, TiledFacts DEF Sound
<1>4. n \in B
  BY BlockOfList
<1>5. Distinct(B)
  BY <1>2, BlocksDistinct
<1>6. n.block \in Size
  BY <1>3 DEF NodeType
<1> HIDE DEF B
<1>7. AsFreed(n).kind = "freed" /\ AsFreed(n).block = n.block
  BY <1>3, FreedNode
<1>8. Queued(q, B)
  BY DEF B
<1> DEFINE e == AsFreed(n)
<1>9. e.kind = "freed" /\ e.block = n.block
  BY <1>7
<1> HIDE DEF e
<1>10. Queued(Append(q, n.block), (B \ {n}) \cup {e})
  BY <1>4, <1>5, <1>6, <1>8, <1>9, QueueAppend
<1> QED BY <1>1, <1>10 DEF e, B, HoldsBack

\* D is what is left of the blocks of B when the oldest freed one makes room.
MakesRoom(full, B, D) ==
    IF full THEN \E m : m.kind = "freed" /\ D = B \ {m} ELSE D = B

\* Block n, one of D, is freed and held back.
Retained(n, D) ==
    LET full == flist # <<>> /\ Len(flist) = fmax
        q == IF full THEN Tail(flist) ELSE flist
    IN  /\ MakesRoom(full, Blocks(NodesOf(list)), D)
        /\ n \in D /\ Queued(q, D) /\ flist' = Append(q, n.block)
        /\ Blocks(NodesOf(list')) = (D \ {n}) \cup {AsFreed(n)}

LEMMA FreeallocKeepOrder ==
  ASSUME HeapInv, NEW i \in 1..Len(list), FreeallocKeep(i)
  PROVE  HeapOrder' /\ \E D : Retained(list[i], D)
<1> DEFINE n == list[i]
           B == Blocks(NodesOf(list))
           full == flist # <<>> /\ Len(flist) = fmax
           q == IF full THEN Tail(flist) ELSE flist
           M == HeapBytes(heap)
<1>1. /\ trim = NoTrim /\ n.kind = "alloc" /\ fmax # 0
      /\ flist' = Append(q, n.block) /\ asize' = Wrap(asize - n.size)
      /\ fmax' = fmax /\ trim' = trim /\ heap' = heap
  BY DEF FreeallocKeep
<1>2. PICK h \in IF full THEN Recycled ELSE {Now} :
        \E j \in IndexOf(h.list, n.block, "alloc") : Becomes(Kept(h, j))
  BY DEF FreeallocKeep
<1>3. PICK j \in IndexOf(h.list, n.block, "alloc") : Becomes(Kept(h, j))
  BY <1>2
<1>4. /\ InOrder(list, asize, gsize, fsize, M) /\ Queued(flist, B)
      /\ Len(flist) <= fmax
  BY <1>1 DEF HeapInv, HeapOrder
<1>5. n \in B /\ Distinct(B)
  <2>1. n \in B
    BY <1>1, BlockOfList
  <2>2. Distinct(B)
    BY <1>4, BlocksDistinct DEF InOrder
  <2> QED BY <2>1, <2>2
<1>6. /\ InOrder(h.list, asize, h.gsize, h.fsize, M)
      /\ Queued(q, Blocks(NodesOf(h.list)))
      /\ Blocks(NodesOf(h.list)) \subseteq B
      /\ MakesRoom(full, B, Blocks(NodesOf(h.list)))
  <2>1. CASE full
    <3>1. h \in Recycled
      BY <1>2, <2>1
    <3>2. PICK m : Recycling(h, m)
      BY <2>1, <3>1, RecycledInOrder
    <3> QED BY <2>1, <3>2 DEF Recycling, MakesRoom
  <2>2. CASE ~full
    <3>1. h.list = list /\ h.gsize = gsize /\ h.fsize = fsize
      BY <1>2, <2>2 DEF Now
    <3> QED BY <1>4, <2>2, <3>1 DEF MakesRoom
  <2> QED BY <2>1, <2>2
<1>7. j \in 1..Len(h.list) /\ h.list[j].block = n.block /\ h.list[j].kind = "alloc"
  BY <1>3 DEF IndexOf
<1>8. h.list[j] = n
  <2>1. h.list[j] \in Blocks(NodesOf(h.list))
    BY <1>7, BlockOfList
  <2> QED BY <1>5, <1>6, <1>7, <2>1 DEF Distinct
<1>9. Len(q) + 1 <= fmax /\ q \in Seq(Size)
  <2>1. fmax \in Nat /\ flist \in Seq(Size)
    BY BoundsAssumption DEF HeapInv, IInv, Others
  <2>2. CASE full
    <3>1. Len(Tail(flist)) = Len(flist) - 1 /\ Tail(flist) \in Seq(Size)
      BY <2>1, <2>2, HeadTailProperties
    <3> QED BY <1>4, <2>1, <2>2, <3>1
  <2>3. CASE ~full
    <3>1. flist = <<>> => Len(flist) = 0
      BY <2>1
    <3>2. Len(flist) \in Nat
      BY <2>1
    <3> QED BY <1>1, <1>4, <2>1, <2>3, <3>1, <3>2
  <2> QED BY <2>2, <2>3
<1> HIDE DEF q, M, full, n
<1>10. /\ InOrder(Kept(h, j).list, Wrap(asize - n.size), Kept(h, j).gsize,
                  Kept(h, j).fsize, M)
       /\ Queued(Append(q, n.block), Blocks(NodesOf(Kept(h, j).list)))
       /\ Blocks(NodesOf(Kept(h, j).list))
            = (Blocks(NodesOf(h.list)) \ {n}) \cup {AsFreed(n)}
  <2>1. HoldsBack(Kept(h, j), Blocks(NodesOf(h.list)), Wrap(asize - n.size), q, n, M)
    BY <1>1, <1>6, <1>7, <1>8, KeepOrder, Zenon
  <2> QED BY <2>1 DEF HoldsBack
<1>11. /\ list' = Kept(h, j).list /\ gsize' = Kept(h, j).gsize
       /\ fsize' = Kept(h, j).fsize
  BY <1>3 DEF Becomes
<1>12. InOrder(list, asize, gsize, fsize, HeapBytes(heap))'
  BY <1>1, <1>10, <1>11 DEF M
<1>13. Queued(flist, Blocks(NodesOf(list)))'
  BY <1>1, <1>10, <1>11
<1>14. Len(flist') <= fmax'
  <2>1. Len(Append(q, n.block)) = Len(q) + 1
    BY <1>9
  <2> QED BY <1>1, <1>9, <2>1
<1>15. Retained(list[i], Blocks(NodesOf(h.list)))
  <2>1. n \in Blocks(NodesOf(h.list))
    BY <1>1, <1>7, <1>8, BlockOfList
  <2>2. flist' = Append(q, n.block)
    BY <1>1
  <2> QED BY <1>6, <1>10, <1>11, <2>1, <2>2 DEF Retained, full, q, n
<1> QED BY <1>12, <1>13, <1>14, <1>15 DEF HeapOrder

\* C are the blocks of B and a new one, of l bytes and aligned to a, or no other.
Made(B, C, blk, l, a) ==
    /\ C = B \cup {blk} /\ blk \notin B
    /\ blk.kind = "alloc" /\ blk.size = l /\ Aligned(blk, a)
Gained(B, C, l, a) == C = B \/ \E blk : Made(B, C, blk, l, a)

LEMMA SplitNodeOrder ==
  ASSUME RequestsFit, NEW h, NEW M, InOrder(h.list, asize, h.gsize, h.fsize, M),
         NEW i \in 1..Len(h.list), Free(h.list[i]), NEW l \in Asked,
         NEW a \in 1..PAGE, Fits(h.list[i], l, a), NEW asked,
         SplitNode(h, i, l, a, asked)
  PROVE  /\ InOrder(list', asize', gsize', fsize', M)
         /\ \E blk : Made(Blocks(NodesOf(h.list)), Blocks(NodesOf(list')), blk, l, a)
<1> DEFINE n == h.list[i]
           p == Pieces(n, l, a)
<1>1. /\ list' = SplitList(h.list, i, p) /\ gsize' = h.gsize
      /\ fsize' = Wrap(h.fsize - n.size + p.unused)
      /\ asize' = Wrap(asize + p.block.size)
  BY DEF SplitNode, Becomes, SplitList
<1>2. Sound(n)
  BY TiledFacts DEF InOrder
<1> HIDE DEF n
<1>3. Aligned(p.block, a) /\ \E c \in Nat, d \in Nat : Cut(p, n, l, c, d)
  <2>1. Free(n) /\ Fits(n, l, a)
    BY DEF n
  <2>2. CASE PAGEALLOC
    BY <1>2, <2>1, <2>2, PiecesOfPages
  <2>3. CASE ~PAGEALLOC
    BY <1>2, <2>1, <2>3, PiecesOfBytes
  <2> QED BY <2>2, <2>3
<1>4. l \in Nat
  BY AskedFacts
<1> HIDE DEF p
<1>5. PICK c \in Nat, d \in Nat : Cut(p, n, l, c, d)
  BY <1>3
<1>6. /\ InOrder(SplitList(h.list, i, p), Wrap(asize + p.block.size), h.gsize,
                 Wrap(h.fsize - h.list[i].size + p.unused), M)
      /\ Blocks(NodesOf(SplitList(h.list, i, p)))
            = Blocks(NodesOf(h.list)) \cup {p.block}
      /\ p.block \notin NodesOf(h.list)
  <2>1. Cut(p, h.list[i], l, c, d)
    BY <1>5 DEF n
  <2> QED BY <1>4, <2>1, SplitInOrder, Zenon
<1>7. p.block.kind = "alloc" /\ p.block.size = l
  BY <1>5 DEF Cut
<1>8. InOrder(list', asize', gsize', fsize', M)
  BY <1>1, <1>6 DEF n
<1>9. Made(Blocks(NodesOf(h.list)), Blocks(NodesOf(list')), p.block, l, a)
  <2>1. p.block \notin Blocks(NodesOf(h.list))
    BY <1>6 DEF Blocks
  <2> QED BY <1>1, <1>3, <1>6, <1>7, <2>1 DEF Made
<1> QED BY <1>8, <1>9

LEMMA SplitOrder ==
  ASSUME RequestsFit, NEW h, NEW M, InOrder(h.list, asize, h.gsize, h.fsize, M),
         Queued(flist, Blocks(NodesOf(h.list))),
         NEW i \in 1..Len(h.list), Free(h.list[i]), NEW l \in Asked,
         NEW a \in 1..PAGE, Fits(h.list[i], l, a), NEW asked,
         SplitNode(h, i, l, a, asked) \/ SplitFails(h)
  PROVE  /\ InOrder(list', asize', gsize', fsize', M)
         /\ Queued(flist, Blocks(NodesOf(list')))
         /\ Gained(Blocks(NodesOf(h.list)), Blocks(NodesOf(list')), l, a)
<1>1. CASE SplitNode(h, i, l, a, asked)
  <2> DEFINE B == Blocks(NodesOf(h.list))
             C == Blocks(NodesOf(list'))
  <2>1. /\ InOrder(list', asize', gsize', fsize', M)
        /\ \E blk : Made(B, C, blk, l, a)
    BY <1>1, SplitNodeOrder, Zenon
  <2>2. PICK blk : Made(B, C, blk, l, a)
    BY <2>1
  <2>3. \A m : m.kind = "freed" => (m \in B <=> m \in C)
    <3> HIDE DEF B, C
    <3> QED BY <2>2 DEF Made
  <2> HIDE DEF B, C
  <2>4. Queued(flist, B)
    BY DEF B
  <2>5. Queued(flist, C)
    BY <2>3, <2>4, QueueSame
  <2>6. Gained(B, C, l, a)
    BY <2>2 DEF Gained
  <2> QED BY <2>1, <2>5, <2>6 DEF B, C
<1>2. CASE SplitFails(h)
  <2>1. /\ list' = h.list /\ gsize' = h.gsize /\ fsize' = h.fsize
        /\ asize' = asize
    BY <1>2 DEF SplitFails, Becomes
  <2> QED BY <2>1 DEF Gained
<1> QED BY <1>1, <1>2

\* The free node that a request gets has room for it, wherever in it the
\* alignment puts the block.
LEMMA BestFit ==
  ASSUME RequestsFit, HeapInv, NEW l \in Asked, NEW a \in 1..PAGE,
         NEW i \in BestFits(Need(l, a))
  PROVE  i \in 1..Len(list) /\ Free(list[i]) /\ Fits(list[i], l, a)
<1>1. InOrder(list, asize, gsize, fsize, HeapBytes(heap))
  BY DEF HeapInv, HeapOrder
<1>2. l \in Asked /\ a \in 1..PAGE
  OBVIOUS
<1>3. i \in 1..Len(list) /\ Free(list[i]) /\ list[i].size >= Need(l, a)
  BY DEF BestFits, Free
<1>4. Fits(list[i], l, a)
  <2> DEFINE B == list[i].block
             O == Oflow
             g == (-(B + O)) % a
  <2>1. /\ B \in Nat /\ O \in Nat /\ l \in Nat /\ l + 2 * O + PAGE <= WORD
        /\ l > 0 /\ a \in Nat /\ a > 0 /\ a <= PAGE /\ PAGE \in Nat /\ WORD \in Nat
    <3>1. Sound(list[i])
      BY <1>1, <1>3, TiledFacts DEF InOrder
    <3> QED BY <1>2, <3>1, SoundFacts, AskedFacts, WordFacts
  <2>2. g \in 0..a - 1
    <3>1. B + O \in Int
      BY <2>1
    <3> HIDE DEF B, O
    <3> QED BY <2>1, <3>1, UpFacts
  <2>3. CASE PAGEALLOC
    <3>1. Need(l, a) = Wrap(l + 2 * O + 0)
      BY <2>3 DEF Need
    <3>2. l + 2 * O + 0 \in 0..WORD - 1
      <4> HIDE DEF O
      <4> QED BY <2>1
    <3>3. Need(l, a) = l + 2 * O + 0
      BY <3>1, <3>2, WrapSame
    <3> QED BY <1>3, <2>1, <2>3, <3>3 DEF Fits
  <2>4. CASE ~PAGEALLOC
    <3>1. Need(l, a) = Wrap(l + 2 * O + (a - 1))
      BY <2>4 DEF Need
    <3>2. l + 2 * O + (a - 1) \in 0..WORD - 1
      <4> HIDE DEF O
      <4> QED BY <2>1
    <3>3. Need(l, a) = l + 2 * O + (a - 1)
      BY <3>1, <3>2, WrapSame
    <3>4. l + 2 * O + g <= l + 2 * O + (a - 1)
      <4> HIDE DEF g, O
      <4> QED BY <2>1, <2>2
    <3>5. list[i].size \in Nat
      <4>1. Sound(list[i])
        BY <1>1, <1>3, TiledFacts DEF InOrder
      <4> QED BY <4>1, SoundFacts
    <3>6. l + 2 * O + g <= list[i].size
      <4> HIDE DEF g, O
      <4> QED BY <1>3, <2>1, <2>2, <3>3, <3>4, <3>5
    <3> QED BY <2>4, <3>6 DEF Fits
  <2> QED BY <2>3, <2>4
<1> QED BY <1>3, <1>4

LEMMA GetallocReuseOrder ==
  ASSUME RequestsFit, HeapInv, NEW asked \in SIZES, NEW al \in ALIGNS,
         GetallocReuse(asked, al)
  PROVE  /\ HeapOrder'
         /\ Gained(Blocks(NodesOf(list)), Blocks(NodesOf(list')),
                   AtLeastOne(asked), Alignment(al))
<1> DEFINE l == AtLeastOne(asked)
           a == Alignment(al)
           M == HeapBytes(heap)
<1>1. /\ trim = NoTrim /\ flist' = flist /\ fmax' = fmax /\ trim' = trim
      /\ heap' = heap
  BY DEF GetallocReuse
<1>2. PICK i \in BestFits(Need(l, a)) :
        SplitNode(Now, i, l, a, asked) \/ SplitFails(Now)
  BY DEF GetallocReuse
<1>3. /\ InOrder(list, asize, gsize, fsize, M)
      /\ Queued(flist, Blocks(NodesOf(list))) /\ Len(flist) <= fmax
  BY <1>1 DEF HeapInv, HeapOrder
<1>4. l \in Asked /\ a \in 1..PAGE
  BY WordFacts DEF Asked
<1>5. Now.list = list /\ Now.gsize = gsize /\ Now.fsize = fsize
  BY DEF Now
<1>6. i \in 1..Len(list) /\ Free(list[i]) /\ list[i].size >= Need(l, a)
  BY <1>2 DEF BestFits, Free
<1> HIDE DEF l, a
<1>7. Fits(list[i], l, a)
  <2>1. i \in BestFits(Need(l, a))
    BY <1>2 DEF l, a
  <2> QED BY <1>4, <2>1, BestFit
<1> HIDE DEF M
<1>8. /\ InOrder(list', asize', gsize', fsize', M)
      /\ Queued(flist, Blocks(NodesOf(list')))
      /\ Gained(Blocks(NodesOf(Now.list)), Blocks(NodesOf(list')), l, a)
  <2>1. /\ InOrder(Now.list, asize, Now.gsize, Now.fsize, M)
        /\ Queued(flist, Blocks(NodesOf(Now.list)))
        /\ i \in 1..Len(Now.list) /\ Free(Now.list[i]) /\ Fits(Now.list[i], l, a)
    BY <1>3, <1>5, <1>6, <1>7
  <2> QED BY <1>2, <1>4, <2>1, SplitOrder, Zenon
<1>9. InOrder(list, asize, gsize, fsize, HeapBytes(heap))'
  BY <1>1, <1>8 DEF M
<1>10. Gained(Blocks(NodesOf(list)), Blocks(NodesOf(list')), l, a)
  BY <1>5, <1>8
<1>11. HeapOrder'
  BY <1>1, <1>3, <1>8, <1>9 DEF HeapOrder
<1> QED BY <1>10, <1>11 DEF l, a

-----------------------------------------------------------------------------
(***************************************************************************)
(* Memory from the system                                                  *)
(***************************************************************************)
\* The size of a request for more memory is that of whole pages.
Whole(s) == s \in Nat /\ s > 0 /\ s <= WORD - 1 /\ s % PAGE = 0

LEMMA HeapSizeIs ==
  ASSUME NEW s, Whole(s) PROVE HeapSize(s) = s
<1>1. s \in Nat /\ s > 0 /\ s <= WORD - 1 /\ s % PAGE = 0 /\ PAGE \in Nat /\ PAGE > 0
  BY WordFacts DEF Whole
<1>2. RoundUp(s, PAGE) = s
  <2>1. s \in Int /\ s \in 0..WORD - 1 /\ s <= s /\ s < s + PAGE
    BY <1>1, WordFacts
  <2> QED BY <1>1, <2>1, RoundUpIs
<1> QED BY <1>1, <1>2 DEF HeapSize

LEMMA FreshSize ==
  ASSUME RequestsFit, NEW l \in Asked
  PROVE  /\ Whole(HeapSize(RoundUp(l + 2 * Oflow, PAGE)))
         /\ l + 2 * Oflow <= HeapSize(RoundUp(l + 2 * Oflow, PAGE))
<1> DEFINE n == l + 2 * Oflow
           s == RoundUp(n, PAGE)
<1>1. /\ n \in Nat /\ n > 0 /\ n + PAGE <= WORD
      /\ PAGE \in Nat /\ PAGE > 0 /\ WORD \in Nat
  BY AskedFacts, WordFacts
<1> HIDE DEF n
<1>2. s \in n .. n + PAGE - 1 /\ s % PAGE = 0
  BY <1>1, RoundUpFacts
<1> HIDE DEF s
<1>3. Whole(s) /\ n <= s
  BY <1>1, <1>2 DEF Whole
<1>4. HeapSize(s) = s
  BY <1>3, HeapSizeIs
<1> QED BY <1>3, <1>4 DEF s, n

\* A page has its number.
LEMMA PageNumber ==
  ASSUME NEW x \in Int, x % PAGE = 0, NEW y \in Int, y % PAGE = 0
  PROVE  \E k \in Int : y - x = k * PAGE /\ y = x + k * PAGE
<1>1. PAGE \in Nat /\ PAGE > 0
  BY WordFacts
<1>2. (y - x) % PAGE = 0 /\ y - x \in Int
  BY <1>1, Multiples
<1>3. PICK q \in Int : y - x = PAGE * q
  BY <1>1, <1>2, MultipleOf
<1>4. PAGE * q = q * PAGE /\ q * PAGE \in Int
  BY <1>1
<1>5. y = x + q * PAGE
  <2> DEFINE d == q * PAGE
  <2>1. y - x = d /\ d \in Int
    BY <1>3, <1>4
  <2> HIDE DEF d
  <2>2. y = x + d
    BY <2>1
  <2> QED BY <2>2 DEF d
<1> QED BY <1>3, <1>4, <1>5

\* The pages from p on that the heap manager gives out.
LEMMA PagesGiven ==
  ASSUME NEW s, Whole(s), NEW p \in HeapAlloc(s), NEW x \in Int, x % PAGE = 0,
         p <= x, x < p + s
  PROVE  x \in HEAPPAGES /\ x \notin heap
<1>1. /\ p \in HEAPPAGES /\ p \in Nat /\ p % PAGE = 0 /\ s \in Nat
      /\ s > 0 /\ s % PAGE = 0 /\ PAGE \in Nat /\ PAGE > 0
  BY HeapAssumption, WordFacts DEF HeapAlloc, Whole
<1>2. PICK k \in Int : x - p = k * PAGE /\ x = p + k * PAGE
  <2>1. p \in Int /\ p % PAGE = 0
    BY <1>1
  <2>2. \E k \in Int : x - p = k * PAGE /\ x = p + k * PAGE
    BY <2>1, PageNumber, Zenon
  <2> QED BY <2>2
<1>3. PICK m \in Int : s = PAGE * m
  BY <1>1, MultipleOf
<1>4. s \div PAGE = m
  <2> DEFINE q == s \div PAGE
  <2>1. q \in Int /\ s = (PAGE * q) + (s % PAGE)
    BY <1>1, Quotient
  <2> HIDE DEF q
  <2>2. PAGE * q = PAGE * m /\ PAGE * (q - m) = (PAGE * q) - (PAGE * m)
    BY <1>1, <1>3, <2>1
  <2>3. PAGE * (q - m) = 0 /\ q - m \in Int
    BY <1>1, <1>3, <2>1, <2>2
  <2>4. ~(q - m >= 1) /\ ~(q - m <= -1)
    BY <1>1, <2>3, Factor
  <2>5. q = m
    BY <2>1, <2>4
  <2> QED BY <2>5 DEF q
<1>5. k >= 0 /\ k <= m - 1
  <2>1. PAGE * k = k * PAGE /\ PAGE * (m - k) = (PAGE * m) - (PAGE * k)
    BY <1>1
  <2>2. PAGE * k >= 0 /\ PAGE * (m - k) > 0
    <3> DEFINE u == PAGE * k
               v == PAGE * m
               w == PAGE * (m - k)
    <3>1. u = x - p /\ w = v - u /\ v = s
      BY <1>2, <1>3, <2>1
    <3> HIDE DEF u, v, w
    <3>2. u >= 0 /\ w > 0
      BY <1>1, <3>1
    <3> QED BY <3>2 DEF u, w
  <2>3. ~(k <= -1) /\ ~(m - k <= -1) /\ ~(m - k = 0)
    BY <1>1, <2>2, Factor
  <2> QED BY <2>3
<1>6. HeapSize(s) \div PAGE = m
  BY <1>4, HeapSizeIs
<1>7. k \in 0..(HeapSize(s) \div PAGE) - 1
  BY <1>5, <1>6
<1>8. p + k * PAGE \in HEAPPAGES \ heap
  BY <1>7 DEF HeapAlloc
<1> QED BY <1>2, <1>8

\* The page of a byte.
LEMMA PageOf ==
  ASSUME NEW y \in Nat
  PROVE  \E x \in Nat : x % PAGE = 0 /\ x <= y /\ y < x + PAGE
<1>1. PAGE \in Nat /\ PAGE > 0
  BY WordFacts
<1>2. /\ RoundDown(y, PAGE) \in 0..y /\ y < RoundDown(y, PAGE) + PAGE
      /\ RoundDown(y, PAGE) % PAGE = 0
  BY <1>1, RoundDownFacts
<1> QED BY <1>2

\* New memory has no byte that is in the heap already, none that is no
\* address, and no gap.
LEMMA NewMemory ==
  ASSUME NEW s, Whole(s), NEW p \in HeapAlloc(s), heap \subseteq HEAPPAGES
  PROVE  /\ p \in Nat /\ p % PAGE = 0 /\ p + s <= WORD - 1
         /\ HeapBytes(PagesOf(p, s)) = p .. p + s - 1
         /\ \A y \in HeapBytes(heap) : ~(p <= y /\ y < p + s)
<1>1. /\ p \in Nat /\ p % PAGE = 0 /\ s \in Nat /\ s > 0 /\ s % PAGE = 0
      /\ PAGE \in Nat /\ PAGE > 0 /\ WORD \in Nat /\ p \in HEAPPAGES
      /\ \A q \in HEAPPAGES : q \in Nat /\ q % PAGE = 0 /\ q <= WORD - 1 - PAGE
  BY HeapAssumption, WordFacts DEF HeapAlloc, Whole
<1>2. (p + s) % PAGE = 0 /\ p + s \in Nat
  BY <1>1, Multiples
<1>3. p + s <= WORD - 1
  <2>1. PAGE % PAGE = 0 /\ p + s \in Int /\ PAGE \in Int
    BY <1>1
  <2>2. ((p + s) - PAGE) % PAGE = 0
    <3> DEFINE e == p + s
    <3>1. e \in Int /\ e % PAGE = 0
      BY <1>2
    <3> HIDE DEF e
    <3>2. (e - PAGE) % PAGE = 0
      BY <1>1, <2>1, <3>1, Multiples
    <3> QED BY <3>2 DEF e
  <2>3. p <= (p + s) - PAGE
    BY <1>1, <1>2, Apart
  <2>4. (p + s) - PAGE \in HEAPPAGES
    <3> DEFINE x == (p + s) - PAGE
    <3>1. x \in Int /\ x % PAGE = 0 /\ p <= x /\ x < p + s
      BY <1>1, <2>2, <2>3
    <3> HIDE DEF x
    <3>2. x \in HEAPPAGES
      BY <3>1, PagesGiven
    <3> QED BY <3>2 DEF x
  <2>5. (p + s) - PAGE <= WORD - 1 - PAGE
    BY <1>1, <2>4
  <2> QED BY <1>1, <2>5
<1>4. HeapBytes(PagesOf(p, s)) = p .. p + s - 1
  <2>1. ASSUME NEW y \in HeapBytes(PagesOf(p, s)) PROVE y \in p .. p + s - 1
    <3>1. PICK q \in PagesOf(p, s) : y \in Run(q, PAGE)
      BY DEF HeapBytes
    <3>2. q \in HEAPPAGES /\ p <= q /\ q < p + s
      BY <3>1 DEF PagesOf
    <3>3. q \in Nat /\ q % PAGE = 0
      BY <1>1, <3>2
    <3>4. q + PAGE <= p + s
      BY <1>1, <1>2, <3>2, <3>3, Apart
    <3>5. y \in q .. q + PAGE - 1
      BY <3>1 DEF Run
    <3> QED BY <1>1, <3>2, <3>3, <3>4, <3>5
  <2>2. ASSUME NEW y \in p .. p + s - 1 PROVE y \in HeapBytes(PagesOf(p, s))
    <3>1. y \in Nat
      BY <1>1
    <3>2. PICK x \in Nat : x % PAGE = 0 /\ x <= y /\ y < x + PAGE
      BY <3>1, PageOf
    <3>3. p <= x
      <4>1. ASSUME x < p PROVE FALSE
        <5>1. x + PAGE <= p
          BY <1>1, <3>2, <4>1, Apart
        <5> QED BY <1>1, <3>2, <5>1
      <4> QED BY <1>1, <4>1
    <3>4. x < p + s
      BY <1>1, <3>2
    <3>5. x \in HEAPPAGES
      BY <3>2, <3>3, <3>4, PagesGiven
    <3>6. x \in PagesOf(p, s)
      BY <3>3, <3>4, <3>5 DEF PagesOf
    <3>7. y \in Run(x, PAGE)
      BY <1>1, <3>1, <3>2 DEF Run
    <3> QED BY <3>6, <3>7 DEF HeapBytes
  <2> QED BY <2>1, <2>2
<1>5. ASSUME NEW y \in HeapBytes(heap), p <= y, y < p + s PROVE FALSE
  <2>1. PICK q \in heap : y \in Run(q, PAGE)
    BY DEF HeapBytes
  <2>2. q \in Nat /\ q % PAGE = 0
    BY <1>1, <2>1
  <2>3. y \in q .. q + PAGE - 1
    BY <2>1 DEF Run
  <2>4. p <= q
    <3>1. ASSUME q < p PROVE FALSE
      <4>1. q + PAGE <= p
        BY <1>1, <2>2, <3>1, Apart
      <4> QED BY <1>1, <1>5, <2>2, <2>3, <4>1
    <3> QED BY <1>1, <2>2, <3>1
  <2>5. q < p + s
    BY <1>1, <1>5, <2>2, <2>3
  <2>6. q \notin heap
    BY <2>2, <2>4, <2>5, PagesGiven
  <2> QED BY <2>1, <2>6
<1> QED BY <1>1, <1>3, <1>4, <1>5

\* Where new memory goes in the list.
LEMMA Placed ==
  ASSUME list \in Seq(NodeType), Tiled(list), NEW p \in Nat, NEW s \in Nat, s > 0,
         \A y \in MemoryOf(NodesOf(list)) : ~(p <= y /\ y < p + s),
         NEW at \in InsertAfter(p)
  PROVE  /\ at \in 0..Len(list)
         /\ \A k \in 1..Len(list) : k <= at => High(list[k]) <= p
         /\ \A k \in 1..Len(list) : k > at => p + s <= Low(list[k])
<1> DEFINE from == SearchFrom(p)
<1>1. /\ Len(list) \in Nat /\ at \in from..Len(list)
      /\ at = Len(list) \/ list[at + 1].block >= p
      /\ \A q \in from + 1 .. at : list[q].block < p
  BY DEF InsertAfter
<1>2. from \in 0..Len(list)
  BY <1>1, SearchFromFacts
<1>3. at \in 0..Len(list)
  BY <1>1, <1>2
<1>4. /\ \A k \in 1..Len(list) : Sound(list[k])
      /\ \A i \in 1..Len(list), j \in 1..Len(list) :
            i < j => High(list[i]) <= Low(list[j])
  BY TiledFacts
<1>5. \A k \in 1..Len(list) :
        /\ list[k].block \in Nat /\ list[k].size \in Nat /\ list[k].size > 0
        /\ Low(list[k]) \in Nat /\ High(list[k]) \in Nat
        /\ Low(list[k]) < High(list[k]) /\ Low(list[k]) <= list[k].block
        /\ list[k].block + list[k].size <= High(list[k])
  BY <1>4, SoundFacts
\* A node is either below the new memory or above it.
<1>6. ASSUME NEW k \in 1..Len(list)
      PROVE  High(list[k]) <= p \/ p + s <= Low(list[k])
  <2> DEFINE lo == Low(list[k])
             hi == High(list[k])
  <2>1. lo \in Nat /\ hi \in Nat /\ lo < hi
    BY <1>5
  <2>2. \A y \in lo..hi - 1 : ~(p <= y /\ y < p + s)
    <3>1. Memory(list[k]) = lo..hi - 1
      BY <1>4, MemoryIs
    <3>2. list[k] \in NodesOf(list)
      BY DEF NodesOf
    <3>3. Memory(list[k]) \subseteq MemoryOf(NodesOf(list))
      BY <3>2 DEF MemoryOf
    <3> QED BY <3>1, <3>3
  <2> HIDE DEF lo, hi
  <2>3. CASE lo <= p
    <3>1. ~(p \in lo..hi - 1)
      BY <2>2
    <3> QED BY <2>1, <2>3, <3>1 DEF lo, hi
  <2>4. CASE lo > p
    <3>1. ~(lo < p + s)
      BY <2>1, <2>2, <2>4
    <3> QED BY <2>1, <3>1 DEF lo, hi
  <2> QED BY <2>1, <2>3, <2>4
<1>7. from > 0 => list[from].block <= p
  <2> DEFINE lower == IF SearchLower("alloc", p) # {} THEN SearchLower("alloc", p)
                      ELSE SearchLower("freed", p)
  <2>1. from = IF lower = {} THEN 0 ELSE CHOOSE i \in lower : TRUE
    BY DEF SearchFrom
  <2>2. \A i \in lower : list[i].block <= p
    BY DEF SearchLower
  <2> HIDE DEF lower, from
  <2>3. CASE lower = {}
    BY <2>1, <2>3
  <2>4. CASE lower # {}
    <3>1. from \in lower
      BY <2>1, <2>4
    <3> QED BY <2>2, <3>1
  <2> QED BY <2>3, <2>4
<1> HIDE DEF from
<1>8. ASSUME NEW k \in 1..Len(list), list[k].block <= p
      PROVE  High(list[k]) <= p
  <2> DEFINE lo == Low(list[k])
             hi == High(list[k])
             b == list[k].block
  <2>1. lo \in Nat /\ lo <= b /\ b <= p /\ b \in Nat
    BY <1>5, <1>8
  <2>2. hi <= p \/ p + s <= lo
    BY <1>6
  <2> HIDE DEF lo, hi, b
  <2>3. hi <= p
    BY <2>1, <2>2
  <2> QED BY <2>3 DEF hi
<1>9. ASSUME NEW k \in 1..Len(list), list[k].block >= p
      PROVE  p + s <= Low(list[k])
  <2> DEFINE lo == Low(list[k])
             hi == High(list[k])
             b == list[k].block
             z == list[k].size
  <2>1. lo \in Nat /\ hi \in Nat /\ b + z <= hi /\ b >= p /\ b \in Nat /\ z \in Nat /\ z > 0
    BY <1>5, <1>9
  <2>2. hi <= p \/ p + s <= lo
    BY <1>6
  <2> HIDE DEF lo, hi, b, z
  <2>3. p + s <= lo
    BY <2>1, <2>2
  <2> QED BY <2>3 DEF lo
<1>10. ASSUME NEW k \in 1..Len(list), k <= at PROVE High(list[k]) <= p
  <2>1. CASE k > from
    <3>1. k \in from + 1 .. at
      BY <1>2, <1>3, <1>10, <2>1
    <3>2. list[k].block < p /\ list[k].block \in Nat
      BY <1>1, <1>5, <3>1
    <3>3. list[k].block <= p
      BY <3>2
    <3> QED BY <1>8, <3>3
  <2>2. CASE k = from
    <3>1. list[k].block <= p
      BY <1>7, <2>2
    <3> QED BY <1>8, <3>1
  <2>3. CASE k < from
    <3>1. from \in 1..Len(list) /\ list[from].block <= p
      BY <1>2, <1>7, <2>3
    <3>2. High(list[k]) <= Low(list[from]) /\ Low(list[from]) <= list[from].block
      BY <1>4, <1>5, <2>3, <3>1
    <3>3. /\ High(list[k]) \in Nat /\ Low(list[from]) \in Nat
          /\ list[from].block \in Nat
      BY <1>5, <3>1
    <3> QED BY <3>1, <3>2, <3>3
  <2> QED BY <1>2, <2>1, <2>2, <2>3
<1>11. ASSUME NEW k \in 1..Len(list), k > at PROVE p + s <= Low(list[k])
  <2>1. PICK j \in 1..Len(list) : j = at + 1
    BY <1>3, <1>11
  <2>2. list[j].block >= p
    BY <1>1, <1>3, <2>1
  <2>3. p + s <= Low(list[j])
    BY <1>9, <2>2
  <2>4. CASE k = j
    BY <2>3, <2>4
  <2>5. CASE j < k
    <3>1. High(list[j]) <= Low(list[k]) /\ Low(list[j]) < High(list[j])
      BY <1>4, <1>5, <2>5
    <3>2. /\ High(list[j]) \in Nat /\ Low(list[k]) \in Nat /\ Low(list[j]) \in Nat
      BY <1>5
    <3> QED BY <2>3, <3>1, <3>2
  <2> QED BY <1>3, <1>11, <2>1, <2>4, <2>5
<1> QED BY <1>3, <1>10, <1>11

\* New memory from p to p + s becomes part of the free node q.
Grown(h, q, p, s) ==
    /\ InOrder(h.list, asize, h.gsize, h.fsize, HeapBytes(heap \cup PagesOf(p, s)))
    /\ Blocks(NodesOf(h.list)) = Blocks(NodesOf(list))
    /\ q \in 1..Len(h.list) /\ Free(h.list[q])
    /\ Low(h.list[q]) <= p /\ p + s <= High(h.list[q])

LEMMA ExtendedOrder ==
  ASSUME InOrder(list, asize, gsize, fsize, HeapBytes(heap)),
         heap \subseteq HEAPPAGES, NEW s, Whole(s), NEW p \in HeapAlloc(s),
         NEW at \in InsertAfter(p), NEW t
  PROVE  Grown(ExtendedState(t, at, p, s), Extended(at, p, s).node, p, s)
<1> DEFINE e == Node("free", p, s)
           i == at + 1
           P == Splice(list, i, at, <<e>>)
           N == MergeNode(P, i).list
           q == MergeNode(P, i).node
           h == ExtendedState(t, at, p, s)
           R == Outside(list, i, at)
           M == HeapBytes(heap)
<1>1. /\ h.list = N /\ h.gsize = gsize /\ h.fsize = Wrap(fsize + s)
      /\ Extended(at, p, s).node = q
  BY DEF ExtendedState, Extended
<1>2. /\ list \in Seq(NodeType) /\ Tiled(list) /\ NoTouch(NodesOf(list))
      /\ MemoryOf(NodesOf(list)) = M
      /\ asize = Held(NodesOf(list), "alloc") /\ gsize = Held(NodesOf(list), "freed")
      /\ fsize = Held(NodesOf(list), "free")
  BY DEF InOrder
<1>3. /\ p \in Nat /\ p % PAGE = 0 /\ p + s <= WORD - 1
      /\ HeapBytes(PagesOf(p, s)) = p .. p + s - 1
      /\ \A y \in M : ~(p <= y /\ y < p + s)
  BY NewMemory
<1>4. s \in Nat /\ s > 0 /\ s % PAGE = 0 /\ PAGE \in Nat /\ PAGE > 0
  BY WordFacts DEF Whole
<1> HIDE DEF h, N, q, M
<1>5. /\ at \in 0..Len(list)
      /\ \A k \in 1..Len(list) : k <= at => High(list[k]) <= p
      /\ \A k \in 1..Len(list) : k > at => p + s <= Low(list[k])
  BY <1>2, <1>3, <1>4, Placed
<1>6. /\ Sound(e) /\ Low(e) = p /\ High(e) = p + s /\ Free(e) /\ e.size = s
  <2> DEFINE hi == p + s
  <2>1. hi \in Nat /\ p < hi /\ hi <= WORD - 1 /\ hi - p = s
    BY <1>3, <1>4
  <2>2. hi % PAGE = 0
    BY <1>3, <1>4, Multiples
  <2> HIDE DEF hi
  <2>3. /\ Sound(Node("free", p, hi - p)) /\ Low(Node("free", p, hi - p)) = p
        /\ High(Node("free", p, hi - p)) = hi /\ Free(Node("free", p, hi - p))
        /\ Node("free", p, hi - p).size = hi - p
    BY <1>3, <2>1, <2>2, FreeIsSound
  <2> QED BY <2>1, <2>3 DEF hi
<1> HIDE DEF e
<1>7. PICK one \in Seq(NodeType) : one = <<e>> /\ Len(one) = 1 /\ one[1] = e
  <2>1. <<e>> \in Seq(NodeType) /\ Len(<<e>>) = 1 /\ <<e>>[1] = e
    BY <1>6 DEF Sound
  <2> QED BY <2>1, Zenon
<1>8. Strip(one, p, p + s) /\ NodesOf(one) = {e}
  <2>1. Strip(one, Low(e), High(e)) /\ NodesOf(one) = {e}
    BY <1>6, <1>7, StripOne
  <2> QED BY <1>6, <2>1
<1>9. /\ i \in Nat /\ at \in Nat /\ 1 <= i /\ i <= at + 1 /\ at <= Len(list)
      /\ p \in Int /\ p + s \in Int /\ p <= p + s /\ Len(list) \in Nat
  BY <1>2, <1>3, <1>4, <1>5
<1>10. /\ \A k \in 1..Len(list) : k < i => High(list[k]) <= p
       /\ \A k \in 1..Len(list) : k > at => p + s <= Low(list[k])
  BY <1>5, <1>9
<1>11. P = Splice(list, i, at, one)
  BY <1>7
<1> HIDE DEF P, i, R
<1>12. Swapped(list, P, R, Inside(list, i, at), NodesOf(one), p, p + s)
  <2>1. Swapped(list, Splice(list, i, at, one), R, Inside(list, i, at),
                NodesOf(one), p, p + s)
    BY <1>2, <1>8, <1>9, <1>10, Swap, Zenon DEF R
  <2> QED BY <1>11, <2>1
<1>13. Inside(list, i, at) = {}
  <2>1. i..at = {}
    BY <1>9 DEF i
  <2> QED BY <2>1 DEF Inside
<1>14. /\ P \in Seq(NodeType) /\ Tiled(P)
       /\ NodesOf(P) = NodesOf(list) \cup {e} /\ IsFiniteSet(NodesOf(list))
       /\ \A r \in NodesOf(list) : Sound(r) /\ (High(r) <= p \/ p + s <= Low(r))
  BY <1>8, <1>12, <1>13 DEF Swapped
<1>15. i \in 1..Len(P) /\ P[i] = e
  <2>1. Replaced(Splice(list, i, at, one), list, i, at, one)
    <3>1. i \in Nat /\ at \in Nat /\ 1 <= i /\ i <= at + 1 /\ at <= Len(list)
      BY <1>9
    <3> QED BY <1>2, <3>1, SpliceAt, Zenon
  <2>2. Replaced(P, list, i, at, one)
    BY <1>11, <2>1
  <2>3. /\ Len(P) = Len(list) - (at - i + 1) + Len(one)
        /\ \A k \in 1..Len(list) - (at - i + 1) + Len(one) :
            P[k] = IF k < i THEN list[k]
                   ELSE IF k < i + Len(one) THEN one[k - (i - 1)]
                   ELSE list[k - (i - 1 + Len(one)) + at]
    BY <2>2 DEF Replaced
  <2>4. /\ i \in 1..Len(list) - (at - i + 1) + Len(one) /\ ~(i < i)
        /\ i < i + Len(one) /\ i - (i - 1) = 1
    BY <1>7, <1>9 DEF i
  <2> QED BY <1>7, <2>3, <2>4
<1>16. TouchOnly(NodesOf(P), P[i])
  <2> SUFFICES ASSUME NEW x \in NodesOf(P), NEW y \in NodesOf(P),
                      Free(x), Free(y), High(x) = Low(y), x # e, y # e
               PROVE  FALSE
    BY <1>15 DEF TouchOnly
  <2>1. x \in NodesOf(list) /\ y \in NodesOf(list)
    BY <1>14
  <2> QED BY <1>2, <2>1 DEF NoTouch
<1>17. Merged(P, i, N, q)
  <2>1. Free(P[i])
    BY <1>6, <1>15
  <2> QED BY <1>14, <1>15, <1>16, <2>1, MergeKeeps DEF N, q
<1>18. /\ N \in Seq(NodeType) /\ Tiled(N) /\ NoTouch(NodesOf(N))
       /\ MemoryOf(NodesOf(N)) = MemoryOf(NodesOf(P))
       /\ \A k \in Kinds : Held(NodesOf(N), k) = Held(NodesOf(P), k)
       /\ Blocks(NodesOf(N)) = Blocks(NodesOf(P))
       /\ q \in 1..Len(N) /\ Free(N[q]) /\ Low(N[q]) <= p /\ p + s <= High(N[q])
  BY <1>6, <1>15, <1>17 DEF Merged
<1>19. Blocks(NodesOf(N)) = Blocks(NodesOf(list))
  BY <1>6, <1>14, <1>18 DEF Blocks
<1>20. MemoryOf(NodesOf(N)) = HeapBytes(heap \cup PagesOf(p, s))
  <2>1. MemoryOf(NodesOf(P)) = M \cup MemoryOf({e})
    BY <1>2, <1>14, MemoryOfUnion, Zenon
  <2>2. MemoryOf({e}) = p .. p + s - 1
    <3>1. MemoryOf(NodesOf(one)) = p .. (p + s) - 1
      BY <1>8 DEF Strip
    <3>2. NodesOf(one) = {e}
      BY <1>8
    <3>3. (p + s) - 1 = p + s - 1
      BY <1>3, <1>4
    <3> QED BY <3>1, <3>2, <3>3, Zenon
  <2>3. HeapBytes(heap \cup PagesOf(p, s)) = M \cup HeapBytes(PagesOf(p, s))
    BY DEF HeapBytes, M
  <2> QED BY <1>3, <1>18, <2>1, <2>2, <2>3
<1>21. NodesOf(list) \in SUBSET NodeType /\ e \notin NodesOf(list)
  <2>1. ASSUME NEW r \in NodesOf(list) PROVE r # e
    <3>1. Sound(r) /\ (High(r) <= p \/ p + s <= Low(r))
      BY <1>14
    <3>2. Low(r) \in Nat /\ High(r) \in Nat /\ Low(r) < High(r)
      BY <3>1, SoundFacts
    <3>3. ~(Low(r) = p /\ High(r) = p + s)
      BY <1>3, <1>4, <3>1, <3>2
    <3> QED BY <1>6, <3>3
  <2> QED BY <1>14, <2>1 DEF Sound
<1>22. ASSUME NEW k \in Kinds
       PROVE  Held(NodesOf(N), k) = Held(NodesOf(list), k) + FreePart(k, s)
  <2>1. Held(NodesOf(list) \cup {e}, k)
            = Held(NodesOf(list), k) + FreePart(k, High(e) - Low(e))
    BY <1>6, <1>14, <1>21, HeldFree
  <2>2. High(e) - Low(e) = s
    BY <1>3, <1>4, <1>6
  <2> QED BY <1>14, <1>18, <2>1, <2>2
<1>23. /\ "alloc" \in Kinds /\ "freed" \in Kinds /\ "free" \in Kinds
       /\ FreePart("alloc", s) = 0 /\ FreePart("freed", s) = 0
       /\ FreePart("free", s) = s
  BY DEF Kinds, FreePart
<1>24. asize \in Nat /\ gsize \in Nat
  BY <1>2, TotalFits
<1>25. Held(NodesOf(N), "alloc") = asize /\ Held(NodesOf(N), "freed") = gsize
  BY <1>2, <1>22, <1>23, <1>24
<1>26. Held(NodesOf(N), "free") = fsize + s
  BY <1>2, <1>22, <1>23
<1>27. Wrap(fsize + s) = fsize + s
  BY <1>18, <1>26, TotalFits
<1>28. InOrder(h.list, asize, h.gsize, h.fsize, HeapBytes(heap \cup PagesOf(p, s)))
  BY <1>1, <1>18, <1>20, <1>25, <1>26, <1>27 DEF InOrder
<1> QED BY <1>1, <1>18, <1>19, <1>28 DEF Grown, h

\* The free node with the new memory has room for the request, wherever in it
\* the alignment puts the block.
LEMMA FreshFits ==
  ASSUME RequestsFit, NEW l \in Asked, NEW al \in ALIGNS, NEW s,
         s = HeapSize(RoundUp(l + 2 * Oflow, PAGE)), NEW p \in HEAPPAGES,
         NEW n, Sound(n), Free(n), Low(n) <= p, p + s <= High(n)
  PROVE  Fits(n, l, Alignment(al))
<1> DEFINE O == Oflow
           B == n.block
           z == n.size
           a == Alignment(al)
           u == (-(B + O)) % a
           v == (-(p + O)) % a
<1>1. /\ B \in Nat /\ z \in Nat /\ Low(n) = B /\ High(n) = B + z
  BY SoundFacts, FreeBounds DEF Free
<1>2. /\ l \in Nat /\ O \in Nat /\ a \in Nat /\ a > 0 /\ p \in Nat /\ s \in Nat
      /\ l + 2 * O <= s
  BY AskedFacts, FreshSize, WordFacts, HeapAssumption DEF Whole
<1>3. CASE PAGEALLOC
  <2>1. l + 2 * O + 0 <= z
    <3> HIDE DEF B, O, z
    <3> QED BY <1>1, <1>2
  <2> QED BY <1>3, <2>1 DEF Fits
<1>4. CASE ~PAGEALLOC
  <2>1. l + 2 * O + v <= s
    BY <1>4 DEF RequestsFit
  <2> DEFINE x == B + O
             y == p + O
  <2>2. /\ u = (-x) % a /\ v = (-y) % a /\ x \in Int /\ y \in Int /\ x <= y
        /\ x = B + O /\ y = p + O
    <3> HIDE DEF B, O, a
    <3> QED BY <1>1, <1>2
  <2> HIDE DEF x, y, a, B, O, u, v
  <2>3. x + ((-x) % a) <= y + ((-y) % a) /\ ((-x) % a) \in 0..a - 1
        /\ ((-y) % a) \in 0..a - 1
    BY <1>2, <2>2, UpMonotone, UpFacts
  <2>4. x + u <= y + v /\ u \in Int /\ v \in Int
    BY <2>2, <2>3
  <2>5. l + 2 * O + u <= z
    BY <1>1, <1>2, <2>1, <2>2, <2>4
  <2>6. l + 2 * O + u = l + 2 * Oflow + (IF PAGEALLOC THEN 0
                                         ELSE (-(n.block + Oflow)) % a)
    <3>1. u = IF PAGEALLOC THEN 0 ELSE (-(n.block + Oflow)) % a
      BY <1>4 DEF u, B, O
    <3> QED BY <3>1, Zenon DEF O
  <2>7. l + 2 * Oflow + (IF PAGEALLOC THEN 0 ELSE (-(n.block + Oflow)) % a)
            <= n.size
    BY <2>5, <2>6, Zenon DEF z
  <2> QED BY <2>7, Zenon DEF Fits, a
<1> QED BY <1>3, <1>4

LEMMA GetallocFreshOrder ==
  ASSUME RequestsFit, HeapInv, NEW asked \in SIZES, NEW al \in ALIGNS,
         GetallocFresh(asked, al)
  PROVE  /\ HeapOrder'
         /\ Gained(Blocks(NodesOf(list)), Blocks(NodesOf(list')),
                   AtLeastOne(asked), Alignment(al))
<1> DEFINE l == AtLeastOne(asked)
           a == Alignment(al)
           s == HeapSize(RoundUp(l + 2 * Oflow, PAGE))
<1>1. /\ trim = NoTrim /\ flist' = flist /\ fmax' = fmax /\ trim' = trim
  BY DEF GetallocFresh
<1>2. PICK t \in GetNode(table), p \in HeapAlloc(s) :
        \E at \in InsertAfter(p) :
          /\ heap' = heap \cup PagesOf(p, s)
          /\ \/ SplitNode(ExtendedState(t, at, p, s), Extended(at, p, s).node,
                          l, a, asked)
             \/ SplitFails(ExtendedState(t, at, p, s))
  BY DEF GetallocFresh
<1>3. PICK at \in InsertAfter(p) :
        /\ heap' = heap \cup PagesOf(p, s)
        /\ \/ SplitNode(ExtendedState(t, at, p, s), Extended(at, p, s).node,
                        l, a, asked)
           \/ SplitFails(ExtendedState(t, at, p, s))
  BY <1>2
<1>4. /\ InOrder(list, asize, gsize, fsize, HeapBytes(heap))
      /\ Queued(flist, Blocks(NodesOf(list))) /\ Len(flist) <= fmax
      /\ heap \subseteq HEAPPAGES
  BY <1>1 DEF HeapInv, HeapOrder, IInv, Others
<1>5. l \in Asked /\ a \in 1..PAGE
  BY WordFacts DEF Asked
<1>6. p \in HEAPPAGES
  BY DEF HeapAlloc
<1> HIDE DEF l
<1>7. Whole(s)
  BY <1>5, FreshSize
<1>8. s = HeapSize(RoundUp(l + 2 * Oflow, PAGE))
  OBVIOUS
<1> DEFINE h == ExtendedState(t, at, p, s)
           q == Extended(at, p, s).node
           M == HeapBytes(heap \cup PagesOf(p, s))
<1> HIDE DEF s
<1>9. Grown(h, q, p, s)
  BY <1>4, <1>7, ExtendedOrder
<1>10. SplitNode(h, q, l, a, asked) \/ SplitFails(h)
  BY <1>3
<1> HIDE DEF h, q
<1>11. /\ InOrder(h.list, asize, h.gsize, h.fsize, M)
       /\ Blocks(NodesOf(h.list)) = Blocks(NodesOf(list))
       /\ q \in 1..Len(h.list) /\ Free(h.list[q])
       /\ Low(h.list[q]) <= p /\ p + s <= High(h.list[q])
  BY <1>9 DEF Grown
<1>12. Queued(flist, Blocks(NodesOf(h.list)))
  BY <1>4, <1>11
<1>13. Fits(h.list[q], l, a)
  <2>1. Sound(h.list[q])
    BY <1>11, TiledFacts DEF InOrder
  <2> QED BY <1>5, <1>6, <1>8, <1>11, <2>1, FreshFits
<1> HIDE DEF M, a
<1>14. /\ InOrder(list', asize', gsize', fsize', M)
       /\ Queued(flist, Blocks(NodesOf(list')))
       /\ Gained(Blocks(NodesOf(h.list)), Blocks(NodesOf(list')), l, a)
  BY <1>5, <1>10, <1>11, <1>12, <1>13, SplitOrder, Zenon
<1>15. InOrder(list, asize, gsize, fsize, HeapBytes(heap))'
  BY <1>3, <1>14 DEF M
<1>16. Gained(Blocks(NodesOf(list)), Blocks(NodesOf(list')), l, a)
  BY <1>11, <1>14
<1>17. HeapOrder'
  BY <1>1, <1>4, <1>14, <1>15 DEF HeapOrder
<1> QED BY <1>16, <1>17 DEF l, a

LEMMA SameOrder ==
  ASSUME HeapOrder,
         UNCHANGED <<list, asize, gsize, fsize, heap, flist>>,
         trim' = NoTrim => Len(flist) <= fmax'
  PROVE  HeapOrder'
  BY DEF HeapOrder

LEMMA GetallocRefusedOrder ==
  ASSUME HeapInv, NEW asked, NEW al, GetallocRefused(asked, al)
  PROVE  HeapOrder'
<1>1. /\ UNCHANGED <<list, asize, gsize, fsize, heap, flist>>
      /\ trim = NoTrim /\ fmax' = fmax
  BY DEF GetallocRefused
<1>2. HeapOrder
  BY DEF HeapInv
<1>3. trim' = NoTrim => Len(flist) <= fmax'
  BY <1>1, <1>2 DEF HeapOrder
<1> QED BY <1>1, <1>2, <1>3, SameOrder

LEMMA OptNofreeOrder ==
  ASSUME HeapInv, NEW v \in LIMITS, OptNofree(v)
  PROVE  HeapOrder'
<1>1. UNCHANGED <<list, asize, gsize, fsize, heap, flist>> /\ trim' = v
  BY DEF OptNofree
<1>2. v # NoTrim
  BY BoundsAssumption DEF NoTrim
<1>3. HeapOrder
  BY DEF HeapInv
<1> QED BY <1>1, <1>2, <1>3, SameOrder

LEMMA OptNofreeDoneOrder ==
  ASSUME HeapInv, OptNofreeDone
  PROVE  HeapOrder'
<1>1. /\ UNCHANGED <<list, asize, gsize, fsize, heap, flist>>
      /\ Len(flist) <= trim /\ fmax' = trim
  BY DEF OptNofreeDone
<1>2. HeapOrder
  BY DEF HeapInv
<1> QED BY <1>1, <1>2, SameOrder

-----------------------------------------------------------------------------
(***************************************************************************)
(* Resizing a block                                                        *)
(***************************************************************************)
\* The memory between the overflow buffers of a block of l bytes that starts
\* where its pages do.
Room(l) == IF PAGEALLOC THEN RoundUp(l, PAGE) ELSE l

LEMMA RoomFacts ==
  ASSUME RequestsFit, NEW l \in Asked
  PROVE  /\ Room(l) \in Nat /\ l <= Room(l) /\ Room(l) <= WORD - 1
         /\ Room(l) < l + PAGE /\ (PAGEALLOC => Room(l) % PAGE = 0)
<1>1. /\ l \in Nat /\ Oflow \in Nat /\ l + 2 * Oflow + PAGE <= WORD
      /\ PAGE \in Nat /\ PAGE > 0 /\ WORD \in Nat
  BY AskedFacts, WordFacts
<1>2. l + PAGE <= WORD
  BY <1>1
<1>3. CASE PAGEALLOC
  <2>1. RoundUp(l, PAGE) \in l .. l + PAGE - 1 /\ RoundUp(l, PAGE) % PAGE = 0
    BY <1>1, <1>2, RoundUpFacts
  <2> DEFINE r == RoundUp(l, PAGE)
  <2>2. r \in l .. l + PAGE - 1 /\ r % PAGE = 0 /\ Room(l) = r
    BY <1>3, <2>1 DEF Room
  <2> HIDE DEF r
  <2> QED BY <1>1, <1>2, <2>2
<1>4. CASE ~PAGEALLOC
  <2>1. Room(l) = l
    BY <1>4 DEF Room
  <2> QED BY <1>1, <1>2, <1>4, <2>1
<1> QED BY <1>3, <1>4

\* More bytes need no less room.
LEMMA RoomMonotone ==
  ASSUME RequestsFit, NEW l \in Asked, NEW m \in Asked, l <= m
  PROVE  Room(l) <= Room(m)
<1>1. /\ l \in Nat /\ m \in Nat /\ Oflow \in Nat
      /\ l + 2 * Oflow + PAGE <= WORD /\ m + 2 * Oflow + PAGE <= WORD
      /\ PAGE \in Nat /\ PAGE > 0 /\ WORD \in Nat
  BY AskedFacts, WordFacts
<1>2. l + PAGE <= WORD /\ m + PAGE <= WORD
  BY <1>1
<1>3. CASE PAGEALLOC
  <2>1. RoundUp(l, PAGE) = l + ((-l) % PAGE) /\ RoundUp(m, PAGE) = m + ((-m) % PAGE)
    BY <1>1, <1>2, RoundUpFacts
  <2>2. l + ((-l) % PAGE) <= m + ((-m) % PAGE)
    BY <1>1, UpMonotone
  <2> QED BY <1>3, <2>1, <2>2 DEF Room
<1>4. CASE ~PAGEALLOC
  BY <1>4 DEF Room
<1> QED BY <1>3, <1>4

\* The memory of a block that starts where its pages do.
LEMMA PlainBlock ==
  ASSUME RequestsFit, NEW n, ~Free(n), n.block \in Nat, n.size \in Asked,
         PAGEALLOC => n.block % PAGE = 0
  PROVE  /\ Base(n) = n.block /\ Span(n) = Room(n.size)
         /\ Low(n) = n.block - Oflow /\ High(n) = n.block + Room(n.size) + Oflow
<1>1. Base(n) = n.block /\ Span(n) = Room(n.size)
  <2>1. CASE PAGEALLOC
    <3> DEFINE b == n.block
               l == n.size
               s == Room(l)
    <3>1. /\ b \in Nat /\ b % PAGE = 0 /\ l \in Nat /\ s \in Nat /\ l <= s
          /\ s <= WORD - 1 /\ s < l + PAGE /\ s % PAGE = 0
          /\ PAGE \in Nat /\ PAGE > 0 /\ WORD \in Nat
      BY <2>1, RoomFacts, AskedFacts, WordFacts
    <3>2. n.block = b /\ n.size = l
      OBVIOUS
    <3> HIDE DEF b, l, s
    <3>3. /\ 0 \in 0..PAGE - 1 /\ n.block = b + 0 /\ s \in 0..WORD - 1
          /\ l + 0 <= s /\ s < l + 0 + PAGE
      BY <3>1, <3>2
    <3>4. Base(n) = b /\ Span(n) = s
      BY <2>1, <3>1, <3>2, <3>3, BlockOnPages
    <3> QED BY <3>4 DEF b, l, s
  <2>2. CASE ~PAGEALLOC
    BY <2>2, BlockWithoutPages DEF Room
  <2> QED BY <2>1, <2>2
<1>2. Low(n) = Base(n) - Oflow /\ High(n) = Base(n) + Span(n) + Oflow
  BY BlockBounds
<1> QED BY <1>1, <1>2

\* A block that keeps its pages keeps its room.
LEMMA SameRoom ==
  ASSUME RequestsFit, NEW l \in Asked, NEW m \in Asked, PAGEALLOC,
         l <= Room(m), l > Room(m) - PAGE
  PROVE  Room(l) = Room(m)
<1> DEFINE s == Room(m)
<1>1. /\ s \in Nat /\ s % PAGE = 0 /\ s <= WORD - 1 /\ l \in Nat
      /\ PAGE \in Nat /\ PAGE > 0 /\ WORD \in Nat /\ l <= s /\ l > s - PAGE
  BY RoomFacts, AskedFacts, WordFacts
<1> HIDE DEF s
<1>2. s \in 0..WORD - 1 /\ s < l + PAGE /\ l \in Int
  BY <1>1
<1>3. RoundUp(l, PAGE) = s
  BY <1>1, <1>2, RoundUpIs
<1> QED BY <1>3 DEF Room, s

\* The block of node i of a list L becomes e, and takes up room or leaves room
\* at the free node behind it, if that is last, or leaves room to a new one.
Recut(L, i, last, e) ==
    /\ i \in 1..Len(L) /\ last \in 1..Len(L) /\ L[i].kind = "alloc"
    /\ \/ last = i
       \/ last = i + 1 /\ Free(L[last]) /\ High(L[i]) = Low(L[last])
    /\ Sound(e) /\ e.kind = "alloc" /\ Low(e) = Low(L[i])
    /\ High(e) <= High(L[last])
    /\ last = i /\ High(e) < High(L[i])
            => \A r \in NodesOf(L) : Free(r) => Low(r) # High(L[i])

RecutNodes(L, last, e) ==
    <<e>> \o PieceList(High(e), High(L[last]) - High(e))

\* Block n is from lo to top, with room from there to hi.
Bounds(n, lo, top, hi) ==
    /\ lo \in Nat /\ top \in Nat /\ hi \in Nat
    /\ lo < top /\ top <= hi /\ hi <= WORD - 1
    /\ PAGEALLOC => top % PAGE = 0 /\ hi % PAGE = 0
    /\ Sound(n) /\ n \in NodeType /\ ~Free(n) /\ n.kind = "alloc"
    /\ Low(n) = lo /\ High(n) = top

LEMMA RecutBounds ==
  ASSUME NEW L \in Seq(NodeType), Tiled(L), NEW i, NEW last, NEW e,
         Recut(L, i, last, e)
  PROVE  /\ Bounds(L[i], Low(L[i]), High(L[i]), High(L[last]))
         /\ Bounds(e, Low(L[i]), High(e), High(L[last]))
<1>1. /\ i \in 1..Len(L) /\ last \in 1..Len(L) /\ L[i].kind = "alloc"
      /\ last = i \/ (last = i + 1 /\ High(L[i]) = Low(L[last]))
      /\ Sound(e) /\ e.kind = "alloc" /\ Low(e) = Low(L[i])
      /\ High(e) <= High(L[last])
  BY DEF Recut
<1>2. Sound(L[i]) /\ Sound(L[last])
  BY <1>1, TiledFacts
<1> DEFINE n == L[i]
           f == L[last]
<1>3. Sound(n) /\ Sound(f) /\ n.kind = "alloc" /\ Low(e) = Low(n)
      /\ High(e) <= High(f) /\ (f = n \/ High(n) = Low(f))
  BY <1>1, <1>2
<1> HIDE DEF n, f
<1>4. /\ Low(n) \in Nat /\ High(n) \in Nat /\ Low(n) < High(n)
      /\ Low(f) \in Nat /\ High(f) \in Nat /\ Low(f) < High(f)
      /\ High(f) <= WORD - 1 /\ High(e) \in Nat /\ Low(e) < High(e)
      /\ n \in NodeType /\ e \in NodeType
  BY <1>1, <1>3, SoundFacts
<1>5. PAGEALLOC => /\ High(e) % PAGE = 0 /\ High(f) % PAGE = 0
                   /\ High(n) % PAGE = 0
  BY <1>1, <1>3 DEF Sound
<1>6. ~Free(n) /\ ~Free(e)
  BY <1>1, <1>3 DEF Free
<1>7. High(n) <= High(f)
  BY <1>3, <1>4
<1>8. /\ Bounds(n, Low(n), High(n), High(f))
      /\ Bounds(e, Low(n), High(e), High(f))
  BY <1>1, <1>3, <1>4, <1>5, <1>6, <1>7 DEF Bounds
<1> QED BY <1>8 DEF n, f

LEMMA RecutStrip ==
  ASSUME NEW e, NEW lo, NEW mid, NEW hi, Bounds(e, lo, mid, hi)
  PROVE  /\ Strip(<<e>> \o PieceList(mid, hi - mid), lo, hi)
         /\ NodesOf(<<e>> \o PieceList(mid, hi - mid)) = {e} \cup FreeNodes(mid, hi)
<1>1. /\ lo \in Nat /\ mid \in Nat /\ hi \in Nat /\ lo < mid /\ mid <= hi
      /\ hi <= WORD - 1 /\ (PAGEALLOC => mid % PAGE = 0 /\ hi % PAGE = 0)
      /\ Sound(e) /\ e \in NodeType /\ Low(e) = lo /\ High(e) = mid
  BY DEF Bounds
<1>2. PICK one \in Seq(NodeType) : one = <<e>> /\ Len(one) = 1 /\ one[1] = e
  <2>1. <<e>> \in Seq(NodeType) /\ Len(<<e>>) = 1 /\ <<e>>[1] = e
    BY <1>1
  <2> QED BY <2>1, Zenon
<1>3. Strip(one, lo, mid) /\ NodesOf(one) = {e}
  <2>1. Strip(one, Low(e), High(e)) /\ NodesOf(one) = {e}
    BY <1>1, <1>2, StripOne
  <2> QED BY <1>1, <2>1
<1> DEFINE x == PieceList(mid, hi - mid)
<1>4. Piece(x, mid, hi)
  BY <1>1, PieceMade
<1> HIDE DEF x
<1>5. Strip(x, mid, hi) /\ NodesOf(x) = FreeNodes(mid, hi)
  BY <1>4 DEF Piece
<1>6. lo \in Int /\ mid \in Int /\ hi \in Int /\ lo <= mid /\ mid <= hi
  BY <1>1
<1>7. Strip(one \o x, lo, hi) /\ NodesOf(one \o x) = NodesOf(one) \cup NodesOf(x)
  BY <1>3, <1>5, <1>6, StripConcat
<1> QED BY <1>2, <1>3, <1>5, <1>7 DEF x

LEMMA RecutSwapped ==
  ASSUME NEW L \in Seq(NodeType), Tiled(L), NEW i, NEW last, NEW e,
         Recut(L, i, last, e)
  PROVE  Swapped(L, Splice(L, i, last, RecutNodes(L, last, e)),
                 Outside(L, i, last), Inside(L, i, last),
                 {e} \cup FreeNodes(High(e), High(L[last])),
                 Low(L[i]), High(L[last]))
<1> DEFINE lo == Low(L[i])
           top == High(L[i])
           mid == High(e)
           hi == High(L[last])
           new == RecutNodes(L, last, e)
<1>1. Bounds(L[i], lo, top, hi) /\ Bounds(e, lo, mid, hi)
  BY RecutBounds
<1>2. /\ i \in 1..Len(L) /\ last \in 1..Len(L) /\ (last = i \/ last = i + 1)
  BY DEF Recut
<1>3. /\ \A k \in 1..Len(L) : k < i => High(L[k]) <= lo
      /\ \A k \in 1..Len(L) : k > last => hi <= Low(L[k])
  BY <1>2, TiledFacts
<1>4. new = <<e>> \o PieceList(mid, hi - mid)
  BY DEF RecutNodes
<1> HIDE DEF lo, top, mid, hi, new
<1>5. Strip(new, lo, hi) /\ NodesOf(new) = {e} \cup FreeNodes(mid, hi)
  <2>1. /\ Strip(<<e>> \o PieceList(mid, hi - mid), lo, hi)
        /\ NodesOf(<<e>> \o PieceList(mid, hi - mid)) = {e} \cup FreeNodes(mid, hi)
    BY <1>1, RecutStrip
  <2> QED BY <1>4, <2>1, Zenon
<1>6. /\ i \in Nat /\ last \in Nat /\ 1 <= i /\ i <= last + 1 /\ last <= Len(L)
  BY <1>2
<1>7. lo \in Int /\ hi \in Int /\ lo <= hi
  BY <1>1 DEF Bounds
<1>8. Swapped(L, Splice(L, i, last, new), Outside(L, i, last), Inside(L, i, last),
              NodesOf(new), lo, hi)
  BY <1>3, <1>5, <1>6, <1>7, Swap, Zenon
<1> QED BY <1>5, <1>8, Zenon DEF lo, mid, hi, new

\* The old nodes are the block and the free node, if that is last.
LEMMA RecutOld ==
  ASSUME NEW L \in Seq(NodeType), Tiled(L), NEW i, NEW last, NEW e,
         Recut(L, i, last, e)
  PROVE  Inside(L, i, last) = {L[i]} \cup FreeNodes(High(L[i]), High(L[last]))
<1>1. /\ i \in 1..Len(L) /\ last \in 1..Len(L)
      /\ last = i \/ (last = i + 1 /\ Free(L[last]) /\ High(L[i]) = Low(L[last]))
  BY DEF Recut
<1>2. i..last = {i, last}
  BY <1>1
<1>3. Inside(L, i, last) = {L[i]} \cup {L[last]}
  BY <1>2 DEF Inside
<1>4. CASE last = i
  <2>1. FreeNodes(High(L[i]), High(L[last])) = {}
    BY <1>4 DEF FreeNodes
  <2> QED BY <1>3, <1>4, <2>1
<1>5. CASE last = i + 1
  <2> DEFINE f == L[last]
             top == High(L[i])
             hi == High(L[last])
  <2>1. Sound(f) /\ Free(f) /\ top = Low(f) /\ hi = High(f)
    BY <1>1, <1>5, TiledFacts
  <2> HIDE DEF f, top, hi
  <2>2. /\ f.block = top /\ hi = top + f.size /\ f.kind = "free" /\ f \in NodeType
        /\ top \in Nat /\ f.size \in Nat /\ f.size > 0
    BY <2>1, FreeBounds, SoundFacts DEF Free
  <2>3. hi - top = f.size /\ top # hi
    BY <2>2
  <2>4. f = Node("free", top, hi - top)
    <3>1. f = [block |-> f.block, size |-> f.size, kind |-> f.kind]
      BY <2>2 DEF NodeType
    <3> QED BY <2>2, <2>3, <3>1 DEF Node
  <2>5. FreeNodes(top, hi) = {f}
    BY <2>3, <2>4 DEF FreeNodes
  <2> QED BY <1>3, <2>5 DEF f, top, hi
<1> QED BY <1>1, <1>4, <1>5

LEMMA RecutClosed ==
  ASSUME NEW L \in Seq(NodeType), Tiled(L), NEW i, NEW last, NEW e,
         Recut(L, i, last, e), NoTouch(NodesOf(L))
  PROVE  Closed(Outside(L, i, last), {e} \cup FreeNodes(High(e), High(L[last])),
                Low(L[i]), High(L[last]))
<1> DEFINE lo == Low(L[i])
           mid == High(e)
           hi == High(L[last])
           R == Outside(L, i, last)
           new == {e} \cup FreeNodes(mid, hi)
<1>1. Bounds(e, lo, mid, hi)
  BY RecutBounds
<1>2. /\ i \in 1..Len(L) /\ last \in 1..Len(L)
      /\ last = i \/ (last = i + 1 /\ Free(L[last]))
      /\ last = i /\ mid < High(L[i])
            => \A r \in NodesOf(L) : Free(r) => Low(r) # High(L[i])
  BY DEF Recut
<1>3. \A r \in R : r \in NodesOf(L)
  BY <1>2 DEF Outside, NodesOf
<1>4. L[last] \in NodesOf(L)
  BY <1>2 DEF NodesOf
\* Behind the new free node there is no other.
<1>5. ASSUME mid < hi, NEW r \in R, Free(r) PROVE Low(r) # hi
  <2>1. CASE last = i
    BY <1>2, <1>3, <1>5, <2>1
  <2>2. CASE last # i
    BY <1>2, <1>3, <1>4, <1>5, <2>2 DEF NoTouch
  <2> QED BY <2>1, <2>2
<1> HIDE DEF lo, mid, hi, R
<1>6. /\ lo \in Nat /\ mid \in Nat /\ hi \in Nat /\ lo < mid /\ mid <= hi
      /\ hi <= WORD - 1 /\ (PAGEALLOC => mid % PAGE = 0 /\ hi % PAGE = 0)
      /\ Sound(e) /\ Low(e) = lo /\ High(e) = mid /\ ~Free(e)
  BY <1>1 DEF Bounds
<1>7. \A m \in FreeNodes(mid, hi) :
        mid < hi /\ Sound(m) /\ Free(m) /\ Low(m) = mid /\ High(m) = hi
  BY <1>6, FreeNodesAre
<1>8. NoTouch(new)
  BY <1>6, <1>7 DEF NoTouch
<1>9. ASSUME NEW n \in new
      PROVE  /\ Sound(n) /\ lo <= Low(n) /\ High(n) <= hi
             /\ Free(n) => \A r \in R : Free(r) =>
                    /\ ~(Low(n) = lo /\ High(r) = lo)
                    /\ ~(High(n) = hi /\ Low(r) = hi)
  <2>1. CASE n = e
    BY <1>6, <2>1
  <2>2. CASE n \in FreeNodes(mid, hi)
    <3>1. mid < hi /\ Sound(n) /\ Low(n) = mid /\ High(n) = hi
      BY <1>7, <2>2
    <3> QED BY <1>5, <1>6, <3>1
  <2> QED BY <2>1, <2>2
<1> HIDE DEF new
<1>10. Closed(R, new, lo, hi)
  BY <1>8, <1>9 DEF Closed
<1> QED BY <1>10 DEF R, new, lo, mid, hi

\* What a block and the free memory behind it hold.
Holds(R, S, n, top, hi) ==
    \A k : /\ Held(R, k) \in Nat
           /\ Held(R \cup S, k) = Held(R, k) + Part(n, k) + FreePart(k, hi - top)

LEMMA BoundsHold ==
  ASSUME NEW n, NEW lo, NEW top, NEW hi, Bounds(n, lo, top, hi),
         NEW R, IsFiniteSet(R),
         \A r \in R : Sound(r) /\ (High(r) <= lo \/ hi <= Low(r))
  PROVE  Holds(R, {n} \cup FreeNodes(top, hi), n, top, hi)
<1> SUFFICES ASSUME NEW k
             PROVE  /\ Held(R, k) \in Nat
                    /\ Held(R \cup ({n} \cup FreeNodes(top, hi)), k)
                        = Held(R, k) + Part(n, k) + FreePart(k, hi - top)
  BY Zenon DEF Holds
<1>1. /\ lo \in Nat /\ top \in Nat /\ hi \in Nat /\ lo < top /\ top <= hi
      /\ hi <= WORD - 1 /\ (PAGEALLOC => top % PAGE = 0 /\ hi % PAGE = 0)
      /\ Sound(n) /\ n \in NodeType /\ Low(n) = lo /\ High(n) = top
  BY DEF Bounds
<1>2. /\ \A r \in R : /\ Low(r) \in Int /\ High(r) \in Int /\ Low(r) < High(r)
                      /\ (High(r) <= lo \/ hi <= Low(r)) /\ r \in NodeType
      /\ R \in SUBSET NodeType
  BY SoundFacts
<1>3. Held(R, k) \in Nat
  BY <1>2, HeldInt
<1>4. n \notin R
  BY <1>1, <1>2
<1> DEFINE R1 == R \cup {n}
           R2 == R1 \cup FreeNodes(top, hi)
<1>5. Held(R1, k) = Held(R, k) + Part(n, k)
  BY <1>1, <1>2, <1>4, HeldAdd
<1>6. R1 \in SUBSET NodeType /\ IsFiniteSet(R1)
  BY <1>1, <1>2, FS_AddElement
<1>7. \A r \in R1 : /\ Low(r) \in Int /\ High(r) \in Int /\ Low(r) < High(r)
                    /\ (High(r) <= top \/ hi <= Low(r))
  BY <1>1, <1>2
<1>8. R \cup ({n} \cup FreeNodes(top, hi)) = R2
  OBVIOUS
<1> HIDE DEF R1
<1>9. top < hi => Node("free", top, hi - top) \notin R1
  BY <1>1, <1>7, PieceIsNew
<1>10. Adds(R1, top, hi)
  <2>1. /\ top \in Nat /\ hi \in Nat /\ top <= hi /\ hi <= WORD - 1
        /\ PAGEALLOC => top % PAGE = 0 /\ hi % PAGE = 0
    BY <1>1
  <2> QED BY <1>6, <1>9, <2>1, HeldFreeNodes, Zenon
<1>11. Held(R2, k) = Held(R1, k) + FreePart(k, hi - top)
  BY <1>10 DEF Adds
<1> HIDE DEF R2
<1> QED BY <1>3, <1>5, <1>8, <1>11

\* Changing the size of a block keeps the heap in order.
LEMMA RecutInOrder ==
  ASSUME NEW L, NEW ta, NEW tg, NEW tf, NEW M, InOrder(L, ta, tg, tf, M),
         NEW i, NEW last, NEW e, Recut(L, i, last, e)
  PROVE  /\ InOrder(Splice(L, i, last, RecutNodes(L, last, e)),
                    Wrap(ta + e.size - L[i].size), tg,
                    Wrap(tf + High(L[i]) - High(e)), M)
         /\ Blocks(NodesOf(Splice(L, i, last, RecutNodes(L, last, e))))
                = (Blocks(NodesOf(L)) \ {L[i]}) \cup {e}
<1> DEFINE n == L[i]
           lo == Low(n)
           top == High(n)
           mid == High(e)
           hi == High(L[last])
           N == Splice(L, i, last, RecutNodes(L, last, e))
           R == Outside(L, i, last)
           old == Inside(L, i, last)
           new == {e} \cup FreeNodes(mid, hi)
<1>1. /\ L \in Seq(NodeType) /\ Tiled(L) /\ NoTouch(NodesOf(L))
      /\ MemoryOf(NodesOf(L)) = M
      /\ ta = Held(NodesOf(L), "alloc") /\ tg = Held(NodesOf(L), "freed")
      /\ tf = Held(NodesOf(L), "free")
  BY DEF InOrder
<1>2. Bounds(n, lo, top, hi) /\ Bounds(e, lo, mid, hi)
  BY <1>1, RecutBounds
<1>3. Swapped(L, N, R, old, new, lo, hi)
  BY <1>1, RecutSwapped
<1>4. old = {n} \cup FreeNodes(top, hi)
  BY <1>1, RecutOld
<1>5. Closed(R, new, lo, hi)
  BY <1>1, RecutClosed
<1>6. /\ Strip(<<n>> \o PieceList(top, hi - top), lo, hi)
      /\ NodesOf(<<n>> \o PieceList(top, hi - top)) = {n} \cup FreeNodes(top, hi)
      /\ Strip(<<e>> \o PieceList(mid, hi - mid), lo, hi)
      /\ NodesOf(<<e>> \o PieceList(mid, hi - mid)) = {e} \cup FreeNodes(mid, hi)
  <2> HIDE DEF n, lo, top, mid, hi
  <2> QED BY <1>2, RecutStrip
<1> HIDE DEF n, lo, top, mid, hi, N, R, old
<1>7. MemoryOf(old) = MemoryOf(new)
  <2>1. MemoryOf({n} \cup FreeNodes(top, hi)) = lo..hi - 1
    BY <1>6 DEF Strip
  <2>2. MemoryOf({e} \cup FreeNodes(mid, hi)) = lo..hi - 1
    BY <1>6 DEF Strip
  <2> QED BY <1>4, <2>1, <2>2
<1>8. /\ lo \in Nat /\ top \in Nat /\ mid \in Nat /\ hi \in Nat
      /\ lo < top /\ top <= hi /\ lo < mid /\ mid <= hi
      /\ n \in NodeType /\ e \in NodeType /\ ~Free(n) /\ ~Free(e)
      /\ n.kind = "alloc" /\ e.kind = "alloc" /\ Sound(n) /\ Sound(e)
      /\ Low(n) = lo /\ Low(e) = lo
  BY <1>2 DEF Bounds
<1> HIDE DEF new
<1>9. NoTouch(NodesOf(N)) /\ MemoryOf(NodesOf(N)) = M
  <2>1. lo \in Int /\ hi \in Int
    BY <1>8
  <2>2. NoTouch(NodesOf(N))
    BY <1>1, <1>3, <1>5, <2>1, SwapNoTouch, Zenon
  <2>3. MemoryOf(NodesOf(N)) = MemoryOf(NodesOf(L))
    BY <1>3, <1>7, SwapMemory, Zenon
  <2> QED BY <1>1, <2>2, <2>3
<1>10. /\ N \in Seq(NodeType) /\ Tiled(N)
       /\ NodesOf(L) = R \cup old /\ NodesOf(N) = R \cup new /\ IsFiniteSet(R)
       /\ \A r \in R : Sound(r) /\ (High(r) <= lo \/ hi <= Low(r))
  BY <1>3 DEF Swapped
<1>11. Holds(R, old, n, top, hi) /\ Holds(R, new, e, mid, hi)
  <2>1. Holds(R, {n} \cup FreeNodes(top, hi), n, top, hi)
    BY <1>2, <1>10, BoundsHold
  <2>2. Holds(R, {e} \cup FreeNodes(mid, hi), e, mid, hi)
    BY <1>2, <1>10, BoundsHold
  <2> QED BY <1>4, <2>1, <2>2 DEF new
<1>12. \A k : /\ Held(R, k) \in Nat
              /\ Held(NodesOf(L), k) = Held(R, k) + Part(n, k) + FreePart(k, hi - top)
              /\ Held(NodesOf(N), k) = Held(R, k) + Part(e, k) + FreePart(k, hi - mid)
  BY <1>10, <1>11, Zenon DEF Holds
<1>13. n.size \in Nat /\ e.size \in Nat
  BY <1>8, SoundFacts
<1>14. Held(NodesOf(N), "alloc") = ta + e.size - n.size
  <2>1. /\ Part(n, "alloc") = n.size /\ Part(e, "alloc") = e.size
        /\ FreePart("alloc", hi - top) = 0 /\ FreePart("alloc", hi - mid) = 0
    BY <1>8 DEF Part, FreePart
  <2> DEFINE x == Held(R, "alloc")
  <2>2. /\ x \in Nat /\ ta = x + n.size + 0
        /\ Held(NodesOf(N), "alloc") = x + e.size + 0
    BY <1>1, <1>12, <2>1
  <2> HIDE DEF x
  <2> QED BY <1>13, <2>2
<1>15. Held(NodesOf(N), "freed") = tg
  <2>1. /\ Part(n, "freed") = 0 /\ Part(e, "freed") = 0
        /\ FreePart("freed", hi - top) = 0 /\ FreePart("freed", hi - mid) = 0
    BY <1>8 DEF Part, FreePart
  <2> QED BY <1>1, <1>12, <2>1
<1>16. Held(NodesOf(N), "free") = tf + top - mid
  <2>1. /\ Part(n, "free") = 0 /\ Part(e, "free") = 0
        /\ FreePart("free", hi - top) = hi - top
        /\ FreePart("free", hi - mid) = hi - mid
    BY <1>8 DEF Part, FreePart
  <2> DEFINE x == Held(R, "free")
  <2>2. /\ x \in Nat /\ tf = x + 0 + (hi - top)
        /\ Held(NodesOf(N), "free") = x + 0 + (hi - mid)
    BY <1>1, <1>12, <2>1
  <2> HIDE DEF x
  <2> QED BY <1>8, <2>2
<1>17. /\ Wrap(ta + e.size - n.size) = ta + e.size - n.size
       /\ Wrap(tf + top - mid) = tf + top - mid
  BY <1>10, <1>14, <1>16, TotalFits
<1>18. InOrder(N, Wrap(ta + e.size - n.size), tg, Wrap(tf + top - mid), M)
  BY <1>9, <1>10, <1>14, <1>15, <1>16, <1>17 DEF InOrder
<1>19. Blocks(NodesOf(N)) = (Blocks(NodesOf(L)) \ {n}) \cup {e}
  <2>1. \A m \in FreeNodes(top, hi) : Free(m)
    BY DEF FreeNodes, Free, Node
  <2>2. \A m \in FreeNodes(mid, hi) : Free(m)
    BY DEF FreeNodes, Free, Node
  <2>3. n \notin R
    <3>1. \A r \in R : Low(r) \in Nat /\ High(r) \in Nat /\ Low(r) < High(r)
      BY <1>10, SoundFacts
    <3> QED BY <1>8, <1>10, <3>1
  <2>4. /\ Blocks(NodesOf(N)) = Blocks(R) \cup {e}
        /\ Blocks(NodesOf(L)) = Blocks(R) \cup {n}
    BY <1>4, <1>8, <1>10, <2>1, <2>2 DEF Blocks, new
  <2> QED BY <2>3, <2>4 DEF Blocks
<1> QED BY <1>18, <1>19 DEF n, top, mid, N

\* Block n has become block e.
Became(n, e) ==
    Blocks(NodesOf(list')) = (Blocks(NodesOf(list)) \ {n}) \cup {e}

\* A resize of the block of node i.
LEMMA RecutOrder ==
  ASSUME HeapInv, NEW i, NEW last, NEW e, Recut(list, i, last, e),
         list' = Splice(list, i, last, RecutNodes(list, last, e)),
         asize' = Wrap(asize + e.size - list[i].size),
         fsize' = Wrap(fsize + High(list[i]) - High(e)),
         UNCHANGED <<gsize, heap, flist, fmax, trim>>
  PROVE  HeapOrder' /\ Became(list[i], e)
<1> DEFINE n == list[i]
           B == Blocks(NodesOf(list))
           M == HeapBytes(heap)
           N == Splice(list, i, last, RecutNodes(list, last, e))
<1>1. /\ InOrder(list, asize, gsize, fsize, M) /\ Queued(flist, B)
      /\ trim = NoTrim => Len(flist) <= fmax
  BY DEF HeapInv, HeapOrder
<1>2. /\ InOrder(N, Wrap(asize + e.size - n.size), gsize,
                 Wrap(fsize + High(n) - High(e)), M)
      /\ Blocks(NodesOf(N)) = (B \ {n}) \cup {e}
  BY <1>1, RecutInOrder
<1>3. n.kind = "alloc" /\ e.kind = "alloc"
  BY DEF Recut
<1>4. Queued(flist, Blocks(NodesOf(N)))
  <2>1. \A m : m.kind = "freed" => (m \in B <=> m \in Blocks(NodesOf(N)))
    BY <1>2, <1>3
  <2> HIDE DEF B, N
  <2> QED BY <1>1, <2>1, QueueSame
<1> HIDE DEF N, M, n
<1>5. list' = N
  BY DEF N
<1>6. InOrder(list, asize, gsize, fsize, HeapBytes(heap))'
  BY <1>2, <1>5 DEF M, n
<1>7. Queued(flist, Blocks(NodesOf(list)))'
  BY <1>4, <1>5
<1>8. Became(list[i], e)
  BY <1>2, <1>5 DEF n, Became
<1> QED BY <1>1, <1>6, <1>7, <1>8 DEF HeapOrder

\* The difference of two sizes is a long.
LEMMA SignedIs ==
  ASSUME RequestsFit, NEW l \in Asked, NEW m \in Asked
  PROVE  Signed(Wrap(l - m)) = l - m
<1> DEFINE H == WORD \div 2
<1>1. /\ l \in Nat /\ m \in Nat /\ l < H /\ m < H /\ WORD \in Nat /\ WORD > 0
  BY AskedFacts, WordFacts
<1>2. H \in Nat /\ 2 * H <= WORD
  BY <1>1
<1>3. \A x : Signed(x) = IF x < H THEN x ELSE x - WORD
  BY DEF Signed
<1> HIDE DEF H
<1>4. CASE l >= m
  <2>1. l - m \in 0..WORD - 1 /\ l - m < H
    BY <1>1, <1>2, <1>4
  <2>2. Wrap(l - m) = l - m
    BY <2>1, WrapSame
  <2> QED BY <1>3, <2>1, <2>2
<1>5. CASE l < m
  <2> DEFINE x == (l - m) + WORD
  <2>1. x \in 0..WORD - 1 /\ ~(x < H) /\ x - WORD = l - m
    BY <1>1, <1>2, <1>5
  <2>2. Wrap(l - m) = x
    <3>1. l - m = (WORD * (-1)) + x /\ -1 \in Int
      BY <1>1
    <3> HIDE DEF x
    <3>2. ((WORD * (-1)) + x) % WORD = x
      BY <1>1, <2>1, Remainder
    <3> QED BY <3>1, <3>2 DEF Wrap
  <2> HIDE DEF x
  <2> QED BY <1>3, <2>1, <2>2
<1> QED BY <1>1, <1>4, <1>5

\* Block n with l bytes, e, has its room where n has.
Sized(n, e, l) ==
    /\ e \in NodeType /\ e.kind = "alloc" /\ e.size = l /\ e.block = n.block
    /\ Low(e) = Low(n) /\ High(e) = High(n) + Room(l) - Room(n.size)
    /\ Span(n) = Room(n.size) /\ High(n) = n.block + Span(n) + Oflow
    /\ n.size \in Asked /\ n.block \in Nat /\ High(n) \in Nat
    /\ n.kind = "alloc" /\ (PAGEALLOC => n.block % PAGE = 0)

LEMMA SizedBlock ==
  ASSUME RequestsFit, ~(PAGEALLOC /\ ALLOCUPPER), NEW n, Sound(n),
         n.kind = "alloc", NEW l \in Asked
  PROVE  Sized(n, [n EXCEPT !.size = l], l)
<1> DEFINE e == [n EXCEPT !.size = l]
<1>1. /\ n \in NodeType /\ n.size \in Asked /\ n.block \in Nat /\ High(n) \in Nat
      /\ PAGEALLOC => n.block % PAGE = 0
  BY SoundFacts DEF Sound
<1>2. l \in Size
  BY AskedFacts
<1>3. e \in NodeType /\ e.kind = "alloc" /\ e.size = l /\ e.block = n.block
  BY <1>1, <1>2 DEF NodeType
<1>4. ~Free(n) /\ ~Free(e)
  BY <1>3 DEF Free
<1> HIDE DEF e
<1>5. /\ Span(n) = Room(n.size) /\ Low(n) = n.block - Oflow
      /\ High(n) = n.block + Room(n.size) + Oflow
  BY <1>1, <1>4, PlainBlock
<1>6. /\ Low(e) = e.block - Oflow /\ High(e) = e.block + Room(e.size) + Oflow
  <2>1. /\ e.block \in Nat /\ e.size \in Asked
        /\ PAGEALLOC => e.block % PAGE = 0
    BY <1>1, <1>3
  <2> QED BY <1>4, <2>1, PlainBlock
<1> DEFINE r == Room(l)
           q == Room(n.size)
           b == n.block
           O == Oflow
<1>7. r \in Nat /\ q \in Nat /\ b \in Nat /\ O \in Nat
  BY <1>1, RoomFacts, AskedFacts
<1>8. High(e) = b + r + O /\ High(n) = b + q + O
  BY <1>3, <1>5, <1>6
<1> HIDE DEF r, q, b, O
<1>9. High(e) = High(n) + r - q
  BY <1>7, <1>8
<1> QED BY <1>1, <1>3, <1>5, <1>6, <1>9 DEF Sized, e, r, q

\* It is sound if it ends no later than hi.
LEMMA SizedIsSound ==
  ASSUME RequestsFit, ~(PAGEALLOC /\ ALLOCUPPER), NEW n, Sound(n),
         NEW l \in Asked, NEW e, Sized(n, e, l), High(e) <= WORD - 1
  PROVE  Sound(e)
<1> DEFINE r == Room(l)
           q == Room(n.size)
           hi == High(n)
           b == n.block
           O == Oflow
<1>1. /\ e \in NodeType /\ e.kind = "alloc" /\ e.size = l /\ e.block = b
      /\ Low(e) = Low(n) /\ High(e) = hi + r - q /\ hi = b + q + O
      /\ n.size \in Asked /\ b \in Nat /\ hi \in Nat
  BY DEF Sized
<1>2. /\ l \in Nat /\ l > 0 /\ O \in Nat /\ r \in Nat /\ q \in Nat /\ l <= r
      /\ PAGEALLOC => r % PAGE = 0 /\ q % PAGE = 0
      /\ PAGE \in Nat /\ PAGE > 0
  BY <1>1, RoomFacts, AskedFacts, WordFacts
<1>3. /\ 0 <= Low(n) /\ Low(n) <= b
      /\ PAGEALLOC => Low(n) % PAGE = 0 /\ hi % PAGE = 0
      /\ PAGEALLOC => (n.kind # "free" /\ ~ALLOCUPPER => b % PAGE = 0)
  BY DEF Sound
<1>4. PAGEALLOC => b % PAGE = 0
  BY DEF Sized
<1>5. e.size \in Asked
  BY <1>1
<1> HIDE DEF r, q, hi, b, O
<1>6. PAGEALLOC => High(e) % PAGE = 0
  <2> SUFFICES ASSUME PAGEALLOC PROVE High(e) % PAGE = 0
    OBVIOUS
  <2> DEFINE x == hi + r
  <2>1. /\ hi \in Int /\ r \in Int /\ q \in Int
        /\ hi % PAGE = 0 /\ r % PAGE = 0 /\ q % PAGE = 0
    BY <1>1, <1>2, <1>3
  <2>2. x \in Int /\ x % PAGE = 0
    BY <1>2, <2>1, Multiples
  <2> HIDE DEF x
  <2>3. (x - q) % PAGE = 0
    BY <1>2, <2>1, <2>2, Multiples
  <2>4. High(e) = x - q
    BY <1>1, <1>2 DEF x
  <2> QED BY <2>3, <2>4
<1>7. e.block + e.size <= High(e)
  BY <1>1, <1>2
<1>8. /\ e.size > 0 /\ 0 <= Low(e) /\ Low(e) <= e.block
      /\ PAGEALLOC => Low(e) % PAGE = 0 /\ e.block % PAGE = 0
  BY <1>1, <1>2, <1>3, <1>4
<1> QED BY <1>1, <1>5, <1>6, <1>7, <1>8 DEF Sound

\* What all resizes have in common.
LEMMA ResizeFacts ==
  ASSUME RequestsFit, HeapInv, ~(PAGEALLOC /\ ALLOCUPPER), NEW i \in 1..Len(list),
         list[i].kind = "alloc", NEW l \in Asked
  PROVE  /\ list \in Seq(NodeType) /\ Tiled(list) /\ NoTouch(NodesOf(list))
         /\ Sound(list[i]) /\ Sized(list[i], [list[i] EXCEPT !.size = l], l)
<1>1. list \in Seq(NodeType) /\ Tiled(list) /\ NoTouch(NodesOf(list))
  BY DEF HeapInv, HeapOrder, InOrder
<1>2. Sound(list[i])
  BY <1>1, TiledFacts
<1> DEFINE n == list[i]
<1>3. Sound(n) /\ n.kind = "alloc"
  BY <1>2
<1> HIDE DEF n
<1>4. Sized(n, [n EXCEPT !.size = l], l)
  BY <1>3, SizedBlock
<1> QED BY <1>1, <1>2, <1>4 DEF n

LEMMA ResizeSameOrder ==
  ASSUME RequestsFit, HeapInv, ~(PAGEALLOC /\ ALLOCUPPER), NEW i \in 1..Len(list),
         list[i].kind = "alloc", NEW asked \in SIZES, ResizeSame(i, asked),
         UNCHANGED <<flist, gsize, fmax, trim, heap>>
  PROVE  /\ HeapOrder'
         /\ Became(list[i], [list[i] EXCEPT !.size = AtLeastOne(asked)])
<1> DEFINE l == AtLeastOne(asked)
           n == list[i]
           e == [list[i] EXCEPT !.size = l]
<1>1. /\ SamePages(n, l) \/ l = n.size
      /\ list' = Splice(list, i, i, <<e>> \o <<>>)
      /\ asize' = Wrap(asize + l - n.size) /\ fsize' = fsize
  BY DEF ResizeSame, Resized
<1>2. l \in Asked
  BY DEF Asked
<1> HIDE DEF l
<1>3. /\ list \in Seq(NodeType) /\ Tiled(list)
      /\ Sound(n) /\ Sized(n, e, l)
  BY <1>2, ResizeFacts
<1> HIDE DEF n, e
<1>4. /\ e \in NodeType /\ e.kind = "alloc" /\ e.size = l /\ e.block = n.block
      /\ Low(e) = Low(n) /\ High(e) = High(n) + Room(l) - Room(n.size)
      /\ Span(n) = Room(n.size) /\ n.size \in Asked /\ High(n) \in Nat
      /\ n.kind = "alloc"
  BY <1>3 DEF Sized
<1>5. Room(l) = Room(n.size) /\ Room(l) \in Nat
  <2>1. CASE l = n.size
    BY <1>2, <2>1, RoomFacts
  <2>2. CASE SamePages(n, l)
    <3>1. PAGEALLOC /\ l <= Room(n.size) /\ l > Room(n.size) - PAGE
      BY <1>4, <2>2 DEF SamePages
    <3> QED BY <1>2, <1>4, <3>1, SameRoom, RoomFacts
  <2> QED BY <1>1, <2>1, <2>2
<1>6. High(e) = High(n)
  <2> DEFINE r == Room(l)
  <2>1. r \in Nat /\ High(e) = High(n) + r - r
    BY <1>4, <1>5
  <2> HIDE DEF r
  <2> QED BY <1>4, <2>1
<1>7. Sound(e)
  <2>1. High(e) <= WORD - 1
    BY <1>3, <1>6 DEF Sound
  <2> QED BY <1>2, <1>3, <2>1, SizedIsSound
<1>8. Recut(list, i, i, e)
  <2>1. High(e) <= High(list[i]) /\ ~(High(e) < High(list[i])) /\ Low(e) = Low(list[i])
        /\ list[i].kind = "alloc"
    BY <1>4, <1>6 DEF n
  <2> QED BY <1>4, <1>7, <2>1 DEF Recut
<1>9. list' = Splice(list, i, i, RecutNodes(list, i, e))
  <2>1. High(e) - High(list[i]) = 0 /\ High(list[i]) - High(e) = 0
    BY <1>4, <1>6 DEF n
  <2>2. PieceList(High(e), High(list[i]) - High(e)) = <<>>
    BY <2>1 DEF PieceList
  <2> QED BY <1>1, <2>2 DEF RecutNodes
<1>10. fsize' = Wrap(fsize + High(list[i]) - High(e))
  <2>1. fsize \in Nat /\ Wrap(fsize) = fsize
    <3>1. fsize \in 0..WORD - 1
      BY DEF HeapInv, IInv, State, Now, Size
    <3> QED BY <3>1, WordFacts, WrapSame
  <2>2. fsize + High(list[i]) - High(e) = fsize
    BY <1>4, <1>6, <2>1 DEF n
  <2> QED BY <1>1, <2>1, <2>2
<1>11. asize' = Wrap(asize + e.size - list[i].size)
  BY <1>1, <1>4 DEF n
<1>12. HeapOrder' /\ Became(list[i], e)
  BY <1>8, <1>9, <1>10, <1>11, RecutOrder
<1> QED BY <1>12 DEF e, l

LEMMA RightFreeIs ==
  ASSUME list \in Seq(NodeType), Tiled(list), NEW i \in 1..Len(list), NEW e, NEW l,
         Sized(list[i], e, l), NEW p \in RightFree(i)
  PROVE  /\ p = i + 1 /\ p \in 1..Len(list) /\ Free(list[p]) /\ Sound(list[p])
         /\ High(list[i]) = list[p].block /\ Low(list[p]) = list[p].block
         /\ High(list[p]) = list[p].block + list[p].size
         /\ list[p].block \in Nat /\ list[p].size \in Nat
<1> DEFINE n == list[i]
           f == list[p]
<1>1. /\ p = i + 1 /\ p \in 1..Len(list) /\ Free(f)
      /\ n.block + Span(n) + Oflow >= f.block
  BY DEF RightFree, Free
<1>2. Sound(f) /\ High(n) <= Low(f)
  BY <1>1, TiledFacts
<1>3. High(n) = n.block + Span(n) + Oflow /\ High(n) \in Nat
  BY DEF Sized
<1> HIDE DEF n, f
<1>4. /\ Low(f) = f.block /\ High(f) = f.block + f.size
      /\ f.block \in Nat /\ f.size \in Nat
  BY <1>1, <1>2, FreeBounds, SoundFacts DEF Free
<1>5. High(n) = f.block
  BY <1>1, <1>2, <1>3, <1>4
<1> QED BY <1>1, <1>2, <1>4, <1>5 DEF n, f

LEMMA NoRightFree ==
  ASSUME list \in Seq(NodeType), Tiled(list), NEW i \in 1..Len(list), NEW e, NEW l,
         Sized(list[i], e, l), RightFree(i) = {}
  PROVE  \A r \in NodesOf(list) : Free(r) => Low(r) # High(list[i])
<1> SUFFICES ASSUME NEW k \in 1..Len(list), Free(list[k]),
                    Low(list[k]) = High(list[i])
             PROVE  FALSE
  BY DEF NodesOf
<1>1. k = i + 1
  BY Neighbours
<1>2. list[k].block = list[i].block + Span(list[i]) + Oflow
  BY FreeBounds DEF Sized, Free
<1>3. list[k].block \in Nat
  BY TiledFacts, SoundFacts
<1>4. list[i].block + Span(list[i]) + Oflow >= list[k].block
  BY <1>2, <1>3
<1>5. k \in RightFree(i)
  BY <1>1, <1>4 DEF RightFree, Free
<1> QED BY <1>5

\* Enough room for the bytes that were asked for is room for all their pages.
LEMMA RoomForPages ==
  ASSUME RequestsFit, NEW l \in Asked, NEW x \in Nat, l <= x,
         PAGEALLOC => x % PAGE = 0
  PROVE  Room(l) <= x
<1>1. /\ Room(l) \in Nat /\ Room(l) < l + PAGE /\ l \in Nat
      /\ PAGEALLOC => Room(l) % PAGE = 0
      /\ PAGE \in Nat /\ PAGE > 0
  BY RoomFacts, AskedFacts, WordFacts
<1>2. CASE PAGEALLOC
  <2> DEFINE r == Room(l)
  <2>1. r \in Nat /\ r < l + PAGE /\ r % PAGE = 0 /\ x % PAGE = 0
    BY <1>1, <1>2
  <2> HIDE DEF r
  <2>2. ASSUME x < r PROVE FALSE
    <3>1. x + PAGE <= r
      BY <1>1, <2>1, <2>2, Apart
    <3> QED BY <1>1, <2>1, <3>1
  <2>3. r <= x
    BY <2>1, <2>2
  <2> QED BY <2>3 DEF r
<1>3. CASE ~PAGEALLOC
  BY <1>3 DEF Room
<1> QED BY <1>2, <1>3

LEMMA ResizeGrowOrder ==
  ASSUME RequestsFit, HeapInv, ~(PAGEALLOC /\ ALLOCUPPER), NEW i \in 1..Len(list),
         list[i].kind = "alloc", NEW asked \in SIZES, ResizeGrow(i, asked),
         UNCHANGED <<flist, gsize, fmax, trim, heap>>
  PROVE  /\ HeapOrder'
         /\ Became(list[i], [list[i] EXCEPT !.size = AtLeastOne(asked)])
<1> DEFINE l == AtLeastOne(asked)
           n == list[i]
           e == [list[i] EXCEPT !.size = l]
           s == IF PAGEALLOC THEN Wrap(RoundUp(l, PAGE) - Span(n)) ELSE l - n.size
<1>1. PICK p \in RightFree(i) :
        /\ Wrap(Span(n) + list[p].size) >= l
        /\ list' = Splice(list, i, p,
                     <<e>> \o (IF Wrap(list[p].size - s) = 0 THEN <<>>
                               ELSE <<Node("free", Wrap(list[p].block + s),
                                           Wrap(list[p].size - s))>>))
        /\ asize' = Wrap(asize + l - n.size)
  BY DEF ResizeGrow, Resized, Node
<1>2. fsize' = Wrap(fsize - s) /\ Signed(Wrap(l - n.size)) > 0
  BY DEF ResizeGrow
<1> DEFINE f == list[p]
           r == Room(l)
           q == Room(n.size)
           top == High(n)
<1>3. l \in Asked
  BY DEF Asked
<1> HIDE DEF l
<1>4. /\ list \in Seq(NodeType) /\ Tiled(list)
      /\ Sound(n) /\ Sized(n, e, l)
  BY <1>3, ResizeFacts
<1> HIDE DEF e
<1>5. /\ p = i + 1 /\ p \in 1..Len(list) /\ Free(f) /\ Sound(f)
      /\ top = f.block /\ Low(f) = top /\ High(f) = top + f.size
      /\ top \in Nat /\ f.size \in Nat
  BY <1>4, RightFreeIs
<1>6. s = IF PAGEALLOC THEN Wrap(r - q) ELSE r - q
  BY <1>4 DEF Room, Sized
<1> HIDE DEF n, f, s
<1>7. /\ e \in NodeType /\ e.kind = "alloc" /\ e.size = l
      /\ Low(e) = Low(n) /\ High(e) = top + r - q
      /\ Span(n) = q /\ n.size \in Asked /\ n.kind = "alloc"
  BY <1>4 DEF Sized
<1>8. /\ l \in Nat /\ n.size \in Nat /\ r \in Nat /\ q \in Nat
      /\ l <= r /\ n.size <= q /\ r <= WORD - 1 /\ q <= WORD - 1
      /\ PAGEALLOC => q % PAGE = 0
      /\ PAGE \in Nat /\ PAGE > 0 /\ WORD \in Nat
  BY <1>3, <1>7, RoomFacts, AskedFacts, WordFacts
<1>9. n.size < l /\ q <= r
  <2>1. Signed(Wrap(l - n.size)) = l - n.size
    BY <1>3, <1>7, SignedIs
  <2>2. n.size < l /\ n.size <= l
    BY <1>2, <1>8, <2>1
  <2> QED BY <1>3, <1>7, <2>2, RoomMonotone
<1>10. High(f) <= WORD - 1 /\ q <= top
  <2>1. top = n.block + q + Oflow /\ n.block \in Nat /\ Oflow \in Nat
    BY <1>3, <1>4, <1>7, AskedFacts DEF Sized
  <2> HIDE DEF top, q
  <2> QED BY <1>5, <1>7, <1>8, <2>1 DEF Sound
<1> HIDE DEF r, q, top
<1>11. s = r - q /\ s \in Nat
  <2>1. r - q \in 0..WORD - 1
    BY <1>8, <1>9
  <2>2. Wrap(r - q) = r - q
    BY <2>1, WrapSame
  <2> QED BY <1>6, <1>8, <2>1, <2>2
\* The free node is large enough for all the pages that are needed.
<1>12. r <= q + f.size
  <2> DEFINE x == q + f.size
  <2>1. x \in 0..WORD - 1 /\ x \in Nat
    BY <1>5, <1>8, <1>10
  <2>2. l <= x
    <3>1. Wrap(x) = x
      BY <2>1, WrapSame
    <3>2. Wrap(x) >= l
      BY <1>1, <1>7 DEF f
    <3> QED BY <1>8, <2>1, <3>1, <3>2
  <2>3. PAGEALLOC => x % PAGE = 0
    <3> SUFFICES ASSUME PAGEALLOC PROVE x % PAGE = 0
      OBVIOUS
    <3> DEFINE hi == High(f)
               z == f.size
    <3>1. hi % PAGE = 0 /\ top % PAGE = 0 /\ hi \in Int /\ top \in Int /\ hi - top = z
      <4>1. High(f) % PAGE = 0 /\ Low(f) % PAGE = 0
        BY <1>5 DEF Sound
      <4> QED BY <1>5, <4>1
    <3>2. q \in Int /\ q % PAGE = 0 /\ z \in Int
      BY <1>5, <1>8
    <3> HIDE DEF hi
    <3>3. (hi - top) % PAGE = 0
      BY <1>8, <3>1, Multiples
    <3> HIDE DEF z
    <3>4. z % PAGE = 0
      BY <3>1, <3>3
    <3>5. (q + z) % PAGE = 0
      BY <1>8, <3>2, <3>4, Multiples
    <3> QED BY <3>5 DEF z
  <2> HIDE DEF x
  <2>4. Room(l) <= x
    BY <1>3, <2>1, <2>2, <2>3, RoomForPages
  <2> QED BY <2>4 DEF x, r
<1>13. /\ High(e) = top + s /\ High(e) <= High(f) /\ High(e) \in Nat
       /\ High(f) - High(e) = f.size - s /\ s <= f.size
  <2> DEFINE u == High(e)
             w == High(f)
             z == f.size
  <2>1. /\ u = top + (r - q) /\ w = top + z /\ top \in Nat /\ z \in Nat
        /\ r \in Nat /\ q \in Nat /\ s = r - q /\ q <= r /\ r <= q + z
    BY <1>5, <1>7, <1>8, <1>9, <1>11, <1>12
  <2> HIDE DEF u, w, z
  <2>2. u = top + s /\ u <= w /\ u \in Nat /\ w - u = z - s /\ s <= z
    BY <2>1
  <2> QED BY <2>2 DEF u, w, z
<1>14. Sound(e)
  <2>1. High(e) <= WORD - 1
    BY <1>5, <1>8, <1>10, <1>13
  <2> QED BY <1>3, <1>4, <2>1, SizedIsSound
<1>15. Recut(list, i, p, e)
  <2>1. High(e) <= High(list[p]) /\ Low(e) = Low(list[i]) /\ list[i].kind = "alloc"
        /\ Free(list[p]) /\ High(list[i]) = Low(list[p]) /\ p # i
    BY <1>5, <1>7, <1>13 DEF n, f, top
  <2> QED BY <1>5, <1>7, <1>14, <2>1 DEF Recut
<1>16. list' = Splice(list, i, p, RecutNodes(list, p, e))
  <2>1. /\ Wrap(f.size - s) = High(f) - High(e)
        /\ Wrap(f.block + s) = High(e)
    <3>1. f.size - s \in 0..WORD - 1 /\ f.block + s \in 0..WORD - 1
      <4> DEFINE w == High(f)
                 z == f.size
                 b == f.block
      <4>1. /\ w = b + z /\ b \in Nat /\ z \in Nat /\ w <= WORD - 1
            /\ s \in Nat /\ s <= z /\ WORD \in Nat
        BY <1>5, <1>8, <1>10, <1>11, <1>13
      <4> HIDE DEF w, z, b
      <4>2. z - s \in 0..WORD - 1 /\ b + s \in 0..WORD - 1
        BY <4>1
      <4> QED BY <4>2 DEF z, b
    <3>2. Wrap(f.size - s) = f.size - s /\ Wrap(f.block + s) = f.block + s
      BY <3>1, WrapSame
    <3> QED BY <1>5, <1>13, <3>2
  <2>2. RecutNodes(list, p, e)
          = <<e>> \o (IF High(f) - High(e) = 0 THEN <<>>
                      ELSE <<Node("free", High(e), High(f) - High(e))>>)
    BY DEF RecutNodes, PieceList, f
  <2>3. list' = Splice(list, i, p,
                     <<e>> \o (IF Wrap(f.size - s) = 0 THEN <<>>
                               ELSE <<Node("free", Wrap(f.block + s),
                                           Wrap(f.size - s))>>))
    BY <1>1 DEF f
  <2> QED BY <2>1, <2>2, <2>3, Zenon
<1>17. fsize' = Wrap(fsize + High(list[i]) - High(e))
  <2>1. fsize \in Int
    BY WordFacts DEF HeapInv, IInv, State, Now, Size
  <2>2. fsize + top - High(e) = fsize - s
    BY <1>5, <1>11, <1>13, <2>1
  <2> QED BY <1>2, <2>2 DEF top, n
<1>18. asize' = Wrap(asize + e.size - list[i].size)
  BY <1>1, <1>7 DEF n
<1>19. HeapOrder' /\ Became(list[i], e)
  BY <1>15, <1>16, <1>17, <1>18, RecutOrder
<1> QED BY <1>19 DEF e, l

\* A block that ends at top, with free memory behind it up to hi, ends s bytes
\* earlier, at mid.
Gives(s, top, mid, hi) ==
    /\ mid = top - s /\ mid \in Nat /\ mid < top /\ mid < hi
    /\ hi - mid = (hi - top) + s /\ (hi - top) + s > 0 /\ mid <= WORD - 1
    /\ top - s \in 0..WORD - 1 /\ (hi - top) + s \in 0..WORD - 1
    /\ top - mid = s

LEMMA GiveBounds ==
  ASSUME NEW q \in Nat, NEW r \in Nat, NEW top \in Nat, NEW hi \in Nat,
         r < q, q <= top, top <= hi, hi <= WORD - 1,
         NEW s, s = q - r, NEW mid, mid = top + r - q
  PROVE  Gives(s, top, mid, hi)
<1>1. WORD \in Nat
  BY WordFacts
<1>2. s \in Nat /\ s > 0 /\ mid = top - s /\ s <= top /\ mid \in Nat
  OBVIOUS
<1> QED BY <1>1, <1>2 DEF Gives

\* A block that shrinks loses s bytes of its room, and is followed by a free
\* node of as many bytes and the z bytes that were free behind it.
LEMMA GiveOrder ==
  ASSUME RequestsFit, HeapInv, ~(PAGEALLOC /\ ALLOCUPPER), NEW i \in 1..Len(list),
         list[i].kind = "alloc", NEW l \in Asked, NEW last \in 1..Len(list),
         \/ last = i /\ RightFree(i) = {}
         \/ last \in RightFree(i),
         NEW z, z = High(list[last]) - High(list[i]),
         NEW s, s = Wrap(Room(list[i].size) - Room(l)),
         Room(l) < Room(list[i].size),
         list' = Splice(list, i, last,
                        <<[list[i] EXCEPT !.size = l]>>
                            \o <<Node("free", Wrap(High(list[i]) - s), Wrap(z + s))>>),
         asize' = Wrap(asize + l - list[i].size), fsize' = Wrap(fsize + s),
         UNCHANGED <<flist, gsize, fmax, trim, heap>>
  PROVE  HeapOrder' /\ Became(list[i], [list[i] EXCEPT !.size = l])
<1> DEFINE n == list[i]
           f == list[last]
           e == [list[i] EXCEPT !.size = l]
           r == Room(l)
           q == Room(n.size)
           top == High(n)
           hi == High(f)
           mid == High(e)
<1>1. /\ list \in Seq(NodeType) /\ Tiled(list)
      /\ Sound(n) /\ Sized(n, e, l) /\ Sound(f)
  BY ResizeFacts, TiledFacts
<1>2. \/ last = i /\ (\A x \in NodesOf(list) : Free(x) => Low(x) # top)
      \/ last = i + 1 /\ Free(f) /\ top = Low(f)
  <2> HIDE DEF e
  <2>1. CASE last = i /\ RightFree(i) = {}
    BY <1>1, <2>1, NoRightFree
  <2>2. CASE last \in RightFree(i)
    BY <1>1, <2>2, RightFreeIs
  <2> QED BY <2>1, <2>2
<1>3. /\ list' = Splice(list, i, last,
                  <<e>> \o <<Node("free", Wrap(top - s), Wrap(z + s))>>)
      /\ r < q /\ s = Wrap(q - r) /\ z = hi - top
  OBVIOUS
<1> HIDE DEF e
<1>4. /\ e \in NodeType /\ e.kind = "alloc" /\ e.size = l
      /\ Low(e) = Low(n) /\ mid = top + r - q
      /\ n.size \in Asked /\ n.kind = "alloc"
      /\ top = n.block + Span(n) + Oflow /\ Span(n) = q /\ n.block \in Nat
  BY <1>1 DEF Sized
<1>5. /\ r \in Nat /\ q \in Nat /\ q <= WORD - 1 /\ Oflow \in Nat
      /\ WORD \in Nat
  BY <1>4, RoomFacts, AskedFacts, WordFacts
<1>6. /\ Low(n) \in Nat /\ top \in Nat /\ Low(n) < top
      /\ Low(f) \in Nat /\ hi \in Nat /\ Low(f) < hi /\ hi <= WORD - 1
  BY <1>1, SoundFacts
<1>7. f = n \/ top = Low(f)
  BY <1>2
<1>8. q <= top
  <2> HIDE DEF q, top, r
  <2> QED BY <1>4, <1>5
<1> HIDE DEF n, f, r, q, top, hi, mid
<1>9. top <= hi
  <2>1. CASE f = n
    BY <1>6, <2>1 DEF top, hi
  <2>2. CASE top = Low(f)
    BY <1>6, <2>2
  <2> QED BY <1>7, <2>1, <2>2
<1>10. s = q - r
  <2>1. q - r \in 0..WORD - 1
    BY <1>3, <1>5
  <2> QED BY <1>3, <2>1, WrapSame
<1>11. /\ mid = top - s /\ mid \in Nat /\ mid < top /\ mid < hi
       /\ hi - mid = z + s /\ z + s > 0 /\ mid <= WORD - 1
       /\ top - s \in 0..WORD - 1 /\ z + s \in 0..WORD - 1
       /\ top - mid = s
  <2>1. /\ q \in Nat /\ r \in Nat /\ top \in Nat /\ hi \in Nat /\ WORD \in Nat
        /\ r < q /\ q <= top /\ top <= hi /\ hi <= WORD - 1
    BY <1>3, <1>5, <1>6, <1>8, <1>9
  <2>2. s = q - r /\ mid = top + r - q /\ z = hi - top
    BY <1>3, <1>4, <1>10
  <2>3. Gives(s, top, mid, hi)
    BY <2>1, <2>2, GiveBounds, Zenon
  <2> QED BY <2>2, <2>3 DEF Gives
<1>12. Sound(e)
  <2>1. High(e) <= WORD - 1
    BY <1>11 DEF mid
  <2> QED BY <1>1, <2>1, SizedIsSound
<1>13. Recut(list, i, last, e)
  <2>1. /\ High(e) <= High(list[last]) /\ Low(e) = Low(list[i])
        /\ list[i].kind = "alloc"
    BY <1>4, <1>6, <1>11 DEF n, f, mid, hi
  <2>2. /\ \/ last = i
           \/ last = i + 1 /\ Free(list[last]) /\ High(list[i]) = Low(list[last])
        /\ last = i => \A x \in NodesOf(list) : Free(x) => Low(x) # High(list[i])
    BY <1>2 DEF f, top, n
  <2> QED BY <1>4, <1>12, <2>1, <2>2 DEF Recut
<1>14. list' = Splice(list, i, last, RecutNodes(list, last, e))
  <2>1. Wrap(top - s) = mid /\ Wrap(z + s) = hi - mid
    BY <1>11, WrapSame
  <2>2. ~(hi - mid = 0)
    BY <1>11
  <2>3. PieceList(mid, hi - mid) = <<Node("free", mid, hi - mid)>>
    BY <2>2 DEF PieceList
  <2>4. RecutNodes(list, last, e) = <<e>> \o <<Node("free", mid, hi - mid)>>
    BY <2>3 DEF RecutNodes, f, mid, hi
  <2> QED BY <1>3, <2>1, <2>4
<1>15. fsize' = Wrap(fsize + High(list[i]) - High(e))
  <2>1. fsize \in Int
    BY WordFacts DEF HeapInv, IInv, State, Now, Size
  <2>2. fsize + top - mid = fsize + s
    BY <1>11, <2>1
  <2> QED BY <2>2 DEF top, n, mid
<1>16. asize' = Wrap(asize + e.size - list[i].size)
  BY <1>4 DEF n
<1>17. HeapOrder' /\ Became(list[i], e)
  BY <1>13, <1>14, <1>15, <1>16, RecutOrder
<1> QED BY <1>17 DEF e

LEMMA ResizeShrinkOrder ==
  ASSUME RequestsFit, HeapInv, ~(PAGEALLOC /\ ALLOCUPPER), NEW i \in 1..Len(list),
         list[i].kind = "alloc", NEW asked \in SIZES, ResizeShrink(i, asked),
         UNCHANGED <<flist, gsize, fmax, trim, heap>>
  PROVE  /\ HeapOrder'
         /\ Became(list[i], [list[i] EXCEPT !.size = AtLeastOne(asked)])
<1> DEFINE l == AtLeastOne(asked)
           n == list[i]
           e == [list[i] EXCEPT !.size = l]
           s == Wrap(IF PAGEALLOC THEN Span(n) - RoundUp(l, PAGE) ELSE n.size - l)
           old == Node("free", n.block + Span(n) + Oflow, 0)
           r == Room(l)
           q == Room(n.size)
           top == High(n)
<1>0. SUFFICES HeapOrder' /\ Became(list[i], [list[i] EXCEPT !.size = l])
  OBVIOUS
<1>1. \/ \E p \in RightFree(i) :
            /\ list' = Splice(list, i, p,
                         <<e>> \o <<Node("free", Wrap(list[p].block - s),
                                         Wrap(list[p].size + s))>>)
            /\ asize' = Wrap(asize + l - n.size)
      \/ /\ RightFree(i) = {}
         /\ list' = Splice(list, i, i,
                      <<e>> \o <<Node("free", Wrap(old.block - s),
                                      Wrap(old.size + s))>>)
         /\ asize' = Wrap(asize + l - n.size)
  BY DEF ResizeShrink, Resized
<1>2. /\ fsize' = Wrap(fsize + s) /\ ~SamePages(n, l)
      /\ Signed(Wrap(l - n.size)) < 0
  BY DEF ResizeShrink
<1>3. l \in Asked
  BY DEF Asked
<1> HIDE DEF l
<1>4. /\ list \in Seq(NodeType) /\ Tiled(list)
      /\ Sound(n) /\ Sized(n, e, l)
  BY <1>3, ResizeFacts
<1>5. /\ Span(n) = q /\ n.size \in Asked /\ top = n.block + Span(n) + Oflow
      /\ top \in Nat
  BY <1>4 DEF Sized
<1>6. /\ l \in Nat /\ n.size \in Nat /\ r \in Nat /\ q \in Nat
      /\ n.size <= q /\ r < l + PAGE /\ PAGE \in Nat /\ PAGE > 0
      /\ PAGEALLOC => r % PAGE = 0 /\ q % PAGE = 0
  BY <1>3, <1>5, RoomFacts, AskedFacts, WordFacts
<1>7. l < n.size
  <2>1. Signed(Wrap(l - n.size)) = l - n.size
    BY <1>3, <1>5, SignedIs
  <2> QED BY <1>2, <1>6, <2>1
\* A page at least is lost with blocks on pages of their own.
<1>8. r < q
  <2>1. CASE PAGEALLOC
    <3>1. ~(l <= q /\ l > q - PAGE)
      BY <1>2, <1>5, <2>1 DEF SamePages
    <3>2. l + PAGE <= q
      <4> HIDE DEF q
      <4> QED BY <1>6, <1>7, <3>1
    <3> HIDE DEF q, r
    <3> QED BY <1>6, <3>2
  <2>2. CASE ~PAGEALLOC
    BY <1>7, <2>2 DEF Room
  <2> QED BY <2>1, <2>2
<1>9. s = Wrap(q - r)
  BY <1>5 DEF Room
<1> HIDE DEF s
<1>10. CASE \E p \in RightFree(i) :
              /\ list' = Splice(list, i, p,
                           <<e>> \o <<Node("free", Wrap(list[p].block - s),
                                           Wrap(list[p].size + s))>>)
              /\ asize' = Wrap(asize + l - n.size)
  <2>1. PICK p \in RightFree(i) :
            /\ list' = Splice(list, i, p,
                         <<e>> \o <<Node("free", Wrap(list[p].block - s),
                                         Wrap(list[p].size + s))>>)
            /\ asize' = Wrap(asize + l - n.size)
    BY <1>10
  <2>2. /\ p \in 1..Len(list) /\ list[p].block = top
        /\ High(list[p]) = list[p].block + list[p].size
        /\ list[p].size \in Nat
    <3> HIDE DEF e
    <3> QED BY <1>4, RightFreeIs
  <2> DEFINE z == list[p].size
  <2>3. z = High(list[p]) - High(list[i])
    <3> HIDE DEF z
    <3>1. High(list[p]) = top + z /\ z \in Nat
      BY <2>2 DEF z
    <3> QED BY <1>5, <3>1
  <2>4. list' = Splice(list, i, p,
                  <<[list[i] EXCEPT !.size = l]>>
                      \o <<Node("free", Wrap(High(list[i]) - s), Wrap(z + s))>>)
    BY <2>1, <2>2
  <2> HIDE DEF z
  <2> QED BY <1>2, <1>3, <1>8, <1>9, <2>1, <2>2, <2>3, <2>4, GiveOrder
<1>11. CASE /\ RightFree(i) = {}
            /\ list' = Splice(list, i, i,
                         <<e>> \o <<Node("free", Wrap(old.block - s),
                                         Wrap(old.size + s))>>)
            /\ asize' = Wrap(asize + l - n.size)
  <2> DEFINE z == 0
  <2>1. old.block = top /\ old.size = z
    BY <1>5 DEF Node
  <2>2. z = High(list[i]) - High(list[i])
    BY <1>5
  <2>3. list' = Splice(list, i, i,
                  <<[list[i] EXCEPT !.size = l]>>
                      \o <<Node("free", Wrap(High(list[i]) - s), Wrap(z + s))>>)
    BY <1>11, <2>1
  <2> HIDE DEF z, old
  <2> QED BY <1>2, <1>3, <1>8, <1>9, <1>11, <2>2, <2>3, GiveOrder
<1> QED BY <1>1, <1>10, <1>11

LEMMA ResizeallocOrder ==
  ASSUME RequestsFit, HeapInv, NEW i \in 1..Len(list), NEW asked \in SIZES,
         Resizealloc(i, asked)
  PROVE  /\ HeapOrder'
         /\ Became(list[i], [list[i] EXCEPT !.size = AtLeastOne(asked)])
<1>1. /\ list[i].kind = "alloc" /\ ~(PAGEALLOC /\ ALLOCUPPER)
      /\ ResizeSame(i, asked) \/ ResizeGrow(i, asked) \/ ResizeShrink(i, asked)
      /\ UNCHANGED <<flist, gsize, fmax, trim, heap>>
  BY DEF Resizealloc
<1> QED BY <1>1, ResizeSameOrder, ResizeGrowOrder, ResizeShrinkOrder

-----------------------------------------------------------------------------
(***************************************************************************)
(* The inductive invariant                                                 *)
(***************************************************************************)
LEMMA InitHeapInv == Init => HeapInv
<1> SUFFICES ASSUME Init PROVE HeapInv
  OBVIOUS
<1>1. /\ list = <<>> /\ flist = <<>> /\ heap = {}
      /\ asize = 0 /\ gsize = 0 /\ fsize = 0 /\ fmax \in Nat
  BY BoundsAssumption DEF Init
<1>2. <<>> \in Seq(NodeType) /\ Len(<<>>) = 0 /\ <<>> \in Seq(Size)
  OBVIOUS
<1>3. NodesOf(list) = {} /\ MemoryOf(NodesOf(list)) = {}
  BY <1>1, NodesOfNone
<1>4. HeapBytes(heap) = {}
  BY <1>1 DEF HeapBytes
<1>5. ASSUME NEW k PROVE Held(NodesOf(list), k) = 0
  <2>1. OfKind(NodesOf(list), k) = {}
    BY <1>3 DEF OfKind
  <2> QED BY <2>1, SumEmpty DEF Held
<1>6. Tiled(list) /\ NoTouch(NodesOf(list))
  BY <1>1, <1>2, <1>3 DEF Tiled, Sorted, NoTouch
<1>7. InOrder(list, asize, gsize, fsize, HeapBytes(heap))
  BY <1>1, <1>2, <1>3, <1>4, <1>5, <1>6 DEF InOrder
<1>8. Blocks(NodesOf(list)) = {}
  BY <1>3 DEF Blocks
<1>9. Queued(flist, Blocks(NodesOf(list)))
  BY <1>1, <1>2, <1>8 DEF Queued
<1>10. HeapOrder
  BY <1>1, <1>2, <1>7, <1>9 DEF HeapOrder
<1> QED BY <1>10, InitIInv DEF HeapInv

LEMMA NextHeapInv == ASSUME RequestsFit PROVE HeapInv /\ [Next]_vars => HeapInv'
<1> SUFFICES ASSUME HeapInv, [Next]_vars PROVE HeapInv'
  OBVIOUS
<1>0. IInv /\ HeapOrder
  BY DEF HeapInv
<1>1. IInv'
  BY <1>0, NextIInv
<1>2. CASE UNCHANGED vars
  <2>1. /\ UNCHANGED <<list, asize, gsize, fsize, heap, flist>>
        /\ trim' = trim /\ fmax' = fmax
    BY <1>2 DEF vars
  <2>2. trim' = NoTrim => Len(flist) <= fmax'
    BY <1>0, <2>1 DEF HeapOrder
  <2>3. HeapOrder'
    BY <1>0, <2>1, <2>2, SameOrder
  <2> QED BY <1>1, <2>3 DEF HeapInv
<1>3. ASSUME NEW l \in SIZES, NEW a \in ALIGNS, Getalloc(l, a)
      PROVE  HeapOrder'
  <2>1. CASE GetallocReuse(l, a)
    BY <2>1, GetallocReuseOrder
  <2>2. CASE GetallocFresh(l, a)
    BY <2>2, GetallocFreshOrder
  <2>3. CASE GetallocRefused(l, a)
    BY <2>3, GetallocRefusedOrder
  <2> QED BY <1>3, <2>1, <2>2, <2>3 DEF Getalloc
<1>4. ASSUME NEW i \in 1..Len(list), NEW l \in SIZES, Resizealloc(i, l)
      PROVE  HeapOrder'
  BY <1>4, ResizeallocOrder
<1>5. ASSUME NEW i \in 1..Len(list), Freealloc(i) PROVE HeapOrder'
  <2>1. CASE FreeallocDrop(i)
    BY <2>1, FreeallocDropOrder
  <2>2. CASE FreeallocKeep(i)
    BY <2>2, FreeallocKeepOrder
  <2> QED BY <1>5, <2>1, <2>2 DEF Freealloc
<1>6. ASSUME NEW v \in LIMITS, OptNofree(v) PROVE HeapOrder'
  BY <1>6, OptNofreeOrder
<1>7. CASE OptNofreeRecycle
  <2>1. HeapOrder'
    BY <1>7, OptNofreeRecycleOrder
  <2> QED BY <1>1, <2>1 DEF HeapInv
<1>8. CASE OptNofreeDone
  <2>1. HeapOrder'
    BY <1>8, OptNofreeDoneOrder
  <2> QED BY <1>1, <2>1 DEF HeapInv
<1>9. CASE ~UNCHANGED vars /\ ~OptNofreeRecycle /\ ~OptNofreeDone
  <2>1. HeapOrder'
    BY <1>3, <1>4, <1>5, <1>6, <1>9 DEF Next
  <2> QED BY <1>1, <2>1 DEF HeapInv
<1> QED BY <1>2, <1>7, <1>8, <1>9

LEMMA HeapInductive == ASSUME RequestsFit PROVE Spec => []HeapInv
  BY InitHeapInv, NextHeapInv, PTL DEF Spec

-----------------------------------------------------------------------------
(***************************************************************************)
(* What it implies                                                         *)
(***************************************************************************)
LEMMA InvIsTiled == HeapInv => HeapIsTiled
<1> SUFFICES ASSUME HeapInv PROVE HeapIsTiled
  OBVIOUS
<1>1. /\ list \in Seq(NodeType) /\ Tiled(list)
      /\ MemoryOf(NodesOf(list)) = HeapBytes(heap)
  BY DEF HeapInv, HeapOrder, InOrder
<1>2. \A i \in 1..Len(list) : list[i].size > 0
  BY <1>1, TiledFacts, SoundFacts
<1>3. \A i \in 1..Len(list) - 1 : High(list[i]) <= Low(list[i + 1])
  <2> SUFFICES ASSUME NEW i \in 1..Len(list) - 1
               PROVE  High(list[i]) <= Low(list[i + 1])
    OBVIOUS
  <2>1. i \in 1..Len(list) /\ i + 1 \in 1..Len(list) /\ i < i + 1
    BY <1>1
  <2> QED BY <1>1, <2>1, TiledFacts
<1>4. UNION {Memory(list[i]) : i \in 1..Len(list)} = MemoryOf(NodesOf(list))
  BY DEF MemoryOf, NodesOf
<1> QED BY <1>1, <1>2, <1>3, <1>4 DEF HeapIsTiled, HeapBytes

LEMMA InvHasNoBordering == HeapInv => NoBorderingFree
<1> SUFFICES ASSUME HeapInv, NEW i \in 1..Len(list) - 1, Bordering(list, i)
             PROVE  FALSE
  BY DEF NoBorderingFree
<1>1. list \in Seq(NodeType) /\ Tiled(list) /\ NoTouch(NodesOf(list))
  BY DEF HeapInv, HeapOrder, InOrder
<1>2. PICK j \in Int : j = i + 1
  OBVIOUS
<1>3. i \in Int
  OBVIOUS
<1>4. /\ i \in 1..Len(list) /\ j \in 1..Len(list)
      /\ Free(list[i]) /\ Free(list[j]) /\ High(list[i]) = Low(list[j])
  BY <1>1, <1>2, <1>3, BorderingMeets, Zenon
<1>5. list[i] \in NodesOf(list) /\ list[j] \in NodesOf(list)
  BY <1>4 DEF NodesOf
<1> QED BY <1>1, <1>4, <1>5 DEF NoTouch

LEMMA InvCounts == HeapInv => CountersExact
<1> SUFFICES ASSUME HeapInv PROVE CountersExact
  OBVIOUS
<1>1. /\ list \in Seq(NodeType) /\ Tiled(list)
      /\ asize = Held(NodesOf(list), "alloc")
      /\ gsize = Held(NodesOf(list), "freed")
      /\ fsize = Held(NodesOf(list), "free")
  BY DEF HeapInv, HeapOrder, InOrder
<1> DEFINE sizes == [i \in 1..Len(list) |-> list[i].size]
<1>2. \A k : SumOf(sizes, Nodes(k)) = Held(NodesOf(list), k)
  BY <1>1, HeldIsTotal
<1>3. /\ asize = SumOf(sizes, Nodes("alloc")) /\ gsize = SumOf(sizes, Nodes("freed"))
      /\ fsize = SumOf(sizes, Nodes("free"))
  BY <1>1, <1>2
<1> QED BY <1>3 DEF CountersExact

\* The queue and the freed nodes name the same blocks, both of them once.
LEMMA InvQueues == HeapInv => FreedQueueExact
<1> SUFFICES ASSUME HeapInv PROVE FreedQueueExact
  OBVIOUS
<1> DEFINE B == Blocks(NodesOf(list))
           F == Nodes("freed")
           I == 1..Len(flist)
           D == {flist[k] : k \in I}
           g == [k \in I |-> CHOOSE i \in F : list[i].block = flist[k]]
<1>1. /\ list \in Seq(NodeType) /\ Tiled(list) /\ Queued(flist, B)
      /\ trim = NoTrim => Len(flist) <= fmax
  BY DEF HeapInv, HeapOrder, InOrder
<1>2. /\ flist \in Seq(Size)
      /\ \A k \in I : \E n \in B : n.kind = "freed" /\ n.block = flist[k]
      /\ \A n \in B : n.kind = "freed" => \E k \in I : flist[k] = n.block
      /\ \A j \in I, k \in I : flist[j] = flist[k] => j = k
  BY <1>1 DEF Queued
<1>3. \A i \in 1..Len(list), j \in 1..Len(list) :
        list[i].block = list[j].block => i = j
  BY <1>1, BlocksDistinct
<1>4. \A i \in F : i \in 1..Len(list) /\ list[i].kind = "freed" /\ list[i] \in B
  <2> SUFFICES ASSUME NEW i \in F
               PROVE  i \in 1..Len(list) /\ list[i].kind = "freed" /\ list[i] \in B
    OBVIOUS
  <2>1. i \in 1..Len(list) /\ list[i].kind = "freed"
    BY DEF Nodes
  <2> QED BY <2>1, BlockOfList
<1>5. \A k \in I : \E i \in F : list[i].block = flist[k]
  <2> SUFFICES ASSUME NEW k \in I PROVE \E i \in F : list[i].block = flist[k]
    OBVIOUS
  <2>1. PICK n \in B : n.kind = "freed" /\ n.block = flist[k]
    BY <1>2
  <2>2. PICK i \in 1..Len(list) : list[i] = n
    BY DEF Blocks, NodesOf
  <2>3. i \in F
    BY <2>1, <2>2 DEF Nodes
  <2> QED BY <2>1, <2>2, <2>3
<1>6. \A k \in I : g[k] \in F /\ list[g[k]].block = flist[k]
  <2> HIDE DEF F, I
  <2> QED BY <1>5
<1>7. \A i \in F : \E k \in I : flist[k] = list[i].block
  BY <1>2, <1>4
<1>8. D = {list[i].block : i \in F}
  <2> HIDE DEF F, B, g
  <2> QED BY <1>5, <1>7
<1>9. g \in Bijection(I, F)
  <2>1. g \in [I -> F]
    BY <1>6
  <2>2. \A j \in I, k \in I : g[j] = g[k] => j = k
    <3> HIDE DEF g, F, B, D
    <3> QED BY <1>2, <1>6
  <2>3. \A i \in F : \E k \in I : g[k] = i
    <3> SUFFICES ASSUME NEW i \in F PROVE \E k \in I : g[k] = i
      OBVIOUS
    <3>1. PICK k \in I : flist[k] = list[i].block
      BY <1>7
    <3>2. g[k] \in F /\ list[g[k]].block = list[i].block
      BY <1>6, <3>1
    <3>3. g[k] \in 1..Len(list) /\ i \in 1..Len(list)
      BY <1>4, <3>2
    <3> HIDE DEF g, F, B, D
    <3>4. g[k] = i
      BY <1>3, <3>2, <3>3
    <3> QED BY <3>4
  <2> HIDE DEF g, F, I
  <2>4. g \in Injection(I, F)
    BY <2>1, <2>2 DEF Injection, IsInjective
  <2>5. g \in Surjection(I, F)
    BY <2>1, <2>3 DEF Surjection
  <2> QED BY <2>4, <2>5 DEF Bijection
<1>10. Len(flist) \in Nat
  BY <1>2
<1>11. IsFiniteSet(I) /\ Cardinality(I) = Len(flist)
  <2>1. Cardinality(I) = IF 1 > Len(flist) THEN 0 ELSE Len(flist) - 1 + 1
    BY <1>10, FS_Interval
  <2>2. IsFiniteSet(I)
    BY <1>10, FS_Interval
  <2> QED BY <1>10, <2>1, <2>2
<1>12. Cardinality(F) = Len(flist)
  <2> HIDE DEF g, F, I
  <2>1. ExistsBijection(I, F)
    BY <1>9 DEF ExistsBijection
  <2> QED BY <1>11, <2>1, FS_Bijection
<1> QED BY <1>1, <1>8, <1>12 DEF FreedQueueExact

\* Where the nodes of a list in order are.
LEMMA Ordered ==
  ASSUME list \in Seq(NodeType), Tiled(list)
  PROVE  /\ Len(list) \in Nat
         /\ \A k \in 1..Len(list) :
            /\ list[k].block \in Nat /\ list[k].size \in Nat /\ list[k].size > 0
            /\ Low(list[k]) \in Nat /\ High(list[k]) \in Nat
            /\ Low(list[k]) < High(list[k]) /\ Low(list[k]) <= list[k].block
            /\ list[k].block + list[k].size <= High(list[k])
            /\ \A p \in Int : p \in Memory(list[k]) <=> Low(list[k]) <= p /\ p < High(list[k])
         /\ \A i \in 1..Len(list), j \in 1..Len(list) :
            i < j => High(list[i]) <= Low(list[j])
<1>1. \A k \in 1..Len(list) : Sound(list[k])
  BY TiledFacts
<1>2. ASSUME NEW k \in 1..Len(list), NEW p \in Int
      PROVE  p \in Memory(list[k]) <=> Low(list[k]) <= p /\ p < High(list[k])
  <2> DEFINE lo == Low(list[k])
             hi == High(list[k])
  <2>1. lo \in Nat /\ hi \in Nat /\ Memory(list[k]) = lo..hi - 1
    BY <1>1, SoundFacts, MemoryIs
  <2> HIDE DEF lo, hi
  <2>2. p \in lo..hi - 1 <=> lo <= p /\ p < hi
    BY <2>1
  <2> QED BY <2>1, <2>2 DEF lo, hi
<1>3. \A k \in 1..Len(list) :
            /\ list[k].block \in Nat /\ list[k].size \in Nat /\ list[k].size > 0
            /\ Low(list[k]) \in Nat /\ High(list[k]) \in Nat
            /\ Low(list[k]) < High(list[k]) /\ Low(list[k]) <= list[k].block
            /\ list[k].block + list[k].size <= High(list[k])
  BY <1>1, SoundFacts
<1>4. Len(list) \in Nat
  OBVIOUS
<1> QED BY <1>2, <1>3, <1>4, TiledFacts

\* Of two blocks the one with the lower address ends before the other starts.
LEMMA Before ==
  ASSUME list \in Seq(NodeType), Tiled(list),
         NEW i \in 1..Len(list), NEW j \in 1..Len(list),
         list[i].block < list[j].block
  PROVE  list[i].block + list[i].size <= list[j].block
<1>1. /\ list[i].block \in Nat /\ list[i].size \in Nat
      /\ Low(list[i]) \in Nat /\ High(list[i]) \in Nat
      /\ list[i].block + list[i].size <= High(list[i])
      /\ Low(list[i]) <= list[i].block
  BY Ordered
<1>2. /\ list[j].block \in Nat /\ list[j].size \in Nat
      /\ Low(list[j]) \in Nat /\ High(list[j]) \in Nat
      /\ list[j].block + list[j].size <= High(list[j])
      /\ Low(list[j]) <= list[j].block
  BY Ordered
<1>3. i < j \/ j < i
  <2>1. i # j
    BY <1>1
  <2> QED BY <2>1
<1>4. CASE i < j
  <2>1. High(list[i]) <= Low(list[j])
    BY <1>4, Ordered
  <2> QED BY <1>1, <1>2, <2>1
<1>5. CASE j < i
  <2>1. High(list[j]) <= Low(list[i])
    BY <1>5, Ordered
  <2> QED BY <1>1, <1>2, <2>1
<1> QED BY <1>3, <1>4, <1>5

\* The tree is searched for the last block not above p: no other has p.
LEMMA FindInFinds ==
  ASSUME list \in Seq(NodeType), Tiled(list), NEW p \in Int, NEW k
  PROVE  FindIn(k, p) = {i \in Nodes(k) : p \in Run(list[i].block, list[i].size)}
<1>1. ASSUME NEW i \in 1..Len(list)
      PROVE  p \in Run(list[i].block, list[i].size)
                <=> list[i].block <= p /\ p < list[i].block + list[i].size
  <2> DEFINE b == list[i].block
             s == list[i].size
  <2>1. b \in Nat /\ s \in Nat
    BY Ordered
  <2> HIDE DEF b, s
  <2>2. p \in b..(b + s - 1) <=> b <= p /\ p < b + s
    BY <2>1
  <2> QED BY <2>2 DEF Run, b, s
<1>2. ASSUME NEW i \in FindIn(k, p)
      PROVE  i \in Nodes(k) /\ p \in Run(list[i].block, list[i].size)
  <2>1. /\ i \in 1..Len(list) /\ list[i].kind = k /\ list[i].block <= p
        /\ list[i].block + list[i].size > p
    BY <1>2 DEF FindIn, SearchLower
  <2>2. p < list[i].block + list[i].size
    <3>1. list[i].block \in Nat /\ list[i].size \in Nat
      BY <2>1, Ordered
    <3> QED BY <2>1, <3>1
  <2> QED BY <1>1, <2>1, <2>2 DEF Nodes
<1>3. ASSUME NEW i \in Nodes(k), p \in Run(list[i].block, list[i].size)
      PROVE  i \in FindIn(k, p)
  <2>1. i \in 1..Len(list) /\ list[i].kind = k
    BY DEF Nodes
  <2>2. /\ list[i].block <= p /\ p < list[i].block + list[i].size
        /\ list[i].block \in Nat /\ list[i].size \in Nat
    BY <1>1, <1>3, <2>1, Ordered
  <2>3. ASSUME NEW j \in 1..Len(list), list[j].block <= p
        PROVE  list[j].block <= list[i].block
    <3>1. list[j].block \in Nat
      BY Ordered
    <3>2. ~(list[i].block < list[j].block)
      <4>1. SUFFICES ASSUME list[i].block < list[j].block PROVE FALSE
        OBVIOUS
      <4>2. list[i].block + list[i].size <= list[j].block
        BY <2>1, <4>1, Before
      <4> QED BY <2>2, <2>3, <3>1, <4>2
    <3> QED BY <2>2, <3>1, <3>2
  <2>4. i \in SearchLower(k, p)
    BY <2>1, <2>2, <2>3 DEF SearchLower
  <2>5. list[i].block + list[i].size > p
    BY <2>2
  <2> QED BY <2>4, <2>5 DEF FindIn
<1> QED BY <1>2, <1>3

\* The list is searched from a block not above p.
LEMMA SearchStarts ==
  ASSUME NEW p \in Int, NEW from, from = SearchFrom(p)
  PROVE  from # 0 => list[from].block <= p
<1> DEFINE lower == IF SearchLower("alloc", p) # {} THEN SearchLower("alloc", p)
                    ELSE SearchLower("freed", p)
<1>1. from = IF lower = {} THEN 0 ELSE CHOOSE i \in lower : TRUE
  BY DEF SearchFrom
<1>2. \A i \in lower : list[i].block <= p
  BY DEF SearchLower
<1> HIDE DEF lower
<1>3. from # 0 => from \in lower
  BY <1>1
<1> QED BY <1>2, <1>3

\* The list is searched for the first node that does not end before p: no other
\* can have p.
LEMMA FindNodeFinds ==
  ASSUME list \in Seq(NodeType), Tiled(list), NEW p \in Int
  PROVE  FindNode(p, 1) = {i \in 1..Len(list) : p \in Memory(list[i])}
<1> DEFINE from == SearchFrom(p)
           start == IF from = 0 THEN 1 ELSE from
           ahead == {i \in start..Len(list) :
                        p < Low(list[i]) \/ High(list[i]) > p}
<1>1. FindNode(p, 1) = {i \in ahead : /\ \A j \in ahead : i <= j
                                      /\ p < Low(list[i]) => p + 1 > Low(list[i])}
  BY DEF FindNode
<1>2. from \in 0..Len(list) /\ (from # 0 => list[from].block <= p)
  BY SearchFromFacts, SearchStarts
<1> HIDE DEF from
<1>3. start \in Nat /\ start > 0
  BY <1>2
<1>4. \A i \in ahead : i \in 1..Len(list) /\ (p < Low(list[i]) \/ High(list[i]) > p)
  BY <1>3
<1>5. ASSUME NEW i \in 1..Len(list), i < start
      PROVE  High(list[i]) <= p
  <2>1. PICK f \in 1..Len(list) : i < f /\ list[f].block <= p
    BY <1>2, <1>5
  <2>2. High(list[i]) <= Low(list[f])
    BY <2>1, Ordered
  <2>3. /\ Low(list[f]) <= list[f].block
        /\ Low(list[f]) \in Nat /\ list[f].block \in Nat
    BY Ordered
  <2>4. High(list[i]) \in Nat
    BY Ordered
  <2> QED BY <2>1, <2>2, <2>3, <2>4
<1>6. ASSUME NEW i \in FindNode(p, 1)
      PROVE  i \in 1..Len(list) /\ p \in Memory(list[i])
  <2>1. i \in ahead /\ (p < Low(list[i]) => p + 1 > Low(list[i]))
    BY <1>1, <1>6
  <2>2. i \in 1..Len(list) /\ (p < Low(list[i]) \/ High(list[i]) > p)
    BY <1>4, <2>1
  <2>3. /\ Low(list[i]) \in Nat /\ High(list[i]) \in Nat
        /\ p \in Memory(list[i]) <=> Low(list[i]) <= p /\ p < High(list[i])
    BY <2>2, Ordered
  <2> HIDE DEF ahead
  <2>4. Low(list[i]) <= p /\ p < High(list[i])
    BY <2>1, <2>2, <2>3
  <2> QED BY <2>2, <2>3, <2>4
<1>7. ASSUME NEW i \in 1..Len(list), p \in Memory(list[i])
      PROVE  i \in FindNode(p, 1)
  <2>1. /\ Low(list[i]) \in Nat /\ High(list[i]) \in Nat
        /\ Low(list[i]) <= p /\ p < High(list[i])
    BY <1>7, Ordered
  <2>2. ~(i < start)
    <3>1. ~(High(list[i]) <= p)
      BY <2>1
    <3> QED BY <1>5, <3>1
  <2>3. i \in ahead
    BY <1>3, <2>1, <2>2
  <2>4. ASSUME NEW j \in ahead PROVE i <= j
    <3>1. j \in 1..Len(list) /\ (p < Low(list[j]) \/ High(list[j]) > p)
      BY <1>4
    <3>2. Low(list[j]) \in Nat /\ High(list[j]) \in Nat /\ Low(list[j]) < High(list[j])
      BY <3>1, Ordered
    <3>3. j < i => High(list[j]) <= Low(list[i])
      BY <3>1, Ordered
    <3> HIDE DEF ahead
    <3> QED BY <2>1, <3>1, <3>2, <3>3
  <2>5. ~(p < Low(list[i]))
    BY <2>1
  <2> HIDE DEF ahead
  <2> QED BY <1>1, <2>3, <2>4, <2>5
<1> QED BY <1>6, <1>7

LEMMA InvFinds == HeapInv => LookupExact
<1> SUFFICES ASSUME HeapInv, NEW p \in Bytes
             PROVE  /\ \A k \in {"alloc", "freed"} :
                        FindIn(k, p) = {i \in Nodes(k) :
                                            p \in Run(list[i].block, list[i].size)}
                    /\ FindNode(p, 1) = {i \in 1..Len(list) : p \in Memory(list[i])}
  BY DEF LookupExact
<1>1. list \in Seq(NodeType) /\ Tiled(list)
  BY DEF HeapInv, HeapOrder, InOrder
<1>2. p \in Int
  <2>1. PICK q \in HEAPPAGES : p \in q..q + PAGE - 1
    BY DEF Bytes
  <2> QED BY <2>1
<1> QED BY <1>1, <1>2, FindInFinds, FindNodeFinds

-----------------------------------------------------------------------------
(***************************************************************************)
(* The blocks as the rest of the library knows them                        *)
(***************************************************************************)
Pair(n) == [block |-> n.block, size |-> n.size]

\* What the variables of BlockStore.tla stand for.
Live == {BlockOf(i) : i \in Nodes("alloc")}
HeldBack ==
    [k \in 1..Len(flist) |->
        BlockOf(CHOOSE i \in IndexOf(list, flist[k], "freed") : TRUE)]

\* The same, of a list and a queue.
LiveOf(B) == {Pair(n) : n \in {m \in B : m.kind = "alloc"}}
HeldOf(L, q) ==
    [k \in 1..Len(q) |->
        Pair(L[CHOOSE i \in IndexOf(L, q[k], "freed") : TRUE])]

LEMMA LiveIs ==
  ASSUME NEW L
  PROVE  {Pair(L[i]) : i \in {j \in 1..Len(L) : L[j].kind = "alloc"}}
            = LiveOf(Blocks(NodesOf(L)))
<1>1. ASSUME NEW i \in 1..Len(L), L[i].kind = "alloc"
      PROVE  L[i] \in {m \in Blocks(NodesOf(L)) : m.kind = "alloc"}
  BY <1>1, BlockOfList
<1>2. ASSUME NEW n \in Blocks(NodesOf(L)), n.kind = "alloc"
      PROVE  \E i \in 1..Len(L) : L[i].kind = "alloc" /\ n = L[i]
  BY <1>2 DEF Blocks, NodesOf
<1> QED BY <1>1, <1>2 DEF LiveOf

LEMMA Mapped ==
  /\ Live = LiveOf(Blocks(NodesOf(list))) /\ HeldBack = HeldOf(list, flist)
  /\ Live' = LiveOf(Blocks(NodesOf(list'))) /\ HeldBack' = HeldOf(list', flist')
<1>1. /\ Live = {Pair(list[i]) : i \in {j \in 1..Len(list) : list[j].kind = "alloc"}}
      /\ Live' = {Pair(list'[i]) :
                    i \in {j \in 1..Len(list') : list'[j].kind = "alloc"}}
  BY DEF Live, BlockOf, Pair, Nodes
<1>2. HeldBack = HeldOf(list, flist) /\ HeldBack' = HeldOf(list', flist')
  BY DEF HeldBack, HeldOf, BlockOf, Pair
<1> QED BY <1>1, <1>2, LiveIs

\* The blocks of a queue, h, are the freed ones among B.
Shows(h, q, B) ==
    /\ Len(q) \in Nat /\ h = [k \in 1..Len(q) |-> h[k]]
    /\ \A k \in 1..Len(q), n \in B :
            n.kind = "freed" /\ n.block = q[k] => h[k] = Pair(n)

LEMMA HeldShows ==
  ASSUME NEW L \in Seq(NodeType), Tiled(L), NEW q, Queued(q, Blocks(NodesOf(L)))
  PROVE  Shows(HeldOf(L, q), q, Blocks(NodesOf(L)))
<1> DEFINE h == HeldOf(L, q)
<1>1. Len(q) \in Nat
  BY DEF Queued
<1>2. h = [k \in 1..Len(q) |-> h[k]]
  BY DEF HeldOf
<1>3. ASSUME NEW k \in 1..Len(q), NEW n \in Blocks(NodesOf(L)),
             n.kind = "freed", n.block = q[k]
      PROVE  h[k] = Pair(n)
  <2> DEFINE I == IndexOf(L, q[k], "freed")
             c == CHOOSE i \in I : TRUE
  <2>1. PICK j \in 1..Len(L) : L[j] = n
    BY DEF Blocks, NodesOf
  <2>2. j \in I
    BY <1>3, <2>1 DEF IndexOf
  <2>3. c \in I
    BY <2>2
  <2>4. c \in 1..Len(L) /\ L[c].block = L[j].block
    BY <1>3, <2>1, <2>3 DEF IndexOf
  <2>5. c = j
    <3> HIDE DEF c
    <3> QED BY <2>4, BlocksDistinct
  <2>6. h[k] = Pair(L[c])
    BY DEF HeldOf
  <2> QED BY <2>1, <2>5, <2>6
<1> QED BY <1>1, <1>2, <1>3 DEF Shows

\* There is only one such sequence.
LEMMA ShownOnce ==
  ASSUME NEW h, NEW g, NEW q, NEW B, Queued(q, B), Shows(h, q, B), Shows(g, q, B)
  PROVE  h = g
<1>1. ASSUME NEW k \in 1..Len(q) PROVE h[k] = g[k]
  <2>1. PICK n \in B : n.kind = "freed" /\ n.block = q[k]
    BY DEF Queued
  <2> QED BY <2>1 DEF Shows
<1>2. h = [k \in 1..Len(q) |-> h[k]] /\ g = [k \in 1..Len(q) |-> g[k]]
  BY DEF Shows
<1>3. [k \in 1..Len(q) |-> h[k]] = [k \in 1..Len(q) |-> g[k]]
  BY <1>1
<1> QED BY <1>2, <1>3

LEMMA ShownSame ==
  ASSUME NEW h, NEW q, NEW B, NEW C, Shows(h, q, B),
         \A n : n.kind = "freed" => (n \in B <=> n \in C)
  PROVE  Shows(h, q, C)
  BY DEF Shows

\* The one that was freed first leaves.
LEMMA ShownTail ==
  ASSUME NEW q, NEW B, Queued(q, B), q # <<>>, NEW h, Shows(h, q, B), NEW n
  PROVE  /\ h \in Seq({h[k] : k \in 1..Len(q)}) /\ h # <<>>
         /\ Shows(Tail(h), Tail(q), B \ {n})
<1> DEFINE V == {h[k] : k \in 1..Len(q)}
<1>1. q \in Seq(Size) /\ Len(q) \in Nat
  BY DEF Queued
<1>2. Len(q) > 0
  BY <1>1
<1>3. h = [k \in 1..Len(q) |-> h[k]]
  BY DEF Shows
<1>4. h \in Seq(V) /\ Len(h) = Len(q)
  <2>1. [k \in 1..Len(q) |-> h[k]] \in Seq(V)
    BY <1>1
  <2>2. Len([k \in 1..Len(q) |-> h[k]]) = Len(q)
    BY <1>1
  <2> QED BY <1>3, <2>1, <2>2
<1> HIDE DEF V
<1>5. h # <<>>
  BY <1>2, <1>4
<1>6. /\ Tail(h) \in Seq(V) /\ Len(Tail(h)) = Len(q) - 1
      /\ \A k \in 1..Len(q) - 1 : Tail(h)[k] = h[k + 1]
  BY <1>4, <1>5, HeadTailProperties
<1>7. /\ Tail(q) \in Seq(Size) /\ Len(Tail(q)) = Len(q) - 1
      /\ \A k \in 1..Len(q) - 1 : Tail(q)[k] = q[k + 1]
  BY <1>1, HeadTailProperties
<1>8. Tail(h) = [k \in 1..Len(Tail(q)) |-> Tail(h)[k]]
  <2>1. PICK x \in Seq(V) : x = Tail(h)
    BY <1>6
  <2>2. Len(x) = Len(Tail(q))
    BY <1>6, <1>7, <2>1
  <2>3. x = [k \in 1..Len(x) |-> x[k]]
    OBVIOUS
  <2> QED BY <2>1, <2>2, <2>3
<1>9. ASSUME NEW k \in 1..Len(Tail(q)), NEW m \in B \ {n}, m.kind = "freed",
             m.block = Tail(q)[k]
      PROVE  Tail(h)[k] = Pair(m)
  <2>1. k \in 1..Len(q) - 1 /\ k + 1 \in 1..Len(q)
    BY <1>1, <1>7
  <2>2. m.block = q[k + 1]
    BY <1>7, <1>9, <2>1
  <2>3. h[k + 1] = Pair(m)
    BY <1>9, <2>1, <2>2 DEF Shows
  <2> QED BY <1>6, <2>1, <2>3
<1> QED BY <1>1, <1>2, <1>4, <1>5, <1>7, <1>8, <1>9 DEF Shows, V

\* A live block joins them.
LEMMA ShownAppend ==
  ASSUME NEW q, NEW B, Queued(q, B), Distinct(B), NEW h, Shows(h, q, B),
         NEW n \in B, n.kind = "alloc", NEW e, e.block = n.block, e.size = n.size
  PROVE  /\ h \in Seq({h[k] : k \in 1..Len(q)})
         /\ Shows(Append(h, Pair(n)), Append(q, n.block), (B \ {n}) \cup {e})
<1> DEFINE V == {h[k] : k \in 1..Len(q)}
           W == V \cup {Pair(n)}
           T == Size \cup {n.block}
           g == Append(h, Pair(n))
           r == Append(q, n.block)
<1>1. q \in Seq(Size) /\ Len(q) \in Nat
  BY DEF Queued
<1>2. h = [k \in 1..Len(q) |-> h[k]]
  BY DEF Shows
<1>3. h \in Seq(V) /\ h \in Seq(W) /\ Len(h) = Len(q)
  <2>1. [k \in 1..Len(q) |-> h[k]] \in Seq(V)
    BY <1>1
  <2>2. [k \in 1..Len(q) |-> h[k]] \in Seq(W)
    BY <1>1
  <2>3. Len([k \in 1..Len(q) |-> h[k]]) = Len(q)
    BY <1>1
  <2> QED BY <1>2, <2>1, <2>2, <2>3
<1>4. /\ g \in Seq(W) /\ Len(g) = Len(q) + 1
      /\ \A k \in 1..Len(q) : g[k] = h[k]
      /\ g[Len(q) + 1] = Pair(n)
  <2>1. Pair(n) \in W
    OBVIOUS
  <2> HIDE DEF W
  <2> QED BY <1>3, <2>1, AppendProperties
<1>5. /\ Len(r) = Len(q) + 1 /\ \A k \in 1..Len(q) : r[k] = q[k]
      /\ r[Len(q) + 1] = n.block
  <2>1. n.block \in T /\ q \in Seq(T)
    BY <1>1
  <2> HIDE DEF T
  <2> QED BY <2>1, AppendProperties
<1> HIDE DEF g, r, W, V
<1>6. g = [k \in 1..Len(r) |-> g[k]]
  BY <1>4, <1>5
<1>7. ASSUME NEW k \in 1..Len(r), NEW m \in (B \ {n}) \cup {e}, m.kind = "freed",
             m.block = r[k]
      PROVE  g[k] = Pair(m)
  <2>1. CASE k = Len(q) + 1
    <3>1. m = e
      BY <1>5, <1>7, <2>1 DEF Distinct
    <3> QED BY <1>4, <2>1, <3>1 DEF Pair
  <2>2. CASE k # Len(q) + 1
    <3>1. k \in 1..Len(q) /\ m.block = q[k]
      BY <1>1, <1>5, <1>7, <2>2
    <3>2. PICK x \in B : x.kind = "freed" /\ x.block = q[k]
      BY <3>1 DEF Queued
    <3>3. m # e
      <4>1. SUFFICES ASSUME m = e PROVE FALSE
        OBVIOUS
      <4>2. x = n
        BY <3>1, <3>2, <4>1 DEF Distinct
      <4> QED BY <3>2, <4>2
    <3>4. h[k] = Pair(m)
      BY <1>7, <3>1, <3>3 DEF Shows
    <3> QED BY <1>4, <3>1, <3>4
  <2> QED BY <2>1, <2>2
<1>8. Shows(g, r, (B \ {n}) \cup {e})
  <2>1. Len(r) \in Nat
    BY <1>1, <1>5
  <2> QED BY <1>6, <1>7, <2>1 DEF Shows
<1> QED BY <1>3, <1>8 DEF g, r, V

\* A live block comes or goes.
LEMMA LiveMade ==
  ASSUME NEW B, NEW blk, blk.kind = "alloc"
  PROVE  LiveOf(B \cup {blk}) = LiveOf(B) \cup {Pair(blk)}
<1>1. {m \in B \cup {blk} : m.kind = "alloc"} = {m \in B : m.kind = "alloc"} \cup {blk}
  OBVIOUS
<1> QED BY <1>1 DEF LiveOf

LEMMA LiveGone ==
  ASSUME NEW B, Distinct(B), NEW n \in B, n.kind = "alloc"
  PROVE  LiveOf(B \ {n}) = LiveOf(B) \ {Pair(n)} /\ Pair(n) \in LiveOf(B)
<1>1. ASSUME NEW m \in B, Pair(m) = Pair(n) PROVE m = n
  <2>1. m.block = n.block
    BY <1>1 DEF Pair
  <2> QED BY <2>1 DEF Distinct
<1> QED BY <1>1 DEF LiveOf

LEMMA LiveSame ==
  ASSUME NEW B, NEW e, e.kind = "freed"
  PROVE  LiveOf(B \cup {e}) = LiveOf(B) /\ LiveOf(B \ {e}) = LiveOf(B)
<1>1. /\ {m \in B \cup {e} : m.kind = "alloc"} = {m \in B : m.kind = "alloc"}
      /\ {m \in B \ {e} : m.kind = "alloc"} = {m \in B : m.kind = "alloc"}
  OBVIOUS
<1> QED BY <1>1 DEF LiveOf

\* The bytes of a block and its overflow buffers are in its node.
LEMMA RoomInPages ==
  ASSUME NEW x \in Nat, NEW o \in Nat, NEW m \in Nat, x <= m + PAGE - 1,
         m + 2 * o + PAGE <= WORD, x <= RoundUp(x, PAGE) + o
  PROVE  x <= RoundUp(x, PAGE)
<1> DEFINE u == (-x) % PAGE
           y == x + u
           w == y % WORD
           q == y \div WORD
<1>1. PAGE \in Nat /\ PAGE > 0 /\ WORD \in Nat /\ WORD > 0
  BY WordFacts
<1>2. u \in 0..PAGE - 1
  BY <1>1, UpFacts
<1>3. RoundUp(x, PAGE) = w
  BY DEF RoundUp, Wrap
<1> HIDE DEF u
<1>4. y \in Nat /\ y >= x
  BY <1>1, <1>2
<1> HIDE DEF y
<1>5. w \in 0..WORD - 1 /\ q \in Int /\ y = (WORD * q) + w
  BY <1>1, <1>4, Quotient
<1> HIDE DEF w, q
<1>6. WORD * q \in Int /\ (q >= 1 => WORD * q >= WORD) /\ (q <= -1 => WORD * q <= -WORD)
      /\ (q = 0 => WORD * q = 0)
  BY <1>1, <1>5, Factor
<1>7. ~(q <= -1)
  BY <1>1, <1>4, <1>5, <1>6
<1>8. ~(q >= 1)
  <2>1. SUFFICES ASSUME q >= 1 PROVE FALSE
    OBVIOUS
  <2>2. WORD + w <= y
    BY <1>1, <1>4, <1>5, <1>6, <2>1
  <2>3. y <= x + PAGE - 1 /\ x <= w + o
    BY <1>1, <1>2, <1>3 DEF y
  <2> QED BY <1>1, <1>4, <1>5, <2>2, <2>3
<1>9. y = w
  BY <1>4, <1>5, <1>6, <1>7, <1>8
<1> QED BY <1>3, <1>4, <1>9

LEMMA BlockEdges ==
  ASSUME RequestsFit, NEW n, Sound(n), ~Free(n)
  PROVE  /\ n.block \in Nat /\ n.size \in Nat /\ Oflow \in Nat
         /\ Low(n) \in Nat /\ High(n) \in Nat
         /\ Low(n) + Oflow <= n.block
         /\ n.block + n.size + Oflow <= High(n)
<1> DEFINE b == n.block
           l == n.size
           O == Oflow
           B == Base(n)
           S == Span(n)
<1>1. /\ b \in Nat /\ l \in Nat /\ l \in Asked /\ Low(n) \in Nat /\ High(n) \in Nat
      /\ b + l <= High(n)
  <2>1. l \in Asked
    BY DEF Sound, Free
  <2> QED BY <2>1, SoundFacts
<1>2. O \in Nat /\ l + 2 * O + PAGE <= WORD
  BY <1>1, AskedFacts
<1>3. Low(n) = B - O /\ High(n) = B + S + O
  BY BlockBounds
<1>4. PAGE \in Nat /\ PAGE > 0 /\ WORD \in Nat
  BY WordFacts
<1>5. B \in Nat /\ S \in Nat /\ B <= b /\ b + l <= B + S
  <2>1. CASE PAGEALLOC
    <3>1. B \in 0..b /\ b < B + PAGE
      BY <1>1, <1>4, <2>1, RoundDownFacts DEF Base
    <3> DEFINE x == l + (b - B)
    <3>2. S = RoundUp(x, PAGE)
      BY <2>1 DEF Span
    <3>3. S \in Nat
      <4>1. RoundUp(x, PAGE) \in Size
        <5>1. x \in Int
          <6> HIDE DEF B
          <6> QED BY <1>1, <3>1
        <5> HIDE DEF x
        <5> QED BY <1>4, <5>1, RoundUpSize
      <4> QED BY <3>2, <4>1, WordFacts DEF Size
    <3> HIDE DEF B, S, O
    <3>4. x \in Nat /\ x <= l + PAGE - 1 /\ x <= S + O
      BY <1>1, <1>2, <1>3, <1>4, <3>1, <3>3
    <3>5. x <= S
      <4> HIDE DEF x
      <4> QED BY <1>1, <1>2, <3>2, <3>4, RoomInPages
    <3> QED BY <1>1, <3>1, <3>3, <3>5
  <2>2. CASE ~PAGEALLOC
    <3>1. B = b /\ S = l
      BY <2>2, BlockWithoutPages
    <3> QED BY <1>1, <3>1
  <2> QED BY <2>1, <2>2
<1> HIDE DEF b, l, O, B, S
<1>6. Low(n) + O <= b /\ b + l + O <= High(n)
  BY <1>1, <1>2, <1>3, <1>5
<1> QED BY <1>1, <1>2, <1>6 DEF b, l, O

LEMMA BlocksAreClear ==
  ASSUME RequestsFit, NEW L \in Seq(NodeType), Tiled(L),
         NEW n \in Blocks(NodesOf(L)), NEW m \in Blocks(NodesOf(L)), n # m
  PROVE  Store!Clear(Pair(n), Pair(m))
<1>1. /\ Sound(n) /\ ~Free(n) /\ Sound(m) /\ ~Free(m)
      /\ n \in NodesOf(L) /\ m \in NodesOf(L)
  BY TiledFacts DEF Blocks, NodesOf
<1>2. High(n) <= Low(m) \/ High(m) <= Low(n)
  BY <1>1, TiledApt DEF Apt
<1> DEFINE a == n.block
           b == m.block
           k == n.size
           l == m.size
           O == Oflow
           y == Low(n)
           z == High(n)
           v == Low(m)
           w == High(m)
<1>3. /\ a \in Nat /\ k \in Nat /\ O \in Nat /\ y \in Nat /\ z \in Nat
      /\ y + O <= a /\ a + k + O <= z
  BY <1>1, BlockEdges
<1>4. /\ b \in Nat /\ l \in Nat /\ v \in Nat /\ w \in Nat
      /\ v + O <= b /\ b + l + O <= w
  BY <1>1, BlockEdges
<1>5. z <= v \/ w <= y
  BY <1>2
<1> HIDE DEF a, b, k, l, O, y, z, v, w
<1>6. a + k + 2 * O <= b \/ b + l + 2 * O <= a
  BY <1>3, <1>4, <1>5
<1>7. Pair(n).block = a /\ Pair(n).size = k /\ Pair(m).block = b /\ Pair(m).size = l
  BY DEF Pair, a, b, k, l
<1> QED BY <1>6, <1>7 DEF Store!Clear, O

\* The blocks that are taken are among the nodes.
LEMMA TakenAreBlocks ==
  ASSUME HeapInv, NEW x \in Store!Taken
  PROVE  \E m \in Blocks(NodesOf(list)) : x = Pair(m)
<1> DEFINE B == Blocks(NodesOf(list))
<1>1. list \in Seq(NodeType) /\ Tiled(list) /\ Queued(flist, B)
  BY DEF HeapInv, HeapOrder, InOrder
<1>2. x \in Live \/ x \in {HeldBack[k] : k \in 1..Len(HeldBack)}
  BY DEF Store!Taken, Live, HeldBack
<1>3. CASE x \in Live
  BY <1>3, Mapped DEF LiveOf
<1>4. CASE x \in {HeldBack[k] : k \in 1..Len(HeldBack)}
  <2>1. Shows(HeldBack, flist, B)
    BY <1>1, Mapped, HeldShows
  <2>2. Len(HeldBack) = Len(flist)
    <3>1. Len(flist) \in Nat /\ HeldBack = [k \in 1..Len(flist) |-> HeldBack[k]]
      BY <2>1 DEF Shows
    <3> HIDE DEF HeldBack
    <3>2. Len([k \in 1..Len(flist) |-> HeldBack[k]]) = Len(flist)
      BY <3>1
    <3> QED BY <3>1, <3>2
  <2>3. PICK k \in 1..Len(flist) : x = HeldBack[k]
    BY <1>4, <2>2
  <2>4. PICK n \in B : n.kind = "freed" /\ n.block = flist[k]
    BY <1>1 DEF Queued
  <2>5. HeldBack[k] = Pair(n)
    BY <2>1, <2>4 DEF Shows
  <2> QED BY <2>3, <2>5
<1> QED BY <1>2, <1>3, <1>4

\* What the steps of the abstract specification are made of.
LEMMA StoreSame ==
  ASSUME Live' = Live, HeldBack' = HeldBack, fmax' = fmax
  PROVE  UNCHANGED Store!vars
  BY DEF Store!vars, Live, HeldBack

LEMMA StoreAllocates ==
  ASSUME NEW b \in Bytes, NEW l \in SIZES, NEW a \in ALIGNS,
         b % Alignment(a) = 0,
         \A x \in Store!Taken :
            Store!Clear([block |-> b, size |-> AtLeastOne(l)], x),
         Live' = Live \cup {[block |-> b, size |-> AtLeastOne(l)]},
         HeldBack' = HeldBack, fmax' = fmax
  PROVE  Store!Next
<1>1. Store!Allocate(AtLeastOne(l), Alignment(a))
  BY DEF Store!Allocate, Live, HeldBack
<1> DEFINE r == <<AtLeastOne(l), Alignment(a)>>
<1>2. Store!Allocate(r[1], r[2])
  BY <1>1
<1>3. r \in {<<AtLeastOne(k), Alignment(c)>> : k \in SIZES, c \in ALIGNS}
  OBVIOUS
<1> HIDE DEF r
<1> QED BY <1>2, <1>3 DEF Store!Next

LEMMA StoreResizes ==
  ASSUME NEW x \in Live, NEW l \in SIZES, NEW e, ALIGNS # {},
         e = [x EXCEPT !.size = AtLeastOne(l)],
         \A y \in Store!Taken \ {x} : Store!Clear(e, y),
         Live' = (Live \ {x}) \cup {e}, HeldBack' = HeldBack, fmax' = fmax
  PROVE  Store!Next
<1>1. Store!Resize(x, AtLeastOne(l))
  BY DEF Store!Resize, Live, HeldBack
<1>2. PICK a \in ALIGNS : TRUE
  OBVIOUS
<1> DEFINE r == <<AtLeastOne(l), Alignment(a)>>
<1>3. Store!Resize(x, r[1])
  BY <1>1
<1>4. r \in {<<AtLeastOne(k), Alignment(c)>> : k \in SIZES, c \in ALIGNS}
  OBVIOUS
<1> HIDE DEF r
<1> QED BY <1>3, <1>4 DEF Store!Next, Live

LEMMA StoreDrops ==
  ASSUME NEW x \in Live, fmax = 0, Live' = Live \ {x}, HeldBack' = HeldBack,
         fmax' = fmax
  PROVE  Store!Next
<1>1. Store!Drop(x)
  BY DEF Store!Drop, Live, HeldBack
<1> QED BY <1>1 DEF Store!Next, Live

LEMMA StoreKeeps ==
  ASSUME NEW x \in Live, fmax > 0, Live' = Live \ {x},
         HeldBack' = Append(IF Len(HeldBack) = fmax THEN Tail(HeldBack)
                            ELSE HeldBack, x),
         fmax' = fmax
  PROVE  Store!Next
<1>1. Store!Keep(x)
  BY DEF Store!Keep, Live, HeldBack
<1> QED BY <1>1 DEF Store!Next, Live

LEMMA StoreLetsGo ==
  ASSUME HeldBack # <<>>, Live' = Live, HeldBack' = Tail(HeldBack), fmax' = fmax
  PROVE  Store!Next
<1>1. Store!LetGo
  BY DEF Store!LetGo, Live, HeldBack
<1> QED BY <1>1 DEF Store!Next

LEMMA StoreSetsLimit ==
  ASSUME NEW v \in LIMITS, Len(HeldBack) <= v, fmax' = v, Live' = Live,
         HeldBack' = HeldBack
  PROVE  Store!Next
<1>1. Store!SetLimit(v)
  BY DEF Store!SetLimit, Live, HeldBack
<1> QED BY <1>1 DEF Store!Next

LEMMA StoreStarts == Init => Store!Init
<1> SUFFICES ASSUME Init PROVE Store!Init
  OBVIOUS
<1>1. list = <<>> /\ flist = <<>> /\ fmax \in LIMITS
  BY DEF Init
<1>2. Live = {}
  BY <1>1 DEF Live, Nodes
<1>3. HeldBack = <<>>
  BY <1>1 DEF HeldBack
<1> QED BY <1>1, <1>2, <1>3 DEF Store!Init, Live, HeldBack

\* What the invariant says of the blocks, before a step and after it.
Stored(L, q, h, H) ==
    /\ L \in Seq(NodeType) /\ Tiled(L) /\ Distinct(Blocks(NodesOf(L)))
    /\ Queued(q, Blocks(NodesOf(L))) /\ Shows(h, q, Blocks(NodesOf(L)))
    /\ MemoryOf(NodesOf(L)) = HeapBytes(H) /\ H \subseteq HEAPPAGES

LEMMA StoredIs ==
  ASSUME NEW L, NEW q, NEW H, NEW a, NEW g, NEW f, InOrder(L, a, g, f, HeapBytes(H)),
         Queued(q, Blocks(NodesOf(L))), H \subseteq HEAPPAGES
  PROVE  Stored(L, q, HeldOf(L, q), H)
<1>1. L \in Seq(NodeType) /\ Tiled(L) /\ MemoryOf(NodesOf(L)) = HeapBytes(H)
  BY DEF InOrder
<1>2. Distinct(Blocks(NodesOf(L)))
  BY <1>1, BlocksDistinct
<1>3. Shows(HeldOf(L, q), q, Blocks(NodesOf(L)))
  BY <1>1, HeldShows
<1> QED BY <1>1, <1>2, <1>3 DEF Stored

LEMMA NowStored == HeapInv => Stored(list, flist, HeldBack, heap)
<1> SUFFICES ASSUME HeapInv PROVE Stored(list, flist, HeldBack, heap)
  OBVIOUS
<1>1. /\ InOrder(list, asize, gsize, fsize, HeapBytes(heap))
      /\ Queued(flist, Blocks(NodesOf(list))) /\ heap \subseteq HEAPPAGES
  BY DEF HeapInv, HeapOrder, IInv, Others
<1>2. Stored(list, flist, HeldOf(list, flist), heap)
  BY <1>1, StoredIs
<1> QED BY <1>2, Mapped

LEMMA ThenStored == HeapInv' => Stored(list', flist', HeldBack', heap')
<1> SUFFICES ASSUME HeapInv' PROVE Stored(list', flist', HeldBack', heap')
  OBVIOUS
<1>1. /\ InOrder(list', asize', gsize', fsize', HeapBytes(heap'))
      /\ Queued(flist', Blocks(NodesOf(list'))) /\ heap' \subseteq HEAPPAGES
  BY DEF HeapInv, HeapOrder, IInv, Others
<1>2. Stored(list', flist', HeldOf(list', flist'), heap')
  BY <1>1, StoredIs
<1> QED BY <1>2, Mapped

\* The blocks held back stay the same if the freed blocks do.
LEMMA HeldStays ==
  ASSUME NEW L, NEW N, NEW q, NEW h, NEW g, NEW H, NEW J,
         Stored(L, q, h, H), Stored(N, q, g, J),
         \A n : n.kind = "freed"
            => (n \in Blocks(NodesOf(L)) <=> n \in Blocks(NodesOf(N)))
  PROVE  g = h
<1> DEFINE B == Blocks(NodesOf(L))
           C == Blocks(NodesOf(N))
<1>1. Shows(h, q, B) /\ Shows(g, q, C) /\ Queued(q, C)
  BY DEF Stored
<1> HIDE DEF B, C
<1>2. \A n : n.kind = "freed" => (n \in B <=> n \in C)
  BY DEF B, C
<1>3. Shows(h, q, C)
  BY <1>1, <1>2, ShownSame
<1> QED BY <1>1, <1>3, ShownOnce

LEMMA BlockInBytes ==
  ASSUME NEW L, NEW q, NEW h, NEW H, Stored(L, q, h, H), NEW n \in Blocks(NodesOf(L))
  PROVE  n.block \in Bytes
<1>1. n \in NodesOf(L) /\ L \in Seq(NodeType) /\ Tiled(L)
      /\ MemoryOf(NodesOf(L)) = HeapBytes(H) /\ H \subseteq HEAPPAGES
  BY DEF Stored, Blocks
<1>2. Sound(n)
  BY <1>1, TiledFacts DEF NodesOf
<1>3. n.block \in Memory(n)
  <2>1. Memory(n) = Low(n) .. High(n) - 1
    BY <1>2, MemoryIs
  <2>2. /\ n.block \in Nat /\ n.size \in Nat /\ n.size > 0
        /\ Low(n) \in Nat /\ High(n) \in Nat
        /\ Low(n) <= n.block /\ n.block + n.size <= High(n)
    BY <1>2, SoundFacts
  <2> QED BY <2>1, <2>2
<1>4. n.block \in HeapBytes(H)
  BY <1>1, <1>3 DEF MemoryOf
<1>5. PICK p \in H : n.block \in Run(p, PAGE)
  BY <1>4 DEF HeapBytes
<1> QED BY <1>1, <1>5 DEF Bytes, Run

\* A block that is new or has changed is clear of the others.
LEMMA ClearOfTaken ==
  ASSUME RequestsFit, HeapInv, HeapInv', NEW e \in Blocks(NodesOf(list')),
         NEW x \in Store!Taken,
         \A m \in Blocks(NodesOf(list)) :
            x = Pair(m) => m \in Blocks(NodesOf(list')) /\ m # e
  PROVE  Store!Clear(Pair(e), x)
<1>1. PICK m \in Blocks(NodesOf(list)) : x = Pair(m)
  BY TakenAreBlocks
<1>2. m \in Blocks(NodesOf(list')) /\ m # e
  BY <1>1
<1>3. list' \in Seq(NodeType) /\ Tiled(list')
  BY ThenStored DEF Stored
<1> QED BY <1>1, <1>2, <1>3, BlocksAreClear

\* A request puts a block into the store, or leaves it as it is.
LEMMA GetallocStores ==
  ASSUME RequestsFit, PAGEALLOC => \A c \in ALIGNS : PAGE % Alignment(c) = 0,
         HeapInv, HeapInv', NEW l \in SIZES, NEW a \in ALIGNS,
         Gained(Blocks(NodesOf(list)), Blocks(NodesOf(list')),
                AtLeastOne(l), Alignment(a)),
         flist' = flist, fmax' = fmax
  PROVE  [Store!Next]_(Store!vars)
<1> DEFINE B == Blocks(NodesOf(list))
           C == Blocks(NodesOf(list'))
<1>1. Stored(list, flist, HeldBack, heap) /\ Stored(list', flist, HeldBack', heap')
  BY NowStored, ThenStored
<1>2. Live = LiveOf(B) /\ Live' = LiveOf(C)
  BY Mapped
<1>3. CASE C = B
  <2>1. \A n : n.kind = "freed" => (n \in B <=> n \in C)
    BY <1>3
  <2>2. HeldBack' = HeldBack
    BY <1>1, <2>1, HeldStays
  <2>3. Live' = Live
    BY <1>2, <1>3
  <2> QED BY <2>2, <2>3, StoreSame
<1>4. ASSUME NEW blk, Made(B, C, blk, AtLeastOne(l), Alignment(a))
      PROVE  Store!Next
  <2>1. /\ C = B \cup {blk} /\ blk \notin B /\ blk.kind = "alloc"
        /\ blk.size = AtLeastOne(l) /\ blk.block % Alignment(a) = 0
    BY <1>4 DEF Made, Aligned
  <2>2. blk \in C /\ \A n : n.kind = "freed" => (n \in B <=> n \in C)
    <3> HIDE DEF B, C
    <3> QED BY <2>1
  <2>3. HeldBack' = HeldBack
    BY <1>1, <2>2, HeldStays
  <2>4. Pair(blk) = [block |-> blk.block, size |-> AtLeastOne(l)]
    BY <2>1 DEF Pair
  <2>5. Live' = Live \cup {[block |-> blk.block, size |-> AtLeastOne(l)]}
    <3> HIDE DEF B, C
    <3>1. LiveOf(B \cup {blk}) = LiveOf(B) \cup {Pair(blk)}
      BY <2>1, LiveMade
    <3> QED BY <1>2, <2>1, <2>4, <3>1
  <2>6. blk.block \in Bytes
    BY <1>1, <2>2, BlockInBytes
  <2>7. ASSUME NEW x \in Store!Taken
        PROVE  Store!Clear([block |-> blk.block, size |-> AtLeastOne(l)], x)
    <3>1. \A m \in B : x = Pair(m) => m \in C /\ m # blk
      <4> HIDE DEF B, C
      <4> QED BY <2>1
    <3>2. Store!Clear(Pair(blk), x)
      BY <2>2, <3>1, ClearOfTaken
    <3> QED BY <2>4, <3>2
  <2> QED BY <2>1, <2>3, <2>5, <2>6, <2>7, StoreAllocates
<1> QED BY <1>3, <1>4 DEF Gained

\* A resize changes one block of the store.
LEMMA ResizeStores ==
  ASSUME RequestsFit, ALIGNS # {}, HeapInv, HeapInv', NEW i \in 1..Len(list),
         list[i].kind = "alloc", NEW l \in SIZES,
         Became(list[i], [list[i] EXCEPT !.size = AtLeastOne(l)]),
         flist' = flist, fmax' = fmax
  PROVE  Store!Next
<1> DEFINE B == Blocks(NodesOf(list))
           C == Blocks(NodesOf(list'))
           n == list[i]
           e == [list[i] EXCEPT !.size = AtLeastOne(l)]
<1>1. /\ Stored(list, flist, HeldBack, heap)
      /\ Stored(list', flist, HeldBack', heap')
  BY NowStored, ThenStored
<1>2. Live = LiveOf(B) /\ Live' = LiveOf(C)
  BY Mapped
<1>3. n \in B /\ n.kind = "alloc" /\ n \in NodeType /\ Distinct(B)
  <2>1. n \in B
    BY BlockOfList
  <2>2. Distinct(B) /\ list \in Seq(NodeType)
    BY <1>1 DEF Stored
  <2> QED BY <2>1, <2>2
<1>4. e.kind = "alloc" /\ e.block = n.block /\ e.size = AtLeastOne(l)
  BY <1>3 DEF NodeType
<1>5. C = (B \ {n}) \cup {e}
  BY DEF Became
<1>6. Pair(e) = [Pair(n) EXCEPT !.size = AtLeastOne(l)]
  BY <1>4 DEF Pair
<1> HIDE DEF B, C, n, e
<1>7. e \in C /\ \A m : m.kind = "freed" => (m \in B <=> m \in C)
  BY <1>3, <1>4, <1>5
<1>8. HeldBack' = HeldBack
  BY <1>1, <1>7, HeldStays DEF B, C
<1>9. LiveOf(B \ {n}) = LiveOf(B) \ {Pair(n)} /\ Pair(n) \in LiveOf(B)
  BY <1>3, LiveGone
<1>10. LiveOf((B \ {n}) \cup {e}) = LiveOf(B \ {n}) \cup {Pair(e)}
  <2> DEFINE D == B \ {n}
  <2> HIDE DEF D
  <2>1. LiveOf(D \cup {e}) = LiveOf(D) \cup {Pair(e)}
    BY <1>4, LiveMade
  <2> QED BY <2>1 DEF D
<1>11. Pair(n) \in Live /\ Live' = (Live \ {Pair(n)}) \cup {Pair(e)}
  BY <1>2, <1>5, <1>9, <1>10
<1>12. ASSUME NEW x \in Store!Taken \ {Pair(n)}
       PROVE  Store!Clear(Pair(e), x)
  <2>1. ASSUME NEW m \in B, x = Pair(m) PROVE m \in C /\ m # e
    <3>1. m # n
      BY <1>12, <2>1
    <3>2. m.block # n.block
      BY <1>3, <3>1 DEF Distinct
    <3> QED BY <1>4, <1>5, <3>1, <3>2
  <2>2. \A m \in Blocks(NodesOf(list)) :
            x = Pair(m) => m \in Blocks(NodesOf(list')) /\ m # e
    BY <2>1 DEF B, C
  <2>3. x \in Store!Taken /\ e \in Blocks(NodesOf(list'))
    BY <1>7 DEF C
  <2> QED BY <2>2, <2>3, ClearOfTaken
<1> DEFINE y == Pair(n)
           z == Pair(e)
<1>13. /\ y \in Live /\ z = [y EXCEPT !.size = AtLeastOne(l)]
       /\ Live' = (Live \ {y}) \cup {z}
       /\ \A x \in Store!Taken \ {y} : Store!Clear(z, x)
  BY <1>6, <1>11, <1>12
<1> HIDE DEF y, z
<1> QED BY <1>8, <1>13, StoreResizes

\* A block that is freed for good leaves the store.
LEMMA DropStores ==
  ASSUME HeapInv, HeapInv', NEW i \in 1..Len(list), list[i].kind = "alloc",
         Gone(list[i]), fmax = 0, flist' = flist, fmax' = fmax
  PROVE  Store!Next
<1> DEFINE B == Blocks(NodesOf(list))
           C == Blocks(NodesOf(list'))
           n == list[i]
<1>1. /\ Stored(list, flist, HeldBack, heap)
      /\ Stored(list', flist, HeldBack', heap')
  BY NowStored, ThenStored
<1>2. Live = LiveOf(B) /\ Live' = LiveOf(C)
  BY Mapped
<1>3. n \in B /\ n.kind = "alloc" /\ Distinct(B) /\ C = B \ {n}
  BY <1>1, BlockOfList DEF Stored, Gone
<1> HIDE DEF B, C, n
<1>4. \A m : m.kind = "freed" => (m \in B <=> m \in C)
  BY <1>3
<1>5. HeldBack' = HeldBack
  BY <1>1, <1>4, HeldStays DEF B, C
<1>6. LiveOf(B \ {n}) = LiveOf(B) \ {Pair(n)} /\ Pair(n) \in LiveOf(B)
  BY <1>3, LiveGone
<1>7. Pair(n) \in Live /\ Live' = Live \ {Pair(n)}
  BY <1>2, <1>3, <1>6
<1> QED BY <1>5, <1>7, StoreDrops

LEMMA HeldLength ==
  ASSUME NEW h, NEW q, NEW B, Shows(h, q, B)
  PROVE  Len(h) = Len(q) /\ Len(q) \in Nat
<1>1. Len(q) \in Nat /\ h = [k \in 1..Len(q) |-> h[k]]
  BY DEF Shows
<1>2. Len([k \in 1..Len(q) |-> h[k]]) = Len(q)
  BY <1>1
<1> QED BY <1>1, <1>2

\* The oldest of the blocks held back leaves the store.
LEMMA RecycleStores ==
  ASSUME HeapInv, HeapInv', NEW n, n.kind = "freed", Gone(n),
         flist # <<>>, flist' = Tail(flist), fmax' = fmax
  PROVE  Store!Next
<1> DEFINE B == Blocks(NodesOf(list))
           C == Blocks(NodesOf(list'))
<1>1. /\ Stored(list, flist, HeldBack, heap)
      /\ Stored(list', Tail(flist), HeldBack', heap')
  BY NowStored, ThenStored
<1>2. Live = LiveOf(B) /\ Live' = LiveOf(C)
  BY Mapped
<1>3. C = B \ {n}
  BY DEF Gone
<1>4. Queued(flist, B) /\ Shows(HeldBack, flist, B)
  BY <1>1 DEF Stored
<1>5. Queued(Tail(flist), C) /\ Shows(HeldBack', Tail(flist), C)
  BY <1>1 DEF Stored
<1> HIDE DEF B, C
<1>6. HeldBack # <<>> /\ Shows(Tail(HeldBack), Tail(flist), C)
  BY <1>3, <1>4, ShownTail
<1>7. HeldBack' = Tail(HeldBack)
  BY <1>5, <1>6, ShownOnce
<1>8. Live' = Live
  BY <1>2, <1>3, LiveSame
<1> QED BY <1>6, <1>7, <1>8, StoreLetsGo

\* A block that is freed is held back, and the oldest one leaves if there are as
\* many as allowed.
LEMMA KeepStores ==
  ASSUME HeapInv, HeapInv', NEW n, n.kind = "alloc", NEW D, Retained(n, D),
         fmax # 0, fmax' = fmax
  PROVE  Store!Next
<1> DEFINE B == Blocks(NodesOf(list))
           C == Blocks(NodesOf(list'))
           full == flist # <<>> /\ Len(flist) = fmax
           q == IF full THEN Tail(flist) ELSE flist
           g == IF Len(HeldBack) = fmax THEN Tail(HeldBack) ELSE HeldBack
           e == AsFreed(n)
<1>1. /\ Stored(list, flist, HeldBack, heap)
      /\ Stored(list', flist', HeldBack', heap')
  BY NowStored, ThenStored
<1>2. Live = LiveOf(B) /\ Live' = LiveOf(C)
  BY Mapped
<1>3. /\ MakesRoom(full, B, D) /\ n \in D /\ Queued(q, D)
      /\ flist' = Append(q, n.block) /\ C = (D \ {n}) \cup {e}
  BY DEF Retained
<1>4. /\ Queued(flist, B) /\ Shows(HeldBack, flist, B) /\ Distinct(B)
      /\ list \in Seq(NodeType) /\ Tiled(list)
      /\ Queued(flist', C) /\ Shows(HeldBack', flist', C)
  BY <1>1 DEF Stored
<1>5. fmax \in Nat /\ fmax > 0
  BY BoundsAssumption DEF HeapInv, IInv, Others
<1>6. Len(HeldBack) = Len(flist) /\ Len(flist) \in Nat /\ flist \in Seq(Size)
  BY <1>4, HeldLength DEF Queued
<1>7. full <=> Len(HeldBack) = fmax
  <2>1. flist = <<>> => Len(flist) = 0
    BY <1>6
  <2> QED BY <1>5, <1>6, <2>1
<1>8. Shows(g, q, D) /\ D \subseteq B /\ LiveOf(D) = LiveOf(B)
  <2>1. CASE full
    <3>1. PICK m : m.kind = "freed" /\ D = B \ {m}
      BY <1>3, <2>1 DEF MakesRoom
    <3>2. g = Tail(HeldBack) /\ q = Tail(flist) /\ flist # <<>>
      BY <1>7, <2>1
    <3> HIDE DEF B, C, full, g, q
    <3>3. Shows(Tail(HeldBack), Tail(flist), D)
      BY <1>4, <3>1, <3>2, ShownTail
    <3>4. LiveOf(D) = LiveOf(B)
      BY <3>1, LiveSame
    <3> QED BY <3>1, <3>2, <3>3, <3>4
  <2>2. CASE ~full
    <3>1. D = B /\ q = flist
      BY <1>3, <2>2 DEF MakesRoom
    <3>2. g = HeldBack
      BY <1>7, <2>2
    <3> QED BY <1>4, <3>1, <3>2
  <2> QED BY <2>1, <2>2
<1>9. n \in B /\ Sound(n)
  <2>1. n \in B
    BY <1>3, <1>8
  <2>2. n \in NodesOf(list)
    BY <2>1 DEF Blocks
  <2> QED BY <1>4, <2>1, <2>2, TiledFacts DEF NodesOf
<1>10. e.kind = "freed" /\ e.block = n.block /\ e.size = n.size
  BY <1>9, FreedNode
<1>11. Distinct(D)
  BY <1>4, <1>8 DEF Distinct
<1> DEFINE G == Append(g, Pair(n))
<1> HIDE DEF B, C, full, g, q, e, G
<1>12. Shows(G, flist', C)
  BY <1>3, <1>8, <1>10, <1>11, ShownAppend DEF G
<1>13. HeldBack' = G
  BY <1>4, <1>12, ShownOnce
<1>14. LiveOf(D \ {n}) = LiveOf(D) \ {Pair(n)} /\ Pair(n) \in LiveOf(D)
  BY <1>3, <1>11, LiveGone
<1>15. LiveOf((D \ {n}) \cup {e}) = LiveOf(D \ {n})
  <2> DEFINE E == D \ {n}
  <2> HIDE DEF E
  <2>1. LiveOf(E \cup {e}) = LiveOf(E)
    BY <1>10, LiveSame
  <2> QED BY <2>1 DEF E
<1>16. Pair(n) \in Live /\ Live' = Live \ {Pair(n)}
  BY <1>2, <1>3, <1>8, <1>14, <1>15
<1>17. HeldBack' = Append(IF Len(HeldBack) = fmax THEN Tail(HeldBack)
                          ELSE HeldBack, Pair(n))
  BY <1>13 DEF G, g
<1> QED BY <1>5, <1>16, <1>17, StoreKeeps

\* Pages are aligned as requests may ask for it, and there are requests.
PagesAlign ==
    /\ ALIGNS # {}
    /\ PAGEALLOC => \A a \in ALIGNS : PAGE % Alignment(a) = 0

\* The blocks are not touched.
LEMMA QuietStores ==
  ASSUME list' = list, flist' = flist
  PROVE  Live' = Live /\ HeldBack' = HeldBack
  BY Mapped

LEMMA NextStores ==
  ASSUME RequestsFit, PagesAlign, HeapInv, HeapInv', [Next]_vars
  PROVE  [Store!Next]_(Store!vars)
<1>1. CASE UNCHANGED vars
  <2>1. list' = list /\ flist' = flist /\ fmax' = fmax
    BY <1>1 DEF vars
  <2> QED BY <2>1, QuietStores, StoreSame
<1>2. ASSUME NEW l \in SIZES, NEW a \in ALIGNS, Getalloc(l, a)
      PROVE  [Store!Next]_(Store!vars)
  <2>1. CASE GetallocReuse(l, a) \/ GetallocFresh(l, a)
    <3>1. flist' = flist /\ fmax' = fmax
      BY <2>1 DEF GetallocReuse, GetallocFresh
    <3>2. Gained(Blocks(NodesOf(list)), Blocks(NodesOf(list')),
                 AtLeastOne(l), Alignment(a))
      BY <2>1, GetallocReuseOrder, GetallocFreshOrder
    <3>3. PAGEALLOC => \A c \in ALIGNS : PAGE % Alignment(c) = 0
      BY DEF PagesAlign
    <3> QED BY <3>1, <3>2, <3>3, GetallocStores
  <2>2. CASE GetallocRefused(l, a)
    <3>1. list' = list /\ flist' = flist /\ fmax' = fmax
      BY <2>2 DEF GetallocRefused
    <3> QED BY <3>1, QuietStores, StoreSame
  <2> QED BY <1>2, <2>1, <2>2 DEF Getalloc
<1>3. ASSUME NEW i \in 1..Len(list), NEW l \in SIZES, Resizealloc(i, l)
      PROVE  [Store!Next]_(Store!vars)
  <2>1. list[i].kind = "alloc" /\ flist' = flist /\ fmax' = fmax
    BY <1>3 DEF Resizealloc
  <2>2. Became(list[i], [list[i] EXCEPT !.size = AtLeastOne(l)])
    BY <1>3, ResizeallocOrder
  <2> QED BY <2>1, <2>2, ResizeStores DEF PagesAlign
<1>4. ASSUME NEW i \in 1..Len(list), Freealloc(i)
      PROVE  [Store!Next]_(Store!vars)
  <2>1. CASE FreeallocDrop(i)
    <3>1. /\ list[i].kind = "alloc" /\ fmax = 0 /\ flist' = flist
          /\ fmax' = fmax
      BY <2>1 DEF FreeallocDrop
    <3>2. Gone(list[i])
      BY <2>1, FreeallocDropOrder
    <3> QED BY <3>1, <3>2, DropStores
  <2>2. CASE FreeallocKeep(i)
    <3>1. list[i].kind = "alloc" /\ fmax # 0 /\ fmax' = fmax
      BY <2>2 DEF FreeallocKeep
    <3>2. PICK D : Retained(list[i], D)
      BY <2>2, FreeallocKeepOrder
    <3> QED BY <3>1, <3>2, KeepStores
  <2> QED BY <1>4, <2>1, <2>2 DEF Freealloc
<1>5. ASSUME NEW v \in LIMITS, OptNofree(v)
      PROVE  [Store!Next]_(Store!vars)
  <2>1. list' = list /\ flist' = flist /\ fmax' = fmax
    BY <1>5 DEF OptNofree
  <2> QED BY <2>1, QuietStores, StoreSame
<1>6. CASE OptNofreeRecycle
  <2>1. flist' = Tail(flist) /\ fmax' = fmax /\ trim # NoTrim /\ Len(flist) > trim
    BY <1>6 DEF OptNofreeRecycle
  <2>2. flist # <<>>
    <3>1. trim \in Nat
      BY <2>1, BoundsAssumption DEF HeapInv, IInv, Others
    <3> QED BY <2>1, <3>1
  <2>3. PICK n : n.kind = "freed" /\ Gone(n)
    BY <1>6, OptNofreeRecycleOrder
  <2> QED BY <2>1, <2>2, <2>3, RecycleStores
<1>7. CASE OptNofreeDone
  <2>1. /\ list' = list /\ flist' = flist /\ fmax' = trim
        /\ trim # NoTrim /\ Len(flist) <= trim
    BY <1>7 DEF OptNofreeDone
  <2>2. trim \in LIMITS
    BY <2>1 DEF HeapInv, IInv, Others
  <2>3. Len(HeldBack) = Len(flist)
    <3>1. Shows(HeldBack, flist, Blocks(NodesOf(list)))
      BY NowStored DEF Stored
    <3> QED BY <3>1, HeldLength
  <2>4. Live' = Live /\ HeldBack' = HeldBack
    BY <2>1, QuietStores
  <2>5. Len(HeldBack) <= trim
    BY <2>1, <2>3
  <2> QED BY <2>1, <2>2, <2>4, <2>5, StoreSetsLimit
<1> QED BY <1>1, <1>2, <1>3, <1>4, <1>5, <1>6, <1>7 DEF Next

-----------------------------------------------------------------------------
(***************************************************************************)
(* Theorems                                                                *)
(***************************************************************************)
\* As long as the sizes that a program asks for fit, whatever it does in
\* whichever order, the list describes the memory obtained from the system byte
\* by byte without a gap or an overlap, two free nodes never border on each
\* other, the totals are the sums over the nodes, the freed queue has the freed
\* blocks and no more of them than allowed, and a search finds the block or the
\* node that an address is in: splitnode(), mergenode() and the operations of
\* src/alloc.c keep between them what each of them relies on.
THEOREM HeapStaysInOrder == ASSUME RequestsFit PROVE Spec => []HeapInOrder
<1>1. HeapInv => HeapInOrder
  BY InvIsTiled, InvHasNoBordering, InvCounts, InvQueues, InvFinds
     DEF HeapInOrder
<1> QED BY <1>1, HeapInductive, PTL

\* As long as requests fit and pages are aligned, what the program sees of the
\* manager is a behaviour of the store in BlockStore.tla: a block that is handed
\* out is aligned and at least two overflow buffers away from each block that is
\* live or held back, it stays where it is until the program frees it, and freed
\* blocks are let go in the order of freeing: __mp_getalloc(),
\* __mp_resizealloc(), __mp_freealloc() and __mp_recyclefreed().
THEOREM HeapIsBlockStore ==
  ASSUME RequestsFit, PagesAlign PROVE Spec => ImplementsBlockStore
<1>1. Init => Store!Init
  BY StoreStarts
<1>2. HeapInv /\ HeapInv' /\ [Next]_vars => [Store!Next]_(Store!vars)
  BY NextStores
<1>3. Spec => []HeapInv
  BY HeapInductive
<1> QED BY <1>1, <1>2, <1>3, PTL DEF Spec, ImplementsBlockStore, Store!Spec

\* What the code does not promise when sizes do not fit (src/alloc.c:341-342,
\* 350) it does when they do: the memory of every block of the program, with its
\* overflow buffers, has been obtained from the system.
THEOREM BlocksStayInHeap == ASSUME RequestsFit PROVE Spec => []BlocksInHeap
<1>1. HeapInv => BlocksInHeap
  <2>1. HeapIsTiled =>
          UNION {Memory(list[i]) : i \in 1..Len(list)}
              = UNION {Run(p, PAGE) : p \in heap}
    BY DEF HeapIsTiled
  <2> QED BY <2>1, InvIsTiled DEF BlocksInHeap, Nodes
<1> QED BY <1>1, HeapInductive, PTL
=============================================================================
