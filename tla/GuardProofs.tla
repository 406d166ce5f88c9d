----------------------------- MODULE GuardProofs -----------------------------
(***************************************************************************)
(* That the allocation manager (Alloc.tla) keeps its guards in place: what *)
(* is filled, watched and protected in and around the blocks.  Bytes and   *)
(* pages are looked at one by one: a byte belongs to a block or to none,   *)
(* however the free nodes are cut and merged.                              *)
(***************************************************************************)
EXTENDS HeapProofs

-----------------------------------------------------------------------------
(***************************************************************************)
(* What the guards are                                                     *)
(***************************************************************************)
\* The bytes around block n that are filled or watched lie from From(n) to the
\* block and from the end of the block to To(n).
From(n) == IF PAGEALLOC THEN Base(n) ELSE n.block - Oflow
To(n) ==
    IF PAGEALLOC THEN Base(n) + Span(n) ELSE n.block + n.size + Oflow

Around(n, x) ==
    \/ From(n) <= x /\ x < n.block
    \/ n.block + n.size <= x /\ x < To(n)

\* A freed block is filled unless it is preserved or has pages of its own.
Emptied(n, m) ==
    n.kind = "freed" /\ ~PRESERVE /\ ~PAGEALLOC =>
        \A x \in Bytes : n.block <= x /\ x < n.block + n.size => m[x] = "free"

\* So is what surrounds a block, unless it is watched or cannot be reached.
Fenced(n, m) ==
    ~OFLOWWATCH /\ (n.kind = "alloc" \/ ~PAGEALLOC) =>
        \A x \in Bytes : Around(n, x) => m[x] = "over"

\* The pages of a block with pages of its own are protected by its kind.
Shield(n) ==
    IF n.kind = "alloc" THEN "rw" ELSE IF PRESERVE THEN "ro" ELSE "none"

OwnPage(n, p) == Base(n) <= p /\ p < Base(n) + Span(n)

Shielded(n, ac) ==
    PAGEALLOC => \A p \in HEAPPAGES : OwnPage(n, p) => ac[p] = Shield(n)

Guarded(n, m, ac) == Emptied(n, m) /\ Fenced(n, m) /\ Shielded(n, ac)

\* The bytes of pages H that belong to none of the blocks of B are filled, and
\* their pages are closed; without pages for blocks every page is open.
InBlock(B, x) == \E n \in B : Low(n) <= x /\ x < High(n)
OnBlock(B, p) == \E n \in B : OwnPage(n, p)

Clean(B, H, m) ==
    ~PAGEALLOC =>
        \A x \in Bytes : x \in HeapBytes(H) /\ ~InBlock(B, x) => m[x] = "free"

Walled(B, H, ac) ==
    PAGEALLOC /\ ALLOCUPPER =>
        \A p \in H : ac[p] = "none" \/ OnBlock(B, p)

Open(ac) == ~PAGEALLOC => \A p \in HEAPPAGES : ac[p] = "rw"

\* The watch points that are set for the blocks of B.
Watches(n) == OFLOWWATCH /\ (n.kind = "alloc" \/ ~PAGEALLOC \/ PRESERVE)
Watched(B) == UNION {OverArea(n) : n \in {m \in B : Watches(m)}}

Guards(B, H, m, ac, w) ==
    /\ DOMAIN m = Bytes /\ DOMAIN ac = HEAPPAGES
    /\ \A n \in B : Guarded(n, m, ac)
    /\ Clean(B, H, m) /\ Walled(B, H, ac) /\ Open(ac)
    /\ w = Watched(B)

-----------------------------------------------------------------------------
(***************************************************************************)
(* Where a block and its surroundings lie                                  *)
(***************************************************************************)
\* The pages of a block, or just its bytes, are in its node.
Laid(n) ==
    /\ n.block \in Nat /\ n.size \in Nat /\ n.size > 0 /\ Oflow \in Nat
    /\ Base(n) \in Nat /\ Span(n) \in Nat /\ Base(n) <= n.block
    /\ n.block + n.size <= Base(n) + Span(n)
    /\ Low(n) \in Nat /\ High(n) \in Nat
    /\ Low(n) = Base(n) - Oflow /\ High(n) = Base(n) + Span(n) + Oflow
    /\ PAGEALLOC =>
        /\ Base(n) % PAGE = 0 /\ (Base(n) + Span(n)) % PAGE = 0
        /\ n.block < Base(n) + PAGE
        /\ Base(n) + Span(n) < n.block + n.size + PAGE

\* An end from which one length is taken for another.
LEMMA Exchanged ==
  ASSUME NEW b \in Nat, NEW q \in Nat, NEW o \in Nat, NEW r \in Nat
  PROVE  (((b + q) + o) + r) - q = (b + r) + o
OBVIOUS

LEMMA RoundedUp ==
  ASSUME NEW x \in Nat, x <= RoundUp(x, PAGE)
  PROVE  RoundUp(x, PAGE) \in x .. x + PAGE - 1 /\ RoundUp(x, PAGE) % PAGE = 0
<1> DEFINE u == (-x) % PAGE
           y == x + u
           w == y % WORD
           q == y \div WORD
<1>1. PAGE \in Nat /\ PAGE > 0 /\ WORD \in Nat /\ WORD > 0 /\ PAGE < WORD
  BY WordFacts
<1>2. u \in 0..PAGE - 1 /\ y % PAGE = 0
  BY <1>1, UpFacts
<1>3. RoundUp(x, PAGE) = w
  BY DEF RoundUp, Wrap
<1> HIDE DEF u
<1>4. y \in Nat /\ y >= x /\ y <= x + PAGE - 1
  BY <1>1, <1>2
<1> HIDE DEF y
<1>5. w \in 0..WORD - 1 /\ q \in Int /\ y = (WORD * q) + w
  BY <1>1, <1>4, Quotient
<1> HIDE DEF w, q
<1>6. WORD * q \in Int /\ (q >= 1 => WORD * q >= WORD) /\ (q <= -1 => WORD * q <= -WORD)
      /\ (q = 0 => WORD * q = 0)
  BY <1>1, <1>5, Factor
<1>7. x <= w
  BY <1>3
<1>8. y = w
  BY <1>1, <1>4, <1>5, <1>6, <1>7
<1> QED BY <1>2, <1>3, <1>4, <1>8

LEMMA BlockLaid ==
  ASSUME RequestsFit, NEW n, Sound(n), ~Free(n)
  PROVE  Laid(n)
<1> DEFINE b == n.block
           l == n.size
           O == Oflow
           B == Base(n)
           S == Span(n)
<1>1. /\ b \in Nat /\ l \in Nat /\ l > 0 /\ l \in Asked
      /\ Low(n) \in Nat /\ High(n) \in Nat /\ b + l <= High(n)
  <2>1. l \in Asked
    BY DEF Sound, Free
  <2> QED BY <2>1, SoundFacts
<1>2. O \in Nat /\ l + 2 * O + PAGE <= WORD
  BY <1>1, AskedFacts
<1>3. Low(n) = B - O /\ High(n) = B + S + O
  BY BlockBounds
<1>4. PAGE \in Nat /\ PAGE > 0 /\ WORD \in Nat
  BY WordFacts
<1>5. CASE PAGEALLOC
  <2>1. B \in 0..b /\ b < B + PAGE /\ B % PAGE = 0
    BY <1>1, <1>4, <1>5, RoundDownFacts DEF Base
  <2> DEFINE x == l + (b - B)
  <2>2. S = RoundUp(x, PAGE)
    BY <1>5 DEF Span
  <2> HIDE DEF B, S, O, b, l
  <2>3. x \in Nat
    BY <1>1, <2>1
  <2>4. S \in Nat
    <3> HIDE DEF x
    <3>1. RoundUp(x, PAGE) \in Size
      BY <1>4, <2>3, RoundUpSize
    <3> QED BY <2>2, <3>1, WordFacts DEF Size
  <2>5. x <= l + PAGE - 1 /\ x <= S + O
    BY <1>1, <1>2, <1>3, <1>4, <2>1, <2>4
  <2>6. x <= S
    <3> HIDE DEF x
    <3> QED BY <1>1, <1>2, <2>2, <2>3, <2>5, RoomInPages
  <2>7. S \in x .. x + PAGE - 1 /\ S % PAGE = 0
    <3> HIDE DEF x
    <3> QED BY <2>2, <2>3, <2>6, RoundedUp
  <2>8. (B + S) % PAGE = 0
    BY <1>4, <2>1, <2>4, <2>7, Multiples
  <2>9. /\ B \in Nat /\ B <= b /\ b + l <= B + S
        /\ B + S < b + l + PAGE
    BY <1>1, <1>4, <2>1, <2>3, <2>4, <2>6, <2>7
  <2> QED BY <1>1, <1>2, <1>3, <2>1, <2>4, <2>8, <2>9 DEF Laid, B, S, O, b, l
<1>6. CASE ~PAGEALLOC
  <2>1. B = b /\ S = l
    BY <1>6, BlockWithoutPages
  <2> HIDE DEF B, S, O, b, l
  <2>2. B <= b /\ b + l <= B + S /\ B \in Nat /\ S \in Nat
    BY <1>1, <2>1
  <2> QED BY <1>1, <1>2, <1>3, <1>6, <2>2 DEF Laid, B, S, O, b, l
<1> QED BY <1>5, <1>6

\* What surrounds a block is in its node.
Edges(n) ==
    /\ From(n) \in Nat /\ To(n) \in Nat
    /\ Low(n) <= From(n) /\ From(n) <= n.block
    /\ n.block + n.size <= To(n) /\ To(n) <= High(n)

LEMMA BlockEdged ==
  ASSUME NEW n, Laid(n)
  PROVE  Edges(n)
<1> DEFINE b == n.block
           l == n.size
           O == Oflow
           B == Base(n)
           S == Span(n)
<1>1. /\ b \in Nat /\ l \in Nat /\ O \in Nat /\ B \in Nat /\ S \in Nat
      /\ B <= b /\ b + l <= B + S /\ Low(n) \in Nat /\ High(n) \in Nat
      /\ Low(n) = B - O /\ High(n) = B + S + O
  BY DEF Laid
<1>2. CASE PAGEALLOC
  <2>1. From(n) = B /\ To(n) = B + S
    BY <1>2 DEF From, To
  <2> HIDE DEF b, l, O, B, S
  <2>2. /\ B \in Nat /\ B + S \in Nat /\ Low(n) <= B /\ B <= b
        /\ b + l <= B + S /\ B + S <= High(n)
    BY <1>1
  <2> QED BY <2>1, <2>2 DEF Edges, b, l
<1>3. CASE ~PAGEALLOC
  <2>1. From(n) = b - O /\ To(n) = b + l + O /\ B = b /\ S = l
    BY <1>3, BlockWithoutPages DEF From, To
  <2> HIDE DEF b, l, O, B, S
  <2>2. /\ b - O \in Nat /\ b + l + O \in Nat /\ Low(n) <= b - O /\ b - O <= b
        /\ b + l <= b + l + O /\ b + l + O <= High(n)
    BY <1>1, <2>1
  <2> QED BY <2>1, <2>2 DEF Edges, b, l
<1> QED BY <1>2, <1>3

\* It is made up of the two areas of the manager.
LEMMA AreasAre ==
  ASSUME NEW n, Laid(n)
  PROVE  /\ AreaBefore(n) = From(n) .. n.block - 1
         /\ AreaAfter(n) = n.block + n.size .. To(n) - 1
<1> DEFINE b == n.block
           l == n.size
           O == Oflow
           B == Base(n)
           S == Span(n)
<1>1. /\ b \in Nat /\ l \in Nat /\ O \in Nat /\ B \in Nat /\ S \in Nat
  BY DEF Laid
<1>2. CASE PAGEALLOC
  <2>1. /\ From(n) = B /\ To(n) = B + S
        /\ AreaBefore(n) = B .. B + ((b - B) - 1)
        /\ AreaAfter(n) = b + l .. (b + l) + ((B + (S - b - l)) - 1)
    BY <1>2, Zenon DEF From, To, AreaBefore, AreaAfter, Run
  <2> HIDE DEF b, l, O, B, S
  <2>2. /\ B + ((b - B) - 1) = b - 1
        /\ (b + l) + ((B + (S - b - l)) - 1) = (B + S) - 1
    BY <1>1
  <2>3. AreaBefore(n) = B .. b - 1 /\ AreaAfter(n) = b + l .. (B + S) - 1
    BY <2>1, <2>2, Zenon
  <2> QED BY <2>1, <2>3, Zenon DEF b, l
<1>3. CASE ~PAGEALLOC
  <2>1. /\ From(n) = b - O /\ To(n) = b + l + O
        /\ AreaBefore(n) = b - O .. (b - O) + (O - 1)
        /\ AreaAfter(n) = b + l .. (b + l) + (O - 1)
    BY <1>3, Zenon DEF From, To, AreaBefore, AreaAfter, Run
  <2> HIDE DEF b, l, O, B, S
  <2>2. (b - O) + (O - 1) = b - 1 /\ (b + l) + (O - 1) = ((b + l) + O) - 1
    BY <1>1
  <2>3. AreaBefore(n) = b - O .. b - 1 /\ AreaAfter(n) = b + l .. ((b + l) + O) - 1
    BY <2>1, <2>2, Zenon
  <2> QED BY <2>1, <2>3, Zenon DEF b, l
<1> QED BY <1>2, <1>3

LEMMA OverAreaIs ==
  ASSUME NEW n, Laid(n), NEW x
  PROVE  x \in OverArea(n) <=> x \in Nat /\ Around(n, x)
<1>1. /\ AreaBefore(n) = From(n) .. n.block - 1
      /\ AreaAfter(n) = n.block + n.size .. To(n) - 1
  BY AreasAre
<1> DEFINE f == From(n)
           t == To(n)
           b == n.block
           e == n.block + n.size
<1>2. f \in Nat /\ t \in Nat /\ b \in Nat /\ e \in Nat
  BY BlockEdged DEF Edges, Laid
<1>3. x \in OverArea(n) <=> x \in f .. b - 1 \/ x \in e .. t - 1
  BY <1>1 DEF OverArea
<1>4. Around(n, x) <=> (f <= x /\ x < b) \/ (e <= x /\ x < t)
  BY DEF Around
<1> HIDE DEF f, t, b, e
<1>5. x \in f .. b - 1 <=> x \in Nat /\ f <= x /\ x < b
  BY <1>2
<1>6. x \in e .. t - 1 <=> x \in Nat /\ e <= x /\ x < t
  BY <1>2
<1> QED BY <1>3, <1>4, <1>5, <1>6

-----------------------------------------------------------------------------
(***************************************************************************)
(* What an operation leaves alone                                          *)
(***************************************************************************)
\* From m to q and from ac to bc only the memory from lo to hi is changed.
Elsewhere(lo, hi, m, q, ac, bc) ==
    /\ lo \in Nat /\ hi \in Nat /\ DOMAIN q = Bytes /\ DOMAIN bc = HEAPPAGES
    /\ \A x \in Bytes : x < lo \/ hi <= x => q[x] = m[x]
    /\ \A p \in HEAPPAGES : p + PAGE <= lo \/ hi <= p => bc[p] = ac[p]

BeyondOf(n, lo, hi) == High(n) <= lo \/ hi <= Low(n)

LEMMA BytesNat == \A x \in Bytes : x \in Nat
<1> SUFFICES ASSUME NEW x \in Bytes PROVE x \in Nat
  OBVIOUS
<1>1. PICK p \in HEAPPAGES : x \in p .. p + PAGE - 1
  BY DEF Bytes
<1>2. p \in Nat /\ PAGE \in Nat
  BY HeapAssumption, WordFacts
<1> QED BY <1>1, <1>2

LEMMA PagesNat == \A p \in HEAPPAGES : p \in Nat /\ p % PAGE = 0
  BY HeapAssumption, WordFacts

\* A page that starts in the pages of a block ends there, too.
LEMMA PageWhole ==
  ASSUME PAGEALLOC, NEW n, Laid(n), NEW p \in HEAPPAGES, OwnPage(n, p)
  PROVE  /\ p \in Nat /\ p + PAGE <= Base(n) + Span(n)
         /\ Low(n) <= p /\ p + PAGE <= High(n)
         /\ n.block < p + PAGE /\ p < n.block + n.size
<1> DEFINE B == Base(n)
           E == Base(n) + Span(n)
<1>1. /\ p \in Nat /\ p % PAGE = 0 /\ PAGE \in Nat /\ PAGE > 0
  BY PagesNat, WordFacts
<1>2. /\ B \in Nat /\ E \in Nat /\ B % PAGE = 0 /\ E % PAGE = 0 /\ Oflow \in Nat
      /\ Low(n) \in Nat /\ High(n) \in Nat
      /\ Low(n) = B - Oflow /\ High(n) = E + Oflow
      /\ n.block < B + PAGE /\ E < n.block + n.size + PAGE
      /\ n.block \in Nat /\ n.size \in Nat
  BY DEF Laid
<1>3. B <= p /\ p < E
  BY DEF OwnPage
<1> HIDE DEF B, E
<1>4. p + PAGE <= E
  BY <1>1, <1>2, <1>3, Apart
<1>5. /\ Low(n) <= p /\ p + PAGE <= High(n)
      /\ n.block < p + PAGE /\ p < n.block + n.size
  BY <1>1, <1>2, <1>3, <1>4
<1> QED BY <1>1, <1>4, <1>5 DEF E

\* A block that lies elsewhere stays guarded.
LEMMA Untouched ==
  ASSUME NEW n, Laid(n), NEW m, NEW ac, Guarded(n, m, ac),
         NEW lo, NEW hi, NEW q, NEW bc, Elsewhere(lo, hi, m, q, ac, bc),
         BeyondOf(n, lo, hi)
  PROVE  Guarded(n, q, bc)
<1>1. /\ lo \in Nat /\ hi \in Nat
      /\ \A x \in Bytes : x < lo \/ hi <= x => q[x] = m[x]
      /\ \A p \in HEAPPAGES : p + PAGE <= lo \/ hi <= p => bc[p] = ac[p]
  BY DEF Elsewhere
<1>2. /\ Low(n) \in Nat /\ High(n) \in Nat /\ n.block \in Nat /\ n.size \in Nat
      /\ From(n) \in Nat /\ To(n) \in Nat
      /\ Low(n) <= From(n) /\ From(n) <= n.block
      /\ n.block + n.size <= To(n) /\ To(n) <= High(n)
  BY BlockEdged DEF Edges, Laid
<1>3. High(n) <= lo \/ hi <= Low(n)
  BY DEF BeyondOf
<1>4. ASSUME NEW x \in Bytes, Low(n) <= x, x < High(n) PROVE q[x] = m[x]
  <2>1. x \in Nat
    BY BytesNat
  <2>2. x < lo \/ hi <= x
    BY <1>1, <1>2, <1>3, <1>4, <2>1
  <2> QED BY <1>1, <2>2
<1>5. Emptied(n, q)
  <2>1. ASSUME NEW x \in Bytes, n.block <= x, x < n.block + n.size
        PROVE  q[x] = m[x]
    <3>1. x \in Nat
      BY BytesNat
    <3>2. Low(n) <= x /\ x < High(n)
      BY <1>2, <2>1, <3>1
    <3> QED BY <1>4, <3>2
  <2> QED BY <2>1 DEF Guarded, Emptied
<1>6. Fenced(n, q)
  <2>1. ASSUME NEW x \in Bytes, Around(n, x)
        PROVE  q[x] = m[x]
    <3>1. x \in Nat
      BY BytesNat
    <3>2. Low(n) <= x /\ x < High(n)
      BY <1>2, <2>1, <3>1 DEF Around
    <3> QED BY <1>4, <3>2
  <2> QED BY <2>1 DEF Guarded, Fenced
<1>7. Shielded(n, bc)
  <2> SUFFICES ASSUME PAGEALLOC, NEW p \in HEAPPAGES, OwnPage(n, p)
               PROVE  bc[p] = Shield(n)
    BY DEF Shielded
  <2>1. p \in Nat /\ Low(n) <= p /\ p + PAGE <= High(n) /\ PAGE \in Nat
    BY PageWhole, WordFacts
  <2>2. p + PAGE <= lo \/ hi <= p
    BY <1>1, <1>2, <1>3, <2>1
  <2>3. bc[p] = ac[p]
    BY <1>1, <2>2
  <2> QED BY <2>3 DEF Guarded, Shielded
<1> QED BY <1>5, <1>6, <1>7 DEF Guarded

\* Blocks that have been laid out apart from each other.
Spread(B) ==
    /\ \A n \in B : Laid(n) /\ ~Free(n)
    /\ \A n \in B, m \in B : n # m => BeyondOf(m, Low(n), High(n))

LEMMA BlocksSpread ==
  ASSUME RequestsFit, NEW L \in Seq(NodeType), Tiled(L)
  PROVE  Spread(Blocks(NodesOf(L)))
<1>1. Apt(NodesOf(L))
  BY TiledApt
<1>2. \A n \in Blocks(NodesOf(L)) : n \in NodesOf(L) /\ Sound(n) /\ ~Free(n)
  BY <1>1 DEF Blocks, Apt
<1>3. \A n \in Blocks(NodesOf(L)) : Laid(n)
  BY <1>2, BlockLaid
<1>4. ASSUME NEW n \in Blocks(NodesOf(L)), NEW m \in Blocks(NodesOf(L)), n # m
      PROVE  High(m) <= Low(n) \/ High(n) <= Low(m)
  BY <1>1, <1>2, <1>4 DEF Apt
<1> QED BY <1>2, <1>3, <1>4 DEF Spread, BeyondOf

\* What surrounds two blocks has no byte in common.
LEMMA AroundApart ==
  ASSUME NEW B, Spread(B), NEW n \in B, NEW r \in B, n # r, NEW x \in OverArea(n)
  PROVE  x \notin OverArea(r)
<1>1. Laid(n) /\ Laid(r) /\ BeyondOf(r, Low(n), High(n))
  BY DEF Spread
<1>2. Edges(n) /\ Edges(r)
  BY <1>1, BlockEdged
<1>3. x \in Nat /\ Around(n, x)
  BY <1>1, OverAreaIs
<1>4. Low(n) <= x /\ x < High(n)
  BY <1>1, <1>2, <1>3 DEF Around, Edges, Laid
<1>5. ASSUME Around(r, x) PROVE FALSE
  <2>1. Low(r) <= x /\ x < High(r)
    BY <1>1, <1>2, <1>3, <1>5 DEF Around, Edges, Laid
  <2> QED BY <1>1, <1>3, <1>4, <2>1 DEF BeyondOf, Laid
<1> QED BY <1>1, <1>5, OverAreaIs

-----------------------------------------------------------------------------
(***************************************************************************)
(* The watch points of the blocks                                          *)
(***************************************************************************)
LEMMA WatchedAt ==
  ASSUME NEW B, NEW x
  PROVE  x \in Watched(B) <=> \E n \in B : Watches(n) /\ x \in OverArea(n)
BY DEF Watched

LEMMA WatchedWith ==
  ASSUME NEW B, NEW e
  PROVE  Watched(B \cup {e})
            = Watched(B) \cup IF Watches(e) THEN OverArea(e) ELSE {}
<1>1. ASSUME NEW x
      PROVE  x \in Watched(B \cup {e})
                <=> x \in Watched(B) \/ (Watches(e) /\ x \in OverArea(e))
  <2>1. x \in Watched(B \cup {e})
            <=> \E n \in B \cup {e} : Watches(n) /\ x \in OverArea(n)
    BY WatchedAt
  <2>2. x \in Watched(B) <=> \E n \in B : Watches(n) /\ x \in OverArea(n)
    BY WatchedAt
  <2> QED BY <2>1, <2>2, Zenon
<1> QED BY <1>1

LEMMA WatchedWithout ==
  ASSUME NEW B, Spread(B), NEW n \in B
  PROVE  Watched(B \ {n}) = Watched(B) \ OverArea(n)
<1>1. ASSUME NEW x
      PROVE  x \in Watched(B \ {n}) <=> x \in Watched(B) /\ x \notin OverArea(n)
  <2>1. x \in Watched(B \ {n})
            <=> \E r \in B \ {n} : Watches(r) /\ x \in OverArea(r)
    BY WatchedAt
  <2>2. x \in Watched(B) <=> \E r \in B : Watches(r) /\ x \in OverArea(r)
    BY WatchedAt
  <2>3. \A r \in B : r # n /\ x \in OverArea(r) => x \notin OverArea(n)
    BY AroundApart
  <2> QED BY <2>1, <2>2, <2>3, Zenon
<1> QED BY <1>1

LEMMA NoneWatched == ASSUME NEW B, ~OFLOWWATCH PROVE Watched(B) = {}
<1>1. \A x : x \notin Watched(B)
  BY WatchedAt DEF Watches
<1> QED BY <1>1

-----------------------------------------------------------------------------
(***************************************************************************)
(* A block comes, goes or changes                                          *)
(***************************************************************************)
\* The blocks of B and block e, or with block e instead of n.
With(B, e) == B \cup {e}
Instead(B, n, e) == (B \ {n}) \cup {e}

\* The pages of new block e are opened, and no others.
Opened(e, ac, bc) ==
    /\ ~PAGEALLOC => bc = ac
    /\ PAGEALLOC => \A p \in HEAPPAGES : ~OwnPage(e, p) => bc[p] = ac[p]

LEMMA AddBlock ==
  ASSUME NEW B, NEW C, NEW e, C = With(B, e), e \notin B, Spread(C),
         e.kind = "alloc", NEW H, H \subseteq HEAPPAGES, NEW m, NEW ac, NEW w,
         Guards(B, H, m, ac, w), NEW q, NEW bc,
         Elsewhere(Low(e), High(e), m, q, ac, bc), Guarded(e, q, bc),
         Opened(e, ac, bc), NEW v, v = WatchOver(w, OverArea(e))
  PROVE  Guards(C, H, q, bc, v)
<1>0. C = B \cup {e}
  BY DEF With
<1>1. /\ Low(e) \in Nat /\ High(e) \in Nat
      /\ DOMAIN q = Bytes /\ DOMAIN bc = HEAPPAGES
      /\ \A x \in Bytes : x < Low(e) \/ High(e) <= x => q[x] = m[x]
  BY DEF Elsewhere
<1>2. \A n \in C : Guarded(n, q, bc)
  <2> SUFFICES ASSUME NEW n \in C PROVE Guarded(n, q, bc)
    OBVIOUS
  <2>1. CASE n = e
    BY <2>1
  <2>2. CASE n # e
    <3>1. n \in B /\ Guarded(n, m, ac)
      BY <1>0, <2>2 DEF Guards
    <3>2. e \in C /\ Laid(n) /\ BeyondOf(n, Low(e), High(e))
      BY <1>0, <2>2 DEF Spread
    <3> QED BY <3>1, <3>2, Untouched, Zenon
  <2> QED BY <2>1, <2>2
<1>3. Clean(C, H, q)
  <2> SUFFICES ASSUME ~PAGEALLOC, NEW x \in Bytes, x \in HeapBytes(H), ~InBlock(C, x)
               PROVE  q[x] = "free"
    BY DEF Clean
  <2>1. ~InBlock(B, x) /\ ~(Low(e) <= x /\ x < High(e))
    BY <1>0 DEF InBlock
  <2>2. x < Low(e) \/ High(e) <= x
    BY <1>1, <2>1, BytesNat
  <2>3. q[x] = m[x]
    BY <1>1, <2>2
  <2>4. m[x] = "free"
    BY <2>1 DEF Guards, Clean
  <2> QED BY <2>3, <2>4
<1>4. Walled(C, H, bc)
  <2> SUFFICES ASSUME PAGEALLOC, ALLOCUPPER, NEW p \in H, ~OnBlock(C, p)
               PROVE  bc[p] = "none"
    BY DEF Walled
  <2>1. ~OnBlock(B, p) /\ ~OwnPage(e, p) /\ p \in HEAPPAGES
    BY <1>0 DEF OnBlock
  <2>2. ac[p] = "none"
    BY <2>1 DEF Guards, Walled
  <2> QED BY <2>1, <2>2 DEF Opened
<1>5. Open(bc)
  BY DEF Open, Opened, Guards
<1>6. v = Watched(C)
  <2>1. w = Watched(B) /\ Watched(C) = w \cup IF Watches(e) THEN OverArea(e) ELSE {}
    BY <1>0, WatchedWith DEF Guards
  <2>2. Watches(e) <=> OFLOWWATCH
    BY DEF Watches
  <2>3. CASE OFLOWWATCH
    BY <2>1, <2>2, <2>3 DEF WatchOver
  <2>4. CASE ~OFLOWWATCH
    <3>1. Watched(C) = w \cup {}
      BY <2>1, <2>2, <2>4
    <3> QED BY <2>4, <3>1 DEF WatchOver
  <2> QED BY <2>3, <2>4
<1> QED BY <1>1, <1>2, <1>3, <1>4, <1>5, <1>6 DEF Guards

\* The bytes of old block n are filled and its pages are closed, and no others
\* are opened.
ClosedUp(n, q, ac, bc) ==
    /\ ~PAGEALLOC =>
        /\ bc = ac
        /\ \A x \in Bytes : Low(n) <= x /\ x < High(n) => q[x] = "free"
    /\ PAGEALLOC =>
        \A p \in HEAPPAGES : /\ OwnPage(n, p) => bc[p] = "none"
                             /\ bc[p] = ac[p] \/ bc[p] = "none"

LEMMA DropBlock ==
  ASSUME NEW B, NEW C, NEW n \in B, C = B \ {n}, Spread(B),
         NEW H, H \subseteq HEAPPAGES, NEW m, NEW ac, NEW w,
         Guards(B, H, m, ac, w), NEW q, NEW bc,
         Elsewhere(Low(n), High(n), m, q, ac, bc),
         ClosedUp(n, q, ac, bc), NEW v, v = w \ OverArea(n)
  PROVE  Guards(C, H, q, bc, v)
<1>1. /\ Low(n) \in Nat /\ High(n) \in Nat
      /\ DOMAIN q = Bytes /\ DOMAIN bc = HEAPPAGES
      /\ \A x \in Bytes : x < Low(n) \/ High(n) <= x => q[x] = m[x]
  BY DEF Elsewhere
<1>2. \A r \in C : Guarded(r, q, bc)
  <2> SUFFICES ASSUME NEW r \in C PROVE Guarded(r, q, bc)
    OBVIOUS
  <2>1. r \in B /\ r # n /\ Guarded(r, m, ac)
    BY DEF Guards
  <2>2. Laid(r) /\ BeyondOf(r, Low(n), High(n))
    BY <2>1 DEF Spread
  <2> QED BY <2>1, <2>2, Untouched, Zenon
<1>3. Clean(C, H, q)
  <2> SUFFICES ASSUME ~PAGEALLOC, NEW x \in Bytes, x \in HeapBytes(H), ~InBlock(C, x)
               PROVE  q[x] = "free"
    BY DEF Clean
  <2>1. CASE Low(n) <= x /\ x < High(n)
    BY <2>1 DEF ClosedUp
  <2>2. CASE ~(Low(n) <= x /\ x < High(n))
    <3>1. ~InBlock(B, x)
      BY <2>2 DEF InBlock
    <3>2. x < Low(n) \/ High(n) <= x
      BY <1>1, <2>2, BytesNat
    <3>3. q[x] = m[x] /\ m[x] = "free"
      BY <1>1, <3>1, <3>2 DEF Guards, Clean
    <3> QED BY <3>3
  <2> QED BY <2>1, <2>2
<1>4. Walled(C, H, bc)
  <2> SUFFICES ASSUME PAGEALLOC, ALLOCUPPER, NEW p \in H, ~OnBlock(C, p)
               PROVE  bc[p] = "none"
    BY DEF Walled
  <2>1. p \in HEAPPAGES /\ (bc[p] = ac[p] \/ bc[p] = "none")
        /\ (OwnPage(n, p) => bc[p] = "none")
    BY DEF ClosedUp
  <2>2. CASE OwnPage(n, p)
    BY <2>1, <2>2
  <2>3. CASE ~OwnPage(n, p)
    <3>1. ~OnBlock(B, p)
      BY <2>3 DEF OnBlock
    <3>2. ac[p] = "none"
      BY <3>1 DEF Guards, Walled
    <3> QED BY <2>1, <3>2
  <2> QED BY <2>2, <2>3
<1>5. Open(bc)
  BY DEF Open, ClosedUp, Guards
<1>6. v = Watched(C)
  BY WatchedWithout DEF Guards
<1> QED BY <1>1, <1>2, <1>3, <1>4, <1>5, <1>6 DEF Guards

\* What else block n becoming block e may change up to hi: the bytes that it
\* gives up are filled, and only its own pages are opened.
Reshaped(n, e, hi, q, ac, bc) ==
    /\ Low(e) = Low(n) /\ High(n) <= hi /\ High(e) <= hi
    /\ ~PAGEALLOC =>
        /\ bc = ac
        /\ \A x \in Bytes : High(e) <= x /\ x < hi => q[x] = "free"
    /\ PAGEALLOC /\ ALLOCUPPER =>
        \A p \in HEAPPAGES : /\ OwnPage(n, p) => OwnPage(e, p)
                             /\ OwnPage(e, p) \/ bc[p] = ac[p]

LEMMA ChangeBlock ==
  ASSUME NEW B, NEW C, NEW n \in B, NEW e, C = Instead(B, n, e), Spread(B),
         NEW hi, \A r \in B \ {n} : BeyondOf(r, Low(n), hi),
         NEW H, H \subseteq HEAPPAGES, NEW m, NEW ac, NEW w,
         Guards(B, H, m, ac, w), NEW q, NEW bc,
         Elsewhere(Low(n), hi, m, q, ac, bc), Guarded(e, q, bc),
         Laid(e), Reshaped(n, e, hi, q, ac, bc), NEW v, v = Watched(C)
  PROVE  Guards(C, H, q, bc, v)
<1>0. C = (B \ {n}) \cup {e}
  BY DEF Instead
<1>1. /\ Low(n) \in Nat /\ hi \in Nat /\ High(n) \in Nat /\ High(e) \in Nat
      /\ Low(e) = Low(n) /\ High(n) <= hi /\ High(e) <= hi
      /\ DOMAIN q = Bytes /\ DOMAIN bc = HEAPPAGES
      /\ \A x \in Bytes : x < Low(n) \/ hi <= x => q[x] = m[x]
  BY DEF Elsewhere, Spread, Laid, Reshaped
<1>2. \A r \in C : Guarded(r, q, bc)
  <2> SUFFICES ASSUME NEW r \in C PROVE Guarded(r, q, bc)
    OBVIOUS
  <2>1. CASE r = e
    BY <2>1
  <2>2. CASE r # e
    <3>1. r \in B \ {n} /\ Guarded(r, m, ac)
      BY <1>0, <2>2 DEF Guards
    <3>2. Laid(r) /\ BeyondOf(r, Low(n), hi)
      BY <3>1 DEF Spread
    <3> QED BY <3>1, <3>2, Untouched, Zenon
  <2> QED BY <2>1, <2>2
<1>3. Clean(C, H, q)
  <2> SUFFICES ASSUME ~PAGEALLOC, NEW x \in Bytes, x \in HeapBytes(H), ~InBlock(C, x)
               PROVE  q[x] = "free"
    BY DEF Clean
  <2>1. x \in Nat
    BY BytesNat
  <2>2. ~(Low(e) <= x /\ x < High(e))
    BY <1>0 DEF InBlock
  <2>3. CASE Low(n) <= x /\ x < hi
    <3>1. High(e) <= x
      BY <1>1, <2>1, <2>2, <2>3
    <3> QED BY <2>3, <3>1 DEF Reshaped
  <2>4. CASE x < Low(n) \/ hi <= x
    <3>1. ~(Low(n) <= x /\ x < High(n))
      BY <1>1, <2>1, <2>4
    <3>2. ~InBlock(B, x)
      <4>1. \A r \in B : r = n \/ r \in C
        BY <1>0
      <4> QED BY <3>1, <4>1 DEF InBlock
    <3>3. q[x] = m[x] /\ m[x] = "free"
      BY <1>1, <2>4, <3>2 DEF Guards, Clean
    <3> QED BY <3>3
  <2> QED BY <1>1, <2>1, <2>3, <2>4
<1>4. Walled(C, H, bc)
  <2> SUFFICES ASSUME PAGEALLOC, ALLOCUPPER, NEW p \in H, ~OnBlock(C, p)
               PROVE  bc[p] = "none"
    BY DEF Walled
  <2>1. p \in HEAPPAGES /\ ~OwnPage(e, p)
    BY <1>0 DEF OnBlock
  <2>2. ~OwnPage(n, p) /\ bc[p] = ac[p]
    BY <2>1 DEF Reshaped
  <2>3. ~OnBlock(B, p)
    <3>1. \A r \in B : r = n \/ r \in C
      BY <1>0
    <3> QED BY <2>2, <3>1 DEF OnBlock
  <2>4. ac[p] = "none"
    BY <2>3 DEF Guards, Walled
  <2> QED BY <2>2, <2>4
<1>5. Open(bc)
  BY DEF Open, Reshaped, Guards
<1> QED BY <1>1, <1>2, <1>3, <1>4, <1>5 DEF Guards

\* New memory from lo to hi in pages P is filled or closed, and no other page is
\* opened.
Fresh(P, lo, hi, q, ac, bc) ==
    /\ HeapBytes(P) = lo .. hi - 1
    /\ ~PAGEALLOC =>
        /\ bc = ac
        /\ \A x \in Bytes : lo <= x /\ x < hi => q[x] = "free"
    /\ PAGEALLOC =>
        \A p \in HEAPPAGES : /\ p \in P => bc[p] = "none"
                             /\ bc[p] = ac[p] \/ bc[p] = "none"

LEMMA AddMemory ==
  ASSUME NEW B, Spread(B), NEW lo, NEW hi, \A r \in B : BeyondOf(r, lo, hi),
         NEW H, H \subseteq HEAPPAGES, NEW P, P \subseteq HEAPPAGES,
         NEW m, NEW ac, NEW w, Guards(B, H, m, ac, w), NEW q, NEW bc,
         Elsewhere(lo, hi, m, q, ac, bc), Fresh(P, lo, hi, q, ac, bc)
  PROVE  Guards(B, H \cup P, q, bc, w)
<1>1. /\ lo \in Nat /\ hi \in Nat
      /\ DOMAIN q = Bytes /\ DOMAIN bc = HEAPPAGES
      /\ \A x \in Bytes : x < lo \/ hi <= x => q[x] = m[x]
  BY DEF Elsewhere
<1>2. \A r \in B : Guarded(r, q, bc)
  <2> SUFFICES ASSUME NEW r \in B PROVE Guarded(r, q, bc)
    OBVIOUS
  <2>1. Laid(r) /\ BeyondOf(r, lo, hi) /\ Guarded(r, m, ac)
    BY DEF Spread, Guards
  <2> QED BY <2>1, Untouched, Zenon
<1>3. Clean(B, H \cup P, q)
  <2> SUFFICES ASSUME ~PAGEALLOC, NEW x \in Bytes, x \in HeapBytes(H \cup P),
                      ~InBlock(B, x)
               PROVE  q[x] = "free"
    BY DEF Clean
  <2>1. x \in Nat
    BY BytesNat
  <2>2. CASE lo <= x /\ x < hi
    BY <2>2 DEF Fresh
  <2>3. CASE x < lo \/ hi <= x
    <3>1. x \notin HeapBytes(P)
      BY <1>1, <2>1, <2>3 DEF Fresh
    <3>2. x \in HeapBytes(H)
      BY <3>1 DEF HeapBytes
    <3>3. q[x] = m[x] /\ m[x] = "free"
      BY <1>1, <2>3, <3>2 DEF Guards, Clean
    <3> QED BY <3>3
  <2> QED BY <1>1, <2>1, <2>2, <2>3
<1>4. Walled(B, H \cup P, bc)
  <2> SUFFICES ASSUME PAGEALLOC, ALLOCUPPER, NEW p \in H \cup P, ~OnBlock(B, p)
               PROVE  bc[p] = "none"
    BY DEF Walled
  <2>1. p \in HEAPPAGES /\ (p \in P => bc[p] = "none")
        /\ (bc[p] = ac[p] \/ bc[p] = "none")
    BY DEF Fresh
  <2>2. p \in H => ac[p] = "none"
    BY DEF Guards, Walled
  <2> QED BY <2>1, <2>2
<1>5. Open(bc)
  BY DEF Open, Fresh, Guards
<1> QED BY <1>1, <1>2, <1>3, <1>4, <1>5 DEF Guards

-----------------------------------------------------------------------------
(***************************************************************************)
(* Filling bytes and protecting pages                                      *)
(***************************************************************************)
LEMMA FillAt ==
  ASSUME NEW m, DOMAIN m = Bytes, NEW area, NEW b
  PROVE  /\ DOMAIN Fill(m, area, b) = Bytes
         /\ \A x \in Bytes : Fill(m, area, b)[x] = IF x \in area THEN b ELSE m[x]
BY DEF Fill

LEMMA ProtectAt ==
  ASSUME NEW ac, DOMAIN ac = HEAPPAGES, NEW b, NEW s, NEW a
  PROVE  /\ DOMAIN Protect(ac, b, s, a) = HEAPPAGES
         /\ \A p \in HEAPPAGES :
                Protect(ac, b, s, a)[p] =
                    IF s > 0 /\ p + PAGE > b /\ p < b + s THEN a ELSE ac[p]
BY DEF Protect

LEMMA RunAt ==
  ASSUME NEW b \in Int, NEW s \in Int, NEW x \in Int
  PROVE  x \in Run(b, s) <=> b <= x /\ x < b + s
BY DEF Run

\* The pages that a block or its span touches are its own ones.
LEMMA OwnPages ==
  ASSUME PAGEALLOC, NEW n, Laid(n), NEW p \in HEAPPAGES
  PROVE  /\ OwnPage(n, p)
                <=> n.size > 0 /\ p + PAGE > n.block /\ p < n.block + n.size
         /\ OwnPage(n, p)
                <=> Span(n) > 0 /\ p + PAGE > Base(n) /\ p < Base(n) + Span(n)
<1> DEFINE b == n.block
           l == n.size
           B == Base(n)
           S == Span(n)
<1>1. /\ p \in Nat /\ p % PAGE = 0 /\ PAGE \in Nat /\ PAGE > 0
  BY PagesNat, WordFacts
<1>2. /\ B \in Nat /\ S \in Nat /\ b \in Nat /\ l \in Nat /\ l > 0 /\ B % PAGE = 0
      /\ B <= b /\ b + l <= B + S
  BY DEF Laid
<1>3. OwnPage(n, p) <=> B <= p /\ p < B + S
  BY DEF OwnPage
<1>4. OwnPage(n, p) => b < p + PAGE /\ p < b + l
  BY PageWhole
<1> HIDE DEF b, l, B, S
<1>5. p < B => p + PAGE <= B
  BY <1>1, <1>2, Apart
<1>6. S > 0
  BY <1>2
<1>7. OwnPage(n, p) <=> l > 0 /\ p + PAGE > b /\ p < b + l
  BY <1>1, <1>2, <1>3, <1>4, <1>5
<1>8. OwnPage(n, p) <=> S > 0 /\ p + PAGE > B /\ p < B + S
  BY <1>1, <1>2, <1>3, <1>5, <1>6
<1> QED BY <1>7, <1>8 DEF b, l, B, S

\* From ac to bc the pages of block n are given protection a, and no others.
OwnOnly(n, ac, a, bc) ==
    /\ DOMAIN bc = HEAPPAGES
    /\ \A p \in HEAPPAGES : bc[p] = IF OwnPage(n, p) THEN a ELSE ac[p]
    /\ \A p \in HEAPPAGES : p + PAGE <= Low(n) \/ High(n) <= p => bc[p] = ac[p]

\* That is what protecting a block or its span does.
LEMMA ProtectBlock ==
  ASSUME PAGEALLOC, NEW n, Laid(n), NEW ac, DOMAIN ac = HEAPPAGES, NEW a, NEW bc,
         bc = Protect(ac, n.block, n.size, a) \/ bc = Protect(ac, Base(n), Span(n), a)
  PROVE  OwnOnly(n, ac, a, bc)
<1>1. DOMAIN bc = HEAPPAGES
  BY ProtectAt
<1>2. ASSUME NEW p \in HEAPPAGES
      PROVE  bc[p] = IF OwnPage(n, p) THEN a ELSE ac[p]
  <2>1. CASE bc = Protect(ac, n.block, n.size, a)
    <3>1. bc[p] = IF n.size > 0 /\ p + PAGE > n.block /\ p < n.block + n.size
                  THEN a ELSE ac[p]
      BY <2>1, ProtectAt
    <3> QED BY <3>1, OwnPages, Zenon
  <2>2. CASE bc = Protect(ac, Base(n), Span(n), a)
    <3>1. bc[p] = IF Span(n) > 0 /\ p + PAGE > Base(n) /\ p < Base(n) + Span(n)
                  THEN a ELSE ac[p]
      BY <2>2, ProtectAt
    <3> QED BY <3>1, OwnPages, Zenon
  <2> QED BY <2>1, <2>2
<1>3. ASSUME NEW p \in HEAPPAGES, p + PAGE <= Low(n) \/ High(n) <= p
      PROVE  ~OwnPage(n, p)
  <2> SUFFICES ASSUME OwnPage(n, p) PROVE FALSE
    OBVIOUS
  <2>1. p \in Nat /\ Low(n) <= p /\ p + PAGE <= High(n)
    BY PageWhole
  <2>2. Low(n) \in Nat /\ High(n) \in Nat /\ PAGE \in Nat /\ PAGE > 0
    BY WordFacts DEF Laid
  <2> QED BY <1>3, <2>1, <2>2
<1> QED BY <1>1, <1>2, <1>3 DEF OwnOnly

-----------------------------------------------------------------------------
(***************************************************************************)
(* A block is released, or kept back                                       *)
(***************************************************************************)
LEMMA ReleasedMemory ==
  ASSUME NEW n, Laid(n), NEW m, DOMAIN m = Bytes, NEW ac, DOMAIN ac = HEAPPAGES,
         NEW q, q = (IF PAGEALLOC THEN m
                     ELSE Fill(m, Run(Low(n), High(n) - Low(n)), "free")),
         NEW bc, bc = (IF PAGEALLOC THEN Protect(ac, n.block, n.size, "none")
                       ELSE ac)
  PROVE  Elsewhere(Low(n), High(n), m, q, ac, bc) /\ ClosedUp(n, q, ac, bc)
<1>1. Low(n) \in Nat /\ High(n) \in Nat
  BY DEF Laid
<1>2. CASE PAGEALLOC
  <2>1. q = m
    BY <1>2
  <2>2. /\ DOMAIN bc = HEAPPAGES
        /\ \A p \in HEAPPAGES : bc[p] = IF OwnPage(n, p) THEN "none" ELSE ac[p]
        /\ \A p \in HEAPPAGES : p + PAGE <= Low(n) \/ High(n) <= p => bc[p] = ac[p]
    <3>1. bc = Protect(ac, n.block, n.size, "none")
      BY <1>2
    <3>2. OwnOnly(n, ac, "none", bc)
      BY <1>2, <3>1, ProtectBlock
    <3> QED BY <3>2 DEF OwnOnly
  <2>3. Elsewhere(Low(n), High(n), m, q, ac, bc)
    BY <1>1, <2>1, <2>2 DEF Elsewhere
  <2>4. ClosedUp(n, q, ac, bc)
    BY <1>2, <2>2 DEF ClosedUp
  <2> QED BY <2>3, <2>4
<1>3. CASE ~PAGEALLOC
  <2>1. bc = ac
    BY <1>3
  <2>2. /\ DOMAIN q = Bytes
        /\ \A x \in Bytes :
            q[x] = IF x \in Run(Low(n), High(n) - Low(n)) THEN "free" ELSE m[x]
    BY <1>3, FillAt
  <2>3. \A x \in Bytes : x \in Nat
            /\ (x \in Run(Low(n), High(n) - Low(n)) <=> Low(n) <= x /\ x < High(n))
    BY <1>1, BytesNat DEF Run
  <2>4. Elsewhere(Low(n), High(n), m, q, ac, bc)
    <3>1. \A x \in Bytes : x < Low(n) \/ High(n) <= x => q[x] = m[x]
      BY <1>1, <2>2, <2>3
    <3> QED BY <1>1, <2>1, <2>2, <3>1 DEF Elsewhere
  <2>5. ClosedUp(n, q, ac, bc)
    BY <1>3, <2>1, <2>2, <2>3 DEF ClosedUp
  <2> QED BY <2>4, <2>5
<1> QED BY <1>2, <1>3

\* What is done to the memory of a block that is freed but kept back.
LEMMA KeptMemory ==
  ASSUME NEW n, Laid(n), n.kind = "alloc", Laid(AsFreed(n)),
         n.block = AsFreed(n).block, n.size = AsFreed(n).size,
         AsFreed(n).kind = "freed",
         Low(AsFreed(n)) = Low(n), High(AsFreed(n)) = High(n),
         NEW m, DOMAIN m = Bytes, NEW ac, DOMAIN ac = HEAPPAGES, Guarded(n, m, ac),
         NEW q, q = (IF PAGEALLOC \/ PRESERVE THEN m
                     ELSE Fill(m, Run(n.block, n.size), "free")),
         NEW bc, bc = (IF PAGEALLOC
                       THEN Protect(ac, n.block, n.size,
                                    IF PRESERVE THEN "ro" ELSE "none")
                       ELSE ac)
  PROVE  /\ Elsewhere(Low(n), High(n), m, q, ac, bc)
         /\ Guarded(AsFreed(n), q, bc)
         /\ Reshaped(n, AsFreed(n), High(n), q, ac, bc)
<1> DEFINE e == AsFreed(n)
<1>1. /\ Low(n) \in Nat /\ High(n) \in Nat /\ n.block \in Nat /\ n.size \in Nat
      /\ Low(n) <= n.block /\ n.block + n.size <= High(n)
      /\ From(n) \in Nat /\ To(n) \in Nat
  BY BlockEdged DEF Laid, Edges
<1>2. /\ DOMAIN q = Bytes
      /\ \A x \in Bytes : ~(n.block <= x /\ x < n.block + n.size) => q[x] = m[x]
      /\ ~PAGEALLOC /\ ~PRESERVE =>
            \A x \in Bytes : n.block <= x /\ x < n.block + n.size => q[x] = "free"
  <2>1. CASE PAGEALLOC \/ PRESERVE
    BY <2>1
  <2>2. CASE ~(PAGEALLOC \/ PRESERVE)
    <3>1. /\ DOMAIN q = Bytes
          /\ \A x \in Bytes :
                q[x] = IF x \in Run(n.block, n.size) THEN "free" ELSE m[x]
      BY <2>2, FillAt
    <3>2. \A x \in Bytes :
            x \in Run(n.block, n.size) <=> n.block <= x /\ x < n.block + n.size
      BY <1>1, BytesNat, RunAt
    <3> QED BY <3>1, <3>2
  <2> QED BY <2>1, <2>2
<1>3. /\ DOMAIN bc = HEAPPAGES
      /\ ~PAGEALLOC => bc = ac
      /\ PAGEALLOC => \A p \in HEAPPAGES :
            bc[p] = IF OwnPage(n, p) THEN IF PRESERVE THEN "ro" ELSE "none" ELSE ac[p]
      /\ \A p \in HEAPPAGES : p + PAGE <= Low(n) \/ High(n) <= p => bc[p] = ac[p]
  <2>1. CASE ~PAGEALLOC
    BY <2>1
  <2>2. CASE PAGEALLOC
    <3>1. bc = Protect(ac, n.block, n.size, IF PRESERVE THEN "ro" ELSE "none")
      BY <2>2
    <3>2. OwnOnly(n, ac, IF PRESERVE THEN "ro" ELSE "none", bc)
      BY <2>2, <3>1, ProtectBlock
    <3> QED BY <2>2, <3>2 DEF OwnOnly
  <2> QED BY <2>1, <2>2
<1>4. Base(e) = Base(n) /\ Span(e) = Span(n) /\ (\A p : OwnPage(e, p) <=> OwnPage(n, p))
  <2>1. Base(e) = Base(n)
    BY DEF Base
  <2>2. Span(e) = Span(n)
    BY <2>1 DEF Span
  <2> QED BY <2>1, <2>2 DEF OwnPage
<1>5. From(e) = From(n) /\ To(e) = To(n) /\ (\A x : Around(e, x) <=> Around(n, x))
  <2>1. From(e) = From(n) /\ To(e) = To(n)
    BY <1>4 DEF From, To
  <2> QED BY <2>1 DEF Around
<1> HIDE DEF e
<1>6. Elsewhere(Low(n), High(n), m, q, ac, bc)
  <2>1. ASSUME NEW x \in Bytes, x < Low(n) \/ High(n) <= x PROVE q[x] = m[x]
    <3>1. ~(n.block <= x /\ x < n.block + n.size)
      BY <1>1, <2>1, BytesNat
    <3> QED BY <1>2, <3>1
  <2> QED BY <1>1, <1>2, <1>3, <2>1 DEF Elsewhere
<1>7. Emptied(e, q)
  <2>1. e.block = n.block /\ e.size = n.size
    BY DEF e
  <2> QED BY <1>2, <2>1 DEF Emptied
<1>8. Fenced(e, q)
  <2> SUFFICES ASSUME ~OFLOWWATCH, NEW x \in Bytes, Around(n, x) PROVE q[x] = "over"
    BY <1>5 DEF Fenced
  <2>1. m[x] = "over"
    BY DEF Guarded, Fenced
  <2>2. ~(n.block <= x /\ x < n.block + n.size)
    BY <1>1, BytesNat DEF Around
  <2> QED BY <1>2, <2>1, <2>2
<1>9. Shielded(e, bc)
  <2>1. Shield(e) = IF PRESERVE THEN "ro" ELSE "none"
    BY DEF Shield, e
  <2> QED BY <1>3, <1>4, <2>1 DEF Shielded
<1>10. Reshaped(n, e, High(n), q, ac, bc)
  <2>1. Low(e) = Low(n) /\ High(e) = High(n) /\ High(n) <= High(n)
    BY <1>1 DEF e
  <2>2. \A x \in Bytes : ~(High(e) <= x /\ x < High(n))
    BY <1>1, <2>1, BytesNat
  <2> QED BY <1>3, <1>4, <2>1, <2>2 DEF Reshaped
<1> QED BY <1>6, <1>7, <1>8, <1>9, <1>10 DEF Guarded, e

\* The guards of a state of the manager with the pages H.
GuardsOf(h, H) == Guards(Blocks(NodesOf(h.list)), H, h.mem, h.access, h.watch)

LEMMA BlockAt ==
  ASSUME RequestsFit, NEW h, NEW ta, NEW M, InOrder(h.list, ta, h.gsize, h.fsize, M),
         NEW i \in 1..Len(h.list), ~Free(h.list[i])
  PROVE  /\ Spread(Blocks(NodesOf(h.list))) /\ Sound(h.list[i])
         /\ Laid(h.list[i]) /\ h.list[i] \in Blocks(NodesOf(h.list))
<1>1. h.list \in Seq(NodeType) /\ Tiled(h.list)
  BY DEF InOrder
<1>2. Sound(h.list[i])
  BY <1>1, TiledFacts
<1>3. h.list[i] \in Blocks(NodesOf(h.list))
  BY DEF Blocks, NodesOf
<1> QED BY <1>1, <1>2, <1>3, BlocksSpread, BlockLaid

LEMMA ReleasedGuards ==
  ASSUME RequestsFit, NEW h, NEW ta, NEW M, InOrder(h.list, ta, h.gsize, h.fsize, M),
         NEW i \in 1..Len(h.list), ~Free(h.list[i]),
         NEW H, H \subseteq HEAPPAGES, GuardsOf(h, H)
  PROVE  GuardsOf(Released(h, i), H)
<1> DEFINE n == h.list[i]
           r == Released(h, i)
           B == Blocks(NodesOf(h.list))
           C == Blocks(NodesOf(r.list))
<1>1. Spread(B) /\ Sound(n) /\ Laid(n) /\ n \in B
  BY BlockAt
<1>2. C = B \ {n}
  BY ReleasedInOrder
<1>3. /\ r.mem = IF PAGEALLOC THEN h.mem
                 ELSE Fill(h.mem, Run(Wrap(Low(n)), Wrap(High(n) - Low(n))), "free")
      /\ r.access = IF PAGEALLOC THEN Protect(h.access, n.block, n.size, "none")
                    ELSE h.access
      /\ r.watch = h.watch \ OverArea(n)
  BY DEF Released
<1>4. Guards(B, H, h.mem, h.access, h.watch)
  BY DEF GuardsOf
<1> HIDE DEF n, r, B, C
<1>5. Wrap(Low(n)) = Low(n) /\ Wrap(High(n) - Low(n)) = High(n) - Low(n)
  <2>1. Low(n) \in 0..WORD - 1
    BY <1>1, SoundFacts, WordFacts
  <2> QED BY <1>1, <2>1, ReleasedNode, WrapSame
<1>6. r.mem = IF PAGEALLOC THEN h.mem
              ELSE Fill(h.mem, Run(Low(n), High(n) - Low(n)), "free")
  BY <1>3, <1>5
<1>7. DOMAIN h.mem = Bytes /\ DOMAIN h.access = HEAPPAGES
  BY <1>4 DEF Guards
<1>8. /\ Elsewhere(Low(n), High(n), h.mem, r.mem, h.access, r.access)
      /\ ClosedUp(n, r.mem, h.access, r.access)
  <2>1. r.access = IF PAGEALLOC THEN Protect(h.access, n.block, n.size, "none")
                   ELSE h.access
    BY <1>3
  <2> QED BY <1>1, <1>6, <1>7, <2>1, ReleasedMemory, Zenon
<1>9. Guards(C, H, r.mem, r.access, r.watch)
  BY <1>1, <1>2, <1>3, <1>4, <1>8, DropBlock, Zenon
<1> QED BY <1>9 DEF GuardsOf, C, r

LEMMA KeptGuards ==
  ASSUME RequestsFit, NEW h, NEW ta, NEW M, InOrder(h.list, ta, h.gsize, h.fsize, M),
         NEW i \in 1..Len(h.list), h.list[i].kind = "alloc",
         NEW H, H \subseteq HEAPPAGES, GuardsOf(h, H)
  PROVE  GuardsOf(Kept(h, i), H)
<1> DEFINE n == h.list[i]
           e == AsFreed(h.list[i])
           r == Kept(h, i)
           B == Blocks(NodesOf(h.list))
           C == Blocks(NodesOf(r.list))
<1>1. Spread(B) /\ Sound(n) /\ Laid(n) /\ n \in B
  <2>1. ~Free(h.list[i])
    BY DEF Free
  <2> QED BY <2>1, BlockAt
<1>2. C = (B \ {n}) \cup {e}
  BY KeptInOrder
<1>3. /\ r.mem = IF PAGEALLOC \/ PRESERVE THEN h.mem
                 ELSE Fill(h.mem, Run(n.block, n.size), "free")
      /\ r.access = IF PAGEALLOC
                    THEN Protect(h.access, n.block, n.size,
                                 IF PRESERVE THEN "ro" ELSE "none")
                    ELSE h.access
      /\ r.watch = IF PAGEALLOC /\ ~PRESERVE THEN h.watch \ OverArea(n)
                   ELSE h.watch
  BY DEF Kept
<1>4. Guards(B, H, h.mem, h.access, h.watch)
  BY DEF GuardsOf
<1>5. n.kind = "alloc" /\ e = AsFreed(n)
  OBVIOUS
<1> HIDE DEF n, e, r, B, C
<1>6. /\ Sound(e) /\ e.kind = "freed" /\ e.size = n.size /\ e.block = n.block
      /\ Low(e) = Low(n) /\ High(e) = High(n)
  BY <1>1, <1>5, FreedNode
<1>7. Laid(e)
  BY <1>6, BlockLaid DEF Free
<1>8. DOMAIN h.mem = Bytes /\ DOMAIN h.access = HEAPPAGES /\ Guarded(n, h.mem, h.access)
  BY <1>1, <1>4 DEF Guards
<1>9. /\ Elsewhere(Low(n), High(n), h.mem, r.mem, h.access, r.access)
      /\ Guarded(e, r.mem, r.access)
      /\ Reshaped(n, e, High(n), r.mem, h.access, r.access)
  <2>1. /\ n.kind = "alloc" /\ Laid(n) /\ Laid(AsFreed(n))
        /\ n.block = AsFreed(n).block /\ n.size = AsFreed(n).size
        /\ AsFreed(n).kind = "freed"
        /\ Low(AsFreed(n)) = Low(n) /\ High(AsFreed(n)) = High(n)
    BY <1>1, <1>5, <1>6, <1>7
  <2>2. r.access = IF PAGEALLOC
                   THEN Protect(h.access, n.block, n.size,
                                IF PRESERVE THEN "ro" ELSE "none")
                   ELSE h.access
    BY <1>3
  <2>3. r.mem = IF PAGEALLOC \/ PRESERVE THEN h.mem
                ELSE Fill(h.mem, Run(n.block, n.size), "free")
    BY <1>3
  <2>4. /\ Elsewhere(Low(n), High(n), h.mem, r.mem, h.access, r.access)
        /\ Guarded(AsFreed(n), r.mem, r.access)
        /\ Reshaped(n, AsFreed(n), High(n), r.mem, h.access, r.access)
    BY <1>8, <2>1, <2>2, <2>3, KeptMemory, Zenon
  <2> QED BY <1>5, <2>4, Zenon
<1>10. OverArea(e) = OverArea(n)
  <2>1. Base(e) = Base(n)
    BY <1>6 DEF Base
  <2>2. Span(e) = Span(n)
    BY <1>6, <2>1 DEF Span
  <2> QED BY <1>6, <2>1, <2>2, Zenon DEF OverArea, AreaBefore, AreaAfter
<1>11. r.watch = Watched(C)
  <2> DEFINE w == h.watch
             D == OverArea(n)
  <2>1. w = Watched(B)
    BY <1>4 DEF Guards
  <2>2. Watched(B \ {n}) = w \ D
    BY <1>1, <2>1, WatchedWithout
  <2>3. Watched(C) = (w \ D) \cup IF Watches(e) THEN D ELSE {}
    BY <1>2, <1>10, <2>2, WatchedWith
  <2>4. r.watch = IF PAGEALLOC /\ ~PRESERVE THEN w \ D ELSE w
    BY <1>3
  <2>5. CASE ~OFLOWWATCH
    <3>1. Watched(C) = {} /\ w = {}
      BY <2>1, <2>5, NoneWatched
    <3> QED BY <2>4, <3>1
  <2>6. CASE OFLOWWATCH /\ PAGEALLOC /\ ~PRESERVE
    <3>1. ~Watches(e)
      BY <1>6, <2>6 DEF Watches
    <3> HIDE DEF w, D
    <3>2. Watched(C) = (w \ D) \cup {}
      BY <2>3, <3>1
    <3> QED BY <2>4, <2>6, <3>2
  <2>7. CASE OFLOWWATCH /\ ~(PAGEALLOC /\ ~PRESERVE)
    <3>1. Watches(e) /\ Watches(n)
      BY <1>5, <1>6, <2>7 DEF Watches
    <3>2. \A x : x \in D => x \in w
      <4>1. \A x : x \in OverArea(n) => x \in Watched(B)
        BY <1>1, <3>1, WatchedAt, Zenon
      <4> QED BY <2>1, <4>1
    <3> HIDE DEF w, D
    <3>3. Watched(C) = (w \ D) \cup D
      BY <2>3, <3>1
    <3> QED BY <2>4, <2>7, <3>2, <3>3
  <2> QED BY <2>5, <2>6, <2>7
<1>12. \A x \in B \ {n} : BeyondOf(x, Low(n), High(n))
  BY <1>1 DEF Spread
<1>13. Guards(C, H, r.mem, r.access, r.watch)
  <2>1. /\ Spread(B) /\ n \in B /\ C = Instead(B, n, e)
    BY <1>1, <1>2 DEF Instead
  <2> QED BY <1>4, <1>7, <1>9, <1>11, <1>12, <2>1, ChangeBlock, Zenon
<1> QED BY <1>13 DEF GuardsOf, C, r

-----------------------------------------------------------------------------
(***************************************************************************)
(* A free node is split                                                    *)
(***************************************************************************)
\* What splitnode() and its caller do to the memory of a new block.
LEMMA SplitMemory ==
  ASSUME NEW n, Laid(n), n.kind = "alloc", NEW asked \in Nat, asked <= n.size,
         NEW m, DOMAIN m = Bytes, NEW ac, DOMAIN ac = HEAPPAGES,
         NEW q, q = Fill(FillOver(m, OverArea(n)), Run(n.block, asked), "user"),
         NEW bc, bc = (IF PAGEALLOC THEN Protect(ac, Base(n), Span(n), "rw") ELSE ac)
  PROVE  /\ Elsewhere(Low(n), High(n), m, q, ac, bc)
         /\ Guarded(n, q, bc) /\ Opened(n, ac, bc)
<1> DEFINE b == n.block
           l == n.size
           F == FillOver(m, OverArea(n))
<1>1. /\ Low(n) \in Nat /\ High(n) \in Nat /\ b \in Nat /\ l \in Nat
      /\ Low(n) <= From(n) /\ From(n) <= b /\ b + l <= To(n) /\ To(n) <= High(n)
      /\ From(n) \in Nat /\ To(n) \in Nat
  BY BlockEdged DEF Laid, Edges
<1>2. /\ DOMAIN F = Bytes
      /\ \A x \in Bytes : F[x] = IF ~OFLOWWATCH /\ Around(n, x) THEN "over" ELSE m[x]
  <2>1. \A x \in Bytes : x \in OverArea(n) <=> Around(n, x)
    BY OverAreaIs, BytesNat
  <2>2. CASE OFLOWWATCH
    BY <2>2 DEF FillOver
  <2>3. CASE ~OFLOWWATCH
    <3>1. F = Fill(m, OverArea(n), "over")
      BY <2>3 DEF FillOver
    <3> QED BY <2>1, <2>3, <3>1, FillAt
  <2> QED BY <2>2, <2>3
<1> HIDE DEF F
<1>3. /\ DOMAIN q = Bytes
      /\ \A x \in Bytes : q[x] = IF b <= x /\ x < b + asked THEN "user" ELSE F[x]
  <2>1. /\ DOMAIN q = Bytes
        /\ \A x \in Bytes : q[x] = IF x \in Run(b, asked) THEN "user" ELSE F[x]
    BY <1>2, FillAt DEF F
  <2>2. \A x \in Bytes : x \in Run(b, asked) <=> b <= x /\ x < b + asked
    BY <1>1, BytesNat, RunAt
  <2> QED BY <2>1, <2>2
<1>4. /\ DOMAIN bc = HEAPPAGES
      /\ ~PAGEALLOC => bc = ac
      /\ PAGEALLOC => \A p \in HEAPPAGES : bc[p] = IF OwnPage(n, p) THEN "rw" ELSE ac[p]
      /\ \A p \in HEAPPAGES : p + PAGE <= Low(n) \/ High(n) <= p => bc[p] = ac[p]
  <2>1. CASE ~PAGEALLOC
    BY <2>1
  <2>2. CASE PAGEALLOC
    <3>1. bc = Protect(ac, Base(n), Span(n), "rw")
      BY <2>2
    <3>2. OwnOnly(n, ac, "rw", bc)
      BY <2>2, <3>1, ProtectBlock
    <3> QED BY <2>2, <3>2 DEF OwnOnly
  <2> QED BY <2>1, <2>2
<1>5. \A x \in Bytes : Around(n, x) <=>
            (From(n) <= x /\ x < b) \/ (b + l <= x /\ x < To(n))
  BY DEF Around
<1> HIDE DEF b, l
<1>6. Elsewhere(Low(n), High(n), m, q, ac, bc)
  <2>1. ASSUME NEW x \in Bytes, x < Low(n) \/ High(n) <= x PROVE q[x] = m[x]
    <3>1. x \in Nat
      BY BytesNat
    <3>2. ~(b <= x /\ x < b + asked)
      BY <1>1, <2>1, <3>1 DEF l
    <3>3. ~Around(n, x)
      BY <1>1, <1>5, <2>1, <3>1
    <3> QED BY <1>2, <1>3, <3>2, <3>3
  <2> QED BY <1>1, <1>3, <1>4, <2>1 DEF Elsewhere
<1>7. Emptied(n, q)
  BY DEF Emptied
<1>8. Fenced(n, q)
  <2> SUFFICES ASSUME ~OFLOWWATCH, NEW x \in Bytes, Around(n, x) PROVE q[x] = "over"
    BY DEF Fenced
  <2>1. x \in Nat
    BY BytesNat
  <2>2. ~(b <= x /\ x < b + asked)
    BY <1>1, <1>5, <2>1 DEF l
  <2> QED BY <1>2, <1>3, <2>2
<1>9. Shielded(n, bc)
  <2>1. Shield(n) = "rw"
    BY DEF Shield
  <2> QED BY <1>4, <2>1 DEF Shielded
<1>10. Opened(n, ac, bc)
  BY <1>4 DEF Opened
<1> QED BY <1>6, <1>7, <1>8, <1>9, <1>10 DEF Guarded

\* The guards of the state that a call leaves.
GuardsThen(H) == Guards(Blocks(NodesOf(list')), H, mem', access', watch')

LEMMA SplitGuards ==
  ASSUME RequestsFit, NEW h, NEW ta, NEW M, InOrder(h.list, ta, h.gsize, h.fsize, M),
         NEW i \in 1..Len(h.list), Free(h.list[i]), NEW asked \in SIZES,
         NEW l, l = AtLeastOne(asked), NEW a \in 1..PAGE, Fits(h.list[i], l, a),
         NEW H, H \subseteq HEAPPAGES, GuardsOf(h, H),
         SplitNode(h, i, l, a, asked) \/ SplitFails(h)
  PROVE  GuardsThen(H)
<1>1. CASE SplitNode(h, i, l, a, asked)
  <2> DEFINE n == h.list[i]
             p == Pieces(n, l, a)
             e == Pieces(n, l, a).block
             B == Blocks(NodesOf(h.list))
             C == Blocks(NodesOf(list'))
  <2>1. /\ list' = SplitList(h.list, i, p)
        /\ mem' = Fill(FillOver(h.mem, OverArea(e)), Run(e.block, asked), "user")
        /\ access' = IF PAGEALLOC THEN Protect(h.access, Base(e), Span(e), "rw")
                     ELSE h.access
        /\ watch' = WatchOver(h.watch, OverArea(e))
    BY <1>1 DEF SplitNode, Becomes, SplitList
  <2>2. Sound(n)
    BY TiledFacts DEF InOrder
  <2>3. l \in Asked /\ asked \in Nat /\ asked <= l /\ l \in Nat
    <3>1. l \in Asked /\ asked \in Nat
      BY WordFacts, SizesAssumption DEF Asked
    <3> QED BY <3>1 DEF AtLeastOne
  <2>4. Guards(B, H, h.mem, h.access, h.watch)
    BY DEF GuardsOf
  <2>5. Free(n) /\ Fits(n, l, a) /\ e = p.block /\ n = h.list[i]
    OBVIOUS
  <2> HIDE DEF n
  <2>6. \E c \in Nat, d \in Nat : Cut(p, n, l, c, d)
    <3>1. CASE PAGEALLOC
      BY <2>2, <2>3, <2>5, <3>1, PiecesOfPages
    <3>2. CASE ~PAGEALLOC
      BY <2>2, <2>3, <2>5, <3>2, PiecesOfBytes
    <3> QED BY <3>1, <3>2
  <2> HIDE DEF p, e
  <2>7. PICK c \in Nat, d \in Nat : Cut(p, n, l, c, d)
    BY <2>6
  <2>8. Cut(p, h.list[i], l, c, d)
    BY <2>5, <2>7
  <2>9. /\ InOrder(SplitList(h.list, i, p), Wrap(ta + p.block.size), h.gsize,
                   Wrap(h.fsize - h.list[i].size + p.unused), M)
        /\ Blocks(NodesOf(SplitList(h.list, i, p)))
              = Blocks(NodesOf(h.list)) \cup {p.block}
        /\ p.block \notin NodesOf(h.list)
    BY <2>3, <2>8, SplitInOrder, Zenon
  <2>10. Sound(e) /\ e.kind = "alloc" /\ e.size = l
    BY <2>5, <2>7 DEF Cut
  <2>11. Laid(e)
    BY <2>10, BlockLaid DEF Free
  <2>12. C = B \cup {e} /\ e \notin B
    BY <2>1, <2>5, <2>9 DEF Blocks
  <2>13. Spread(C)
    <3>1. list' \in Seq(NodeType) /\ Tiled(list')
      BY <2>1, <2>9 DEF InOrder
    <3> QED BY <3>1, BlocksSpread
  <2>14. /\ Elsewhere(Low(e), High(e), h.mem, mem', h.access, access')
         /\ Guarded(e, mem', access') /\ Opened(e, h.access, access')
    <3>1. DOMAIN h.mem = Bytes /\ DOMAIN h.access = HEAPPAGES
      BY <2>4 DEF Guards
    <3>2. asked \in Nat /\ asked <= e.size /\ e.kind = "alloc"
      BY <2>3, <2>10
    <3>3. mem' = Fill(FillOver(h.mem, OverArea(e)), Run(e.block, asked), "user")
      BY <2>1
    <3>4. access' = IF PAGEALLOC THEN Protect(h.access, Base(e), Span(e), "rw")
                    ELSE h.access
      BY <2>1
    <3> QED BY <2>11, <3>1, <3>2, <3>3, <3>4, SplitMemory, Zenon
  <2> HIDE DEF B, C
  <2>15. Guards(C, H, mem', access', watch')
    <3>1. C = With(B, e) /\ e \notin B
      BY <2>12 DEF With
    <3>2. e.kind = "alloc" /\ watch' = WatchOver(h.watch, OverArea(e))
      BY <2>1, <2>10
    <3> QED BY <2>4, <2>13, <2>14, <3>1, <3>2, AddBlock
  <2> QED BY <2>15 DEF GuardsThen, C
<1>2. CASE SplitFails(h)
  <2>1. /\ list' = h.list /\ mem' = h.mem /\ access' = h.access /\ watch' = h.watch
    BY <1>2 DEF SplitFails, Becomes
  <2> QED BY <2>1 DEF GuardsThen, GuardsOf
<1> QED BY <1>1, <1>2

-----------------------------------------------------------------------------
(***************************************************************************)
(* Memory from the system                                                  *)
(***************************************************************************)
LEMMA FreshMemory ==
  ASSUME NEW lo \in Nat, NEW s \in Nat, s > 0, NEW P, P = PagesOf(lo, s),
         HeapBytes(P) = lo .. (lo + s) - 1,
         NEW m, DOMAIN m = Bytes, NEW ac, DOMAIN ac = HEAPPAGES,
         NEW q, q = (IF PAGEALLOC THEN m ELSE Fill(m, Run(lo, s), "free")),
         NEW bc, bc = (IF PAGEALLOC THEN Protect(ac, lo, s, "none") ELSE ac)
  PROVE  Elsewhere(lo, lo + s, m, q, ac, bc) /\ Fresh(P, lo, lo + s, q, ac, bc)
<1>1. PAGE \in Nat /\ PAGE > 0 /\ lo + s \in Nat
  BY WordFacts
<1>2. /\ DOMAIN q = Bytes
      /\ \A x \in Bytes : x < lo \/ lo + s <= x => q[x] = m[x]
      /\ ~PAGEALLOC => \A x \in Bytes : lo <= x /\ x < lo + s => q[x] = "free"
  <2>1. CASE PAGEALLOC
    BY <2>1
  <2>2. CASE ~PAGEALLOC
    <3>1. /\ DOMAIN q = Bytes
          /\ \A x \in Bytes : q[x] = IF x \in Run(lo, s) THEN "free" ELSE m[x]
      BY <2>2, FillAt
    <3>2. \A x \in Bytes : x \in Nat /\ (x \in Run(lo, s) <=> lo <= x /\ x < lo + s)
      BY BytesNat, RunAt
    <3> QED BY <3>1, <3>2
  <2> QED BY <2>1, <2>2
<1>3. /\ DOMAIN bc = HEAPPAGES
      /\ ~PAGEALLOC => bc = ac
      /\ \A p \in HEAPPAGES : p + PAGE <= lo \/ lo + s <= p => bc[p] = ac[p]
      /\ PAGEALLOC => \A p \in HEAPPAGES : /\ p \in P => bc[p] = "none"
                                           /\ bc[p] = ac[p] \/ bc[p] = "none"
  <2>1. CASE ~PAGEALLOC
    BY <2>1
  <2>2. CASE PAGEALLOC
    <3>1. /\ DOMAIN bc = HEAPPAGES
          /\ \A p \in HEAPPAGES :
                bc[p] = IF s > 0 /\ p + PAGE > lo /\ p < lo + s THEN "none" ELSE ac[p]
      BY <2>2, ProtectAt
    <3>2. \A p \in HEAPPAGES : p \in Nat /\ (p \in P => lo <= p /\ p < lo + s)
      BY PagesNat DEF PagesOf
    <3>3. \A p \in HEAPPAGES : p + PAGE <= lo \/ lo + s <= p => bc[p] = ac[p]
      BY <1>1, <3>1, <3>2
    <3>4. \A p \in HEAPPAGES : /\ p \in P => bc[p] = "none"
                               /\ bc[p] = ac[p] \/ bc[p] = "none"
      BY <1>1, <3>1, <3>2
    <3> QED BY <2>2, <3>1, <3>3, <3>4
  <2> QED BY <2>1, <2>2
<1>4. Elsewhere(lo, lo + s, m, q, ac, bc)
  BY <1>1, <1>2, <1>3 DEF Elsewhere
<1>5. Fresh(P, lo, lo + s, q, ac, bc)
  BY <1>2, <1>3 DEF Fresh
<1> QED BY <1>4, <1>5

LEMMA ExtendedGuards ==
  ASSUME RequestsFit, InOrder(list, asize, gsize, fsize, HeapBytes(heap)),
         heap \subseteq HEAPPAGES, NEW s, Whole(s), NEW p \in HeapAlloc(s),
         NEW at \in InsertAfter(p), NEW t, GuardsOf(Now, heap)
  PROVE  GuardsOf(ExtendedState(t, at, p, s), heap \cup PagesOf(p, s))
<1> DEFINE h == ExtendedState(t, at, p, s)
           q == Extended(at, p, s).node
           B == Blocks(NodesOf(list))
           P == PagesOf(p, s)
<1>1. /\ h.mem = IF PAGEALLOC THEN mem ELSE Fill(mem, Run(p, s), "free")
      /\ h.access = IF PAGEALLOC THEN Protect(access, p, s, "none") ELSE access
      /\ h.watch = watch
  BY DEF ExtendedState
<1>2. Grown(h, q, p, s)
  BY ExtendedOrder
<1>3. /\ p \in Nat /\ HeapBytes(P) = p .. p + s - 1
  BY NewMemory
<1>4. s \in Nat /\ s > 0
  BY DEF Whole
<1>5. Guards(B, heap, mem, access, watch)
  BY DEF GuardsOf, Now
<1>6. P \subseteq HEAPPAGES /\ P = PagesOf(p, s)
  BY DEF PagesOf
<1> HIDE DEF h, q, B, P
<1>7. Blocks(NodesOf(h.list)) = B /\ Spread(B)
  <2>1. Blocks(NodesOf(h.list)) = B
    BY <1>2 DEF Grown, B
  <2>2. Spread(B)
    <3>1. list \in Seq(NodeType) /\ Tiled(list)
      BY DEF InOrder
    <3> QED BY <3>1, BlocksSpread DEF B
  <2> QED BY <2>1, <2>2
<1>8. \A r \in B : BeyondOf(r, p, p + s)
  <2> SUFFICES ASSUME NEW r \in B PROVE High(r) <= p \/ p + s <= Low(r)
    BY DEF BeyondOf
  <2> DEFINE L == h.list
  <2>1. /\ L \in Seq(NodeType) /\ Tiled(L) /\ q \in 1..Len(L) /\ Free(L[q])
        /\ Low(L[q]) <= p /\ p + s <= High(L[q])
    BY <1>2 DEF Grown, InOrder
  <2>2. r \in NodesOf(L) /\ r # L[q] /\ L[q] \in NodesOf(L)
    <3>1. r \in Blocks(NodesOf(L))
      BY <1>7
    <3> QED BY <2>1, <3>1 DEF Blocks, NodesOf
  <2> HIDE DEF L
  <2>3. /\ High(r) <= Low(L[q]) \/ High(L[q]) <= Low(r)
        /\ Sound(r) /\ Sound(L[q])
    BY <2>1, <2>2, TiledApt DEF Apt
  <2>4. /\ Low(r) \in Nat /\ High(r) \in Nat /\ Low(L[q]) \in Nat /\ High(L[q]) \in Nat
    BY <2>3, SoundFacts
  <2> QED BY <1>3, <1>4, <2>1, <2>3, <2>4
<1>9. /\ Elsewhere(p, p + s, mem, h.mem, access, h.access)
      /\ Fresh(P, p, p + s, h.mem, access, h.access)
  <2>1. HeapBytes(P) = p .. (p + s) - 1
    <3>1. (p + s) - 1 = p + s - 1
      BY <1>3, <1>4
    <3> QED BY <1>3, <3>1, Zenon
  <2>2. DOMAIN mem = Bytes /\ DOMAIN access = HEAPPAGES
    BY <1>5 DEF Guards
  <2>3. h.mem = IF PAGEALLOC THEN mem ELSE Fill(mem, Run(p, s), "free")
    BY <1>1
  <2>4. h.access = IF PAGEALLOC THEN Protect(access, p, s, "none") ELSE access
    BY <1>1
  <2>5. p \in Nat /\ s \in Nat /\ s > 0
    BY <1>3, <1>4
  <2> QED BY <1>6, <2>1, <2>2, <2>3, <2>4, <2>5, FreshMemory, Zenon
<1>10. Guards(B, heap \cup P, h.mem, h.access, watch)
  BY <1>5, <1>6, <1>7, <1>8, <1>9, AddMemory, Zenon
<1> QED BY <1>1, <1>7, <1>10 DEF GuardsOf, h, P

-----------------------------------------------------------------------------
(***************************************************************************)
(* The operations but for resizing                                         *)
(***************************************************************************)
\* The inductive invariant.
GuardInv == GuardsOf(Now, heap)

LEMMA NowIs ==
  /\ Now.list = list /\ Now.gsize = gsize /\ Now.fsize = fsize
  /\ Now.mem = mem /\ Now.access = access /\ Now.watch = watch
BY DEF Now

LEMMA InvThen ==
  ASSUME GuardsThen(heap') PROVE GuardInv'
BY DEF GuardsThen, GuardInv, GuardsOf, Now

\* A call that touches nothing that is guarded.
LEMMA QuietGuards ==
  ASSUME GuardInv, UNCHANGED <<list, heap, mem, access, watch>>
  PROVE  GuardInv'
BY DEF GuardInv, GuardsOf, Now

LEMMA BecomesGuards ==
  ASSUME NEW h, Becomes(h), GuardsOf(h, heap), heap' = heap
  PROVE  GuardInv'
<1>1. list' = h.list /\ mem' = h.mem /\ access' = h.access /\ watch' = h.watch
  BY DEF Becomes
<1>2. GuardsThen(heap')
  BY <1>1 DEF GuardsThen, GuardsOf
<1> QED BY <1>2, InvThen

LEMMA HeapNow ==
  ASSUME HeapInv
  PROVE  /\ InOrder(Now.list, asize, Now.gsize, Now.fsize, HeapBytes(heap))
         /\ heap \subseteq HEAPPAGES
BY NowIs DEF HeapInv, HeapOrder, IInv, Others

LEMMA FreeallocDropGuards ==
  ASSUME RequestsFit, HeapInv, GuardInv, NEW i \in 1..Len(list), FreeallocDrop(i)
  PROVE  GuardInv'
<1>1. Becomes(Released(Now, i)) /\ heap' = heap /\ list[i].kind = "alloc"
  BY DEF FreeallocDrop
<1>2. i \in 1..Len(Now.list) /\ ~Free(Now.list[i])
  BY <1>1, NowIs DEF Free
<1>3. GuardsOf(Released(Now, i), heap)
  BY <1>2, HeapNow, ReleasedGuards DEF GuardInv
<1> QED BY <1>1, <1>3, BecomesGuards

LEMMA RecycledGuards ==
  ASSUME RequestsFit, HeapInv, GuardInv, NEW h \in Recycled
  PROVE  GuardsOf(h, heap)
<1>1. PICK i \in IndexOf(list, Head(flist), "freed") : h = Released(Now, i)
  BY DEF Recycled
<1>2. i \in 1..Len(Now.list) /\ ~Free(Now.list[i])
  BY NowIs DEF IndexOf, Free
<1>3. GuardsOf(Released(Now, i), heap)
  BY <1>2, HeapNow, ReleasedGuards DEF GuardInv
<1> QED BY <1>1, <1>3

LEMMA OptNofreeRecycleGuards ==
  ASSUME RequestsFit, HeapInv, GuardInv, OptNofreeRecycle
  PROVE  GuardInv'
<1>1. PICK h \in Recycled : Becomes(h)
  BY DEF OptNofreeRecycle
<1>2. heap' = heap
  BY DEF OptNofreeRecycle
<1> QED BY <1>1, <1>2, RecycledGuards, BecomesGuards

LEMMA FreeallocKeepGuards ==
  ASSUME RequestsFit, HeapInv, GuardInv, NEW i \in 1..Len(list), FreeallocKeep(i)
  PROVE  GuardInv'
<1> DEFINE full == flist # <<>> /\ Len(flist) = fmax
<1>1. PICK h \in IF full THEN Recycled ELSE {Now} :
        \E j \in IndexOf(h.list, list[i].block, "alloc") : Becomes(Kept(h, j))
  BY DEF FreeallocKeep
<1>2. PICK j \in IndexOf(h.list, list[i].block, "alloc") : Becomes(Kept(h, j))
  BY <1>1
<1>3. heap' = heap
  BY DEF FreeallocKeep
<1>4. InOrder(h.list, asize, h.gsize, h.fsize, HeapBytes(heap)) /\ GuardsOf(h, heap)
  <2>1. CASE full
    <3>1. h \in Recycled
      BY <1>1, <2>1
    <3>2. PICK n : Recycling(h, n)
      BY <2>1, <3>1, RecycledInOrder
    <3> QED BY <3>1, <3>2, RecycledGuards DEF Recycling
  <2>2. CASE ~full
    <3>1. h = Now
      BY <1>1, <2>2
    <3> QED BY <3>1, HeapNow DEF GuardInv
  <2> QED BY <2>1, <2>2
<1>5. j \in 1..Len(h.list) /\ h.list[j].kind = "alloc"
  BY <1>2 DEF IndexOf
<1>6. GuardsOf(Kept(h, j), heap)
  BY <1>4, <1>5, HeapNow, KeptGuards
<1> QED BY <1>2, <1>3, <1>6, BecomesGuards

LEMMA GetallocReuseGuards ==
  ASSUME RequestsFit, HeapInv, GuardInv, NEW asked \in SIZES, NEW al \in ALIGNS,
         GetallocReuse(asked, al)
  PROVE  GuardInv'
<1> DEFINE l == AtLeastOne(asked)
           a == Alignment(al)
<1>1. heap' = heap
  BY DEF GetallocReuse
<1>2. PICK i \in BestFits(Need(l, a)) :
        SplitNode(Now, i, l, a, asked) \/ SplitFails(Now)
  BY DEF GetallocReuse
<1>3. l \in Asked /\ a \in 1..PAGE
  BY WordFacts DEF Asked
<1>4. i \in 1..Len(list) /\ Free(list[i]) /\ Fits(list[i], l, a)
  BY <1>2, <1>3, BestFit
<1>5. i \in 1..Len(Now.list) /\ Free(Now.list[i]) /\ Fits(Now.list[i], l, a)
  BY <1>4, NowIs
<1> HIDE DEF a
<1>6. l = AtLeastOne(asked)
  OBVIOUS
<1> HIDE DEF l
<1>7. GuardsThen(heap)
  BY <1>2, <1>3, <1>5, <1>6, HeapNow, SplitGuards DEF GuardInv
<1> QED BY <1>1, <1>7, InvThen

LEMMA GetallocFreshGuards ==
  ASSUME RequestsFit, HeapInv, GuardInv, NEW asked \in SIZES, NEW al \in ALIGNS,
         GetallocFresh(asked, al)
  PROVE  GuardInv'
<1> DEFINE l == AtLeastOne(asked)
           a == Alignment(al)
           s == HeapSize(RoundUp(l + 2 * Oflow, PAGE))
<1>1. PICK t \in GetNode(table), p \in HeapAlloc(s) :
        \E at \in InsertAfter(p) :
          /\ heap' = heap \cup PagesOf(p, s)
          /\ \/ SplitNode(ExtendedState(t, at, p, s), Extended(at, p, s).node,
                          l, a, asked)
             \/ SplitFails(ExtendedState(t, at, p, s))
  BY DEF GetallocFresh
<1>2. PICK at \in InsertAfter(p) :
        /\ heap' = heap \cup PagesOf(p, s)
        /\ \/ SplitNode(ExtendedState(t, at, p, s), Extended(at, p, s).node,
                        l, a, asked)
           \/ SplitFails(ExtendedState(t, at, p, s))
  BY <1>1
<1>3. /\ InOrder(list, asize, gsize, fsize, HeapBytes(heap))
      /\ heap \subseteq HEAPPAGES
  BY HeapNow, NowIs
<1>4. l \in Asked /\ a \in 1..PAGE /\ l = AtLeastOne(asked)
  BY WordFacts DEF Asked
<1>5. p \in HEAPPAGES
  BY DEF HeapAlloc
<1> HIDE DEF l
<1>6. Whole(s)
  BY <1>4, FreshSize
<1>7. s = HeapSize(RoundUp(l + 2 * Oflow, PAGE))
  OBVIOUS
<1> DEFINE h == ExtendedState(t, at, p, s)
           q == Extended(at, p, s).node
           H == heap \cup PagesOf(p, s)
<1> HIDE DEF s
<1>8. Grown(h, q, p, s)
  BY <1>3, <1>6, ExtendedOrder
<1>9. GuardsOf(h, H)
  BY <1>3, <1>6, ExtendedGuards DEF GuardInv
<1>10. SplitNode(h, q, l, a, asked) \/ SplitFails(h)
  BY <1>2
<1>11. H \subseteq HEAPPAGES
  BY <1>3 DEF PagesOf
<1>12. heap' = H
  BY <1>2
<1>13. /\ InOrder(h.list, asize, h.gsize, h.fsize, HeapBytes(H))
       /\ q \in 1..Len(h.list) /\ Free(h.list[q])
       /\ Low(h.list[q]) <= p /\ p + s <= High(h.list[q])
  BY <1>8 DEF Grown
<1> HIDE DEF h, q, H
<1>14. Fits(h.list[q], l, a)
  <2>1. Sound(h.list[q])
    BY <1>13, TiledFacts DEF InOrder
  <2> QED BY <1>4, <1>5, <1>7, <1>13, <2>1, FreshFits
<1> HIDE DEF a
<1>15. GuardsThen(H)
  BY <1>4, <1>9, <1>10, <1>11, <1>13, <1>14, SplitGuards
<1> QED BY <1>12, <1>15, InvThen

-----------------------------------------------------------------------------
(***************************************************************************)
(* A block is resized                                                      *)
(***************************************************************************)
\* Block e is block n with another size.
Resize(n, e) ==
    /\ n.kind = "alloc" /\ e.kind = "alloc" /\ e.block = n.block
    /\ Laid(n) /\ Laid(e) /\ Base(e) = Base(n) /\ Low(e) = Low(n)

\* Up to hi block n becomes block e: from m to k the bytes between them are
\* filled, and from ac to bc their pages are opened or closed.
Stretched(n, e, hi, m, k, ac, bc) ==
    /\ hi \in Nat /\ High(n) <= hi /\ High(e) <= hi
    /\ DOMAIN k = Bytes
    /\ \A x \in Bytes : x < High(e) \/ hi <= x => k[x] = m[x]
    /\ ~PAGEALLOC => \A x \in Bytes : High(e) <= x /\ x < hi => k[x] = "free"
    /\ DOMAIN bc = HEAPPAGES /\ (~PAGEALLOC => bc = ac)
    /\ \A p \in HEAPPAGES : p + PAGE <= Low(n) \/ hi <= p => bc[p] = ac[p]
    /\ Shielded(e, bc)

LEMMA LaidLong ==
  ASSUME NEW n, Laid(n)
  PROVE  Low(n) \in Nat /\ High(n) \in Nat /\ Low(n) < High(n)
<1> DEFINE b == n.block
           l == n.size
           B == Base(n)
           E == Base(n) + Span(n)
<1>1. /\ Low(n) \in Nat /\ High(n) \in Nat /\ Oflow \in Nat
      /\ b \in Nat /\ l \in Nat /\ l > 0 /\ B \in Nat /\ E \in Nat
      /\ B <= b /\ b + l <= E /\ Low(n) = B - Oflow /\ High(n) = E + Oflow
  BY DEF Laid
<1> HIDE DEF b, l, B, E
<1> QED BY <1>1

LEMMA ResizedMemory ==
  ASSUME ~(PAGEALLOC /\ ALLOCUPPER), NEW n, NEW e, Resize(n, e),
         NEW hi, NEW m, NEW k, NEW ac, NEW bc, Stretched(n, e, hi, m, k, ac, bc),
         Guarded(n, m, ac), NEW asked \in Nat, asked <= e.size,
         NEW q, q = Fill(FillOver(k, AreaAfter(e)),
                         Run(n.block + n.size, asked - n.size), "user")
  PROVE  /\ Elsewhere(Low(n), hi, m, q, ac, bc)
         /\ Guarded(e, q, bc) /\ Reshaped(n, e, hi, q, ac, bc)
<1> DEFINE b == n.block
           l == n.size
           z == e.size
           F == FillOver(k, AreaAfter(e))
           f == From(e)
           t == To(e)
<1>1. /\ Low(n) \in Nat /\ High(n) \in Nat /\ b \in Nat /\ l \in Nat /\ z \in Nat
      /\ High(e) \in Nat /\ Low(e) = Low(n) /\ e.block = b
      /\ f \in Nat /\ t \in Nat /\ l > 0 /\ z > 0
      /\ Low(n) <= f /\ f <= b /\ b + z <= t /\ t <= High(e)
  <2>1. Edges(e) /\ Laid(e) /\ Laid(n) /\ Low(e) = Low(n) /\ e.block = b
    BY BlockEdged DEF Resize
  <2> QED BY <2>1 DEF Edges, Laid
<1>2. /\ hi \in Nat /\ High(n) <= hi /\ High(e) <= hi
      /\ \A x \in Bytes : x < High(e) \/ hi <= x => k[x] = m[x]
      /\ ~PAGEALLOC => \A x \in Bytes : High(e) <= x /\ x < hi => k[x] = "free"
  BY DEF Stretched
<1>3. From(n) = f
  BY DEF From, Resize
<1>4. /\ DOMAIN F = Bytes
      /\ \A x \in Bytes :
            F[x] = IF ~OFLOWWATCH /\ b + z <= x /\ x < t THEN "over" ELSE k[x]
  <2>1. \A x \in Bytes : x \in AreaAfter(e) <=> b + z <= x /\ x < t
    <3>1. AreaAfter(e) = b + z .. t - 1
      BY <1>1, AreasAre DEF Resize
    <3> HIDE DEF b, z, t
    <3>2. \A x \in Bytes : x \in b + z .. t - 1 <=> b + z <= x /\ x < t
      BY <1>1, BytesNat
    <3> QED BY <3>1, <3>2
  <2>2. DOMAIN k = Bytes
    BY DEF Stretched
  <2>3. CASE OFLOWWATCH
    BY <2>2, <2>3 DEF FillOver
  <2>4. CASE ~OFLOWWATCH
    <3>1. F = Fill(k, AreaAfter(e), "over")
      BY <2>4 DEF FillOver
    <3> HIDE DEF F, b, z, t
    <3> QED BY <2>1, <2>2, <2>4, <3>1, FillAt
  <2> QED BY <2>3, <2>4
<1> HIDE DEF F, f, t, z
<1>5. /\ DOMAIN q = Bytes
      /\ \A x \in Bytes : q[x] = IF b + l <= x /\ x < b + asked THEN "user" ELSE F[x]
  <2>1. /\ DOMAIN q = Bytes
        /\ \A x \in Bytes :
            q[x] = IF x \in Run(b + l, asked - l) THEN "user" ELSE F[x]
    BY <1>4, FillAt DEF F
  <2>2. b + l \in Int /\ asked - l \in Int /\ (b + l) + (asked - l) = b + asked
    BY <1>1
  <2>3. \A x \in Bytes : x \in Int
    BY BytesNat
  <2> HIDE DEF b, l
  <2>4. \A x \in Bytes : x \in Run(b + l, asked - l)
            <=> b + l <= x /\ x < (b + l) + (asked - l)
    BY <2>2, <2>3, RunAt
  <2> QED BY <2>1, <2>2, <2>4
<1> HIDE DEF b, l
<1>6. asked <= z
  BY DEF z
<1>7. Elsewhere(Low(n), hi, m, q, ac, bc)
  <2>1. ASSUME NEW x \in Bytes, x < Low(n) \/ hi <= x PROVE q[x] = m[x]
    <3>1. x \in Nat
      BY BytesNat
    <3>2. ~(b + l <= x /\ x < b + asked)
      BY <1>1, <1>2, <1>6, <2>1, <3>1
    <3>3. ~(b + z <= x /\ x < t) /\ (x < High(e) \/ hi <= x)
      BY <1>1, <1>2, <2>1, <3>1
    <3> QED BY <1>2, <1>4, <1>5, <3>2, <3>3
  <2> QED BY <1>1, <1>2, <1>5, <2>1 DEF Elsewhere, Stretched
<1>8. Emptied(e, q)
  BY DEF Emptied, Resize
<1>9. Fenced(e, q)
  <2> SUFFICES ASSUME ~OFLOWWATCH, NEW x \in Bytes, Around(e, x) PROVE q[x] = "over"
    BY DEF Fenced
  <2>1. x \in Nat
    BY BytesNat
  <2>2. (f <= x /\ x < b) \/ (b + z <= x /\ x < t)
    BY <1>1 DEF Around, f, t, z
  <2>3. CASE f <= x /\ x < b
    <3>1. m[x] = "over"
      <4>1. Around(n, x)
        BY <1>3, <2>3 DEF Around, b
      <4> QED BY <4>1 DEF Guarded, Fenced, Resize
    <3>2. ~(b + l <= x /\ x < b + asked) /\ ~(b + z <= x /\ x < t) /\ x < High(e)
      BY <1>1, <2>1, <2>3
    <3> QED BY <1>2, <1>4, <1>5, <3>1, <3>2
  <2>4. CASE b + z <= x /\ x < t
    <3>1. ~(b + l <= x /\ x < b + asked)
      BY <1>1, <1>6, <2>1, <2>4
    <3> QED BY <1>4, <1>5, <2>4, <3>1
  <2> QED BY <2>2, <2>3, <2>4
<1>10. Shielded(e, bc)
  BY DEF Stretched
<1>11. Reshaped(n, e, hi, q, ac, bc)
  <2>1. ASSUME ~PAGEALLOC, NEW x \in Bytes, High(e) <= x, x < hi PROVE q[x] = "free"
    <3>1. x \in Nat
      BY BytesNat
    <3>2. ~(b + l <= x /\ x < b + asked) /\ ~(b + z <= x /\ x < t)
      BY <1>1, <1>6, <2>1, <3>1
    <3> QED BY <1>2, <1>4, <1>5, <2>1, <3>2
  <2> QED BY <1>1, <1>2, <2>1 DEF Reshaped, Stretched
<1> QED BY <1>7, <1>8, <1>9, <1>10, <1>11 DEF Guarded

\* The watch points behind the block move with its end.
LEMMA ResizedWatch ==
  ASSUME NEW B, Spread(B), NEW n \in B, NEW e, Resize(n, e),
         NEW w, w = Watched(B)
  PROVE  WatchOver(w \ AreaAfter(n), AreaAfter(e)) = Watched(Instead(B, n, e))
<1> DEFINE D == AreaBefore(n)
           P == AreaAfter(n)
           Q == AreaAfter(e)
           C == Instead(B, n, e)
<1>1. CASE ~OFLOWWATCH
  <2>1. w = {} /\ Watched(C) = {}
    BY <1>1, NoneWatched
  <2> QED BY <1>1, <2>1 DEF WatchOver
<1>2. CASE OFLOWWATCH
  <2>1. Watches(n) /\ Watches(e)
    BY <1>2 DEF Watches, Resize
  <2>2. AreaBefore(e) = D
    <3>1. From(e) = From(n) /\ e.block = n.block /\ Laid(n) /\ Laid(e)
      BY DEF From, Resize
    <3> QED BY <3>1, AreasAre
  <2>3. OverArea(n) = D \cup P /\ OverArea(e) = D \cup Q
    BY <2>2 DEF OverArea
  <2>4. \A x : x \in D => x \notin P
    <3>1. D = From(n) .. n.block - 1 /\ P = n.block + n.size .. To(n) - 1
          /\ n.block \in Nat /\ n.size \in Nat /\ From(n) \in Nat /\ To(n) \in Nat
      BY AreasAre, BlockEdged DEF Resize, Laid, Edges
    <3> HIDE DEF D, P
    <3> QED BY <3>1
  <2>5. \A x : x \in OverArea(n) => x \in w
    BY <2>1, WatchedAt, Zenon
  <2>6. Watched(B \ {n}) = w \ OverArea(n)
    BY WatchedWithout
  <2>7. Watched(C) = (w \ OverArea(n)) \cup IF Watches(e) THEN OverArea(e) ELSE {}
    BY <2>6, WatchedWith DEF Instead
  <2> HIDE DEF C, D, P, Q
  <2>8. Watched(C) = (w \ (D \cup P)) \cup (D \cup Q)
    BY <2>1, <2>3, <2>7
  <2>9. WatchOver(w \ P, Q) = (w \ P) \cup Q
    BY <1>2 DEF WatchOver
  <2>10. \A x : x \in D => x \in w
    BY <2>3, <2>5
  <2>11. (w \ P) \cup Q = (w \ (D \cup P)) \cup (D \cup Q)
    BY <2>4, <2>10
  <2> QED BY <2>8, <2>9, <2>11 DEF C, P, Q
<1> QED BY <1>1, <1>2

LEMMA ResizedGuards ==
  ASSUME RequestsFit, ~(PAGEALLOC /\ ALLOCUPPER), HeapInv, HeapOrder', GuardInv,
         NEW i \in 1..Len(list), list[i].kind = "alloc", NEW l \in Asked,
         NEW e, e = [list[i] EXCEPT !.size = l], Became(list[i], e),
         NEW asked \in Nat, asked <= l, NEW hi, hi = High(list[i]) \/ hi = High(e),
         NEW k, Stretched(list[i], e, hi, mem, k, access, access'), heap' = heap,
         watch' = WatchOver(watch \ AreaAfter(list[i]), AreaAfter(e)),
         mem' = Fill(FillOver(k, AreaAfter(e)),
                     Run(list[i].block + list[i].size, asked - list[i].size), "user")
  PROVE  GuardInv'
<1> DEFINE n == list[i]
           B == Blocks(NodesOf(list))
           C == Blocks(NodesOf(list'))
<1>1. /\ Spread(B) /\ Sound(n) /\ Laid(n) /\ n \in B
  <2>1. /\ InOrder(Now.list, asize, Now.gsize, Now.fsize, HeapBytes(heap))
        /\ Now.list = list
    BY HeapNow, NowIs
  <2>2. i \in 1..Len(Now.list) /\ ~Free(Now.list[i])
    BY <2>1 DEF Free
  <2>3. /\ Spread(Blocks(NodesOf(Now.list))) /\ Sound(Now.list[i])
        /\ Laid(Now.list[i]) /\ Now.list[i] \in Blocks(NodesOf(Now.list))
    BY <2>1, <2>2, BlockAt
  <2> QED BY <2>1, <2>3
<1>2. C = Instead(B, n, e)
  BY DEF Became, Instead
<1>3. Spread(C)
  <2>1. list' \in Seq(NodeType) /\ Tiled(list')
    BY DEF HeapOrder, InOrder
  <2> QED BY <2>1, BlocksSpread
<1>4. Guards(B, heap, mem, access, watch)
  BY NowIs DEF GuardInv, GuardsOf
<1>5. /\ n \in NodeType /\ e.kind = "alloc" /\ e.block = n.block /\ e.size = l
      /\ n.kind = "alloc"
  BY <1>1 DEF Sound, NodeType
<1>6. heap \subseteq HEAPPAGES
  BY HeapNow
<1>7. /\ hi = High(n) \/ hi = High(e)
      /\ Stretched(n, e, hi, mem, k, access, access')
      /\ watch' = WatchOver(watch \ AreaAfter(n), AreaAfter(e))
      /\ mem' = Fill(FillOver(k, AreaAfter(e)),
                     Run(n.block + n.size, asked - n.size), "user")
  OBVIOUS
<1> HIDE DEF n, B, C
<1>8. Resize(n, e)
  <2>1. Base(e) = Base(n)
    BY <1>5 DEF Base
  <2>2. Low(e) = Low(n)
    BY <1>5, <2>1 DEF Low
  <2>3. Laid(e)
    <3>1. e \in C
      BY <1>2 DEF Instead
    <3> QED BY <1>3, <3>1 DEF Spread
  <2> QED BY <1>1, <1>5, <2>1, <2>2, <2>3 DEF Resize
<1>9. /\ Elsewhere(Low(n), hi, mem, mem', access, access')
      /\ Guarded(e, mem', access') /\ Reshaped(n, e, hi, mem', access, access')
  <2>1. Guarded(n, mem, access)
    BY <1>1, <1>4 DEF Guards
  <2>2. asked <= e.size
    BY <1>5
  <2> QED BY <1>7, <1>8, <2>1, <2>2, ResizedMemory
<1>10. watch' = Watched(C)
  <2>1. watch = Watched(B)
    BY <1>4 DEF Guards
  <2>2. WatchOver(watch \ AreaAfter(n), AreaAfter(e)) = Watched(Instead(B, n, e))
    BY <1>1, <1>8, <2>1, ResizedWatch
  <2> QED BY <1>2, <1>7, <2>2
<1>11. \A r \in B \ {n} : BeyondOf(r, Low(n), hi)
  <2> SUFFICES ASSUME NEW r \in B, r # n PROVE BeyondOf(r, Low(n), hi)
    OBVIOUS
  <2>1. BeyondOf(r, Low(n), High(n)) /\ Laid(r)
    BY <1>1 DEF Spread
  <2>2. CASE hi = High(n)
    BY <2>1, <2>2
  <2>3. CASE hi = High(e)
    <3>1. r # e
      <4> SUFFICES ASSUME r = e PROVE FALSE
        OBVIOUS
      <4>1. /\ Low(n) \in Nat /\ High(n) \in Nat /\ High(e) \in Nat
            /\ Low(n) < High(n) /\ Low(n) < High(e) /\ Low(e) = Low(n)
        <5>1. Edges(n) /\ Edges(e) /\ Laid(n) /\ Laid(e) /\ Low(e) = Low(n)
          BY <1>8, BlockEdged DEF Resize
        <5>2. Low(n) < High(n) /\ Low(n) \in Nat /\ High(n) \in Nat
          BY <5>1, LaidLong
        <5>3. Low(e) < High(e) /\ High(e) \in Nat
          BY <5>1, LaidLong
        <5> QED BY <5>1, <5>2, <5>3
      <4> QED BY <2>1, <4>1 DEF BeyondOf
    <3>2. r \in C /\ e \in C
      BY <1>2 DEF Instead
    <3>3. BeyondOf(r, Low(e), High(e))
      BY <1>3, <3>1, <3>2 DEF Spread
    <3> QED BY <1>8, <2>3, <3>3 DEF Resize
  <2> QED BY <1>7, <2>2, <2>3
<1>12. Guards(C, heap, mem', access', watch')
  <2>1. Laid(e)
    BY <1>8 DEF Resize
  <2> QED BY <1>1, <1>2, <1>4, <1>6, <1>9, <1>10, <1>11, <2>1, ChangeBlock
<1>13. GuardsThen(heap')
  BY <1>12 DEF GuardsThen, C
<1> QED BY <1>13, InvThen

\* What the ways to resize have in common: block n of l bytes, e, has another
\* room behind the same start.
Resizable(n, e, l) ==
    /\ Sized(n, e, l) /\ Sound(n) /\ l \in Asked /\ Room(l) \in Nat
    /\ Room(n.size) \in Nat /\ Oflow \in Nat /\ High(n) <= WORD - 1
    /\ n.size \in Nat /\ Room(n.size) + Oflow <= High(n)
    /\ PAGEALLOC => /\ Base(n) = n.block /\ n.block % PAGE = 0
                    /\ Base(e) = n.block /\ Span(e) = Room(l)
                    /\ n.block + Room(n.size) + Oflow = High(n)
                    /\ Low(n) = n.block - Oflow

LEMMA ResizesBlock ==
  ASSUME RequestsFit, HeapInv, ~(PAGEALLOC /\ ALLOCUPPER), NEW i \in 1..Len(list),
         list[i].kind = "alloc", NEW l \in Asked
  PROVE  Resizable(list[i], [list[i] EXCEPT !.size = l], l)
<1> DEFINE n == list[i]
           e == [list[i] EXCEPT !.size = l]
<1>1. Sized(n, e, l) /\ Sound(n)
  BY ResizeFacts
<1> HIDE DEF n, e
<1>2. /\ e.kind = "alloc" /\ e.size = l /\ e.block = n.block
      /\ Span(n) = Room(n.size) /\ High(n) = n.block + Span(n) + Oflow
      /\ n.size \in Asked /\ n.block \in Nat /\ High(n) \in Nat
      /\ n.kind = "alloc" /\ (PAGEALLOC => n.block % PAGE = 0)
  BY <1>1 DEF Sized
<1>3. /\ Room(l) \in Nat /\ Room(n.size) \in Nat /\ Oflow \in Nat /\ n.size \in Nat
  BY <1>2, RoomFacts, AskedFacts
<1>4. High(n) <= WORD - 1
  BY <1>1 DEF Sound
<1>5. Room(n.size) + Oflow <= High(n)
  BY <1>2, <1>3
<1>6. /\ Base(n) = n.block /\ Base(e) = n.block /\ Span(e) = Room(l)
      /\ Low(n) = n.block - Oflow
  <2>1. ~Free(n) /\ ~Free(e)
    BY <1>2 DEF Free
  <2> QED BY <1>2, <2>1, PlainBlock
<1>7. n.block + Room(n.size) + Oflow = High(n)
  BY <1>2
<1>8. Resizable(n, e, l)
  BY <1>1, <1>2, <1>3, <1>4, <1>5, <1>6, <1>7 DEF Resizable
<1> QED BY <1>8 DEF n, e

\* A block with pages of its own is protected as one: as it was, where it had
\* its pages, and by what was opened behind them.
LEMMA ResizedShield ==
  ASSUME PAGEALLOC, NEW n, NEW e, NEW l, Resizable(n, e, l), NEW m, NEW ac,
         Guarded(n, m, ac), NEW bc,
         \A p \in HEAPPAGES : n.block <= p /\ p < n.block + Room(l) =>
            IF p < n.block + Room(n.size) THEN bc[p] = ac[p] ELSE bc[p] = "rw"
  PROVE  Shielded(e, bc)
<1>1. /\ Base(n) = n.block /\ Span(n) = Room(n.size) /\ n.kind = "alloc"
      /\ Base(e) = n.block /\ Span(e) = Room(l) /\ e.kind = "alloc"
  BY DEF Resizable, Sized
<1>2. Shield(n) = "rw" /\ Shield(e) = "rw"
  BY <1>1 DEF Shield
<1> SUFFICES ASSUME NEW p \in HEAPPAGES, OwnPage(e, p) PROVE bc[p] = "rw"
  BY <1>2 DEF Shielded
<1>3. n.block <= p /\ p < n.block + Room(l)
  BY <1>1 DEF OwnPage
<1>4. CASE p < n.block + Room(n.size)
  <2>1. bc[p] = ac[p]
    BY <1>3, <1>4
  <2>2. OwnPage(n, p)
    BY <1>1, <1>3, <1>4 DEF OwnPage
  <2> QED BY <1>2, <2>1, <2>2 DEF Guarded, Shielded
<1>5. CASE ~(p < n.block + Room(n.size))
  BY <1>3, <1>5
<1> QED BY <1>4, <1>5

LEMMA GuardedAt ==
  ASSUME RequestsFit, HeapInv, GuardInv, NEW i \in 1..Len(list),
         list[i].kind = "alloc"
  PROVE  /\ Guarded(list[i], mem, access) /\ DOMAIN mem = Bytes
         /\ DOMAIN access = HEAPPAGES /\ Open(access)
<1>1. list[i] \in Blocks(NodesOf(list))
  BY BlockOfList
<1>2. Guards(Blocks(NodesOf(list)), heap, mem, access, watch)
  BY NowIs DEF GuardInv, GuardsOf
<1> QED BY <1>1, <1>2 DEF Guards

LEMMA ResizeSameGuards ==
  ASSUME RequestsFit, ~(PAGEALLOC /\ ALLOCUPPER), HeapInv, HeapOrder', GuardInv,
         NEW i \in 1..Len(list), list[i].kind = "alloc", NEW asked \in SIZES,
         ResizeSame(i, asked), heap' = heap,
         Became(list[i], [list[i] EXCEPT !.size = AtLeastOne(asked)])
  PROVE  GuardInv'
<1> DEFINE l == AtLeastOne(asked)
           n == list[i]
           e == [list[i] EXCEPT !.size = l]
<1>1. /\ SamePages(n, l) \/ l = n.size
      /\ watch' = WatchOver(watch \ AreaAfter(n), AreaAfter(e))
      /\ mem' = Fill(FillOver(mem, AreaAfter(e)),
                     Run(n.block + n.size, asked - n.size), "user")
      /\ access' = access
  BY DEF ResizeSame, Resized
<1>2. l \in Asked /\ asked \in Nat /\ asked <= l
  BY SizesAssumption, WordFacts DEF Asked, AtLeastOne
<1>3. Became(list[i], e)
  OBVIOUS
<1>4. e = [list[i] EXCEPT !.size = l]
  OBVIOUS
<1> HIDE DEF l
<1>5. Resizable(n, e, l)
  BY <1>2, ResizesBlock
<1>6. /\ Guarded(n, mem, access) /\ DOMAIN mem = Bytes /\ DOMAIN access = HEAPPAGES
  BY GuardedAt
<1> HIDE DEF e
<1>7. Room(l) = Room(n.size)
  <2>1. CASE l = n.size
    BY <2>1
  <2>2. CASE SamePages(n, l)
    <3>1. Span(n) = Room(n.size) /\ n.size \in Asked
      BY <1>5 DEF Resizable, Sized
    <3>2. PAGEALLOC /\ l <= Room(n.size) /\ l > Room(n.size) - PAGE
      BY <2>2, <3>1 DEF SamePages
    <3> QED BY <1>2, <3>1, <3>2, SameRoom
  <2> QED BY <1>1, <2>1, <2>2
<1>8. High(e) = High(n) /\ High(n) \in Nat
  <2>1. /\ High(e) = High(n) + Room(l) - Room(n.size) /\ Room(l) \in Nat
        /\ High(n) \in Nat
    BY <1>5 DEF Resizable, Sized
  <2> QED BY <1>7, <2>1
<1>9. Stretched(n, e, High(n), mem, mem, access, access')
  <2>1. Shielded(e, access')
    <3>1. CASE PAGEALLOC
      <4>1. \A p \in HEAPPAGES : n.block <= p /\ p < n.block + Room(l) =>
                IF p < n.block + Room(n.size) THEN access'[p] = access[p]
                ELSE access'[p] = "rw"
        BY <1>1, <1>7
      <4> QED BY <1>5, <1>6, <3>1, <4>1, ResizedShield
    <3>2. CASE ~PAGEALLOC
      BY <3>2 DEF Shielded
    <3> QED BY <3>1, <3>2
  <2>2. \A x \in Bytes : ~(High(e) <= x /\ x < High(n))
    BY <1>8, BytesNat
  <2> QED BY <1>1, <1>6, <1>8, <2>1, <2>2 DEF Stretched
<1> QED BY <1>1, <1>2, <1>3, <1>4, <1>9, ResizedGuards

\* The pages that a block at b gains when q bytes become r, or loses when r
\* bytes become q; there are o bytes in an overflow buffer.
LEMMA PagesGained ==
  ASSUME NEW b \in Nat, b % PAGE = 0, NEW q \in Nat, q % PAGE = 0,
         NEW r \in Nat, q <= r, NEW o \in Nat, NEW x \in Nat, x % PAGE = 0
  PROVE  /\ (x + PAGE <= b - o \/ (b + r) + o <= x)
                => ~(x + PAGE > b + q /\ x < (b + q) + (r - q))
         /\ b <= x /\ x < b + q => ~(x + PAGE > b + q)
         /\ b <= x /\ x < b + r /\ ~(x < b + q)
                => r - q > 0 /\ x + PAGE > b + q /\ x < (b + q) + (r - q)
<1> DEFINE E == b + q
<1>1. E \in Nat /\ E % PAGE = 0 /\ PAGE \in Nat /\ PAGE > 0
  BY WordFacts, Multiples
<1>2. x < E => x + PAGE <= E
  <2> HIDE DEF E
  <2> QED BY <1>1, Apart
<1> QED BY <1>1, <1>2

LEMMA PagesLost ==
  ASSUME NEW b \in Nat, b % PAGE = 0, NEW q \in Nat, q % PAGE = 0,
         NEW r \in Nat, q <= r, NEW o \in Nat, NEW x \in Nat, x % PAGE = 0
  PROVE  /\ (x + PAGE <= b - o \/ (b + r) + o <= x)
                => ~(x + PAGE > (b + q) + o /\ x < ((b + q) + o) + (r - q))
         /\ b <= x /\ x < b + q
                => ~(x + PAGE > (b + q) + o) /\ x < b + r
<1> DEFINE E == b + q
<1>1. E \in Nat /\ E % PAGE = 0 /\ PAGE \in Nat /\ PAGE > 0
  BY WordFacts, Multiples
<1>2. x < E => x + PAGE <= E
  <2> HIDE DEF E
  <2> QED BY <1>1, Apart
<1> QED BY <1>1, <1>2

LEMMA ResizeGrowGuards ==
  ASSUME RequestsFit, ~(PAGEALLOC /\ ALLOCUPPER), HeapInv, HeapOrder', GuardInv,
         NEW i \in 1..Len(list), list[i].kind = "alloc", NEW asked \in SIZES,
         ResizeGrow(i, asked), heap' = heap,
         Became(list[i], [list[i] EXCEPT !.size = AtLeastOne(asked)])
  PROVE  GuardInv'
<1> DEFINE l == AtLeastOne(asked)
           n == list[i]
           e == [list[i] EXCEPT !.size = l]
           r == Room(l)
           q == Room(n.size)
           s == IF PAGEALLOC THEN Wrap(RoundUp(l, PAGE) - Span(n)) ELSE l - n.size
<1>1. PICK p \in RightFree(i) :
      /\ watch' = WatchOver(watch \ AreaAfter(n), AreaAfter(e))
      /\ mem' = Fill(FillOver(mem, AreaAfter(e)),
                     Run(n.block + n.size, asked - n.size), "user")
      /\ access' = IF PAGEALLOC
                   THEN Protect(access, list[p].block - Oflow, s, "rw")
                   ELSE access
  BY DEF ResizeGrow, Resized
<1>2. Signed(Wrap(l - n.size)) > 0
  BY DEF ResizeGrow
<1>3. l \in Asked /\ asked \in Nat /\ asked <= l
  BY SizesAssumption, WordFacts DEF Asked, AtLeastOne
<1>4. Became(list[i], e)
  OBVIOUS
<1>5. e = [list[i] EXCEPT !.size = l]
  OBVIOUS
<1> HIDE DEF l
<1>6. Resizable(n, e, l)
  BY <1>3, ResizesBlock
<1>7. /\ Guarded(n, mem, access) /\ DOMAIN mem = Bytes /\ DOMAIN access = HEAPPAGES
  BY GuardedAt
<1>8. High(n) = list[p].block
  <2>1. Sized(list[i], e, l) /\ list \in Seq(NodeType) /\ Tiled(list)
    BY <1>3, ResizeFacts
  <2> QED BY <2>1, RightFreeIs
<1> HIDE DEF e, s
<1>9. /\ l \in Asked /\ n.size \in Asked /\ r \in Nat /\ q \in Nat /\ l \in Nat
      /\ n.size \in Nat /\ Span(n) = q /\ High(n) \in Nat /\ Oflow \in Nat
      /\ High(e) = High(n) + r - q /\ High(n) <= WORD - 1 /\ q + Oflow <= High(n)
      /\ r <= WORD - 1 /\ WORD \in Nat /\ PAGE \in Nat /\ PAGE > 0
  <2>1. l \in Nat /\ r <= WORD - 1
    BY <1>3, AskedFacts, RoomFacts
  <2> QED BY <1>3, <1>6, <2>1, WordFacts DEF Resizable, Sized
<1>10. q <= r
  <2>1. Signed(Wrap(l - n.size)) = l - n.size
    BY <1>9, SignedIs
  <2>2. n.size <= l
    BY <1>2, <1>9, <2>1
  <2> QED BY <1>9, <2>2, RoomMonotone
<1>11. PAGEALLOC => s = r - q
  <2> HAVE PAGEALLOC
  <2>1. s = Wrap(r - q)
    BY <1>9 DEF s, Room
  <2> HIDE DEF r, q
  <2>2. r - q \in 0..WORD - 1
    BY <1>9, <1>10
  <2> QED BY <2>1, <2>2, WrapSame
<1>12. High(e) \in Nat /\ High(n) <= High(e)
  <2> HIDE DEF r, q
  <2> QED BY <1>9, <1>10
<1>13. Stretched(n, e, High(e), mem, mem, access, access')
  <2>1. /\ DOMAIN access' = HEAPPAGES /\ (~PAGEALLOC => access' = access)
        /\ \A x \in HEAPPAGES :
            x + PAGE <= Low(n) \/ High(e) <= x => access'[x] = access[x]
        /\ Shielded(e, access')
    <3>1. CASE PAGEALLOC
      <4> DEFINE b == n.block
      <4>1. /\ b \in Nat /\ High(n) = (b + q) + Oflow /\ Low(n) = b - Oflow
            /\ b % PAGE = 0 /\ q % PAGE = 0
        <5>1. /\ b \in Nat /\ b + q + Oflow = High(n)
              /\ Low(n) = b - Oflow /\ b % PAGE = 0
          BY <1>6, <3>1 DEF Resizable, Sized
        <5>2. q % PAGE = 0
          BY <1>9, <3>1, RoomFacts
        <5> QED BY <5>1, <5>2
      <4>2. access' = Protect(access, list[p].block - Oflow, s, "rw")
        BY <1>1, <3>1
      <4> HIDE DEF b, r, q, n
      <4>3. list[p].block - Oflow = b + q /\ High(e) = (b + r) + Oflow
        <5>1. ((b + q) + Oflow) - Oflow = b + q
          BY <1>9, <4>1
        <5>2. (((b + q) + Oflow) + r) - q = (b + r) + Oflow
          <6>1. b \in Nat /\ q \in Nat /\ r \in Nat /\ Oflow \in Nat
            BY <1>9, <4>1
          <6> QED BY <6>1, Exchanged
        <5>3. list[p].block = (b + q) + Oflow
          BY <1>8, <4>1
        <5>4. High(e) = (((b + q) + Oflow) + r) - q
          BY <1>9, <4>1
        <5> QED BY <5>1, <5>2, <5>3, <5>4, Zenon
      <4>4. /\ DOMAIN access' = HEAPPAGES
            /\ \A x \in HEAPPAGES :
                access'[x] = IF r - q > 0 /\ x + PAGE > b + q /\ x < (b + q) + (r - q)
                             THEN "rw" ELSE access[x]
        BY <1>7, <1>11, <3>1, <4>2, <4>3, ProtectAt
      <4>5. ASSUME NEW x \in HEAPPAGES
            PROVE  /\ (x + PAGE <= b - Oflow \/ (b + r) + Oflow <= x)
                        => ~(x + PAGE > b + q /\ x < (b + q) + (r - q))
                   /\ b <= x /\ x < b + q => ~(x + PAGE > b + q)
                   /\ b <= x /\ x < b + r /\ ~(x < b + q)
                        => r - q > 0 /\ x + PAGE > b + q /\ x < (b + q) + (r - q)
        <5>1. x \in Nat /\ x % PAGE = 0
          BY PagesNat
        <5>2. q <= r /\ r \in Nat /\ q \in Nat /\ Oflow \in Nat
          BY <1>9, <1>10
        <5> QED BY <4>1, <5>1, <5>2, PagesGained, Zenon
      <4>6. ASSUME NEW x \in HEAPPAGES, x + PAGE <= Low(n) \/ High(e) <= x
            PROVE  access'[x] = access[x]
        BY <4>1, <4>3, <4>4, <4>5, <4>6
      <4>7. ASSUME NEW x \in HEAPPAGES, b <= x, x < b + r
            PROVE  IF x < b + q THEN access'[x] = access[x] ELSE access'[x] = "rw"
        BY <4>4, <4>5, <4>7
      <4>8. Shielded(e, access')
        BY <1>6, <1>7, <3>1, <4>7, ResizedShield DEF r, q, b
      <4> QED BY <3>1, <4>4, <4>6, <4>8
    <3>2. CASE ~PAGEALLOC
      BY <1>1, <1>7, <3>2 DEF Shielded
    <3> QED BY <3>1, <3>2
  <2>2. \A x \in Bytes : ~(High(e) <= x /\ x < High(e))
    BY <1>12, BytesNat
  <2> QED BY <1>7, <1>12, <2>1, <2>2 DEF Stretched
<1> QED BY <1>1, <1>3, <1>4, <1>5, <1>13, ResizedGuards

LEMMA ResizeShrinkGuards ==
  ASSUME RequestsFit, ~(PAGEALLOC /\ ALLOCUPPER), HeapInv, HeapOrder', GuardInv,
         NEW i \in 1..Len(list), list[i].kind = "alloc", NEW asked \in SIZES,
         ResizeShrink(i, asked), heap' = heap,
         Became(list[i], [list[i] EXCEPT !.size = AtLeastOne(asked)])
  PROVE  GuardInv'
<1> DEFINE l == AtLeastOne(asked)
           n == list[i]
           e == [list[i] EXCEPT !.size = l]
           r == Room(n.size)
           q == Room(l)
           s == Wrap(IF PAGEALLOC THEN Span(n) - RoundUp(l, PAGE) ELSE n.size - l)
           k(b) == IF PAGEALLOC THEN mem ELSE Fill(mem, Run(b, s), "free")
<1>1. l \in Asked /\ asked \in Nat /\ asked <= l
  BY SizesAssumption, WordFacts DEF Asked, AtLeastOne
<1>2. Sized(n, e, l) /\ list \in Seq(NodeType) /\ Tiled(list)
  BY <1>1, ResizeFacts
<1>3. Signed(Wrap(l - n.size)) < 0
  BY DEF ResizeShrink
<1>4. PICK b :
      /\ b = Wrap(High(n) - s)
      /\ watch' = WatchOver(watch \ AreaAfter(n), AreaAfter(e))
      /\ mem' = Fill(FillOver(k(b), AreaAfter(e)),
                     Run(n.block + n.size, asked - n.size), "user")
      /\ access' = IF PAGEALLOC THEN Protect(access, b, s, "none") ELSE access
  <2>1. CASE RightFree(i) # {}
    <3>1. PICK p \in RightFree(i) :
          /\ watch' = WatchOver(watch \ AreaAfter(n), AreaAfter(e))
          /\ mem' = Fill(FillOver(k(Wrap(list[p].block - s)), AreaAfter(e)),
                         Run(n.block + n.size, asked - n.size), "user")
          /\ access' = IF PAGEALLOC
                       THEN Protect(access, Wrap(list[p].block - s), s, "none")
                       ELSE access
      BY <2>1 DEF ResizeShrink, Resized
    <3>2. list[p].block = High(n)
      BY <1>2, RightFreeIs
    <3> QED BY <3>1, <3>2
  <2>2. CASE RightFree(i) = {}
    <3> DEFINE z == n.block + Span(n) + Oflow
    <3>1. /\ watch' = WatchOver(watch \ AreaAfter(n), AreaAfter(e))
          /\ mem' = Fill(FillOver(k(Wrap(z - s)), AreaAfter(e)),
                         Run(n.block + n.size, asked - n.size), "user")
          /\ access' = IF PAGEALLOC THEN Protect(access, Wrap(z - s), s, "none")
                       ELSE access
      BY <2>2 DEF ResizeShrink, Resized, Node
    <3>2. z = High(n)
      BY <1>2 DEF Sized
    <3> QED BY <3>1, <3>2
  <2> QED BY <2>1, <2>2
<1>5. Became(list[i], e)
  OBVIOUS
<1>6. e = [list[i] EXCEPT !.size = l]
  OBVIOUS
<1> HIDE DEF l
<1>7. Resizable(n, e, l)
  BY <1>1, ResizesBlock
<1>8. /\ Guarded(n, mem, access) /\ DOMAIN mem = Bytes /\ DOMAIN access = HEAPPAGES
  BY GuardedAt
<1> HIDE DEF e, s, k
<1>9. /\ l \in Asked /\ n.size \in Asked /\ r \in Nat /\ q \in Nat /\ l \in Nat
      /\ n.size \in Nat /\ Span(n) = r /\ High(n) \in Nat /\ Oflow \in Nat
      /\ High(e) = High(n) + q - r /\ High(n) <= WORD - 1 /\ r + Oflow <= High(n)
      /\ WORD \in Nat
  BY <1>1, <1>7, AskedFacts, WordFacts DEF Resizable, Sized
<1>10. q <= r
  <2>1. Signed(Wrap(l - n.size)) = l - n.size
    BY <1>9, SignedIs
  <2>2. l <= n.size
    BY <1>3, <1>9, <2>1
  <2> QED BY <1>9, <2>2, RoomMonotone
<1>11. s = r - q
  <2>1. s = Wrap(r - q)
    BY <1>9 DEF s, Room
  <2> HIDE DEF r, q
  <2>2. r - q \in 0..WORD - 1
    BY <1>9, <1>10
  <2> QED BY <2>1, <2>2, WrapSame
<1>12. High(e) \in Nat /\ High(e) <= High(n) /\ b = High(e) /\ s \in Nat
       /\ b + s = High(n)
  <2> HIDE DEF r, q, n
  <2>1. High(n) - s = High(e) /\ High(e) \in 0..WORD - 1
    BY <1>9, <1>10, <1>11
  <2>2. Wrap(High(n) - s) = High(n) - s
    BY <2>1, WrapSame
  <2>3. b = High(e)
    BY <1>4, <2>1, <2>2
  <2>4. High(e) \in Nat /\ s \in Nat
    BY <1>9, <1>10, <1>11, <2>1
  <2>5. High(e) + s = High(n)
    BY <1>9, <2>1, <2>4
  <2>6. High(e) <= High(n)
    BY <1>9, <2>4, <2>5
  <2> QED BY <2>3, <2>4, <2>5, <2>6
<1>13. /\ DOMAIN k(b) = Bytes
       /\ \A x \in Bytes : x < High(e) \/ High(n) <= x => k(b)[x] = mem[x]
       /\ ~PAGEALLOC => \A x \in Bytes : High(e) <= x /\ x < High(n) => k(b)[x] = "free"
  <2>1. CASE PAGEALLOC
    BY <1>8, <2>1 DEF k
  <2>2. CASE ~PAGEALLOC
    <3>1. k(b) = Fill(mem, Run(b, s), "free")
      BY <2>2 DEF k
    <3>2. /\ DOMAIN k(b) = Bytes
          /\ \A x \in Bytes : k(b)[x] = IF x \in Run(b, s) THEN "free" ELSE mem[x]
      BY <1>8, <3>1, FillAt
    <3> HIDE DEF n
    <3>3. \A x \in Bytes : x \in Nat /\ (x \in Run(b, s) <=> b <= x /\ x < b + s)
      BY <1>12, BytesNat, RunAt
    <3>4. ASSUME NEW x \in Bytes, x < High(e) \/ High(n) <= x PROVE x \notin Run(b, s)
      <4>1. x \in Nat /\ (x \in Run(b, s) <=> High(e) <= x /\ x < High(n))
        BY <1>12, <3>3
      <4>2. High(n) \in Nat /\ High(e) \in Nat
        BY <1>9, <1>12
      <4>3. ~(High(e) <= x /\ x < High(n))
        BY <3>4, <4>1, <4>2
      <4> QED BY <4>1, <4>3
    <3>5. ASSUME NEW x \in Bytes, High(e) <= x, x < High(n) PROVE x \in Run(b, s)
      BY <1>12, <3>3, <3>5
    <3> QED BY <3>2, <3>4, <3>5
  <2> QED BY <2>1, <2>2
<1>14. Stretched(n, e, High(n), mem, k(b), access, access')
  <2>1. /\ DOMAIN access' = HEAPPAGES /\ (~PAGEALLOC => access' = access)
        /\ \A x \in HEAPPAGES :
            x + PAGE <= Low(n) \/ High(n) <= x => access'[x] = access[x]
        /\ Shielded(e, access')
    <3>1. CASE PAGEALLOC
      <4> DEFINE c == n.block
      <4>1. /\ c \in Nat /\ High(n) = (c + r) + Oflow /\ Low(n) = c - Oflow
            /\ c % PAGE = 0 /\ q % PAGE = 0
        <5>1. /\ c \in Nat /\ c + r + Oflow = High(n)
              /\ Low(n) = c - Oflow /\ c % PAGE = 0
          BY <1>7, <3>1 DEF Resizable, Sized
        <5>2. q % PAGE = 0
          BY <1>9, <3>1, RoomFacts
        <5> QED BY <5>1, <5>2
      <4>2. access' = Protect(access, b, s, "none")
        BY <1>4, <3>1
      <4> HIDE DEF c, r, q, n
      <4>3. b = (c + q) + Oflow
        <5>1. (((c + r) + Oflow) + q) - r = (c + q) + Oflow
          BY <1>9, <4>1
        <5>2. High(e) = (((c + r) + Oflow) + q) - r
          BY <1>9, <4>1
        <5> QED BY <1>12, <5>1, <5>2, Zenon
      <4>4. /\ DOMAIN access' = HEAPPAGES
            /\ \A x \in HEAPPAGES :
                access'[x] = IF r - q > 0 /\ x + PAGE > (c + q) + Oflow
                                /\ x < ((c + q) + Oflow) + (r - q)
                             THEN "none" ELSE access[x]
        BY <1>8, <1>11, <4>2, <4>3, ProtectAt
      <4>5. ASSUME NEW x \in HEAPPAGES
            PROVE  /\ (x + PAGE <= c - Oflow \/ (c + r) + Oflow <= x)
                        => ~(x + PAGE > (c + q) + Oflow
                                /\ x < ((c + q) + Oflow) + (r - q))
                   /\ c <= x /\ x < c + q
                        => ~(x + PAGE > (c + q) + Oflow) /\ x < c + r
        <5>1. x \in Nat /\ x % PAGE = 0
          BY PagesNat
        <5>2. q <= r /\ r \in Nat /\ q \in Nat /\ Oflow \in Nat
          BY <1>9, <1>10
        <5> QED BY <4>1, <5>1, <5>2, PagesLost, Zenon
      <4>6. ASSUME NEW x \in HEAPPAGES, x + PAGE <= Low(n) \/ High(n) <= x
            PROVE  access'[x] = access[x]
        BY <4>1, <4>4, <4>5, <4>6
      <4>7. ASSUME NEW x \in HEAPPAGES, c <= x, x < c + q
            PROVE  IF x < c + r THEN access'[x] = access[x] ELSE access'[x] = "rw"
        BY <4>4, <4>5, <4>7
      <4>8. Shielded(e, access')
        BY <1>7, <1>8, <3>1, <4>7, ResizedShield DEF r, q, c
      <4> QED BY <3>1, <4>4, <4>6, <4>8
    <3>2. CASE ~PAGEALLOC
      BY <1>4, <1>8, <3>2 DEF Shielded
    <3> QED BY <3>1, <3>2
  <2>2. High(n) <= High(n)
    BY <1>9
  <2> QED BY <1>9, <1>12, <1>13, <2>1, <2>2 DEF Stretched
<1>15. n = list[i]
  OBVIOUS
<1> HIDE DEF n
<1> QED BY <1>1, <1>4, <1>5, <1>6, <1>14, <1>15, ResizedGuards

LEMMA ResizeallocGuards ==
  ASSUME RequestsFit, HeapInv, GuardInv, NEW i \in 1..Len(list), NEW asked \in SIZES,
         Resizealloc(i, asked)
  PROVE  GuardInv'
<1>1. /\ list[i].kind = "alloc" /\ ~(PAGEALLOC /\ ALLOCUPPER) /\ heap' = heap
      /\ ResizeSame(i, asked) \/ ResizeGrow(i, asked) \/ ResizeShrink(i, asked)
  BY DEF Resizealloc
<1>2. /\ HeapOrder'
      /\ Became(list[i], [list[i] EXCEPT !.size = AtLeastOne(asked)])
  BY ResizeallocOrder
<1> QED BY <1>1, <1>2, ResizeSameGuards, ResizeGrowGuards, ResizeShrinkGuards

-----------------------------------------------------------------------------
(***************************************************************************)
(* The guards are kept                                                     *)
(***************************************************************************)
LEMMA InitGuardInv == Init => GuardInv
<1> SUFFICES ASSUME Init PROVE GuardInv
  OBVIOUS
<1>1. /\ list = <<>> /\ heap = {} /\ watch = {}
      /\ mem = [x \in Bytes |-> "zero"] /\ access = [p \in HEAPPAGES |-> "rw"]
  BY DEF Init
<1>2. Blocks(NodesOf(list)) = {}
  BY <1>1, NodesOfNone DEF Blocks
<1>3. HeapBytes(heap) = {}
  BY <1>1 DEF HeapBytes
<1>4. Watched({}) = {}
  BY DEF Watched
<1>5. Clean({}, heap, mem) /\ Walled({}, heap, access) /\ Open(access)
  BY <1>1, <1>3 DEF Clean, Walled, Open
<1>6. DOMAIN mem = Bytes /\ DOMAIN access = HEAPPAGES
  BY <1>1
<1>7. Guards({}, heap, mem, access, watch)
  BY <1>1, <1>4, <1>5, <1>6 DEF Guards
<1> QED BY <1>2, <1>7, NowIs DEF GuardInv, GuardsOf

LEMMA NextGuardInv ==
  ASSUME RequestsFit PROVE HeapInv /\ GuardInv /\ [Next]_vars => GuardInv'
<1> SUFFICES ASSUME HeapInv, GuardInv, [Next]_vars PROVE GuardInv'
  OBVIOUS
<1>1. CASE UNCHANGED vars
  <2>1. UNCHANGED <<list, heap, mem, access, watch>>
    BY <1>1 DEF vars
  <2> QED BY <2>1, QuietGuards
<1>2. ASSUME NEW l \in SIZES, NEW a \in ALIGNS, Getalloc(l, a)
      PROVE  GuardInv'
  <2>1. CASE GetallocReuse(l, a)
    BY <2>1, GetallocReuseGuards
  <2>2. CASE GetallocFresh(l, a)
    BY <2>2, GetallocFreshGuards
  <2>3. CASE GetallocRefused(l, a)
    <3>1. UNCHANGED <<list, heap, mem, access, watch>>
      BY <2>3 DEF GetallocRefused
    <3> QED BY <3>1, QuietGuards
  <2> QED BY <1>2, <2>1, <2>2, <2>3 DEF Getalloc
<1>3. ASSUME NEW i \in 1..Len(list), NEW l \in SIZES, Resizealloc(i, l)
      PROVE  GuardInv'
  BY <1>3, ResizeallocGuards
<1>4. ASSUME NEW i \in 1..Len(list), Freealloc(i) PROVE GuardInv'
  BY <1>4, FreeallocDropGuards, FreeallocKeepGuards DEF Freealloc
<1>5. ASSUME NEW v \in LIMITS, OptNofree(v) PROVE GuardInv'
  <2>1. UNCHANGED <<list, heap, mem, access, watch>>
    BY <1>5 DEF OptNofree
  <2> QED BY <2>1, QuietGuards
<1>6. CASE OptNofreeRecycle
  BY <1>6, OptNofreeRecycleGuards
<1>7. CASE OptNofreeDone
  <2>1. UNCHANGED <<list, heap, mem, access, watch>>
    BY <1>7 DEF OptNofreeDone
  <2> QED BY <2>1, QuietGuards
<1>8. CASE ~UNCHANGED vars /\ ~OptNofreeRecycle /\ ~OptNofreeDone
  BY <1>2, <1>3, <1>4, <1>5, <1>8 DEF Next
<1> QED BY <1>1, <1>6, <1>7, <1>8

LEMMA GuardsInductive ==
  ASSUME RequestsFit PROVE Spec => [](HeapInv /\ GuardInv)
<1>1. Init => HeapInv /\ GuardInv
  BY InitHeapInv, InitGuardInv
<1>2. (HeapInv /\ GuardInv) /\ [Next]_vars => (HeapInv /\ GuardInv)'
  BY NextHeapInv, NextGuardInv
<1> QED BY <1>1, <1>2, PTL DEF Spec

-----------------------------------------------------------------------------
(***************************************************************************)
(* What it implies                                                         *)
(***************************************************************************)
\* What is known of each block of the list.
LEMMA BlockGuarded ==
  ASSUME RequestsFit, HeapInv, GuardInv, NEW i \in 1..Len(list), ~Free(list[i])
  PROVE  /\ Guarded(list[i], mem, access) /\ Laid(list[i])
         /\ list[i].kind \in {"alloc", "freed"}
<1>1. list[i] \in Blocks(NodesOf(list))
  BY DEF Blocks, NodesOf
<1>2. Guards(Blocks(NodesOf(list)), heap, mem, access, watch)
  BY NowIs DEF GuardInv, GuardsOf
<1>3. Guarded(list[i], mem, access)
  BY <1>1, <1>2 DEF Guards
<1>4. Laid(list[i]) /\ Sound(list[i])
  <2>1. /\ InOrder(Now.list, asize, Now.gsize, Now.fsize, HeapBytes(heap))
        /\ Now.list = list
    BY HeapNow, NowIs
  <2>2. i \in 1..Len(Now.list) /\ ~Free(Now.list[i])
    BY <2>1
  <2>3. Laid(Now.list[i]) /\ Sound(Now.list[i])
    BY <2>1, <2>2, BlockAt
  <2> QED BY <2>1, <2>3
<1>5. list[i].kind \in {"alloc", "freed"}
  BY <1>4 DEF Sound, NodeType, Free
<1> QED BY <1>3, <1>4, <1>5

LEMMA InvProtects == ASSUME RequestsFit, HeapInv, GuardInv PROVE BlockPagesProtected
<1> SUFFICES ASSUME NEW i \in 1..Len(list), NEW p \in PagesOf(Base(list[i]), Span(list[i]))
             PROVE  /\ list[i].kind = "alloc" => access[p] = "rw"
                    /\ list[i].kind = "freed" /\ PAGEALLOC =>
                            access[p] = IF PRESERVE THEN "ro" ELSE "none"
  BY DEF BlockPagesProtected
<1>1. p \in HEAPPAGES /\ Base(list[i]) <= p /\ p < Base(list[i]) + Span(list[i])
  BY DEF PagesOf
<1>2. CASE Free(list[i])
  BY <1>2 DEF Free
<1>3. CASE ~Free(list[i]) /\ PAGEALLOC
  <2>1. Guarded(list[i], mem, access) /\ OwnPage(list[i], p)
    BY <1>1, <1>3, BlockGuarded DEF OwnPage
  <2>2. access[p] = Shield(list[i])
    BY <1>1, <1>3, <2>1 DEF Guarded, Shielded
  <2> QED BY <2>2 DEF Shield
<1>4. CASE ~PAGEALLOC
  <2>1. Open(access)
    BY NowIs DEF GuardInv, GuardsOf, Guards
  <2> QED BY <1>1, <1>4, <2>1 DEF Open
<1> QED BY <1>2, <1>3, <1>4

LEMMA InvWatches == ASSUME RequestsFit, HeapInv, GuardInv PROVE WatchExact
<1> DEFINE W == Nodes("alloc") \cup IF PAGEALLOC /\ ~PRESERVE THEN {} ELSE Nodes("freed")
           B == Blocks(NodesOf(list))
<1>1. watch = Watched(B)
  BY NowIs DEF GuardInv, GuardsOf, Guards
<1>2. CASE ~OFLOWWATCH
  BY <1>1, <1>2, NoneWatched DEF WatchExact
<1>3. CASE OFLOWWATCH
  <2>1. ASSUME NEW i \in W
        PROVE  list[i] \in B /\ Watches(list[i])
    <3>1. i \in 1..Len(list) /\ (list[i].kind = "alloc" \/
            (list[i].kind = "freed" /\ ~(PAGEALLOC /\ ~PRESERVE)))
      BY DEF Nodes
    <3> QED BY <1>3, <3>1 DEF Watches, Blocks, NodesOf, Free
  <2>2. ASSUME NEW n \in B, Watches(n)
        PROVE  \E i \in W : n = list[i]
    <3>1. PICK i \in 1..Len(list) : n = list[i] /\ ~Free(n)
      BY DEF Blocks, NodesOf
    <3>2. n.kind \in {"alloc", "freed"}
      BY <3>1, BlockGuarded
    <3>3. i \in W
      BY <2>2, <3>1, <3>2 DEF Watches, Nodes
    <3> QED BY <3>1, <3>3
  <2> HIDE DEF W, B
  <2>3. Watched(B) = UNION {OverArea(list[i]) : i \in W}
    BY <2>1, <2>2 DEF Watched
  <2> QED BY <1>1, <1>3, <2>3 DEF WatchExact, W
<1> QED BY <1>2, <1>3

LEMMA InvWalls ==
  ASSUME RequestsFit, PAGEALLOC => ALLOCUPPER, HeapInv, GuardInv
  PROVE  OverflowProtected
<1> SUFFICES ASSUME PAGEALLOC, NEW p \in heap, access[p] # "none"
             PROVE  \E i \in Nodes("alloc") \cup Nodes("freed") :
                        p \in PagesOf(Base(list[i]), Span(list[i]))
  BY DEF OverflowProtected
<1>1. PICK n \in Blocks(NodesOf(list)) : OwnPage(n, p)
  BY NowIs DEF GuardInv, GuardsOf, Guards, Walled, OnBlock
<1>2. PICK i \in 1..Len(list) : n = list[i] /\ ~Free(n)
  BY DEF Blocks, NodesOf
<1>3. i \in Nodes("alloc") \cup Nodes("freed")
  BY <1>2, BlockGuarded DEF Nodes
<1>4. p \in HEAPPAGES
  BY HeapNow
<1> QED BY <1>1, <1>2, <1>3, <1>4 DEF PagesOf, OwnPage

\* The bytes of a node are bytes of the heap.
LEMMA MemoryAt ==
  ASSUME HeapInv, NEW i \in 1..Len(list)
  PROVE  /\ Sound(list[i]) /\ Apt(NodesOf(list)) /\ list[i] \in NodesOf(list)
         /\ \A x \in Nat : Low(list[i]) <= x /\ x < High(list[i])
                => x \in HeapBytes(heap) /\ x \in Bytes
<1>1. list \in Seq(NodeType) /\ Tiled(list) /\ MemoryOf(NodesOf(list)) = HeapBytes(heap)
      /\ heap \subseteq HEAPPAGES
  BY HeapNow, NowIs DEF InOrder
<1>2. Sound(list[i]) /\ Apt(NodesOf(list)) /\ list[i] \in NodesOf(list)
  BY <1>1, TiledFacts, TiledApt DEF NodesOf
<1>3. ASSUME NEW x \in Nat, Low(list[i]) <= x, x < High(list[i])
      PROVE  x \in HeapBytes(heap) /\ x \in Bytes
  <2>1. x \in Memory(list[i])
    <3> DEFINE lo == Low(list[i])
               hi == High(list[i])
    <3>1. lo \in Nat /\ hi \in Nat
      BY <1>2, SoundFacts
    <3>2. lo <= x /\ x < hi
      BY <1>3
    <3> HIDE DEF lo, hi
    <3>3. x \in Run(lo, hi - lo)
      BY <3>1, <3>2, RunAt
    <3> QED BY <3>3 DEF Memory, lo, hi
  <2>2. x \in HeapBytes(heap)
    BY <1>1, <1>2, <2>1 DEF MemoryOf
  <2>3. PICK p \in heap : x \in Run(p, PAGE)
    BY <2>2 DEF HeapBytes
  <2>4. x \in Bytes
    BY <1>1, <2>3 DEF Bytes, Run
  <2> QED BY <2>2, <2>4
<1> QED BY <1>2, <1>3

\* What is to be filled with the bytes of free memory is.
LEMMA FreeBytesFilled ==
  ASSUME RequestsFit, HeapInv, GuardInv, ~PAGEALLOC, NEW i \in 1..Len(list),
         list[i].kind = "free" \/ (list[i].kind = "freed" /\ ~PRESERVE),
         NEW x \in Run(list[i].block, list[i].size)
  PROVE  mem[x] = "free"
<1> DEFINE n == list[i]
           b == n.block
           l == n.size
           B == Blocks(NodesOf(list))
<1>1. Sound(n) /\ Apt(NodesOf(list)) /\ n \in NodesOf(list)
  BY MemoryAt
<1>2. /\ b \in Nat /\ l \in Nat /\ Low(n) \in Nat /\ High(n) \in Nat
      /\ Low(n) <= b /\ b + l <= High(n)
  BY <1>1, SoundFacts
<1>3. x \in Int /\ b <= x /\ x < b + l
  <2>1. x \in b .. b + l - 1
    BY DEF Run
  <2> HIDE DEF b, l, n
  <2> QED BY <1>2, <2>1
<1>4. x \in Nat /\ Low(n) <= x /\ x < High(n)
  <2> HIDE DEF b, l, n
  <2> QED BY <1>2, <1>3
<1>5. x \in HeapBytes(heap) /\ x \in Bytes
  BY <1>4, MemoryAt
<1>6. CASE Free(n)
  <2>1. ~InBlock(B, x)
    <3> SUFFICES ASSUME NEW m \in B, Low(m) <= x, x < High(m) PROVE FALSE
      BY DEF InBlock
    <3>1. m \in NodesOf(list) /\ m # n
      BY <1>6 DEF Blocks
    <3>2. High(n) <= Low(m) \/ High(m) <= Low(n)
      BY <1>1, <3>1 DEF Apt
    <3>3. Low(m) \in Nat /\ High(m) \in Nat
      BY <1>1, <3>1, SoundFacts DEF Apt
    <3> HIDE DEF n
    <3> QED BY <1>2, <1>4, <3>2, <3>3
  <2>2. Clean(B, heap, mem)
    BY NowIs DEF GuardInv, GuardsOf, Guards
  <2> QED BY <1>5, <2>1, <2>2 DEF Clean
<1>7. CASE ~Free(n)
  <2>1. Emptied(n, mem) /\ n.kind = "freed" /\ ~PRESERVE
    BY <1>7, BlockGuarded DEF Guarded, Free
  <2> QED BY <1>3, <1>5, <2>1 DEF Emptied
<1> QED BY <1>6, <1>7

\* So are the overflow buffers.
LEMMA OverBytesFilled ==
  ASSUME RequestsFit, HeapInv, GuardInv, ~OFLOWWATCH, NEW i \in 1..Len(list),
         list[i].kind # "free", list[i].kind = "alloc" \/ ~PAGEALLOC,
         NEW x \in OverArea(list[i])
  PROVE  mem[x] = "over"
<1>1. Guarded(list[i], mem, access) /\ Laid(list[i])
  BY BlockGuarded DEF Free
<1>2. x \in Nat /\ Around(list[i], x)
  BY <1>1, OverAreaIs
<1>3. Low(list[i]) <= x /\ x < High(list[i])
  <2> DEFINE n == list[i]
             f == From(n)
             t == To(n)
             b == n.block
             e == n.block + n.size
  <2>1. /\ f \in Nat /\ t \in Nat /\ b \in Nat /\ e \in Nat
        /\ Low(n) \in Nat /\ High(n) \in Nat
        /\ Low(n) <= f /\ f <= b /\ b <= e /\ e <= t /\ t <= High(n)
    <3>1. Edges(n) /\ Laid(n)
      BY <1>1, BlockEdged
    <3> QED BY <3>1 DEF Edges, Laid
  <2>2. (f <= x /\ x < b) \/ (e <= x /\ x < t)
    BY <1>2 DEF Around
  <2> HIDE DEF f, t, b, e
  <2> QED BY <1>2, <2>1, <2>2
<1>4. x \in Bytes
  BY <1>2, <1>3, MemoryAt
<1> QED BY <1>1, <1>2, <1>4 DEF Guarded, Fenced

LEMMA InvIsSilent == ASSUME RequestsFit, HeapInv, GuardInv PROVE CheckinfoSilent
<1> SUFFICES ASSUME NEW i \in 1..Len(list) PROVE Checkinfo(list[i]) = "none"
  BY DEF CheckinfoSilent
<1>1. ASSUME list[i].kind = "free" \/ (list[i].kind = "freed" /\ ~PRESERVE), ~PAGEALLOC
      PROVE  \A x \in Run(list[i].block, list[i].size) : mem[x] = "free"
  BY <1>1, FreeBytesFilled
<1>2. ASSUME list[i].kind # "free", ~OFLOWWATCH, list[i].kind = "alloc" \/ ~PAGEALLOC
      PROVE  \A x \in OverArea(list[i]) : mem[x] = "over"
  BY <1>2, OverBytesFilled
<1> QED BY <1>1, <1>2, Zenon DEF Checkinfo

-----------------------------------------------------------------------------
(***************************************************************************)
(* Theorems                                                                *)
(***************************************************************************)
\* As long as the sizes that a program asks for fit, the pages of each of its
\* blocks can be read and written, those of a freed block on pages of its own
\* cannot be written, and watch points are set on the overflow areas of the
\* blocks that have them and nowhere else, whichever of splitnode(),
\* __mp_resizealloc(), __mp_freealloc() and __mp_recyclefreed() gave them their
\* place.
THEOREM GuardsStayInPlace ==
  ASSUME RequestsFit PROVE Spec => []GuardsInPlace
<1>1. HeapInv /\ GuardInv => GuardsInPlace
  BY InvProtects, InvWatches DEF GuardsInPlace
<1> QED BY <1>1, GuardsInductive, PTL

\* When blocks end at the end of their pages the pages around them are guarded,
\* too: a page from the system that can be touched is a page of a block.  Where
\* blocks are resized in place the code leaves pages behind them open
\* (src/alloc.c:536), so that it is not so with blocks at the start of their
\* pages.
THEOREM GuardsStayExact ==
  ASSUME RequestsFit, PAGEALLOC => ALLOCUPPER PROVE Spec => []GuardsExact
<1>1. HeapInv /\ GuardInv => GuardsExact
  BY InvProtects, InvWatches, InvWalls DEF GuardsExact, GuardsInPlace
<1> QED BY <1>1, GuardsInductive, PTL

\* As long as requests fit, __mp_checkinfo() finds no error that is not the
\* program's: no operation of src/alloc.c leaves a byte of an overflow buffer,
\* of a freed block or of free memory with another value than the one that the
\* next check expects there, so that each corruption that is reported was
\* written by the program.
THEOREM ChecksStaySilent ==
  ASSUME RequestsFit PROVE Spec => []CheckinfoSilent
<1>1. HeapInv /\ GuardInv => CheckinfoSilent
  BY InvIsSilent
<1> QED BY <1>1, GuardsInductive, PTL
=============================================================================
