--------------------------- MODULE CommandProofs ---------------------------
(***************************************************************************)
(* Proofs about the settings of the library, for every command line, every *)
(* text of the environment and any number of changes by the program.       *)
(***************************************************************************)
EXTENDS Command, SumProofs, TLAPS

Keys == DOMAIN Defaults.val
Bytes == {"ALLOCBYTE", "FREEBYTE", "OFLOWBYTE"}
Bounds == {"SMALLBOUND", "MEDIUMBOUND", "LARGEBOUND"}

\* The values n that setting k may have with flags F.
Allowed(F, k, n) ==
    /\ n \in Int
    /\ k \in {"OFLOWSIZE", "NOFREE", "FAILSEED"} \cup Bounds => n \in Nat
    /\ k = "MEDIUMBOUND" => n > 0
    /\ k \in Bytes => n \in 0..255
    /\ k = "OFLOWSIZE" /\ "PAGEALLOC" \in F => n > 0 /\ n % PAGE = 0
    /\ k = "NOFREE" => ("NOFREE" \in F <=> n > 0)
    /\ k = "DEFALIGN" => n <= PAGE /\ PowerOfTwo[n] = n
    /\ k = "CHECKFREQ" => n # 0

FlagsFit(F) ==
    /\ "ALLOCUPPER" \in F => "PAGEALLOC" \in F
    /\ ~("EDIT" \in F /\ "LIST" \in F)

Record(h) == /\ h = [flags |-> h.flags, val |-> h.val, file |-> h.file]
             /\ h.val = [k \in Keys |-> h.val[k]]

\* What holds of the settings whatever has been read,
Fitting(h) ==
    Record(h) /\ FlagsFit(h.flags) /\ \A k \in Keys : Allowed(h.flags, k, h.val[k])

\* what only holds while options are being read,
Untold(h) == "leaks traced" \notin h.flags
Good(r) == Fitting(r.lib) /\ Untold(r.lib) /\ r.code # "TOOLONG"

\* and what the library sees to before the program goes on.
Settled(h) ==
    /\ h.val.SMALLBOUND < h.val.MEDIUMBOUND /\ h.val.MEDIUMBOUND < h.val.LARGEBOUND
    /\ "LEAKTABLE" \in h.flags <=> "leaks traced" \in h.flags
    /\ h.val.FAILSEED # 0

TooLong == <<"TOOLONG", <<>>>> \in reported

\* The settings stay as they were at first until there is a text to read.
OptionsInv ==
    /\ Fitting(lib) /\ running \in BOOLEAN
    /\ running => Settled(lib) /\ toParse = <<>> /\ phase = "program"
    /\ ~running => Untold(lib)
    /\ phase # "program" => lib = Defaults /\ toParse = <<>>
    /\ ~running /\ (env = <<>> \/ TooLong) => lib = Defaults /\ toParse = <<>>

-----------------------------------------------------------------------------
(***************************************************************************)
(* Numbers                                                                 *)
(***************************************************************************)
HalfUp(n) == (n + 1) \div 2
Doubles(f, D) == f = [n \in D |-> IF n <= 1 THEN n ELSE 2 * f[HalfUp(n)]]

LEMMA HalfIs ==
  ASSUME NEW n \in Nat, n > 1
  PROVE  HalfUp(n) \in Nat /\ HalfUp(n) >= 1 /\ HalfUp(n) < n /\ n <= 2 * HalfUp(n)
BY DEF HalfUp

\* Two functions that double agree on the numbers that both are for.
LEMMA DoublesAgree ==
  ASSUME NEW a \in Nat, NEW b \in Nat, NEW f, Doubles(f, 0..a), NEW g, Doubles(g, 0..b),
         NEW n \in Nat, n <= a, n <= b
  PROVE  f[n] = g[n]
<1> DEFINE D == {k \in Nat : k <= a /\ k <= b /\ f[k] # g[k]}
<1> SUFFICES ASSUME D # {} PROVE FALSE
  OBVIOUS
<1>1. D \in SUBSET Nat
  OBVIOUS
<1>2. PICK m \in D : \A k \in D : m <= k
  <2> HIDE DEF D
  <2> QED BY <1>1, Least
<1>3. /\ f[m] = IF m <= 1 THEN m ELSE 2 * f[HalfUp(m)]
      /\ g[m] = IF m <= 1 THEN m ELSE 2 * g[HalfUp(m)]
  <2>1. m \in 0..a /\ m \in 0..b
    OBVIOUS
  <2> HIDE DEF D
  <2>2. f[m] = IF m <= 1 THEN m ELSE 2 * f[HalfUp(m)]
    BY <2>1 DEF Doubles
  <2>3. g[m] = IF m <= 1 THEN m ELSE 2 * g[HalfUp(m)]
    BY <2>1 DEF Doubles
  <2> QED BY <2>2, <2>3
<1>4. m > 1
  BY <1>3
<1>5. HalfUp(m) \in Nat /\ HalfUp(m) < m
  BY <1>4, HalfIs
<1>6. f[HalfUp(m)] = g[HalfUp(m)]
  BY <1>2, <1>5
<1> QED BY <1>3, <1>6

LEMMA DoublesUpto ==
  ASSUME NEW m \in Nat
  PROVE  \E f : Doubles(f, 0..m)
<1> DEFINE N == {n \in Nat : \E f : Doubles(f, 0..n)}
<1>1. 0 \in N
  <2>1. Doubles([n \in 0..0 |-> n], 0..0)
    BY DEF Doubles
  <2> QED BY <2>1
<1>2. ASSUME NEW n \in Nat, n \in N PROVE n + 1 \in N
  <2>1. PICK f : Doubles(f, 0..n)
    BY <1>2
  <2> DEFINE g == [k \in 0..n + 1 |-> IF k <= 1 THEN k ELSE 2 * f[HalfUp(k)]]
  <2>2. ASSUME NEW k \in 0..n + 1, k > 1 PROVE f[HalfUp(k)] = g[HalfUp(k)]
    <3> DEFINE j == HalfUp(k)
    <3>1. j \in 0..n /\ j \in 0..n + 1
      BY <2>2, HalfIs
    <3> HIDE DEF j
    <3>2. f[j] = IF j <= 1 THEN j ELSE 2 * f[HalfUp(j)]
      BY <2>1, <3>1 DEF Doubles
    <3>3. g[j] = IF j <= 1 THEN j ELSE 2 * f[HalfUp(j)]
      BY <3>1
    <3> HIDE DEF g
    <3>4. f[j] = g[j]
      BY <3>2, <3>3
    <3> QED BY <3>4 DEF j
  <2>3. Doubles(g, 0..n + 1)
    <3>1. g = [k \in 0..n + 1 |-> IF k <= 1 THEN k ELSE 2 * f[HalfUp(k)]]
      OBVIOUS
    <3> HIDE DEF g
    <3>2. \A k \in 0..n + 1 : (IF k <= 1 THEN k ELSE 2 * f[HalfUp(k)])
                                = (IF k <= 1 THEN k ELSE 2 * g[HalfUp(k)])
      BY <2>2
    <3> QED BY <3>1, <3>2 DEF Doubles
  <2> HIDE DEF g
  <2> QED BY <2>3
<1> HIDE DEF N
<1>3. m \in N
  BY <1>1, <1>2, Induction
<1> QED BY <1>3 DEF N

LEMMA PowerIs == Doubles(PowerOfTwo, Nat)
<1> DEFINE part(n) == CHOOSE f : Doubles(f, 0..n)
           F == [n \in Nat |-> part(n)[n]]
<1>1. \A n \in Nat : Doubles(part(n), 0..n)
  BY DoublesUpto
<1> HIDE DEF part
<1>2. ASSUME NEW n \in Nat
      PROVE  part(n)[n] = IF n <= 1 THEN n ELSE 2 * F[HalfUp(n)]
  <2>1. part(n)[n] = IF n <= 1 THEN n ELSE 2 * part(n)[HalfUp(n)]
    <3> DEFINE p == part(n)
    <3>1. Doubles(p, 0..n)
      BY <1>1
    <3> HIDE DEF p
    <3>2. p[n] = IF n <= 1 THEN n ELSE 2 * p[HalfUp(n)]
      BY <3>1 DEF Doubles
    <3> QED BY <3>2 DEF p
  <2>2. CASE n > 1
    <3> DEFINE j == HalfUp(n)
    <3>1. j \in Nat /\ j <= n
      BY <2>2, HalfIs
    <3> HIDE DEF j
    <3>2. part(n)[j] = part(j)[j]
      BY <1>1, <3>1, DoublesAgree
    <3>3. F[j] = part(j)[j]
      BY <3>1
    <3> HIDE DEF F
    <3>4. part(n)[j] = F[j]
      BY <3>2, <3>3
    <3> QED BY <2>1, <3>4 DEF j
  <2>3. CASE ~(n > 1)
    BY <2>1, <2>3
  <2> QED BY <2>2, <2>3
<1>3. Doubles(F, Nat)
  <2>1. F = [n \in Nat |-> part(n)[n]]
    OBVIOUS
  <2> HIDE DEF F
  <2> QED BY <1>2, <2>1 DEF Doubles
<1> HIDE DEF F
<1>4. PowerOfTwo = CHOOSE f : Doubles(f, Nat)
  BY DEF PowerOfTwo, Doubles, HalfUp
<1> QED BY <1>3, <1>4

LEMMA PowerStep ==
  ASSUME NEW n \in Nat
  PROVE  PowerOfTwo[n] = IF n <= 1 THEN n ELSE 2 * PowerOfTwo[HalfUp(n)]
BY PowerIs DEF Doubles

LEMMA PowerNat == \A n \in Nat : PowerOfTwo[n] \in Nat /\ n <= PowerOfTwo[n]
<1> DEFINE D == {n \in Nat : ~(PowerOfTwo[n] \in Nat /\ n <= PowerOfTwo[n])}
<1> SUFFICES ASSUME D # {} PROVE FALSE
  OBVIOUS
<1>1. D \in SUBSET Nat
  OBVIOUS
<1>2. PICK m \in D : \A k \in D : m <= k
  <2> HIDE DEF D
  <2> QED BY <1>1, Least
<1>3. m \in Nat /\ m > 1
  BY PowerStep
<1>4. HalfUp(m) \in Nat /\ HalfUp(m) < m /\ m <= 2 * HalfUp(m)
  BY <1>3, HalfIs
<1>5. PowerOfTwo[HalfUp(m)] \in Nat /\ HalfUp(m) <= PowerOfTwo[HalfUp(m)]
  BY <1>2, <1>4
<1>6. PowerOfTwo[m] = 2 * PowerOfTwo[HalfUp(m)]
  BY <1>3, PowerStep
<1> HIDE DEF D
<1>7. PowerOfTwo[m] \in Nat /\ m <= PowerOfTwo[m]
  BY <1>3, <1>4, <1>5, <1>6
<1> QED BY <1>7 DEF D

LEMMA PowerOfPower ==
  ASSUME NEW n \in Nat
  PROVE  PowerOfTwo[PowerOfTwo[n]] = PowerOfTwo[n]
<1> DEFINE D == {k \in Nat : PowerOfTwo[PowerOfTwo[k]] # PowerOfTwo[k]}
<1> SUFFICES ASSUME D # {} PROVE FALSE
  OBVIOUS
<1>1. D \in SUBSET Nat
  OBVIOUS
<1>2. PICK m \in D : \A k \in D : m <= k
  <2> HIDE DEF D
  <2> QED BY <1>1, Least
<1>3. m > 1
  BY PowerStep
<1> DEFINE p == PowerOfTwo[HalfUp(m)]
<1>4. HalfUp(m) \in Nat /\ HalfUp(m) < m /\ HalfUp(m) >= 1
  BY <1>3, HalfIs
<1>5. p \in Nat /\ p >= 1
  BY <1>4, PowerNat
<1>6. PowerOfTwo[p] = p
  BY <1>2, <1>4
<1>7. PowerOfTwo[m] = 2 * p
  BY <1>3, PowerStep
<1> HIDE DEF p, D
<1>8. HalfUp(2 * p) = p /\ 2 * p \in Nat /\ 2 * p > 1
  BY <1>5 DEF HalfUp
<1>9. PowerOfTwo[2 * p] = 2 * p
  BY <1>6, <1>8, PowerStep
<1> QED BY <1>2, <1>7, <1>9 DEF D

LEMMA PowerRises ==
  ASSUME NEW n \in Nat, NEW m \in Nat, n <= m
  PROVE  PowerOfTwo[n] <= PowerOfTwo[m]
<1> DEFINE D == {k \in Nat : \E j \in 0..k : ~(PowerOfTwo[j] <= PowerOfTwo[k])}
<1> SUFFICES ASSUME D # {} PROVE FALSE
  <2>1. m \notin D => \A j \in 0..m : PowerOfTwo[j] <= PowerOfTwo[m]
    OBVIOUS
  <2> QED BY <2>1
<1>1. D \in SUBSET Nat
  OBVIOUS
<1>2. PICK k \in D : \A i \in D : k <= i
  <2> HIDE DEF D
  <2> QED BY <1>1, Least
<1>3. PICK j \in 0..k : ~(PowerOfTwo[j] <= PowerOfTwo[k])
  OBVIOUS
<1>4. PowerOfTwo[j] \in Nat /\ PowerOfTwo[k] \in Nat /\ k <= PowerOfTwo[k]
  BY PowerNat
<1>5. j > 1
  BY <1>3, <1>4, PowerStep
<1>6. /\ HalfUp(k) \in Nat /\ HalfUp(k) < k /\ HalfUp(j) \in 0..HalfUp(k)
  <2>1. k > 1
    BY <1>5
  <2>2. HalfUp(j) <= HalfUp(k)
    BY DEF HalfUp
  <2> QED BY <1>5, <2>1, <2>2, HalfIs
<1>7. HalfUp(k) \notin D
  <2> HIDE DEF D
  <2> QED BY <1>1, <1>2, <1>6
<1>8. PowerOfTwo[HalfUp(j)] <= PowerOfTwo[HalfUp(k)]
  BY <1>6, <1>7
<1>9. /\ PowerOfTwo[j] = 2 * PowerOfTwo[HalfUp(j)]
      /\ PowerOfTwo[k] = 2 * PowerOfTwo[HalfUp(k)]
  BY <1>5, PowerStep
<1>10. PowerOfTwo[HalfUp(j)] \in Nat /\ PowerOfTwo[HalfUp(k)] \in Nat
  BY <1>6, PowerNat
<1> HIDE DEF D
<1> QED BY <1>3, <1>8, <1>9, <1>10

LEMMA PageFacts == PAGE \in Nat /\ PAGE >= 8 /\ PowerOfTwo[PAGE] = PAGE
BY NumbersAssumption, PageAssumption

\* An alignment that is no larger than a page is not made larger than one.
LEMMA AlignmentFits ==
  ASSUME NEW n \in Nat, n <= PAGE
  PROVE  /\ PowerOfTwo[n] \in Nat /\ PowerOfTwo[n] <= PAGE
         /\ PowerOfTwo[PowerOfTwo[n]] = PowerOfTwo[n]
BY PowerNat, PowerOfPower, PowerRises, PageFacts

LEMMA NumberIs == \A a : NumberOf(a) \in Nat
BY NumbersAssumption DEF NumberOf, IsNumber

LEMMA WholeIs ==
  ASSUME NEW n \in Nat
  PROVE  /\ WholePages(n) \in Nat /\ WholePages(n) % PAGE = 0
         /\ n > 0 => WholePages(n) > 0
<1> DEFINE q == (n + PAGE - 1) \div PAGE
<1>1. q \in Nat /\ (n > 0 => q > 0)
  BY PageFacts
<1>2. WholePages(n) = q * PAGE
  BY DEF WholePages
<1> HIDE DEF q
<1>3. (q * PAGE) \in Nat /\ (q > 0 => q * PAGE > 0)
  BY <1>1, PageFacts
<1>4. (q * PAGE) % PAGE = 0
  BY <1>1, PageFacts
<1> QED BY <1>1, <1>2, <1>3, <1>4

LEMMA BufferFits ==
  ASSUME NEW h, NEW n \in Nat
  PROVE  /\ Oflow(h, n) \in Nat
         /\ "PAGEALLOC" \in h.flags => Oflow(h, n) > 0 /\ Oflow(h, n) % PAGE = 0
BY WholeIs DEF Oflow

-----------------------------------------------------------------------------
(***************************************************************************)
(* One setting                                                             *)
(***************************************************************************)
LEMMA KeysAre ==
  Keys = {"ALLOCBYTE", "ALLOCSTOP", "AUTOSAVE", "DEFALIGN", "FAILFREQ", "FAILSEED",
          "FREEBYTE", "FREESTOP", "LARGEBOUND", "LIMIT", "MEDIUMBOUND", "NOFREE",
          "OFLOWBYTE", "OFLOWSIZE", "REALLOCSTOP", "SMALLBOUND", "UNFREEDABORT",
          "CHECKLOWER", "CHECKUPPER", "CHECKFREQ"}
BY DEF Keys, Defaults

LEMMA DefaultsFit == Fitting(Defaults) /\ Untold(Defaults)
<1>1. Record(Defaults)
  <2>1. Defaults.val = [k \in Keys |-> Defaults.val[k]]
    BY DEF Keys, Defaults
  <2>2. Defaults = [flags |-> Defaults.flags, val |-> Defaults.val,
                    file |-> Defaults.file]
    BY DEF Defaults
  <2> QED BY <2>1, <2>2 DEF Record
<1>2. Defaults.flags = {}
  BY DEF Defaults
<1>3. PowerOfTwo[8] = 8
  <2>1. PowerOfTwo[1] = 1
    BY PowerStep
  <2>2. HalfUp(2) = 1 /\ HalfUp(4) = 2 /\ HalfUp(8) = 4
    BY DEF HalfUp
  <2>3. PowerOfTwo[2] = 2
    BY <2>1, <2>2, PowerStep
  <2>4. PowerOfTwo[4] = 4
    BY <2>2, <2>3, PowerStep
  <2> QED BY <2>2, <2>4, PowerStep
<1>4. ASSUME NEW k \in Keys PROVE Allowed({}, k, Defaults.val[k])
  <2>1. Defaults.val[k] \in Nat
    BY KeysAre DEF Defaults
  <2>2. k \in Bytes => Defaults.val[k] \in 0..255
    BY DEF Defaults, Bytes
  <2>3. /\ k = "DEFALIGN" => Defaults.val[k] = 8
        /\ k = "NOFREE" => Defaults.val[k] = 0
        /\ k = "CHECKFREQ" => Defaults.val[k] = 1
        /\ k = "MEDIUMBOUND" => Defaults.val[k] = 256
    BY DEF Defaults
  <2> QED BY <1>3, <2>1, <2>2, <2>3, PageFacts DEF Allowed
<1> QED BY <1>1, <1>2, <1>4 DEF Fitting, FlagsFit, Untold

\* The settings with value n for k, or with other flags.
LEMMA SetValueFits ==
  ASSUME NEW h, Fitting(h), NEW k \in Keys, NEW n, Allowed(h.flags, k, n)
  PROVE  LET g == [h EXCEPT !.val[k] = n]
         IN  Fitting(g) /\ g.flags = h.flags /\ g.val = [h.val EXCEPT ![k] = n]
<1> DEFINE v == [h.val EXCEPT ![k] = n]
           g == [h EXCEPT !.val[k] = n]
<1>1. Record(h) /\ \A j \in Keys : Allowed(h.flags, j, h.val[j])
  BY DEF Fitting
<1>2. g = [flags |-> h.flags, val |-> v, file |-> h.file]
  <2>1. h = [flags |-> h.flags, val |-> h.val, file |-> h.file]
    BY <1>1 DEF Record
  <2> QED BY <2>1
<1>3. v = [j \in Keys |-> IF j = k THEN n ELSE h.val[j]]
  BY <1>1 DEF Record
<1> HIDE DEF v, g
<1>4. \A j \in Keys : Allowed(h.flags, j, v[j])
  BY <1>1, <1>3
<1>5. Record(g)
  BY <1>2, <1>3 DEF Record
<1>6. Fitting(g)
  BY <1>2, <1>4, <1>5 DEF Fitting
<1> QED BY <1>2, <1>6 DEF g, v

LEMMA SetFlagsFits ==
  ASSUME NEW h, Fitting(h), NEW F, FlagsFit(F),
         "PAGEALLOC" \in F => "PAGEALLOC" \in h.flags,
         "NOFREE" \in F <=> "NOFREE" \in h.flags
  PROVE  LET g == [h EXCEPT !.flags = F]
         IN  Fitting(g) /\ g.flags = F /\ g.val = h.val
<1> DEFINE g == [h EXCEPT !.flags = F]
<1>1. Record(h) /\ \A j \in Keys : Allowed(h.flags, j, h.val[j])
  BY DEF Fitting
<1>2. g = [flags |-> F, val |-> h.val, file |-> h.file]
  <2>1. h = [flags |-> h.flags, val |-> h.val, file |-> h.file]
    BY <1>1 DEF Record
  <2> QED BY <2>1
<1> HIDE DEF g
<1>3. \A j \in Keys : Allowed(F, j, h.val[j])
  BY <1>1 DEF Allowed
<1>4. Record(g)
  BY <1>1, <1>2 DEF Record
<1>5. Fitting(g)
  BY <1>2, <1>3, <1>4 DEF Fitting
<1> QED BY <1>2, <1>5 DEF g

LEMMA SetFileFits ==
  ASSUME NEW h, Fitting(h), NEW k, NEW a
  PROVE  LET g == [h EXCEPT !.file[k] = a]
         IN  Fitting(g) /\ g.flags = h.flags
<1> DEFINE g == [h EXCEPT !.file[k] = a]
<1>1. Record(h)
  BY DEF Fitting
<1>2. g = [flags |-> h.flags, val |-> h.val, file |-> [h.file EXCEPT ![k] = a]]
  <2>1. h = [flags |-> h.flags, val |-> h.val, file |-> h.file]
    BY <1>1 DEF Record
  <2> QED BY <2>1
<1> HIDE DEF g
<1>3. Fitting(g)
  BY <1>1, <1>2 DEF Fitting, Record
<1> QED BY <1>2, <1>3 DEF g

-----------------------------------------------------------------------------
(***************************************************************************)
(* One option                                                              *)
(***************************************************************************)
Parsed(h) == Fitting(h) /\ Untold(h)

\* The flags that say something of others, or of numbers.
Tied == {"PAGEALLOC", "ALLOCUPPER", "NOFREE", "EDIT", "LIST", "leaks traced"}

LEMMA FlagGood ==
  ASSUME NEW h, Parsed(h), NEW a, NEW set, set \cap Tied = {}
  PROVE  Good(Flag(h, a, set))
<1> DEFINE F == h.flags \cup set
           g == [h EXCEPT !.flags = F]
<1>1. Fitting(h) /\ Untold(h) /\ FlagsFit(h.flags)
  BY DEF Parsed, Fitting
<1>2. \A f \in Tied : f \in F <=> f \in h.flags
  OBVIOUS
<1> HIDE DEF F
<1>3. /\ FlagsFit(F) /\ "leaks traced" \notin F
      /\ "PAGEALLOC" \in F => "PAGEALLOC" \in h.flags
      /\ "NOFREE" \in F <=> "NOFREE" \in h.flags
  BY <1>1, <1>2 DEF FlagsFit, Tied, Untold
<1>4. Fitting(g) /\ g.flags = F
  BY <1>1, <1>3, SetFlagsFits
<1>5. /\ Flag(h, a, set).lib = [h EXCEPT !.flags = h.flags \cup set]
      /\ Flag(h, a, set).code # "TOOLONG"
  BY DEF Flag, Obeyed
<1>6. Flag(h, a, set).lib = g
  BY <1>5 DEF F
<1> HIDE DEF g
<1> QED BY <1>3, <1>4, <1>5, <1>6 DEF Good, Untold

LEMMA EitherGood ==
  ASSUME NEW h, Parsed(h), NEW a, NEW this, NEW that,
         <<this, that>> \in {<<"EDIT", "LIST">>, <<"LIST", "EDIT">>}
  PROVE  Good(Either(h, a, this, that))
<1> DEFINE F == (h.flags \ {that}) \cup {this}
           g == [h EXCEPT !.flags = F]
<1>1. Fitting(h) /\ Untold(h) /\ FlagsFit(h.flags)
  BY DEF Parsed, Fitting
<1>2. /\ \A f \in {"PAGEALLOC", "ALLOCUPPER", "NOFREE", "leaks traced"} :
            f \in F <=> f \in h.flags
      /\ ~("EDIT" \in F /\ "LIST" \in F)
  OBVIOUS
<1> HIDE DEF F
<1>3. /\ FlagsFit(F) /\ "leaks traced" \notin F
      /\ "PAGEALLOC" \in F => "PAGEALLOC" \in h.flags
      /\ "NOFREE" \in F <=> "NOFREE" \in h.flags
  BY <1>1, <1>2 DEF FlagsFit, Untold
<1>4. Fitting(g) /\ g.flags = F
  BY <1>1, <1>3, SetFlagsFits
<1>5. /\ Either(h, a, this, that).lib
            = [h EXCEPT !.flags = (h.flags \ {that}) \cup {this}]
      /\ Either(h, a, this, that).code # "TOOLONG"
  BY DEF Either, Obeyed
<1>6. Either(h, a, this, that).lib = g
  BY <1>5 DEF F
<1> HIDE DEF g
<1> QED BY <1>3, <1>4, <1>5, <1>6 DEF Good, Untold

LEMMA ObeyedGood ==
  ASSUME NEW h, Parsed(h), NEW code, code # "TOOLONG"
  PROVE  Good(Obeyed(h, code))
BY DEF Parsed, Good, Obeyed

\* Whether a is taken for a number.
Taken(a, most) == IsNumber(a) /\ (most > 0 => NumberOf(a) <= most)

LEMMA NumberGood ==
  ASSUME NEW h, Parsed(h), NEW a, NEW most \in Nat, NEW u,
         Taken(a, most) => Parsed(u)
  PROVE  Good(Number(h, a, most, u))
<1>1. \/ /\ Number(h, a, most, u) \in {Obeyed(h, "NOARGUMENT"), Obeyed(h, "BADNUMBER"),
                                       Obeyed(h, "BIGNUMBER")}
      \/ Number(h, a, most, u) = Obeyed(u, "RECOGNISED") /\ Taken(a, most)
  BY NumberIs DEF Number, Taken
<1>2. /\ Good(Obeyed(h, "NOARGUMENT")) /\ Good(Obeyed(h, "BADNUMBER"))
      /\ Good(Obeyed(h, "BIGNUMBER"))
  BY ObeyedGood
<1>3. Parsed(u) => Good(Obeyed(u, "RECOGNISED"))
  BY ObeyedGood
<1> QED BY <1>1, <1>2, <1>3

LEMMA SettingParsed ==
  ASSUME NEW h, Parsed(h), NEW k \in Keys, NEW n, Allowed(h.flags, k, n)
  PROVE  Parsed([h EXCEPT !.val[k] = n])
BY SetValueFits DEF Parsed, Untold

\* A number that any value will do for, and a byte.
Plainly == {k \in Keys : k \notin {"OFLOWSIZE", "NOFREE", "DEFALIGN", "CHECKFREQ",
                                   "MEDIUMBOUND"}}

LEMMA ValueGood ==
  ASSUME NEW h, Parsed(h), NEW a, NEW k \in Plainly,
         NEW most \in Nat, k \in Bytes => most = 255
  PROVE  Good(Number(h, a, most, Value(h, k, a)))
<1>1. ASSUME Taken(a, most) PROVE Allowed(h.flags, k, NumberOf(a))
  BY <1>1, NumberIs DEF Allowed, Taken, Bytes, Plainly
<1>2. Taken(a, most) => Parsed([h EXCEPT !.val[k] = NumberOf(a)])
  BY <1>1, SettingParsed DEF Plainly
<1>3. Taken(a, most) => Parsed(Value(h, k, a))
  BY <1>2 DEF Value
<1> QED BY <1>3, NumberGood

LEMMA BoundGood ==
  ASSUME NEW h, Parsed(h), NEW a, NEW k \in Bounds
  PROVE  Good(Bound(h, k, a))
<1> DEFINE n == IF NumberOf(a) = 0 THEN Defaults.val[k] ELSE NumberOf(a)
           u == IF NumberOf(a) = 0 THEN [h EXCEPT !.val[k] = Defaults.val[k]]
                ELSE Value(h, k, a)
<1>1. k \in Keys /\ Defaults.val[k] \in Nat \ {0}
  BY KeysAre DEF Bounds, Defaults
<1>2. n \in Nat \ {0}
  BY <1>1, NumberIs
<1>3. u = [h EXCEPT !.val[k] = n]
  BY DEF Value
<1> HIDE DEF n
<1>4. Allowed(h.flags, k, n)
  BY <1>2 DEF Allowed, Bounds, Bytes
<1>5. Parsed(u)
  <2>1. Parsed([h EXCEPT !.val[k] = n])
    BY <1>1, <1>4, SettingParsed
  <2> HIDE DEF u
  <2> QED BY <1>3, <2>1
<1>6. Bound(h, k, a) = Number(h, a, 0, u)
  BY DEF Bound
<1> HIDE DEF u
<1> QED BY <1>5, <1>6, NumberGood

LEMMA FileGood ==
  ASSUME NEW h, Parsed(h), NEW k, NEW a
  PROVE  Good(File(h, k, a))
<1> DEFINE g == [h EXCEPT !.file[k] = a]
<1>1. Parsed(g)
  BY SetFileFits DEF Parsed, Untold
<1>2. File(h, k, a) \in {Obeyed(h, "NOARGUMENT"), Obeyed(g, "RECOGNISED")}
  BY DEF File
<1> HIDE DEF g
<1>3. Good(Obeyed(h, "NOARGUMENT")) /\ Good(Obeyed(g, "RECOGNISED"))
  BY <1>1, ObeyedGood
<1> QED BY <1>2, <1>3

LEMMA AlignGood ==
  ASSUME NEW h, Parsed(h), NEW a
  PROVE  Good(OptionsAtoD(h, "DEFALIGN", a))
<1> DEFINE n == PowerOfTwo[NumberOf(a)]
           u == [h EXCEPT !.val["DEFALIGN"] = n]
           opt == Number(h, a, PAGE, u)
<1>1. OptionsAtoD(h, "DEFALIGN", a) \in {Obeyed(h, "BADNUMBER"), opt}
  BY DEF OptionsAtoD
<1>2. ASSUME Taken(a, PAGE) PROVE Parsed(u)
  <2>1. NumberOf(a) \in Nat /\ NumberOf(a) <= PAGE
    BY <1>2, NumberIs, PageFacts DEF Taken
  <2>2. n \in Nat /\ n <= PAGE /\ PowerOfTwo[n] = n
    BY <2>1, AlignmentFits
  <2> HIDE DEF n
  <2>3. Allowed(h.flags, "DEFALIGN", n)
    BY <2>2 DEF Allowed, Bounds, Bytes
  <2>4. "DEFALIGN" \in Keys
    BY KeysAre
  <2> QED BY <2>3, <2>4, SettingParsed
<1> HIDE DEF u
<1>3. Good(opt)
  BY <1>2, NumberGood, PageFacts
<1>4. Good(Obeyed(h, "BADNUMBER"))
  BY ObeyedGood
<1> HIDE DEF opt
<1> QED BY <1>1, <1>3, <1>4

LEMMA RangeIs ==
  ASSUME NEW a
  PROVE  LET r == ReadRange(a) IN r.l \in Int /\ r.u \in Int /\ r.d \in Nat \ {0}
<1> DEFINE p == RangeParts(a)
           e == EndsOf(p)
           f == InOrder(e)
<1>1. \A s : NumberOr(s, OPEN) \in Int /\ NumberOr(s, 1) \in Nat
  BY NumberIs DEF NumberOr, OPEN
<1> HIDE DEF p
<1>2. e = Ends(e.l, e.u) /\ e.l \in Int /\ e.u \in Int
  BY <1>1 DEF EndsOf, Ends
<1> HIDE DEF e
<1>3. f.l \in Int /\ f.u \in Int
  BY <1>2 DEF InOrder, Ends, OPEN
<1> HIDE DEF f
<1>4. /\ RangeOf(p, f).l = f.l /\ RangeOf(p, f).u = f.u
      /\ RangeOf(p, f).d \in Nat \ {0}
  BY <1>1 DEF RangeOf
<1>5. ReadRange(a) = RangeOf(p, f)
  BY DEF ReadRange, ReadParts, p, e, f
<1> QED BY <1>3, <1>4, <1>5

LEMMA CheckGood ==
  ASSUME NEW h, Parsed(h), NEW a
  PROVE  Good(OptionsAtoD(h, "CHECK", a))
<1> DEFINE r == ReadRange(a)
           v == [h EXCEPT !.val["CHECKLOWER"] = r.l]
           w == [v EXCEPT !.val["CHECKUPPER"] = r.u]
           x == [w EXCEPT !.val["CHECKFREQ"] = r.d]
<1>1. r.l \in Int /\ r.u \in Int /\ r.d \in Nat \ {0}
  BY RangeIs
<1>2. OptionsAtoD(h, "CHECK", a)
        \in {Obeyed(h, "NOARGUMENT"), Obeyed(h, "BADRANGE"), Obeyed(x, "RECOGNISED")}
  BY DEF OptionsAtoD
<1>3. /\ "CHECKLOWER" \in Keys /\ "CHECKUPPER" \in Keys /\ "CHECKFREQ" \in Keys
  BY KeysAre
<1> HIDE DEF r
<1>4. \A F : /\ Allowed(F, "CHECKLOWER", r.l) /\ Allowed(F, "CHECKUPPER", r.u)
             /\ Allowed(F, "CHECKFREQ", r.d)
  BY <1>1 DEF Allowed, Bounds, Bytes
<1>5. Parsed(v)
  BY <1>3, <1>4, SettingParsed
<1> HIDE DEF v
<1>6. Parsed(w)
  BY <1>3, <1>4, <1>5, SettingParsed
<1> HIDE DEF w
<1>7. Parsed(x)
  BY <1>3, <1>4, <1>6, SettingParsed
<1> HIDE DEF x
<1>8. /\ Good(Obeyed(h, "NOARGUMENT")) /\ Good(Obeyed(h, "BADRANGE"))
      /\ Good(Obeyed(x, "RECOGNISED"))
  BY <1>7, ObeyedGood
<1> QED BY <1>2, <1>8

\* A number and the flag that goes with it.
NofreeFlags(F, n) == IF n = 0 THEN F \ {"NOFREE"} ELSE F \cup {"NOFREE"}
WithNofree(h, n) == [[h EXCEPT !.val["NOFREE"] = n] EXCEPT !.flags = NofreeFlags(@, n)]

LEMMA NofreeFits ==
  ASSUME NEW h, Fitting(h), NEW n \in Nat
  PROVE  /\ Fitting(WithNofree(h, n))
         /\ WithNofree(h, n).flags = NofreeFlags(h.flags, n)
         /\ WithNofree(h, n).val = [h.val EXCEPT !["NOFREE"] = n]
<1> DEFINE F == NofreeFlags(h.flags, n)
           v == [h.val EXCEPT !["NOFREE"] = n]
           g == WithNofree(h, n)
<1>1. /\ Record(h) /\ FlagsFit(h.flags)
      /\ \A j \in Keys : Allowed(h.flags, j, h.val[j])
  BY DEF Fitting
<1>2. /\ \A f : f # "NOFREE" => (f \in F <=> f \in h.flags)
      /\ "NOFREE" \in F <=> n > 0
  BY DEF NofreeFlags
<1>3. g = [flags |-> F, val |-> v, file |-> h.file]
  <2> DEFINE w == [h EXCEPT !.val["NOFREE"] = n]
  <2>1. h = [flags |-> h.flags, val |-> h.val, file |-> h.file]
    BY <1>1 DEF Record
  <2>2. w = [flags |-> h.flags, val |-> v, file |-> h.file]
    BY <2>1
  <2>3. g = [w EXCEPT !.flags = NofreeFlags(w.flags, n)]
    BY DEF WithNofree
  <2> HIDE DEF w, v, g
  <2> QED BY <2>2, <2>3
<1>4. v = [j \in Keys |-> IF j = "NOFREE" THEN n ELSE h.val[j]]
  BY <1>1 DEF Record
<1> HIDE DEF v, g, F
<1>5. ASSUME NEW j \in Keys PROVE Allowed(F, j, v[j])
  <2>1. CASE j = "NOFREE"
    BY <1>2, <1>4, <2>1 DEF Allowed, Bounds, Bytes
  <2>2. CASE j # "NOFREE"
    <3>1. v[j] = h.val[j] /\ ("PAGEALLOC" \in F <=> "PAGEALLOC" \in h.flags)
      BY <1>2, <1>4, <2>2
    <3> QED BY <1>1, <2>2, <3>1 DEF Allowed
  <2> QED BY <2>1, <2>2
<1>6. FlagsFit(F)
  BY <1>1, <1>2 DEF FlagsFit
<1>7. Record(g)
  BY <1>3, <1>4 DEF Record
<1>8. Fitting(g)
  BY <1>3, <1>5, <1>6, <1>7 DEF Fitting
<1> QED BY <1>3, <1>8 DEF g, v, F

LEMMA NofreeGood ==
  ASSUME NEW h, Parsed(h), NEW a
  PROVE  Good(OptionsMtoO(h, "NOFREE", a))
<1> DEFINE n == NumberOf(a)
           F == NofreeFlags(h.flags, n)
           g == WithNofree(h, n)
<1>1. n \in Nat /\ Fitting(h)
  BY NumberIs DEF Parsed
<1>2. Fitting(g) /\ g.flags = F
  <2> HIDE DEF n
  <2> QED BY <1>1, NofreeFits
<1>3. Parsed(g)
  <2>1. "leaks traced" \notin F
    BY DEF Parsed, Untold, NofreeFlags
  <2> HIDE DEF F, g
  <2> QED BY <1>2, <2>1 DEF Parsed, Untold
<1> DEFINE u == Value(h, "NOFREE", a)
<1>4. u = [h EXCEPT !.val["NOFREE"] = n]
  BY DEF Value
<1>5. OptionsMtoO(h, "NOFREE", a)
        = Number(h, a, 0, [u EXCEPT !.flags = IF u.val.NOFREE = 0
                                              THEN u.flags \ {"NOFREE"}
                                              ELSE u.flags \cup {"NOFREE"}])
  BY DEF OptionsMtoO
<1>6. u.val.NOFREE = n
  <2>1. Record(h) /\ "NOFREE" \in Keys
    BY <1>1, KeysAre DEF Fitting
  <2> HIDE DEF n
  <2> QED BY <1>4, <2>1 DEF Record
<1> HIDE DEF u
<1>7. OptionsMtoO(h, "NOFREE", a)
        = Number(h, a, 0, [u EXCEPT !.flags = NofreeFlags(u.flags, n)])
  BY <1>5, <1>6 DEF NofreeFlags
<1>8. OptionsMtoO(h, "NOFREE", a) = Number(h, a, 0, g)
  BY <1>4, <1>7 DEF WithNofree
<1> HIDE DEF g
<1> QED BY <1>3, <1>8, NumberGood

LEMMA OflowsizeGood ==
  ASSUME NEW h, Parsed(h), NEW a
  PROVE  Good(OptionsMtoO(h, "OFLOWSIZE", a))
<1> DEFINE n == Oflow(h, PowerOfTwo[NumberOf(a)])
           u == [h EXCEPT !.val["OFLOWSIZE"] = n]
           opt == Number(h, a, 0, u)
<1>1. OptionsMtoO(h, "OFLOWSIZE", a) \in {Obeyed(h, "BADNUMBER"), opt}
  BY DEF OptionsMtoO
<1>2. n \in Nat /\ ("PAGEALLOC" \in h.flags => n > 0 /\ n % PAGE = 0)
  BY NumberIs, PowerNat, BufferFits
<1> HIDE DEF n
<1>3. Allowed(h.flags, "OFLOWSIZE", n)
  BY <1>2 DEF Allowed, Bounds, Bytes
<1>4. Parsed(u)
  BY <1>3, KeysAre, SettingParsed
<1> HIDE DEF u
<1>5. Good(opt)
  BY <1>4, NumberGood
<1>6. Good(Obeyed(h, "BADNUMBER"))
  BY ObeyedGood
<1> HIDE DEF opt
<1> QED BY <1>1, <1>5, <1>6

LEMMA PageallocGood ==
  ASSUME NEW h, Parsed(h), NEW a
  PROVE  Good(OptionsPtoR(h, "PAGEALLOC", a))
<1> DEFINE F == h.flags \cup ({"PAGEALLOC"} \cup (IF a = <<"UPPER">> THEN {"ALLOCUPPER"}
                                                  ELSE {}))
           u == [h EXCEPT !.flags = F]
           n == Oflow(u, u.val.OFLOWSIZE)
           g == [u EXCEPT !.val.OFLOWSIZE = n]
<1>1. /\ Record(h) /\ FlagsFit(h.flags) /\ Untold(h)
      /\ \A j \in Keys : Allowed(h.flags, j, h.val[j])
  BY DEF Parsed, Fitting
<1>2. /\ "PAGEALLOC" \in F /\ FlagsFit(F) /\ "leaks traced" \notin F
      /\ "NOFREE" \in F <=> "NOFREE" \in h.flags
  BY <1>1 DEF FlagsFit, Untold
<1>3. u = [flags |-> F, val |-> h.val, file |-> h.file]
  <2>1. h = [flags |-> h.flags, val |-> h.val, file |-> h.file]
    BY <1>1 DEF Record
  <2> HIDE DEF F
  <2> QED BY <2>1
<1>4. OptionsPtoR(h, "PAGEALLOC", a)
        \in {Obeyed(h, "NOARGUMENT"), Obeyed(h, "LOWERORUPPER"), Obeyed(g, "RECOGNISED")}
  BY DEF OptionsPtoR
<1> HIDE DEF F, u
<1>5. "OFLOWSIZE" \in Keys /\ h.val.OFLOWSIZE \in Nat
  <2>1. "OFLOWSIZE" \in Keys
    BY KeysAre
  <2> QED BY <1>1, <2>1 DEF Allowed
<1>6. n \in Nat /\ n > 0 /\ n % PAGE = 0
  BY <1>2, <1>3, <1>5, BufferFits
<1> HIDE DEF n
<1>7. g = [flags |-> F, val |-> [h.val EXCEPT !["OFLOWSIZE"] = n], file |-> h.file]
  BY <1>3
<1> HIDE DEF g
<1> DEFINE v == [h.val EXCEPT !["OFLOWSIZE"] = n]
<1>8. v = [j \in Keys |-> IF j = "OFLOWSIZE" THEN n ELSE h.val[j]]
  BY <1>1 DEF Record
<1>9. g = [flags |-> F, val |-> v, file |-> h.file]
  BY <1>7
<1> HIDE DEF v
<1>10. ASSUME NEW j \in Keys PROVE Allowed(F, j, v[j])
  <2>1. CASE j = "OFLOWSIZE"
    BY <1>6, <1>8, <2>1 DEF Allowed, Bounds, Bytes
  <2>2. CASE j # "OFLOWSIZE"
    BY <1>1, <1>2, <1>8, <2>2 DEF Allowed
  <2> QED BY <2>1, <2>2
<1>11. Record(g)
  BY <1>8, <1>9 DEF Record
<1>12. Parsed(g)
  BY <1>2, <1>9, <1>10, <1>11 DEF Parsed, Fitting, Untold
<1>13. /\ Good(Obeyed(h, "NOARGUMENT")) /\ Good(Obeyed(h, "LOWERORUPPER"))
       /\ Good(Obeyed(g, "RECOGNISED"))
  BY <1>12, ObeyedGood
<1> QED BY <1>4, <1>13

-----------------------------------------------------------------------------
(***************************************************************************)
(* Any option                                                              *)
(***************************************************************************)
LEMMA AtoDGood ==
  ASSUME NEW h, Parsed(h), NEW o \in Letters.AtoD, NEW a
  PROVE  Good(OptionsAtoD(h, o, a))
<1>1. CASE o = "ALLOCBYTE"
  <2>1. OptionsAtoD(h, o, a) = Number(h, a, 255, Value(h, o, a))
    BY <1>1 DEF OptionsAtoD
  <2>2. o \in Plainly
    BY <1>1, KeysAre DEF Plainly
  <2> QED BY <2>1, <2>2, ValueGood
<1>2. CASE o \in {"ALLOCSTOP", "AUTOSAVE"}
  <2>1. OptionsAtoD(h, o, a) = Number(h, a, 0, Value(h, o, a))
    BY <1>2 DEF OptionsAtoD
  <2>2. o \in Plainly /\ o \notin Bytes
    BY <1>2, KeysAre DEF Bytes, Plainly
  <2> QED BY <2>1, <2>2, ValueGood
<1>3. CASE o = "CHECK"
  BY <1>3, CheckGood
<1>4. CASE o = "CHECKALL"
  <2>1. OptionsAtoD(h, o, a) = Flag(h, a, CheckOptions)
    BY <1>4 DEF OptionsAtoD
  <2>2. CheckOptions \cap Tied = {}
    BY DEF CheckOptions, Tied
  <2> QED BY <2>1, <2>2, FlagGood
<1>5. CASE o = "DEFALIGN"
  BY <1>5, AlignGood
<1>6. CASE o \in CheckOptions \cup {"ALLOWOFLOW", "CHECKFORK"}
  <2>1. OptionsAtoD(h, o, a) = Flag(h, a, {o})
    BY <1>6 DEF OptionsAtoD, CheckOptions
  <2>2. {o} \cap Tied = {}
    BY <1>6 DEF CheckOptions, Tied
  <2> QED BY <2>1, <2>2, FlagGood
<1> QED BY <1>1, <1>2, <1>3, <1>4, <1>5, <1>6 DEF Letters

LEMMA EtoHGood ==
  ASSUME NEW h, Parsed(h), NEW o \in Letters.EtoH, NEW a
  PROVE  Good(OptionsEtoH(h, o, a))
<1>1. CASE o = "EDIT"
  <2>1. OptionsEtoH(h, o, a) = Either(h, a, "EDIT", "LIST")
    BY <1>1 DEF OptionsEtoH
  <2> QED BY <2>1, EitherGood
<1>2. CASE o = "FREEBYTE"
  <2>1. OptionsEtoH(h, o, a) = Number(h, a, 255, Value(h, o, a))
    BY <1>2 DEF OptionsEtoH
  <2>2. o \in Plainly
    BY <1>2, KeysAre DEF Plainly
  <2> QED BY <2>1, <2>2, ValueGood
<1>3. CASE o \in {"FAILFREQ", "FAILSEED", "FREESTOP"}
  <2>1. OptionsEtoH(h, o, a) = Number(h, a, 0, Value(h, o, a))
    BY <1>3 DEF OptionsEtoH
  <2>2. o \in Plainly /\ o \notin Bytes
    BY <1>3, KeysAre DEF Bytes, Plainly
  <2> QED BY <2>1, <2>2, ValueGood
<1>4. CASE o = "HELP"
  <2>1. OptionsEtoH(h, o, a) = Flag(h, a, {})
    BY <1>4 DEF OptionsEtoH
  <2> QED BY <2>1, FlagGood
<1>5. CASE o = "HTML"
  <2>1. OptionsEtoH(h, o, a) = Flag(h, a, {"HTMLNEXT"})
    BY <1>5 DEF OptionsEtoH
  <2>2. {"HTMLNEXT"} \cap Tied = {}
    BY DEF Tied
  <2> QED BY <2>1, <2>2, FlagGood
<1> QED BY <1>1, <1>2, <1>3, <1>4, <1>5 DEF Letters

LEMMA LGood ==
  ASSUME NEW h, Parsed(h), NEW o \in Letters.L, NEW a
  PROVE  Good(OptionsL(h, o, a))
<1>1. CASE o = "LARGEBOUND"
  <2>1. OptionsL(h, o, a) = Bound(h, o, a)
    BY <1>1 DEF OptionsL
  <2> QED BY <1>1, <2>1, BoundGood DEF Bounds
<1>2. CASE o = "LIMIT"
  <2>1. OptionsL(h, o, a) = Number(h, a, 0, Value(h, o, a))
    BY <1>2 DEF OptionsL
  <2>2. o \in Plainly /\ o \notin Bytes
    BY <1>2, KeysAre DEF Bytes, Plainly
  <2> QED BY <2>1, <2>2, ValueGood
<1>3. CASE o = "LIST"
  <2>1. OptionsL(h, o, a) = Either(h, a, "LIST", "EDIT")
    BY <1>3 DEF OptionsL
  <2> QED BY <2>1, EitherGood
<1>4. CASE o = "LOGALL"
  <2>1. OptionsL(h, o, a) = Flag(h, a, LogOptions)
    BY <1>4 DEF OptionsL
  <2>2. LogOptions \cap Tied = {}
    BY DEF LogOptions, Tied
  <2> QED BY <2>1, <2>2, FlagGood
<1>5. CASE o = "LOGFILE"
  <2>1. OptionsL(h, o, a) = File(h, o, a)
    BY <1>5 DEF OptionsL
  <2> QED BY <2>1, FileGood
<1>6. CASE o \in LogOptions \cup {"LEAKTABLE"}
  <2>1. OptionsL(h, o, a) = Flag(h, a, {o})
    BY <1>6 DEF OptionsL, LogOptions
  <2>2. {o} \cap Tied = {}
    BY <1>6 DEF LogOptions, Tied
  <2> QED BY <2>1, <2>2, FlagGood
<1> QED BY <1>1, <1>2, <1>3, <1>4, <1>5, <1>6 DEF Letters

LEMMA MtoOGood ==
  ASSUME NEW h, Parsed(h), NEW o \in Letters.MtoO, NEW a
  PROVE  Good(OptionsMtoO(h, o, a))
<1>1. CASE o = "MEDIUMBOUND"
  <2>1. OptionsMtoO(h, o, a) = Bound(h, o, a)
    BY <1>1 DEF OptionsMtoO
  <2> QED BY <1>1, <2>1, BoundGood DEF Bounds
<1>2. CASE o = "NOFREE"
  BY <1>2, NofreeGood
<1>3. CASE o = "OFLOWBYTE"
  <2>1. OptionsMtoO(h, o, a) = Number(h, a, 255, Value(h, o, a))
    BY <1>3 DEF OptionsMtoO
  <2>2. o \in Plainly
    BY <1>3, KeysAre DEF Plainly
  <2> QED BY <2>1, <2>2, ValueGood
<1>4. CASE o = "OFLOWSIZE"
  BY <1>4, OflowsizeGood
<1>5. CASE o \in {"NOPROTECT", "OFLOWWATCH"}
  <2>1. OptionsMtoO(h, o, a) = Flag(h, a, {o})
    BY <1>5 DEF OptionsMtoO
  <2>2. {o} \cap Tied = {}
    BY <1>5 DEF Tied
  <2> QED BY <2>1, <2>2, FlagGood
<1> QED BY <1>1, <1>2, <1>3, <1>4, <1>5 DEF Letters

LEMMA PtoRGood ==
  ASSUME NEW h, Parsed(h), NEW o \in Letters.PtoR, NEW a
  PROVE  Good(OptionsPtoR(h, o, a))
<1>1. CASE o = "PAGEALLOC"
  BY <1>1, PageallocGood
<1>2. CASE o \in {"PROFFILE", "PROGFILE"}
  <2>1. OptionsPtoR(h, o, a) = File(h, o, a)
    BY <1>2 DEF OptionsPtoR
  <2> QED BY <2>1, FileGood
<1>3. CASE o = "REALLOCSTOP"
  <2>1. OptionsPtoR(h, o, a) = Number(h, a, 0, Value(h, o, a))
    BY <1>3 DEF OptionsPtoR
  <2>2. o \in Plainly /\ o \notin Bytes
    BY <1>3, KeysAre DEF Bytes, Plainly
  <2> QED BY <2>1, <2>2, ValueGood
<1>4. CASE o \in {"PRESERVE", "PROF"}
  <2>1. OptionsPtoR(h, o, a) = Flag(h, a, {o})
    BY <1>4 DEF OptionsPtoR
  <2>2. {o} \cap Tied = {}
    BY <1>4 DEF Tied
  <2> QED BY <2>1, <2>2, FlagGood
<1> QED BY <1>1, <1>2, <1>3, <1>4 DEF Letters

LEMMA SGood ==
  ASSUME NEW h, Parsed(h), NEW o \in Letters.S, NEW a
  PROVE  Good(OptionsS(h, o, a))
<1>1. CASE o = "SHOWALL"
  <2>1. OptionsS(h, o, a) = Flag(h, a, ShowOptions)
    BY <1>1 DEF OptionsS
  <2>2. ShowOptions \cap Tied = {}
    BY DEF ShowOptions, Tied
  <2> QED BY <2>1, <2>2, FlagGood
<1>2. CASE o = "SMALLBOUND"
  <2>1. OptionsS(h, o, a) = Bound(h, o, a)
    BY <1>2 DEF OptionsS
  <2> QED BY <1>2, <2>1, BoundGood DEF Bounds
<1>3. CASE o \in ShowOptions \cup {"SAFESIGNALS"}
  <2>1. OptionsS(h, o, a) = Flag(h, a, {o})
    BY <1>3 DEF OptionsS, ShowOptions
  <2>2. {o} \cap Tied = {}
    BY <1>3 DEF ShowOptions, Tied
  <2> QED BY <2>1, <2>2, FlagGood
<1> QED BY <1>1, <1>2, <1>3 DEF Letters

LEMMA TtoUGood ==
  ASSUME NEW h, Parsed(h), NEW o \in Letters.TtoU, NEW a
  PROVE  Good(OptionsTtoU(h, o, a))
<1>1. CASE o = "TRACEFILE"
  <2>1. OptionsTtoU(h, o, a) = File(h, o, a)
    BY <1>1 DEF OptionsTtoU
  <2> QED BY <2>1, FileGood
<1>2. CASE o = "UNFREEDABORT"
  <2>1. OptionsTtoU(h, o, a) = Number(h, a, 0, Value(h, o, a))
    BY <1>2 DEF OptionsTtoU
  <2>2. o \in Plainly /\ o \notin Bytes
    BY <1>2, KeysAre DEF Bytes, Plainly
  <2> QED BY <2>1, <2>2, ValueGood
<1>3. CASE o \in {"TRACE", "USEDEBUG", "USEMMAP"}
  <2>1. OptionsTtoU(h, o, a) = Flag(h, a, {o})
    BY <1>3 DEF OptionsTtoU
  <2>2. {o} \cap Tied = {}
    BY <1>3 DEF Tied
  <2> QED BY <2>1, <2>2, FlagGood
<1> QED BY <1>1, <1>2, <1>3 DEF Letters

\* The cases of the switch exclude one another.
Only(o, c) == \A d \in DOMAIN Letters : o \in Letters[d] => d = c

LEMMA LettersAre ==
  /\ DOMAIN Letters = {"AtoD", "EtoH", "L", "MtoO", "PtoR", "S", "TtoU"}
  /\ Letters.AtoD = Letters["AtoD"] /\ Letters.EtoH = Letters["EtoH"]
  /\ Letters.L = Letters["L"] /\ Letters.MtoO = Letters["MtoO"]
  /\ Letters.PtoR = Letters["PtoR"] /\ Letters.S = Letters["S"]
  /\ Letters.TtoU = Letters["TtoU"]
BY DEF Letters

LEMMA LettersApart ==
  ASSUME NEW c \in DOMAIN Letters, NEW o \in Letters[c]
  PROVE  Only(o, c) /\ o # ""
<1>1. CASE c = "AtoD"
  <2>1. o \in Letters.AtoD
    BY <1>1
  <2>2. /\ o \notin Letters.EtoH /\ o \notin Letters.L /\ o \notin Letters.MtoO
        /\ o \notin Letters.PtoR /\ o \notin Letters.S /\ o \notin Letters.TtoU
        /\ o # ""
    BY <2>1 DEF Letters, CheckOptions, LogOptions, ShowOptions
  <2> QED BY <1>1, <2>2, LettersAre DEF Only
<1>2. CASE c = "EtoH"
  <2>1. o \in Letters.EtoH
    BY <1>2
  <2>2. /\ o \notin Letters.AtoD /\ o \notin Letters.L /\ o \notin Letters.MtoO
        /\ o \notin Letters.PtoR /\ o \notin Letters.S /\ o \notin Letters.TtoU
        /\ o # ""
    BY <2>1 DEF Letters, CheckOptions, LogOptions, ShowOptions
  <2> QED BY <1>2, <2>2, LettersAre DEF Only
<1>3. CASE c = "L"
  <2>1. o \in Letters.L
    BY <1>3
  <2>2. /\ o \notin Letters.AtoD /\ o \notin Letters.EtoH /\ o \notin Letters.MtoO
        /\ o \notin Letters.PtoR /\ o \notin Letters.S /\ o \notin Letters.TtoU
        /\ o # ""
    BY <2>1 DEF Letters, CheckOptions, LogOptions, ShowOptions
  <2> QED BY <1>3, <2>2, LettersAre DEF Only
<1>4. CASE c = "MtoO"
  <2>1. o \in Letters.MtoO
    BY <1>4
  <2>2. /\ o \notin Letters.AtoD /\ o \notin Letters.EtoH /\ o \notin Letters.L
        /\ o \notin Letters.PtoR /\ o \notin Letters.S /\ o \notin Letters.TtoU
        /\ o # ""
    BY <2>1 DEF Letters, CheckOptions, LogOptions, ShowOptions
  <2> QED BY <1>4, <2>2, LettersAre DEF Only
<1>5. CASE c = "PtoR"
  <2>1. o \in Letters.PtoR
    BY <1>5
  <2>2. /\ o \notin Letters.AtoD /\ o \notin Letters.EtoH /\ o \notin Letters.L
        /\ o \notin Letters.MtoO /\ o \notin Letters.S /\ o \notin Letters.TtoU
        /\ o # ""
    BY <2>1 DEF Letters, CheckOptions, LogOptions, ShowOptions
  <2> QED BY <1>5, <2>2, LettersAre DEF Only
<1>6. CASE c = "S"
  <2>1. o \in Letters.S
    BY <1>6
  <2>2. /\ o \notin Letters.AtoD /\ o \notin Letters.EtoH /\ o \notin Letters.L
        /\ o \notin Letters.MtoO /\ o \notin Letters.PtoR /\ o \notin Letters.TtoU
        /\ o # ""
    BY <2>1 DEF Letters, CheckOptions, LogOptions, ShowOptions
  <2> QED BY <1>6, <2>2, LettersAre DEF Only
<1>7. CASE c = "TtoU"
  <2>1. o \in Letters.TtoU
    BY <1>7
  <2>2. /\ o \notin Letters.AtoD /\ o \notin Letters.EtoH /\ o \notin Letters.L
        /\ o \notin Letters.MtoO /\ o \notin Letters.PtoR /\ o \notin Letters.S
        /\ o # ""
    BY <2>1 DEF Letters, CheckOptions, LogOptions, ShowOptions
  <2> QED BY <1>7, <2>2, LettersAre DEF Only
<1> QED BY <1>1, <1>2, <1>3, <1>4, <1>5, <1>6, <1>7, LettersAre

LEMMA ObeyGood ==
  ASSUME NEW h, Parsed(h), NEW key, NEW a
  PROVE  Good(Obey(h, key, a))
<1> DEFINE o == Keyword(key)
           r == Obey(h, key, a)
<1>1. key = <<>> => o = ""
  BY DEF Keyword
<1> HIDE DEF o
<1>2. CASE o \in Letters.AtoD
  <2>1. Only(o, "AtoD") /\ o # ""
    BY <1>2, LettersApart, LettersAre
  <2>2. r = OptionsAtoD(h, o, a)
    BY <1>1, <1>2, <2>1, LettersAre DEF Obey, Only, o
  <2> QED BY <1>2, <2>2, AtoDGood
<1>3. CASE o \in Letters.EtoH
  <2>1. Only(o, "EtoH") /\ o # ""
    BY <1>3, LettersApart, LettersAre
  <2>2. r = OptionsEtoH(h, o, a)
    BY <1>1, <1>3, <2>1, LettersAre DEF Obey, Only, o
  <2> QED BY <1>3, <2>2, EtoHGood
<1>4. CASE o \in Letters.L
  <2>1. Only(o, "L") /\ o # ""
    BY <1>4, LettersApart, LettersAre
  <2>2. r = OptionsL(h, o, a)
    BY <1>1, <1>4, <2>1, LettersAre DEF Obey, Only, o
  <2> QED BY <1>4, <2>2, LGood
<1>5. CASE o \in Letters.MtoO
  <2>1. Only(o, "MtoO") /\ o # ""
    BY <1>5, LettersApart, LettersAre
  <2>2. r = OptionsMtoO(h, o, a)
    BY <1>1, <1>5, <2>1, LettersAre DEF Obey, Only, o
  <2> QED BY <1>5, <2>2, MtoOGood
<1>6. CASE o \in Letters.PtoR
  <2>1. Only(o, "PtoR") /\ o # ""
    BY <1>6, LettersApart, LettersAre
  <2>2. r = OptionsPtoR(h, o, a)
    BY <1>1, <1>6, <2>1, LettersAre DEF Obey, Only, o
  <2> QED BY <1>6, <2>2, PtoRGood
<1>7. CASE o \in Letters.S
  <2>1. Only(o, "S") /\ o # ""
    BY <1>7, LettersApart, LettersAre
  <2>2. r = OptionsS(h, o, a)
    BY <1>1, <1>7, <2>1, LettersAre DEF Obey, Only, o
  <2> QED BY <1>7, <2>2, SGood
<1>8. CASE o \in Letters.TtoU
  <2>1. Only(o, "TtoU") /\ o # ""
    BY <1>8, LettersApart, LettersAre
  <2>2. r = OptionsTtoU(h, o, a)
    BY <1>1, <1>8, <2>1, LettersAre DEF Obey, Only, o
  <2> QED BY <1>8, <2>2, TtoUGood
<1>9. CASE \A c \in DOMAIN Letters : o \notin Letters[c]
  <2>1. r \in {Obeyed(h, "NOOPTION"), Obeyed(h, "UNRECOGNISED")}
    BY <1>9, LettersAre DEF Obey, o
  <2>2. Good(Obeyed(h, "NOOPTION")) /\ Good(Obeyed(h, "UNRECOGNISED"))
    BY ObeyedGood
  <2> QED BY <2>1, <2>2
<1> QED
  BY <1>2, <1>3, <1>4, <1>5, <1>6, <1>7, <1>8, <1>9, LettersAre

-----------------------------------------------------------------------------
(***************************************************************************)
(* The end of the options, and changes by the program                      *)
(***************************************************************************)
LEMMA BoundedFits ==
  ASSUME NEW h, Fitting(h)
  PROVE  /\ Fitting(Bounded(h)) /\ Bounded(h).flags = h.flags
         /\ Bounded(h).val.SMALLBOUND < Bounded(h).val.MEDIUMBOUND
         /\ Bounded(h).val.MEDIUMBOUND < Bounded(h).val.LARGEBOUND
<1> DEFINE m == h.val.MEDIUMBOUND
           s == h.val.SMALLBOUND
           l == h.val.LARGEBOUND
           u == IF s >= m THEN [h EXCEPT !.val["SMALLBOUND"] = m - 1] ELSE h
           g == IF l <= m THEN [u EXCEPT !.val["LARGEBOUND"] = m + 1] ELSE u
<1>1. /\ "SMALLBOUND" \in Keys /\ "MEDIUMBOUND" \in Keys /\ "LARGEBOUND" \in Keys
  BY KeysAre
<1>2. m \in Nat /\ m > 0 /\ s \in Nat /\ l \in Nat
  BY <1>1 DEF Fitting, Allowed, Bounds
<1>3. Record(h)
  BY DEF Fitting
<1>4. /\ Fitting(u) /\ u.flags = h.flags /\ u.val.MEDIUMBOUND = m
      /\ u.val.LARGEBOUND = l /\ u.val.SMALLBOUND < m
  <2>1. CASE s >= m
    <3> DEFINE v == [h EXCEPT !.val["SMALLBOUND"] = m - 1]
    <3>1. Allowed(h.flags, "SMALLBOUND", m - 1)
      BY <1>2 DEF Allowed, Bounds, Bytes
    <3> HIDE DEF m, s, l
    <3>2. /\ Fitting(v) /\ v.flags = h.flags
          /\ v.val = [h.val EXCEPT !["SMALLBOUND"] = m - 1]
      BY <1>1, <3>1, SetValueFits
    <3>3. u = v
      BY <2>1
    <3> HIDE DEF v, u
    <3>4. /\ v.val.SMALLBOUND = m - 1 /\ v.val.MEDIUMBOUND = m /\ v.val.LARGEBOUND = l
      BY <1>1, <1>3, <3>2 DEF Record, m, l
    <3>5. m - 1 < m
      BY <1>2
    <3>6. /\ Fitting(v) /\ v.flags = h.flags /\ v.val.MEDIUMBOUND = m
          /\ v.val.LARGEBOUND = l /\ v.val.SMALLBOUND < m
      BY <3>2, <3>4, <3>5
    <3> QED BY <3>3, <3>6, Zenon
  <2>2. CASE ~(s >= m)
    BY <1>2, <2>2
  <2> QED BY <2>1, <2>2
<1>5. Bounded(h) = g
  BY DEF Bounded
<1>6. Record(u)
  BY <1>4 DEF Fitting
<1> HIDE DEF u, m, s, l
<1>7. /\ Fitting(g) /\ g.flags = h.flags /\ g.val.SMALLBOUND < g.val.MEDIUMBOUND
      /\ g.val.MEDIUMBOUND < g.val.LARGEBOUND
  <2>1. CASE l <= m
    <3> DEFINE v == [u EXCEPT !.val["LARGEBOUND"] = m + 1]
    <3>1. Allowed(u.flags, "LARGEBOUND", m + 1)
      BY <1>2 DEF Allowed, Bounds, Bytes
    <3>2. /\ Fitting(v) /\ v.flags = u.flags
          /\ v.val = [u.val EXCEPT !["LARGEBOUND"] = m + 1]
      BY <1>1, <1>4, <3>1, SetValueFits
    <3>3. g = v
      BY <2>1
    <3> HIDE DEF v, g
    <3>4. /\ v.val.SMALLBOUND = u.val.SMALLBOUND /\ v.val.MEDIUMBOUND = m
          /\ v.val.LARGEBOUND = m + 1
      BY <1>1, <1>4, <1>6, <3>2 DEF Record
    <3>5. m < m + 1
      BY <1>2
    <3>6. /\ Fitting(v) /\ v.flags = h.flags /\ v.val.SMALLBOUND < v.val.MEDIUMBOUND
          /\ v.val.MEDIUMBOUND < v.val.LARGEBOUND
      BY <1>4, <3>2, <3>4, <3>5
    <3> QED BY <3>3, <3>6, Zenon
  <2>2. CASE ~(l <= m)
    BY <1>2, <1>4, <2>2
  <2> QED BY <2>1, <2>2
<1> HIDE DEF g
<1> QED BY <1>5, <1>7

LEMMA DefaultsSettled ==
  Defaults.val.SMALLBOUND < Defaults.val.MEDIUMBOUND
    /\ Defaults.val.MEDIUMBOUND < Defaults.val.LARGEBOUND
BY DEF Defaults

\* The settings that the program gets when the options are over.
Started(u) ==
    LET f == u.flags \ {"HTMLNEXT"}
        seed == IF u.val.FAILSEED = 0 THEN TIME ELSE u.val.FAILSEED
    IN  [u EXCEPT !.val.FAILSEED = seed, !.flags =
            f \cup (IF "HTMLNEXT" \in u.flags THEN {"HTML"} ELSE {})
              \cup (IF "LEAKTABLE" \in f THEN {"leaks traced"} ELSE {})]

LEMMA StartedFits ==
  ASSUME NEW u, Fitting(u), Untold(u),
         u.val.SMALLBOUND < u.val.MEDIUMBOUND, u.val.MEDIUMBOUND < u.val.LARGEBOUND
  PROVE  Fitting(Started(u)) /\ Settled(Started(u))
<1> DEFINE f == u.flags \ {"HTMLNEXT"}
           F == f \cup (IF "HTMLNEXT" \in u.flags THEN {"HTML"} ELSE {})
                  \cup (IF "LEAKTABLE" \in f THEN {"leaks traced"} ELSE {})
           seed == IF u.val.FAILSEED = 0 THEN TIME ELSE u.val.FAILSEED
           v == [u EXCEPT !.val["FAILSEED"] = seed]
           g == [v EXCEPT !.flags = F]
<1>1. "FAILSEED" \in Keys /\ Record(u) /\ FlagsFit(u.flags)
  BY KeysAre DEF Fitting
<1>2. seed \in Nat /\ seed # 0
  BY <1>1 DEF Fitting, Allowed, TIME
<1> HIDE DEF seed
<1>3. Allowed(u.flags, "FAILSEED", seed)
  BY <1>2 DEF Allowed, Bounds, Bytes
<1>4. Fitting(v) /\ v.flags = u.flags /\ v.val = [u.val EXCEPT !["FAILSEED"] = seed]
  BY <1>1, <1>3, SetValueFits
<1>5. Started(u) = g
  BY DEF Started, seed
<1>6. /\ \A x \in {"PAGEALLOC", "ALLOCUPPER", "NOFREE", "EDIT", "LIST", "LEAKTABLE"} :
            x \in F <=> x \in u.flags
      /\ "leaks traced" \in F <=> "LEAKTABLE" \in F
  BY DEF Untold
<1> HIDE DEF v, F
<1>7. FlagsFit(F)
  BY <1>1, <1>6 DEF FlagsFit
<1>8. Fitting(g) /\ g.flags = F /\ g.val = v.val
  BY <1>4, <1>6, <1>7, SetFlagsFits
<1>9. /\ v.val.FAILSEED = seed /\ v.val.SMALLBOUND = u.val.SMALLBOUND
      /\ v.val.MEDIUMBOUND = u.val.MEDIUMBOUND /\ v.val.LARGEBOUND = u.val.LARGEBOUND
  BY <1>1, <1>4 DEF Record
<1> HIDE DEF g
<1> QED BY <1>2, <1>5, <1>6, <1>8, <1>9 DEF Settled

LEMMA SameValue ==
  ASSUME NEW h, Record(h), NEW k \in Keys
  PROVE  [h EXCEPT !.val[k] = h.val[k]] = h
<1> DEFINE v == [h.val EXCEPT ![k] = h.val[k]]
<1>1. h = [flags |-> h.flags, val |-> h.val, file |-> h.file]
  BY DEF Record
<1>2. v = h.val
  <2>1. h.val = [j \in Keys |-> h.val[j]]
    BY DEF Record
  <2> QED BY <2>1
<1>3. [h EXCEPT !.val[k] = h.val[k]] = [flags |-> h.flags, val |-> v, file |-> h.file]
  BY <1>1
<1> HIDE DEF v
<1> QED BY <1>1, <1>2, <1>3

LEMMA SameFlags ==
  ASSUME NEW h, Record(h), NEW F, F = h.flags
  PROVE  [h EXCEPT !.flags = F] = h
<1>1. h = [flags |-> h.flags, val |-> h.val, file |-> h.file]
  BY DEF Record
<1>2. [h EXCEPT !.flags = F] = [flags |-> F, val |-> h.val, file |-> h.file]
  BY <1>1
<1> QED BY <1>1, <1>2

\* Numbers that calls of __mp_set() put as they are.
SetAsIs == {"ALLOCSTOP", "REALLOCSTOP", "FREESTOP", "LIMIT", "FAILFREQ", "UNFREEDABORT",
            "AUTOSAVE", "CHECKLOWER", "CHECKUPPER"}
SetSomehow == {"ALLOCBYTE", "CHECKFREQ", "FAILSEED", "DEFALIGN", "NOFREE"} \cup SetAsIs

LEMMA AfterSetIs ==
  ASSUME NEW h, NEW o, NEW v
  PROVE  /\ o = "ALLOCBYTE" =>
                AfterSet(h, o, v) = [h EXCEPT !.val[o] = IF v > 255 THEN 255 ELSE v]
         /\ o = "CHECKFREQ" =>
                AfterSet(h, o, v) = [h EXCEPT !.val[o] = IF v = 0 THEN 1 ELSE v]
         /\ o = "FAILSEED" =>
                AfterSet(h, o, v) = [h EXCEPT !.val[o] = IF v = 0 THEN TIME ELSE v]
         /\ o = "DEFALIGN" =>
                AfterSet(h, o, v) = IF v = 0 \/ v > PAGE THEN h
                                    ELSE [h EXCEPT !.val[o] = PowerOfTwo[v]]
         /\ o = "NOFREE" => AfterSet(h, o, v) = WithNofree(h, v)
         /\ o \in SetAsIs => AfterSet(h, o, v) = [h EXCEPT !.val[o] = v]
         /\ o \notin SetSomehow => AfterSet(h, o, v) = h
<1>1. CASE o = "ALLOCBYTE"
  BY <1>1 DEF AfterSet, SetAsIs, SetSomehow
<1>2. CASE o = "CHECKFREQ"
  BY <1>2 DEF AfterSet, SetAsIs, SetSomehow
<1>3. CASE o = "FAILSEED"
  BY <1>3 DEF AfterSet, SetAsIs, SetSomehow
<1>4. CASE o = "DEFALIGN"
  BY <1>4 DEF AfterSet, SetAsIs, SetSomehow
<1>5. CASE o = "NOFREE"
  BY <1>5 DEF AfterSet, SetAsIs, SetSomehow, WithNofree, NofreeFlags
<1>6. CASE o \in SetAsIs
  BY <1>6 DEF AfterSet, SetAsIs, SetSomehow
<1>7. CASE o \notin SetSomehow
  BY <1>7 DEF AfterSet, SetAsIs, SetSomehow
<1> QED BY <1>1, <1>2, <1>3, <1>4, <1>5, <1>6, <1>7 DEF SetSomehow

\* What is got can be set again without changing anything.
LEMMA SetWhatIsGot ==
  ASSUME NEW h, Fitting(h), Settled(h), NEW o \in Keys
  PROVE  AfterSet(h, o, h.val[o]) = h
<1> DEFINE v == h.val[o]
<1>1. Record(h) /\ Allowed(h.flags, o, v)
  BY DEF Fitting
<1>2. [h EXCEPT !.val[o] = v] = h
  BY <1>1, SameValue
<1> HIDE DEF v
<1>3. CASE o = "ALLOCBYTE"
  <2>1. (IF v > 255 THEN 255 ELSE v) = v
    BY <1>1, <1>3 DEF Allowed, Bytes
  <2>2. AfterSet(h, o, v) = [h EXCEPT !.val[o] = IF v > 255 THEN 255 ELSE v]
    BY <1>3, AfterSetIs
  <2> QED BY <1>2, <2>1, <2>2 DEF v
<1>4. CASE o = "CHECKFREQ"
  <2>1. (IF v = 0 THEN 1 ELSE v) = v
    BY <1>1, <1>4 DEF Allowed
  <2>2. AfterSet(h, o, v) = [h EXCEPT !.val[o] = IF v = 0 THEN 1 ELSE v]
    BY <1>4, AfterSetIs
  <2> QED BY <1>2, <2>1, <2>2 DEF v
<1>5. CASE o = "FAILSEED"
  <2>1. (IF v = 0 THEN TIME ELSE v) = v
    BY <1>5 DEF Settled, v
  <2>2. AfterSet(h, o, v) = [h EXCEPT !.val[o] = IF v = 0 THEN TIME ELSE v]
    BY <1>5, AfterSetIs
  <2> QED BY <1>2, <2>1, <2>2 DEF v
<1>6. CASE o = "DEFALIGN"
  <2>1. PowerOfTwo[v] = v
    BY <1>1, <1>6 DEF Allowed
  <2>2. AfterSet(h, o, v) = IF v = 0 \/ v > PAGE THEN h
                            ELSE [h EXCEPT !.val[o] = PowerOfTwo[v]]
    BY <1>6, AfterSetIs
  <2> QED BY <1>2, <2>1, <2>2 DEF v
<1>7. CASE o = "NOFREE"
  <2>1. AfterSet(h, o, v) = WithNofree(h, v)
    BY <1>7, AfterSetIs
  <2>2. NofreeFlags(h.flags, v) = h.flags
    BY <1>1, <1>7 DEF Allowed, NofreeFlags
  <2>3. WithNofree(h, v) = [h EXCEPT !.flags = NofreeFlags(h.flags, v)]
    BY <1>2, <1>7 DEF WithNofree
  <2>4. [h EXCEPT !.flags = NofreeFlags(h.flags, v)] = h
    BY <1>1, <2>2, SameFlags
  <2> QED BY <2>1, <2>3, <2>4 DEF v
<1>8. CASE o \in SetAsIs
  BY <1>2, <1>8, AfterSetIs DEF v
<1>9. CASE o \notin SetSomehow
  BY <1>9, AfterSetIs
<1> QED BY <1>3, <1>4, <1>5, <1>6, <1>7, <1>8, <1>9 DEF SetSomehow

\* A setting that what is settled does not speak of.
LEMMA SetSettled ==
  ASSUME NEW h, Fitting(h), Settled(h), NEW k \in Keys \ Bounds, NEW n,
         Allowed(h.flags, k, n), k = "FAILSEED" => n # 0
  PROVE  Fitting([h EXCEPT !.val[k] = n]) /\ Settled([h EXCEPT !.val[k] = n])
<1> DEFINE g == [h EXCEPT !.val[k] = n]
<1>1. Fitting(g) /\ g.flags = h.flags /\ g.val = [h.val EXCEPT ![k] = n]
  BY SetValueFits
<1> HIDE DEF g
<1>2. /\ g.val.SMALLBOUND = h.val.SMALLBOUND /\ g.val.MEDIUMBOUND = h.val.MEDIUMBOUND
      /\ g.val.LARGEBOUND = h.val.LARGEBOUND
      /\ g.val.FAILSEED = IF k = "FAILSEED" THEN n ELSE h.val.FAILSEED
  BY <1>1, KeysAre DEF Fitting, Record, Bounds
<1>3. Settled(g)
  BY <1>1, <1>2 DEF Settled
<1> QED BY <1>1, <1>3 DEF g

LEMMA AfterSetFits ==
  ASSUME NEW h, Fitting(h), Settled(h), NEW o \in Keys, NEW v \in Nat
  PROVE  Fitting(AfterSet(h, o, v)) /\ Settled(AfterSet(h, o, v))
<1>1. CASE o = "ALLOCBYTE"
  <2> DEFINE n == IF v > 255 THEN 255 ELSE v
  <2>1. Allowed(h.flags, o, n) /\ o \notin Bounds
    BY <1>1 DEF Allowed, Bounds, Bytes
  <2>2. AfterSet(h, o, v) = [h EXCEPT !.val[o] = n]
    BY <1>1, AfterSetIs
  <2> HIDE DEF n
  <2> QED BY <1>1, <2>1, <2>2, SetSettled
<1>2. CASE o = "CHECKFREQ"
  <2> DEFINE n == IF v = 0 THEN 1 ELSE v
  <2>1. Allowed(h.flags, o, n) /\ o \notin Bounds
    BY <1>2 DEF Allowed, Bounds, Bytes
  <2>2. AfterSet(h, o, v) = [h EXCEPT !.val[o] = n]
    BY <1>2, AfterSetIs
  <2> HIDE DEF n
  <2> QED BY <1>2, <2>1, <2>2, SetSettled
<1>3. CASE o = "FAILSEED"
  <2> DEFINE n == IF v = 0 THEN TIME ELSE v
  <2>1. Allowed(h.flags, o, n) /\ o \notin Bounds /\ n # 0
    BY <1>3 DEF Allowed, Bounds, Bytes, TIME
  <2>2. AfterSet(h, o, v) = [h EXCEPT !.val[o] = n]
    BY <1>3, AfterSetIs
  <2> HIDE DEF n
  <2> QED BY <1>3, <2>1, <2>2, SetSettled
<1>4. CASE o = "DEFALIGN"
  <2> DEFINE n == PowerOfTwo[v]
  <2>1. AfterSet(h, o, v) = IF v = 0 \/ v > PAGE THEN h ELSE [h EXCEPT !.val[o] = n]
    BY <1>4, AfterSetIs
  <2>2. ASSUME v <= PAGE PROVE Allowed(h.flags, o, n) /\ o \notin Bounds
    <3>1. n \in Nat /\ n <= PAGE /\ PowerOfTwo[n] = n
      BY <2>2, AlignmentFits
    <3> HIDE DEF n
    <3> QED BY <1>4, <3>1 DEF Allowed, Bounds, Bytes
  <2> HIDE DEF n
  <2>3. CASE v = 0 \/ v > PAGE
    BY <2>1, <2>3
  <2>4. CASE ~(v = 0 \/ v > PAGE)
    <3>1. Allowed(h.flags, o, n) /\ o \notin Bounds
      BY <2>2, <2>4, PageFacts
    <3> QED BY <1>4, <2>1, <2>4, <3>1, SetSettled
  <2> QED BY <2>3, <2>4
<1>5. CASE o = "NOFREE"
  <2> DEFINE g == WithNofree(h, v)
  <2>1. /\ Fitting(g) /\ g.flags = NofreeFlags(h.flags, v)
        /\ g.val = [h.val EXCEPT !["NOFREE"] = v]
    BY NofreeFits
  <2>2. AfterSet(h, o, v) = g
    BY <1>5, AfterSetIs
  <2> HIDE DEF g
  <2>3. \A x \in {"LEAKTABLE", "leaks traced"} : x \in g.flags <=> x \in h.flags
    BY <2>1 DEF NofreeFlags
  <2>4. /\ g.val.SMALLBOUND = h.val.SMALLBOUND /\ g.val.MEDIUMBOUND = h.val.MEDIUMBOUND
        /\ g.val.LARGEBOUND = h.val.LARGEBOUND /\ g.val.FAILSEED = h.val.FAILSEED
    BY <2>1, KeysAre DEF Fitting, Record
  <2> QED BY <2>1, <2>2, <2>3, <2>4 DEF Settled
<1>6. CASE o \in SetAsIs
  <2>1. Allowed(h.flags, o, v) /\ o \notin Bounds /\ o # "FAILSEED"
    BY <1>6 DEF Allowed, Bounds, Bytes, SetAsIs
  <2>2. AfterSet(h, o, v) = [h EXCEPT !.val[o] = v]
    BY <1>6, AfterSetIs
  <2> QED BY <2>1, <2>2, SetSettled
<1>7. CASE o \notin SetSomehow
  BY <1>7, AfterSetIs
<1> QED BY <1>1, <1>2, <1>3, <1>4, <1>5, <1>6, <1>7 DEF SetSomehow

\* Flags that the program sets or unsets.
LEMMA FlagsSettled ==
  ASSUME NEW h, Fitting(h), Settled(h), NEW F, FlagsFit(F),
         \A x \in {"PAGEALLOC", "NOFREE"} : x \in F <=> x \in h.flags,
         "LEAKTABLE" \in F <=> "leaks traced" \in F
  PROVE  Fitting([h EXCEPT !.flags = F]) /\ Settled([h EXCEPT !.flags = F])
<1> DEFINE g == [h EXCEPT !.flags = F]
<1>1. Fitting(g) /\ g.flags = F /\ g.val = h.val
  BY SetFlagsFits
<1> HIDE DEF g
<1>2. Settled(g)
  BY <1>1 DEF Settled
<1> QED BY <1>1, <1>2 DEF g

LEMMA ChangeableFlags ==
  \A f \in Changeable : f \notin {"PAGEALLOC", "ALLOCUPPER", "NOFREE", "leaks traced"}
BY DEF Changeable, CheckOptions, LogOptions, ShowOptions

LEMMA FlagsChanged ==
  ASSUME NEW h, Fitting(h), Settled(h), NEW f \in Changeable,
         NEW F \in {WithFlag(h.flags, f), WithoutFlag(h.flags, f)}
  PROVE  Fitting([h EXCEPT !.flags = F]) /\ Settled([h EXCEPT !.flags = F])
<1>1. f \notin {"PAGEALLOC", "ALLOCUPPER", "NOFREE", "leaks traced"}
  BY ChangeableFlags
<1>2. FlagsFit(h.flags) /\ ("LEAKTABLE" \in h.flags <=> "leaks traced" \in h.flags)
  BY DEF Fitting, Settled
<1>3. CASE F = WithoutFlag(h.flags, f)
  <2>1. /\ FlagsFit(F) /\ \A x \in {"PAGEALLOC", "NOFREE"} : x \in F <=> x \in h.flags
        /\ "LEAKTABLE" \in F <=> "leaks traced" \in F
    BY <1>1, <1>2, <1>3 DEF WithoutFlag, FlagsFit
  <2> QED BY <2>1, FlagsSettled
<1>4. CASE F = WithFlag(h.flags, f)
  <2>1. /\ FlagsFit(F) /\ \A x \in {"PAGEALLOC", "NOFREE"} : x \in F <=> x \in h.flags
        /\ "LEAKTABLE" \in F <=> "leaks traced" \in F
    <3>1. CASE f = "EDIT"
      <4>1. F = (h.flags \ {"LIST"}) \cup {"EDIT"}
        BY <1>4, <3>1 DEF WithFlag
      <4> QED BY <1>2, <4>1 DEF FlagsFit
    <3>2. CASE f = "LIST"
      <4>1. F = (h.flags \ {"EDIT"}) \cup {"LIST"}
        BY <1>4, <3>2 DEF WithFlag
      <4> QED BY <1>2, <4>1 DEF FlagsFit
    <3>3. CASE f = "LEAKTABLE"
      <4>1. F = h.flags \cup {"LEAKTABLE", "leaks traced"}
        BY <1>4, <3>3 DEF WithFlag
      <4> QED BY <1>2, <4>1 DEF FlagsFit
    <3>4. CASE f \notin {"EDIT", "LIST", "LEAKTABLE"}
      <4>1. F = h.flags \cup {f}
        BY <1>4, <3>4 DEF WithFlag
      <4> QED BY <1>1, <1>2, <3>4, <4>1 DEF FlagsFit
    <3> QED BY <3>1, <3>2, <3>3, <3>4
  <2> QED BY <2>1, FlagsSettled
<1> QED BY <1>3, <1>4

\* A flag that is set can be set again without changing anything.
LEMMA SetFlagThatIsSet ==
  ASSUME NEW h, Fitting(h), Settled(h), NEW f \in Changeable, f \in h.flags
  PROVE  WithFlag(h.flags, f) = h.flags
<1>1. /\ ~("EDIT" \in h.flags /\ "LIST" \in h.flags)
      /\ "LEAKTABLE" \in h.flags <=> "leaks traced" \in h.flags
  BY DEF Fitting, FlagsFit, Settled
<1>2. CASE f = "EDIT"
  <2>1. WithFlag(h.flags, f) = (h.flags \ {"LIST"}) \cup {"EDIT"}
    BY <1>2 DEF WithFlag
  <2> QED BY <1>1, <1>2, <2>1
<1>3. CASE f = "LIST"
  <2>1. WithFlag(h.flags, f) = (h.flags \ {"EDIT"}) \cup {"LIST"}
    BY <1>3 DEF WithFlag
  <2> QED BY <1>1, <1>3, <2>1
<1>4. CASE f = "LEAKTABLE"
  <2>1. WithFlag(h.flags, f) = h.flags \cup {"LEAKTABLE", "leaks traced"}
    BY <1>4 DEF WithFlag
  <2> QED BY <1>1, <1>4, <2>1
<1>5. CASE f \notin {"EDIT", "LIST", "LEAKTABLE"}
  <2>1. WithFlag(h.flags, f) = h.flags \cup {f}
    BY <1>5 DEF WithFlag
  <2> QED BY <2>1
<1> QED BY <1>2, <1>3, <1>4, <1>5

-----------------------------------------------------------------------------
(***************************************************************************)
(* The invariant                                                           *)
(***************************************************************************)
LEMMA SettledFit ==
  ASSUME Fitting(lib), Settled(lib)
  PROVE  SettingsFit
<1>1. /\ \A k \in Keys : Allowed(lib.flags, k, lib.val[k])
      /\ FlagsFit(lib.flags) /\ DOMAIN lib.val = Keys
  BY DEF Fitting, Record
<1>2. /\ "PAGEALLOC" \in lib.flags => /\ lib.val.OFLOWSIZE > 0
                                      /\ lib.val.OFLOWSIZE % PAGE = 0
      /\ "ALLOCUPPER" \in lib.flags => "PAGEALLOC" \in lib.flags
  BY <1>1, KeysAre DEF Allowed, FlagsFit
<1>3. lib.val.DEFALIGN <= PAGE /\ PowerOfTwo[lib.val.DEFALIGN] = lib.val.DEFALIGN
  BY <1>1, KeysAre DEF Allowed
<1>4. /\ lib.val.SMALLBOUND < lib.val.MEDIUMBOUND
      /\ lib.val.MEDIUMBOUND < lib.val.LARGEBOUND
      /\ "LEAKTABLE" \in lib.flags <=> "leaks traced" \in lib.flags
  BY DEF Settled
<1>5. "NOFREE" \in lib.flags <=> lib.val.NOFREE > 0
  BY <1>1, KeysAre DEF Allowed
<1>6. ~({"EDIT", "LIST"} \subseteq lib.flags)
  BY <1>1 DEF FlagsFit
<1>7. \A k \in {"ALLOCBYTE", "FREEBYTE", "OFLOWBYTE"} : lib.val[k] \in 0..255
  BY <1>1, KeysAre DEF Allowed, Bytes
<1>8. \A o \in DOMAIN lib.val : AfterSet(lib, o, Get(lib, o)) = lib
  BY <1>1, SetWhatIsGot DEF Get
<1>9. \A f \in GetFlags(lib) \cap Changeable : WithFlag(lib.flags, f) = lib.flags
  BY SetFlagThatIsSet DEF GetFlags
<1> QED
  BY <1>2, <1>3, <1>4, <1>5, <1>6, <1>7, <1>8, <1>9 DEF SettingsFit

LEMMA NoBlanks == SkipBlanks(<<>>) = <<>>
<1>1. SelectInSeq(<<>>, LAMBDA t : t \notin Blanks) = 0
  BY DEF SelectInSeq
<1> QED BY <1>1 DEF SkipBlanks

LEMMA InitInv == Init => OptionsInv
<1> SUFFICES ASSUME Init PROVE OptionsInv
  OBVIOUS
<1>1. /\ lib = Defaults /\ toParse = <<>> /\ reported = {} /\ running = FALSE
      /\ phase \in {"options", "alone"}
  BY DEF Init, OptionsInit
<1> QED BY <1>1, DefaultsFit DEF OptionsInv

LEMMA ReadOptionInv == OptionsInv /\ ReadOption => OptionsInv'
<1> SUFFICES ASSUME OptionsInv, ReadOption PROVE OptionsInv'
  OBVIOUS
<1>1. /\ UNCHANGED <<lib, toParse, reported, running, env>>
      /\ phase # "program" /\ phase' # "program"
  BY DEF ReadOption, optionVars
<1> QED BY <1>1 DEF OptionsInv, TooLong

\* The program starts with what is read from text.
LEMMA EnvironmentInv ==
  ASSUME OptionsInv, NEW text, ReadEnvironment(text), env' = text, phase # "program",
         phase' = "program"
  PROVE  OptionsInv'
<1>1. /\ ~running /\ lib = Defaults /\ toParse = <<>> /\ lib' = lib /\ ~running'
      /\ running \in BOOLEAN /\ running' = running
  BY DEF OptionsInv, ReadEnvironment
<1>2. text = <<>> \/ TooLong' => toParse' = <<>>
  <2>1. CASE Len(text) + 1 > ENVMAX
    BY <2>1 DEF ReadEnvironment
  <2>2. CASE ~(Len(text) + 1 > ENVMAX)
    <3>1. toParse' = SkipBlanks(text) /\ reported' = {}
      BY <2>2 DEF ReadEnvironment
    <3> QED BY <3>1, NoBlanks DEF TooLong
  <2> QED BY <2>1, <2>2
<1> QED BY <1>1, <1>2, DefaultsFit DEF OptionsInv

LEMMA LaunchInv == OptionsInv /\ Launch => OptionsInv'
<1> SUFFICES ASSUME OptionsInv, Launch PROVE OptionsInv'
  OBVIOUS
<1>1. phase = "read"
  BY DEF Launch
<1>2. CASE phase' = "program"
  <2>1. PICK text : env' = text /\ ReadEnvironment(text)
    BY <1>2 DEF Launch
  <2> QED BY <1>1, <1>2, <2>1, EnvironmentInv
<1>3. CASE phase' # "program"
  <2>1. UNCHANGED <<lib, toParse, reported, running, env>>
    BY <1>3 DEF Launch, optionVars
  <2> QED BY <1>1, <1>3, <2>1 DEF OptionsInv, TooLong
<1> QED BY <1>2, <1>3

LEMMA RunAloneInv == OptionsInv /\ RunAlone => OptionsInv'
<1> SUFFICES ASSUME OptionsInv, RunAlone PROVE OptionsInv'
  OBVIOUS
<1>1. phase = "alone" /\ phase' = "program" /\ env' = outer /\ ReadEnvironment(outer)
  BY DEF RunAlone
<1> QED BY <1>1, EnvironmentInv

LEMMA ParseOptionInv == OptionsInv /\ ParseOption /\ UNCHANGED commandVars => OptionsInv'
<1> SUFFICES ASSUME OptionsInv, ParseOption, UNCHANGED commandVars PROVE OptionsInv'
  OBVIOUS
<1>1. /\ toParse # <<>> /\ running' = running /\ env' = env /\ phase' = phase
  BY DEF ParseOption, commandVars
<1>2. /\ ~running /\ Parsed(lib) /\ phase = "program" /\ env # <<>> /\ ~TooLong
  BY <1>1 DEF OptionsInv, Parsed
<1>3. PICK key, arg :
        /\ lib' = Obey(lib, key, arg).lib
        /\ \/ reported' = reported
           \/ reported' = reported \cup {<<Obey(lib, key, arg).code, key>>}
  BY DEF ParseOption
<1>4. Good(Obey(lib, key, arg))
  BY <1>2, ObeyGood
<1>5. Fitting(lib') /\ Untold(lib')
  BY <1>3, <1>4 DEF Good
<1>6. ~TooLong'
  BY <1>2, <1>3, <1>4 DEF TooLong, Good
<1> QED BY <1>1, <1>2, <1>5, <1>6 DEF OptionsInv

LEMMA StartInv == OptionsInv /\ phase = "program" /\ Start(env) /\ UNCHANGED commandVars
                    => OptionsInv'
<1> SUFFICES ASSUME OptionsInv, phase = "program", Start(env), UNCHANGED commandVars
             PROVE  OptionsInv'
  OBVIOUS
<1> DEFINE u == IF env = <<>> \/ <<"TOOLONG", <<>>>> \in reported THEN lib
                ELSE Bounded(lib)
<1>1. /\ ~running /\ running' = TRUE /\ toParse = <<>> /\ toParse' = toParse
      /\ phase' = phase
  BY DEF Start, commandVars
<1>2. lib' = Started(u)
  BY DEF Start, Started
<1>3. /\ Fitting(u) /\ Untold(u) /\ u.val.SMALLBOUND < u.val.MEDIUMBOUND
      /\ u.val.MEDIUMBOUND < u.val.LARGEBOUND
  <2>1. Fitting(lib) /\ Untold(lib)
    BY <1>1 DEF OptionsInv
  <2>2. CASE env = <<>> \/ TooLong
    <3>1. u = Defaults
      BY <1>1, <2>2 DEF OptionsInv, TooLong
    <3> HIDE DEF u
    <3> QED BY <3>1, DefaultsFit, DefaultsSettled, Zenon
  <2>3. CASE ~(env = <<>> \/ TooLong)
    <3>1. u = Bounded(lib)
      BY <2>3 DEF TooLong
    <3> HIDE DEF u
    <3> QED BY <2>1, <3>1, BoundedFits DEF Untold
  <2> QED BY <2>2, <2>3
<1> HIDE DEF u
<1>4. Fitting(lib') /\ Settled(lib')
  BY <1>2, <1>3, StartedFits
<1> QED BY <1>1, <1>4 DEF OptionsInv

LEMMA SetOptionsInv == OptionsInv /\ SetOptions /\ UNCHANGED commandVars => OptionsInv'
<1> SUFFICES ASSUME OptionsInv, SetOptions, UNCHANGED commandVars PROVE OptionsInv'
  OBVIOUS
<1>1. /\ running /\ running' = running /\ UNCHANGED <<toParse, reported, env, phase>>
  BY DEF SetOptions, SetFlag, UnsetFlag, SetValue, Change, commandVars
<1>2. Fitting(lib) /\ Settled(lib)
  BY <1>1 DEF OptionsInv
<1>3. CASE \E f \in FLAGS \cap Changeable : SetFlag(f) \/ UnsetFlag(f)
  <2>1. PICK f \in Changeable : SetFlag(f) \/ UnsetFlag(f)
    BY <1>3
  <2>2. PICK F \in {WithFlag(lib.flags, f), WithoutFlag(lib.flags, f)} :
            lib' = [lib EXCEPT !.flags = F]
    BY <2>1 DEF SetFlag, UnsetFlag, Change
  <2>3. Fitting([lib EXCEPT !.flags = F]) /\ Settled([lib EXCEPT !.flags = F])
    BY <1>2, FlagsChanged
  <2> QED BY <1>1, <2>2, <2>3 DEF OptionsInv
<1>4. CASE \E o \in DOMAIN Defaults.val, v \in VALUES : SetValue(o, v)
  <2>1. PICK o \in Keys, v \in VALUES : SetValue(o, v)
    BY <1>4 DEF Keys
  <2>2. lib' = AfterSet(lib, o, v) /\ v \in Nat
    BY <2>1, NumbersAssumption DEF SetValue, Change
  <2>3. Fitting(lib') /\ Settled(lib')
    BY <1>2, <2>2, AfterSetFits
  <2> QED BY <1>1, <2>3 DEF OptionsInv
<1> QED BY <1>3, <1>4 DEF SetOptions

LEMMA NextInv == OptionsInv /\ [Next]_vars => OptionsInv'
<1> SUFFICES ASSUME OptionsInv, [Next]_vars PROVE OptionsInv'
  OBVIOUS
<1>1. CASE RunProgram
  <2>1. phase = "program" /\ UNCHANGED commandVars
    BY <1>1 DEF RunProgram
  <2> QED BY <1>1, <2>1, ParseOptionInv, StartInv, SetOptionsInv DEF RunProgram
<1>2. CASE UNCHANGED vars
  BY <1>2 DEF OptionsInv, TooLong, vars, optionVars, commandVars
<1> QED
  BY <1>1, <1>2, ReadOptionInv, LaunchInv, RunAloneInv DEF Next

\* Whatever the command line, the environment and the program say, the settings of the
\* library fit together once it runs, and stay so (SettingsFit; src/option.c).
THEOREM SettingsAlwaysFit == Spec => []SettingsFit
<1>1. OptionsInv => SettingsFit
  <2> SUFFICES ASSUME OptionsInv, running PROVE SettingsFit
    BY DEF SettingsFit
  <2> QED BY SettledFit DEF OptionsInv
<1> QED BY <1>1, InitInv, NextInv, PTL DEF Spec
=============================================================================
