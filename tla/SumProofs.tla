----------------------------- MODULE SumProofs -----------------------------
(***************************************************************************)
(* Facts about sums over finite sets, for totals such as the size of all   *)
(* blocks or of the marked ones.  The induction theorems of the library    *)
(* take an operator for the statement to be proved; here it is a set that  *)
(* the elements are to be in, which is as good for statements about the    *)
(* elements of a set, and the function that a sum is defined by is shown   *)
(* to exist.                                                               *)
(***************************************************************************)
EXTENDS Sums, Integers, FiniteSetTheorems, WellFoundedInduction, TLAPS

-----------------------------------------------------------------------------
(***************************************************************************)
(* Induction                                                               *)
(***************************************************************************)
\* A set of numbers that is not empty has a least one,
LEMMA Least ==
  ASSUME NEW S \in SUBSET Nat, S # {}
  PROVE  \E m \in S : \A k \in S : m <= k
<1>1. PICK m \in S : \A y \in S : ~(<<y, m>> \in OpToRel(<, Nat))
  BY NatLessThanWellFounded, WFMin, Zenon
<1>2. \A y \in S : ~(y < m)
  BY <1>1 DEF OpToRel
<1> QED BY <1>2

\* so that a set with 0 and with the successor of each element has all numbers.
LEMMA Induction ==
  ASSUME NEW S, 0 \in S, \A n \in Nat : n \in S => n + 1 \in S
  PROVE  Nat \subseteq S
<1> SUFFICES ASSUME Nat \ S # {} PROVE FALSE
  OBVIOUS
<1>1. PICK m \in Nat \ S : \A k \in Nat \ S : m <= k
  BY Least
<1>2. m # 0 /\ m - 1 \in Nat
  BY <1>1
<1>3. m - 1 \in S
  BY <1>1, <1>2
<1> QED BY <1>1, <1>2, <1>3

\* A function on 0..n may be defined from one value to the next.
Unrolls(f, n, b, step) == f[0] = b /\ \A k \in 1..n : f[k] = step[k][f[k - 1]]

\* There is such a function.
LEMMA Recursion ==
  ASSUME NEW n \in Nat, NEW V, NEW b \in V, NEW step \in [1..n -> [V -> V]]
  PROVE  \E f \in [0..n -> V] : Unrolls(f, n, b, step)
<1> DEFINE N == {m \in Nat : m <= n => \E f \in [0..m -> V] : Unrolls(f, m, b, step)}
<1>1. 0 \in N
  <2>1. [k \in 0..0 |-> b] \in [0..0 -> V] /\ Unrolls([k \in 0..0 |-> b], 0, b, step)
    BY DEF Unrolls
  <2> QED BY <2>1
<1>2. ASSUME NEW m \in Nat, m + 1 <= n, NEW f \in [0..m -> V],
             Unrolls(f, m, b, step)
      PROVE  \E g \in [0..m + 1 -> V] : Unrolls(g, m + 1, b, step)
  <2> DEFINE last == step[m + 1][f[m]]
             g == [k \in 0..m + 1 |-> IF k = m + 1 THEN last ELSE f[k]]
  <2>1. last \in V
    BY <1>2
  <2>2. g \in [0..m + 1 -> V]
    BY <2>1
  <2>3. g[m + 1] = last /\ \A k \in 0..m : g[k] = f[k]
    OBVIOUS
  <2> HIDE DEF g
  <2>4. g[0] = b
    BY <1>2, <2>3 DEF Unrolls
  <2>5. ASSUME NEW k \in 1..m + 1 PROVE g[k] = step[k][g[k - 1]]
    <3>1. CASE k = m + 1
      <4>1. k - 1 = m /\ g[m] = f[m]
        BY <2>3, <3>1
      <4> QED BY <2>3, <3>1, <4>1
    <3>2. CASE k # m + 1
      <4>1. k \in 1..m /\ k - 1 \in 0..m /\ k \in 0..m
        BY <3>2
      <4> QED BY <1>2, <2>3, <4>1 DEF Unrolls
    <3> QED BY <3>1, <3>2
  <2>6. Unrolls(g, m + 1, b, step)
    BY <2>4, <2>5 DEF Unrolls
  <2> QED BY <2>2, <2>6
<1>3. \A m \in Nat : m \in N => m + 1 \in N
  BY <1>2
<1> HIDE DEF N
<1>4. n \in N
  BY <1>1, <1>3, Induction
<1> QED BY <1>4 DEF N

\* What holds of a set if it holds of its proper subsets, holds of a finite set.
LEMMA SubsetInduction ==
  ASSUME NEW S, IsFiniteSet(S), NEW Q,
         \A T \in SUBSET S : (\A U \in SUBSET T : U # T => U \in Q) => T \in Q
  PROVE  \A T \in SUBSET S : T \in Q
<1> DEFINE B == {T \in SUBSET S : T \notin Q}
           N == {Cardinality(T) : T \in B}
<1> SUFFICES ASSUME B # {} PROVE FALSE
  OBVIOUS
<1>1. \A T \in SUBSET S : IsFiniteSet(T) /\ Cardinality(T) \in Nat
  BY FS_Subset, FS_CardinalityType
<1>2. N \in SUBSET Nat /\ N # {}
  BY <1>1
<1>3. PICK m \in N : \A k \in N : m <= k
  <2> HIDE DEF N
  <2> QED BY <1>2, Least
<1>4. PICK T \in B : Cardinality(T) = m
  OBVIOUS
<1>5. ASSUME NEW U \in SUBSET T, U # T PROVE U \in Q
  <2>1. Cardinality(U) < Cardinality(T)
    <3>1. IsFiniteSet(T) /\ Cardinality(T) \in Nat /\ Cardinality(U) \in Nat
      BY <1>1
    <3>2. Cardinality(U) <= Cardinality(T) /\ Cardinality(U) # Cardinality(T)
      BY <1>5, <3>1, FS_Subset
    <3> QED BY <3>1, <3>2
  <2>2. Cardinality(U) \notin N
    <3> HIDE DEF N
    <3> QED BY <1>1, <1>2, <1>3, <1>4, <2>1
  <2>3. U \notin B
    BY <2>2
  <2> QED BY <2>3
<1> QED BY <1>5

\* What holds of {}, and still holds when an element is added, holds of a finite set.
LEMMA SetInduction ==
  ASSUME NEW S, IsFiniteSet(S), NEW Q, {} \in Q,
         \A T \in SUBSET S : \A x \in S \ T : T \in Q => T \cup {x} \in Q
  PROVE  S \in Q
<1>1. ASSUME NEW T \in SUBSET S, \A U \in SUBSET T : U # T => U \in Q
      PROVE  T \in Q
  <2>1. CASE T = {}
    BY <2>1
  <2>2. CASE T # {}
    <3>1. PICK x : x \in T
      BY <2>2
    <3>2. T \ {x} \in Q
      BY <1>1, <3>1
    <3>3. (T \ {x}) \cup {x} \in Q
      BY <3>1, <3>2
    <3>4. (T \ {x}) \cup {x} = T
      BY <3>1
    <3> QED BY <3>3, <3>4
  <2> QED BY <2>1, <2>2
<1>2. \A T \in SUBSET S : T \in Q
  BY <1>1, SubsetInduction
<1> QED BY <1>2

-----------------------------------------------------------------------------
(***************************************************************************)
(* Sums                                                                    *)
(***************************************************************************)
Chosen(s) == CHOOSE x \in s : TRUE

\* One step of the fold, and the function that takes all of them.
SumStep(f, s, h) == IF s = {} THEN 0 ELSE f[Chosen(s)] + h[s \ {Chosen(s)}]

Summed(f, S, h) == h = [s \in SUBSET S |-> SumStep(f, s, h)]

SetsUpto(S, n) == {s \in SUBSET S : Cardinality(s) <= n}

\* The sum takes one element off the set at a time.
LEMMA Smaller ==
  ASSUME NEW s, IsFiniteSet(s), s # {}
  PROVE  /\ Chosen(s) \in s /\ IsFiniteSet(s \ {Chosen(s)})
         /\ Cardinality(s \ {Chosen(s)}) = Cardinality(s) - 1
<1>1. Chosen(s) \in s
  BY DEF Chosen
<1> QED BY <1>1, FS_RemoveElement

\* The function that is to be chosen in the definition of a fold exists,
LEMMA SumExists ==
  ASSUME NEW f, NEW S, IsFiniteSet(S)
  PROVE  \E h : Summed(f, S, h)
<1> DEFINE N == {n \in Nat : \E h : h = [s \in SetsUpto(S, n) |-> SumStep(f, s, h)]}
<1>0. \A s \in SUBSET S : IsFiniteSet(s) /\ Cardinality(s) \in Nat
  BY FS_Subset, FS_CardinalityType
<1>1. 0 \in N
  <2> DEFINE h == [s \in SetsUpto(S, 0) |-> 0]
  <2>1. \A s \in SetsUpto(S, 0) : s = {}
    BY <1>0, FS_EmptySet DEF SetsUpto
  <2>2. h = [s \in SetsUpto(S, 0) |-> SumStep(f, s, h)]
    BY <2>1 DEF SumStep
  <2> QED BY <2>2
<1>2. \A n \in Nat : n \in N => n + 1 \in N
  <2> SUFFICES ASSUME NEW n \in Nat, n \in N PROVE n + 1 \in N
    OBVIOUS
  <2>1. PICK g : g = [s \in SetsUpto(S, n) |-> SumStep(f, s, g)]
    OBVIOUS
  <2> DEFINE h == [s \in SetsUpto(S, n + 1) |-> SumStep(f, s, g)]
  <2>2. \A s \in SetsUpto(S, n + 1) : SumStep(f, s, g) = SumStep(f, s, h)
    <3> SUFFICES ASSUME NEW s \in SetsUpto(S, n + 1), s # {}
                 PROVE  g[s \ {Chosen(s)}] = h[s \ {Chosen(s)}]
      BY DEF SumStep
    <3> DEFINE r == s \ {Chosen(s)}
    <3>1. r \in SetsUpto(S, n) /\ r \in SetsUpto(S, n + 1)
      <4>1. s \in SUBSET S /\ Cardinality(s) <= n + 1
        BY DEF SetsUpto
      <4>2. r \in SUBSET S /\ Cardinality(r) = Cardinality(s) - 1
        BY <1>0, <4>1, Smaller
      <4> HIDE DEF r
      <4> QED BY <1>0, <4>1, <4>2 DEF SetsUpto
    <3> HIDE DEF r
    <3>2. g[r] = SumStep(f, r, g)
      BY <2>1, <3>1
    <3>3. h[r] = SumStep(f, r, g)
      BY <3>1
    <3> QED BY <3>2, <3>3 DEF r
  <2>3. h = [s \in SetsUpto(S, n + 1) |-> SumStep(f, s, h)]
    <3> HIDE DEF h
    <3>1. h = [s \in SetsUpto(S, n + 1) |-> SumStep(f, s, g)]
      BY DEF h
    <3> QED BY <2>2, <3>1
  <2>4. \E k : k = [s \in SetsUpto(S, n + 1) |-> SumStep(f, s, k)]
    BY <2>3, Zenon
  <2> HIDE DEF h
  <2> QED BY <2>4
<1> HIDE DEF N
<1>3. Cardinality(S) \in N
  BY <1>1, <1>2, Induction, FS_CardinalityType
<1>4. SetsUpto(S, Cardinality(S)) = SUBSET S
  BY FS_Subset DEF SetsUpto
<1>5. PICK h : h = [s \in SUBSET S |-> SumStep(f, s, h)]
  BY <1>3, <1>4 DEF N
<1> QED BY <1>5 DEF Summed

\* and the sum is its value.
LEMMA SumIsSummed ==
  ASSUME NEW f, NEW S, IsFiniteSet(S)
  PROVE  \E h : Summed(f, S, h) /\ SumOf(f, S) = h[S]
<1> DEFINE h == CHOOSE h : Summed(f, S, h)
<1>1. Summed(f, S, h)
  BY SumExists
<1>2. SumOf(f, S) = h[S]
  BY DEF SumOf, MapThenSumSet, MapThenFoldSet, Summed, SumStep, Chosen
<1> QED BY <1>1, <1>2

\* The element that is added first may be any, and not only the one chosen.
LEMMA StepByAny ==
  ASSUME NEW f, NEW S, IsFiniteSet(S), \A x \in S : f[x] \in Int,
         NEW h, Summed(f, S, h)
  PROVE  \A T \in SUBSET S : /\ h[T] \in Int
                             /\ \A x \in T : h[T] = f[x] + h[T \ {x}]
<1> DEFINE Q == {T \in SUBSET S : /\ h[T] \in Int
                                  /\ \A x \in T : h[T] = f[x] + h[T \ {x}]}
<1>1. ASSUME NEW T \in SUBSET S, \A U \in SUBSET T : U # T => U \in Q
      PROVE  T \in Q
  <2>1. CASE T = {}
    BY <2>1 DEF Summed, SumStep
  <2>2. CASE T # {}
    <3> DEFINE y == Chosen(T)
    <3>1. y \in T
      BY <2>2 DEF Chosen
    <3> HIDE DEF y
    <3>2. h[T] = f[y] + h[T \ {y}]
      BY <2>2 DEF Summed, SumStep, y
    <3>3. T \ {y} \in Q
      BY <1>1, <3>1
    <3>4. h[T] \in Int
      BY <3>1, <3>2, <3>3
    <3>5. ASSUME NEW x \in T, x # y PROVE h[T] = f[x] + h[T \ {x}]
      <4>1. T \ {x} \in Q
        BY <1>1
      <4>2. h[T \ {x}] = f[y] + h[(T \ {x}) \ {y}]
        BY <3>1, <3>5, <4>1
      <4>3. h[T \ {y}] = f[x] + h[(T \ {y}) \ {x}]
        BY <3>3, <3>5
      <4>4. (T \ {x}) \ {y} = (T \ {y}) \ {x}
        OBVIOUS
      <4>5. (T \ {x}) \ {y} \in Q
        BY <1>1
      <4> DEFINE z == h[(T \ {x}) \ {y}]
                 a == h[T \ {x}]
                 b == h[T \ {y}]
                 c == h[T]
      <4>6. f[x] \in Int /\ f[y] \in Int /\ z \in Int
        BY <3>1, <4>5
      <4>7. c = f[y] + b /\ a = f[y] + z /\ b = f[x] + z
        BY <3>2, <4>2, <4>3, <4>4
      <4> HIDE DEF Q, z, a, b, c
      <4>8. c = f[x] + a
        BY <4>6, <4>7
      <4> QED BY <4>8 DEF a, c
    <3> QED BY <3>2, <3>4, <3>5
  <2> QED BY <2>1, <2>2
<1> HIDE DEF Q
<1>2. \A T \in SUBSET S : T \in Q
  BY <1>1, SubsetInduction
<1> QED BY <1>2 DEF Q

\* A sum does not depend on what it is a part of.
LEMMA SumsAgree ==
  ASSUME NEW f, NEW S, IsFiniteSet(S), NEW R \in SUBSET S,
         NEW h, Summed(f, S, h), NEW g, Summed(f, R, g)
  PROVE  \A T \in SUBSET R : h[T] = g[T]
<1> DEFINE Q == {T \in SUBSET R : h[T] = g[T]}
<1>1. ASSUME NEW T \in SUBSET R, \A U \in SUBSET T : U # T => U \in Q
      PROVE  T \in Q
  <2>1. CASE T = {}
    BY <2>1 DEF Summed, SumStep
  <2>2. CASE T # {}
    <3> DEFINE y == Chosen(T)
    <3>1. y \in T
      BY <2>2 DEF Chosen
    <3> HIDE DEF y
    <3>2. h[T] = f[y] + h[T \ {y}]
      BY <2>2 DEF Summed, SumStep, y
    <3>3. g[T] = f[y] + g[T \ {y}]
      BY <2>2 DEF Summed, SumStep, y
    <3>4. T \ {y} \in Q
      BY <1>1, <3>1
    <3> QED BY <3>2, <3>3, <3>4
  <2> QED BY <2>1, <2>2
<1>2. IsFiniteSet(R)
  BY FS_Subset
<1> HIDE DEF Q
<1>3. \A T \in SUBSET R : T \in Q
  BY <1>1, <1>2, SubsetInduction
<1> QED BY <1>3 DEF Q

\* Nothing adds up to 0.
LEMMA SumEmpty == ASSUME NEW f PROVE SumOf(f, {}) = 0
<1>1. PICK h : Summed(f, {}, h) /\ SumOf(f, {}) = h[{}]
  BY SumIsSummed, FS_EmptySet
<1> QED BY <1>1 DEF Summed, SumStep

\* A sum of integers is one.
LEMMA SumInt ==
  ASSUME NEW f, NEW S, IsFiniteSet(S), \A x \in S : f[x] \in Int
  PROVE  SumOf(f, S) \in Int
  BY SumIsSummed, StepByAny

\* An element is taken away.
LEMMA SumRemove ==
  ASSUME NEW f, NEW S, IsFiniteSet(S), \A x \in S : f[x] \in Int, NEW x \in S
  PROVE  SumOf(f, S) = f[x] + SumOf(f, S \ {x})
<1>1. IsFiniteSet(S \ {x})
  BY FS_RemoveElement
<1>2. PICK h : Summed(f, S, h) /\ SumOf(f, S) = h[S]
  BY SumIsSummed
<1>3. PICK g : Summed(f, S \ {x}, g) /\ SumOf(f, S \ {x}) = g[S \ {x}]
  BY <1>1, SumIsSummed
<1>4. h[S \ {x}] = g[S \ {x}]
  BY <1>2, <1>3, SumsAgree
<1>5. h[S] = f[x] + h[S \ {x}]
  BY <1>2, StepByAny
<1> QED BY <1>2, <1>3, <1>4, <1>5

\* An element is added.
LEMMA SumAdd ==
  ASSUME NEW f, NEW S, IsFiniteSet(S), NEW x, x \notin S,
         \A y \in S \cup {x} : f[y] \in Int
  PROVE  SumOf(f, S \cup {x}) = f[x] + SumOf(f, S)
<1>1. IsFiniteSet(S \cup {x})
  BY FS_AddElement
<1>2. (S \cup {x}) \ {x} = S
  OBVIOUS
<1>3. SumOf(f, S \cup {x}) = f[x] + SumOf(f, (S \cup {x}) \ {x})
  BY <1>1, SumRemove
<1> QED BY <1>2, <1>3

\* Only the values on the set matter.
LEMMA SumSame ==
  ASSUME NEW f, NEW g, NEW S, IsFiniteSet(S), \A x \in S : f[x] = g[x],
         \A x \in S : f[x] \in Int
  PROVE  SumOf(f, S) = SumOf(g, S)
<1> DEFINE Q == {T \in SUBSET S : SumOf(f, T) = SumOf(g, T)}
<1>1. {} \in Q
  BY SumEmpty
<1>2. ASSUME NEW T \in SUBSET S, NEW x \in S \ T, T \in Q PROVE T \cup {x} \in Q
  <2>1. IsFiniteSet(T)
    BY FS_Subset
  <2>2. SumOf(f, T \cup {x}) = f[x] + SumOf(f, T)
    BY <2>1, SumAdd
  <2>3. SumOf(g, T \cup {x}) = g[x] + SumOf(g, T)
    BY <2>1, SumAdd
  <2> QED BY <1>2, <2>2, <2>3
<1> HIDE DEF Q
<1>3. S \in Q
  BY <1>1, <1>2, SetInduction
<1> QED BY <1>3 DEF Q

\* A sum of natural numbers is one.
LEMMA SumNat ==
  ASSUME NEW f, NEW S, IsFiniteSet(S), \A x \in S : f[x] \in Nat
  PROVE  SumOf(f, S) \in Nat
<1> DEFINE Q == {T \in SUBSET S : SumOf(f, T) \in Nat}
<1>1. {} \in Q
  BY SumEmpty
<1>2. ASSUME NEW T \in SUBSET S, NEW x \in S \ T, T \in Q PROVE T \cup {x} \in Q
  <2>1. IsFiniteSet(T)
    BY FS_Subset
  <2>2. SumOf(f, T \cup {x}) = f[x] + SumOf(f, T)
    BY <2>1, SumAdd
  <2> QED BY <1>2, <2>2
<1> HIDE DEF Q
<1>3. S \in Q
  BY <1>1, <1>2, SetInduction
<1> QED BY <1>3 DEF Q

\* A part of them adds up to no more than all.
LEMMA SumSub ==
  ASSUME NEW f, NEW S, IsFiniteSet(S), \A x \in S : f[x] \in Nat,
         NEW R \in SUBSET S
  PROVE  SumOf(f, R) <= SumOf(f, S)
<1>0. \A T \in SUBSET S : IsFiniteSet(T)
  BY FS_Subset
<1>1. \A T \in SUBSET S : SumOf(f, T) \in Nat
  BY <1>0, SumNat
<1> DEFINE Q == {T \in SUBSET S : \A U \in SUBSET T : SumOf(f, U) <= SumOf(f, T)}
<1>2. ASSUME NEW T \in SUBSET S, \A U \in SUBSET T : U # T => U \in Q
      PROVE  T \in Q
  <2> SUFFICES ASSUME NEW U \in SUBSET T, U # T
               PROVE  SumOf(f, U) <= SumOf(f, T)
    BY <1>1
  <2>1. PICK x \in T : x \notin U
    OBVIOUS
  <2>2. T \ {x} \in Q
    BY <1>2, <2>1
  <2>3. SumOf(f, U) <= SumOf(f, T \ {x})
    BY <2>1, <2>2
  <2>4. SumOf(f, T) = f[x] + SumOf(f, T \ {x})
    BY <1>0, <2>1, SumRemove
  <2>5. /\ SumOf(f, U) \in Nat /\ SumOf(f, T) \in Nat
        /\ SumOf(f, T \ {x}) \in Nat /\ f[x] \in Nat
    BY <1>1
  <2> HIDE DEF Q
  <2> QED BY <2>3, <2>4, <2>5
<1> HIDE DEF Q
<1>3. S \in Q
  BY <1>2, SubsetInduction
<1> QED BY <1>3 DEF Q

\* One value changes.
LEMMA SumChange ==
  ASSUME NEW f, NEW g, NEW S, IsFiniteSet(S), NEW x \in S,
         \A y \in S : f[y] \in Int /\ g[y] \in Int,
         \A y \in S \ {x} : f[y] = g[y]
  PROVE  SumOf(g, S) = SumOf(f, S) - f[x] + g[x]
<1>1. IsFiniteSet(S \ {x})
  BY FS_RemoveElement
<1>2. SumOf(f, S \ {x}) = SumOf(g, S \ {x})
  BY <1>1, SumSame
<1>3. SumOf(f, S \ {x}) \in Int
  BY <1>1, SumInt
<1>4. /\ SumOf(f, S) = f[x] + SumOf(f, S \ {x})
      /\ SumOf(g, S) = g[x] + SumOf(g, S \ {x})
  BY SumRemove
<1> QED BY <1>2, <1>3, <1>4

Renamed(h, S) == {h[x] : x \in S}

\* Counting by other names gives the same sum.
LEMMA SumImage ==
  ASSUME NEW f, NEW g, NEW h, NEW S, IsFiniteSet(S),
         \A x \in S : f[x] \in Int /\ f[x] = g[h[x]],
         \A x \in S, y \in S : h[x] = h[y] => x = y
  PROVE  SumOf(f, S) = SumOf(g, Renamed(h, S))
<1> DEFINE Image(T) == {h[x] : x \in T}
           Q == {T \in SUBSET S : /\ SumOf(f, T) = SumOf(g, Image(T))
                                  /\ IsFiniteSet(Image(T))}
<1>1. {} \in Q
  <2>1. Image({}) = {}
    OBVIOUS
  <2> HIDE DEF Image
  <2> QED BY <2>1, SumEmpty, FS_EmptySet
<1>2. ASSUME NEW T \in SUBSET S, NEW x \in S \ T, T \in Q PROVE T \cup {x} \in Q
  <2>1. IsFiniteSet(T)
    BY FS_Subset
  <2>2. SumOf(f, T \cup {x}) = f[x] + SumOf(f, T)
    <3>1. \A y \in T \cup {x} : f[y] \in Int
      OBVIOUS
    <3> HIDE DEF Q
    <3> QED BY <2>1, <3>1, SumAdd
  <2>3. Image(T \cup {x}) = Image(T) \cup {h[x]}
    OBVIOUS
  <2>4. h[x] \notin Image(T) /\ \A y \in Image(T) \cup {h[x]} : g[y] \in Int
    OBVIOUS
  <2>5. IsFiniteSet(Image(T)) /\ SumOf(f, T) = SumOf(g, Image(T))
    BY <1>2
  <2> DEFINE U == Image(T)
             z == h[x]
  <2>6. g[z] = f[x]
    OBVIOUS
  <2>7. z \notin U /\ IsFiniteSet(U) /\ \A y \in U \cup {z} : g[y] \in Int
    BY <2>4, <2>5
  <2>8. Image(T \cup {x}) = U \cup {z} /\ SumOf(f, T) = SumOf(g, U)
    BY <2>3, <2>5
  <2> HIDE DEF Q, U, z, Image
  <2>9. SumOf(g, U \cup {z}) = g[z] + SumOf(g, U)
    BY <2>7, SumAdd
  <2>10. IsFiniteSet(U \cup {z})
    BY <2>7, FS_AddElement
  <2>11. T \cup {x} \in SUBSET S
    OBVIOUS
  <2>12. SumOf(f, T \cup {x}) = SumOf(g, Image(T \cup {x}))
    BY <2>2, <2>6, <2>8, <2>9
  <2>13. IsFiniteSet(Image(T \cup {x}))
    BY <2>8, <2>10
  <2> QED BY <2>11, <2>12, <2>13 DEF Q
<1> HIDE DEF Q
<1>3. S \in Q
  BY <1>1, <1>2, SetInduction
<1> QED BY <1>3 DEF Q, Renamed
=============================================================================
