--------------------------- MODULE ArithmeticProofs ---------------------------
(***************************************************************************)
(* What the proofs about sums, products and residues rest on: induction over *)
(* numbers and over finite sets, that recursive functions exist, that the     *)
(* order of a fold makes no difference, and the field of the residues modulo  *)
(* a prime.                                                                 *)
(***************************************************************************)
EXTENDS Arithmetic, FiniteSetTheorems, WellFoundedInduction, TLAPS

\* A set of naturals that is not empty has a least element.
LEMMA LeastNumber ==
  ASSUME NEW S, S \subseteq Nat, S # {}
  PROVE  \E x \in S : \A y \in S : x <= y
<1> DEFINE Smaller == {ss \in Nat \X Nat : ss[1] < ss[2]}
<1>1. IsWellFoundedOn(Smaller, Nat)
  BY NatLessThanWellFounded DEF OpToRel
<1>2. ASSUME NEW x \in Nat, NEW y \in Nat, y < x
      PROVE  <<y, x>> \in Smaller
  BY <1>2
<1> HIDE DEF Smaller
<1>3. PICK x \in S : \A y \in S : <<y, x>> \notin Smaller
  BY <1>1, WFMin
<1>4. ASSUME NEW y \in S PROVE x <= y
  <2>1. x \in Nat /\ y \in Nat /\ ~(y < x)
    BY <1>2, <1>3
  <2> QED
    BY <2>1
<1> QED
  BY <1>4

\* Induction over the numbers, the property given as the set of those that have it.
LEMMA NumberInduction ==
  ASSUME NEW Good, 0 \in Good, \A n \in Nat : n \in Good => n + 1 \in Good
  PROVE  \A n \in Nat : n \in Good
<1> DEFINE Bad == {n \in Nat : n \notin Good}
<1>1. SUFFICES ASSUME Bad # {} PROVE FALSE
  OBVIOUS
<1>2. Bad \subseteq Nat
  OBVIOUS
<1> HIDE DEF Bad
<1>3. PICK x \in Bad : \A y \in Bad : x <= y
  BY <1>1, <1>2, LeastNumber
<1>4. x \in Nat /\ x \notin Good /\ x # 0
  BY <1>3 DEF Bad
<1>5. x - 1 \in Nat /\ ~(x <= x - 1)
  BY <1>4
<1>6. x - 1 \in Good
  BY <1>3, <1>5 DEF Bad
<1>7. (x - 1) + 1 \in Good
  BY <1>5, <1>6
<1>8. (x - 1) + 1 = x
  BY <1>4
<1> QED
  BY <1>4, <1>7, <1>8

\* A function that is recursive along ranks below a bound exists.
Recursive(D, V, rank, before, base, step, N) ==
  /\ rank \in [D -> Nat] /\ before \in [D -> D]
  /\ base \in [D -> V] /\ step \in [D \X V -> V]
  /\ N \in Nat /\ \A d \in D : rank[d] <= N
  /\ \A d \in D : rank[d] # 0 => rank[before[d]] = rank[d] - 1

Solves(D, V, rank, before, base, step, g) ==
  /\ g \in [D -> V]
  /\ \A d \in D : g[d] = IF rank[d] = 0 THEN base[d] ELSE step[<<d, g[before[d]]>>]

\* By the least bound for which there is none.
LEMMA RecursiveFunctionExists ==
  ASSUME NEW D, NEW V, NEW rank, NEW before, NEW base, NEW step, NEW N,
         Recursive(D, V, rank, before, base, step, N)
  PROVE  \E g : Solves(D, V, rank, before, base, step, g)
<1> USE DEF Recursive, Solves
<1> DEFINE Right(g, d) == g[d] = IF rank[d] = 0 THEN base[d] ELSE step[<<d, g[before[d]]>>]
           Good == {n \in Nat : \E g \in [D -> V] : \A d \in D : rank[d] <= n => Right(g, d)}
<1>1. 0 \in Good
  <2>1. \A d \in D : rank[d] \in Nat
    OBVIOUS
  <2>2. \A d \in D : rank[d] <= 0 => Right(base, d)
    BY <2>1
  <2> QED
    BY <2>2
<1>2. ASSUME NEW n \in Nat, n \in Good
      PROVE  n + 1 \in Good
  <2>1. PICK g \in [D -> V] : \A d \in D : rank[d] <= n => Right(g, d)
    BY <1>2
  <2> DEFINE h == [d \in D |-> IF rank[d] = 0 THEN base[d] ELSE step[<<d, g[before[d]]>>]]
  <2>2. h \in [D -> V]
    OBVIOUS
  <2>3. \A d \in D : rank[d] <= n => h[d] = g[d]
    BY <2>1
  <2>4. ASSUME NEW d \in D, rank[d] <= n + 1
        PROVE  Right(h, d)
    <3>1. CASE rank[d] = 0
      BY <3>1
    <3>2. CASE rank[d] # 0
      <4>1. rank[d] \in Nat /\ rank[before[d]] = rank[d] - 1 /\ before[d] \in D
        BY <3>2
      <4>2. rank[before[d]] <= n
        BY <4>1, <2>4
      <4>3. h[before[d]] = g[before[d]]
        BY <2>3, <4>1, <4>2
      <4>4. h[d] = step[<<d, g[before[d]]>>]
        BY <3>2
      <4> HIDE DEF h
      <4> QED
        BY <3>2, <4>3, <4>4
    <3> QED
      BY <3>1, <3>2
  <2> HIDE DEF h
  <2> QED
    BY <2>2, <2>4
<1>3. N \in Good
  <2> HIDE DEF Good
  <2> QED
    BY <1>1, <1>2, NumberInduction
<1> QED
  BY <1>3

\* Induction over the subsets of a finite set, by their size.
LEMMA SubsetInduction ==
  ASSUME NEW S, IsFiniteSet(S), NEW Good,
         \A s \in SUBSET S : (\A t \in SUBSET s : t # s => t \in Good) => s \in Good
  PROVE  \A s \in SUBSET S : s \in Good
<1> DEFINE R   == StrictSubsetOrdering(S)
           Bad == {s \in SUBSET S : s \notin Good}
<1>1. IsWellFoundedOn(R, SUBSET S)
  BY FS_StrictSubsetOrderingWellFounded, FS_FiniteSubsetsOfFinite
<1>2. SUFFICES ASSUME Bad # {} PROVE FALSE
  OBVIOUS
<1> HIDE DEF R
<1>3. PICK s \in Bad : \A t \in Bad : <<t, s>> \notin R
  <2>1. Bad \subseteq SUBSET S
    OBVIOUS
  <2> HIDE DEF Bad
  <2> QED
    BY <1>1, <1>2, <2>1, WFMin
<1>4. \A t \in SUBSET s : t # s => t \in Good
  BY <1>3 DEF R, StrictSubsetOrdering
<1> QED
  BY <1>3, <1>4

\* The same, one element at a time.
LEMMA ElementInduction ==
  ASSUME NEW S, IsFiniteSet(S), NEW Good, {} \in Good,
         \A s \in SUBSET S : \A x \in s : s \ {x} \in Good => s \in Good
  PROVE  \A s \in SUBSET S : s \in Good
<1>1. ASSUME NEW s \in SUBSET S, \A t \in SUBSET s : t # s => t \in Good
      PROVE  s \in Good
  <2>1. CASE s = {}
    BY <2>1
  <2>2. CASE s # {}
    <3>1. PICK x \in s : TRUE
      BY <2>2
    <3>2. s \ {x} \in Good
      BY <1>1, <3>1
    <3> QED
      BY <3>1, <3>2
  <2> QED
    BY <2>1, <2>2
<1> QED
  BY <1>1, SubsetInduction, Zenon

-----------------------------------------------------------------------------
(***************************************************************************)
(* Residues                                                                *)
(***************************************************************************)
Residues(n) == 0 .. n - 1

\* Division with a remainder.
LEMMA Division ==
  ASSUME NEW n \in Nat, n > 0, NEW a \in Int
  PROVE  /\ a % n \in Residues(n) /\ a % n \in Int
         /\ a \div n \in Int
         /\ a = n * (a \div n) + (a % n)
BY DEF Residues

\* What is left of a number is no more than the number.
LEMMA RemainderIsNoMore ==
  ASSUME NEW n \in Nat, n > 0, NEW a \in Nat
  PROVE  a % n \in Nat /\ a % n <= a
<1>1. a < n => a % n = a
  OBVIOUS
<1>2. a % n \in Nat /\ a % n < n
  OBVIOUS
<1> QED
  BY <1>1, <1>2

\* Two ways to divide a by n with a remainder are the same one.
Divided(n, a, k, r) == n \in Nat /\ n > 0 /\ k \in Int /\ r \in Residues(n) /\ a = n * k + r

\* So quotient and remainder are those of % and \div.
LEMMA DivisionIsUnique ==
  ASSUME NEW n, NEW a, NEW k, NEW l, NEW r, NEW s, Divided(n, a, k, r), Divided(n, a, l, s)
  PROVE  k = l /\ r = s
<1>0. /\ n \in Nat /\ n > 0 /\ k \in Int /\ l \in Int /\ r \in Int /\ s \in Int
      /\ 0 <= r /\ r < n /\ 0 <= s /\ s < n /\ n * k + r = n * l + s
  BY DEF Divided, Residues
<1>1. \A d \in Int : d >= 1 => n * d >= n
  BY <1>0
<1>3. n * (k - l) = s - r /\ n * (l - k) = r - s /\ k - l \in Int /\ l - k \in Int
  BY <1>0
<1>4. ~(k - l >= 1) /\ ~(l - k >= 1)
  BY <1>0, <1>1, <1>3
<1>5. k = l
  BY <1>0, <1>4
<1> QED
  BY <1>0, <1>5

\* a and b have the same residue modulo n; so they have if they are a multiple
\* of n apart, and only then.
Same(n, a, b)     == n \in Nat /\ n > 0 /\ a \in Int /\ b \in Int /\ a % n = b % n
Apart(n, a, b, k) == n \in Nat /\ n > 0 /\ a \in Int /\ b \in Int /\ k \in Int /\ a = b + n * k

\* One way: by the quotients.
LEMMA SameAreApart ==
  ASSUME NEW n, NEW a, NEW b, Same(n, a, b)
  PROVE  \E k : Apart(n, a, b, k)
<1>1. /\ n \in Nat /\ n > 0 /\ a \in Int /\ b \in Int /\ a % n = b % n
      /\ a \div n \in Int /\ b \div n \in Int /\ a % n \in Int
      /\ a = n * (a \div n) + (a % n) /\ b = n * (b \div n) + (b % n)
  BY Division DEF Same
<1>2. ASSUME NEW q \in Int, NEW t \in Int, NEW r \in Int, a = n * q + r, b = n * t + r
      PROVE  q - t \in Int /\ a = b + n * (q - t)
  BY <1>1, <1>2
<1> QED
  BY <1>1, <1>2 DEF Apart

\* And the other: by the uniqueness of the remainder.
LEMMA ApartAreSame ==
  ASSUME NEW n, NEW a, NEW b, NEW k, Apart(n, a, b, k)
  PROVE  Same(n, a, b)
<1>1. /\ n \in Nat /\ n > 0 /\ a \in Int /\ b \in Int /\ k \in Int /\ a = b + n * k
      /\ a \div n \in Int /\ b \div n \in Int
      /\ a % n \in Residues(n) /\ b % n \in Residues(n)
      /\ a = n * (a \div n) + (a % n) /\ b = n * (b \div n) + (b % n)
  BY Division DEF Apart
<1>2. a % n \in Int /\ b % n \in Int
  BY <1>1, Division
<1>3. ASSUME NEW t \in Int, NEW s \in Int, b = n * t + s
      PROVE  a = n * (t + k) + s /\ t + k \in Int
  BY <1>1, <1>3
<1>4. a = n * ((b \div n) + k) + (b % n) /\ (b \div n) + k \in Int
  BY <1>1, <1>2, <1>3
<1>5. Divided(n, a, a \div n, a % n) /\ Divided(n, a, (b \div n) + k, b % n)
  BY <1>1, <1>4 DEF Divided
<1>6. a % n = b % n
  BY <1>5, DivisionIsUnique, Zenon
<1> QED
  BY <1>1, <1>6 DEF Same

\* To be the same modulo n is an equivalence.
LEMMA SameIsAnEquivalence ==
  /\ \A n \in Nat, a \in Int : n > 0 => Same(n, a, a)
  /\ \A n, a, b : Same(n, a, b) => Same(n, b, a)
  /\ \A n, a, b, c : Same(n, a, b) /\ Same(n, b, c) => Same(n, a, c)
BY DEF Same

\* A residue is its own, and so is the residue of a residue.
LEMMA ResidueOfResidue ==
  ASSUME NEW n \in Nat, n > 0
  PROVE  /\ \A a \in Residues(n) : a % n = a
         /\ \A a \in Int : Same(n, a % n, a)
<1>1. ASSUME NEW a \in Residues(n)
      PROVE  a % n = a
  <2>1. a \in Int
    BY DEF Residues
  <2>2. a % n \in Residues(n) /\ a \div n \in Int /\ a = n * (a \div n) + (a % n)
    BY <2>1, Division
  <2>3. a = n * 0 + a
    BY <2>1
  <2>4. Divided(n, a, a \div n, a % n) /\ Divided(n, a, 0, a)
    BY <2>2, <2>3 DEF Divided
  <2> QED
    BY <2>4, DivisionIsUnique, Zenon
<1>2. ASSUME NEW a \in Int
      PROVE  Same(n, a % n, a)
  BY <1>1, Division DEF Same
<1> QED
  BY <1>1, <1>2

\* Equal residues may be put for one another in a sum, a difference, a product.
LEMMA SameSums ==
  ASSUME NEW n, NEW a, NEW b, NEW c, NEW d, Same(n, a, c), Same(n, b, d)
  PROVE  Same(n, a + b, c + d) /\ Same(n, a - b, c - d)
<1>1. PICK k : Apart(n, a, c, k)
  BY SameAreApart
<1>2. PICK l : Apart(n, b, d, l)
  BY SameAreApart
<1>3. Apart(n, a + b, c + d, k + l) /\ Apart(n, a - b, c - d, k - l)
  BY <1>1, <1>2 DEF Apart
<1> QED
  BY <1>3, ApartAreSame

\* In a product, too.
LEMMA SameProducts ==
  ASSUME NEW n, NEW a, NEW b, NEW c, NEW d, Same(n, a, c), Same(n, b, d)
  PROVE  Same(n, a * b, c * d)
<1>1. PICK k : Apart(n, a, c, k)
  BY SameAreApart
<1>2. PICK l : Apart(n, b, d, l)
  BY SameAreApart
<1>3. /\ n \in Nat /\ n > 0 /\ a \in Int /\ b \in Int /\ c \in Int /\ d \in Int
      /\ k \in Int /\ l \in Int /\ a = c + n * k /\ b = d + n * l
  BY <1>1, <1>2 DEF Apart
<1>4. ASSUME NEW cc \in Int, NEW dd \in Int, NEW kk \in Int, NEW ll \in Int, NEW nn \in Int
      PROVE  (cc + nn * kk) * (dd + nn * ll)
               = cc * dd + nn * ((cc * ll + kk * dd) + nn * (kk * ll))
  OBVIOUS
<1>5. a * b = c * d + n * ((c * l + k * d) + n * (k * l))
  BY <1>3, <1>4
<1>6. (c * l + k * d) + n * (k * l) \in Int /\ a * b \in Int /\ c * d \in Int
  BY <1>3
<1>7. Apart(n, a * b, c * d, (c * l + k * d) + n * (k * l))
  BY <1>3, <1>5, <1>6 DEF Apart
<1> QED
  BY <1>7, ApartAreSame

-----------------------------------------------------------------------------
(***************************************************************************)
(* Folds. They take the elements in an order nobody chose; with an operation *)
(* that may take them in any order, what a fold is made of is said without    *)
(* it. The operation is a function on the set of values here.               *)
(***************************************************************************)
Pick(s) == CHOOSE y \in s : TRUE
Swaps(op, V) ==
  /\ op \in [V \X V -> V]
  /\ \A x, y, z \in V : op[<<x, op[<<y, z>>]>>] = op[<<y, op[<<x, z>>]>>]
AggStep(op, base, f, s, g) == IF s = {} THEN base ELSE op[<<f[Pick(s)], g[s \ {Pick(s)}]>>]
Foldable(op, base, f, S, V) ==
  IsFiniteSet(S) /\ Swaps(op, V) /\ base \in V /\ f \in [S -> V]
Aggregates(op, base, f, S, V, g) ==
  /\ Foldable(op, base, f, S, V)
  /\ g \in [SUBSET S -> V]
  /\ \A s \in SUBSET S : g[s] = AggStep(op, base, f, s, g)

\* There is such a function, of the subsets of S.
LEMMA AggregatesExist ==
  ASSUME NEW S, NEW V, NEW op, NEW base, NEW f, Foldable(op, base, f, S, V)
  PROVE  \E g : Aggregates(op, base, f, S, V, g)
<1> USE DEF Foldable, Swaps
<1> DEFINE D    == SUBSET S
           rank == [s \in D |-> Cardinality(s)]
           before == [s \in D |-> s \ {Pick(s)}]
           bases == [s \in D |-> base]
           step == [d \in D \X V |-> IF d[1] = {} THEN base ELSE op[<<f[Pick(d[1])], d[2]>>]]
<1>1. rank \in [D -> Nat]
  <2>1. \A s \in D : Cardinality(s) \in Nat
    BY FS_Subset, FS_CardinalityType
  <2> QED
    BY <2>1
<1>2. before \in [D -> D] /\ bases \in [D -> V]
  OBVIOUS
<1>3. step \in [D \X V -> V]
  <2>1. ASSUME NEW s \in D, s # {}
        PROVE  f[Pick(s)] \in V
    BY <2>1 DEF Pick
  <2>2. ASSUME NEW d \in D \X V
        PROVE  (IF d[1] = {} THEN base ELSE op[<<f[Pick(d[1])], d[2]>>]) \in V
    <3>1. d[1] \in D /\ d[2] \in V
      OBVIOUS
    <3>2. CASE d[1] # {}
      <4>1. f[Pick(d[1])] \in V
        BY <2>1, <3>1, <3>2
      <4> QED
        BY <3>1, <3>2, <4>1
    <3> QED
      BY <3>2
  <2> QED
    BY <2>2
<1>4. Cardinality(S) \in Nat /\ \A s \in D : rank[s] <= Cardinality(S)
  BY FS_Subset, FS_CardinalityType
<1>5. ASSUME NEW s \in D, rank[s] # 0
      PROVE  rank[before[s]] = rank[s] - 1
  <2>1. IsFiniteSet(s)
    BY FS_Subset
  <2>2. s # {}
    BY <1>5, FS_EmptySet
  <2>3. Pick(s) \in s
    BY <2>2 DEF Pick
  <2>4. Cardinality(s \ {Pick(s)}) = Cardinality(s) - 1
    BY <2>1, <2>3, FS_RemoveElement
  <2> QED
    BY <2>4
<1> HIDE DEF rank, before, bases, step
<1>6. PICK g : Solves(D, V, rank, before, bases, step, g)
  <2>1. \A d \in D : rank[d] # 0 => rank[before[d]] = rank[d] - 1
    BY <1>5
  <2>2. PICK N \in Nat : \A d \in D : rank[d] <= N
    BY <1>4
  <2> HIDE DEF D
  <2> QED
    <3>1. Recursive(D, V, rank, before, bases, step, N)
      BY <1>1, <1>2, <1>3, <2>1, <2>2 DEF Recursive
    <3> QED
      BY <3>1, RecursiveFunctionExists, Zenon
<1>7. ASSUME NEW s \in SUBSET S
      PROVE  g[s] = AggStep(op, base, f, s, g)
  <2>1. IsFiniteSet(s)
    BY FS_Subset
  <2>2. CASE s = {}
    <3>1. rank[s] = 0
      BY <2>2, FS_EmptySet DEF rank
    <3> QED
      BY <1>6, <2>2, <3>1 DEF Solves, AggStep, bases
  <2>3. CASE s # {}
    <3>1. rank[s] # 0
      BY <2>1, <2>3, FS_EmptySet DEF rank
    <3>2. g[s \ {Pick(s)}] \in V
      BY <1>6 DEF Solves
    <3> QED
      BY <1>6, <2>3, <3>1, <3>2 DEF Solves, AggStep, step, before
  <2> QED
    BY <2>2, <2>3
<1> QED
  BY <1>6, <1>7 DEF Aggregates, Solves

\* What an aggregate is made of, whichever value is taken out of it first.
LEMMA AggregateTakesOutAny ==
  ASSUME NEW S, NEW V, NEW op, NEW base, NEW f, NEW g,
         Aggregates(op, base, f, S, V, g), NEW s, s \subseteq S, NEW x \in s
  PROVE  g[s] = op[<<f[x], g[s \ {x}]>>]
<1> USE DEF Foldable
<1>0. IsFiniteSet(S)
  BY DEF Aggregates
<1> DEFINE Good == {u \in SUBSET S : \A y \in u : g[u] = op[<<f[y], g[u \ {y}]>>]}
<1>1. ASSUME NEW u \in SUBSET S, \A t \in SUBSET u : t # u => t \in Good
      PROVE  u \in Good
  <2> SUFFICES ASSUME NEW y \in u PROVE g[u] = op[<<f[y], g[u \ {y}]>>]
    OBVIOUS
  <2> DEFINE z == Pick(u)
  <2>1. z \in u /\ g[u] = op[<<f[z], g[u \ {z}]>>]
    BY DEF Aggregates, AggStep, Pick
  <2> HIDE DEF z
  <2>2. CASE y # z
    <3>1. u \ {z} \in Good /\ y \in u \ {z}
      BY <1>1, <2>1, <2>2
    <3>2. u \ {y} \in Good /\ z \in u \ {y}
      BY <1>1, <2>1, <2>2
    <3> DEFINE w == (u \ {z}) \ {y}
    <3>3. (u \ {y}) \ {z} = w
      OBVIOUS
    <3>4. g[u \ {z}] = op[<<f[y], g[w]>>]
      BY <3>1
    <3>5. g[u \ {y}] = op[<<f[z], g[w]>>]
      <4>1. g[u \ {y}] = op[<<f[z], g[(u \ {y}) \ {z}]>>]
        BY <3>2
      <4> QED
        BY <3>3, <4>1
    <3>6. f[y] \in V /\ f[z] \in V /\ g[w] \in V
      BY <2>1 DEF Aggregates
    <3>7. op[<<f[z], op[<<f[y], g[w]>>]>>] = op[<<f[y], op[<<f[z], g[w]>>]>>]
      BY <3>6 DEF Aggregates, Swaps
    <3> QED
      BY <2>1, <3>4, <3>5, <3>7
  <2> QED
    BY <2>1, <2>2
<1>2. \A u \in SUBSET S : u \in Good
  <2> HIDE DEF Good
  <2>1. \A u \in SUBSET S : (\A t \in SUBSET u : t # u => t \in Good) => u \in Good
    BY <1>1
  <2> QED
    BY <1>0, <2>1, SubsetInduction, Zenon
<1> QED
  BY <1>2

\* Where two functions agree, so do their aggregates.
LEMMA AggregatesAgree ==
  ASSUME NEW S, NEW T, T \subseteq S, NEW V, NEW op, NEW base,
         NEW f, NEW g, Aggregates(op, base, f, S, V, g),
         NEW e, NEW h, Aggregates(op, base, e, T, V, h),
         \A x \in T : f[x] = e[x]
  PROVE  g[T] = h[T]
<1> DEFINE Good == {s \in SUBSET T : g[s] = h[s]}
<1>1. ASSUME NEW s \in SUBSET T, \A t \in SUBSET s : t # s => t \in Good
      PROVE  s \in Good
  <2>1. s \in SUBSET S
    OBVIOUS
  <2>2. g[s] = AggStep(op, base, f, s, g) /\ h[s] = AggStep(op, base, e, s, h)
    BY <2>1 DEF Aggregates
  <2>3. CASE s = {}
    BY <2>2, <2>3 DEF AggStep
  <2>4. CASE s # {}
    <3> DEFINE z == Pick(s)
    <3>1. z \in s
      BY <2>4 DEF Pick
    <3>2. g[s \ {z}] = h[s \ {z}] /\ f[z] = e[z]
      BY <1>1, <3>1
    <3> QED
      BY <2>2, <2>4, <3>2 DEF AggStep
  <2> QED
    BY <2>3, <2>4
<1>2. IsFiniteSet(T)
  BY DEF Aggregates, Foldable
<1>3. T \in Good
  <2> HIDE DEF Good
  <2>1. \A s \in SUBSET T : (\A t \in SUBSET s : t # s => t \in Good) => s \in Good
    BY <1>1
  <2>2. \A s \in SUBSET T : s \in Good
    BY <1>2, <2>1, SubsetInduction, Zenon
  <2> QED
    BY <2>2
<1> QED
  BY <1>3

\* The aggregate of f over s.
Agg(op, base, f, s, V) == (CHOOSE g : Aggregates(op, base, [x \in s |-> f[x]], s, V, g))[s]

\* It does not matter which aggregate is chosen, they agree.
LEMMA AggIsAnyAggregate ==
  ASSUME NEW s, NEW V, NEW op, NEW base, NEW f, NEW g,
         Aggregates(op, base, [x \in s |-> f[x]], s, V, g)
  PROVE  g[s] = Agg(op, base, f, s, V)
<1> DEFINE e == [x \in s |-> f[x]]
           h == CHOOSE k : Aggregates(op, base, e, s, V, k)
<1>1. Aggregates(op, base, e, s, V, h)
  BY Zenon
<1>2. s \subseteq s /\ \A x \in s : e[x] = e[x]
  OBVIOUS
<1>3. Aggregates(op, base, e, s, V, g)
  OBVIOUS
<1>4. Agg(op, base, f, s, V) = h[s]
  BY DEF Agg
<1> HIDE DEF e, h
<1> QED
  BY <1>1, <1>2, <1>3, <1>4, AggregatesAgree

\* An aggregate, one element at a time, whichever is taken out of it.
LEMMA AggTakesOutAny ==
  ASSUME NEW S, IsFiniteSet(S), NEW V, NEW op, Swaps(op, V), NEW base \in V,
         NEW f, \A x \in S : f[x] \in V
  PROVE  /\ Agg(op, base, f, {}, V) = base
         /\ \A s \in SUBSET S : Agg(op, base, f, s, V) \in V
         /\ \A s \in SUBSET S : \A x \in s :
              Agg(op, base, f, s, V) = op[<<f[x], Agg(op, base, f, s \ {x}, V)>>]
<1> DEFINE r(s) == [x \in s |-> f[x]]
           A(s, g) == Aggregates(op, base, r(s), s, V, g)
<1>1. ASSUME NEW s \in SUBSET S
      PROVE  \E g : A(s, g) /\ Agg(op, base, f, s, V) = g[s]
  <2>1. Foldable(op, base, r(s), s, V)
    BY FS_Subset DEF Foldable
  <2>2. PICK g : A(s, g)
    <3> HIDE DEF r
    <3> QED
      BY <2>1, AggregatesExist
  <2>3. Agg(op, base, f, s, V) = g[s]
    BY <2>2, AggIsAnyAggregate
  <2> QED
    BY <2>2, <2>3
<1>2. Agg(op, base, f, {}, V) = base
  <2>1. PICK g : A({}, g) /\ Agg(op, base, f, {}, V) = g[{}]
    BY <1>1
  <2> QED
    BY <2>1 DEF Aggregates, AggStep
<1>3. ASSUME NEW s \in SUBSET S
      PROVE  Agg(op, base, f, s, V) \in V
  <2>1. PICK g : A(s, g) /\ Agg(op, base, f, s, V) = g[s]
    BY <1>1
  <2> QED
    BY <2>1 DEF Aggregates
<1>4. ASSUME NEW s \in SUBSET S, NEW x \in s
      PROVE  Agg(op, base, f, s, V) = op[<<f[x], Agg(op, base, f, s \ {x}, V)>>]
  <2> DEFINE t == s \ {x}
  <2>1. PICK g : A(s, g) /\ Agg(op, base, f, s, V) = g[s]
    BY <1>1
  <2>2. t \in SUBSET S
    OBVIOUS
  <2>3. PICK h : A(t, h) /\ Agg(op, base, f, t, V) = h[t]
    BY <1>1, <2>2
  <2>4. t \subseteq s /\ s \subseteq s
    OBVIOUS
  <2>5. r(s)[x] = f[x]
    OBVIOUS
  <2>6. \A y \in t : r(s)[y] = r(t)[y]
    OBVIOUS
  <2> HIDE DEF t, r
  <2>7. g[t] = h[t]
    BY <2>1, <2>3, <2>4, <2>6, AggregatesAgree
  <2>8. g[s] = op[<<r(s)[x], g[s \ {x}]>>]
    BY <2>1, <2>4, AggregateTakesOutAny
  <2> QED
    BY <2>1, <2>3, <2>5, <2>7, <2>8 DEF t
<1> QED
  BY <1>2, <1>3, <1>4

-----------------------------------------------------------------------------
(***************************************************************************)
(* Sums and products over a set s of the values of f                        *)
(***************************************************************************)
SumOver(f, s)        == Total([x \in s |-> f[x]])
ProductOver(f, s, n) == Product([x \in s |-> f[x]], n)

Adding         == [p \in Int \X Int |-> p[1] + p[2]]
Multiplying(n)    == [p \in Residues(n) \X Residues(n) |-> (p[1] * p[2]) % n]

\* A fold over a function is an aggregate: for sums.
LEMMA SumIsAggregate ==
  ASSUME NEW s, IsFiniteSet(s), NEW f, \A x \in s : f[x] \in Int
  PROVE  SumOver(f, s) = Agg(Adding, 0, f, s, Int)
<1> DEFINE e == [x \in s |-> f[x]]
           Sums(g) == g = [t \in SUBSET s |->
                             IF t = {} THEN 0 ELSE e[Pick(t)] + g[t \ {Pick(t)}]]
<1>1. Adding \in [Int \X Int -> Int] /\ 0 \in Int /\ e \in [s -> Int]
  BY DEF Adding
<1>0. Swaps(Adding, Int)
  <2>1. \A x, y \in Int : Adding[<<x, y>>] = x + y /\ x + y \in Int
    BY DEF Adding
  <2> QED
    BY <1>1, <2>1 DEF Swaps
<1>2. PICK g : Aggregates(Adding, 0, e, s, Int, g)
  <2> HIDE DEF e
  <2>1. Foldable(Adding, 0, e, s, Int)
    BY <1>0, <1>1 DEF Foldable
  <2> QED
    BY <2>1, AggregatesExist
<1>3. ASSUME NEW t \in SUBSET s
      PROVE  g[t] = IF t = {} THEN 0 ELSE e[Pick(t)] + g[t \ {Pick(t)}]
  <2>1. t # {} => Pick(t) \in s
    BY DEF Pick
  <2>2. t # {} => e[Pick(t)] \in Int /\ g[t \ {Pick(t)}] \in Int
    BY <1>2, <2>1 DEF Aggregates
  <2>3. g[t] = AggStep(Adding, 0, e, t, g)
    BY <1>2 DEF Aggregates
  <2> HIDE DEF e
  <2> QED
    BY <2>2, <2>3 DEF AggStep, Adding
<1>4. Sums(g)
  <2>1. g \in [SUBSET s -> Int]
    BY <1>2 DEF Aggregates
  <2> HIDE DEF e
  <2> QED
    BY <1>3, <2>1
<1> DEFINE h == CHOOSE k : Sums(k)
<1>5. Sums(h)
  <2> HIDE DEF Sums
  <2> QED
    BY <1>4, Zenon
<1>6. SumOver(f, s) = h[s]
  BY DEF SumOver, Total, FoldFunction, FoldFunctionOnSet, MapThenFoldSet, Pick
<1> DEFINE Agreed == {t \in SUBSET s : h[t] = g[t]}
<1>7. ASSUME NEW t \in SUBSET s, \A u \in SUBSET t : u # t => u \in Agreed
      PROVE  t \in Agreed
  <2> HIDE DEF h, e
  <2>1. h[t] = IF t = {} THEN 0 ELSE e[Pick(t)] + h[t \ {Pick(t)}]
    BY <1>5
  <2>2. t # {} => t \ {Pick(t)} \in Agreed
    BY <1>7 DEF Pick
  <2>3. h[t] = g[t]
    BY <1>3, <2>1, <2>2
  <2> QED
    BY <2>3
<1>8. s \in Agreed
  <2> HIDE DEF Agreed
  <2>1. \A t \in SUBSET s : (\A u \in SUBSET t : u # t => u \in Agreed) => t \in Agreed
    BY <1>7
  <2>2. \A t \in SUBSET s : t \in Agreed
    BY <2>1, SubsetInduction, Zenon
  <2> QED
    BY <2>2
<1>9. g[s] = Agg(Adding, 0, f, s, Int)
  BY <1>2, AggIsAnyAggregate
<1> QED
  BY <1>6, <1>8, <1>9

\* The same for products modulo n, which may be taken in any order.
LEMMA ProductIsAggregate ==
  ASSUME NEW s, IsFiniteSet(s), NEW n \in Nat, n > 1, NEW f, \A x \in s : f[x] \in Residues(n)
  PROVE  /\ ProductOver(f, s, n) = Agg(Multiplying(n), 1, f, s, Residues(n))
         /\ Swaps(Multiplying(n), Residues(n))
<1> DEFINE e == [x \in s |-> f[x]]
           V == Residues(n)
           Products(g) == g = [t \in SUBSET s |->
                             IF t = {} THEN 1 ELSE (e[Pick(t)] * g[t \ {Pick(t)}]) % n]
<1>1. 1 \in V /\ e \in [s -> V]
  BY DEF Residues
<1>2. \A x, y \in V : Multiplying(n)[<<x, y>>] = (x * y) % n /\ (x * y) % n \in V
  BY DEF Multiplying, Residues
<1>3. Multiplying(n) \in [V \X V -> V]
  BY <1>2 DEF Multiplying
<1>4. Swaps(Multiplying(n), V)
  <2>1. ASSUME NEW x \in V, NEW y \in V, NEW z \in V
        PROVE  (x * ((y * z) % n)) % n = (y * ((x * z) % n)) % n
    <3>1. /\ x \in Int /\ y \in Int /\ z \in Int /\ n > 0
          /\ y * z \in Int /\ x * z \in Int
      BY DEF Residues
    <3>2. /\ Same(n, x, x) /\ Same(n, y, y)
          /\ Same(n, (y * z) % n, y * z) /\ Same(n, (x * z) % n, x * z)
      BY <3>1, SameIsAnEquivalence, ResidueOfResidue
    <3> HIDE DEF V
    <3>3. Same(n, x * ((y * z) % n), x * (y * z)) /\ Same(n, y * ((x * z) % n), y * (x * z))
      BY <3>2, SameProducts
    <3>4. x * (y * z) = y * (x * z)
      BY <3>1
    <3> QED
      BY <3>3, <3>4 DEF Same
  <2> QED
    BY <1>2, <1>3, <2>1 DEF Swaps
<1>5. PICK g : Aggregates(Multiplying(n), 1, e, s, V, g)
  <2> HIDE DEF e, V
  <2>1. Foldable(Multiplying(n), 1, e, s, V)
    BY <1>1, <1>4 DEF Foldable
  <2> QED
    BY <2>1, AggregatesExist
<1>6. ASSUME NEW t \in SUBSET s
      PROVE  g[t] = IF t = {} THEN 1 ELSE (e[Pick(t)] * g[t \ {Pick(t)}]) % n
  <2>1. t # {} => Pick(t) \in s
    BY DEF Pick
  <2>2. t # {} => e[Pick(t)] \in V /\ g[t \ {Pick(t)}] \in V
    BY <1>1, <1>5, <2>1 DEF Aggregates
  <2>3. g[t] = AggStep(Multiplying(n), 1, e, t, g)
    BY <1>5 DEF Aggregates
  <2> HIDE DEF e, V
  <2> QED
    BY <1>2, <2>2, <2>3 DEF AggStep
<1>7. Products(g)
  <2>1. g \in [SUBSET s -> V]
    BY <1>5 DEF Aggregates
  <2> HIDE DEF e, V
  <2> QED
    BY <1>6, <2>1
<1> DEFINE h == CHOOSE k : Products(k)
<1>8. Products(h)
  <2> HIDE DEF Products
  <2> QED
    BY <1>7, Zenon
<1>9. ProductOver(f, s, n) = h[s]
  BY DEF ProductOver, Product, FoldFunction, FoldFunctionOnSet, MapThenFoldSet, Pick
<1> DEFINE Agreed == {t \in SUBSET s : h[t] = g[t]}
<1>10. ASSUME NEW t \in SUBSET s, \A u \in SUBSET t : u # t => u \in Agreed
       PROVE  t \in Agreed
  <2> HIDE DEF h, e
  <2>1. h[t] = IF t = {} THEN 1 ELSE (e[Pick(t)] * h[t \ {Pick(t)}]) % n
    BY <1>8
  <2>2. t # {} => t \ {Pick(t)} \in Agreed
    BY <1>10 DEF Pick
  <2>3. h[t] = g[t]
    BY <1>6, <2>1, <2>2
  <2> QED
    BY <2>3
<1>11. s \in Agreed
  <2> HIDE DEF Agreed
  <2>1. \A t \in SUBSET s : (\A u \in SUBSET t : u # t => u \in Agreed) => t \in Agreed
    BY <1>10
  <2>2. \A t \in SUBSET s : t \in Agreed
    BY <2>1, SubsetInduction, Zenon
  <2> QED
    BY <2>2
<1>12. g[s] = Agg(Multiplying(n), 1, f, s, V)
  BY <1>5, AggIsAnyAggregate
<1> QED
  BY <1>4, <1>9, <1>11, <1>12

\* What a sum is made of, whichever term is taken out of it first.
LEMMA SumTakesOutAny ==
  ASSUME NEW S, IsFiniteSet(S), NEW f, \A x \in S : f[x] \in Int
  PROVE  /\ SumOver(f, {}) = 0
         /\ \A s \in SUBSET S : SumOver(f, s) \in Int
         /\ \A s \in SUBSET S : \A x \in s : SumOver(f, s) = f[x] + SumOver(f, s \ {x})
<1>1. ASSUME NEW s \in SUBSET S
      PROVE  SumOver(f, s) = Agg(Adding, 0, f, s, Int)
  <2>1. IsFiniteSet(s) /\ \A x \in s : f[x] \in Int
    BY FS_Subset
  <2> QED
    BY <2>1, SumIsAggregate
<1>2. \A x, y \in Int : Adding[<<x, y>>] = x + y /\ x + y \in Int
  BY DEF Adding
<1>3. Swaps(Adding, Int)
  <2>1. Adding \in [Int \X Int -> Int]
    BY DEF Adding
  <2> QED
    BY <1>2, <2>1 DEF Swaps
<1>4. /\ Agg(Adding, 0, f, {}, Int) = 0
      /\ \A s \in SUBSET S : Agg(Adding, 0, f, s, Int) \in Int
      /\ \A s \in SUBSET S : \A x \in s :
           Agg(Adding, 0, f, s, Int) = Adding[<<f[x], Agg(Adding, 0, f, s \ {x}, Int)>>]
  BY <1>3, AggTakesOutAny
<1>5. SumOver(f, {}) = 0 /\ \A s \in SUBSET S : SumOver(f, s) \in Int
  BY <1>1, <1>4
<1>6. ASSUME NEW s \in SUBSET S, NEW x \in s
      PROVE  SumOver(f, s) = f[x] + SumOver(f, s \ {x})
  <2>1. Agg(Adding, 0, f, s, Int) = Adding[<<f[x], Agg(Adding, 0, f, s \ {x}, Int)>>]
    BY <1>4
  <2>2. s \ {x} \in SUBSET S /\ f[x] \in Int
    OBVIOUS
  <2>3. SumOver(f, s) = Adding[<<f[x], SumOver(f, s \ {x})>>] /\ SumOver(f, s \ {x}) \in Int
    BY <1>1, <1>5, <2>1, <2>2
  <2> QED
    BY <1>2, <2>2, <2>3
<1> QED
  BY <1>5, <1>6

\* What a product is made of, whichever factor is taken out of it first.
LEMMA ProductTakesOutAny ==
  ASSUME NEW S, IsFiniteSet(S), NEW n \in Nat, n > 1, NEW f, \A x \in S : f[x] \in Residues(n)
  PROVE  /\ ProductOver(f, {}, n) = 1
         /\ \A s \in SUBSET S : ProductOver(f, s, n) \in Residues(n)
         /\ \A s \in SUBSET S : \A x \in s :
              ProductOver(f, s, n) = (f[x] * ProductOver(f, s \ {x}, n)) % n
<1> DEFINE A(s) == Agg(Multiplying(n), 1, f, s, Residues(n))
<1>1. ASSUME NEW s \in SUBSET S
      PROVE  ProductOver(f, s, n) = A(s) /\ Swaps(Multiplying(n), Residues(n))
  <2>1. IsFiniteSet(s) /\ \A x \in s : f[x] \in Residues(n)
    BY FS_Subset
  <2> QED
    BY <2>1, ProductIsAggregate
<1>2. \A x, y \in Residues(n) : Multiplying(n)[<<x, y>>] = (x * y) % n
  BY DEF Multiplying
<1>3. 1 \in Residues(n)
  BY DEF Residues
<1>4. /\ A({}) = 1
      /\ \A s \in SUBSET S : A(s) \in Residues(n)
      /\ \A s \in SUBSET S : \A x \in s : A(s) = Multiplying(n)[<<f[x], A(s \ {x})>>]
  <2>1. Swaps(Multiplying(n), Residues(n))
    BY <1>1
  <2> QED
    BY <1>3, <2>1, AggTakesOutAny
<1> HIDE DEF A
<1>5. ProductOver(f, {}, n) = 1 /\ \A s \in SUBSET S : ProductOver(f, s, n) \in Residues(n)
  BY <1>1, <1>4
<1>6. ASSUME NEW s \in SUBSET S, NEW x \in s
      PROVE  ProductOver(f, s, n) = (f[x] * ProductOver(f, s \ {x}, n)) % n
  <2>1. s \ {x} \in SUBSET S /\ f[x] \in Residues(n)
    OBVIOUS
  <2>2. /\ ProductOver(f, s, n) = Multiplying(n)[<<f[x], ProductOver(f, s \ {x}, n)>>]
        /\ ProductOver(f, s \ {x}, n) \in Residues(n)
    BY <1>1, <1>4, <1>5, <2>1
  <2> QED
    BY <1>2, <2>1, <2>2
<1> QED
  BY <1>5, <1>6

\* A sum or product depends on the values over the set alone.
LEMMA SumsAgree ==
  ASSUME NEW s, NEW f, NEW g, \A x \in s : f[x] = g[x]
  PROVE  SumOver(f, s) = SumOver(g, s)
<1>1. [x \in s |-> f[x]] = [x \in s |-> g[x]]
  OBVIOUS
<1> QED
  BY <1>1 DEF SumOver

\* The same for products.
LEMMA ProductsAgree ==
  ASSUME NEW s, NEW n, NEW f, NEW g, \A x \in s : f[x] = g[x]
  PROVE  ProductOver(f, s, n) = ProductOver(g, s, n)
<1>1. [x \in s |-> f[x]] = [x \in s |-> g[x]]
  OBVIOUS
<1> QED
  BY <1>1 DEF ProductOver

\* A sum of naturals is one.
LEMMA SumOfNaturals ==
  ASSUME NEW S, IsFiniteSet(S), NEW f, \A x \in S : f[x] \in Nat
  PROVE  \A s \in SUBSET S : SumOver(f, s) \in Nat
<1> DEFINE Good == {s \in SUBSET S : SumOver(f, s) \in Nat}
<1>1. /\ SumOver(f, {}) = 0
      /\ \A s \in SUBSET S : \A x \in s : SumOver(f, s) = f[x] + SumOver(f, s \ {x})
  <2>1. \A x \in S : f[x] \in Int
    OBVIOUS
  <2> QED
    BY <2>1, SumTakesOutAny
<1>2. {} \in Good
  BY <1>1
<1>3. ASSUME NEW s \in SUBSET S, NEW x \in s, s \ {x} \in Good
      PROVE  s \in Good
  <2>1. SumOver(f, s) = f[x] + SumOver(f, s \ {x}) /\ f[x] \in Nat
    BY <1>1
  <2>2. SumOver(f, s) \in Nat
    BY <1>3, <2>1
  <2> QED
    BY <2>2
<1> HIDE DEF Good
<1>4. \A s \in SUBSET S : s \in Good
  BY <1>2, <1>3, ElementInduction
<1> QED
  BY <1>4 DEF Good

\* A sum of nothing but zeros.
LEMMA SumOfZeros ==
  ASSUME NEW S, IsFiniteSet(S), NEW f, \A x \in S : f[x] = 0
  PROVE  SumOver(f, S) = 0
<1> DEFINE Good == {s \in SUBSET S : SumOver(f, s) = 0}
<1>1. /\ SumOver(f, {}) = 0
      /\ \A s \in SUBSET S : \A x \in s : SumOver(f, s) = f[x] + SumOver(f, s \ {x})
  <2>1. \A x \in S : f[x] \in Int
    OBVIOUS
  <2> QED
    BY <2>1, SumTakesOutAny
<1>2. {} \in Good
  BY <1>1
<1>3. ASSUME NEW s \in SUBSET S, NEW x \in s, s \ {x} \in Good
      PROVE  s \in Good
  <2>1. SumOver(f, s) = f[x] + SumOver(f, s \ {x}) /\ f[x] = 0
    BY <1>1
  <2>2. SumOver(f, s) = 0
    BY <1>3, <2>1
  <2> QED
    BY <2>2
<1> HIDE DEF Good
<1>4. \A s \in SUBSET S : s \in Good
  BY <1>2, <1>3, ElementInduction
<1> QED
  BY <1>4 DEF Good

\* A sum of zeros and ones is the number of its ones.
LEMMA SumCountsOnes ==
  ASSUME NEW S, IsFiniteSet(S), NEW f, \A x \in S : f[x] \in 0 .. 1
  PROVE  SumOver(f, S) = Cardinality({x \in S : f[x] = 1})
<1> DEFINE Ones == {x \in S : f[x] = 1}
           Good == {s \in SUBSET S : SumOver(f, s) = Cardinality(s \cap Ones)}
<1>1. /\ SumOver(f, {}) = 0
      /\ \A s \in SUBSET S : \A x \in s : SumOver(f, s) = f[x] + SumOver(f, s \ {x})
  <2>1. \A x \in S : f[x] \in Int
    OBVIOUS
  <2> QED
    BY <2>1, SumTakesOutAny
<1>2. \A x \in S : f[x] = IF x \in Ones THEN 1 ELSE 0
  OBVIOUS
<1>3. S \cap Ones = Ones
  OBVIOUS
<1> HIDE DEF Ones
<1>4. {} \in Good
  <2>1. {} \cap Ones = {}
    OBVIOUS
  <2>2. SumOver(f, {}) = Cardinality({} \cap Ones)
    BY <1>1, <2>1, FS_EmptySet
  <2> QED
    BY <2>2
<1>5. ASSUME NEW s \in SUBSET S, NEW x \in s, s \ {x} \in Good
      PROVE  s \in Good
  <2> DEFINE t == s \ {x}
  <2>1. SumOver(f, t) = Cardinality(t \cap Ones)
    BY <1>5
  <2>2. SumOver(f, s) = f[x] + SumOver(f, t)
    BY <1>1
  <2>3. IsFiniteSet(s \cap Ones) /\ t \cap Ones = (s \cap Ones) \ {x}
    BY FS_Subset
  <2>4. /\ Cardinality(s \cap Ones) \in Nat
        /\ Cardinality(t \cap Ones) = IF x \in s \cap Ones THEN Cardinality(s \cap Ones) - 1
                                      ELSE Cardinality(s \cap Ones)
    BY <2>3, FS_RemoveElement, FS_CardinalityType
  <2>5. f[x] = IF x \in Ones THEN 1 ELSE 0
    BY <1>2
  <2>6. SumOver(f, s) = Cardinality(s \cap Ones)
    <3> HIDE DEF t
    <3> QED
      BY <2>1, <2>2, <2>4, <2>5
  <2> QED
    BY <2>6
<1>6. S \in Good
  <2> HIDE DEF Good
  <2>1. \A s \in SUBSET S : s \in Good
    BY <1>4, <1>5, ElementInduction
  <2> QED
    BY <2>1
<1> QED
  BY <1>3, <1>6 DEF Ones

\* So it is at most the number of terms that may be one.
LEMMA SumOfOnes ==
  ASSUME NEW S, IsFiniteSet(S), NEW T \in SUBSET S, NEW f,
         \A x \in S : f[x] \in 0 .. 1 /\ (x \notin T => f[x] = 0)
  PROVE  SumOver(f, S) <= Cardinality(T)
<1> DEFINE Ones == {x \in S : f[x] = 1}
<1>1. Ones \subseteq T /\ IsFiniteSet(T)
  BY FS_Subset
<1>2. SumOver(f, S) = Cardinality(Ones)
  BY SumCountsOnes
<1> HIDE DEF Ones
<1> QED
  BY <1>1, <1>2, FS_Subset

\* The operators of Arithmetic are the sum and the product over the domain.
LEMMA TotalIsSum ==
  ASSUME NEW S, NEW V, NEW f \in [S -> V]
  PROVE  /\ Total(f) = SumOver(f, S)
         /\ \A n : Product(f, n) = ProductOver(f, S, n)
<1>1. [x \in S |-> f[x]] = f
  OBVIOUS
<1> QED
  BY <1>1 DEF SumOver, ProductOver

-----------------------------------------------------------------------------
(***************************************************************************)
(* Inverses                                                                *)
(***************************************************************************)
\* A factor that has an inverse may be cancelled.
LEMMA Cancel ==
  ASSUME NEW n, NEW a, NEW b, NEW c, NEW x, x \in Int, a \in Int, b \in Int, c \in Int,
         Same(n, x * c, 1), Same(n, a * c, b * c)
  PROVE  Same(n, a, b)
<1>1. ASSUME NEW d \in Int
      PROVE  Same(n, (d * c) * x, d)
  <2>1. Same(n, d, d)
    BY SameIsAnEquivalence DEF Same
  <2>2. Same(n, d * (x * c), d * 1)
    BY <2>1, SameProducts
  <2>3. d * (x * c) = (d * c) * x /\ d * 1 = d
    OBVIOUS
  <2> QED
    BY <2>2, <2>3
<1>2. Same(n, x, x)
  BY SameIsAnEquivalence DEF Same
<1>3. Same(n, (a * c) * x, (b * c) * x)
  BY <1>2, SameProducts
<1>4. Same(n, (a * c) * x, a) /\ Same(n, (b * c) * x, b)
  BY <1>1
<1> QED
  BY <1>3, <1>4 DEF Same

\* Modulo a prime, by trial division, every number but 0 has an inverse: the least
\* of its multiples' residues divides the prime.
Prime(n) == n \in Nat /\ n > 1 /\ \A d \in 2 .. n - 1 : n % d # 0

\* So every residue but 0 has an inverse modulo a prime.
LEMMA InversesExist ==
  ASSUME NEW n, Prime(n), NEW a \in 1 .. n - 1
  PROVE  \E x \in 1 .. n - 1 : Same(n, x * a, 1)
<1> DEFINE D == {(k * a) % n : k \in Int} \ {0}
<1>1. n \in Nat /\ n > 1 /\ n > 0 /\ a \in Int /\ \A k \in Int : k * a \in Int
  BY DEF Prime
<1>2. D \subseteq Nat /\ D \subseteq 1 .. n - 1
  BY <1>1, Division DEF Residues
<1>3. D # {}
  <2>1. a % n = a
    BY <1>1, ResidueOfResidue DEF Residues
  <2>2. 1 * a = a
    BY <1>1
  <2>3. (1 * a) % n = a /\ a # 0
    BY <2>1, <2>2
  <2> QED
    BY <2>3
<1>4. PICK d \in D : \A e \in D : d <= e
  <2> HIDE DEF D
  <2> QED
    BY <1>2, <1>3, LeastNumber
<1>5. PICK k \in Int : d = (k * a) % n
  OBVIOUS
<1>6. d \in 1 .. n - 1 /\ d \in Int /\ d > 0
  BY <1>1, <1>2
<1>7. Same(n, d, k * a)
  BY <1>1, <1>5, ResidueOfResidue
<1> DEFINE u == n \div d
           r == n % d
<1>8. u \in Int /\ r \in Int /\ 0 <= r /\ r < d /\ n = d * u + r
  BY <1>1, <1>6, Division DEF Residues
<1> HIDE DEF u, r
<1>9. Same(n, r, (0 - u * k) * a)
  <2>1. Same(n, u, u) /\ u * (k * a) = (u * k) * a
    BY <1>1, <1>8, SameIsAnEquivalence
  <2>2. Same(n, u * d, u * (k * a))
    BY <1>7, <2>1, SameProducts
  <2>3. Apart(n, n, 0, 1)
    BY <1>1 DEF Apart
  <2>4. Same(n, n, 0)
    BY <2>3, ApartAreSame
  <2>5. Same(n, n - u * d, 0 - u * (k * a))
    BY <2>2, <2>4, SameSums
  <2>6. n - u * d = r /\ 0 - u * (k * a) = (0 - u * k) * a
    BY <1>1, <1>6, <1>8
  <2> QED
    BY <2>5, <2>6
<1>10. r = 0
  <2>1. r % n = r
    BY <1>1, <1>6, <1>8, ResidueOfResidue DEF Residues
  <2>2. r = ((0 - u * k) * a) % n /\ 0 - u * k \in Int
    BY <1>8, <1>9, <2>1 DEF Same
  <2>3. r # 0 => r \in D
    BY <2>2
  <2> HIDE DEF D
  <2> QED
    BY <1>4, <1>6, <1>8, <2>3
<1>11. d = 1
  <2>1. d \in 2 .. n - 1 => r # 0
    BY DEF Prime, r
  <2> QED
    BY <1>1, <1>6, <1>10, <2>1
<1>12. Same(n, 1, k * a)
  BY <1>7, <1>11
<1> DEFINE x == k % n
<1>13. x \in 0 .. n - 1 /\ x \in Int /\ Same(n, x, k)
  BY <1>1, Division, ResidueOfResidue DEF Residues
<1> HIDE DEF x
<1>14. Same(n, x * a, k * a)
  <2>1. Same(n, a, a)
    BY <1>1, SameIsAnEquivalence
  <2> QED
    BY <1>13, <2>1, SameProducts
<1>15. Same(n, x * a, 1)
  BY <1>12, <1>14, SameIsAnEquivalence
<1>16. x # 0
  <2>1. 0 * a = 0 /\ 0 \in Residues(n) /\ 1 \in Residues(n)
    BY <1>1 DEF Residues
  <2>2. 0 % n = 0 /\ 1 % n = 1
    BY <1>1, <2>1, ResidueOfResidue
  <2> QED
    BY <1>15, <2>1, <2>2 DEF Same
<1> QED
  BY <1>1, <1>13, <1>15, <1>16

\* There is one inverse in the range.
LEMMA InverseIsUnique ==
  ASSUME NEW n, NEW a \in Int, NEW x \in 1 .. n - 1, NEW y \in 1 .. n - 1,
         Same(n, x * a, 1), Same(n, y * a, 1)
  PROVE  x = y
<1>1. n \in Nat /\ n > 0 /\ x \in Int /\ y \in Int
  BY DEF Same
<1>2. Same(n, x * a, y * a)
  BY SameIsAnEquivalence
<1>3. Same(n, x, y)
  BY <1>1, <1>2, Cancel
<1>4. x \in Residues(n) /\ y \in Residues(n)
  BY <1>1 DEF Residues
<1>5. x % n = x /\ y % n = y
  BY <1>1, <1>4, ResidueOfResidue
<1> QED
  BY <1>3, <1>5 DEF Same

-----------------------------------------------------------------------------
(***************************************************************************)
(* Sums of sums, of multiples, and of equal residues                        *)
(***************************************************************************)
\* The terms of a sum, as a predicate that can be cited by its name.
IntegersOn(f, S) == \A x \in S : f[x] \in Int

\* SumTakesOutAny, for that predicate.
LEMMA SumOfIntegers ==
  ASSUME NEW S, IsFiniteSet(S), NEW f, IntegersOn(f, S)
  PROVE  /\ SumOver(f, {}) = 0
         /\ \A s \in SUBSET S : SumOver(f, s) \in Int
         /\ \A s \in SUBSET S : \A x \in s : SumOver(f, s) = f[x] + SumOver(f, s \ {x})
BY SumTakesOutAny DEF IntegersOn

\* h is c times f and d times g, and so is its sum.
Combination(h, c, f, d, g, S) ==
  /\ c \in Int /\ d \in Int /\ IntegersOn(f, S) /\ IntegersOn(g, S)
  /\ \A x \in S : h[x] = c * f[x] + d * g[x]

\* By taking out one element after the other.
LEMMA SumIsLinear ==
  ASSUME NEW S, IsFiniteSet(S), NEW f, NEW g, NEW h, NEW c, NEW d,
         Combination(h, c, f, d, g, S)
  PROVE  SumOver(h, S) = c * SumOver(f, S) + d * SumOver(g, S)
<1> DEFINE Good == {s \in SUBSET S : SumOver(h, s) = c * SumOver(f, s) + d * SumOver(g, s)}
<1>0. /\ c \in Int /\ d \in Int /\ IntegersOn(f, S) /\ IntegersOn(g, S)
      /\ \A x \in S : h[x] = c * f[x] + d * g[x]
  BY DEF Combination
<1>1. IntegersOn(h, S)
  <2>1. ASSUME NEW x \in S
        PROVE  h[x] \in Int
    <3>1. f[x] \in Int /\ g[x] \in Int /\ h[x] = c * f[x] + d * g[x]
      BY <1>0 DEF IntegersOn
    <3> QED
      BY <1>0, <3>1
  <2> QED
    BY <2>1 DEF IntegersOn
<1>2. /\ SumOver(f, {}) = 0
      /\ \A s \in SUBSET S : SumOver(f, s) \in Int
      /\ \A s \in SUBSET S : \A x \in s : SumOver(f, s) = f[x] + SumOver(f, s \ {x})
  BY <1>0, SumOfIntegers
<1>3. /\ SumOver(g, {}) = 0
      /\ \A s \in SUBSET S : SumOver(g, s) \in Int
      /\ \A s \in SUBSET S : \A x \in s : SumOver(g, s) = g[x] + SumOver(g, s \ {x})
  BY <1>0, SumOfIntegers
<1>4. /\ SumOver(h, {}) = 0
      /\ \A s \in SUBSET S : \A x \in s : SumOver(h, s) = h[x] + SumOver(h, s \ {x})
  BY <1>1, SumOfIntegers
<1>5. {} \in Good
  <2>1. SumOver(h, {}) = c * SumOver(f, {}) + d * SumOver(g, {})
    BY <1>0, <1>2, <1>3, <1>4
  <2> QED
    BY <2>1
<1>6. ASSUME NEW s \in SUBSET S, NEW x \in s, s \ {x} \in Good
      PROVE  s \in Good
  <2> DEFINE t == s \ {x}
  <2>1. /\ SumOver(f, s) = f[x] + SumOver(f, t) /\ SumOver(g, s) = g[x] + SumOver(g, t)
        /\ SumOver(h, s) = h[x] + SumOver(h, t)
        /\ SumOver(f, t) \in Int /\ SumOver(g, t) \in Int
    BY <1>2, <1>3, <1>4
  <2>2. SumOver(h, t) = c * SumOver(f, t) + d * SumOver(g, t)
    BY <1>6
  <2>3. h[x] = c * f[x] + d * g[x] /\ f[x] \in Int /\ g[x] \in Int
    BY <1>0 DEF IntegersOn
  <2> HIDE DEF t
  <2>4. ASSUME NEW fx \in Int, NEW gx \in Int, NEW ft \in Int, NEW gt \in Int
        PROVE  (c * fx + d * gx) + (c * ft + d * gt) = c * (fx + ft) + d * (gx + gt)
    BY <1>0
  <2>5. SumOver(h, s) = c * SumOver(f, s) + d * SumOver(g, s)
    BY <1>0, <2>1, <2>2, <2>3, <2>4
  <2> QED
    BY <2>5
<1>7. S \in Good
  <2> HIDE DEF Good
  <2>1. \A s \in SUBSET S : s \in Good
    BY <1>5, <1>6, ElementInduction
  <2> QED
    BY <2>1
<1> QED
  BY <1>7

\* Sums of equal residues are equal residues.
LEMMA SumsOfSame ==
  ASSUME NEW S, IsFiniteSet(S), NEW n \in Nat, n > 0, NEW f, NEW g,
         \A x \in S : Same(n, f[x], g[x])
  PROVE  Same(n, SumOver(f, S), SumOver(g, S))
<1> DEFINE Good == {s \in SUBSET S : Same(n, SumOver(f, s), SumOver(g, s))}
<1>1. ASSUME NEW e, \A x \in S : e[x] \in Int
      PROVE  /\ SumOver(e, {}) = 0
             /\ \A s \in SUBSET S : \A x \in s : SumOver(e, s) = e[x] + SumOver(e, s \ {x})
  BY <1>1, SumTakesOutAny
<1>2. (\A x \in S : f[x] \in Int) /\ (\A x \in S : g[x] \in Int)
  BY DEF Same
<1>3. {} \in Good
  <2>1. SumOver(f, {}) = 0 /\ SumOver(g, {}) = 0
    BY <1>1, <1>2
  <2>2. Same(n, SumOver(f, {}), SumOver(g, {}))
    BY <2>1, SameIsAnEquivalence
  <2> QED
    BY <2>2
<1>4. ASSUME NEW s \in SUBSET S, NEW x \in s, s \ {x} \in Good
      PROVE  s \in Good
  <2>1. /\ SumOver(f, s) = f[x] + SumOver(f, s \ {x})
        /\ SumOver(g, s) = g[x] + SumOver(g, s \ {x})
    BY <1>1, <1>2
  <2>2. Same(n, SumOver(f, s), SumOver(g, s))
    BY <1>4, <2>1, SameSums
  <2> QED
    BY <2>2
<1>5. S \in Good
  <2> HIDE DEF Good
  <2>1. \A s \in SUBSET S : s \in Good
    BY <1>3, <1>4, ElementInduction
  <2> QED
    BY <2>1
<1> QED
  BY <1>5

-----------------------------------------------------------------------------
(***************************************************************************)
(* Counting by voters or by ballots. Each of S has cast one of T, or none;   *)
(* w says what each of T is worth.                                          *)
(***************************************************************************)
Casting(S, T, none, cast, w) ==
  /\ IsFiniteSet(S) /\ IsFiniteSet(T) /\ none \notin T
  /\ cast \in [S -> T \cup {none}] /\ w \in [T -> Nat]

\* What each voter has cast is worth, and each ballot, by how many of W cast it.
Given(cast, w, S, none) == [v \in S |-> IF cast[v] = none THEN 0 ELSE w[cast[v]]]
Weighed(cast, w, T, W)  == [b \in T |-> Cardinality({v \in W : cast[v] = b}) * w[b]]

LEMMA WeighedType ==
  ASSUME NEW S, NEW T, NEW none, NEW cast, NEW w, Casting(S, T, none, cast, w),
         NEW W \in SUBSET S, NEW b \in T
  PROVE  /\ IsFiniteSet({v \in W : cast[v] = b})
         /\ Cardinality({v \in W : cast[v] = b}) \in Nat
         /\ w[b] \in Nat
         /\ Weighed(cast, w, T, W)[b] \in Nat
<1>0. IsFiniteSet(W) /\ {v \in W : cast[v] = b} \subseteq W
  BY FS_Subset DEF Casting
<1>1. IsFiniteSet({v \in W : cast[v] = b})
  BY <1>0, FS_Subset
<1>2. Cardinality({v \in W : cast[v] = b}) \in Nat
  BY <1>1, FS_CardinalityType
<1>3. w[b] \in Nat
  BY DEF Casting
<1> QED
  BY <1>1, <1>2, <1>3 DEF Weighed

\* One more voter: her ballot weighs what it gives the candidate, the others
\* what they did.
LEMMA OneMoreVoter ==
  ASSUME NEW S, NEW T, NEW none, NEW cast, NEW w, Casting(S, T, none, cast, w),
         NEW W \in SUBSET S, NEW x \in W
  PROVE  \A b \in T :
           Weighed(cast, w, T, W)[b] = Weighed(cast, w, T, W \ {x})[b]
                                      + (IF cast[x] = b THEN w[b] ELSE 0)
<1> SUFFICES ASSUME NEW b \in T
             PROVE  Weighed(cast, w, T, W)[b] = Weighed(cast, w, T, W \ {x})[b]
                      + (IF cast[x] = b THEN w[b] ELSE 0)
  OBVIOUS
<1> DEFINE with    == {v \in W : cast[v] = b}
           without == {v \in W \ {x} : cast[v] = b}
           n       == Cardinality(without)
           p       == w[b]
<1>1. /\ IsFiniteSet(with) /\ n \in Nat /\ p \in Nat
      /\ Weighed(cast, w, T, W)[b] = Cardinality(with) * p
      /\ Weighed(cast, w, T, W \ {x})[b] = n * p
  <2>1. IsFiniteSet(with) /\ p \in Nat
    BY WeighedType
  <2>2. \A U \in SUBSET S : Cardinality({v \in U : cast[v] = b}) \in Nat
    BY WeighedType
  <2>3. n \in Nat
    BY <2>2
  <2> QED
    BY <2>1, <2>3 DEF Weighed
<1>2. without = with \ {x}
  OBVIOUS
<1>3. CASE cast[x] = b
  <2>1. x \in with
    BY <1>3
  <2>2. n = Cardinality(with) - 1 /\ Cardinality(with) \in Nat
    <3> HIDE DEF with
    <3>1. Cardinality(with) \in Nat
      BY <1>1, FS_CardinalityType
    <3>2. Cardinality(with \ {x}) = Cardinality(with) - 1
      BY <1>1, <2>1, FS_RemoveElement
    <3> QED
      BY <1>2, <3>1, <3>2
  <2> HIDE DEF with, n, p
  <2>3. Cardinality(with) = n + 1
    BY <1>1, <2>2
  <2>4. (n + 1) * p = n * p + p
    BY <1>1
  <2> QED
    BY <1>1, <1>3, <2>3, <2>4 DEF p
<1>4. CASE cast[x] # b
  <2>1. without = with
    BY <1>4
  <2>2. Weighed(cast, w, T, W)[b] = n * p /\ Weighed(cast, w, T, W \ {x})[b] = n * p
    BY <1>1, <2>1
  <2> HIDE DEF n, p
  <2>3. n * p \in Nat
    BY <1>1
  <2> QED
    BY <1>4, <2>2, <2>3
<1> QED
  BY <1>3, <1>4

\* Both count the same: by induction over the voters.
LEMMA CountByKindOrByVoter ==
  ASSUME NEW S, NEW T, NEW none, NEW cast, NEW w, Casting(S, T, none, cast, w)
  PROVE  /\ Total(Weighed(cast, w, T, S)) = Total(Given(cast, w, S, none))
         /\ Total(Given(cast, w, S, none)) = SumOver(Given(cast, w, S, none), S)
<1> DEFINE P(W) == SumOver(Given(cast, w, S, none), W)
           Q(W) == SumOver(Weighed(cast, w, T, W), T)
           Good == {W \in SUBSET S : P(W) = Q(W)}
<1>1. IsFiniteSet(S) /\ IsFiniteSet(T)
  BY DEF Casting
<1>2. \A v \in S : Given(cast, w, S, none)[v] \in Nat
  BY DEF Casting, Given
<1>3. /\ P({}) = 0
      /\ \A s \in SUBSET S : \A x \in s : P(s) = Given(cast, w, S, none)[x] + P(s \ {x})
      /\ \A s \in SUBSET S : P(s) \in Nat
  <2>1. \A v \in S : Given(cast, w, S, none)[v] \in Int
    BY <1>2
  <2> QED
    BY <1>1, <1>2, <2>1, SumTakesOutAny, SumOfNaturals
<1> HIDE DEF P
<1>4. Q({}) = 0
  <2>1. \A b \in T : {v \in {} : cast[v] = b} = {}
    OBVIOUS
  <2>2. \A b \in T : Weighed(cast, w, T, {})[b] = 0 * w[b] /\ w[b] \in Nat
    BY <2>1, FS_EmptySet DEF Casting, Weighed
  <2>3. \A b \in T : Weighed(cast, w, T, {})[b] = 0
    BY <2>2
  <2> QED
    BY <1>1, <2>3, SumOfZeros
<1>4a. ASSUME NEW h, \A b \in T : h[b] \in Nat, NEW b \in T
      PROVE  SumOver(h, T) = h[b] + SumOver(h, T \ {b})
  <2>1. ASSUME NEW s \in SUBSET T, NEW y \in s
        PROVE  SumOver(h, s) = h[y] + SumOver(h, s \ {y})
    <3>1. \A z \in T : h[z] \in Int
      BY <1>4a
    <3> QED
      BY <1>1, <3>1, SumTakesOutAny
  <2> QED
    BY <2>1
<1>5. ASSUME NEW W \in SUBSET S, NEW x \in W
      PROVE  Q(W) = Given(cast, w, S, none)[x] + Q(W \ {x})
  <2> DEFINE f == Weighed(cast, w, T, W)
             g == Weighed(cast, w, T, W \ {x})
             rest == T \ {cast[x]}
  <2>1. \A b \in T : f[b] \in Nat /\ g[b] \in Nat
    BY WeighedType
  <2>2. \A b \in T : f[b] = g[b] + (IF cast[x] = b THEN w[b] ELSE 0)
    BY OneMoreVoter
  <2> HIDE DEF f, g
  <2>3. \A b \in rest : f[b] = g[b]
    BY <2>1, <2>2
  <2>4. SumOver(f, rest) = SumOver(g, rest)
    BY <2>3, SumsAgree
  <2>5. CASE cast[x] = none
    <3>1. rest = T
      BY <2>5 DEF Casting
    <3>2. Given(cast, w, S, none)[x] = 0
      BY <2>5 DEF Given
    <3>3. SumOver(g, T) \in Nat
      BY <1>1, <2>1, SumOfNaturals
    <3>4. SumOver(f, T) = SumOver(g, T)
      BY <2>4, <3>1
    <3>5. SumOver(f, T) = Given(cast, w, S, none)[x] + SumOver(g, T)
      BY <3>2, <3>3, <3>4
    <3> QED
      BY <3>5 DEF f, g
  <2>6. CASE cast[x] \in T
    <3> DEFINE b0 == cast[x]
    <3>1. SumOver(f, T) = f[b0] + SumOver(f, rest)
      BY <1>4a, <2>1, <2>6
    <3>2. SumOver(g, T) = g[b0] + SumOver(g, rest)
      BY <1>4a, <2>1, <2>6
    <3>3. Given(cast, w, S, none)[x] = w[b0] /\ w[b0] \in Nat
      BY <2>6 DEF Casting, Given
    <3>4. f[b0] = g[b0] + w[b0] /\ g[b0] \in Nat
      BY <2>1, <2>2, <2>6
    <3>5. SumOver(g, rest) \in Nat
      BY <1>1, <2>1, SumOfNaturals
    <3> QED
      BY <2>4, <3>1, <3>2, <3>3, <3>4, <3>5 DEF f, g
  <2> QED
    BY <2>5, <2>6 DEF Casting
<1> HIDE DEF Q
<1>6. ASSUME NEW W \in SUBSET S, \A V \in SUBSET W : V # W => V \in Good
      PROVE  W \in Good
  <2>1. CASE W = {}
    BY <1>3, <1>4, <2>1
  <2>2. CASE W # {}
    <3>1. PICK x \in W : TRUE
      BY <2>2
    <3>2. P(W \ {x}) = Q(W \ {x})
      BY <1>6, <3>1
    <3>3. P(W) = Q(W)
      BY <1>3, <1>5, <3>1, <3>2
    <3> QED
      BY <3>3
  <2> QED
    BY <2>1, <2>2
<1>7. \A W \in SUBSET S : W \in Good
  <2> HIDE DEF Good
  <2>1. \A W \in SUBSET S : (\A V \in SUBSET W : V # W => V \in Good) => W \in Good
    BY <1>6
  <2> QED
    BY <1>1, <2>1, SubsetInduction, Zenon
<1>8. P(S) = Q(S)
  BY <1>7
<1>9. Total(Weighed(cast, w, T, S)) = Q(S)
  <2>1. \A b \in T : Weighed(cast, w, T, S)[b] \in Nat
    BY WeighedType
  <2>2. Weighed(cast, w, T, S) \in [T -> Nat]
    BY <2>1 DEF Weighed
  <2> QED
    BY <2>2, TotalIsSum DEF Q
<1>10. Total(Given(cast, w, S, none)) = P(S)
  <2>1. Given(cast, w, S, none) \in [S -> Nat]
    BY <1>2 DEF Given
  <2> QED
    BY <2>1, TotalIsSum DEF P
<1> QED
  BY <1>8, <1>9, <1>10 DEF P

=============================================================================
