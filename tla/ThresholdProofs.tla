--------------------------- MODULE ThresholdProofs ---------------------------
(***************************************************************************)
(* The cryptography holds together: for every group, every number of trustees *)
(* and ballots below its order, every threshold, and whatever is drawn.      *)
(***************************************************************************)
EXTENDS Threshold, ArithmeticProofs

(***************************************************************************)
(* Powers of G. Everything that is published is one; X(e) is the one with   *)
(* the exponent e, an integer, and computing with them is computing with    *)
(* their exponents modulo Q.                                               *)
(***************************************************************************)
LEMMA SystemNumbers ==
  /\ P \in Nat /\ P > 2 /\ Q \in Nat /\ Q > 1 /\ Prime(Q) /\ G \in 2 .. P - 1
  /\ Exponents = Residues(Q)
BY SystemAssumption DEF Prime, Exponents, Residues

\* The modulus of the exponents may be divided by.
LEMMA ModulusIsNumber == Q \in Nat /\ Q > 0
BY SystemNumbers

\* Exp multiplies by the base once for each unit of the exponent.
LEMMA ExpStep ==
  ASSUME NEW b \in 0 .. P - 1
  PROVE  /\ \A e \in 0 .. Q : Exp(b, e) \in 0 .. P - 1
         /\ Exp(b, 0) = 1
         /\ \A e \in 1 .. Q : Exp(b, e) = (Exp(b, e - 1) * b) % P
<1> DEFINE D      == 0 .. Q
           V      == 0 .. P - 1
           rank   == [e \in D |-> e]
           before == [e \in D |-> IF e = 0 THEN 0 ELSE e - 1]
           base   == [e \in D |-> 1]
           step   == [d \in D \X V |-> (d[2] * b) % P]
           Powered(g) == g = [e \in D |-> IF e = 0 THEN 1 ELSE (g[e - 1] * b) % P]
<1>1. P \in Nat /\ P > 2 /\ Q \in Nat /\ Q > 1
  BY SystemNumbers
<1>2. Recursive(D, V, rank, before, base, step, Q)
  <2>1. rank \in [D -> Nat] /\ before \in [D -> D] /\ base \in [D -> V]
    BY <1>1
  <2>2. ASSUME NEW d \in D \X V
        PROVE  (d[2] * b) % P \in V
    <3>1. d[2] \in Int /\ b \in Int /\ P > 0
      BY <1>1
    <3>2. d[2] * b \in Int
      BY <3>1
    <3> QED
      BY <1>1, <3>1, <3>2, Division DEF Residues
  <2>3. step \in [D \X V -> V]
    BY <2>2
  <2>4. \A d \in D : rank[d] <= Q
    BY <1>1
  <2>5. \A d \in D : rank[d] # 0 => rank[before[d]] = rank[d] - 1
    BY <1>1
  <2> HIDE DEF rank, before, base, step, D, V
  <2> QED
    BY <1>1, <2>1, <2>3, <2>4, <2>5 DEF Recursive
<1>3. PICK g : Solves(D, V, rank, before, base, step, g)
  <2> HIDE DEF D, V, rank, before, base, step
  <2> QED
    BY <1>2, RecursiveFunctionExists
<1>4. g \in [D -> V] /\ \A e \in D : g[e] = IF e = 0 THEN 1 ELSE (g[e - 1] * b) % P
  <2>1. g \in [D -> V]
    BY <1>3 DEF Solves
  <2>2. ASSUME NEW e \in D
        PROVE  g[e] = IF e = 0 THEN 1 ELSE (g[e - 1] * b) % P
    <3>1. g[e] = IF rank[e] = 0 THEN base[e] ELSE step[<<e, g[before[e]]>>]
      BY <1>3 DEF Solves
    <3>2. CASE e = 0
      BY <3>1, <3>2
    <3>3. CASE e # 0
      <4>1. before[e] = e - 1 /\ e - 1 \in D
        BY <1>1, <3>3
      <4>2. g[e - 1] \in V
        BY <2>1, <4>1
      <4>3. step[<<e, g[e - 1]>>] = (g[e - 1] * b) % P
        BY <4>2
      <4>4. rank[e] # 0
        BY <3>3
      <4> HIDE DEF step, before, rank
      <4> QED
        BY <3>1, <3>3, <4>1, <4>3, <4>4
    <3> QED
      BY <3>2, <3>3
  <2> QED
    BY <2>1, <2>2
<1>5. Powered(g)
  BY <1>4
<1> DEFINE h == CHOOSE k : Powered(k)
<1>6. Powered(h)
  <2> HIDE DEF Powered
  <2> QED
    BY <1>5, Zenon
<1>7. \A e \in D : Exp(b, e) = h[e]
  BY DEF Exp, Power
<1> DEFINE Good == {n \in Nat : n \in D => h[n] = g[n]}
<1> HIDE DEF h
<1>8. \A n \in Nat : n \in Good
  <2>1. 0 \in Good
    BY <1>4, <1>6
  <2>2. ASSUME NEW n \in Nat, n \in Good
        PROVE  n + 1 \in Good
    <3>1. CASE n + 1 \in D
      <4>1. n \in D /\ (n + 1) - 1 = n /\ n + 1 # 0
        BY <1>1, <3>1
      <4>2. h[n + 1] = (h[n] * b) % P /\ g[n + 1] = (g[n] * b) % P
        BY <1>4, <1>6, <3>1, <4>1
      <4>3. h[n + 1] = g[n + 1]
        BY <2>2, <4>1, <4>2
      <4> QED
        BY <4>3
    <3> QED
      BY <3>1
  <2> HIDE DEF Good
  <2> QED
    BY <2>1, <2>2, NumberInduction
<1>9. \A e \in D : Exp(b, e) = g[e]
  <2>1. \A e \in D : e \in Nat
    BY <1>1
  <2> QED
    BY <1>7, <1>8, <2>1
<1>10. \A e \in 1 .. Q : e \in D /\ e - 1 \in D /\ e # 0
  BY <1>1
<1>11. 0 \in D
  BY <1>1
<1> HIDE DEF D
<1> QED
  BY <1>4, <1>9, <1>10, <1>11 DEF D

X(e) == Exp(G, e % Q)

\* A power is a residue modulo P.
LEMMA XType ==
  \A e \in Int : X(e) \in Residues(P) /\ X(e) \in Int /\ X(e) \in 0 .. P - 1
<1> SUFFICES ASSUME NEW e \in Int
             PROVE  X(e) \in Residues(P) /\ X(e) \in Int /\ X(e) \in 0 .. P - 1
  OBVIOUS
<1>1. P \in Nat /\ P > 2 /\ Q \in Nat /\ Q > 1 /\ G \in 0 .. P - 1
  BY SystemNumbers
<1>2. e % Q \in 0 .. Q
  BY <1>1, Division DEF Residues
<1>3. X(e) \in 0 .. P - 1
  BY <1>1, <1>2, ExpStep DEF X
<1> QED
  BY <1>1, <1>3 DEF Residues

\* Powers one after the other; for the exponents that Exp takes, X is Exp.
LEMMA XSteps ==
  /\ X(0) = 1 /\ X(1) = G
  /\ \A e \in Int : X(e + 1) = (X(e) * G) % P
  /\ \A e \in 0 .. Q : Exp(G, e) = X(e)
<1>1. P \in Nat /\ P > 2 /\ Q \in Nat /\ Q > 1 /\ G \in 2 .. P - 1 /\ G \in 0 .. P - 1
  BY SystemNumbers
<1>2. /\ \A e \in 0 .. Q : Exp(G, e) \in 0 .. P - 1
      /\ Exp(G, 0) = 1
      /\ \A e \in 1 .. Q : Exp(G, e) = (Exp(G, e - 1) * G) % P
  BY <1>1, ExpStep
<1>3. \A e \in 0 .. Q - 1 : e % Q = e
  BY <1>1, ResidueOfResidue DEF Residues
<1>4. \A e \in Int : e % Q \in 0 .. Q - 1
  BY <1>1, Division DEF Residues
<1>6. X(0) = 1
  BY <1>1, <1>2, <1>3 DEF X
<1>7. X(1) = G
  <2>1. X(1) = Exp(G, 1) /\ Exp(G, 1) = (Exp(G, 0) * G) % P
    BY <1>1, <1>2, <1>3 DEF X
  <2>2. Exp(G, 0) * G = G /\ G \in Residues(P)
    BY <1>1, <1>2 DEF Residues
  <2>3. G % P = G
    BY <1>1, <2>2, ResidueOfResidue
  <2> QED
    BY <2>1, <2>2, <2>3
<1>8. Q % Q = 0
  <2>1. Apart(Q, Q, 0, 1)
    BY <1>1 DEF Apart
  <2>2. Same(Q, Q, 0)
    BY <2>1, ApartAreSame
  <2> QED
    BY <1>1, <1>3, <2>2 DEF Same
<1>9. \A e \in 0 .. Q : Exp(G, e) = X(e)
  <2>1. ASSUME NEW e \in 0 .. Q
        PROVE  Exp(G, e) = X(e)
    <3>1. CASE e = Q
      BY <1>2, <1>8, <3>1, GeneratorAssumption DEF X
    <3>2. CASE e # Q
      BY <1>1, <1>3, <3>2 DEF X
    <3> QED
      BY <3>1, <3>2
  <2> QED
    BY <2>1
<1>10. ASSUME NEW e \in Int
       PROVE  X(e + 1) = (X(e) * G) % P
  <2> DEFINE r == e % Q
  <2>1. r \in 0 .. Q - 1 /\ r + 1 \in 1 .. Q /\ r + 1 \in 0 .. Q /\ (r + 1) - 1 = r
    BY <1>1, <1>4
  <2>2. Same(Q, e + 1, r + 1)
    <3>1. Same(Q, r, e) /\ Same(Q, 1, 1)
      BY <1>1, ResidueOfResidue, SameIsAnEquivalence
    <3>2. Same(Q, r + 1, e + 1)
      BY <3>1, SameSums
    <3> QED
      BY <3>2, SameIsAnEquivalence
  <2>3. X(e + 1) = X(r + 1)
    BY <2>2 DEF X, Same
  <2>4. X(r + 1) = Exp(G, r + 1) /\ X(e) = Exp(G, r)
    BY <1>9, <2>1 DEF X
  <2> HIDE DEF r
  <2>5. Exp(G, r + 1) = (Exp(G, r) * G) % P
    BY <1>2, <2>1
  <2> QED
    BY <2>3, <2>4, <2>5
<1> QED
  BY <1>6, <1>7, <1>9, <1>10

\* Products of powers are sums of exponents; the exponents count modulo Q.
LEMMA XAdd ==
  /\ \A e \in Int, f \in Int : (X(e) * X(f)) % P = X(e + f)
  /\ \A e, f : Same(Q, e, f) => X(e) = X(f)
<1>1. P \in Nat /\ P > 2 /\ P > 0 /\ Q \in Nat /\ Q > 0 /\ G \in Int
  BY SystemNumbers
<1>2. \A e \in Int : X(e) \in Residues(P) /\ X(e) \in Int
  BY XType
<1>3. \A e, f : Same(Q, e, f) => X(e) = X(f)
  BY DEF X, Same
<1>4. ASSUME NEW e \in Int
      PROVE  \A n \in Nat : (X(e) * X(n)) % P = X(e + n)
  <2> DEFINE Good == {n \in Nat : (X(e) * X(n)) % P = X(e + n)}
  <2>1. 0 \in Good
    <3>1. X(e) * X(0) = X(e) /\ e + 0 = e
      BY <1>2, XSteps
    <3>2. X(e) % P = X(e)
      BY <1>1, <1>2, ResidueOfResidue
    <3> QED
      BY <3>1, <3>2
  <2>2. ASSUME NEW n \in Nat, n \in Good
        PROVE  n + 1 \in Good
    <3> DEFINE a == X(e)
               b == X(n)
    <3>1. a \in Int /\ b \in Int /\ (a * b) % P = X(e + n) /\ a * b \in Int /\ b * G \in Int
      BY <1>1, <1>2, <2>2
    <3>2. X(n + 1) = (b * G) % P /\ X((e + n) + 1) = (X(e + n) * G) % P
      BY XSteps
    <3>3. (e + n) + 1 = e + (n + 1)
      OBVIOUS
    <3> HIDE DEF a, b
    <3>4. Same(P, (a * b) % P, a * b) /\ Same(P, (b * G) % P, b * G)
      BY <1>1, <3>1, ResidueOfResidue
    <3>5. Same(P, G, G) /\ Same(P, a, a)
      BY <1>1, <3>1, SameIsAnEquivalence
    <3>6. Same(P, ((a * b) % P) * G, (a * b) * G) /\ Same(P, a * ((b * G) % P), a * (b * G))
      BY <3>4, <3>5, SameProducts
    <3>7. (a * b) * G = a * (b * G)
      BY <1>1, <3>1
    <3>8. (a * ((b * G) % P)) % P = (((a * b) % P) * G) % P
      BY <3>6, <3>7 DEF Same
    <3>9. (a * X(n + 1)) % P = X(e + (n + 1))
      BY <3>1, <3>2, <3>3, <3>8
    <3> QED
      BY <3>9 DEF a
  <2> HIDE DEF Good
  <2>3. \A n \in Nat : n \in Good
    BY <2>1, <2>2, NumberInduction
  <2> QED
    BY <2>3 DEF Good
<1>5. ASSUME NEW e \in Int, NEW f \in Int
      PROVE  (X(e) * X(f)) % P = X(e + f)
  <2> DEFINE r == f % Q
  <2>1. r \in Nat
    BY <1>1, Division DEF Residues
  <2>2. Same(Q, r, f) /\ Same(Q, e, e)
    BY <1>1, ResidueOfResidue, SameIsAnEquivalence
  <2> HIDE DEF r
  <2>3. Same(Q, e + r, e + f)
    BY <2>2, SameSums
  <2>4. X(f) = X(r) /\ X(e + r) = X(e + f)
    BY <1>3, <2>2, <2>3
  <2>5. (X(e) * X(r)) % P = X(e + r)
    BY <1>4, <2>1
  <2> QED
    BY <2>4, <2>5
<1> QED
  BY <1>3, <1>5

\* What Exp and Over make of powers of G.
LEMMA XPowers ==
  /\ \A e \in Int : X(e) \in 1 .. P - 1
  /\ \A e \in Int : \A k \in 0 .. Q : Exp(X(e), k) = X(e * k)
  /\ \A e \in Int : \A f \in Int : Over(X(e), X(f)) = X(e - f)
  /\ \A m \in 0 .. P - 1 : \A e \in Int : Over((m * X(e)) % P, X(e)) = m
<1>1. P \in Nat /\ P > 2 /\ P > 0 /\ Q \in Nat /\ Q > 0
  BY SystemNumbers
<1>2. \A e \in Int : X(e) \in Residues(P) /\ X(e) \in Int /\ X(e) \in 0 .. P - 1
  BY XType
<1>3. ASSUME NEW e \in Int
      PROVE  X(e) \in 1 .. P - 1
  <2>1. (X(e) * X(-e)) % P = 1
    <3>1. -e \in Int /\ e + (-e) = 0
      OBVIOUS
    <3> QED
      BY <3>1, XAdd, XSteps
  <2>2. CASE X(e) = 0
    <3>1. X(e) * X(-e) = 0
      BY <1>2, <2>2
    <3>2. 0 % P = 0
      BY <1>1, ResidueOfResidue DEF Residues
    <3> QED
      BY <2>1, <3>1, <3>2
  <2> QED
    BY <1>1, <1>2, <2>2
<1>4. ASSUME NEW e \in Int
      PROVE  \A k \in 0 .. Q : Exp(X(e), k) = X(e * k)
  <2> DEFINE Good == {k \in Nat : k <= Q => Exp(X(e), k) = X(e * k)}
  <2>1. /\ Exp(X(e), 0) = 1
        /\ \A k \in 1 .. Q : Exp(X(e), k) = (Exp(X(e), k - 1) * X(e)) % P
    BY <1>2, ExpStep
  <2>2. 0 \in Good
    BY <2>1, XSteps
  <2>3. ASSUME NEW k \in Nat, k \in Good
        PROVE  k + 1 \in Good
    <3>1. CASE k + 1 <= Q
      <4>1. Exp(X(e), k) = X(e * k)
        BY <1>1, <2>3, <3>1
      <4>2. Exp(X(e), k + 1) = (Exp(X(e), k) * X(e)) % P
        BY <1>1, <2>1, <3>1
      <4>3. e * k \in Int /\ e * k + e = e * (k + 1)
        OBVIOUS
      <4>4. (X(e * k) * X(e)) % P = X(e * k + e)
        BY <4>3, XAdd
      <4> QED
        BY <4>1, <4>2, <4>3, <4>4
    <3> QED
      BY <3>1
  <2> HIDE DEF Good
  <2>4. \A k \in Nat : k \in Good
    BY <2>2, <2>3, NumberInduction
  <2> QED
    BY <1>1, <2>4 DEF Good
<1>5. ASSUME NEW f \in Int
      PROVE  ModInverse(X(f), P) = X(-f)
  <2> DEFINE Inverts(x) == x \in 1 .. P - 1 /\ (x * X(f)) % P = 1
             i          == ModInverse(X(f), P)
  <2>1. -f \in Int /\ (-f) + f = 0
    OBVIOUS
  <2>2. Inverts(X(-f))
    BY <1>3, <2>1, XAdd, XSteps
  <2>3. Inverts(i)
    BY <2>2 DEF ModInverse
  <2>4. ASSUME NEW x, Inverts(x)
        PROVE  Same(P, x * X(f), 1)
    <3>1. x \in Int /\ X(f) \in Int /\ 1 \in Residues(P)
      BY <1>1, <1>2, <2>4 DEF Residues
    <3>2. x * X(f) \in Int /\ 1 % P = 1
      BY <1>1, <3>1, ResidueOfResidue
    <3> QED
      BY <1>1, <2>4, <3>2 DEF Same
  <2>5. Same(P, i * X(f), 1) /\ Same(P, X(-f) * X(f), 1)
    BY <2>2, <2>3, <2>4
  <2>6. i \in 1 .. P - 1 /\ X(-f) \in 1 .. P - 1
    BY <2>2, <2>3
  <2> HIDE DEF i
  <2>7. i = X(-f)
    BY <1>2, <2>5, <2>6, InverseIsUnique
  <2> QED
    BY <2>7 DEF i
<1>6. ASSUME NEW e \in Int, NEW f \in Int
      PROVE  Over(X(e), X(f)) = X(e - f)
  <2>1. -f \in Int /\ e + (-f) = e - f
    OBVIOUS
  <2> QED
    BY <1>5, <2>1, XAdd DEF Over
<1>7. ASSUME NEW m \in 0 .. P - 1, NEW e \in Int
      PROVE  Over((m * X(e)) % P, X(e)) = m
  <2> DEFINE a == X(e)
             b == X(-e)
  <2>1. -e \in Int /\ e + (-e) = 0 /\ m \in Int /\ m \in Residues(P)
    BY <1>1 DEF Residues
  <2>2. a \in Int /\ b \in Int /\ (a * b) % P = 1
    BY <1>2, <2>1, XAdd, XSteps
  <2>3. Over((m * a) % P, a) = (((m * a) % P) * b) % P
    BY <1>5 DEF Over
  <2> HIDE DEF a, b
  <2>4. m * a \in Int /\ a * b \in Int /\ (m * a) * b = m * (a * b) /\ m * 1 = m
    BY <2>1, <2>2
  <2>5. Same(P, (m * a) % P, m * a) /\ Same(P, (a * b) % P, a * b)
        /\ Same(P, b, b) /\ Same(P, m, m)
    BY <1>1, <2>1, <2>2, <2>4, ResidueOfResidue, SameIsAnEquivalence
  <2>6. Same(P, ((m * a) % P) * b, (m * a) * b) /\ Same(P, m * ((a * b) % P), m * (a * b))
    BY <2>5, SameProducts
  <2>7. (((m * a) % P) * b) % P = m % P
    BY <2>2, <2>4, <2>6 DEF Same
  <2>8. m % P = m
    BY <1>1, <2>1, ResidueOfResidue
  <2>9. Over((m * a) % P, a) = m
    BY <2>3, <2>7, <2>8
  <2> QED
    BY <2>9 DEF a
<1> QED
  BY <1>3, <1>4, <1>6, <1>7

\* A number has an inverse modulo Q unless it is a multiple of Q.
LEMMA InverseModQ ==
  ASSUME NEW a \in 1 .. Q - 1
  PROVE  ModInverse(a, Q) \in 1 .. Q - 1 /\ Same(Q, ModInverse(a, Q) * a, 1)
<1> DEFINE Inverts(x) == x \in 1 .. Q - 1 /\ (x * a) % Q = 1
<1>1. Q \in Nat /\ Q > 1 /\ Q > 0 /\ Prime(Q)
  BY SystemNumbers
<1>2. 1 \in Residues(Q)
  BY <1>1 DEF Residues
<1>3. 1 % Q = 1
  BY <1>1, <1>2, ResidueOfResidue
<1>4. PICK x \in 1 .. Q - 1 : Same(Q, x * a, 1)
  BY <1>1, InversesExist
<1>5. Inverts(x)
  BY <1>3, <1>4 DEF Same
<1>6. Inverts(ModInverse(a, Q))
  BY <1>5 DEF ModInverse
<1>7. \A y \in 1 .. Q - 1 : y * a \in Int
  BY <1>1
<1> QED
  BY <1>1, <1>3, <1>6, <1>7 DEF Same

\* Different exponents, different powers: the order of G is Q.
LEMMA XInjective ==
  ASSUME NEW e \in Int, NEW f \in Int, X(e) = X(f)
  PROVE  Same(Q, e, f)
<1>1. P \in Nat /\ P > 2 /\ Q \in Nat /\ Q > 1 /\ Q > 0 /\ G \in 2 .. P - 1
  BY SystemNumbers
<1> DEFINE d == (e - f) % Q
<1>2. e - f \in Int /\ f - f = 0 /\ e - f + f = e /\ 0 + f = f
  OBVIOUS
<1>3. d \in 0 .. Q - 1 /\ Same(Q, d, e - f)
  BY <1>1, <1>2, Division, ResidueOfResidue DEF Residues
<1>4. X(d) = 1
  <2>1. X(e - f) = Over(X(e), X(f)) /\ X(f - f) = Over(X(f), X(f))
    BY XPowers
  <2>2. X(d) = X(e - f)
    BY <1>3, XAdd
  <2> QED
    BY <1>2, <2>1, <2>2, XSteps
<1> HIDE DEF d
<1>5. d = 0
  <2> SUFFICES ASSUME d # 0
               PROVE  FALSE
    OBVIOUS
  <2>1. d \in 1 .. Q - 1
    BY <1>1, <1>3
  <2> DEFINE k == ModInverse(d, Q)
  <2>2. k \in 1 .. Q - 1 /\ Same(Q, k * d, 1)
    BY <2>1, InverseModQ
  <2> HIDE DEF k
  <2>3. k \in 0 .. Q /\ k \in Int /\ d \in Int /\ d * k = k * d /\ 0 * k = 0
    BY <1>1, <2>1, <2>2
  <2>4. Exp(X(d), k) = X(d * k) /\ Exp(X(0), k) = X(0 * k)
    BY <2>3, XPowers
  <2>5. X(k * d) = X(1)
    BY <2>2, XAdd
  <2>6. X(0) = 1 /\ X(1) = G
    BY XSteps
  <2>7. G = 1
    BY <1>4, <2>3, <2>4, <2>5, <2>6
  <2> QED
    BY <1>1, <2>7
<1>6. Same(Q, 0, e - f) /\ Same(Q, f, f)
  BY <1>1, <1>3, <1>5, SameIsAnEquivalence
<1>7. Same(Q, 0 + f, (e - f) + f)
  BY <1>6, SameSums
<1> QED
  BY <1>2, <1>7, SameIsAnEquivalence

\* A product of powers.
LEMMA ProductOfPowers ==
  ASSUME NEW S, IsFiniteSet(S), NEW g, IntegersOn(g, S), NEW f, \A j \in S : f[j] = X(g[j])
  PROVE  ProductOver(f, S, P) = X(SumOver(g, S))
<1> DEFINE Good == {s \in SUBSET S : ProductOver(f, s, P) = X(SumOver(g, s))}
<1>1. P \in Nat /\ P > 1
  BY SystemNumbers
<1>2. \A j \in S : f[j] \in Residues(P)
  BY XType DEF IntegersOn
<1>3. /\ ProductOver(f, {}, P) = 1
      /\ \A s \in SUBSET S : \A x \in s :
           ProductOver(f, s, P) = (f[x] * ProductOver(f, s \ {x}, P)) % P
  BY <1>1, <1>2, ProductTakesOutAny
<1>4. /\ SumOver(g, {}) = 0
      /\ \A s \in SUBSET S : SumOver(g, s) \in Int
      /\ \A s \in SUBSET S : \A x \in s : SumOver(g, s) = g[x] + SumOver(g, s \ {x})
  BY SumOfIntegers
<1>5. {} \in Good
  BY <1>3, <1>4, XSteps
<1>6. ASSUME NEW s \in SUBSET S, NEW x \in s, s \ {x} \in Good
      PROVE  s \in Good
  <2>1. ProductOver(f, s, P) = (X(g[x]) * X(SumOver(g, s \ {x}))) % P
    BY <1>3, <1>6
  <2>2. g[x] \in Int /\ SumOver(g, s \ {x}) \in Int
    BY <1>4 DEF IntegersOn
  <2>3. ProductOver(f, s, P) = X(g[x] + SumOver(g, s \ {x}))
    BY <2>1, <2>2, XAdd
  <2> QED
    BY <1>4, <2>3
<1>7. S \in Good
  <2> HIDE DEF Good
  <2>1. \A s \in SUBSET S : s \in Good
    BY <1>5, <1>6, ElementInduction
  <2> QED
    BY <2>1
<1> QED
  BY <1>7

\* The order of the group is less than the modulus.
LEMMA OrderBelowModulus == Q < P
<1>1. P \in Nat /\ P > 2 /\ Q \in Nat /\ Q > 1 /\ (P - 1) % Q = 0
  BY SystemNumbers, SystemAssumption
<1> SUFFICES ASSUME P - 1 < Q
             PROVE  FALSE
  BY <1>1
<1>2. P - 1 \in Residues(Q) /\ P - 1 # 0
  BY <1>1 DEF Residues
<1>3. (P - 1) % Q = P - 1
  BY <1>1, <1>2, ResidueOfResidue
<1> QED
  BY <1>1, <1>2, <1>3

-----------------------------------------------------------------------------
(***************************************************************************)
(* Shares. The loop of CreateSecretShare computes h[n] = c_n + i * h[n + 1],   *)
(* from the highest coefficient down; h[0] is the value of the polynomial.    *)
(***************************************************************************)
Horner(p, i, h) ==
  /\ h \in [Powers -> Residues(Q)]
  /\ Same(Q, h[T], p[T])
  /\ \A n \in 0 .. T - 1 : Same(Q, h[n], h[n + 1] * i + p[n])

\* What the assumptions say of the indices of trustees and coefficients.
LEMMA ThresholdNumbers ==
  /\ L \in Nat /\ T \in Nat /\ T < L /\ L < Q /\ Powers = 0 .. T /\ Trustees = 1 .. L
  /\ IsFiniteSet(Trustees) /\ IsFiniteSet(Powers)
  /\ \A i \in Trustees : i \in Int /\ i \in Residues(Q)
<1>1. L \in Nat /\ T \in Nat /\ T < L /\ L < Q /\ Q \in Nat
  BY ThresholdAssumption, SystemNumbers
<1>2. IsFiniteSet(1 .. L) /\ IsFiniteSet(0 .. T)
  BY <1>1, FS_Interval
<1> QED
  BY <1>1, <1>2 DEF Powers, Trustees, Residues

\* The coefficients of a trustee that has drawn them.
LEMMA Coefficients ==
  ASSUME NEW p \in Polynomials
  PROVE  \A k \in Powers : p[k] \in Residues(Q) /\ p[k] \in Int /\ p[k] \in 0 .. Q
<1> SUFFICES ASSUME NEW k \in Powers
             PROVE  p[k] \in Residues(Q) /\ p[k] \in Int /\ p[k] \in 0 .. Q
  OBVIOUS
<1>1. p[k] \in Exponents /\ Exponents = Residues(Q) /\ Q \in Nat
  BY SystemNumbers, DrawnAssumption DEF Polynomials
<1> QED
  BY <1>1 DEF Residues

\* The loop of CreateSecretShare has intermediate values, and ends in the share.
LEMMA ShareByHorner ==
  ASSUME NEW j \in Trustees, NEW i \in Trustees, coeffs[j] \in Polynomials
  PROVE  \E h : Horner(coeffs[j], i, h) /\ CreateSecretShare(j, i) = h[0]
<1> DEFINE p      == coeffs[j]
           V      == Residues(Q)
           rank   == [n \in Powers |-> T - n]
           before == [n \in Powers |-> IF n = T THEN T ELSE n + 1]
           base   == [n \in Powers |-> p[n] % Q]
           step   == [d \in Powers \X V |-> (d[2] * i + p[d[1]]) % Q]
           Computed(g) == g = [n \in Powers |-> IF n = T THEN p[n] % Q
                                               ELSE (g[n + 1] * i + p[n]) % Q]
<1>1. Q \in Nat /\ Q > 0 /\ T \in Nat /\ Powers = 0 .. T /\ i \in Int
  BY SystemNumbers, ThresholdNumbers
<1>2. \A k \in Powers : p[k] \in Int
  BY Coefficients
<1> HIDE DEF p
<1>3. ASSUME NEW n \in Powers, NEW v \in V
      PROVE  (v * i + p[n]) % Q \in V /\ Same(Q, (v * i + p[n]) % Q, v * i + p[n])
  <2>1. v \in Int
    BY <1>1 DEF Residues
  <2>2. v * i \in Int
    BY <1>1, <2>1
  <2>3. v * i + p[n] \in Int
    BY <1>2, <2>2
  <2> QED
    BY <1>1, <2>3, Division, ResidueOfResidue
<1>4. ASSUME NEW n \in Powers
      PROVE  p[n] % Q \in V /\ Same(Q, p[n] % Q, p[n])
  BY <1>1, <1>2, Division, ResidueOfResidue
<1>5. Recursive(Powers, V, rank, before, base, step, T)
  <2>1. rank \in [Powers -> Nat] /\ before \in [Powers -> Powers]
    BY <1>1
  <2>2. base \in [Powers -> V]
    BY <1>4
  <2>3. step \in [Powers \X V -> V]
    BY <1>3
  <2>4. \A d \in Powers : rank[d] <= T /\ (rank[d] # 0 => rank[before[d]] = rank[d] - 1)
    BY <1>1
  <2> HIDE DEF rank, before, base, step, V
  <2> QED
    BY <1>1, <2>1, <2>2, <2>3, <2>4 DEF Recursive
<1>6. PICK g : Solves(Powers, V, rank, before, base, step, g)
  <2> HIDE DEF V, rank, before, base, step
  <2> QED
    BY <1>5, RecursiveFunctionExists
<1>7. Computed(g)
  <2>1. g \in [Powers -> V]
    BY <1>6 DEF Solves
  <2>2. ASSUME NEW n \in Powers
        PROVE  g[n] = IF n = T THEN p[n] % Q ELSE (g[n + 1] * i + p[n]) % Q
    <3>1. g[n] = IF rank[n] = 0 THEN base[n] ELSE step[<<n, g[before[n]]>>]
      BY <1>6 DEF Solves
    <3>2. CASE n = T
      BY <1>1, <3>1, <3>2
    <3>3. CASE n # T
      <4>1. before[n] = n + 1 /\ n + 1 \in Powers /\ rank[n] # 0
        BY <1>1, <3>3
      <4>2. g[n + 1] \in V
        BY <2>1, <4>1
      <4>3. step[<<n, g[n + 1]>>] = (g[n + 1] * i + p[n]) % Q
        BY <4>2
      <4> HIDE DEF step, before, rank
      <4> QED
        BY <3>1, <3>3, <4>1, <4>3
    <3> QED
      BY <3>2, <3>3
  <2> QED
    BY <2>1, <2>2
<1> DEFINE h == CHOOSE k : Computed(k)
<1>8. Computed(h)
  <2> HIDE DEF Computed
  <2> QED
    BY <1>7, Zenon
<1>9. CreateSecretShare(j, i) = h[0]
  BY DEF CreateSecretShare, p
<1> HIDE DEF h
<1>10. h = [n \in Powers |-> h[n]]
  BY <1>8
<1>11. \A n \in Powers : h[n] = IF n = T THEN p[n] % Q ELSE (h[n + 1] * i + p[n]) % Q
  BY <1>8
<1> DEFINE Good == {m \in Nat : m <= T => h[T - m] \in V}
<1>12. \A n \in Powers : h[n] \in V
  <2>1. 0 \in Good
    BY <1>1, <1>4, <1>11
  <2>2. ASSUME NEW m \in Nat, m \in Good
        PROVE  m + 1 \in Good
    <3> SUFFICES ASSUME m + 1 <= T
                 PROVE  h[T - (m + 1)] \in V
      OBVIOUS
    <3>1. m <= T /\ T - (m + 1) \in Powers /\ T - (m + 1) # T /\ (T - (m + 1)) + 1 = T - m
      BY <1>1
    <3>2. h[T - m] \in V
      BY <2>2, <3>1
    <3>3. h[T - (m + 1)] = (h[T - m] * i + p[T - (m + 1)]) % Q
      BY <1>11, <3>1
    <3> QED
      BY <1>3, <3>1, <3>2, <3>3
  <2>3. \A m \in Nat : m \in Good
    <3> HIDE DEF Good
    <3> QED
      BY <2>1, <2>2, NumberInduction
  <2>4. \A n \in Powers : T - n \in Nat /\ T - n <= T /\ T - (T - n) = n
    BY <1>1
  <2> QED
    BY <2>3, <2>4
<1>13. h \in [Powers -> Residues(Q)]
  BY <1>10, <1>12
<1>14. Same(Q, h[T], p[T])
  BY <1>1, <1>4, <1>11
<1>15. ASSUME NEW n \in 0 .. T - 1
       PROVE  Same(Q, h[n], h[n + 1] * i + p[n])
  <2>1. n \in Powers /\ n + 1 \in Powers /\ n # T
    BY <1>1
  <2>2. h[n] = (h[n + 1] * i + p[n]) % Q /\ h[n + 1] \in V
    BY <1>11, <1>12, <2>1
  <2> QED
    BY <1>3, <2>1, <2>2
<1>16. Horner(p, i, h)
  BY <1>13, <1>14, <1>15 DEF Horner
<1> QED
  BY <1>9, <1>16 DEF p

\* The powers of an index, one after the other.
LEMMA IndexPowers ==
  ASSUME NEW i \in Trustees
  PROVE  /\ \A k \in Nat : IndexPower(i, k) \in Residues(Q) /\ IndexPower(i, k) \in Int
         /\ IndexPower(i, 0) = 1
         /\ \A k \in Nat : Same(Q, IndexPower(i, k + 1), i * IndexPower(i, k))
<1>1. Q \in Nat /\ Q > 0 /\ Q > 1 /\ i \in Residues(Q) /\ i \in Int
  BY SystemNumbers, ThresholdNumbers
<1> DEFINE all == [n \in Nat |-> i]
<1>2. \A n \in Nat : all[n] = i
  OBVIOUS
<1>3. ASSUME NEW k \in Nat
      PROVE  /\ IsFiniteSet(1 .. k) /\ 1 .. k \subseteq Nat
             /\ IndexPower(i, k) = ProductOver(all, 1 .. k, Q)
  <2>1. IsFiniteSet(1 .. k) /\ 1 .. k \subseteq Nat
    BY FS_Interval
  <2>2. [n \in 1 .. k |-> all[n]] = [n \in 1 .. k |-> i]
    BY <1>2, <2>1
  <2> HIDE DEF all
  <2> QED
    BY <2>1, <2>2 DEF IndexPower, ProductOver
<1> HIDE DEF all
<1>4. ASSUME NEW k \in Nat
      PROVE  IndexPower(i, k) \in Residues(Q) /\ IndexPower(i, k) \in Int
  <2>1. \A n \in 1 .. k : all[n] \in Residues(Q)
    BY <1>1, <1>2, <1>3
  <2>2. IndexPower(i, k) \in Residues(Q)
    BY <1>1, <1>3, <2>1, ProductTakesOutAny
  <2> QED
    BY <1>1, <2>2 DEF Residues
<1>5. IndexPower(i, 0) = 1
  <2>1. 1 .. 0 = {} /\ 0 \in Nat
    OBVIOUS
  <2>2. \A n \in {} : all[n] \in Residues(Q)
    OBVIOUS
  <2>3. ProductOver(all, {}, Q) = 1
    BY <1>1, <2>2, ProductTakesOutAny, FS_EmptySet
  <2> QED
    BY <1>3, <2>1, <2>3
<1>6. ASSUME NEW k \in Nat
      PROVE  Same(Q, IndexPower(i, k + 1), i * IndexPower(i, k))
  <2>1. k + 1 \in Nat /\ (1 .. k + 1) \ {k + 1} = 1 .. k /\ k + 1 \in 1 .. k + 1
    OBVIOUS
  <2>2. \A n \in 1 .. k + 1 : all[n] \in Residues(Q)
    BY <1>1, <1>2, <1>3, <2>1
  <2> DEFINE s == 1 .. k + 1
  <2>6. IsFiniteSet(s) /\ s \in SUBSET s /\ k + 1 \in s /\ \A n \in s : all[n] \in Residues(Q)
    BY <1>3, <2>1, <2>2
  <2> HIDE DEF s
  <2>7. ProductOver(all, s, Q) = (all[k + 1] * ProductOver(all, s \ {k + 1}, Q)) % Q
    BY ONLY <1>1, <2>6, ProductTakesOutAny
  <2>3. ProductOver(all, 1 .. k + 1, Q)
          = (all[k + 1] * ProductOver(all, (1 .. k + 1) \ {k + 1}, Q)) % Q
    BY <2>7 DEF s
  <2>4. IndexPower(i, k + 1) = (i * IndexPower(i, k)) % Q
    BY <1>2, <1>3, <2>1, <2>3
  <2>5. i * IndexPower(i, k) \in Int
    BY <1>1, <1>4
  <2> QED
    BY <1>1, <2>4, <2>5, ResidueOfResidue
<1> QED
  BY <1>4, <1>5, <1>6

\* Which makes it the value of the polynomial at i.
Terms(p, i) == [k \in Powers |-> p[k] * IndexPower(i, k)]

\* From the highest coefficient down, by induction.
LEMMA HornerIsPolynomial ==
  ASSUME NEW i \in Trustees, NEW p \in Polynomials, NEW h, Horner(p, i, h)
  PROVE  Same(Q, h[0], SumOver(Terms(p, i), Powers)) /\ IntegersOn(Terms(p, i), Powers)
<1> DEFINE w == [k \in Powers |-> IndexPower(i, k)]
           t == Terms(p, i)
           Good == {m \in Nat : m <= T => Same(Q, h[T - m] * w[T - m], SumOver(t, T - m .. T))}
<1>1. Q \in Nat /\ Q > 0 /\ T \in Nat /\ Powers = 0 .. T /\ i \in Int /\ IsFiniteSet(Powers)
  BY SystemNumbers, ThresholdNumbers
<1>2. \A k \in Powers : p[k] \in Int /\ h[k] \in Int
  BY <1>1, Coefficients DEF Horner, Residues
<1>3. \A k \in Powers : w[k] \in Int
  BY <1>1, IndexPowers
<1>4. \A k \in Powers : t[k] = p[k] * w[k]
  BY DEF Terms
<1>5. w[0] = 1 /\ \A k \in 0 .. T - 1 : Same(Q, w[k + 1], i * w[k])
  <2>1. w[0] = 1
    BY <1>1, IndexPowers
  <2>2. ASSUME NEW k \in 0 .. T - 1
        PROVE  Same(Q, w[k + 1], i * w[k])
    <3>1. k \in Nat /\ k \in Powers /\ k + 1 \in Powers
      BY <1>1
    <3> QED
      BY <3>1, IndexPowers
  <2> QED
    BY <2>1, <2>2
<1> HIDE DEF w, t
<1>6. IntegersOn(t, Powers)
  <2>1. ASSUME NEW k \in Powers
        PROVE  t[k] \in Int
    BY <1>2, <1>3, <1>4
  <2> QED
    BY <2>1 DEF IntegersOn
<1>7. /\ SumOver(t, {}) = 0
      /\ \A s \in SUBSET Powers : SumOver(t, s) \in Int
      /\ \A s \in SUBSET Powers : \A x \in s : SumOver(t, s) = t[x] + SumOver(t, s \ {x})
  <2>1. IsFiniteSet(Powers)
    BY <1>1
  <2> QED
    BY ONLY <1>6, <2>1, SumOfIntegers
<1>8. 0 \in Good
  <2>1. T - 0 = T /\ T .. T = {T} /\ {T} \in SUBSET Powers /\ {T} \ {T} = {} /\ T \in Powers
    BY <1>1
  <2>2. SumOver(t, {T}) = t[T] + SumOver(t, {T} \ {T}) /\ t[T] \in Int
    BY <1>6, <1>7, <2>1 DEF IntegersOn
  <2>3. SumOver(t, T .. T) = p[T] * w[T]
    BY <1>4, <1>7, <2>1, <2>2
  <2>4. Same(Q, h[T], p[T]) /\ Same(Q, w[T], w[T])
    BY <1>1, <1>3, <2>1, SameIsAnEquivalence DEF Horner
  <2>5. Same(Q, h[T] * w[T], p[T] * w[T])
    BY <2>4, SameProducts
  <2> QED
    BY <2>1, <2>3, <2>5
<1>9. ASSUME NEW m \in Nat, m \in Good
      PROVE  m + 1 \in Good
  <2> SUFFICES ASSUME m + 1 <= T
               PROVE  Same(Q, h[T - (m + 1)] * w[T - (m + 1)], SumOver(t, T - (m + 1) .. T))
    OBVIOUS
  <2> DEFINE n == T - (m + 1)
  <2>1. /\ n \in 0 .. T - 1 /\ n \in Powers /\ n + 1 \in Powers /\ n + 1 = T - m
        /\ n .. T \in SUBSET Powers /\ n \in n .. T /\ (n .. T) \ {n} = n + 1 .. T
    BY <1>1
  <2>2. Same(Q, h[n + 1] * w[n + 1], SumOver(t, n + 1 .. T))
    BY <1>1, <1>9, <2>1
  <2> HIDE DEF n
  <2>3. SumOver(t, n .. T) = p[n] * w[n] + SumOver(t, n + 1 .. T)
    BY <1>4, <1>7, <2>1
  <2>4. h[n] \in Int /\ h[n + 1] \in Int /\ p[n] \in Int /\ w[n] \in Int /\ w[n + 1] \in Int
        /\ p[n] * w[n] \in Int
    BY <1>2, <1>3, <2>1
  <2>5. Same(Q, h[n], h[n + 1] * i + p[n])
    BY <2>1 DEF Horner
  <2>6. Same(Q, h[n] * w[n], (h[n + 1] * i + p[n]) * w[n])
    BY <1>1, <2>4, <2>5, SameIsAnEquivalence, SameProducts
  <2>7. ASSUME NEW a \in Int, NEW b \in Int, NEW c \in Int
        PROVE  (a * i + b) * c = b * c + a * (i * c)
    BY <1>1
  <2>8. (h[n + 1] * i + p[n]) * w[n] = p[n] * w[n] + h[n + 1] * (i * w[n])
    BY <2>4, <2>7
  <2>9. Same(Q, w[n + 1], i * w[n])
    BY <1>5, <2>1
  <2>10. Same(Q, h[n + 1] * w[n + 1], h[n + 1] * (i * w[n]))
    BY <1>1, <2>4, <2>9, SameIsAnEquivalence, SameProducts
  <2>11. Same(Q, h[n + 1] * (i * w[n]), SumOver(t, n + 1 .. T))
    BY <2>2, <2>10, SameIsAnEquivalence
  <2>12. Same(Q, p[n] * w[n], p[n] * w[n])
    BY <1>1, <2>4, SameIsAnEquivalence
  <2>13. Same(Q, p[n] * w[n] + h[n + 1] * (i * w[n]), p[n] * w[n] + SumOver(t, n + 1 .. T))
    BY <2>11, <2>12, SameSums
  <2>14. Same(Q, h[n] * w[n], SumOver(t, n .. T))
    BY <2>3, <2>6, <2>8, <2>13, SameIsAnEquivalence
  <2> QED
    BY <2>14 DEF n
<1>10. T \in Good
  <2> HIDE DEF Good
  <2> QED
    BY <1>1, <1>8, <1>9, NumberInduction
<1>11. Same(Q, h[0] * w[0], SumOver(t, Powers))
  <2>1. T <= T /\ T - T = 0 /\ 0 .. T = Powers
    BY <1>1
  <2> QED
    BY <1>10, <2>1
<1>12. h[0] * w[0] = h[0]
  BY <1>1, <1>2, <1>5
<1> QED
  BY <1>6, <1>11, <1>12 DEF t

\* A share is a residue, and what the public exponents of its sender say it is.
LEMMA ShareIsExpected ==
  ASSUME NEW j \in Trustees, NEW i \in Trustees, coeffs[j] \in Polynomials
  PROVE  /\ CreateSecretShare(j, i) \in Residues(Q) /\ CreateSecretShare(j, i) \in Int
         /\ ExpectedShare(j, i) = X(CreateSecretShare(j, i))
<1> DEFINE p == coeffs[j]
           t == Terms(p, i)
           e == [k \in Powers |-> Exp(exponents[j][k], IndexPower(i, k))]
<1>1. Q \in Nat /\ Q > 0 /\ T \in Nat /\ Powers = 0 .. T /\ IsFiniteSet(Powers)
  BY SystemNumbers, ThresholdNumbers
<1>2. PICK h : Horner(p, i, h) /\ CreateSecretShare(j, i) = h[0]
  BY ShareByHorner
<1>3. Same(Q, h[0], SumOver(t, Powers)) /\ IntegersOn(t, Powers)
  BY <1>2, HornerIsPolynomial
<1>4. h[0] \in Residues(Q) /\ h[0] \in Int
  BY <1>1, <1>2 DEF Horner, Residues
<1>5. ASSUME NEW k \in Powers
      PROVE  e[k] = X(t[k])
  <2>1. p[k] \in Int /\ p[k] \in 0 .. Q /\ k \in Nat
    BY <1>1, Coefficients
  <2>2. exponents[j][k] = X(p[k])
    BY <2>1, XSteps DEF exponents, CreateExponents
  <2>3. IndexPower(i, k) \in Residues(Q)
    BY <2>1, IndexPowers
  <2>4. IndexPower(i, k) \in 0 .. Q
    BY <1>1, <2>3 DEF Residues
  <2>5. e[k] = X(p[k] * IndexPower(i, k))
    BY <2>1, <2>2, <2>4, XPowers
  <2> QED
    BY <2>5 DEF Terms
<1>6. ExpectedShare(j, i) = ProductOver(e, Powers, P)
  BY DEF ExpectedShare, ProductOver
<1> HIDE DEF p, t, e
<1>7. ProductOver(e, Powers, P) = X(SumOver(t, Powers))
  BY <1>1, <1>3, <1>5, ProductOfPowers
<1>8. X(SumOver(t, Powers)) = X(h[0])
  BY <1>3, XAdd
<1> QED
  BY <1>2, <1>4, <1>6, <1>7, <1>8

-----------------------------------------------------------------------------
(***************************************************************************)
(* Keys: what the trustees hold once all have drawn. The secret is the sum    *)
(* of the constant terms, which is computed nowhere.                        *)
(***************************************************************************)
AllDrawn   == \A j \in Trustees : coeffs[j] \in Polynomials
Constants  == [j \in Trustees |-> coeffs[j][0]]
Secret     == SumOver(Constants, Trustees)
SharesOf(i) == [j \in Trustees |-> CreateSecretShare(j, i)]
ShardOf(i) == SumOver(SharesOf(i), Trustees) % Q

\* The public key and the shard keys that are expected are powers of those.
LEMMA PublicKeys ==
  ASSUME AllDrawn
  PROVE  /\ Secret \in Int /\ ElectionPublicKey = X(Secret)
         /\ \A i \in Trustees : /\ ShardOf(i) \in Residues(Q) /\ ShardOf(i) \in Int
                                /\ IntegersOn(SharesOf(i), Trustees)
                                /\ SimulatePublicKeyShard(i) = X(ShardOf(i))
<1>1. Q \in Nat /\ Q > 0 /\ T \in Nat /\ Powers = 0 .. T /\ IsFiniteSet(Trustees) /\ 0 \in Powers
  BY SystemNumbers, ThresholdNumbers
<1>2. ASSUME NEW j \in Trustees
      PROVE  coeffs[j][0] \in Int /\ exponents[j][0] = X(coeffs[j][0])
  <2>1. coeffs[j][0] \in Int /\ coeffs[j][0] \in 0 .. Q
    BY <1>1, Coefficients DEF AllDrawn
  <2>2. exponents[j][0] = Exp(G, coeffs[j][0])
    BY <1>1 DEF exponents, CreateExponents
  <2> QED
    BY <2>1, <2>2, XSteps
<1>3. IntegersOn(Constants, Trustees)
  BY <1>2 DEF IntegersOn, Constants
<1>4. Secret \in Int
  BY <1>1, <1>3, SumOfIntegers DEF Secret
<1>5. ElectionPublicKey = X(Secret)
  <2> DEFINE e == [j \in Trustees |-> exponents[j][0]]
  <2>1. \A j \in Trustees : e[j] = X(Constants[j])
    BY <1>2 DEF Constants
  <2>2. ElectionPublicKey = ProductOver(e, Trustees, P)
    BY DEF ElectionPublicKey, ProductOver
  <2> HIDE DEF e
  <2>3. ProductOver(e, Trustees, P) = X(SumOver(Constants, Trustees))
    BY <1>1, <1>3, <2>1, ProductOfPowers
  <2> QED
    BY <2>2, <2>3 DEF Secret
<1>6. ASSUME NEW i \in Trustees
      PROVE  /\ ShardOf(i) \in Residues(Q) /\ ShardOf(i) \in Int
             /\ IntegersOn(SharesOf(i), Trustees)
             /\ SimulatePublicKeyShard(i) = X(ShardOf(i))
  <2> DEFINE s == SharesOf(i)
             e == [j \in Trustees |-> ExpectedShare(j, i)]
  <2>1. \A j \in Trustees : s[j] \in Int /\ e[j] = X(s[j])
    BY ShareIsExpected DEF AllDrawn, SharesOf
  <2>2. SimulatePublicKeyShard(i) = ProductOver(e, Trustees, P)
    BY DEF SimulatePublicKeyShard, ProductOver
  <2> HIDE DEF s, e
  <2>3. IntegersOn(s, Trustees)
    BY <2>1 DEF IntegersOn
  <2>4. SumOver(s, Trustees) \in Int
    BY <1>1, <2>3, SumOfIntegers
  <2>5. SumOver(s, Trustees) % Q \in Residues(Q) /\ SumOver(s, Trustees) % Q \in Int
        /\ Same(Q, SumOver(s, Trustees) % Q, SumOver(s, Trustees))
    BY <1>1, <2>4, Division, ResidueOfResidue
  <2>6. ProductOver(e, Trustees, P) = X(SumOver(s, Trustees))
    BY <1>1, <2>1, <2>3, ProductOfPowers
  <2>7. X(SumOver(s, Trustees)) = X(SumOver(s, Trustees) % Q)
    BY <2>5, XAdd
  <2> QED
    BY <2>2, <2>3, <2>5, <2>6, <2>7 DEF s, ShardOf
<1> QED
  BY <1>4, <1>5, <1>6

\* What a trustee puts together out of the shares it receives is its shard.
LEMMA SharesCombine ==
  ASSUME AllDrawn, NEW i \in Trustees, NEW encSecret \in Drawn, NEW r \in Drawn
  PROVE  CombineSharesSharedKeys(i, encSecret, r) = ShardOf(i)
<1>1. P \in Nat /\ Q \in Nat /\ Q > 0 /\ Q < P
  BY SystemNumbers, OrderBelowModulus
<1>2. encSecret \in 0 .. Q /\ r \in 0 .. Q /\ encSecret \in Int /\ r \in Int
      /\ encSecret * r \in Int /\ r * encSecret = encSecret * r
  BY <1>1, DrawnAssumption DEF Exponents
<1>3. ASSUME NEW j \in Trustees
      PROVE  Received(j, i, encSecret, r) = CreateSecretShare(j, i)
  <2> DEFINE s  == CreateSecretShare(j, i)
             ct == Encrypt(Exp(G, encSecret), s, r)
  <2>1. s \in Residues(Q)
    BY ShareIsExpected DEF AllDrawn
  <2>2. s \in 0 .. P - 1
    BY <1>1, <2>1 DEF Residues
  <2>3. Exp(G, r) = X(r) /\ Exp(G, encSecret) = X(encSecret)
    BY <1>2, XSteps
  <2>4. Exp(X(encSecret), r) = X(encSecret * r) /\ Exp(X(r), encSecret) = X(encSecret * r)
    BY <1>2, XPowers
  <2>5. ct.A = X(r) /\ ct.B = (s * X(encSecret * r)) % P
    BY <2>3, <2>4 DEF Encrypt
  <2>6. Received(j, i, encSecret, r) = Over(ct.B, Exp(ct.A, encSecret))
    BY DEF Received, Decrypt
  <2> HIDE DEF ct, s
  <2>7. Over((s * X(encSecret * r)) % P, X(encSecret * r)) = s
    BY <1>2, <2>2, XPowers
  <2>8. Received(j, i, encSecret, r) = s
    BY <2>4, <2>5, <2>6, <2>7
  <2> QED
    BY <2>8 DEF s
<1> DEFINE f == [j \in Trustees |-> IF j = i THEN CreateSecretShare(j, i)
                                    ELSE Received(j, i, encSecret, r)]
<1>4. f = SharesOf(i)
  BY <1>3 DEF SharesOf
<1>5. CombineSharesSharedKeys(i, encSecret, r) = Total(f) % Q
  BY DEF CombineSharesSharedKeys, Sum
<1> HIDE DEF f
<1>6. IntegersOn(SharesOf(i), Trustees)
  BY PublicKeys
<1>7. SharesOf(i) \in [Trustees -> Int]
  BY <1>6 DEF SharesOf, IntegersOn
<1>8. Total(SharesOf(i)) = SumOver(SharesOf(i), Trustees)
  BY <1>7, TotalIsSum
<1> QED
  BY <1>4, <1>5, <1>8 DEF ShardOf

-----------------------------------------------------------------------------
(***************************************************************************)
(* Interpolation at zero. At(S, f) is what Lagrange makes of the values f      *)
(* has on the indices S.                                                   *)
(***************************************************************************)
Weighted(S, f) == [j \in S |-> Lagrange(S, j) * f[j]]
At(S, f)       == SumOver(Weighted(S, f), S)

\* A set of indices, and values there.
Nodes(S)     == S \in SUBSET Trustees

\* Two different indices differ by a number that has an inverse.
LEMMA Differences ==
  ASSUME NEW i \in Trustees, NEW j \in Trustees, i # j
  PROVE  /\ ModInverse((i - j) % Q, Q) \in Int
         /\ Same(Q, ModInverse((i - j) % Q, Q) * (i - j), 1)
<1> DEFINE d == (i - j) % Q
           v == ModInverse(d, Q)
<1>1. Q \in Nat /\ Q > 1 /\ Q > 0 /\ i \in Int /\ j \in Int /\ i - j \in Int
      /\ i \in Residues(Q) /\ j \in Residues(Q)
  BY SystemNumbers, ThresholdNumbers
<1>2. d \in Residues(Q) /\ Same(Q, d, i - j)
  BY <1>1, Division, ResidueOfResidue
<1>3. d # 0
  <2> SUFFICES ASSUME d = 0
               PROVE  FALSE
    OBVIOUS
  <2>1. Same(Q, 0, i - j) /\ Same(Q, j, j)
    BY <1>1, <1>2, SameIsAnEquivalence
  <2>2. Same(Q, 0 + j, (i - j) + j)
    BY <2>1, SameSums
  <2>3. 0 + j = j /\ (i - j) + j = i
    BY <1>1
  <2>4. i % Q = i /\ j % Q = j
    BY <1>1, ResidueOfResidue
  <2> QED
    BY <2>2, <2>3, <2>4 DEF Same
<1>4. d \in 1 .. Q - 1
  BY <1>1, <1>2, <1>3 DEF Residues
<1>5. v \in 1 .. Q - 1 /\ Same(Q, v * d, 1)
  BY <1>4, InverseModQ
<1> HIDE DEF v, d
<1>6. v \in Int
  BY <1>1, <1>5
<1>7. Same(Q, v * d, v * (i - j))
  BY <1>1, <1>2, <1>6, SameIsAnEquivalence, SameProducts
<1>8. Same(Q, v * (i - j), 1)
  BY <1>5, <1>7, SameIsAnEquivalence
<1> QED
  BY <1>6, <1>8 DEF v, d

\* A coefficient of Lagrange is a residue, and leaving an index out divides it.
LEMMA LagrangeType ==
  ASSUME NEW S, Nodes(S), NEW j \in S
  PROVE  /\ IsFiniteSet(S) /\ Lagrange(S, j) \in Residues(Q) /\ Lagrange(S, j) \in Int
         /\ \A b \in S : b # j =>
              Same(Q, Lagrange(S, j) * (b - j), b * Lagrange(S \ {b}, j))
         /\ S = {j} => Lagrange(S, j) = 1
<1>1. Q \in Nat /\ Q > 1 /\ Q > 0 /\ L \in Nat /\ L < Q /\ Trustees = 1 .. L /\ IsFiniteSet(Trustees)
  BY SystemNumbers, ThresholdNumbers
<1>2. S \subseteq Trustees /\ IsFiniteSet(S)
  BY <1>1, FS_Subset DEF Nodes
<1> DEFINE o == S \ {j}
           q == [i \in o |-> (i * ModInverse((i - j) % Q, Q)) % Q]
<1>3. IsFiniteSet(o)
  BY <1>2, FS_Subset
<1>4. ASSUME NEW i \in o
      PROVE  q[i] \in Residues(Q) /\ q[i] \in Int /\ Same(Q, q[i] * (i - j), i)
  <2> DEFINE v == ModInverse((i - j) % Q, Q)
             z == i * v
  <2>1. i \in Trustees /\ j \in Trustees /\ i # j /\ i \in Int /\ i - j \in Int
    BY <1>1, <1>2
  <2>2. v \in Int /\ Same(Q, v * (i - j), 1)
    BY <2>1, Differences
  <2>3. q[i] = z % Q /\ z \in Int
    BY <2>1, <2>2
  <2> HIDE DEF v, q
  <2>4. z = i * v
    OBVIOUS
  <2> HIDE DEF z
  <2>5. z % Q \in Residues(Q) /\ z % Q \in Int /\ Same(Q, z % Q, z)
    BY ONLY <2>3, ModulusIsNumber, Division, ResidueOfResidue
  <2>6. Same(Q, q[i] * (i - j), z * (i - j))
    BY <1>1, <2>1, <2>3, <2>5, SameIsAnEquivalence, SameProducts
  <2>7. z * (i - j) = i * (v * (i - j)) /\ i * 1 = i
    BY <2>1, <2>2, <2>4
  <2>8. Same(Q, i * (v * (i - j)), i * 1)
    BY <1>1, <2>1, <2>2, SameIsAnEquivalence, SameProducts
  <2>9. Same(Q, q[i] * (i - j), i)
    BY <2>6, <2>7, <2>8, SameIsAnEquivalence
  <2> QED
    BY <2>3, <2>5, <2>9
<1>5. Lagrange(S, j) = ProductOver(q, o, Q)
  BY DEF Lagrange, ProductOver
<1>6. ASSUME NEW b \in o
      PROVE  Lagrange(S \ {b}, j) = ProductOver(q, o \ {b}, Q)
  <2>1. (S \ {b}) \ {j} = o \ {b}
    OBVIOUS
  <2>2. Lagrange(S \ {b}, j)
          = Product([i \in o \ {b} |-> (i * ModInverse((i - j) % Q, Q)) % Q], Q)
    BY <2>1 DEF Lagrange
  <2> QED
    BY <2>2 DEF ProductOver
<1>7. \A i \in o : q[i] \in Residues(Q)
  BY <1>4
<1> HIDE DEF q, o
<1>8. /\ ProductOver(q, {}, Q) = 1
      /\ \A s \in SUBSET o : ProductOver(q, s, Q) \in Residues(Q)
      /\ \A s \in SUBSET o : \A x \in s :
           ProductOver(q, s, Q) = (q[x] * ProductOver(q, s \ {x}, Q)) % Q
  BY ONLY <1>1, <1>3, <1>7, ProductTakesOutAny
<1>9. \A s \in SUBSET o : ProductOver(q, s, Q) \in Int
  BY <1>1, <1>8 DEF Residues
<1>10. ASSUME NEW b \in S, b # j
       PROVE  Same(Q, Lagrange(S, j) * (b - j), b * Lagrange(S \ {b}, j))
  <2>1. b \in o /\ o \in SUBSET o /\ o \ {b} \in SUBSET o
    BY <1>10 DEF o
  <2> DEFINE l == Lagrange(S \ {b}, j)
  <2>2. l = ProductOver(q, o \ {b}, Q) /\ l \in Int
    BY <1>6, <1>9, <2>1
  <2>3. Lagrange(S, j) = (q[b] * l) % Q
    BY <1>5, <1>8, <2>1, <2>2
  <2>4. q[b] \in Int /\ Same(Q, q[b] * (b - j), b) /\ b - j \in Int /\ b \in Int
    BY <1>1, <1>2, <1>4, <2>1
  <2> HIDE DEF l
  <2>5. q[b] * l \in Int
    BY <2>2, <2>4
  <2>6. Same(Q, Lagrange(S, j), q[b] * l)
    BY <1>1, <2>3, <2>5, ResidueOfResidue
  <2>7. Same(Q, Lagrange(S, j) * (b - j), (q[b] * l) * (b - j))
    BY <1>1, <2>4, <2>6, SameIsAnEquivalence, SameProducts
  <2>8. (q[b] * l) * (b - j) = (q[b] * (b - j)) * l
    BY <2>2, <2>4
  <2>9. Same(Q, (q[b] * (b - j)) * l, b * l)
    BY <1>1, <2>2, <2>4, SameIsAnEquivalence, SameProducts
  <2>10. Same(Q, Lagrange(S, j) * (b - j), b * l)
    BY <2>7, <2>8, <2>9, SameIsAnEquivalence
  <2> QED
    BY <2>10 DEF l
<1>11. Lagrange(S, j) \in Residues(Q) /\ Lagrange(S, j) \in Int
  BY <1>5, <1>8, <1>9
<1>12. S = {j} => Lagrange(S, j) = 1
  BY <1>5, <1>8 DEF o
<1> QED
  BY <1>2, <1>10, <1>11, <1>12

\* Indices are numbers, finitely many of them.
LEMMA NodesAreNumbers ==
  ASSUME NEW S, Nodes(S)
  PROVE  /\ IsFiniteSet(S) /\ \A j \in S : j \in Int
         /\ \A r : Nodes(S \ r) /\ IsFiniteSet(S \ r)
<1>1. IsFiniteSet(Trustees) /\ \A j \in Trustees : j \in Int
  BY ThresholdNumbers
<1>2. ASSUME NEW r, r \in SUBSET Trustees
      PROVE  IsFiniteSet(r)
  BY <1>1, <1>2, FS_Subset
<1> QED
  BY <1>1, <1>2 DEF Nodes

\* What is interpolated from integers is an integer.
LEMMA AtType ==
  ASSUME NEW S, Nodes(S), NEW f, IntegersOn(f, S)
  PROVE  IntegersOn(Weighted(S, f), S) /\ At(S, f) \in Int
<1>1. ASSUME NEW j \in S
      PROVE  Weighted(S, f)[j] \in Int
  <2>1. f[j] \in Int /\ Lagrange(S, j) \in Int
    BY LagrangeType DEF IntegersOn
  <2> QED
    BY <2>1 DEF Weighted
<1>2. IntegersOn(Weighted(S, f), S)
  BY <1>1 DEF IntegersOn
<1>3. IsFiniteSet(S)
  BY NodesAreNumbers
<1>4. SumOver(Weighted(S, f), S) \in Int
  BY ONLY <1>2, <1>3, SumOfIntegers
<1> QED
  BY <1>2, <1>4 DEF At

\* Interpolation is linear, and a matter of residues.
LEMMA AtIsLinear ==
  ASSUME NEW S, Nodes(S), NEW f, NEW g, NEW c, NEW d, NEW h, Combination(h, c, f, d, g, S)
  PROVE  At(S, h) = c * At(S, f) + d * At(S, g)
<1> DEFINE wf == Weighted(S, f)
           wg == Weighted(S, g)
           wh == Weighted(S, h)
<1>0. /\ c \in Int /\ d \in Int /\ IntegersOn(f, S) /\ IntegersOn(g, S)
      /\ \A x \in S : h[x] = c * f[x] + d * g[x]
  BY DEF Combination
<1>1. IntegersOn(wf, S) /\ IntegersOn(wg, S) /\ IsFiniteSet(S)
  BY <1>0, AtType, NodesAreNumbers
<1>2. ASSUME NEW j \in S
      PROVE  wh[j] = c * wf[j] + d * wg[j]
  <2>1. f[j] \in Int /\ g[j] \in Int /\ Lagrange(S, j) \in Int /\ h[j] = c * f[j] + d * g[j]
    BY <1>0, LagrangeType DEF IntegersOn
  <2>2. ASSUME NEW l \in Int, NEW x \in Int, NEW y \in Int
        PROVE  l * (c * x + d * y) = c * (l * x) + d * (l * y)
    BY <1>0
  <2>3. wf[j] = Lagrange(S, j) * f[j] /\ wg[j] = Lagrange(S, j) * g[j]
        /\ wh[j] = Lagrange(S, j) * (c * f[j] + d * g[j])
    BY <2>1 DEF Weighted
  <2> HIDE DEF wf, wg, wh
  <2> QED
    BY <1>0, <2>1, <2>2, <2>3
<1> HIDE DEF wf, wg, wh
<1>3. Combination(wh, c, wf, d, wg, S)
  BY <1>0, <1>1, <1>2 DEF Combination
<1>4. SumOver(wh, S) = c * SumOver(wf, S) + d * SumOver(wg, S)
  BY <1>1, <1>3, SumIsLinear
<1> QED
  BY <1>4 DEF At, wf, wg, wh

\* Equal residues give equal residues.
LEMMA AtOfSame ==
  ASSUME NEW S, Nodes(S), NEW f, NEW g, \A j \in S : Same(Q, f[j], g[j])
  PROVE  Same(Q, At(S, f), At(S, g))
<1>1. Q \in Nat /\ Q > 0 /\ IsFiniteSet(S)
  BY ModulusIsNumber, NodesAreNumbers
<1>2. ASSUME NEW j \in S
      PROVE  Same(Q, Weighted(S, f)[j], Weighted(S, g)[j])
  <2>1. Same(Q, Lagrange(S, j), Lagrange(S, j)) /\ Same(Q, f[j], g[j])
    BY <1>1, LagrangeType, SameIsAnEquivalence
  <2>2. Same(Q, Lagrange(S, j) * f[j], Lagrange(S, j) * g[j])
    BY <2>1, SameProducts
  <2> QED
    BY <2>2 DEF Weighted
<1>3. Same(Q, SumOver(Weighted(S, f), S), SumOver(Weighted(S, g), S))
  BY <1>1, <1>2, SumsOfSame
<1> QED
  BY <1>3 DEF At

\* Multiplying the values by their indices makes up for leaving an index out.
LEMMA Shift ==
  ASSUME NEW S, Nodes(S), NEW b \in S, NEW f, IntegersOn(f, S),
         NEW g, \A j \in S : g[j] = j * f[j]
  PROVE  Same(Q, b * At(S, f) - At(S, g), b * At(S \ {b}, f))
<1> DEFINE r  == S \ {b}
           wf == Weighted(S, f)
           wg == Weighted(S, g)
           wr == Weighted(r, f)
           u  == [j \in S |-> b * wf[j] + (-1) * wg[j]]
           v  == [j \in r |-> b * wr[j] + 0 * wr[j]]
<1>1. /\ Q \in Nat /\ Q > 0 /\ IsFiniteSet(S) /\ IsFiniteSet(r) /\ Nodes(r) /\ r \in SUBSET S
      /\ -1 \in Int /\ 0 \in Int
  <2>1. IsFiniteSet(S) /\ Nodes(r) /\ IsFiniteSet(r)
    BY NodesAreNumbers
  <2> QED
    BY <2>1, ModulusIsNumber
<1>2. \A j \in S : j \in Int
  BY NodesAreNumbers
<1>3. b \in Int
  BY <1>2
<1>4. IntegersOn(g, S)
  <2>1. ASSUME NEW j \in S
        PROVE  g[j] \in Int
    BY <1>2 DEF IntegersOn
  <2> QED
    BY <2>1 DEF IntegersOn
<1>5. IntegersOn(f, r)
  BY DEF IntegersOn
<1>6. /\ IntegersOn(wf, S) /\ IntegersOn(wg, S) /\ IntegersOn(wr, r)
      /\ At(S, f) \in Int /\ At(S, g) \in Int /\ At(r, f) \in Int
  BY <1>1, <1>4, <1>5, AtType
<1>7. \A j \in S : u[j] = b * wf[j] + (-1) * wg[j]
  OBVIOUS
<1>8. \A j \in r : v[j] = b * wr[j] + 0 * wr[j]
  OBVIOUS
<1>9. ASSUME NEW j \in S
      PROVE  /\ wf[j] = Lagrange(S, j) * f[j] /\ wg[j] = Lagrange(S, j) * (j * f[j])
             /\ Lagrange(S, j) \in Int /\ f[j] \in Int /\ j \in Int
  BY <1>2, LagrangeType DEF Weighted, IntegersOn
<1>10. ASSUME NEW j \in r
       PROVE  wr[j] = Lagrange(r, j) * f[j] /\ Lagrange(r, j) \in Int
  BY <1>1, LagrangeType DEF Weighted
<1> HIDE DEF wf, wg, wr, u, v, r
<1>11. SumOver(u, S) = b * SumOver(wf, S) + (-1) * SumOver(wg, S)
  <2>1. Combination(u, b, wf, -1, wg, S)
    BY <1>1, <1>3, <1>6, <1>7 DEF Combination
  <2> QED
    BY ONLY <1>1, <2>1, SumIsLinear
<1>12. SumOver(v, r) = b * SumOver(wr, r) + 0 * SumOver(wr, r)
  <2>1. Combination(v, b, wr, 0, wr, r)
    BY <1>1, <1>3, <1>6, <1>8 DEF Combination
  <2> QED
    BY ONLY <1>1, <2>1, SumIsLinear
<1>13. u[b] = 0
  <2>1. ASSUME NEW l \in Int, NEW x \in Int
        PROVE  b * (l * x) + (-1) * (l * (b * x)) = 0
    BY <1>3
  <2> QED
    BY <1>7, <1>9, <2>1
<1>14. ASSUME NEW j \in r
       PROVE  Same(Q, u[j], v[j])
  <2> DEFINE l == Lagrange(S, j)
             m == Lagrange(r, j)
             x == f[j]
  <2>1. j \in S /\ j # b /\ j \in Int /\ l \in Int /\ m \in Int /\ x \in Int /\ b - j \in Int
    BY <1>3, <1>9, <1>10 DEF r
  <2>2. Same(Q, l * (b - j), b * m)
    BY <2>1, LagrangeType DEF r
  <2>3. u[j] = b * (l * x) + (-1) * (l * (j * x)) /\ v[j] = b * (m * x) + 0 * (m * x)
    BY <1>7, <1>8, <1>9, <1>10, <2>1
  <2> HIDE DEF l, m, x
  <2>4. b * (l * x) + (-1) * (l * (j * x)) = (l * (b - j)) * x
    BY <1>3, <2>1
  <2>5. b * (m * x) + 0 * (m * x) = (b * m) * x
    BY <1>3, <2>1
  <2>6. Same(Q, (l * (b - j)) * x, (b * m) * x)
    BY <1>1, <2>1, <2>2, SameIsAnEquivalence, SameProducts
  <2> QED
    BY <2>3, <2>4, <2>5, <2>6
<1>15. Same(Q, SumOver(u, r), SumOver(v, r))
  BY <1>1, <1>14, SumsOfSame
<1>16. IntegersOn(u, S)
  <2>1. ASSUME NEW j \in S
        PROVE  u[j] \in Int
    <3>1. wf[j] \in Int /\ wg[j] \in Int /\ u[j] = b * wf[j] + (-1) * wg[j]
      BY <1>6, <1>7 DEF IntegersOn
    <3> QED
      BY <1>3, <3>1
  <2> QED
    BY <2>1 DEF IntegersOn
<1>17. SumOver(u, S) = u[b] + SumOver(u, r) /\ SumOver(u, r) \in Int
  <2>1. S \in SUBSET S /\ r = S \ {b}
    BY DEF r
  <2> QED
    BY ONLY <1>1, <1>16, <2>1, SumOfIntegers, b \in S
<1>18. SumOver(wf, S) = At(S, f) /\ SumOver(wg, S) = At(S, g) /\ SumOver(wr, r) = At(r, f)
  BY DEF At, wf, wg, wr
<1>19. SumOver(u, S) = b * At(S, f) - At(S, g) /\ SumOver(v, r) = b * At(r, f)
  <2>1. ASSUME NEW x \in Int, NEW y \in Int
        PROVE  b * x + (-1) * y = b * x - y /\ b * x + 0 * x = b * x
    BY <1>3
  <2> QED
    BY <1>6, <1>11, <1>12, <1>18, <2>1
<1>20. Same(Q, b * At(S, f) - At(S, g), b * At(r, f))
  BY <1>13, <1>15, <1>17, <1>19
<1> QED
  BY <1>20 DEF r

Ones == [j \in Trustees |-> 1]

\* What is one everywhere is one at zero.
LEMMA AtOfOnes ==
  ASSUME NEW S, Nodes(S), S # {}
  PROVE  Same(Q, At(S, Ones), 1)
<1> DEFINE Good == {s \in SUBSET S : s # {} => Same(Q, At(s, Ones), 1)}
           g    == [j \in Trustees |-> j]
<1>1. IsFiniteSet(S) /\ S \subseteq Trustees /\ \A j \in Trustees : j \in Int
  BY NodesAreNumbers, ThresholdNumbers DEF Nodes
<1>2. ASSUME NEW s \in SUBSET S
      PROVE  Nodes(s) /\ IntegersOn(Ones, s) /\ IntegersOn(g, s) /\ At(s, Ones) \in Int /\ At(s, g) \in Int
  <2>1. Nodes(s)
    BY DEF Nodes
  <2>2. IntegersOn(Ones, s) /\ IntegersOn(g, s)
    BY <1>1 DEF IntegersOn, Ones
  <2> QED
    BY <2>1, <2>2, AtType
<1>3. ASSUME NEW s \in SUBSET S, \A t \in SUBSET s : t # s => t \in Good
      PROVE  s \in Good
  <2> SUFFICES ASSUME s # {}
               PROVE  Same(Q, At(s, Ones), 1)
    OBVIOUS
  <2>1. PICK a \in s : TRUE
    OBVIOUS
  <2>2. CASE s = {a}
    <3> DEFINE w == Weighted(s, Ones)
    <3>1. Lagrange(s, a) = 1
      BY <1>2, <2>1, <2>2, LagrangeType
    <3>2. w[a] = 1
      BY <1>1, <2>1, <3>1 DEF Weighted, Ones
    <3>3. IntegersOn(w, s) /\ IsFiniteSet(s)
      BY <1>2, AtType, NodesAreNumbers
    <3> HIDE DEF w
    <3>4. SumOver(w, {}) = 0 /\ SumOver(w, s) = w[a] + SumOver(w, s \ {a})
      <4>1. s \in SUBSET s /\ a \in s
        BY <2>1
      <4> QED
        BY ONLY <3>3, <4>1, SumOfIntegers
    <3>5. s \ {a} = {}
      BY <2>2
    <3>6. At(s, Ones) = 1
      BY <3>2, <3>4, <3>5 DEF At, w
    <3> QED
      BY <3>6, ModulusIsNumber, SameIsAnEquivalence
  <2>3. CASE s # {a}
    <3>1. PICK b \in s : b # a
      BY <2>1, <2>3
    <3> DEFINE v == At(s, Ones)
               w == At(s, g)
    <3>2. ASSUME NEW c \in s, s \ {c} # {}
          PROVE  Same(Q, c * v - w, c) /\ c \in Int
      <4>1. c \in Int /\ \A j \in s : g[j] = j * Ones[j]
        BY <1>1 DEF Ones
      <4>2. Same(Q, At(s \ {c}, Ones), 1)
        BY <1>3, <3>2
      <4>3. Same(Q, c * v - w, c * At(s \ {c}, Ones))
        BY <1>2, <4>1, Shift
      <4>4. Same(Q, c * At(s \ {c}, Ones), c * 1)
        BY <4>1, <4>2, ModulusIsNumber, SameIsAnEquivalence, SameProducts
      <4>5. c * 1 = c
        BY <4>1
      <4> QED
        BY <4>1, <4>3, <4>4, <4>5, SameIsAnEquivalence
    <3>3. s \ {a} # {} /\ s \ {b} # {}
      BY <2>1, <3>1
    <3>4. Same(Q, a * v - w, a) /\ Same(Q, b * v - w, b) /\ a \in Int /\ b \in Int
      BY <2>1, <3>2, <3>3
    <3>5. Same(Q, (a * v - w) - (b * v - w), a - b)
      BY <3>4, SameSums
    <3>6. v \in Int /\ w \in Int
      BY <1>2
    <3> HIDE DEF v, w
    <3>7. (a * v - w) - (b * v - w) = v * (a - b) /\ a - b = 1 * (a - b) /\ a - b \in Int
      BY <3>4, <3>6
    <3>8. a \in Trustees /\ b \in Trustees /\ a # b
      BY <1>1, <2>1, <3>1
    <3>9. PICK x \in Int : Same(Q, x * (a - b), 1)
      BY <3>8, Differences
    <3>10. Same(Q, v * (a - b), 1 * (a - b))
      BY <3>5, <3>7
    <3>11. Same(Q, v, 1)
      BY <3>6, <3>7, <3>9, <3>10, Cancel
    <3> QED
      BY <3>11 DEF v
  <2> QED
    BY <2>2, <2>3
<1>4. S \in Good
  <2> HIDE DEF Good
  <2>1. \A s \in SUBSET S : s \in Good
    BY <1>1, <1>3, SubsetInduction
  <2> QED
    BY <2>1
<1> QED
  BY <1>4

\* The values h[n] of one polynomial at all indices, and what a few of them determine.
Tables(p, hs) == \A i \in Trustees : Horner(p, i, hs[i])
Row(hs, n)    == [i \in Trustees |-> hs[i][n]]

\* The values are integers, and so is what they give.
LEMMA RowsAreIntegers ==
  ASSUME NEW p, NEW hs, Tables(p, hs), NEW n \in Powers, NEW S, Nodes(S)
  PROVE  IntegersOn(Row(hs, n), S) /\ At(S, Row(hs, n)) \in Int
<1>1. ASSUME NEW i \in S
      PROVE  Row(hs, n)[i] \in Int
  <2>1. i \in Trustees
    BY DEF Nodes
  <2>2. hs[i][n] \in Residues(Q)
    BY <2>1 DEF Tables, Horner
  <2>3. hs[i][n] \in Int
    BY <2>2, ModulusIsNumber DEF Residues
  <2> QED
    BY <2>1, <2>3 DEF Row
<1>2. IntegersOn(Row(hs, n), S)
  BY <1>1 DEF IntegersOn
<1> QED
  BY <1>2, AtType

\* More than T of them determine the constant term: Horner takes one coefficient off,
\* Shift one index, until a single one is left.
LEMMA Interpolation ==
  ASSUME NEW p \in Polynomials, NEW hs, Tables(p, hs), NEW S, Nodes(S), Cardinality(S) > T
  PROVE  Same(Q, At(S, Row(hs, 0)), p[0])
<1> DEFINE Good == {m \in Nat : m <= T =>
                      \A s \in SUBSET Trustees :
                        Cardinality(s) > m => Same(Q, At(s, Row(hs, T - m)), p[T - m])}
<1>1. T \in Nat /\ Powers = 0 .. T
  BY ThresholdNumbers
<1>2. \A k \in Powers : p[k] \in Int
  BY Coefficients
<1>3. ASSUME NEW s \in SUBSET Trustees, NEW m \in Nat, Cardinality(s) > m
      PROVE  Nodes(s) /\ IsFiniteSet(s) /\ s # {} /\ IntegersOn(Ones, s)
             /\ At(s, Ones) \in Int /\ Same(Q, At(s, Ones), 1)
  <2>1. Nodes(s) /\ IsFiniteSet(s)
    BY NodesAreNumbers DEF Nodes
  <2>2. s # {}
    BY <1>3, FS_EmptySet
  <2>3. IntegersOn(Ones, s)
    BY DEF IntegersOn, Ones
  <2> QED
    BY <2>1, <2>2, <2>3, AtType, AtOfOnes
<1>4. 0 \in Good
  <2> SUFFICES ASSUME NEW s \in SUBSET Trustees, Cardinality(s) > 0
               PROVE  Same(Q, At(s, Row(hs, T)), p[T])
    BY <1>1
  <2> DEFINE k == [i \in Trustees |-> p[T] * Ones[i] + 0 * Ones[i]]
  <2>1. 0 \in Nat
    OBVIOUS
  <2>2. Nodes(s) /\ IntegersOn(Ones, s) /\ At(s, Ones) \in Int /\ Same(Q, At(s, Ones), 1)
    BY <1>3, <2>1
  <2>3. T \in Powers /\ p[T] \in Int
    BY <1>1, <1>2
  <2>4. ASSUME NEW i \in s
        PROVE  Same(Q, Row(hs, T)[i], k[i]) /\ k[i] = p[T] * Ones[i] + 0 * Ones[i]
    <3>1. i \in Trustees /\ Row(hs, T)[i] = hs[i][T] /\ Ones[i] = 1
      BY DEF Row, Ones
    <3>2. k[i] = p[T]
      BY <2>3, <3>1
    <3>3. Same(Q, hs[i][T], p[T])
      BY <3>1 DEF Tables, Horner
    <3> QED
      BY <3>1, <3>2, <3>3
  <2> HIDE DEF k
  <2>5. Same(Q, At(s, Row(hs, T)), At(s, k))
    BY <2>2, <2>4, AtOfSame
  <2>6. Combination(k, p[T], Ones, 0, Ones, s)
    BY <2>2, <2>3, <2>4 DEF Combination
  <2>7. At(s, k) = p[T] * At(s, Ones) + 0 * At(s, Ones)
    BY <2>2, <2>6, AtIsLinear
  <2>8. At(s, k) = p[T] * At(s, Ones) /\ p[T] * 1 = p[T]
    BY <2>2, <2>3, <2>7
  <2>9. Same(Q, p[T] * At(s, Ones), p[T] * 1)
    BY <2>2, <2>3, ModulusIsNumber, SameIsAnEquivalence, SameProducts
  <2> QED
    BY <2>5, <2>8, <2>9, SameIsAnEquivalence
<1>5. ASSUME NEW m \in Nat, m \in Good
      PROVE  m + 1 \in Good
  <2> SUFFICES ASSUME m + 1 <= T, NEW s \in SUBSET Trustees, Cardinality(s) > m + 1
               PROVE  Same(Q, At(s, Row(hs, T - (m + 1))), p[T - (m + 1)])
    OBVIOUS
  <2> DEFINE n == T - (m + 1)
             f == Row(hs, n + 1)
             g == [i \in Trustees |-> i * f[i]]
             k == [i \in Trustees |-> 1 * g[i] + p[n] * Ones[i]]
  <2>1. n \in 0 .. T - 1 /\ n \in Powers /\ n + 1 \in Powers /\ n + 1 = T - m /\ m + 1 \in Nat
    BY <1>1
  <2>2. Nodes(s) /\ IsFiniteSet(s) /\ s # {} /\ IntegersOn(Ones, s)
        /\ At(s, Ones) \in Int /\ Same(Q, At(s, Ones), 1)
    BY <1>3, <2>1
  <2>3. p[n] \in Int /\ p[n + 1] \in Int
    BY <1>2, <2>1
  <2>4. \A i \in s : i \in Trustees /\ i \in Int
    BY <2>2, NodesAreNumbers DEF Nodes
  <2> HIDE DEF n
  <2>5. IntegersOn(f, s) /\ At(s, f) \in Int
    BY <2>1, <2>2, RowsAreIntegers
  <2>6. PICK b \in s : TRUE
    BY <2>2
  <2>7. Same(Q, At(s, f), p[n + 1]) /\ Same(Q, At(s \ {b}, f), p[n + 1])
    <3>1. Cardinality(s \ {b}) = Cardinality(s) - 1 /\ Cardinality(s) \in Nat
      BY <2>2, <2>6, FS_RemoveElement, FS_CardinalityType
    <3>2. Cardinality(s) > m /\ Cardinality(s \ {b}) > m /\ s \ {b} \in SUBSET Trustees
      BY <3>1
    <3>3. m <= T
      BY <1>1
    <3>4. \A r \in SUBSET Trustees :
            Cardinality(r) > m => Same(Q, At(r, Row(hs, T - m)), p[T - m])
      BY <1>5, <3>3
    <3> QED
      BY <2>1, <3>2, <3>4
  <2>8. \A i \in s : g[i] = i * f[i] /\ k[i] = 1 * g[i] + p[n] * Ones[i] /\ Ones[i] = 1
    BY <2>4 DEF Ones
  <2>9. ASSUME NEW i \in s
        PROVE  Same(Q, Row(hs, n)[i], k[i]) /\ g[i] \in Int
    <3>1. i \in Trustees /\ i \in Int /\ f[i] = hs[i][n + 1] /\ Row(hs, n)[i] = hs[i][n]
          /\ f[i] \in Int
      BY <2>4, <2>5 DEF Row, IntegersOn
    <3>2. Same(Q, hs[i][n], hs[i][n + 1] * i + p[n])
      BY <2>1, <3>1 DEF Tables, Horner
    <3>3. k[i] = 1 * (i * f[i]) + p[n] * 1 /\ g[i] = i * f[i]
      BY <2>8
    <3> HIDE DEF k, f, g
    <3>4. k[i] = f[i] * i + p[n] /\ g[i] \in Int
      BY <2>3, <3>1, <3>3
    <3> QED
      BY <3>1, <3>2, <3>4
  <2> HIDE DEF f, g, k
  <2>10. IntegersOn(g, s) /\ At(s, g) \in Int
    <3>1. IntegersOn(g, s)
      BY <2>9 DEF IntegersOn
    <3> QED
      BY <2>2, <3>1, AtType
  <2>11. Same(Q, At(s, Row(hs, n)), At(s, k))
    BY <2>2, <2>9, AtOfSame
  <2>12. At(s, k) = 1 * At(s, g) + p[n] * At(s, Ones)
    <3>1. Combination(k, 1, g, p[n], Ones, s)
      BY <2>2, <2>3, <2>8, <2>10 DEF Combination
    <3> QED
      BY <2>2, <3>1, AtIsLinear
  <2>13. Same(Q, b * At(s, f) - At(s, g), b * At(s \ {b}, f))
    BY <2>2, <2>5, <2>6, <2>8, Shift
  <2>14. Same(Q, At(s, g), 0)
    <3> DEFINE u == At(s, f)
               v == At(s \ {b}, f)
               w == At(s, g)
    <3>1. b \in Int /\ u \in Int /\ w \in Int /\ Same(Q, b, b)
      BY <2>4, <2>5, <2>6, <2>10, ModulusIsNumber, SameIsAnEquivalence
    <3>2. Same(Q, b * u, b * p[n + 1]) /\ Same(Q, b * v, b * p[n + 1])
      BY <2>7, <3>1, SameProducts
    <3>3. Same(Q, b * u - w, b * p[n + 1])
      BY <2>13, <3>2, SameIsAnEquivalence
    <3> HIDE DEF u, v, w
    <3>4. Same(Q, b * u - (b * u - w), b * p[n + 1] - b * p[n + 1])
      BY <3>2, <3>3, SameSums
    <3>5. b * u - (b * u - w) = w /\ b * p[n + 1] - b * p[n + 1] = 0
      BY <2>3, <3>1
    <3>6. Same(Q, w, 0)
      BY <3>4, <3>5
    <3> QED
      BY <3>6 DEF w
  <2>15. Same(Q, p[n] * At(s, Ones), p[n] * 1)
    BY <2>2, <2>3, ModulusIsNumber, SameIsAnEquivalence, SameProducts
  <2>16. Same(Q, At(s, g) + p[n] * At(s, Ones), 0 + p[n] * 1)
    BY <2>14, <2>15, SameSums
  <2>17. At(s, k) = At(s, g) + p[n] * At(s, Ones) /\ 0 + p[n] * 1 = p[n]
    BY <2>2, <2>3, <2>10, <2>12
  <2>18. Same(Q, At(s, Row(hs, n)), p[n])
    BY <2>11, <2>16, <2>17, SameIsAnEquivalence
  <2> QED
    BY <2>18 DEF n
<1>6. T \in Good
  <2> HIDE DEF Good
  <2> QED
    BY <1>1, <1>4, <1>5, NumberInduction
<1>7. T <= T /\ T - T = 0 /\ S \in SUBSET Trustees
  BY <1>1 DEF Nodes
<1> QED
  BY <1>6, <1>7

\* A quorum of shards determines the secret.
LEMMA ShardsDetermineSecret ==
  ASSUME AllDrawn, NEW S \in Quorums, NEW f, \A i \in Trustees : f[i] = ShardOf(i)
  PROVE  /\ Nodes(S) /\ IsFiniteSet(S) /\ IntegersOn(f, S)
         /\ At(S, f) \in Int /\ Same(Q, At(S, f), Secret)
<1> DEFINE Part(s) == [i \in Trustees |-> SumOver(SharesOf(i), s)]
           Good    == {s \in SUBSET Trustees : Same(Q, At(S, Part(s)), SumOver(Constants, s))}
<1>1. T \in Nat /\ IsFiniteSet(Trustees) /\ 0 \in Powers
  BY ThresholdNumbers
<1>2. S \subseteq Trustees /\ Nodes(S) /\ Cardinality(S) > T
  <2>1. S \in SUBSET Trustees /\ Cardinality(S) = T + 1
    BY DEF Quorums, kSubset
  <2> QED
    BY <1>1, <2>1 DEF Nodes
<1>3. IsFiniteSet(S)
  BY <1>2, NodesAreNumbers
<1>4. ASSUME NEW i \in Trustees
      PROVE  /\ SumOver(SharesOf(i), {}) = 0
             /\ \A s \in SUBSET Trustees : SumOver(SharesOf(i), s) \in Int
             /\ \A s \in SUBSET Trustees : \A x \in s :
                  SumOver(SharesOf(i), s) = SharesOf(i)[x] + SumOver(SharesOf(i), s \ {x})
  <2>1. IntegersOn(SharesOf(i), Trustees)
    BY PublicKeys
  <2> QED
    BY ONLY <1>1, <2>1, SumOfIntegers
<1>5. /\ SumOver(Constants, {}) = 0
      /\ \A s \in SUBSET Trustees : SumOver(Constants, s) \in Int
      /\ \A s \in SUBSET Trustees : \A x \in s :
           SumOver(Constants, s) = Constants[x] + SumOver(Constants, s \ {x})
  <2>1. IntegersOn(Constants, Trustees)
    BY <1>1, Coefficients DEF AllDrawn, Constants, IntegersOn
  <2> QED
    BY ONLY <1>1, <2>1, SumOfIntegers
<1>6. \A s \in SUBSET Trustees : IntegersOn(Part(s), S) /\ At(S, Part(s)) \in Int
  <2> SUFFICES ASSUME NEW s \in SUBSET Trustees
               PROVE  IntegersOn(Part(s), S) /\ At(S, Part(s)) \in Int
    OBVIOUS
  <2>1. IntegersOn(Part(s), S)
    BY <1>2, <1>4 DEF IntegersOn
  <2> HIDE DEF Part
  <2> QED
    BY <1>2, <2>1, AtType
<1>7. {} \in Good
  <2> DEFINE z == Part({})
  <2>1. IntegersOn(z, S) /\ At(S, z) \in Int
    BY <1>6
  <2>2. \A i \in S : z[i] = 0
    BY <1>2, <1>4
  <2> HIDE DEF z
  <2>3. Combination(z, 0, z, 0, z, S)
    BY <2>1, <2>2 DEF Combination
  <2>4. At(S, z) = 0 * At(S, z) + 0 * At(S, z)
    BY <1>2, <2>3, AtIsLinear
  <2>5. At(S, z) = 0
    BY <2>1, <2>4
  <2>6. Same(Q, At(S, z), SumOver(Constants, {}))
    BY <1>5, <2>5, ModulusIsNumber, SameIsAnEquivalence
  <2> QED
    BY <2>6 DEF z
<1>8. ASSUME NEW s \in SUBSET Trustees, NEW x \in s, s \ {x} \in Good
      PROVE  s \in Good
  <2> DEFINE t  == s \ {x}
             hs == [i \in Trustees |-> CHOOSE h : Horner(coeffs[x], i, h)
                                                  /\ CreateSecretShare(x, i) = h[0]]
             row == Row(hs, 0)
  <2>1. x \in Trustees /\ t \in SUBSET Trustees /\ coeffs[x] \in Polynomials
    BY DEF AllDrawn
  <2>2. ASSUME NEW i \in Trustees
        PROVE  Horner(coeffs[x], i, hs[i]) /\ CreateSecretShare(x, i) = hs[i][0]
    <3> DEFINE H(h) == Horner(coeffs[x], i, h) /\ CreateSecretShare(x, i) = h[0]
    <3>1. \E h : H(h)
      BY <2>1, ShareByHorner
    <3> HIDE DEF H
    <3>2. H(CHOOSE h : H(h))
      BY <3>1
    <3> QED
      BY <3>2 DEF H
  <2> HIDE DEF hs
  <2>3. Tables(coeffs[x], hs)
    BY <2>2 DEF Tables
  <2>4. Same(Q, At(S, row), coeffs[x][0])
    BY <1>2, <2>1, <2>3, Interpolation
  <2>5. IntegersOn(row, S) /\ At(S, row) \in Int
    BY <1>1, <1>2, <2>3, RowsAreIntegers
  <2>6. \A i \in Trustees : row[i] = SharesOf(i)[x]
    BY <2>1, <2>2 DEF Row, SharesOf
  <2>7. IntegersOn(Part(t), S) /\ At(S, Part(t)) \in Int
    BY <1>6, <2>1
  <2>8. ASSUME NEW i \in S
        PROVE  Part(s)[i] = 1 * row[i] + 1 * Part(t)[i]
    <3>1. i \in Trustees
      BY <1>2
    <3>2. SumOver(SharesOf(i), s) = SharesOf(i)[x] + SumOver(SharesOf(i), t)
      BY <1>4, <3>1
    <3>3. Part(s)[i] = SumOver(SharesOf(i), s) /\ Part(t)[i] = SumOver(SharesOf(i), t)
      BY <3>1
    <3>4. row[i] \in Int /\ Part(t)[i] \in Int
      BY <2>5, <2>7 DEF IntegersOn
    <3> HIDE DEF Part, t, row
    <3> QED
      BY <2>6, <3>1, <3>2, <3>3, <3>4
  <2> HIDE DEF Part, t, row
  <2>9. Combination(Part(s), 1, row, 1, Part(t), S)
    BY <2>5, <2>7, <2>8 DEF Combination
  <2>10. At(S, Part(s)) = 1 * At(S, row) + 1 * At(S, Part(t))
    BY <1>2, <2>9, AtIsLinear
  <2>11. At(S, Part(s)) = At(S, row) + At(S, Part(t))
    BY <2>5, <2>7, <2>10
  <2>12. Same(Q, At(S, Part(t)), SumOver(Constants, t))
    BY <1>8 DEF t
  <2>13. Same(Q, At(S, row) + At(S, Part(t)), coeffs[x][0] + SumOver(Constants, t))
    BY <2>4, <2>12, SameSums
  <2>14. SumOver(Constants, s) = coeffs[x][0] + SumOver(Constants, t)
    BY <1>5, <2>1 DEF Constants, t
  <2> QED
    BY <2>11, <2>13, <2>14
<1>9. Same(Q, At(S, Part(Trustees)), Secret)
  <2> HIDE DEF Good
  <2>1. \A s \in SUBSET Trustees : s \in Good
    BY <1>1, <1>7, <1>8, ElementInduction
  <2>2. Trustees \in Good
    BY <2>1
  <2> QED
    BY <2>2 DEF Good, Secret
<1>10. ASSUME NEW i \in S
       PROVE  Same(Q, f[i], Part(Trustees)[i]) /\ f[i] \in Int
  <2>1. i \in Trustees /\ Trustees \in SUBSET Trustees
    BY <1>2
  <2>2. SumOver(SharesOf(i), Trustees) \in Int
    BY <1>4, <2>1
  <2>3. Same(Q, ShardOf(i), SumOver(SharesOf(i), Trustees)) /\ ShardOf(i) \in Int
    BY <2>1, <2>2, PublicKeys, ModulusIsNumber, ResidueOfResidue DEF ShardOf
  <2> QED
    BY <2>1, <2>3
<1> HIDE DEF Part
<1>11. IntegersOn(f, S)
  BY <1>10 DEF IntegersOn
<1>12. At(S, f) \in Int /\ Same(Q, At(S, f), At(S, Part(Trustees)))
  BY <1>2, <1>10, <1>11, AtType, AtOfSame
<1> QED
  BY <1>2, <1>3, <1>9, <1>11, <1>12, SameIsAnEquivalence

-----------------------------------------------------------------------------
(***************************************************************************)
(* Ciphertexts and proofs                                                  *)
(***************************************************************************)
\* Whatever is drawn is an exponent.
LEMMA DrawnAreExponents ==
  /\ \A d \in Drawn : d \in Residues(Q) /\ d \in 0 .. Q /\ d \in Int /\ d \in Exponents
  /\ \A draw \in Draws : draw.w \in Drawn /\ draw.answer \in Drawn
  /\ \A draw \in OrDraws :
       /\ draw.w \in Drawn /\ draw.answer \in Drawn
       /\ \A i \in 0 .. MaxChoices : draw.C[i] \in Drawn /\ draw.R[i] \in Drawn
<1>1. ASSUME NEW d \in Drawn
      PROVE  d \in Residues(Q) /\ d \in 0 .. Q /\ d \in Int /\ d \in Exponents
  BY DrawnAssumption, ModulusIsNumber DEF Exponents, Residues
<1>2. \A draw \in Draws : draw.w \in Drawn /\ draw.answer \in Drawn
  BY DEF Draws
<1>3. \A draw \in OrDraws :
        /\ draw.w \in Drawn /\ draw.answer \in Drawn
        /\ \A i \in 0 .. MaxChoices : draw.C[i] \in Drawn /\ draw.R[i] \in Drawn
  BY OrDrawsAssumption
<1> QED
  BY <1>1, <1>2, <1>3

\* The text of G^m under the public key, with r as its random number.
Text(m, r) == [A |-> X(r), B |-> X(m + Secret * r)]

\* Whichever quorum it is, its parts combine to the plaintext.
LEMMA QuorumDecrypts ==
  ASSUME AllDrawn, NEW S \in Quorums, NEW m \in Int, NEW r \in Int,
         NEW parts, \A i \in S : parts[i] = Exp(X(r), ShardOf(i))
  PROVE  ThresholdDecrypt(Text(m, r), parts, S) = X(m)
<1> DEFINE f == [i \in Trustees |-> ShardOf(i)]
           w == Weighted(S, f)
           g == [j \in S |-> r * w[j] + 0 * w[j]]
           e == [j \in S |-> Exp(parts[j], Lagrange(S, j))]
<1>1. Nodes(S) /\ IsFiniteSet(S) /\ IntegersOn(f, S) /\ At(S, f) \in Int /\ Same(Q, At(S, f), Secret)
  BY ShardsDetermineSecret
<1>2. Secret \in Int
  BY PublicKeys
<1>3. IntegersOn(w, S)
  BY <1>1, AtType
<1>4. ASSUME NEW j \in S
      PROVE  e[j] = X(g[j]) /\ g[j] \in Int
  <2>1. j \in Trustees /\ ShardOf(j) \in Residues(Q) /\ ShardOf(j) \in Int
    BY <1>1, PublicKeys DEF Nodes
  <2>2. Lagrange(S, j) \in Residues(Q) /\ Lagrange(S, j) \in Int
    BY <1>1, LagrangeType
  <2>3. ShardOf(j) \in 0 .. Q /\ Lagrange(S, j) \in 0 .. Q
    BY <2>1, <2>2, ModulusIsNumber DEF Residues
  <2>9. r * ShardOf(j) \in Int /\ parts[j] = Exp(X(r), ShardOf(j))
    BY <2>1
  <2>4. parts[j] = X(r * ShardOf(j)) /\ r * ShardOf(j) \in Int
    BY <2>3, <2>9, XPowers
  <2>5. Exp(X(r * ShardOf(j)), Lagrange(S, j)) = X((r * ShardOf(j)) * Lagrange(S, j))
    BY <2>3, <2>4, XPowers
  <2>6. e[j] = X((r * ShardOf(j)) * Lagrange(S, j))
    BY <2>4, <2>5
  <2>7. w[j] = Lagrange(S, j) * ShardOf(j) /\ g[j] = r * w[j] + 0 * w[j]
    BY <2>1 DEF Weighted
  <2> HIDE DEF w, g, e
  <2>8. g[j] = (r * ShardOf(j)) * Lagrange(S, j) /\ g[j] \in Int
    BY <2>1, <2>2, <2>7
  <2> QED
    BY <2>6, <2>8
<1>5. \A j \in S : g[j] = r * w[j] + 0 * w[j]
  OBVIOUS
<1>6. At(S, f) = SumOver(w, S)
  BY DEF At
<1>7. Product([j \in S |-> Exp(parts[j], Lagrange(S, j))], P) = ProductOver(e, S, P)
  BY DEF ProductOver
<1> HIDE DEF e, g, w, f
<1>8. ProductOver(e, S, P) = X(SumOver(g, S))
  <2>1. IntegersOn(g, S)
    BY <1>4 DEF IntegersOn
  <2> QED
    BY <1>1, <1>4, <2>1, ProductOfPowers
<1>9. SumOver(g, S) = r * SumOver(w, S) + 0 * SumOver(w, S)
  <2>1. Combination(g, r, w, 0, w, S)
    BY <1>3, <1>5 DEF Combination
  <2> QED
    BY <1>1, <2>1, SumIsLinear
<1>10. SumOver(g, S) = r * At(S, f)
  BY <1>1, <1>6, <1>9
<1>11. X(r * At(S, f)) = X(r * Secret)
  <2>1. Same(Q, r * At(S, f), r * Secret)
    BY <1>1, ModulusIsNumber, SameIsAnEquivalence, SameProducts
  <2> QED
    BY <2>1, XAdd
<1>12. ThresholdDecrypt(Text(m, r), parts, S) = Over(X(m + Secret * r), X(r * Secret))
  BY <1>7, <1>8, <1>10, <1>11 DEF ThresholdDecrypt, Text
<1>13. m + Secret * r \in Int /\ r * Secret \in Int /\ (m + Secret * r) - r * Secret = m
  BY <1>2
<1> QED
  BY <1>12, <1>13, XPowers

\* An honest signature verifies.
LEMMA SignatureVerifies ==
  ASSUME NEW x \in Int, NEW draw \in Draws
  PROVE  VerifySignature(X(x), CreateSignature(x, draw))
<1> DEFINE w == draw.w
           C == draw.answer
<1>1. w \in 0 .. Q /\ C \in 0 .. Q /\ w \in Int /\ C \in Int
  BY DrawnAreExponents
<1>2. CreateSignature(x, draw) = [C |-> C, R |-> (w - x * C) % Q, asked |-> Exp(G, w)]
  BY DEF CreateSignature
<1> HIDE DEF w, C
<1>3. x * C \in Int /\ w - x * C \in Int /\ (w - x * C) + x * C = w
  BY <1>1
<1>4. Exp(G, (w - x * C) % Q) = X(w - x * C)
  BY DEF X
<1>5. Exp(X(x), C) = X(x * C) /\ Exp(G, w) = X(w)
  BY <1>1, XPowers, XSteps
<1>6. (X(w - x * C) * X(x * C)) % P = X(w)
  BY <1>3, XAdd
<1>7. X(x) \in 1 .. P - 1
  BY XPowers
<1> QED
  BY <1>2, <1>4, <1>5, <1>6, <1>7 DEF VerifySignature, PublicKeyValid

\* So does an honest proof that two logarithms are the same.
LEMMA ProofVerifies ==
  ASSUME NEW a \in Int, NEW x \in Int, NEW w \in Residues(Q), NEW C \in Residues(Q),
         NEW gx, gx = X(x), NEW hx, hx = X(a * x)
  PROVE  VerifyZKP(CreateZKP(X(a), x, w, C), X(a), gx, hx)
<1> DEFINE s == w + x * C
           R == s % Q
<1>1. w \in 0 .. Q /\ C \in 0 .. Q /\ w \in Int /\ C \in Int
  BY ModulusIsNumber DEF Residues
<1>2. s \in Int /\ x * C \in Int /\ a * x \in Int /\ a * w \in Int /\ (a * x) * C \in Int
      /\ a * w + (a * x) * C = a * s
  BY <1>1
<1>3. CreateZKP(X(a), x, w, C) = [A |-> Exp(G, w), B |-> Exp(X(a), w), C |-> C, R |-> R]
  BY DEF CreateZKP
<1>4. s = w + x * C
  OBVIOUS
<1>5. Exp(G, R) = X(s)
  BY DEF X
<1> HIDE DEF s
<1>6. R \in Residues(Q) /\ R \in Int /\ Same(Q, R, s)
  BY <1>2, ModulusIsNumber, Division, ResidueOfResidue
<1>7. R \in 0 .. Q
  BY <1>6, ModulusIsNumber DEF Residues
<1> HIDE DEF R
<1>8. Exp(G, w) = X(w) /\ Exp(X(a), w) = X(a * w) /\ Exp(X(a), R) = X(a * R)
  BY <1>1, <1>7, XSteps, XPowers
<1>9. Exp(gx, C) = X(x * C) /\ Exp(hx, C) = X((a * x) * C)
  BY <1>1, <1>2, XPowers
<1>10. X(a * R) = X(a * s)
  <2>1. Same(Q, a * R, a * s)
    BY <1>6, ModulusIsNumber, SameIsAnEquivalence, SameProducts
  <2> QED
    BY <2>1, XAdd
<1>11. (X(w) * X(x * C)) % P = X(s) /\ (X(a * w) * X((a * x) * C)) % P = X(a * s)
  <2>1. (X(w) * X(x * C)) % P = X(w + x * C)
    BY <1>1, <1>2, XAdd
  <2>2. (X(a * w) * X((a * x) * C)) % P = X(a * w + (a * x) * C)
    BY <1>2, XAdd
  <2> QED
    BY <1>2, <1>4, <2>1, <2>2
<1> QED
  BY <1>3, <1>5, <1>8, <1>9, <1>10, <1>11 DEF VerifyZKP

\* A fake verifies too, for whatever plaintext it is made.
LEMMA FakeVerifies ==
  ASSUME NEW a \in Int, NEW r \in Int, NEW n \in Int, NEW i \in Int, NEW C \in Drawn, NEW R \in Drawn,
         NEW ct, ct = [A |-> X(r), B |-> X(n)]
  PROVE  VerifyZKP(FakeEncZKP(X(a), ct, X(i), C, R), X(a), ct.A, Over(ct.B, X(i)))
<1> DEFINE h == n - i
<1>1. R \in 0 .. Q /\ C \in 0 .. Q /\ R \in Int /\ C \in Int
  BY DrawnAreExponents
<1>2. h \in Int /\ ct.A = X(r) /\ Over(ct.B, X(i)) = X(h)
  BY XPowers
<1>3. FakeEncZKP(X(a), ct, X(i), C, R)
        = [A |-> Over(Exp(G, R), Exp(X(r), C)), B |-> Over(Exp(X(a), R), Exp(X(h), C)),
           C |-> C, R |-> R]
  BY <1>2 DEF FakeEncZKP
<1> HIDE DEF h
<1>4. r * C \in Int /\ h * C \in Int /\ a * R \in Int /\ R - r * C \in Int /\ a * R - h * C \in Int
      /\ (R - r * C) + r * C = R /\ (a * R - h * C) + h * C = a * R
  BY <1>1, <1>2
<1>5. /\ Exp(G, R) = X(R) /\ Exp(X(r), C) = X(r * C)
      /\ Exp(X(a), R) = X(a * R) /\ Exp(X(h), C) = X(h * C)
  BY <1>1, <1>2, XSteps, XPowers
<1>6. Over(X(R), X(r * C)) = X(R - r * C) /\ Over(X(a * R), X(h * C)) = X(a * R - h * C)
  BY <1>1, <1>4, XPowers
<1>7. (X(R - r * C) * X(r * C)) % P = X(R) /\ (X(a * R - h * C) * X(h * C)) % P = X(a * R)
  BY <1>4, XAdd
<1> QED
  BY <1>2, <1>3, <1>5, <1>6, <1>7 DEF VerifyZKP

\* And the OR proof of an honest voter verifies.
LEMMA EncryptionVerifies ==
  ASSUME Secret \in Int, NEW max \in 0 .. MaxChoices, NEW m \in 0 .. max,
         NEW draw \in OrDraws, NEW r \in Int, NEW rnd \in Int, Same(Q, r, rnd)
  PROVE  LET y  == X(Secret)
             ct == Text(m, r)
         IN  VerifyEncryptionProof(ProveEncryption(y, ct, Options(max), m, rnd, draw),
                                   draw.answer, y, ct, Options(max))
<1> DEFINE y  == X(Secret)
           ct == Text(m, r)
           D  == 0 .. max
           o  == D \ {m}
           options == Options(max)
           fakes == [i \in o |-> FakeEncZKP(y, ct, options[i], draw.C[i], draw.R[i])]
           taken == Sum([i \in o |-> fakes[i].C])
           C     == (draw.answer - taken) % Q
           real  == CreateZKP(y, rnd, draw.w, C)
           zkp   == [i \in D |-> IF i = m THEN real ELSE fakes[i]]
           cs    == [i \in D |-> zkp[i].C]
           n     == m + Secret * r
<1>1. Q \in Nat /\ Q > 0 /\ IsFiniteSet(D) /\ IsFiniteSet(o) /\ m \in D /\ m \in Int
      /\ \A i \in D : i \in 0 .. Q /\ i \in Int
  <2>1. Q \in Nat /\ Q > 0 /\ max \in Int /\ m \in D /\ m \in Int
        /\ \A i \in D : i \in 0 .. Q /\ i \in Int
    BY ModulusIsNumber, BallotsAssumption
  <2>2. IsFiniteSet(D)
    BY <2>1, FS_Interval
  <2>3. IsFiniteSet(o)
    BY <2>2, FS_Subset
  <2> QED
    BY <2>1, <2>2, <2>3
<1>2. /\ draw.answer \in Residues(Q) /\ draw.w \in Residues(Q) /\ draw.answer \in Int
      /\ \A i \in o : draw.C[i] \in Drawn /\ draw.R[i] \in Drawn /\ draw.C[i] \in Int
  <2>1. \A i \in o : i \in 0 .. MaxChoices
    BY <1>1, BallotsAssumption
  <2> QED
    BY <2>1, DrawnAreExponents
<1>3. DOMAIN options = D /\ \A i \in D : options[i] = X(i)
  BY <1>1, XSteps DEF Options
<1>4. zkp = ProveEncryption(y, ct, Options(max), m, rnd, draw)
  BY <1>3 DEF ProveEncryption
<1>5. n \in Int /\ ct = [A |-> X(r), B |-> X(n)]
  BY <1>1 DEF Text
<1>6. \A i \in o : zkp[i] = FakeEncZKP(y, ct, X(i), draw.C[i], draw.R[i]) /\ zkp[i].C = draw.C[i]
  BY <1>3 DEF FakeEncZKP
<1>7. zkp[m] = real /\ real.C = C
  BY <1>1 DEF CreateZKP
<1>8. \A i \in o : cs[i] = draw.C[i]
  BY <1>6
<1>9. cs[m] = C
  BY <1>1, <1>7
<1>10. taken = SumOver(cs, o) % Q
  <2>1. [i \in o |-> fakes[i].C] = [i \in o |-> cs[i]]
    BY <1>6
  <2> QED
    BY <2>1 DEF Sum, SumOver
<1>11. SumOver(cs, o) \in Int
  <2>1. IntegersOn(cs, o)
    BY <1>2, <1>8 DEF IntegersOn
  <2> HIDE DEF cs
  <2> QED
    BY <1>1, <2>1, SumOfIntegers
<1>12. C \in Residues(Q) /\ C \in Int /\ Same(Q, C, draw.answer - SumOver(cs, o))
  <2> DEFINE z == SumOver(cs, o)
  <2> HIDE DEF z
  <2>1. z \in Int /\ taken = z % Q
    BY <1>10, <1>11 DEF z
  <2> HIDE DEF taken
  <2>2. taken \in Int /\ Same(Q, taken, z)
    BY ONLY <2>1, ModulusIsNumber, Division, ResidueOfResidue
  <2>3. Same(Q, draw.answer - taken, draw.answer - z) /\ draw.answer - taken \in Int
    BY <1>2, <2>2, ModulusIsNumber, SameIsAnEquivalence, SameSums
  <2>4. C \in Residues(Q) /\ C \in Int /\ Same(Q, C, draw.answer - taken)
    <3> DEFINE d == draw.answer - taken
    <3>1. d \in Int /\ C = d % Q
      BY <2>3
    <3> HIDE DEF d, C
    <3>2. C \in Residues(Q) /\ C \in Int /\ Same(Q, C, d)
      BY ONLY <3>1, ModulusIsNumber, Division, ResidueOfResidue
    <3> QED
      BY <3>2 DEF d
  <2>5. Same(Q, C, draw.answer - z)
    BY <2>3, <2>4, SameIsAnEquivalence
  <2> QED
    BY <2>4, <2>5 DEF z
<1>13. IntegersOn(cs, D)
  <2>1. \A i \in D : i = m \/ i \in o
    OBVIOUS
  <2> HIDE DEF cs
  <2> QED
    BY <1>2, <1>8, <1>9, <1>12, <2>1 DEF IntegersOn
<1>14. Sum(cs) = draw.answer
  <2>1. cs \in [D -> Int]
    BY <1>13 DEF IntegersOn
  <2>2. Sum(cs) = SumOver(cs, D) % Q
    BY <2>1, TotalIsSum DEF Sum
  <2> HIDE DEF cs
  <2>3. D \in SUBSET D /\ o = D \ {m}
    OBVIOUS
  <2> HIDE DEF D, o
  <2>4. SumOver(cs, D) = cs[m] + SumOver(cs, o)
    BY ONLY <1>1, <1>13, <2>3, SumOfIntegers
  <2> DEFINE z == SumOver(cs, o)
  <2>5. SumOver(cs, D) = C + z /\ z \in Int /\ Same(Q, C, draw.answer - z) /\ C \in Int
    BY <1>9, <1>11, <1>12, <2>4
  <2> HIDE DEF z, C
  <2>6. Same(Q, C + z, (draw.answer - z) + z)
    BY <2>5, ModulusIsNumber, SameIsAnEquivalence, SameSums
  <2>7. (draw.answer - z) + z = draw.answer
    BY <1>2, <2>5
  <2>8. draw.answer % Q = draw.answer
    BY <1>2, ModulusIsNumber, ResidueOfResidue
  <2> QED
    BY <2>2, <2>5, <2>6, <2>7, <2>8 DEF Same
<1>15. ASSUME NEW i \in D
       PROVE  VerifyZKP(zkp[i], y, ct.A, Over(ct.B, options[i]))
  <2>1. i \in Int /\ options[i] = X(i)
    BY <1>1, <1>3
  <2>2. CASE i = m
    <3>1. n - m = Secret * r /\ Secret * r \in Int
      BY <1>1
    <3>2. Over(ct.B, X(m)) = X(n - m)
      BY <1>1, <1>5, XPowers
    <3>3. ct.A = X(rnd)
      BY <1>5, XAdd
    <3>4. X(Secret * r) = X(Secret * rnd)
      <4>1. Same(Q, Secret * r, Secret * rnd)
        BY ModulusIsNumber, SameIsAnEquivalence, SameProducts
      <4> QED
        BY <4>1, XAdd
    <3>5. Over(ct.B, X(m)) = X(Secret * rnd)
      BY <3>1, <3>2, <3>4
    <3> HIDE DEF ct, C
    <3>6. VerifyZKP(CreateZKP(X(Secret), rnd, draw.w, C), X(Secret), ct.A, Over(ct.B, X(m)))
      BY <1>2, <1>12, <3>3, <3>5, ProofVerifies
    <3> QED
      BY <1>7, <2>1, <2>2, <3>6
  <2>3. CASE i # m
    <3>1. i \in o
      BY <2>3
    <3>2. VerifyZKP(FakeEncZKP(X(Secret), ct, X(i), draw.C[i], draw.R[i]), X(Secret),
                    ct.A, Over(ct.B, X(i)))
      <4> HIDE DEF ct, n
      <4> QED
        BY <1>2, <1>5, <2>1, <3>1, FakeVerifies
    <3> QED
      BY <1>6, <2>1, <3>1, <3>2
  <2> QED
    BY <2>2, <2>3
<1>16. DOMAIN zkp = DOMAIN options /\ DOMAIN zkp = D
  BY <1>3
<1> HIDE DEF zkp
<1>17. VerifyEncryptionProof(zkp, draw.answer, y, ct, options)
  <2>1. [i \in DOMAIN zkp |-> zkp[i].C] = cs
    BY <1>16
  <2> HIDE DEF cs, options, ct, y, D
  <2> QED
    BY <1>14, <1>15, <1>16, <2>1 DEF VerifyEncryptionProof
<1> QED
  BY <1>4, <1>17

\* Multiplying texts adds what is in them.
LEMMA MulTexts ==
  ASSUME Secret \in Int, NEW m \in Int, NEW r \in Int
  PROVE  /\ Text(m, r) # EmptyCipher
         /\ Text(m, r) \in CipherTexts
         /\ Mul(EmptyCipher, Text(m, r)) = Text(m, r)
         /\ \A n \in Int : \A k \in Int : Mul(Text(n, k), Text(m, r)) = Text(n + m, k + r)
<1>1. \A n \in Int : \A k \in Int : n + Secret * k \in Int
  OBVIOUS
<1>2. \A e \in Int : X(e) \in 1 .. P - 1 /\ X(e) \in 0 .. P - 1 /\ X(e) # 0
  BY XPowers, XType
<1>3. ASSUME NEW n \in Int, NEW k \in Int
      PROVE  Text(n, k) # EmptyCipher /\ Text(n, k) \in CipherTexts
  <2>1. Text(n, k).A = X(k) /\ EmptyCipher.A = 0
    BY DEF Text, EmptyCipher
  <2>2. X(k) # 0 /\ X(k) \in 1 .. P - 1 /\ X(n + Secret * k) \in 0 .. P - 1
    BY <1>1, <1>2
  <2> QED
    BY <2>1, <2>2 DEF Text, CipherTexts
<1>4. ASSUME NEW n \in Int, NEW k \in Int
      PROVE  Mul(Text(n, k), Text(m, r)) = Text(n + m, k + r)
  <2> DEFINE e == n + Secret * k
             f == m + Secret * r
  <2>1. (n + m) + Secret * (k + r) = e + f /\ e \in Int /\ f \in Int
    BY <1>1
  <2>2. Text(n, k) = [A |-> X(k), B |-> X(e)] /\ Text(m, r) = [A |-> X(r), B |-> X(f)]
    BY DEF Text
  <2>3. Text(n + m, k + r) = [A |-> X(k + r), B |-> X(e + f)]
    BY <2>1 DEF Text
  <2> HIDE DEF e, f
  <2>4. (X(k) * X(r)) % P = X(k + r) /\ (X(e) * X(f)) % P = X(e + f)
    BY <2>1, XAdd
  <2>5. Mul(Text(n, k), Text(m, r)) = [A |-> (X(k) * X(r)) % P, B |-> (X(e) * X(f)) % P]
    BY <1>3, <2>2 DEF Mul
  <2> QED
    BY <2>3, <2>4, <2>5
<1>5. Mul(EmptyCipher, Text(m, r)) = Text(m, r)
  BY DEF Mul
<1> QED
  BY <1>3, <1>4, <1>5

\* So does multiplying many.
LEMMA ProductOfTexts ==
  ASSUME Secret \in Int, NEW S, IsFiniteSet(S), S # {},
         NEW m, IntegersOn(m, S), NEW r, IntegersOn(r, S)
  PROVE  ProductOf([c \in S |-> Text(m[c], r[c])]) = Text(SumOver(m, S), SumOver(r, S))
<1> DEFINE texts == [c \in S |-> Text(m[c], r[c])]
           g == [t \in SUBSET S |-> IF t = {} THEN EmptyCipher
                                    ELSE Text(SumOver(m, t), SumOver(r, t))]
           Products(k) == k = [t \in SUBSET S |->
                                 IF t = {} THEN EmptyCipher
                                 ELSE Mul(k[t \ {Pick(t)}], texts[Pick(t)])]
<1>1. /\ SumOver(m, {}) = 0
      /\ \A s \in SUBSET S : SumOver(m, s) \in Int
      /\ \A s \in SUBSET S : \A x \in s : SumOver(m, s) = m[x] + SumOver(m, s \ {x})
  BY ONLY IsFiniteSet(S), IntegersOn(m, S), SumOfIntegers
<1>2. /\ SumOver(r, {}) = 0
      /\ \A s \in SUBSET S : SumOver(r, s) \in Int
      /\ \A s \in SUBSET S : \A x \in s : SumOver(r, s) = r[x] + SumOver(r, s \ {x})
  BY ONLY IsFiniteSet(S), IntegersOn(r, S), SumOfIntegers
<1>3. \A c \in S : m[c] \in Int /\ r[c] \in Int /\ texts[c] = Text(m[c], r[c])
  BY DEF IntegersOn
<1>4. \A t \in SUBSET S : g[t] = IF t = {} THEN EmptyCipher ELSE Text(SumOver(m, t), SumOver(r, t))
  OBVIOUS
<1> HIDE DEF texts
<1>5. ASSUME NEW t \in SUBSET S
      PROVE  g[t] = IF t = {} THEN EmptyCipher ELSE Mul(g[t \ {Pick(t)}], texts[Pick(t)])
  <2>1. CASE t = {}
    BY <1>4, <2>1
  <2>2. CASE t # {}
    <3> DEFINE x == Pick(t)
               u == t \ {x}
    <3>1. x \in t
      BY <2>2 DEF Pick
    <3>2. x \in S /\ u \in SUBSET S
      BY <3>1
    <3>3. SumOver(m, t) = m[x] + SumOver(m, u) /\ SumOver(r, t) = r[x] + SumOver(r, u)
      BY <1>1, <1>2, <3>1
    <3>4. m[x] \in Int /\ r[x] \in Int /\ texts[x] = Text(m[x], r[x])
          /\ SumOver(m, u) \in Int /\ SumOver(r, u) \in Int
      BY <1>1, <1>2, <1>3, <3>2
    <3>5. g[t] = Text(SumOver(m, t), SumOver(r, t))
      BY <1>4, <2>2
    <3>6. g[u] = IF u = {} THEN EmptyCipher ELSE Text(SumOver(m, u), SumOver(r, u))
      BY <1>4, <3>2
    <3>10. u = {} => SumOver(m, u) = 0 /\ SumOver(r, u) = 0
      BY <1>1, <1>2
    <3> HIDE DEF x, u, g
    <3>7. CASE u = {}
      <4>1. SumOver(m, t) = m[x] /\ SumOver(r, t) = r[x]
        BY <3>3, <3>4, <3>7, <3>10
      <4>2. Mul(g[u], texts[x]) = Text(m[x], r[x])
        BY <3>4, <3>6, <3>7, MulTexts
      <4>3. g[t] = Mul(g[u], texts[x])
        BY <3>5, <4>1, <4>2
      <4> QED
        BY <2>2, <4>3 DEF x, u
    <3>8. CASE u # {}
      <4>1. Mul(g[u], texts[x]) = Text(SumOver(m, u) + m[x], SumOver(r, u) + r[x])
        <5>1. g[u] = Text(SumOver(m, u), SumOver(r, u))
          BY <3>6, <3>8
        <5>2. \A n \in Int : \A k \in Int :
                Mul(Text(n, k), Text(m[x], r[x])) = Text(n + m[x], k + r[x])
          BY <3>4, MulTexts
        <5> QED
          BY <3>4, <5>1, <5>2
      <4>2. SumOver(m, u) + m[x] = SumOver(m, t) /\ SumOver(r, u) + r[x] = SumOver(r, t)
        BY <3>3, <3>4
      <4>3. g[t] = Mul(g[u], texts[x])
        BY <3>5, <4>1, <4>2
      <4> QED
        BY <2>2, <4>3 DEF x, u
    <3> QED
      BY <3>7, <3>8
  <2> QED
    BY <2>1, <2>2
<1>6. Products(g)
  <2>1. g = [t \in SUBSET S |-> g[t]]
    OBVIOUS
  <2> HIDE DEF g
  <2> QED
    BY <1>5, <2>1
<1> DEFINE h == CHOOSE k : Products(k)
<1>7. Products(h)
  <2> HIDE DEF Products
  <2> QED
    BY <1>6, Zenon
<1>8. ProductOf(texts) = h[S]
  <2>1. DOMAIN texts = S
    BY DEF texts
  <2> QED
    BY <2>1 DEF ProductOf, FoldFunction, FoldFunctionOnSet, MapThenFoldSet, Pick
<1> DEFINE Good == {t \in SUBSET S : h[t] = g[t]}
<1>9. ASSUME NEW t \in SUBSET S, \A u \in SUBSET t : u # t => u \in Good
      PROVE  t \in Good
  <2> HIDE DEF h, g
  <2>1. h[t] = IF t = {} THEN EmptyCipher ELSE Mul(h[t \ {Pick(t)}], texts[Pick(t)])
    BY <1>7
  <2>2. t # {} => t \ {Pick(t)} \in Good
    BY <1>9 DEF Pick
  <2>3. h[t] = g[t]
    BY <1>5, <2>1, <2>2
  <2> QED
    BY <2>3
<1>10. S \in Good
  <2> HIDE DEF Good
  <2>1. \A t \in SUBSET S : t \in Good
    BY <1>9, SubsetInduction
  <2> QED
    BY <2>1
<1> QED
  BY <1>4, <1>8, <1>10 DEF texts

-----------------------------------------------------------------------------
(***************************************************************************)
(* The table of logarithms: it holds the powers up to the one it has reached, *)
(* each with its exponent.                                                 *)
(***************************************************************************)
IsTable(c, l, t) ==
  /\ c \in 0 .. Reach(MaxBallots) /\ l = X(c)
  /\ DOMAIN t = {X(k) : k \in 0 .. c}
  /\ \A k \in 0 .. c : t[X(k)] = k

\* No number of ballots, and no position in the table, reaches the order.
LEMMA Limits ==
  /\ MaxBallots \in Nat /\ Reach(MaxBallots) \in Nat /\ Reach(MaxBallots) < Q
  /\ \A m \in 0 .. MaxBallots :
       Reach(m) \in Nat /\ Reach(m) <= Reach(MaxBallots) /\ m < Reach(m) /\ m \in Nat
BY BallotsAssumption, ModulusIsNumber DEF Reach

\* A power has one logarithm below the order.
LEMMA LogarithmsAreUnique ==
  ASSUME NEW j \in 0 .. Q - 1, NEW k \in 0 .. Q - 1, X(j) = X(k)
  PROVE  j = k
<1>1. j \in Residues(Q) /\ k \in Residues(Q) /\ j \in Int /\ k \in Int
  BY ModulusIsNumber DEF Residues
<1>2. Same(Q, j, k)
  BY <1>1, XInjective
<1>3. j % Q = j /\ k % Q = k
  BY <1>1, ModulusIsNumber, ResidueOfResidue
<1> QED
  BY <1>2, <1>3 DEF Same

\* A table that has just been opened.
LEMMA FirstTable == IsTable(0, 1, [v \in {1} |-> 0])
<1>1. 0 \in 0 .. Reach(MaxBallots) /\ X(0) = 1
  BY Limits, XSteps
<1>2. {X(k) : k \in 0 .. 0} = {1}
  BY <1>1
<1>3. \A k \in 0 .. 0 : k = 0
  OBVIOUS
<1> QED
  BY <1>1, <1>2, <1>3 DEF IsTable

\* A query for a power no higher than the limit is answered with its exponent, and
\* leaves a table.
LEMMA QueryAnswers ==
  ASSUME IsTable(counter, last, cache), NEW max \in 0 .. MaxBallots, NEW n \in 0 .. max,
         Query(max, X(n))
  PROVE  IsTable(counter', last', cache') /\ Answer(X(n)) = n
<1>1. /\ counter \in 0 .. Reach(MaxBallots) /\ last = X(counter)
      /\ DOMAIN cache = {X(k) : k \in 0 .. counter}
      /\ \A k \in 0 .. counter : cache[X(k)] = k
  BY DEF IsTable
<1>2. /\ Reach(MaxBallots) \in Nat /\ Reach(MaxBallots) < Q /\ Q \in Nat
      /\ Reach(max) \in Nat /\ Reach(max) <= Reach(MaxBallots) /\ max < Reach(max) /\ max \in Nat
  BY Limits, ModulusIsNumber
<1>3. counter \in Nat /\ counter < Q /\ n \in Nat /\ n < Reach(max) /\ n < Q /\ n \in 0 .. Q - 1
  BY <1>1, <1>2
<1>4. CASE QueryHit(X(n))
  <2>1. X(n) \in DOMAIN cache /\ counter' = counter /\ last' = last /\ cache' = cache
    BY <1>4 DEF QueryHit, dlogVars
  <2>2. PICK k \in 0 .. counter : X(n) = X(k)
    BY <1>1, <2>1
  <2>3. k \in 0 .. Q - 1
    BY <1>2, <1>3
  <2>4. n = k
    BY <1>3, <2>2, <2>3, LogarithmsAreUnique
  <2>5. Answer(X(n)) = n
    BY <1>1, <2>1, <2>4 DEF Answer
  <2> QED
    BY <2>1, <2>5
<1>5. CASE QueryMiss(max, X(n))
  <2> DEFINE pow(k) == (last * Exp(G, k - counter)) % P
             to == IF Found(max, X(n)) = {} THEN Reach(max) ELSE Min(Found(max, X(n)))
             new == Entries(to)
  <2>1. /\ X(n) \notin DOMAIN cache /\ counter' = to /\ last' = pow(to)
        /\ cache' = [v \in DOMAIN new \cup DOMAIN cache |->
                       IF v \in DOMAIN new THEN new[v] ELSE cache[v]]
    BY <1>5 DEF QueryMiss
  <2>2. n \in counter + 1 .. Reach(max)
    <3>1. n \notin 0 .. counter
      BY <1>1, <2>1
    <3> QED
      BY <1>2, <1>3, <3>1
  <2>3. ASSUME NEW k \in counter + 1 .. Reach(max)
        PROVE  pow(k) = X(k) /\ k \in 0 .. Q - 1
    <3>1. k - counter \in 0 .. Q /\ k - counter \in Int /\ counter \in Int
          /\ counter + (k - counter) = k /\ k \in 0 .. Q - 1
      BY <1>2, <1>3
    <3>2. Exp(G, k - counter) = X(k - counter)
      BY <3>1, XSteps
    <3>3. (X(counter) * X(k - counter)) % P = X(counter + (k - counter))
      BY <3>1, XAdd
    <3> QED
      BY <1>1, <3>1, <3>2, <3>3
  <2>4. Found(max, X(n)) = {n}
    <3>1. \A k \in counter + 1 .. Reach(max) : pow(k) = X(n) => k = n
      BY <1>3, <2>3, LogarithmsAreUnique
    <3>2. pow(n) = X(n)
      BY <2>2, <2>3
    <3>3. Found(max, X(n)) = {k \in counter + 1 .. Reach(max) : pow(k) = X(n)}
      BY DEF Found
    <3> HIDE DEF pow
    <3> QED
      BY <2>2, <3>1, <3>2, <3>3
  <2>5. to = n
    <3>1. Min({n}) = n
      BY <1>3 DEF Min
    <3> QED
      BY <2>4, <3>1
  <2>6. \A k \in counter + 1 .. n : k \in counter + 1 .. Reach(max)
    BY <1>2, <1>3, <2>2
  <2>7. DOMAIN new = {X(k) : k \in counter + 1 .. n}
    <3>1. DOMAIN new = {pow(k) : k \in counter + 1 .. n}
      BY <2>5 DEF Entries
    <3>2. \A k \in counter + 1 .. n : pow(k) = X(k)
      BY <2>3, <2>6
    <3> HIDE DEF pow, new
    <3> QED
      BY <3>1, <3>2
  <2>8. ASSUME NEW k \in counter + 1 .. n
        PROVE  new[X(k)] = k
    <3> DEFINE At0(i) == i \in counter + 1 .. n /\ pow(i) = X(k)
    <3>1. At0(k)
      BY <2>3, <2>6
    <3>2. new[X(k)] = CHOOSE i \in counter + 1 .. n : pow(i) = X(k)
      <4>1. X(k) \in {pow(i) : i \in counter + 1 .. n}
        BY <3>1
      <4> QED
        BY <2>5, <4>1 DEF Entries
    <3>3. At0(new[X(k)])
      BY <3>1, <3>2
    <3> HIDE DEF pow, new
    <3>4. new[X(k)] \in 0 .. Q - 1 /\ k \in 0 .. Q - 1 /\ X(new[X(k)]) = X(k)
      BY <2>3, <2>6, <3>3
    <3> QED
      BY <3>4, LogarithmsAreUnique
  <2> HIDE DEF pow, to, new
  <2>9. DOMAIN cache' = {X(k) : k \in 0 .. n}
    <3>1. \A k \in 0 .. n : k \in 0 .. counter \/ k \in counter + 1 .. n
      BY <1>3
    <3>2. \A k \in 0 .. counter : k \in 0 .. n
      BY <1>3, <2>2
    <3>3. \A k \in counter + 1 .. n : k \in 0 .. n
      BY <1>3
    <3>4. DOMAIN cache' = DOMAIN new \cup DOMAIN cache
      BY <2>1
    <3> QED
      BY <1>1, <2>7, <3>1, <3>2, <3>3, <3>4
  <2>10. ASSUME NEW k \in 0 .. n
         PROVE  cache'[X(k)] = k
    <3>1. X(k) \in DOMAIN new \cup DOMAIN cache
      BY <2>1, <2>9
    <3>2. cache'[X(k)] = IF X(k) \in DOMAIN new THEN new[X(k)] ELSE cache[X(k)]
      BY <2>1, <3>1
    <3>3. CASE X(k) \in DOMAIN new
      <4>1. PICK i \in counter + 1 .. n : X(k) = X(i)
        BY <2>7, <3>3
      <4>2. new[X(k)] = i
        BY <2>8, <4>1
      <4>3. k \in 0 .. Q - 1 /\ i \in 0 .. Q - 1
        BY <1>2, <1>3
      <4>4. k = i
        BY <4>1, <4>3, LogarithmsAreUnique
      <4> QED
        BY <3>2, <3>3, <4>2, <4>4
    <3>4. CASE X(k) \notin DOMAIN new
      <4>1. k \notin counter + 1 .. n
        BY <2>7, <3>4
      <4>2. k \in 0 .. counter
        BY <1>3, <4>1
      <4> QED
        BY <1>1, <3>2, <3>4, <4>2
    <3> QED
      BY <3>3, <3>4
  <2>11. counter' = n /\ n \in 0 .. Reach(MaxBallots) /\ last' = X(n)
    <3>1. pow(n) = X(n)
      BY <2>2, <2>3
    <3> QED
      BY <1>2, <1>3, <2>1, <2>5, <3>1
  <2>12. IsTable(n, X(n), cache')
    BY <2>9, <2>10, <2>11 DEF IsTable
  <2>13. n \in 0 .. n
    BY <1>3
  <2>14. Answer(X(n)) = n
    BY <2>9, <2>10, <2>13 DEF Answer
  <2> QED
    BY <2>11, <2>12, <2>14
<1> QED
  BY <1>4, <1>5 DEF Query

-----------------------------------------------------------------------------
(***************************************************************************)
(* The inductive invariant: what everything published is made of.           *)
(***************************************************************************)
KeysFit ==
  \A i \in Trustees :
    /\ shards[i] # Nothing => Has(coeffs, Trustees) /\ shards[i] = ShardOf(i)
    /\ shardKeys[i] # Nothing => /\ Has(coeffs, Trustees) /\ shards[i] = ShardOf(i)
                                 /\ shardKeys[i] = X(ShardOf(i))

TallyFits ==
  /\ ballots = 0 => \A c \in Candidates : votes[c] = 0 /\ tally[c] = EmptyCipher
  /\ ballots # 0 => /\ Has(coeffs, Trustees) /\ Has(shardKeys, Trustees)
                    /\ \A c \in Candidates :
                         /\ votes[c] <= ballots
                         /\ \E r \in Exponents : tally[c] = Text(votes[c], r)

PartsFit ==
  \A i \in Trustees :
    partials[i] # Nothing =>
      ballots # 0 /\ \A c \in Candidates : partials[i][c] = Exp(tally[c].A, ShardOf(i))

ResultsFit ==
  \A c \in Candidates :
    /\ exponentials[c] # Nothing => WithParts # {} /\ exponentials[c] = X(votes[c])
    /\ counts[c] # NoLog => exponentials[c] # Nothing /\ counts[c] = votes[c]

IInv ==
  /\ TypeOK /\ ~refused /\ KeysFit /\ TallyFits /\ PartsFit /\ ResultsFit
  /\ IsTable(counter, last, cache)

\* While the coefficients stay, so do the shares.
LEMMA SharesStay ==
  ASSUME coeffs' = coeffs
  PROVE  /\ \A i : ShardOf(i)' = ShardOf(i)
         /\ Secret' = Secret
         /\ \A m, r : Text(m, r)' = Text(m, r)
<1>1. \A j, i : CreateSecretShare(j, i)' = CreateSecretShare(j, i)
  BY DEF CreateSecretShare
<1>2. \A i : SharesOf(i)' = SharesOf(i)
  BY <1>1 DEF SharesOf
<1>3. \A i : ShardOf(i)' = ShardOf(i)
  BY <1>2 DEF ShardOf
<1>4. Constants' = Constants
  BY DEF Constants
<1>5. Secret' = Secret
  BY <1>4 DEF Secret
<1> QED
  BY <1>3, <1>5 DEF Text

\* A trustee that has coefficients has drawn them all.
LEMMA DrawnOnceHad ==
  ASSUME TypeOK, Has(coeffs, Trustees)
  PROVE  AllDrawn
BY DEF TypeOK, Has, AllDrawn

\* The table stays if nothing is asked of it.
LEMMA TableStays ==
  ASSUME UNCHANGED dlogVars
  PROVE  IsTable(counter, last, cache)' <=> IsTable(counter, last, cache)
BY DEF IsTable, dlogVars, X

\* Parts of the invariant that a step leaves alone.
LEMMA KeysStay ==
  ASSUME IInv, UNCHANGED setupVars
  PROVE  KeysFit'
<1>1. coeffs' = coeffs /\ shards' = shards /\ shardKeys' = shardKeys
  BY DEF setupVars
<1>2. \A i : ShardOf(i)' = ShardOf(i)
  BY <1>1, SharesStay
<1>3. \A i : X(ShardOf(i))' = X(ShardOf(i))
  BY <1>2 DEF X
<1> QED
  BY <1>1, <1>2, <1>3 DEF IInv, KeysFit, Has

\* The tally, while keys and ballots stay.
LEMMA TallyStays ==
  ASSUME IInv, UNCHANGED <<setupVars, ballotVars>>
  PROVE  TallyFits'
<1>1. coeffs' = coeffs /\ shardKeys' = shardKeys
      /\ ballots' = ballots /\ votes' = votes /\ tally' = tally
  BY DEF setupVars, ballotVars
<1>2. \A m, r : Text(m, r)' = Text(m, r)
  BY <1>1, SharesStay
<1>3. \A c : \A r : Text(votes[c], r)' = Text(votes[c], r)
  <2>1. ASSUME NEW c, NEW r
        PROVE  Text(votes[c], r)' = Text(votes[c], r)
    <3>1. Secret' = Secret
      BY <1>1, SharesStay
    <3> QED
      BY <1>1, <3>1 DEF Text, X
  <2> QED
    BY <2>1
<1> QED
  BY <1>1, <1>3 DEF IInv, TallyFits, Has

\* The parts, while the tally stays.
LEMMA PartsStay ==
  ASSUME IInv, UNCHANGED <<setupVars, ballotVars, partials>>
  PROVE  PartsFit'
<1>1. coeffs' = coeffs /\ partials' = partials /\ ballots' = ballots /\ tally' = tally
  BY DEF setupVars, ballotVars
<1>2. \A i : ShardOf(i)' = ShardOf(i)
  BY <1>1, SharesStay
<1>3. \A c, i : Exp(tally[c].A, ShardOf(i))' = Exp(tally[c].A, ShardOf(i))
  BY <1>1, <1>2 DEF Exp
<1> QED
  BY <1>1, <1>3 DEF IInv, PartsFit

\* The results, while the votes stay.
LEMMA ResultsStay ==
  ASSUME IInv, UNCHANGED <<votes, resultVars>>
  PROVE  ResultsFit'
<1>1. votes' = votes /\ partials' = partials /\ exponentials' = exponentials /\ counts' = counts
  BY DEF resultVars
<1>2. WithParts' = WithParts
  BY <1>1 DEF WithParts
<1>3. \A c : X(votes[c])' = X(votes[c])
  BY <1>1 DEF X
<1> QED
  BY <1>1, <1>2, <1>3 DEF IInv, ResultsFit

\* Before there are ballots there is no part and no result.
LEMMA NothingWithoutBallots ==
  ASSUME IInv, WithParts = {}
  PROVE  \A c \in Candidates : exponentials[c] = Nothing /\ counts[c] = NoLog
BY DEF IInv, ResultsFit

\* It holds of what there is at first: nothing.
LEMMA InitFits == Init => IInv
<1> SUFFICES ASSUME Init
             PROVE  IInv
  OBVIOUS
<1>1. TypeOK
  <2>1. 0 \in 0 .. MaxBallots /\ 0 \in 0 .. Reach(MaxBallots)
    BY Limits
  <2>2. last = Exp(G, counter)
    <3>1. 0 \in 0 .. Q
      BY ModulusIsNumber
    <3> QED
      BY <3>1, XSteps DEF Init, DLogInit
  <2> QED
    BY <2>1, <2>2 DEF TypeOK, Init, DLogInit
<1>2. KeysFit
  BY DEF Init, KeysFit
<1>3. TallyFits
  BY DEF Init, TallyFits
<1>4. PartsFit
  BY DEF Init, PartsFit
<1>5. ResultsFit
  BY DEF Init, ResultsFit
<1>6. IsTable(counter, last, cache)
  BY FirstTable DEF Init, DLogInit
<1> QED
  BY <1>1, <1>2, <1>3, <1>4, <1>5, <1>6 DEF IInv, Init

\* A trustee draws: before that nobody can have combined its shares.
LEMMA CreateTrusteeFits ==
  ASSUME IInv, NEW i \in Trustees, CreateTrustee(i)
  PROVE  IInv'
<1>1. coeffs[i] = Nothing
  BY DEF CreateTrustee
<1>2. PICK poly \in Polynomials : coeffs' = [coeffs EXCEPT ![i] = poly]
  BY DEF CreateTrustee
<1>3. UNCHANGED <<shards, shardKeys, ballotVars, resultVars, dlogVars, refused>>
  BY DEF CreateTrustee
<1>4. ~Has(coeffs, Trustees)
  BY <1>1 DEF Has
<1>5. \A j \in Trustees : shards[j] = Nothing /\ shardKeys[j] = Nothing
  BY <1>4 DEF IInv, KeysFit
<1>6. ballots = 0
  BY <1>4 DEF IInv, TallyFits
<1>7. \A j \in Trustees : partials[j] = Nothing
  BY <1>6 DEF IInv, PartsFit
<1>8. TypeOK'
  BY <1>2, <1>3 DEF IInv, TypeOK, ballotVars, resultVars, dlogVars
<1>9. KeysFit'
  BY <1>3, <1>5 DEF KeysFit
<1>10. TallyFits'
  BY <1>3, <1>6 DEF IInv, TallyFits, ballotVars
<1>11. PartsFit'
  BY <1>3, <1>7 DEF PartsFit, resultVars
<1>12. ResultsFit'
  BY <1>3, ResultsStay DEF ballotVars
<1>13. IsTable(counter, last, cache)'
  BY <1>3, TableStays DEF IInv
<1> QED
  BY <1>3, <1>8, <1>9, <1>10, <1>11, <1>12, <1>13 DEF IInv

\* The key posted is the one expected, and its proof verifies.
LEMMA PostShardKeyFits ==
  ASSUME IInv, NEW i \in Trustees, PostShardKey(i)
  PROVE  IInv'
<1>1. Has(coeffs, Trustees) /\ shards[i] = Nothing
      /\ UNCHANGED <<coeffs, ballotVars, resultVars, dlogVars>>
  BY DEF PostShardKey
<1>2. AllDrawn
  BY <1>1, DrawnOnceHad DEF IInv
<1>3. ShardOf(i) \in Residues(Q) /\ ShardOf(i) \in Int /\ SimulatePublicKeyShard(i) = X(ShardOf(i))
  BY <1>2, PublicKeys
<1>4. shards' = [shards EXCEPT ![i] = ShardOf(i)]
      /\ shardKeys' = [shardKeys EXCEPT ![i] = X(ShardOf(i))] /\ UNCHANGED refused
  <2>1. PICK encSecret \in Drawn, r \in Drawn, draw \in Draws :
          LET x   == CombineSharesSharedKeys(i, encSecret, r)
              y   == Exp(G, x % Q)
              pok == CreateSignature(x, draw)
          IN  /\ shards' = [shards EXCEPT ![i] = x]
              /\ IF VerifySignature(y, pok) /\ y = SimulatePublicKeyShard(i)
                 THEN shardKeys' = [shardKeys EXCEPT ![i] = y] /\ UNCHANGED refused
                 ELSE refused' = TRUE /\ UNCHANGED shardKeys
    BY DEF PostShardKey
  <2> DEFINE x == CombineSharesSharedKeys(i, encSecret, r)
  <2>2. x = ShardOf(i)
    BY <1>2, SharesCombine
  <2>3. Exp(G, x % Q) = X(ShardOf(i))
    BY <2>2 DEF X
  <2> HIDE DEF x
  <2>4. VerifySignature(X(ShardOf(i)), CreateSignature(ShardOf(i), draw))
    BY <1>3, SignatureVerifies
  <2> QED
    BY <1>3, <2>1, <2>2, <2>3, <2>4 DEF x
<1>5. \A j : ShardOf(j)' = ShardOf(j)
  BY <1>1, SharesStay
<1>6. ShardOf(i) \in Exponents /\ X(ShardOf(i)) \in 1 .. P - 1
  BY <1>3, SystemNumbers, XPowers
<1>7. shards \in [Trustees -> Exponents \cup {Nothing}]
      /\ shardKeys \in [Trustees -> (1 .. P - 1) \cup {Nothing}]
  BY DEF IInv, TypeOK
<1>8. TypeOK'
  <2>1. shards' \in [Trustees -> Exponents \cup {Nothing}]
        /\ shardKeys' \in [Trustees -> (1 .. P - 1) \cup {Nothing}]
    BY <1>4, <1>6, <1>7
  <2> QED
    BY <1>1, <1>4, <2>1 DEF IInv, TypeOK, ballotVars, resultVars, dlogVars
<1>9. KeysFit'
  <2>1. \A j : X(ShardOf(j))' = X(ShardOf(j))
    BY <1>5 DEF X
  <2>2. \A j \in Trustees : j # i => shards'[j] = shards[j] /\ shardKeys'[j] = shardKeys[j]
    BY <1>4, <1>7
  <2>3. shards'[i] = ShardOf(i) /\ shardKeys'[i] = X(ShardOf(i))
    BY <1>4, <1>7
  <2>4. Has(coeffs, Trustees)'
    BY <1>1 DEF Has
  <2> QED
    BY <1>5, <2>1, <2>2, <2>3, <2>4 DEF IInv, KeysFit
<1>10. TallyFits'
  <2>1. ballots' = ballots /\ votes' = votes /\ tally' = tally /\ coeffs' = coeffs
    BY <1>1 DEF ballotVars
  <2>2. CASE ballots = 0
    BY <2>1, <2>2 DEF IInv, TallyFits
  <2>3. CASE ballots # 0
    <3>1. Has(shardKeys, Trustees)
      BY <2>3 DEF IInv, TallyFits
    <3>2. shardKeys[i] = X(ShardOf(i))
      BY <3>1 DEF IInv, KeysFit, Has
    <3>3. shardKeys' = shardKeys
      BY <1>4, <1>7, <3>2
    <3>4. shards[i] = ShardOf(i)
      BY <3>1 DEF IInv, KeysFit, Has
    <3>5. shards' = shards
      BY <1>4, <1>7, <3>4
    <3>6. UNCHANGED <<setupVars, ballotVars>>
      BY <1>1, <3>3, <3>5 DEF setupVars
    <3> QED
      BY <3>6, TallyStays
  <2> QED
    BY <2>2, <2>3
<1>11. PartsFit'
  <2>1. ballots' = ballots /\ tally' = tally /\ partials' = partials
    BY <1>1 DEF ballotVars, resultVars
  <2>2. \A c, j : Exp(tally[c].A, ShardOf(j))' = Exp(tally[c].A, ShardOf(j))
    BY <1>5, <2>1 DEF Exp
  <2> QED
    BY <2>1, <2>2 DEF IInv, PartsFit
<1>12. ResultsFit'
  BY <1>1, ResultsStay DEF ballotVars
<1>13. IsTable(counter, last, cache)'
  BY <1>1, TableStays DEF IInv
<1> QED
  BY <1>4, <1>8, <1>9, <1>10, <1>11, <1>12, <1>13 DEF IInv

\* The random numbers of a text count modulo Q.
LEMMA TextOfResidue ==
  ASSUME Secret \in Int, NEW m \in Int, NEW r \in Int
  PROVE  r % Q \in Exponents /\ Text(m, r) = Text(m, r % Q)
<1>1. r % Q \in Residues(Q) /\ r % Q \in Int /\ Same(Q, r, r % Q)
  BY ModulusIsNumber, Division, ResidueOfResidue, SameIsAnEquivalence
<1> DEFINE s == r % Q
<1>2. s \in Exponents
  BY <1>1, SystemNumbers
<1>3. s \in Int /\ Same(Q, r, s)
  BY <1>1
<1> HIDE DEF s
<1>4. Same(Q, Secret * r, Secret * s) /\ Same(Q, m, m)
  BY <1>3, ModulusIsNumber, SameIsAnEquivalence, SameProducts
<1>5. Same(Q, m + Secret * r, m + Secret * s)
  BY <1>4, SameSums
<1>6. X(r) = X(s) /\ X(m + Secret * r) = X(m + Secret * s)
  BY <1>3, <1>5, XAdd
<1>7. Text(m, r) = Text(m, s)
  BY <1>6 DEF Text
<1> QED
  BY <1>2, <1>7 DEF s

\* Encryption makes such a text.
LEMMA EncryptIsText ==
  ASSUME Secret \in Int, NEW m \in 0 .. Q, NEW r \in Drawn
  PROVE  Encrypt(X(Secret), Exp(G, m), r) = Text(m, r)
<1>1. r \in 0 .. Q /\ r \in Int /\ m \in Int
  BY DrawnAreExponents
<1>2. Secret * r \in Int
  BY <1>1
<1>3. Exp(G, r) = X(r) /\ Exp(G, m) = X(m) /\ Exp(X(Secret), r) = X(Secret * r)
  BY <1>1, XSteps, XPowers
<1>4. (X(m) * X(Secret * r)) % P = X(m + Secret * r)
  BY <1>1, <1>2, XAdd
<1> QED
  BY <1>3, <1>4 DEF Encrypt, Text

\* The proofs of a ballot verify, and it adds its marks to the exponents of the tally.
LEMMA CastBallotFits ==
  ASSUME IInv, CastBallot
  PROVE  IInv'
<1>1. /\ Has(shardKeys, Trustees) /\ WithParts = {} /\ ballots < MaxBallots
      /\ UNCHANGED <<setupVars, resultVars, dlogVars>>
  BY DEF CastBallot
<1>2. TypeOK /\ TallyFits
  BY DEF IInv
<1>3. Has(coeffs, Trustees) /\ AllDrawn
  <2>1. 1 \in Trustees
    BY ThresholdNumbers
  <2>2. Has(coeffs, Trustees)
    BY <1>1, <2>1 DEF IInv, KeysFit, Has
  <2> QED
    BY <1>2, <2>2, DrawnOnceHad
<1>4. Secret \in Int /\ ElectionPublicKey = X(Secret)
  BY <1>3, PublicKeys
<1>5. /\ IsFiniteSet(Candidates) /\ Candidates # {} /\ MaxChoices \in 0 .. Q
      /\ 1 \in 0 .. MaxChoices /\ MaxChoices \in 0 .. MaxChoices /\ 1 \in 0 .. Q /\ MaxBallots \in Nat
  <2>1. Cardinality(Candidates) \in Nat /\ IsFiniteSet(Candidates)
    BY BallotsAssumption, FS_CardinalityType
  <2>2. Candidates # {}
    <3> SUFFICES ASSUME Candidates = {}
                 PROVE  FALSE
      OBVIOUS
    <3>1. Cardinality(Candidates) = 0
      BY FS_EmptySet
    <3> QED
      BY <3>1, BallotsAssumption
  <2>3. MaxChoices \in 0 .. Q
    BY <2>1, BallotsAssumption, ModulusIsNumber
  <2> QED
    BY <2>1, <2>2, <2>3, BallotsAssumption, ModulusIsNumber
<1>6. PICK m \in Marks, rnd \in [Candidates -> Drawn], draw \in OrDraws :
        LET y       == ElectionPublicKey
            ciphers == [c \in Candidates |-> Encrypt(y, Exp(G, m[c]), rnd[c])]
            whole   == ProductOf(ciphers)
            proofs  == [c \in Candidates |->
                          ProveEncryption(y, ciphers[c], Options(1), m[c], rnd[c], draw)]
            proof   == ProveEncryption(y, whole, Options(MaxChoices), Total(m), Sum(rnd), draw)
        IN  IF /\ \A c \in Candidates :
                     VerifyEncryptionProof(proofs[c], draw.answer, y, ciphers[c], Options(1))
               /\ VerifyEncryptionProof(proof, draw.answer, y, whole, Options(MaxChoices))
            THEN /\ ballots' = ballots + 1
                 /\ votes' = [c \in Candidates |-> votes[c] + m[c]]
                 /\ tally' = [c \in Candidates |-> Mul(tally[c], ciphers[c])]
                 /\ UNCHANGED refused
            ELSE refused' = TRUE /\ UNCHANGED ballotVars
  BY DEF CastBallot
<1> DEFINE y       == ElectionPublicKey
           ciphers == [c \in Candidates |-> Encrypt(y, Exp(G, m[c]), rnd[c])]
           whole   == ProductOf(ciphers)
           proofs  == [c \in Candidates |->
                         ProveEncryption(y, ciphers[c], Options(1), m[c], rnd[c], draw)]
           proof   == ProveEncryption(y, whole, Options(MaxChoices), Total(m), Sum(rnd), draw)
<1>7. IF /\ \A c \in Candidates :
              VerifyEncryptionProof(proofs[c], draw.answer, y, ciphers[c], Options(1))
         /\ VerifyEncryptionProof(proof, draw.answer, y, whole, Options(MaxChoices))
      THEN /\ ballots' = ballots + 1
           /\ votes' = [c \in Candidates |-> votes[c] + m[c]]
           /\ tally' = [c \in Candidates |-> Mul(tally[c], ciphers[c])]
           /\ UNCHANGED refused
      ELSE refused' = TRUE /\ UNCHANGED ballotVars
  BY <1>6
<1>8. \A c \in Candidates :
        proofs[c] = ProveEncryption(y, ciphers[c], Options(1), m[c], rnd[c], draw)
  OBVIOUS
<1>9. /\ proof = ProveEncryption(y, whole, Options(MaxChoices), Total(m), Sum(rnd), draw)
      /\ whole = ProductOf(ciphers) /\ y = X(Secret)
  BY <1>4
<1>10. m \in [Candidates -> {0, 1}] /\ Total(m) <= MaxChoices
  BY DEF Marks
<1>11. \A c \in Candidates : m[c] \in 0 .. 1 /\ m[c] \in Int /\ m[c] \in Nat /\ m[c] \in 0 .. Q
  BY <1>10, ModulusIsNumber
<1>12. \A c \in Candidates : rnd[c] \in Drawn /\ rnd[c] \in Int /\ rnd[c] \in Nat
  BY DrawnAreExponents DEF Residues
<1>13. IntegersOn(m, Candidates) /\ IntegersOn(rnd, Candidates)
  BY <1>11, <1>12 DEF IntegersOn
<1>14. \A c \in Candidates : ciphers[c] = Text(m[c], rnd[c])
  BY <1>4, <1>11, <1>12, EncryptIsText
<1>15. ciphers = [c \in Candidates |-> Text(m[c], rnd[c])]
  BY <1>14
<1> HIDE DEF y, ciphers, whole, proofs, proof
<1>16. Total(m) = SumOver(m, Candidates) /\ Total(rnd) = SumOver(rnd, Candidates)
       /\ Total(m) \in Nat /\ Total(rnd) \in Int
  <2>1. Total(m) = SumOver(m, Candidates)
    BY <1>10, TotalIsSum
  <2>2. Total(rnd) = SumOver(rnd, Candidates)
    BY TotalIsSum
  <2>3. Candidates \in SUBSET Candidates
    OBVIOUS
  <2>4. SumOver(m, Candidates) \in Nat
    BY ONLY <1>5, <1>11, <2>3, SumOfNaturals
  <2>5. SumOver(rnd, Candidates) \in Int
    BY ONLY <1>5, <1>13, <2>3, SumOfIntegers
  <2> QED
    BY <2>1, <2>2, <2>4, <2>5
<1>17. whole = Text(Total(m), Total(rnd))
  BY <1>4, <1>5, <1>9, <1>13, <1>15, <1>16, ProductOfTexts
<1>18. Sum(rnd) \in Int /\ Same(Q, Total(rnd), Sum(rnd))
  BY <1>16, ModulusIsNumber, Division, ResidueOfResidue, SameIsAnEquivalence DEF Sum
<1>19. Total(m) \in 0 .. MaxChoices
  BY <1>5, <1>10, <1>16
<1>20. ASSUME NEW c \in Candidates
       PROVE  VerifyEncryptionProof(proofs[c], draw.answer, y, ciphers[c], Options(1))
  <2>1. Same(Q, rnd[c], rnd[c]) /\ rnd[c] \in Int /\ m[c] \in 0 .. 1
    BY <1>11, <1>12, ModulusIsNumber, SameIsAnEquivalence
  <2>2. VerifyEncryptionProof(
          ProveEncryption(X(Secret), Text(m[c], rnd[c]), Options(1), m[c], rnd[c], draw),
          draw.answer, X(Secret), Text(m[c], rnd[c]), Options(1))
    BY <1>4, <1>5, <2>1, EncryptionVerifies
  <2> QED
    BY <1>8, <1>9, <1>14, <2>2
<1>21. VerifyEncryptionProof(proof, draw.answer, y, whole, Options(MaxChoices))
  <2>1. VerifyEncryptionProof(
          ProveEncryption(X(Secret), Text(Total(m), Total(rnd)), Options(MaxChoices), Total(m),
                          Sum(rnd), draw),
          draw.answer, X(Secret), Text(Total(m), Total(rnd)), Options(MaxChoices))
    BY <1>4, <1>5, <1>16, <1>18, <1>19, EncryptionVerifies
  <2> QED
    BY <1>9, <1>17, <2>1
<1>22. /\ ballots' = ballots + 1
       /\ votes' = [c \in Candidates |-> votes[c] + m[c]]
       /\ tally' = [c \in Candidates |-> Mul(tally[c], ciphers[c])]
       /\ UNCHANGED refused
  BY <1>7, <1>20, <1>21
<1>23. ballots \in Nat /\ \A c \in Candidates : votes[c] \in Nat
  BY <1>2, <1>5 DEF TypeOK
<1>24. ASSUME NEW c \in Candidates
       PROVE  /\ votes'[c] = votes[c] + m[c] /\ votes'[c] \in Nat /\ votes'[c] <= ballots + 1
              /\ \E r \in Exponents : tally'[c] = Text(votes'[c], r)
              /\ tally'[c] \in CipherTexts
  <2>1. /\ votes'[c] = votes[c] + m[c] /\ votes'[c] \in Nat
        /\ tally'[c] = Mul(tally[c], Text(m[c], rnd[c]))
    BY <1>11, <1>14, <1>22, <1>23
  <2>2. m[c] \in Int /\ rnd[c] \in Int /\ m[c] <= 1
    BY <1>11, <1>12
  <2>3. /\ Mul(EmptyCipher, Text(m[c], rnd[c])) = Text(m[c], rnd[c])
        /\ \A n \in Int : \A k \in Int :
             Mul(Text(n, k), Text(m[c], rnd[c])) = Text(n + m[c], k + rnd[c])
    BY <1>4, <2>2, MulTexts
  <2>4. PICK k \in Int : tally'[c] = Text(votes'[c], k) /\ votes'[c] <= ballots + 1
    <3>1. CASE ballots = 0
      <4>1. votes[c] = 0 /\ tally[c] = EmptyCipher
        BY <1>2, <3>1 DEF TallyFits
      <4> QED
        BY <2>1, <2>2, <2>3, <3>1, <4>1
    <3>2. CASE ballots # 0
      <4>1. votes[c] <= ballots /\ \E r \in Exponents : tally[c] = Text(votes[c], r)
        BY <1>2, <3>2 DEF TallyFits
      <4>2. PICK r \in Exponents : tally[c] = Text(votes[c], r)
        BY <4>1
      <4>3. r \in Int
        BY ModulusIsNumber DEF Exponents
      <4>4. tally'[c] = Text(votes[c] + m[c], r + rnd[c]) /\ r + rnd[c] \in Int
        BY <1>23, <2>1, <2>2, <2>3, <4>2, <4>3
      <4>5. votes'[c] <= ballots + 1
        BY <1>23, <2>1, <2>2, <4>1
      <4> QED
        BY <2>1, <4>4, <4>5
    <3> QED
      BY <3>1, <3>2
  <2>5. k % Q \in Exponents /\ tally'[c] = Text(votes'[c], k % Q)
    BY <1>4, <2>1, <2>4, TextOfResidue
  <2>6. tally'[c] \in CipherTexts
    BY <1>4, <2>1, <2>4, MulTexts
  <2> QED
    BY <2>1, <2>4, <2>5, <2>6
<1>25. coeffs' = coeffs /\ shards' = shards /\ shardKeys' = shardKeys /\ partials' = partials
       /\ exponentials' = exponentials /\ counts' = counts
  BY <1>1 DEF setupVars, resultVars
<1>26. TypeOK'
  <2>1. ballots' \in 0 .. MaxBallots
    BY <1>1, <1>5, <1>22, <1>23
  <2>2. votes' \in [Candidates -> 0 .. MaxBallots]
    <3>1. \A c \in Candidates : votes[c] + m[c] \in 0 .. MaxBallots
      BY <1>1, <1>5, <1>23, <1>24
    <3> QED
      BY <1>22, <3>1
  <2>3. tally' \in [Candidates -> CipherTexts \cup {EmptyCipher}]
    <3>1. \A c \in Candidates : Mul(tally[c], ciphers[c]) \in CipherTexts
      BY <1>22, <1>24
    <3> QED
      BY <1>22, <3>1
  <2> QED
    BY <1>1, <1>2, <1>22, <1>25, <2>1, <2>2, <2>3 DEF TypeOK, dlogVars
<1>27. KeysFit'
  BY <1>1, KeysStay
<1>28. TallyFits'
  <2>1. ballots' # 0
    BY <1>22, <1>23
  <2>2. Secret' = Secret
    BY <1>25, SharesStay
  <2>3. ASSUME NEW c \in Candidates, NEW r
        PROVE  Text(votes[c], r)' = Text(votes'[c], r)
    BY <2>2 DEF Text, X
  <2>4. ASSUME NEW c \in Candidates
        PROVE  votes'[c] <= ballots' /\ \E r \in Exponents : tally'[c] = Text(votes[c], r)'
    BY <1>22, <1>24, <2>3
  <2> QED
    BY <1>1, <1>3, <1>25, <2>1, <2>4 DEF TallyFits, Has
<1>29. \A i \in Trustees : partials[i] = Nothing
  BY <1>1 DEF WithParts
<1>30. PartsFit'
  BY <1>25, <1>29 DEF PartsFit
<1>31. ResultsFit'
  <2>1. \A c \in Candidates : exponentials[c] = Nothing /\ counts[c] = NoLog
    BY <1>1, NothingWithoutBallots
  <2> QED
    BY <1>25, <2>1 DEF ResultsFit
<1>32. IsTable(counter, last, cache)'
  BY <1>1, TableStays DEF IInv
<1> QED
  BY <1>22, <1>26, <1>27, <1>28, <1>30, <1>31, <1>32 DEF IInv

\* The first components of the tally are powers, and the parts are powers of those.
LEMMA TextsOfTally ==
  ASSUME IInv, ballots # 0, NEW c \in Candidates
  PROVE  /\ Has(shardKeys, Trustees) /\ AllDrawn /\ Secret \in Int /\ votes[c] \in Int
         /\ \E r \in Exponents : r \in Int /\ tally[c] = Text(votes[c], r) /\ tally[c].A = X(r)
<1>1. TypeOK /\ TallyFits
  BY DEF IInv
<1>2. Has(coeffs, Trustees) /\ Has(shardKeys, Trustees)
  BY <1>1 DEF TallyFits
<1>3. AllDrawn
  BY <1>1, <1>2, DrawnOnceHad
<1>4. votes[c] \in Int
  BY <1>1 DEF TypeOK
<1>5. PICK r \in Exponents : tally[c] = Text(votes[c], r)
  BY <1>1 DEF TallyFits
<1>6. r \in Int
  BY ModulusIsNumber DEF Exponents
<1>7. tally[c].A = X(r)
  BY <1>5 DEF Text
<1> QED
  BY <1>2, <1>3, <1>4, <1>5, <1>6, <1>7, PublicKeys

\* The proof of a partial decryption verifies, for the shard is the one behind the key.
LEMMA PostPartialTallyFits ==
  ASSUME IInv, NEW i \in Trustees, PostPartialTally(i)
  PROVE  IInv'
<1>1. /\ Has(shardKeys, Trustees) /\ ballots > 0 /\ partials[i] = Nothing
      /\ UNCHANGED <<setupVars, ballotVars, exponentials, counts, dlogVars>>
  BY DEF PostPartialTally
<1>2. TypeOK /\ KeysFit /\ PartsFit /\ ResultsFit
  BY DEF IInv
<1>3. ballots # 0
  BY <1>1, <1>2, Limits DEF TypeOK
<1>4. AllDrawn
  BY <1>1, <1>2, ThresholdNumbers, DrawnOnceHad DEF KeysFit, Has
<1>5. ShardOf(i) \in Residues(Q) /\ ShardOf(i) \in Int /\ ShardOf(i) \in 0 .. Q
  <2>1. ShardOf(i) \in Residues(Q) /\ ShardOf(i) \in Int
    BY <1>4, PublicKeys
  <2> QED
    BY <2>1, ModulusIsNumber DEF Residues
<1>6. shards[i] = ShardOf(i) /\ shardKeys[i] = X(ShardOf(i))
  BY <1>1, <1>2 DEF KeysFit, Has
<1>7. PICK draw \in Draws :
        LET part   == [c \in Candidates |-> Exp(tally[c].A, shards[i])]
            proofs == [c \in Candidates |-> ProveDecryption(shards[i], tally[c], draw)]
        IN  IF \A c \in Candidates :
                 VerifyPartialDecryptionProof(proofs[c], draw.answer, shardKeys[i], tally[c], part[c])
            THEN partials' = [partials EXCEPT ![i] = part] /\ UNCHANGED refused
            ELSE refused' = TRUE /\ UNCHANGED partials
  BY DEF PostPartialTally
<1> DEFINE part   == [c \in Candidates |-> Exp(tally[c].A, ShardOf(i))]
           proofs == [c \in Candidates |-> ProveDecryption(ShardOf(i), tally[c], draw)]
<1>8. ASSUME NEW c \in Candidates
      PROVE  /\ part[c] \in 1 .. P - 1
             /\ VerifyPartialDecryptionProof(proofs[c], draw.answer, shardKeys[i], tally[c], part[c])
  <2>1. PICK r \in Exponents : r \in Int /\ tally[c].A = X(r)
    BY <1>3, TextsOfTally
  <2>2. part[c] = Exp(X(r), ShardOf(i))
    BY <2>1
  <2>3. proofs[c] = CreateZKP(X(r), ShardOf(i), draw.w, draw.answer)
    BY <2>1 DEF ProveDecryption
  <2> HIDE DEF part, proofs
  <2>4. part[c] = X(r * ShardOf(i)) /\ r * ShardOf(i) \in Int
    <3>1. r \in Int /\ ShardOf(i) \in 0 .. Q
      BY <1>5, <2>1
    <3>2. Exp(X(r), ShardOf(i)) = X(r * ShardOf(i))
      BY ONLY <3>1, XPowers
    <3>3. r * ShardOf(i) \in Int
      BY <1>5, <3>1
    <3> QED
      BY <2>2, <3>2, <3>3
  <2>5. part[c] \in 1 .. P - 1
    BY <2>4, XPowers
  <2>6. draw.w \in Residues(Q) /\ draw.answer \in Residues(Q)
    BY DrawnAreExponents
  <2>7. VerifyZKP(CreateZKP(X(r), ShardOf(i), draw.w, draw.answer), X(r), shardKeys[i], part[c])
    BY <1>5, <1>6, <2>1, <2>4, <2>6, ProofVerifies
  <2>8. proofs[c].C = draw.answer
    BY <2>3 DEF CreateZKP
  <2> QED
    BY <2>1, <2>3, <2>5, <2>7, <2>8 DEF VerifyPartialDecryptionProof
<1>9. partials' = [partials EXCEPT ![i] = part] /\ UNCHANGED refused
  BY <1>6, <1>7, <1>8
<1>10. part \in [Candidates -> 1 .. P - 1]
  BY <1>8
<1>11. \A c \in Candidates : part[c] = Exp(tally[c].A, ShardOf(i))
  OBVIOUS
<1> HIDE DEF part, proofs
<1>12. partials \in [Trustees -> [Candidates -> 1 .. P - 1] \cup {Nothing}]
  BY <1>2 DEF TypeOK
<1>13. partials' \in [Trustees -> [Candidates -> 1 .. P - 1] \cup {Nothing}]
  BY <1>9, <1>10, <1>12
<1>14. coeffs' = coeffs /\ ballots' = ballots /\ votes' = votes /\ tally' = tally
       /\ exponentials' = exponentials /\ counts' = counts
  BY <1>1 DEF setupVars, ballotVars
<1>15. TypeOK'
  BY <1>1, <1>2, <1>9, <1>13 DEF TypeOK, setupVars, ballotVars, dlogVars
<1>16. KeysFit' /\ TallyFits'
  BY <1>1, KeysStay, TallyStays
<1>17. PartsFit'
  <2>1. \A c, j : Exp(tally[c].A, ShardOf(j))' = Exp(tally[c].A, ShardOf(j))
    <3>1. \A j : ShardOf(j)' = ShardOf(j)
      BY <1>14, SharesStay
    <3> QED
      BY <1>14, <3>1 DEF Exp
  <2>2. \A j \in Trustees : partials'[j] = IF j = i THEN part ELSE partials[j]
    BY <1>9, <1>12
  <2> QED
    BY <1>2, <1>3, <1>11, <1>14, <2>1, <2>2 DEF PartsFit
<1>18. ResultsFit'
  <2>1. ASSUME WithParts # {}
        PROVE  WithParts' # {}
    <3>1. PICK j \in Trustees : partials[j] # Nothing
      BY <2>1 DEF WithParts
    <3>2. partials'[j] # Nothing
      BY <1>1, <1>9, <1>12, <3>1
    <3> QED
      BY <3>2 DEF WithParts
  <2>2. \A c : X(votes[c])' = X(votes[c])
    BY <1>14 DEF X
  <2> QED
    BY <1>2, <1>14, <2>1, <2>2 DEF ResultsFit
<1>19. IsTable(counter, last, cache)'
  BY <1>1, TableStays DEF IInv
<1> QED
  BY <1>9, <1>15, <1>16, <1>17, <1>18, <1>19 DEF IInv

\* The table has got as far as the type invariant says.
LEMMA TableFits ==
  ASSUME NEW c, NEW l, NEW t, IsTable(c, l, t)
  PROVE  c \in 0 .. Reach(MaxBallots) /\ l = Exp(G, c)
<1>1. c \in 0 .. Reach(MaxBallots) /\ l = X(c)
  BY DEF IsTable
<1>2. c \in 0 .. Q
  BY <1>1, Limits, ModulusIsNumber
<1> QED
  BY <1>1, <1>2, XSteps

\* Whichever quorum of the parts is combined for a candidate, the votes are in the
\* exponent.
LEMMA PartsCombine ==
  ASSUME IInv, NEW S \in Quorums, S \subseteq WithParts, NEW c \in Candidates
  PROVE  ThresholdDecrypt(tally[c], PartsFor(c), S) = X(votes[c])
<1>1. PartsFit
  BY DEF IInv
<1>2. S # {}
  BY FS_EmptySet, ThresholdNumbers DEF Quorums, kSubset
<1>3. ballots # 0
  BY <1>1, <1>2 DEF PartsFit, WithParts
<1>4. /\ AllDrawn /\ votes[c] \in Int
      /\ \E r \in Exponents : r \in Int /\ tally[c] = Text(votes[c], r) /\ tally[c].A = X(r)
  BY <1>3, TextsOfTally
<1>5. PICK r \in Int : tally[c] = Text(votes[c], r) /\ tally[c].A = X(r)
  BY <1>4
<1>6. ASSUME NEW i \in S
      PROVE  PartsFor(c)[i] = Exp(X(r), ShardOf(i))
  <2>1. i \in WithParts /\ i \in Trustees /\ partials[i] # Nothing
    BY DEF WithParts
  <2>2. PartsFor(c)[i] = partials[i][c]
    BY <2>1 DEF PartsFor
  <2> QED
    BY <1>1, <1>5, <2>1, <2>2 DEF PartsFit
<1>7. ThresholdDecrypt(Text(votes[c], r), PartsFor(c), S) = X(votes[c])
  BY <1>4, <1>6, QuorumDecrypts
<1> QED
  BY <1>5, <1>7

\* The parts combine to the votes, and a table is opened.
LEMMA CombineTalliesFits ==
  ASSUME IInv, CombineTallies
  PROVE  IInv'
<1>1. /\ Cardinality(WithParts) > T
      /\ \A c \in Candidates : exponentials[c] = Nothing
      /\ DLogStart
      /\ UNCHANGED <<setupVars, ballotVars, partials, counts, refused>>
  BY DEF CombineTallies
<1>2. TypeOK /\ PartsFit /\ ResultsFit
  BY DEF IInv
<1>3. WithParts # {}
  BY <1>1, FS_EmptySet, ThresholdNumbers
<1>4. ballots # 0
  BY <1>2, <1>3 DEF PartsFit, WithParts
<1>5. PICK quorum \in [Candidates -> {q \in Quorums : q \subseteq WithParts}] :
        exponentials' =
          [c \in Candidates |-> ThresholdDecrypt(tally[c], PartsFor(c), quorum[c])]
  BY DEF CombineTallies
<1>6. ASSUME NEW c \in Candidates
      PROVE  exponentials'[c] = X(votes[c]) /\ exponentials'[c] \in 1 .. P - 1
  <2>1. quorum[c] \in Quorums /\ quorum[c] \subseteq WithParts
    OBVIOUS
  <2>2. exponentials'[c] = ThresholdDecrypt(tally[c], PartsFor(c), quorum[c])
    BY <1>5
  <2>3. votes[c] \in Int
    BY <1>4, TextsOfTally
  <2> QED
    BY <2>1, <2>2, <2>3, PartsCombine, XPowers
<1>7. exponentials' \in [Candidates -> (1 .. P - 1) \cup {Nothing}]
  <2>1. DOMAIN exponentials' = Candidates
        /\ exponentials' = [c \in Candidates |-> exponentials'[c]]
    BY <1>5
  <2> QED
    BY <1>6, <2>1
<1>8. IsTable(counter, last, cache)'
  BY <1>1, FirstTable DEF IsTable, X, DLogStart
<1>9. counter' \in 0 .. Reach(MaxBallots) /\ last' = Exp(G, counter')
  BY <1>1, FirstTable, TableFits DEF DLogStart
<1>10. TypeOK'
  BY <1>1, <1>2, <1>7, <1>9 DEF TypeOK, setupVars, ballotVars
<1>11. KeysFit' /\ TallyFits' /\ PartsFit'
  BY <1>1, KeysStay, TallyStays, PartsStay
<1>12. ResultsFit'
  <2>1. \A c \in Candidates : counts[c] = NoLog
    BY <1>1, <1>2 DEF ResultsFit
  <2>2. WithParts' # {} /\ counts' = counts /\ votes' = votes
    BY <1>1, <1>3 DEF WithParts, ballotVars
  <2>3. \A c : X(votes[c])' = X(votes[c])
    BY <2>2 DEF X
  <2> QED
    BY <1>6, <2>1, <2>2, <2>3 DEF ResultsFit
<1> QED
  BY <1>1, <1>8, <1>10, <1>11, <1>12 DEF IInv

\* The query is answered with the number of votes.
LEMMA LookUpFits ==
  ASSUME IInv, NEW c \in Candidates, LookUp(c)
  PROVE  IInv'
<1>1. /\ exponentials[c] # Nothing /\ counts[c] = NoLog
      /\ Query(ballots, exponentials[c])
      /\ counts' = [counts EXCEPT ![c] = Answer(exponentials[c])]
      /\ UNCHANGED <<setupVars, ballotVars, partials, exponentials, refused>>
  BY DEF LookUp
<1>2. TypeOK /\ TallyFits /\ PartsFit /\ ResultsFit /\ IsTable(counter, last, cache)
  BY DEF IInv
<1>3. WithParts # {} /\ exponentials[c] = X(votes[c])
  BY <1>1, <1>2 DEF ResultsFit
<1>4. ballots # 0
  BY <1>2, <1>3 DEF PartsFit, WithParts
<1>5. ballots \in 0 .. MaxBallots /\ votes[c] \in 0 .. MaxBallots /\ MaxBallots \in Nat
  BY <1>2, Limits DEF TypeOK
<1>6. votes[c] <= ballots
  BY <1>2, <1>4 DEF TallyFits
<1>7. votes[c] \in 0 .. ballots
  BY <1>5, <1>6
<1>8. IsTable(counter', last', cache') /\ Answer(X(votes[c])) = votes[c]
  BY <1>1, <1>2, <1>3, <1>5, <1>7, QueryAnswers
<1>9. IsTable(counter, last, cache)'
  BY <1>8 DEF IsTable, X
<1>10. counts' = [counts EXCEPT ![c] = votes[c]]
  BY <1>1, <1>3, <1>8
<1>11. votes[c] \in 0 .. Reach(MaxBallots)
  BY <1>5, Limits
<1>12. counts \in [Candidates -> (0 .. Reach(MaxBallots)) \cup {NoLog, Panicked}]
  BY <1>2 DEF TypeOK
<1>13. counts' \in [Candidates -> (0 .. Reach(MaxBallots)) \cup {NoLog, Panicked}]
  BY <1>10, <1>11, <1>12
<1>14. counter' \in 0 .. Reach(MaxBallots) /\ last' = Exp(G, counter')
  BY <1>8, TableFits
<1>15. TypeOK'
  BY <1>1, <1>2, <1>13, <1>14 DEF TypeOK, setupVars, ballotVars
<1>16. KeysFit' /\ TallyFits' /\ PartsFit'
  BY <1>1, KeysStay, TallyStays, PartsStay
<1>17. ResultsFit'
  <2>1. WithParts' = WithParts /\ exponentials' = exponentials /\ votes' = votes
    BY <1>1 DEF WithParts, ballotVars
  <2>2. \A d : X(votes[d])' = X(votes[d])
    BY <2>1 DEF X
  <2>3. \A d \in Candidates : counts'[d] = IF d = c THEN votes[c] ELSE counts[d]
    BY <1>10, <1>12
  <2> QED
    BY <1>1, <1>2, <2>1, <2>2, <2>3 DEF ResultsFit
<1> QED
  BY <1>1, <1>9, <1>15, <1>16, <1>17 DEF IInv

\* All the steps together.
LEMMA NextFits ==
  ASSUME IInv, [Next]_vars
  PROVE  IInv'
<1>1. CASE \E i \in Trustees : CreateTrustee(i) \/ PostShardKey(i) \/ PostPartialTally(i)
  BY <1>1, CreateTrusteeFits, PostShardKeyFits, PostPartialTallyFits
<1>2. CASE CastBallot
  BY <1>2, CastBallotFits
<1>3. CASE CombineTallies
  BY <1>3, CombineTalliesFits
<1>4. CASE \E c \in Candidates : LookUp(c)
  BY <1>4, LookUpFits
<1>5. CASE UNCHANGED vars
  <2>1. UNCHANGED <<setupVars, ballotVars, resultVars, dlogVars, refused>>
    BY <1>5 DEF vars
  <2>2. TypeOK'
    BY <2>1 DEF IInv, TypeOK, setupVars, ballotVars, resultVars, dlogVars
  <2>3. KeysFit' /\ TallyFits'
    BY <2>1, KeysStay, TallyStays
  <2>4. PartsFit' /\ ResultsFit'
    BY <2>1, PartsStay, ResultsStay DEF ballotVars, resultVars
  <2>5. IsTable(counter, last, cache)'
    BY <2>1, TableStays DEF IInv
  <2> QED
    BY <2>1, <2>2, <2>3, <2>4, <2>5 DEF IInv
<1> QED
  BY <1>1, <1>2, <1>3, <1>4, <1>5 DEF Next

-----------------------------------------------------------------------------
\* What is published always is what the invariant says it is made of.
THEOREM PublishedFits == Spec => []IInv
<1>1. IInv /\ [Next]_vars => IInv'
  BY NextFits
<1> QED
  BY InitFits, <1>1, PTL DEF Spec

\* Every variable has its type: in particular every secret is an exponent, every
\* public value an element of the group but 0, and the table of logarithms is never
\* filled further than the loop of incr may go.
THEOREM Typing == Spec => []TypeOK
<1>1. IInv => TypeOK
  BY DEF IInv
<1> QED
  BY PublishedFits, <1>1, PTL

\* The share every trustee computes for every other is the one that the exponents it
\* has published commit it to: CheckSecretShareFrom refuses no honest one.
THEOREM SharesConsistent == Spec => []SharesAreConsistent
<1>1. IInv => SharesAreConsistent
  <2> SUFFICES ASSUME IInv, Has(coeffs, Trustees), NEW j \in Trustees, NEW i \in Trustees
               PROVE  Exp(G, CreateSecretShare(j, i)) = ExpectedShare(j, i)
    BY DEF SharesAreConsistent, CheckSecretShareFrom
  <2>1. coeffs[j] \in Polynomials
    BY DrawnOnceHad DEF IInv, AllDrawn
  <2>2. /\ CreateSecretShare(j, i) \in 0 .. Q
        /\ ExpectedShare(j, i) = X(CreateSecretShare(j, i))
    <3>1. CreateSecretShare(j, i) \in Residues(Q)
      BY <2>1, ShareIsExpected
    <3>2. CreateSecretShare(j, i) \in 0 .. Q
      BY <3>1, ModulusIsNumber DEF Residues
    <3> QED
      BY <2>1, <3>2, ShareIsExpected
  <2> QED
    BY <2>2, XSteps
<1> QED
  BY PublishedFits, <1>1, PTL

\* Nothing that honest trustees and voters post is refused, whatever numbers they
\* draw: the keys are those expected, and all signatures and proofs verify.
THEOREM HonestAccepted == Spec => []HonestBlocksAreAccepted
<1>1. IInv => HonestBlocksAreAccepted
  BY DEF IInv, HonestBlocksAreAccepted
<1> QED
  BY PublishedFits, <1>1, PTL

\* What Lagrange makes of the shards of any quorum is the secret key of the key the
\* ballots are encrypted under, though nobody ever computes it.
THEOREM OneSecret == Spec => []QuorumsShareOneSecret
<1>1. IInv => QuorumsShareOneSecret
  <2> SUFFICES ASSUME IInv, Has(shards, Trustees), NEW q \in Quorums
               PROVE  Exp(G, Sum([j \in q |-> Lagrange(q, j) * shards[j]])) = ElectionPublicKey
    BY DEF QuorumsShareOneSecret
  <2>1. /\ Has(coeffs, Trustees) /\ \A i \in Trustees : shards[i] = ShardOf(i)
    BY ThresholdNumbers DEF IInv, KeysFit, Has
  <2>2. AllDrawn
    BY <2>1, DrawnOnceHad DEF IInv
  <2>3. /\ Nodes(q) /\ IntegersOn(shards, q)
        /\ At(q, shards) \in Int /\ Same(Q, At(q, shards), Secret)
    BY <2>1, <2>2, ShardsDetermineSecret
  <2>4. IntegersOn(Weighted(q, shards), q)
    BY <2>3, AtType
  <2>5. Weighted(q, shards) = [j \in q |-> Lagrange(q, j) * shards[j]]
    BY DEF Weighted
  <2>6. Total(Weighted(q, shards)) = At(q, shards)
    <3>1. Weighted(q, shards) \in [q -> Int]
      BY <2>4, <2>5 DEF IntegersOn
    <3> QED
      BY <3>1, TotalIsSum DEF At
  <2>7. Exp(G, Sum([j \in q |-> Lagrange(q, j) * shards[j]])) = X(At(q, shards))
    BY <2>5, <2>6 DEF Sum, X
  <2> QED
    BY <2>2, <2>3, <2>7, XAdd, PublicKeys
<1> QED
  BY PublishedFits, <1>1, PTL

\* Whichever TrusteesRequired of the partial decryptions combineTallies happens to
\* take, for each candidate, it comes to G to the number of votes.
THEOREM QuorumsDecrypt == Spec => []AnyQuorumDecrypts
<1>1. IInv => AnyQuorumDecrypts
  <2> SUFFICES ASSUME IInv, NEW q \in Quorums, NEW c \in Candidates, q \subseteq WithParts
               PROVE  ThresholdDecrypt(tally[c], PartsFor(c), q) = Exp(G, votes[c])
    BY DEF AnyQuorumDecrypts
  <2>1. ThresholdDecrypt(tally[c], PartsFor(c), q) = X(votes[c])
    BY PartsCombine
  <2>2. votes[c] \in 0 .. Q
    BY Limits, ModulusIsNumber DEF IInv, TypeOK
  <2> QED
    BY <2>1, <2>2, XSteps
<1> QED
  BY PublishedFits, <1>1, PTL

\* The count that comes out for a candidate is the number of votes, whatever the
\* table was asked before, and the search from the other side finds it as well.
THEOREM CountsCorrect == Spec => []CountsAreVotes
<1>1. IInv => CountsAreVotes
  <2> SUFFICES ASSUME IInv, NEW c \in Candidates, counts[c] # NoLog
               PROVE  /\ counts[c] = votes[c]
                      /\ SparseLookup(ballots, exponentials[c]) = votes[c]
    BY DEF CountsAreVotes
  <2>1. /\ counts[c] = votes[c] /\ exponentials[c] = X(votes[c]) /\ WithParts # {}
    BY DEF IInv, ResultsFit
  <2>2. ballots # 0
    BY <2>1 DEF IInv, PartsFit, WithParts
  <2>3. ballots \in 0 .. MaxBallots /\ MaxBallots < Q /\ MaxBallots \in Nat /\ Q \in Nat
    BY Limits, ModulusIsNumber DEF IInv, TypeOK
  <2>4. votes[c] \in 0 .. ballots
    BY <2>2, <2>3 DEF IInv, TypeOK, TallyFits
  <2> DEFINE hits == {k \in 0 .. ballots : Exp(G, k) = exponentials[c]}
  <2>5. hits = {votes[c]}
    <3>1. ASSUME NEW k \in 0 .. ballots
          PROVE  Exp(G, k) = exponentials[c] <=> k = votes[c]
      <4>1. k \in 0 .. Q /\ k \in 0 .. Q - 1 /\ votes[c] \in 0 .. Q - 1
        BY <2>3, <2>4
      <4>2. Exp(G, k) = X(k)
        BY <4>1, XSteps
      <4> QED
        BY <2>1, <4>1, <4>2, LogarithmsAreUnique
    <3> QED
      BY <2>4, <3>1
  <2>6. Min({votes[c]}) = votes[c]
    BY <2>3, <2>4 DEF Min
  <2> QED
    BY <2>1, <2>5, <2>6 DEF SparseLookup
<1> QED
  BY PublishedFits, <1>1, PTL
=============================================================================
