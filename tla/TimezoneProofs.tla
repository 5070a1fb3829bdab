---------------------------- MODULE TimezoneProofs ----------------------------
(***************************************************************************)
(* For every sorted list and everything that may be asked for: a prefix       *)
(* search is exact. That rests on two facts about the order of strings, by     *)
(* which the functions given to sort.Search change only once; and nothing      *)
(* here depends on Fairness.                                                 *)
(***************************************************************************)
EXTENDS Timezone, TLAPS

\* What comes before something that comes before p comes before p.
LEMMA LessIsTransitive ==
  ASSUME NEW r \in Strings, NEW s \in Strings, NEW p \in Strings,
         Less(r, s), Less(s, p)
  PROVE  Less(r, p)
<1>1. PICK k \in 0 .. Len(r) :
        /\ \A m \in 1 .. k : m <= Len(s) /\ r[m] = s[m]
        /\ k < Len(s)
        /\ k = Len(r) \/ r[k + 1] < s[k + 1]
  BY DEF Less
<1>2. PICK l \in 0 .. Len(s) :
        /\ \A m \in 1 .. l : m <= Len(p) /\ s[m] = p[m]
        /\ l < Len(p)
        /\ l = Len(s) \/ s[l + 1] < p[l + 1]
  BY DEF Less
<1>3. /\ Len(r) \in Nat /\ Len(s) \in Nat /\ Len(p) \in Nat
      /\ \A m \in 1 .. Len(r) : r[m] \in Nat
      /\ \A m \in 1 .. Len(s) : s[m] \in Nat
      /\ \A m \in 1 .. Len(p) : p[m] \in Nat
  BY DEF Strings
<1>4. CASE k < l
  <2>1. /\ \A m \in 1 .. k : m <= Len(p) /\ r[m] = p[m]
        /\ k < Len(p)
        /\ k = Len(r) \/ r[k + 1] < p[k + 1]
    BY <1>1, <1>2, <1>3, <1>4
  <2> QED
    BY <2>1 DEF Less
<1>5. CASE l <= k
  <2>1. l < Len(s) /\ s[l + 1] < p[l + 1]
    BY <1>1, <1>2, <1>3, <1>5
  <2>2. \A m \in 1 .. l : m <= Len(p) /\ r[m] = p[m]
    BY <1>1, <1>2, <1>3, <1>5
  <2>3. l = Len(r) \/ r[l + 1] < p[l + 1]
    <3>1. CASE l = k
      <4>1. k = Len(r) \/ r[l + 1] < s[l + 1]
        BY <1>1, <3>1
      <4>2. k # Len(r) => r[l + 1] \in Nat /\ s[l + 1] \in Nat /\ p[l + 1] \in Nat
        BY <1>1, <1>2, <1>3, <3>1
      <4> QED
        BY <2>1, <3>1, <4>1, <4>2
    <3>2. CASE l < k
      BY <1>1, <1>2, <1>3, <2>1, <3>2
    <3> QED
      BY <1>5, <3>1, <3>2
  <2>4. l \in 0 .. Len(r)
    BY <1>1, <1>2, <1>3, <1>5
  <2> QED
    BY <1>2, <2>2, <2>3, <2>4 DEF Less
<1> QED
  BY <1>4, <1>5

\* What starts with p does not come before p.
LEMMA PrefixIsReached ==
  ASSUME NEW s \in Strings, NEW p \in Strings, HasPrefix(s, p)
  PROVE  ~Less(s, p)
<1> SUFFICES ASSUME Less(s, p) PROVE FALSE
  OBVIOUS
<1>1. PICK k \in 0 .. Len(s) :
        /\ k < Len(p)
        /\ k = Len(s) \/ s[k + 1] < p[k + 1]
  BY DEF Less
<1>2. Len(s) \in Nat /\ Len(p) \in Nat /\ \A m \in 1 .. Len(p) : p[m] \in Nat
  BY DEF Strings
<1>3. Len(p) <= Len(s) /\ s[k + 1] = p[k + 1]
  BY <1>1, <1>2 DEF HasPrefix
<1> QED
  BY <1>1, <1>2, <1>3

\* Between p and a string that starts with p there are only such strings.
LEMMA PrefixesAreTogether ==
  ASSUME NEW s \in Strings, NEW t \in Strings, NEW p \in Strings,
         ~Less(s, p), Less(s, t), HasPrefix(t, p)
  PROVE  HasPrefix(s, p)
<1>1. PICK k \in 0 .. Len(s) :
        /\ \A m \in 1 .. k : m <= Len(t) /\ s[m] = t[m]
        /\ k < Len(t)
        /\ k = Len(s) \/ s[k + 1] < t[k + 1]
  BY DEF Less
<1>2. Len(s) \in Nat /\ Len(t) \in Nat /\ Len(p) \in Nat
  BY DEF Strings
<1>3. Len(p) <= Len(t) /\ \A m \in 1 .. Len(p) : t[m] = p[m]
  BY DEF HasPrefix
<1>4. CASE Len(p) <= k
  BY <1>1, <1>2, <1>3, <1>4 DEF HasPrefix
<1>5. CASE k < Len(p)
  <2>1. \A m \in 1 .. k : m <= Len(p) /\ s[m] = p[m]
    BY <1>1, <1>2, <1>3, <1>5
  <2>2. k = Len(s) \/ s[k + 1] < p[k + 1]
    BY <1>1, <1>2, <1>3, <1>5
  <2> QED
    BY <1>5, <2>1, <2>2 DEF Less
<1> QED
  BY <1>2, <1>4, <1>5

-----------------------------------------------------------------------------
\* The elements of the list, counted from 0.
LEMMA ListElements ==
  /\ Len(List) \in Nat
  /\ \A k \in 0 .. Len(List) - 1 : At(k) \in Strings
  /\ \A k, l \in 0 .. Len(List) - 1 : k < l => Less(At(k), At(l))
<1>1. Len(List) \in Nat /\ \A k \in 1 .. Len(List) : List[k] \in Strings
  BY ListAssumption DEF Strings
<1> QED
  BY <1>1, ListAssumption DEF At

\* What the two functions are true of, they are true of from there on.
LEMMA ReachedIsMonotone ==
  ASSUME prefix \in Strings,
         NEW k \in 0 .. Len(List) - 1, NEW l \in 0 .. Len(List) - 1, k <= l, Reached(k)
  PROVE  Reached(l)
<1>1. CASE k = l
  BY <1>1
<1>2. CASE k < l
  BY <1>2, ListElements, LessIsTransitive DEF Reached
<1> QED
  BY <1>1, <1>2, ListElements

LEMMA LeftIsMonotone ==
  ASSUME prefix \in Strings,
         NEW k \in 0 .. Len(List) - 1, NEW l \in 0 .. Len(List) - 1, k <= l,
         Reached(k), HasPrefix(At(l), prefix)
  PROVE  HasPrefix(At(k), prefix)
<1>1. CASE k = l
  BY <1>1
<1>2. CASE k < l
  BY <1>2, ListElements, PrefixesAreTogether DEF Reached
<1> QED
  BY <1>1, <1>2, ListElements

\* The middle lies in what is left, so either half is smaller.
LEMMA MiddleIsBetween ==
  ASSUME i \in Nat, j \in Nat, i < j
  PROVE  Middle \in Nat /\ i <= Middle /\ Middle < j
BY DEF Middle

LEMMA InitIInv == Init => IInv
<1>1. <<>> \in Strings
  BY DEF Strings
<1> QED
  BY <1>1 DEF Init, IInv, TypeOK, LowInv, LowFound, HighInv, SearchIsExact

LEMMA CallKeepsIInv ==
  ASSUME IInv, NEW p \in Prefixes, PrefixSearch(p)
  PROVE  IInv'
<1>1. Len(List) \in Nat
  BY ListElements
<1>2. TypeOK'
  BY <1>1, PrefixesAssumption DEF IInv, TypeOK, PrefixSearch
<1>3. LowInv'
  BY <1>1 DEF PrefixSearch, LowInv
<1> QED
  BY <1>2, <1>3 DEF IInv, PrefixSearch, LowFound, HighInv, SearchIsExact

LEMMA SearchLowKeepsIInv ==
  ASSUME IInv, SearchLow
  PROVE  IInv'
<1>1. /\ pc = "lo" /\ UNCHANGED <<prefix, hi>>
      /\ TypeOK /\ LowInv /\ Len(List) \in Nat
  BY ListElements DEF IInv, SearchLow
<1>2. CASE i < j
  <2>1. Middle \in Nat /\ i <= Middle /\ Middle < j /\ Middle \in 0 .. Len(List) - 1
    BY <1>1, <1>2, MiddleIsBetween DEF TypeOK, LowInv
  <2>2. pc' = "lo" /\ UNCHANGED lo /\ Halve(Reached(Middle), Middle)
    BY <1>1, <1>2 DEF SearchLow
  <2>3. LowInv'
    <3>1. CASE Reached(Middle)
      <4>1. i' = i /\ j' = Middle
        BY <2>2, <3>1 DEF Halve
      <4>2. \A k \in 0 .. Len(List) - 1 : Middle <= k => Reached(k)
        BY <1>1, <2>1, <3>1, ReachedIsMonotone DEF TypeOK
      <4> QED
        BY <1>1, <2>1, <4>1, <4>2 DEF TypeOK, LowInv, Reached
    <3>2. CASE ~Reached(Middle)
      <4>1. i' = Middle + 1 /\ j' = j
        BY <2>2, <3>2 DEF Halve
      <4>2. \A k \in 0 .. Len(List) - 1 : k <= Middle => ~Reached(k)
        BY <1>1, <2>1, <3>2, ReachedIsMonotone DEF TypeOK
      <4>3. \A k \in 0 .. Len(List) - 1 : k < Middle + 1 => k <= Middle
        BY <2>1
      <4> QED
        BY <1>1, <2>1, <4>1, <4>2, <4>3 DEF TypeOK, LowInv, Reached
    <3> QED
      BY <3>1, <3>2
  <2>4. TypeOK'
    BY <1>1, <2>1, <2>2 DEF TypeOK, Halve
  <2> QED
    BY <2>2, <2>3, <2>4 DEF IInv, LowFound, HighInv, SearchIsExact
<1>3. CASE ~(i < j)
  <2>1. pc' = "hi" /\ lo' = i /\ i' = 0 /\ j' = Len(List) - i
    BY <1>1, <1>3 DEF SearchLow
  <2>2. i = j /\ i <= Len(List)
    BY <1>1, <1>3 DEF TypeOK, LowInv
  <2>3. TypeOK'
    BY <1>1, <2>1, <2>2 DEF TypeOK
  <2>4. LowFound'
    BY <1>1, <2>1, <2>2 DEF TypeOK, LowInv, LowFound, Reached
  <2>5. HighInv'
    BY <1>1, <2>1, <2>2 DEF TypeOK, HighInv
  <2> QED
    BY <2>1, <2>3, <2>4, <2>5 DEF IInv, LowInv, SearchIsExact
<1> QED
  BY <1>2, <1>3

LEMMA SearchHighKeepsIInv ==
  ASSUME IInv, SearchHigh
  PROVE  IInv'
<1>1. /\ pc = "hi" /\ UNCHANGED <<prefix, lo>>
      /\ TypeOK /\ LowFound /\ HighInv /\ Len(List) \in Nat
  BY ListElements DEF IInv, SearchHigh
<1>2. /\ lo \in Nat /\ lo <= Len(List)
      /\ \A k \in 0 .. Len(List) - 1 : k < lo <=> ~Reached(k)
  BY <1>1 DEF TypeOK, LowFound
<1>3. CASE i < j
  <2> DEFINE mid == lo + Middle
  <2>1. /\ Middle \in Nat /\ i <= Middle /\ Middle < j
        /\ mid \in 0 .. Len(List) - 1 /\ lo <= mid
    BY <1>1, <1>3, MiddleIsBetween DEF TypeOK, HighInv
  <2>2. pc' = "hi" /\ UNCHANGED hi /\ Halve(Left(Middle), Middle)
    BY <1>1, <1>3 DEF SearchHigh
  <2>3. HighInv'
    <3>1. CASE Left(Middle)
      <4>1. i' = i /\ j' = Middle
        BY <2>2, <3>1 DEF Halve
      <4>2. ~HasPrefix(At(mid), prefix) /\ Reached(mid)
        BY <1>2, <2>1, <3>1 DEF Left
      <4>3. \A k \in 0 .. Len(List) - 1 : mid <= k => ~HasPrefix(At(k), prefix)
        BY <1>1, <2>1, <4>2, LeftIsMonotone DEF TypeOK
      <4> QED
        BY <1>1, <1>2, <2>1, <4>1, <4>3 DEF TypeOK, HighInv
    <3>2. CASE ~Left(Middle)
      <4>1. i' = Middle + 1 /\ j' = j
        BY <2>2, <3>2 DEF Halve
      <4>2. HasPrefix(At(mid), prefix)
        BY <3>2 DEF Left
      <4>3. \A k \in 0 .. Len(List) - 1 :
              lo <= k /\ k <= mid => HasPrefix(At(k), prefix)
        BY <1>1, <1>2, <2>1, <4>2, LeftIsMonotone DEF TypeOK
      <4>4. \A k \in 0 .. Len(List) - 1 : k < lo + (Middle + 1) => k <= mid
        BY <1>2, <2>1
      <4> HIDE DEF mid
      <4>5. i' <= j' /\ lo' + j' <= Len(List)
        BY <1>1, <1>2, <2>1, <4>1 DEF TypeOK, HighInv
      <4> QED
        BY <1>1, <1>2, <4>1, <4>3, <4>4, <4>5 DEF TypeOK, HighInv
    <3> QED
      BY <3>1, <3>2
  <2>4. TypeOK'
    BY <1>1, <2>1, <2>2 DEF TypeOK, Halve
  <2>5. LowFound'
    BY <1>1, <2>2 DEF LowFound, Reached
  <2> QED
    BY <2>2, <2>3, <2>4, <2>5 DEF IInv, LowInv, SearchIsExact
<1>4. CASE ~(i < j)
  <2>1. pc' = "done" /\ hi' = i
    BY <1>1, <1>4 DEF SearchHigh
  <2>2. i = j /\ i \in Nat /\ lo + i <= Len(List)
    BY <1>1, <1>4 DEF TypeOK, HighInv
  <2>3. TypeOK'
    BY <1>1, <1>4, <2>1 DEF TypeOK, SearchHigh
  <2>4. LowFound'
    BY <1>1, <2>1 DEF LowFound, Reached
  <2>5. \A k \in 0 .. Len(List) - 1 :
          HasPrefix(At(k), prefix) <=> lo <= k /\ k < lo + i
    <3> SUFFICES ASSUME NEW k \in 0 .. Len(List) - 1
                 PROVE  HasPrefix(At(k), prefix) <=> lo <= k /\ k < lo + i
      OBVIOUS
    <3>1. CASE lo <= k
      BY <1>1, <1>2, <2>2, <3>1 DEF HighInv
    <3>2. CASE k < lo
      BY <1>1, <1>2, <3>2, ListElements, PrefixIsReached DEF TypeOK, Reached
    <3> QED
      BY <1>2, <3>1, <3>2
  <2>6. \A k \in 1 .. Len(List) :
          HasPrefix(List[k], prefix) <=> lo + 1 <= k /\ k <= lo + i
    <3> SUFFICES ASSUME NEW k \in 1 .. Len(List)
                 PROVE  HasPrefix(List[k], prefix) <=> lo + 1 <= k /\ k <= lo + i
      OBVIOUS
    <3>1. k - 1 \in 0 .. Len(List) - 1 /\ At(k - 1) = List[k]
      BY <1>1 DEF At
    <3> QED
      BY <1>2, <2>2, <2>5, <3>1
  <2>7. SearchIsExact'
    <3>1. {k \in 1 .. Len(List) : HasPrefix(List[k], prefix)} = lo + 1 .. lo + i
      BY <1>1, <1>2, <2>2, <2>6
    <3> QED
      BY <1>1, <2>1, <3>1 DEF SearchIsExact
  <2> QED
    BY <2>1, <2>3, <2>4, <2>7 DEF IInv, LowInv, HighInv
<1> QED
  BY <1>3, <1>4

LEMMA NextKeepsIInv == IInv /\ [Next]_vars => IInv'
<1> SUFFICES ASSUME IInv, [Next]_vars PROVE IInv'
  OBVIOUS
<1>1. ASSUME NEW p \in Prefixes, PrefixSearch(p) PROVE IInv'
  BY <1>1, CallKeepsIInv
<1>2. CASE SearchLow
  BY <1>2, SearchLowKeepsIInv
<1>3. CASE SearchHigh
  BY <1>3, SearchHighKeepsIInv
<1>4. CASE UNCHANGED vars
  BY <1>4 DEF vars, IInv, TypeOK, LowInv, LowFound, HighInv, SearchIsExact, Reached
<1> QED
  BY <1>1, <1>2, <1>3, <1>4 DEF Next, Search

\* What PrefixSearch returns are the zones that start with the prefix, all of them
\* and no others, for every sorted list.
THEOREM PrefixSearchIsExact == Spec => []SearchIsExact
<1>1. IInv => SearchIsExact
  BY DEF IInv
<1> QED
  BY InitIInv, NextKeepsIInv, <1>1, PTL DEF Spec

\* IsValidZone refuses whatever is not listed, and a listed zone if, and only if,
\* another one starts with it.
THEOREM OnlyListedZonesAreValid == Spec => []ValidZonesAreListed
<1>1. IInv => ValidZonesAreListed
  <2> SUFFICES ASSUME IInv, pc = "done"
               PROVE  IsValidZone <=>
                        \E k \in 1 .. Len(List) :
                          /\ List[k] = prefix
                          /\ \A m \in 1 .. Len(List) \ {k} : ~HasPrefix(List[m], prefix)
    BY DEF ValidZonesAreListed
  <2>1. /\ Len(List) \in Nat /\ List \in Seq(Strings)
        /\ lo \in Nat /\ hi \in Nat /\ prefix \in Strings
        /\ {k \in 1 .. Len(List) : HasPrefix(List[k], prefix)} = lo + 1 .. lo + hi
    BY ListElements, ListAssumption DEF IInv, TypeOK, SearchIsExact
  <2>2. HasPrefix(prefix, prefix)
    BY <2>1 DEF HasPrefix, Strings
  <2>3. hi > 0 => lo + hi <= Len(List)
    <3>1. hi > 0 => lo + hi \in lo + 1 .. lo + hi
      BY <2>1
    <3> QED
      BY <2>1, <3>1
  <2>4. Len(Hits) = hi
    <3>1. CASE hi = 0
      BY <2>1, <3>1 DEF Hits
    <3>2. CASE hi > 0
      BY <2>1, <2>3, <3>2 DEF Hits
    <3> QED
      BY <2>1, <3>1, <3>2
  <2>5. hi > 0 => Hits[1] = List[lo + 1]
    BY <2>1, <2>3 DEF Hits
  <2>6. IsValidZone <=> hi = 1 /\ List[lo + 1] = prefix
    <3>1. Len(Hits) = 1 <=> hi = 1
      BY <2>4
    <3>2. hi = 1 => (Hits[1] = prefix <=> List[lo + 1] = prefix)
      BY <2>5
    <3> QED
      BY <3>1, <3>2 DEF IsValidZone
  <2>7. ASSUME hi = 1, List[lo + 1] = prefix
        PROVE  \E k \in 1 .. Len(List) :
                 /\ List[k] = prefix
                 /\ \A m \in 1 .. Len(List) \ {k} : ~HasPrefix(List[m], prefix)
    <3>1. lo + 1 .. lo + hi = {lo + 1}
      BY <2>1, <2>7
    <3>2. lo + 1 \in 1 .. Len(List)
      BY <2>1, <2>3, <2>7
    <3> QED
      BY <2>1, <2>7, <3>1, <3>2
  <2>8. ASSUME NEW k \in 1 .. Len(List), List[k] = prefix,
               \A m \in 1 .. Len(List) \ {k} : ~HasPrefix(List[m], prefix)
        PROVE  hi = 1 /\ List[lo + 1] = prefix
    <3>1. {m \in 1 .. Len(List) : HasPrefix(List[m], prefix)} = {k}
      BY <2>2, <2>8
    <3>2. lo + 1 .. lo + hi = {k}
      BY <2>1, <3>1
    <3>3. hi # 0
      BY <2>1, <3>2
    <3>4. lo + 1 = k /\ lo + hi = k
      BY <2>1, <3>2, <3>3
    <3> QED
      BY <2>1, <2>8, <3>4
  <2> QED
    BY <2>6, <2>7, <2>8
<1> QED
  BY InitIInv, NextKeepsIInv, <1>1, PTL DEF Spec

=============================================================================
