------------------------------ MODULE Timezone ------------------------------
(***************************************************************************)
(* timezone/search.go: all zones of a sorted list that start with a prefix,  *)
(* found by two binary searches, and the test whether a zone is valid that    *)
(* the check of an election's setup rests on. A string is the sequence of     *)
(* its bytes. Each turn of a loop of sort.Search is a step.                   *)
(***************************************************************************)
EXTENDS Naturals, Sequences

CONSTANTS
  List,       \* the generated list of zones
  Prefixes    \* what may be asked for

Strings == Seq(Nat)

\* strings.Compare(s, t) = -1: s ends where t goes on, or is smaller at the
\* first byte in which they differ.
Less(s, t) ==
  \E k \in 0 .. Len(s) :
    /\ \A m \in 1 .. k : m <= Len(t) /\ s[m] = t[m]
    /\ k < Len(t)
    /\ k = Len(s) \/ s[k + 1] < t[k + 1]

HasPrefix(s, p) ==
  Len(p) <= Len(s) /\ \A m \in 1 .. Len(p) : s[m] = p[m]

\* The generator sorts the zones and writes each once.
ASSUME ListAssumption ==
  /\ List \in Seq(Strings)
  /\ \A m, n \in 1 .. Len(List) : m < n => Less(List[m], List[n])
ASSUME PrefixesAssumption == Prefixes \subseteq Strings

VARIABLES
  pc,        \* which of the two searches is under way
  prefix,    \* the argument
  i, j,      \* what is left of the search: the answer is between them
  lo, hi     \* the answers

vars == <<pc, prefix, i, j, lo, hi>>

\* The elements of List, counted from 0 as Go does.
At(k) == List[k + 1]

\* Mutant of Reached: strings.Compare(...) == 1.
ReachedPast(k) == Less(prefix, At(k))

\* The functions given to the two searches; each is false up to some index and
\* true from there on.
Reached(k) == ~Less(At(k), prefix)
Left(k)    == ~HasPrefix(At(lo + k), prefix)

-----------------------------------------------------------------------------
Init ==
  /\ pc = "idle" /\ prefix = <<>>
  /\ i = 0 /\ j = 0
  /\ lo = 0 /\ hi = 0

\* PrefixSearch begins to look for the first zone that is not before prefix.
PrefixSearch(p) ==
  /\ pc \in {"idle", "done"}
  /\ pc' = "lo" /\ prefix' = p
  /\ i' = 0 /\ j' = Len(List)
  /\ UNCHANGED <<lo, hi>>

\* Mutant of Halve: the middle may be what it was.
HalveStuck(found, h) == IF found THEN j' = h /\ UNCHANGED i ELSE i' = h /\ UNCHANGED j

\* One turn of sort.Search; `found` is what its function says of the middle.
Middle == (i + j) \div 2
Halve(found, h) == IF found THEN j' = h /\ UNCHANGED i ELSE i' = h + 1 /\ UNCHANGED j

SearchLow ==
  /\ pc = "lo"
  /\ IF i < j
     THEN Halve(Reached(Middle), Middle) /\ UNCHANGED <<pc, lo>>
     ELSE pc' = "hi" /\ lo' = i /\ i' = 0 /\ j' = Len(List) - i
  /\ UNCHANGED <<prefix, hi>>

SearchHigh ==
  /\ pc = "hi"
  /\ IF i < j
     THEN Halve(Left(Middle), Middle) /\ UNCHANGED <<pc, hi>>
     ELSE pc' = "done" /\ hi' = i /\ UNCHANGED <<i, j>>
  /\ UNCHANGED <<prefix, lo>>

Search == SearchLow \/ SearchHigh
Next   == Search \/ \E p \in Prefixes : PrefixSearch(p)

\* A call is a loop of one goroutine.
Fairness == WF_vars(Search)

Spec == Init /\ [][Next]_vars /\ Fairness

\* What PrefixSearch returns, and what IsValidZone says of its argument.
Hits == SubSeq(List, lo + 1, lo + hi)

\* Mutant of IsValidZone: it is not compared with what was asked for.
IsSingleHit == Len(Hits) = 1

IsValidZone == Len(Hits) = 1 /\ Hits[1] = prefix

-----------------------------------------------------------------------------
\* PrefixSearch returns the zones that start with the prefix, all of them and no
\* others, though neither search ever looks at more than a few of them.
SearchIsExact ==
  pc = "done" =>
    {k \in 1 .. Len(List) : HasPrefix(List[k], prefix)} = lo + 1 .. lo + hi

\* IsValidZone says yes to a zone that is listed and no prefix of another one, and
\* to nothing else: no abbreviation or extension of a zone gets into a setup.
ValidZonesAreListed ==
  pc = "done" =>
    (IsValidZone <=> \E k \in 1 .. Len(List) :
                       /\ List[k] = prefix
                       /\ \A m \in 1 .. Len(List) \ {k} : ~HasPrefix(List[m], prefix))

\* A search ends, whatever it is for.
SearchEnds == pc = "lo" ~> pc = "done"

\* IsValidZone says yes to every zone of the list: a listed zone "should be a
\* single entry, which matches the query".
ListedZonesAreValid ==
  pc = "done" /\ (\E k \in 1 .. Len(List) : List[k] = prefix) => IsValidZone

\* The inductive invariant behind SearchIsExact: what lies outside i .. j is known
\* to be before the answer or not to be.
TypeOK ==
  /\ pc \in {"idle", "lo", "hi", "done"}
  /\ prefix \in Strings
  /\ i \in Nat /\ j \in Nat /\ lo \in Nat /\ hi \in Nat
LowInv ==
  pc = "lo" =>
    /\ i <= j /\ j <= Len(List)
    /\ \A k \in 0 .. Len(List) - 1 : (k < i => ~Reached(k)) /\ (j <= k => Reached(k))
LowFound ==
  pc \in {"hi", "done"} =>
    /\ lo <= Len(List)
    /\ \A k \in 0 .. Len(List) - 1 : k < lo <=> ~Reached(k)
HighInv ==
  pc = "hi" =>
    /\ i <= j /\ lo + j <= Len(List)
    /\ \A k \in 0 .. Len(List) - 1 :
         lo <= k => /\ k < lo + i  => HasPrefix(At(k), prefix)
                    /\ lo + j <= k => ~HasPrefix(At(k), prefix)
IInv == TypeOK /\ LowInv /\ LowFound /\ HighInv /\ SearchIsExact

=============================================================================
