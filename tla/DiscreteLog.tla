----------------------------- MODULE DiscreteLog -----------------------------
(***************************************************************************)
(* The two ways DiscreteLogLookup finds the count behind an exponential:     *)
(* up to a limit a table that is filled only as far as it is asked about     *)
(* (lazyLookup), above it one search for all the targets.                    *)
(***************************************************************************)
EXTENDS ElGamal

CONSTANTS NoLog, Panicked      \* a query not answered yet, and one that panicked

VARIABLES counter, last, cache     \* lazyLookup: last = G^counter, values seen so far

dlogVars == <<counter, last, cache>>

DLogInit == counter = 0 /\ last = 1 /\ cache = [v \in {1} |-> 0]

\* Opening a table.
DLogStart == counter' = 0 /\ last' = 1 /\ cache' = [v \in {1} |-> 0]

\* How far the loop of incr can get: the last turn begins at 2 * max.
Reach(max) == 2 * max + 1

\* Mutant of Entries: the value is stored before it is counted.
EntriesUncounted(to) ==
  [v \in {(last * Exp(G, k - counter)) % P : k \in counter + 1 .. to} |->
     (CHOOSE k \in counter + 1 .. to : (last * Exp(G, k - counter)) % P = v) - 1]

\* The values met on the way from counter to `to`, each with its logarithm.
Entries(to) ==
  [v \in {(last * Exp(G, k - counter)) % P : k \in counter + 1 .. to} |->
     CHOOSE k \in counter + 1 .. to : (last * Exp(G, k - counter)) % P = v]

\* A query for n, answered from the table or by going on from where it ends.
Found(max, n) ==
  {k \in counter + 1 .. Reach(max) : (last * Exp(G, k - counter)) % P = n}
QueryHit(n) == n \in DOMAIN cache /\ UNCHANGED dlogVars
QueryMiss(max, n) ==
  LET to == IF Found(max, n) = {} THEN Reach(max) ELSE Min(Found(max, n)) IN
  /\ n \notin DOMAIN cache
  /\ counter' = to
  /\ last' = (last * Exp(G, to - counter)) % P
  /\ cache' = [v \in DOMAIN Entries(to) \cup DOMAIN cache |->
                 IF v \in DOMAIN Entries(to) THEN Entries(to)[v] ELSE cache[v]]
Query(max, n) == QueryHit(n) \/ QueryMiss(max, n)

\* The answer to it.
Answer(n) == IF n \in DOMAIN cache' THEN cache'[n] ELSE Panicked

\* The other algorithm: the first power of G that is the target, none of them
\* beyond max.
SparseLookup(max, n) ==
  LET hits == {k \in 0 .. max : Exp(G, k) = n} IN
  IF hits = {} THEN Panicked ELSE Min(hits)
=============================================================================
