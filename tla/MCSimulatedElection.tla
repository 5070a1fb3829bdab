------------------------- MODULE MCSimulatedElection -------------------------
(***************************************************************************)
(* Three trustees, of whom two are needed, and two candidates.              *)
(***************************************************************************)
EXTENDS SimulatedElection

CONSTANTS forFirst, blank, k1, k2, k3, k4, k5

MCPlain ==
  [b \in Ballots |-> [c \in Candidates |-> IF b = forFirst /\ c = 1 THEN 1 ELSE 0]]

London       == {0}
\* In London, and an hour ahead of it.
LondonOrEast == {0, 3600}

Symmetric == Permutations(Keys)
=============================================================================
