----------------------------- MODULE MCThreshold -----------------------------
(***************************************************************************)
(* Three trustees of whom two are needed, two candidates who may both be      *)
(* chosen, two ballots, in the subgroup of order 7 of the numbers modulo 29. *)
(***************************************************************************)
EXTENDS Threshold

CONSTANTS alice, bob

\* A challenge for each option, 0 or not, whichever of them are faked; each other
\* number is any with any challenge.
MCOrDraws ==
  {[w |-> c[0], answer |-> a, C |-> c,
    R |-> [i \in 0 .. MaxChoices |-> c[(i + 1) % (MaxChoices + 1)]]] :
     a \in Drawn, c \in [0 .. MaxChoices -> Drawn]}
=============================================================================
