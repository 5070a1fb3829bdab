---------------------------- MODULE MCConfigServer ----------------------------
(***************************************************************************)
(* Two requests at a time, two fields: the parameters, and the trustees.     *)
(***************************************************************************)
EXTENDS ConfigServer, TLC

CONSTANTS v, h1, h2, s1, s2

\* A whole setup as the page sends it, a part of one, and two that are refused, at
\* the first field or when both are decoded.
MCBodies ==
  { [f \in Fields |-> v],
    [f \in Fields |-> IF f = 1 THEN Absent ELSE v],
    [f \in Fields |-> IF f = 1 THEN Refused ELSE v],
    [f \in Fields |-> IF f = 1 THEN Mistyped ELSE Nulled] }

Symmetric == Permutations(Handlers) \cup Permutations(Structs)

\* What is at a place that nothing points to is never read again, and `touched` is
\* not asked while nothing is saved.
Reachable ==
  <<file, up, setup, [s \in Structs |-> IF s \in Targets \cup {setup} THEN struct[s] ELSE Blank],
    put, saved, saved # None /\ touched, cut, nullMet>>

=============================================================================
