------------------------------ MODULE Arithmetic ------------------------------
(***************************************************************************)
(* The loops that add up or multiply: over the values of a function, in an   *)
(* order that is left open.                                                 *)
(***************************************************************************)
EXTENDS Integers, Functions

\* The sum of f[x] over the domain of f.
Total(f) == FoldFunction(+, 0, f)

\* Their product modulo n.
Product(f, n) == FoldFunction(LAMBDA a, b : (a * b) % n, 1, f)
=============================================================================
