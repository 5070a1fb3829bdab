------------------------------- MODULE MCChain -------------------------------
(***************************************************************************)
(* The chain with a validator of the election's kind: each payload once, a   *)
(* vote only by someone registered, no registration after a vote.           *)
(***************************************************************************)
EXTENDS Chain

CONSTANTS setup, reg1, reg2, vote1, refused, p1, p2

MCStates == SUBSET {setup, reg1, reg2, vote1}

Allowed(s, p) ==
  /\ p \notin s
  /\ (p = setup) <=> (s = {})
  /\ p = vote1 => reg1 \in s
  /\ p \in {reg1, reg2} => vote1 \notin s

MCRefused == {refused}

MCApply ==
  [sp \in MCStates \X {setup, reg1, reg2, vote1} |->
     IF Allowed(sp[1], sp[2]) THEN sp[1] \cup {sp[2]} ELSE MCRefused]

MCBlank   == {}
=============================================================================
