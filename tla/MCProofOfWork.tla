---------------------------- MODULE MCProofOfWork ----------------------------
(***************************************************************************)
(* Ids of two words of two bits, three nonces, four seconds, and a hash that   *)
(* spreads over all sixteen ids: there are payloads whose genesis block no      *)
(* nonce suits, seconds at which none suits, and blocks that none ever does.   *)
(***************************************************************************)
EXTENDS ProofOfWork

MCHash ==
  [x \in Ids \X Payloads \X Seconds \X Nonces |->
     LET seed == 4 * x[1][1] + x[1][2] + 5 * x[2] + 3 * x[3] + 7 * x[4] + 2
         r    == (seed * seed + 3 * seed * x[2]) % 17
     IN  [w \in 1 .. Words |-> IF w = 1 THEN (r \div 4) % 4 ELSE r % 4]]
=============================================================================
