------------------------------- MODULE ElGamal -------------------------------
(***************************************************************************)
(* The group, encryption, signatures and proofs of crypto/elgamal.          *)
(*                                                                         *)
(* What random.Int and the random oracle return is a parameter of each       *)
(* definition: a record `draw` of the numbers drawn. The oracle answers the   *)
(* same question the same way, so the verifier, who puts together the         *)
(* question of the prover again, is given the prover's answer.               *)
(***************************************************************************)
EXTENDS Arithmetic, FiniteSets, FiniteSetsExt

CONSTANTS P, Q, G     \* the System: modulus, order of the subgroup, generator

\* System.Validate but for G, of which Exp(G, Q) = 1 is demanded below.
ASSUME SystemAssumption ==
  /\ P \in Nat /\ Q \in Nat /\ Q > 1 /\ G \in 2 .. P - 1
  /\ \A n \in {P, Q} : \A d \in 2 .. n - 1 : n % d # 0
  /\ (P - 1) % Q = 0

Exponents == 0 .. Q - 1     \* what random.Int(Q) and the oracle return

\* Exp(b, e) is b^e mod P, for the exponents that occur.
Power ==
  [b \in 0 .. P - 1 |->
     LET pow[e \in 0 .. Q] == IF e = 0 THEN 1 ELSE (pow[e - 1] * b) % P IN pow]
Exp(b, e) == Power[b][e]

ASSUME GeneratorAssumption == Exp(G, Q) = 1

ModInverse(a, modulus) == CHOOSE x \in 1 .. modulus - 1 : (x * a) % modulus = 1
Over(a, b)             == (a * ModInverse(b, P)) % P

\* A sum of exponents.
Sum(f) == Total(f) % Q

-----------------------------------------------------------------------------
(***************************************************************************)
(* Encryption                                                              *)
(***************************************************************************)
CipherTexts == [A : 1 .. P - 1, B : 0 .. P - 1]
EmptyCipher == [A |-> 0, B |-> 0]     \* a CipherText whose parts are nil

Encrypt(y, m, r) == [A |-> Exp(G, r), B |-> (m * Exp(y, r)) % P]
Decrypt(x, ct)   == Over(ct.B, Exp(ct.A, x))

\* CipherText.Mul: homomorphic multiplication, the empty text being neutral.
Mul(c, d) ==
  IF c = EmptyCipher THEN d
  ELSE [A |-> (c.A * d.A) % P, B |-> (c.B * d.B) % P]

-----------------------------------------------------------------------------
(***************************************************************************)
(* Schnorr signatures, which also serve as proofs of knowledge of a key     *)
(***************************************************************************)
\* `asked` is the commitment the oracle was asked about, which the message on the
\* wire has only as its answer C.
CreateSignature(x, draw) ==
  [C |-> draw.answer, R |-> (draw.w - x * draw.answer) % Q, asked |-> Exp(G, draw.w)]

PublicKeyValid(y) == y \in 1 .. P - 1

\* Another commitment than the one asked about would have another answer.
VerifySignature(y, sig) ==
  /\ PublicKeyValid(y)
  /\ (Exp(G, sig.R) * Exp(y, sig.C)) % P = sig.asked

-----------------------------------------------------------------------------
(***************************************************************************)
(* Zero-knowledge proofs                                                   *)
(***************************************************************************)
CreateZKP(h, x, w, C) ==
  [A |-> Exp(G, w), B |-> Exp(h, w), C |-> C, R |-> (w + x * C) % Q]

\* x is the logarithm of gx to the base G and of hx to the base h.
VerifyZKP(zkp, h, gx, hx) ==
  /\ Exp(G, zkp.R) = (zkp.A * Exp(gx, zkp.C)) % P
  /\ Exp(h, zkp.R) = (zkp.B * Exp(hx, zkp.C)) % P

ProveDecryption(x, ct, draw) == CreateZKP(ct.A, x, draw.w, draw.answer)

VerifyPartialDecryptionProof(zkp, answer, y, ct, partial) ==
  /\ zkp.C = answer
  /\ VerifyZKP(zkp, ct.A, y, partial)

\* The plaintexts a ciphertext may have: G^0 .. G^max.
Options(max) == [i \in 0 .. max |-> Exp(G, i)]

\* A proof that fits a challenge and a response drawn beforehand.
FakeEncZKP(y, ct, pt, c, r) ==
  LET m == Over(ct.B, pt) IN
  [A |-> Over(Exp(G, r), Exp(ct.A, c)), B |-> Over(Exp(y, r), Exp(m, c)), C |-> c, R |-> r]

\* Mutant of ProveEncryption: the challenges of the fakes are not taken off.
ProveUncorrected(y, ct, options, index, rnd, draw) ==
  [i \in DOMAIN options |->
     IF i = index THEN CreateZKP(y, rnd, draw.w, draw.answer)
     ELSE FakeEncZKP(y, ct, options[i], draw.C[i], draw.R[i])]

\* The OR proof: fakes for the plaintexts it is not, and a real one whose challenge
\* makes up what the sum of all lacks.
ProveEncryption(y, ct, options, index, rnd, draw) ==
  LET fakes == [i \in DOMAIN options \ {index} |->
                  FakeEncZKP(y, ct, options[i], draw.C[i], draw.R[i])]
      taken == Sum([i \in DOMAIN fakes |-> fakes[i].C])
  IN  [i \in DOMAIN options |->
         IF i = index THEN CreateZKP(y, rnd, draw.w, (draw.answer - taken) % Q) ELSE fakes[i]]

VerifyEncryptionProof(zkp, answer, y, ct, options) ==
  /\ DOMAIN zkp = DOMAIN options
  /\ \A i \in DOMAIN zkp : VerifyZKP(zkp[i], y, ct.A, Over(ct.B, options[i]))
  /\ Sum([i \in DOMAIN zkp |-> zkp[i].C]) = answer
=============================================================================
