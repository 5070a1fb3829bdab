------------------------------ MODULE Threshold ------------------------------
(***************************************************************************)
(* The cryptography of one election from end to end: the trustees draw their *)
(* polynomials, exchange shares and publish shard keys; ballots are           *)
(* encrypted, proven and multiplied; trustees decrypt the product each for     *)
(* themselves; any TrusteesRequired of the parts are combined and the counts   *)
(* looked up. Every value is computed as crypto/elgamal computes it, in a     *)
(* small group, and everybody is honest: what is checked is that the algebra   *)
(* holds together, not that it is hard to break.                            *)
(***************************************************************************)
EXTENDS DiscreteLog

CONSTANTS
  L, T,          \* ThresholdSystem: trustees, and one less than are needed
  Candidates, MaxChoices,
  MaxBallots,    \* bound on the number of ballots
  Drawn,         \* the numbers random.Int and the oracle happen to return
  OrDraws,       \* those they return together for an OR proof: its fakes, of whatever
                 \* plaintext, have a challenge and a response each
  Nothing        \* what has not been computed yet

ASSUME ThresholdAssumption == L \in Nat /\ T \in Nat /\ T < L /\ L < Q
ASSUME DrawnAssumption     == Drawn \subseteq Exponents /\ Drawn # {}
ASSUME OrDrawsAssumption   == OrDraws \subseteq [w : Drawn, answer : Drawn,
                                                 C : [0 .. MaxChoices -> Drawn],
                                                 R : [0 .. MaxChoices -> Drawn]]
ASSUME BallotsAssumption   == /\ IsFiniteSet(Candidates)
                              /\ MaxChoices \in 1 .. Cardinality(Candidates)
                              /\ MaxChoices <= Q
                              /\ MaxBallots \in Nat /\ Reach(MaxBallots) < Q

VARIABLES
  coeffs,       \* the polynomial of each trustee
  shards,       \* the secret shard key of each trustee
  shardKeys,    \* the public one, once the validator has accepted it
  ballots,      \* how many were accepted, and
  votes,        \* for whom
  tally,        \* their product
  partials,     \* the partial decryptions the validator has accepted
  exponentials, \* what they combine to
  counts,       \* and the counts looked up
  refused       \* was anything ever refused?

setupVars  == <<coeffs, shards, shardKeys>>
ballotVars == <<ballots, votes, tally>>
resultVars == <<partials, exponentials, counts>>
vars       == <<setupVars, ballotVars, resultVars, dlogVars, refused>>

Trustees    == 1 .. L
Powers      == 0 .. T
Polynomials == [Powers -> Drawn]
Draws       == [w : Drawn, answer : Drawn]     \* for a proof without fakes
Quorums     == kSubset(T + 1, Trustees)

\* The powers i^k, as the loops build them up.
IndexPower(i, k) == Product([n \in 1 .. k |-> i], Q)

-----------------------------------------------------------------------------
(***************************************************************************)
(* Shares and shard keys                                                   *)
(***************************************************************************)
CreateExponents(poly) == [k \in Powers |-> Exp(G, poly[k])]
exponents             == [j \in Trustees |-> CreateExponents(coeffs[j])]

ElectionPublicKey == Product([j \in Trustees |-> exponents[j][0]], P)

\* G^s_ji out of what trustee j has published.
ExpectedShare(j, i) == Product([k \in Powers |-> Exp(exponents[j][k], IndexPower(i, k))], P)

SimulatePublicKeyShard(i) == Product([j \in Trustees |-> ExpectedShare(j, i)], P)

\* Mutant of CreateSecretShare: the loop stops before the constant term.
ShareWithoutConstant(j, i) ==
  LET h[n \in Powers] == IF n = T THEN coeffs[j][n] % Q ELSE (h[n + 1] * i + coeffs[j][n]) % Q
  IN  IF T = 0 THEN 0 ELSE h[1]

\* The share of trustee j for trustee i, the value of its polynomial at i, from the
\* highest coefficient down.
CreateSecretShare(j, i) ==
  LET h[n \in Powers] == IF n = T THEN coeffs[j][n] % Q ELSE (h[n + 1] * i + coeffs[j][n]) % Q
  IN  h[0]

CheckSecretShareFrom(j, i, share) == Exp(G, share) = ExpectedShare(j, i)

\* A share as it comes out of the block it was put into, encrypted for i.
Received(j, i, encSecret, r) ==
  Decrypt(encSecret, Encrypt(Exp(G, encSecret), CreateSecretShare(j, i), r))

\* Mutants of CombineSharesSharedKeys: its own share left out; no reduction.
CombineOthers(i, encSecret, r) ==
  Sum([j \in Trustees \ {i} |-> Received(j, i, encSecret, r)])
CombineUnreduced(i, encSecret, r) ==
  Total([j \in Trustees |-> Received(j, i, encSecret, r)])

CombineSharesSharedKeys(i, encSecret, r) ==
  Sum([j \in Trustees |->
         IF j = i THEN CreateSecretShare(j, i) ELSE Received(j, i, encSecret, r)])

-----------------------------------------------------------------------------
(***************************************************************************)
(* Combination                                                             *)
(***************************************************************************)
\* Mutant of Lagrange: the differences the other way round.
LagrangeReversed(indices, j) ==
  Product([i \in indices \ {j} |-> (i * ModInverse((j - i) % Q, Q)) % Q], Q)

Lagrange(indices, j) ==
  Product([i \in indices \ {j} |-> (i * ModInverse((i - j) % Q, Q)) % Q], Q)

ThresholdDecrypt(ct, parts, indices) ==
  Over(ct.B, Product([j \in indices |-> Exp(parts[j], Lagrange(indices, j))], P))

-----------------------------------------------------------------------------
Init ==
  /\ coeffs = [i \in Trustees |-> Nothing]
  /\ shards = [i \in Trustees |-> Nothing] /\ shardKeys = [i \in Trustees |-> Nothing]
  /\ ballots = 0 /\ votes = [c \in Candidates |-> 0]
  /\ tally = [c \in Candidates |-> EmptyCipher]
  /\ partials = [i \in Trustees |-> Nothing]
  /\ exponentials = [c \in Candidates |-> Nothing]
  /\ counts = [c \in Candidates |-> NoLog]
  /\ refused = FALSE
  /\ DLogInit

Has(f, S)    == \A x \in S : f[x] # Nothing
WithParts    == {i \in Trustees : partials[i] # Nothing}

\* createTrustee, for one after the other.
CreateTrustee(i) ==
  /\ coeffs[i] = Nothing /\ Has(coeffs, 1 .. i - 1)
  /\ \E poly \in Polynomials : coeffs' = [coeffs EXCEPT ![i] = poly]
  /\ UNCHANGED <<shards, shardKeys, ballotVars, resultVars, dlogVars, refused>>

\* The trustee puts its shares together and posts its shard key; the validator checks
\* the proof that it knows the secret one, and that it is the key expected of it.
PostShardKey(i) ==
  /\ Has(coeffs, Trustees) /\ shards[i] = Nothing
  /\ \E encSecret \in Drawn, r \in Drawn, draw \in Draws :
       LET x   == CombineSharesSharedKeys(i, encSecret, r)
           y   == Exp(G, x % Q)
           pok == CreateSignature(x, draw)
       IN  /\ shards' = [shards EXCEPT ![i] = x]
           /\ IF VerifySignature(y, pok) /\ y = SimulatePublicKeyShard(i)
              THEN shardKeys' = [shardKeys EXCEPT ![i] = y] /\ UNCHANGED refused
              ELSE refused' = TRUE /\ UNCHANGED shardKeys
  /\ UNCHANGED <<coeffs, ballotVars, resultVars, dlogVars>>

Marks == {m \in [Candidates -> {0, 1}] : Total(m) <= MaxChoices}

\* The texts are multiplied one after the other, starting from the empty one.
ProductOf(texts) ==
  FoldFunction(LAMBDA text, acc : Mul(acc, text), EmptyCipher, texts)

\* A ballot is encrypted and proven mark by mark, and as a whole, and verified.
CastBallot ==
  /\ Has(shardKeys, Trustees) /\ WithParts = {} /\ ballots < MaxBallots
  /\ \E m \in Marks, rnd \in [Candidates -> Drawn], draw \in OrDraws :
       LET y       == ElectionPublicKey
           ciphers == [c \in Candidates |-> Encrypt(y, Exp(G, m[c]), rnd[c])]
           whole   == ProductOf(ciphers)
           proofs  == [c \in Candidates |->
                         ProveEncryption(y, ciphers[c], Options(1), m[c], rnd[c], draw)]
           proof   == ProveEncryption(y, whole, Options(MaxChoices), Total(m), Sum(rnd), draw)
       IN  IF /\ \A c \in Candidates :
                    VerifyEncryptionProof(proofs[c], draw.answer, y, ciphers[c], Options(1))
              /\ VerifyEncryptionProof(proof, draw.answer, y, whole, Options(MaxChoices))
           THEN /\ ballots' = ballots + 1
                /\ votes' = [c \in Candidates |-> votes[c] + m[c]]
                /\ tally' = [c \in Candidates |-> Mul(tally[c], ciphers[c])]
                /\ UNCHANGED refused
           ELSE refused' = TRUE /\ UNCHANGED ballotVars
  /\ UNCHANGED <<setupVars, resultVars, dlogVars>>

\* Its part of the decryption, with the proof that it used its shard key. Without a
\* ballot there is no text to decrypt, and the trustee's process dies of trying.
PostPartialTally(i) ==
  /\ Has(shardKeys, Trustees) /\ ballots > 0 /\ partials[i] = Nothing
  /\ \E draw \in Draws :
       LET part   == [c \in Candidates |-> Exp(tally[c].A, shards[i])]
           proofs == [c \in Candidates |-> ProveDecryption(shards[i], tally[c], draw)]
       IN  IF \A c \in Candidates :
                VerifyPartialDecryptionProof(proofs[c], draw.answer, shardKeys[i], tally[c], part[c])
           THEN partials' = [partials EXCEPT ![i] = part] /\ UNCHANGED refused
           ELSE refused' = TRUE /\ UNCHANGED partials
  /\ UNCHANGED <<setupVars, ballotVars, exponentials, counts, dlogVars>>

\* The parts of candidate c, by trustee.
PartsFor(c) == [i \in WithParts |-> partials[i][c]]

\* combineTallies: the parts are taken as the iteration over a map yields them, so
\* which TrusteesRequired of them is left open, for each candidate anew.
CombineTallies ==
  /\ Cardinality(WithParts) > T
  /\ \A c \in Candidates : exponentials[c] = Nothing
  /\ \E quorum \in [Candidates -> {q \in Quorums : q \subseteq WithParts}] :
       exponentials' =
         [c \in Candidates |-> ThresholdDecrypt(tally[c], PartsFor(c), quorum[c])]
  /\ DLogStart
  /\ UNCHANGED <<setupVars, ballotVars, partials, counts, refused>>

LookUp(c) ==
  /\ exponentials[c] # Nothing /\ counts[c] = NoLog
  /\ Query(ballots, exponentials[c])
  /\ counts' = [counts EXCEPT ![c] = Answer(exponentials[c])]
  /\ UNCHANGED <<setupVars, ballotVars, partials, exponentials, refused>>

Next ==
  \/ \E i \in Trustees : CreateTrustee(i) \/ PostShardKey(i) \/ PostPartialTally(i)
  \/ CastBallot \/ CombineTallies
  \/ \E c \in Candidates : LookUp(c)

Spec == Init /\ [][Next]_vars

-----------------------------------------------------------------------------
TypeOK ==
  /\ coeffs \in [Trustees -> Polynomials \cup {Nothing}]
  /\ shards \in [Trustees -> Exponents \cup {Nothing}]
  /\ shardKeys \in [Trustees -> (1 .. P - 1) \cup {Nothing}]
  /\ ballots \in 0 .. MaxBallots /\ votes \in [Candidates -> 0 .. MaxBallots]
  /\ tally \in [Candidates -> CipherTexts \cup {EmptyCipher}]
  /\ partials \in [Trustees -> [Candidates -> 1 .. P - 1] \cup {Nothing}]
  /\ exponentials \in [Candidates -> (1 .. P - 1) \cup {Nothing}]
  /\ counts \in [Candidates -> (0 .. Reach(MaxBallots)) \cup {NoLog, Panicked}]
  /\ refused \in BOOLEAN
  /\ counter \in 0 .. Reach(MaxBallots) /\ last = Exp(G, counter)

\* Every share is the one the public exponents of its sender commit it to.
SharesAreConsistent ==
  Has(coeffs, Trustees) =>
    \A j, i \in Trustees : CheckSecretShareFrom(j, i, CreateSecretShare(j, i))

\* Nothing an honest trustee or voter posts is refused: shard keys are the ones that
\* are expected, and every proof verifies, whatever numbers were drawn for it.
HonestBlocksAreAccepted == ~refused

\* The shards any quorum holds are those of one secret: the one the election's public
\* key belongs to, which no trustee knows.
QuorumsShareOneSecret ==
  Has(shards, Trustees) =>
    \A q \in Quorums :
      Exp(G, Sum([j \in q |-> Lagrange(q, j) * shards[j]])) = ElectionPublicKey

\* Whichever of the partial decryptions are combined, the result is the same, the
\* number of votes in the exponent.
AnyQuorumDecrypts ==
  \A q \in Quorums, c \in Candidates :
    q \subseteq WithParts => ThresholdDecrypt(tally[c], PartsFor(c), q) = Exp(G, votes[c])

\* The counts are those of the votes, whatever was looked up before, and either
\* algorithm finds them.
CountsAreVotes ==
  \A c \in Candidates :
    counts[c] # NoLog =>
      counts[c] = votes[c] /\ SparseLookup(ballots, exponentials[c]) = votes[c]
=============================================================================
