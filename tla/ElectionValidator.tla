-------------------------- MODULE ElectionValidator --------------------------
(***************************************************************************)
(* One ElectionValidator with its ElectionState, in the memory of one      *)
(* process: blocks are offered to Validate, which accepts each (and        *)
(* changes the state), rejects it, or panics.                              *)
(*                                                                         *)
(* Cryptography is abstracted to what its checks tell apart: who signed,   *)
(* whether the proofs verify, which ballots a tally is the product of.     *)
(***************************************************************************)
EXTENDS Timing, Arithmetic, Sequences, FiniteSets

CONSTANTS
  Candidates,        \* the candidates of the election, by number
  Voters,            \* voter ids (their hashes)
  Keys,              \* voter signing keys
  Ballots,           \* encrypted ballots: lists of ciphertexts, of any length
  Plain,             \* Plain[b][c]: what the c-th ciphertext of b encrypts
  Nulled,            \* the ballots with a null among their ciphertexts
  Order,             \* how many plaintexts there are (the order of the group)
  Setups,            \* the setup payloads a genesis block may carry
  Indices,           \* the trustee indices a payload may name
  RecipientLists,    \* the recipient lists a shares payload may carry
  Lengths,           \* how many parts of a list may check out before one does not
  Times,             \* the timestamps a block may carry
  LooseMode,         \* validator.LooseMode: trust signatures and ballot proofs
  ClockMayStepBack,  \* may a block be stamped earlier than one before it?
  MaxDiscarded,      \* bound on discardedVotes
  NoSetup, NoKey, NoVote, NoTally, NoResult

\* How the checks of one part of a payload end: they pass, they fail, or they
\* dereference something that is null, or not there, in the JSON.
Verdicts == {"valid", "invalid", "missing"}

\* A setup payload.
SetupData ==
  [trustees : Nat, required : Nat, maxChoices : Nat, timing : Timings,
   params    : Verdicts,   \* version, difficulty, group parameters
   parties   : Verdicts,   \* trustees and registrar: keys, proofs, signatures
   exponents : {"enough",  \* `required` for every trustee, each a group element,
                "unusable", "none",   \* not so, or none at all for some trustee,
                "undecodable"}]       \* or not base64: no check looks at them

ASSUME SetupsAssumption     == Setups \subseteq SetupData
ASSUME TimesAssumption      == Times \subseteq Nat
ASSUME RecipientsAssumption == RecipientLists \subseteq Seq(Nat)
ASSUME CandidatesAssumption == /\ IsFiniteSet(Candidates)
                               /\ Candidates = 1 .. Cardinality(Candidates)
ASSUME OrderAssumption      == Order \in Nat \ {0} /\ Lengths \subseteq Nat
ASSUME PlainAssumption      == Plain \in [Ballots -> Seq(Nat)] /\ Nulled \subseteq Ballots
ASSUME FiniteAssumption     == IsFiniteSet(Voters) /\ IsFiniteSet(Ballots)
ASSUME SwitchAssumption     == LooseMode \in BOOLEAN /\ ClockMayStepBack \in BOOLEAN
ASSUME NothingAssumption    == /\ NoSetup \notin Setups
                               /\ NoKey \notin Keys
                               /\ NoVote \notin Ballots
ASSUME NoTallyAssumption    == NoTally \notin [Ballots -> Nat]
ASSUME NoResultAssumption   == NoResult \notin [Candidates -> Nat]

VARIABLES
  setup,           \* immutableSetupData, NoSetup while ev.state is nil
  trusteeShares,   \* trusteeShares[j]: the recipients of trustee j's shares
  haveAllShares,
  trusteePublic,   \* the trustees whose shard key has been accepted
  haveAllPublic,
  system,          \* es.system is set (with es.exponents)
  registered,      \* voters[v].key, NoKey for an id not in the map
  vote,            \* voters[v].vote, the voter's last ballot
  discardedVotes,
  localTallies,    \* the cached encrypted tally
  resultPartials,  \* the trustees whose partial decryption has been accepted
  finalTallys,     \* the cached result
  verdict,         \* how the last call of Validate, or of a query, ended
  malformed,       \* has Validate let a malformed block past, or panicked on one?
  clock            \* the latest timestamp given to a block so far

setupVars == <<setup, trusteeShares, haveAllShares, trusteePublic, haveAllPublic, system>>
voterVars == <<registered, vote, discardedVotes>>
tallyVars == <<localTallies, resultPartials, finalTallys>>
vars      == <<setupVars, voterVars, tallyVars, verdict, malformed, clock>>

Trustees == 1 .. setup.trustees

-----------------------------------------------------------------------------
(***************************************************************************)
(* Blocks: the parts of header and payload that Validate looks at.          *)
(*                                                                         *)
(* What is null in a payload, or missing, is not turned down on decoding but *)
(* dereferenced, and what the lists of a ballot hold is as long as its       *)
(* sender made it. "Unreadable" is a block every handler does turn down:      *)
(* with another payload than its header's hash is of, with one that does not *)
(* decode or is not canonical, of a kind nobody expects, or with a list whose *)
(* length is compared, and wrong.                                            *)
(***************************************************************************)
GenesisBlocks ==
  [hint : {"ElectionSetup"}, time : Times, data : Setups,
   genesis : BOOLEAN,    \* depth 0 and no previous block
   future  : BOOLEAN,    \* stamped later than the validating machine's now
   ours    : BOOLEAN]    \* with the election's id
SharesBlocks ==
  [hint : {"TrusteeShares"}, time : Times, index : Indices,
   recipients : RecipientLists,
   signed : Lengths,     \* how many shares, from the first, have good signatures,
   broken : BOOLEAN]     \* and is the next one null, or in part?
PublicBlocks ==
  [hint : {"TrusteePublic"}, time : Times, index : Indices,
   signed : Verdicts,    \* by that trustee, and the proof of knowledge
   shardKey : Verdicts]  \* is it the key the public exponents predict?
RegistrationBlocks ==
  [hint : {"VoterReg"}, time : Times, voter : Voters, key : Keys \cup {NoKey},
   signed : Verdicts]    \* by the registrar and by the key itself
BallotBlocks ==
  [hint : {"Ballot"}, time : Times, voter : Voters, votes : Ballots \cup {NoVote},
   signer : Keys \cup {NoKey},
   proofs : Lengths,     \* how many of the proofs, from the first, are good ones,
   proven : Verdicts]    \* and the one after: it is the overall proof if valid
UnreadableBlocks == [hint : {"Unreadable"}, time : Times]

\* Mutant of EncryptedTally: equal ballots are multiplied in once.
TallyOfDistinct(cast) ==
  [b \in Ballots |-> IF \E v \in Voters : cast[v] = b THEN 1 ELSE 0]

\* The homomorphic products of the ballots in `cast`: how often each occurs.
EncryptedTally(cast) ==
  [b \in Ballots |-> Cardinality({v \in Voters : cast[v] = b})]

PartialTallyBlocks ==
  [hint : {"PartialTally"}, time : Times, index : Indices,
   \* NoTally: one ciphertext is null, those before it are what is expected.
   tally : {EncryptedTally(cast) : cast \in [Voters -> (Ballots \ Nulled) \cup {NoVote}]}
             \cup {NoTally},
   signed : Verdicts,
   \* The decrypted tallies with their proofs, by the shard key; "undecodable"
   \* is not base64.
   decryption : Verdicts \cup {"undecodable"}]

Blocks == GenesisBlocks \cup SharesBlocks \cup PublicBlocks \cup RegistrationBlocks
            \cup BallotBlocks \cup PartialTallyBlocks \cup UnreadableBlocks

\* A registration, ballot or partial tally with something missing, or a ballot
\* whose lists are not as long as the list of candidates: no program here
\* writes one.
Malformed(blk) ==
  \/ blk.hint = "VoterReg" /\ (blk.key = NoKey \/ blk.signed = "missing")
  \/ /\ blk.hint = "Ballot"
     /\ \/ blk.votes \in Nulled \cup {NoVote} \/ blk.signer = NoKey
        \/ Len(Plain[blk.votes]) # Cardinality(Candidates)
        \/ blk.proofs > Cardinality(Candidates)
        \/ blk.proven = "valid" /\ blk.proofs # Cardinality(Candidates)
        \/ blk.proven = "missing"
  \/ /\ blk.hint = "PartialTally"
     /\ \/ blk.tally = NoTally \/ blk.signed = "missing"
        \/ blk.decryption \in {"missing", "undecodable"}

\* What a ballot adds to a candidate's count: nothing, where its list has ended.
Worth(b, c) == IF c \in DOMAIN Plain[b] THEN Plain[b][c] ELSE 0

\* Threshold decryption of a tally: the number of votes of each candidate, as
\* far as exponents of the generator can tell numbers apart.
DecryptedTally(tally) ==
  [c \in Candidates |-> Total([b \in Ballots |-> tally[b] * Worth(b, c)]) % Order]

\* countVotes, the first result: how many voters have voted.
Turnout == Cardinality({v \in Voters : vote[v] # NoVote})

-----------------------------------------------------------------------------
Init ==
  /\ setup = NoSetup
  /\ trusteeShares = <<>> /\ haveAllShares = FALSE
  /\ trusteePublic = {}   /\ haveAllPublic = FALSE
  /\ system = FALSE
  /\ registered = [v \in Voters |-> NoKey]
  /\ vote = [v \in Voters |-> NoVote]
  /\ discardedVotes = 0
  /\ localTallies = NoTally /\ resultPartials = {} /\ finalTallys = NoResult
  /\ verdict = "none" /\ malformed = FALSE
  /\ clock = 0

\* How a handler ends: in a panic, or accepting the block, or rejecting it.
Ends(panics, accepts) ==
  verdict' = IF panics THEN "panicked" ELSE IF accepts THEN "accepted" ELSE "rejected"

Reject   == verdict' = "rejected"
Accepted == verdict' = "accepted"

\* A panic ends the process: nothing more happens to this validator.
Running == verdict # "panicked"

NumbersInRange(data) ==
  /\ Cardinality(Candidates) >= 2
  /\ data.maxChoices \in 1 .. Cardinality(Candidates)
  /\ data.trustees >= 3
  /\ data.required \in 2 .. data.trustees

\* newElectionState, filled from a payload validateSetupDataPayload passes.
ValidSetup(data, minTime) ==
  /\ data.params = "valid"
  /\ NumbersInRange(data)
  /\ data.parties = "valid"
  /\ PhasesInOrder(data.timing, minTime)

\* Encoding the payload once more (checkCanonical) dereferences the exponents.
SetupPanics(data, ours) ==
  \/ data.exponents = "undecodable"
  \/ ours /\ data.params = "missing"
  \/ ours /\ data.params = "valid" /\ NumbersInRange(data) /\ data.parties = "missing"

CheckGenesis(blk) ==
  LET expected == blk.hint = "ElectionSetup" /\ blk.genesis /\ ~blk.future IN
  /\ Ends(expected /\ SetupPanics(blk.data, blk.ours),
          expected /\ blk.ours /\ ValidSetup(blk.data, blk.time))
  /\ setup' = IF Accepted THEN blk.data ELSE setup
  /\ UNCHANGED <<trusteeShares, haveAllShares, trusteePublic, haveAllPublic, system,
                 voterVars, tallyVars>>

\* HasAllTrusteeShares and HasAllTrusteePublic: each asks its cache first.
HasAllTrusteeShares == haveAllShares \/ Cardinality(DOMAIN trusteeShares) = setup.trustees
HasAllTrusteePublic == haveAllPublic \/ Cardinality(trusteePublic) = setup.trustees

\* Mutant of SharesForTheOthers: no look at who already has a share.
SharesUnchecked(index, recipients) ==
  /\ Len(recipients) = setup.trustees - 1
  /\ \A m \in DOMAIN recipients : recipients[m] \in Trustees \ {index}

\* The shares are as many as there are other trustees, each for a recipient not
\* seen before, in range and not the sender.
SharesForTheOthers(index, recipients) ==
  /\ Len(recipients) = setup.trustees - 1
  /\ \A m, n \in DOMAIN recipients : recipients[m] = recipients[n] => m = n
  /\ \A m \in DOMAIN recipients : recipients[m] \in Trustees \ {index}

\* The loop over s.Shares comes to the share after the signed ones.
ReachesUnsigned(blk) ==
  /\ Len(blk.recipients) = setup.trustees - 1
  /\ blk.signed < Len(blk.recipients)
  /\ \A m, n \in 1 .. blk.signed + 1 : blk.recipients[m] = blk.recipients[n] => m = n
  /\ \A m \in 1 .. blk.signed + 1 : blk.recipients[m] \in Trustees \ {blk.index}

CheckTrusteeShares(blk) ==
  LET expected == blk.hint = "TrusteeShares" /\ blk.index \in Trustees \ DOMAIN trusteeShares
  IN
  /\ ~HasAllTrusteeShares
  /\ Ends(expected /\ ReachesUnsigned(blk) /\ blk.broken,
          expected /\ SharesForTheOthers(blk.index, blk.recipients)
                   /\ blk.signed >= Len(blk.recipients))
  /\ trusteeShares' = IF Accepted
                      THEN [j \in DOMAIN trusteeShares \cup {blk.index} |->
                              IF j = blk.index THEN Range(blk.recipients)
                              ELSE trusteeShares[j]]
                      ELSE trusteeShares
  /\ UNCHANGED <<setup, haveAllShares, trusteePublic, haveAllPublic, system,
                 voterVars, tallyVars>>

\* A payload that gets as far as ValidateShardKey leaves es.system set, also
\* when its shard key then turns out to be wrong. The exponents are only now
\* evaluated: too few, or zero, is a panic. A null shard key is dereferenced
\* before it is known whether the trustee has posted one already.
CheckTrusteePublic(blk) ==
  LET named  == blk.hint = "TrusteePublic" /\ blk.index \in Trustees
      unseen == named /\ blk.index \notin trusteePublic
      reachesShardKey == unseen /\ blk.shardKey # "missing" /\ blk.signed = "valid"
  IN
  /\ HasAllTrusteeShares
  /\ haveAllShares' = TRUE
  /\ ~HasAllTrusteePublic
  /\ system' = (system \/ reachesShardKey)
  /\ Ends(\/ named /\ blk.shardKey = "missing"
          \/ unseen /\ blk.signed = "missing"
          \/ reachesShardKey /\ setup.exponents # "enough",
          reachesShardKey /\ blk.shardKey = "valid")
  /\ trusteePublic' = IF Accepted THEN trusteePublic \cup {blk.index} ELSE trusteePublic
  /\ UNCHANGED <<setup, trusteeShares, haveAllPublic, voterVars, tallyVars>>

\* "Already have all trustee data, no more valid blocks for this phase"
SetupIsOver(blk) ==
  /\ HasAllTrusteeShares /\ haveAllShares' = TRUE
  /\ HasAllTrusteePublic /\ haveAllPublic' = TRUE
  /\ Reject
  /\ UNCHANGED <<setup, trusteeShares, trusteePublic, system, voterVars, tallyVars>>

\* Mutant of CheckVoterRegistration: the id is stored in place of the key.
RegisterId(blk) ==
  LET unseen == blk.hint = "VoterReg" /\ registered[blk.voter] = NoKey IN
  /\ Ends(FALSE, unseen /\ blk.key # NoKey /\ blk.signed = "valid")
  /\ registered' = IF Accepted THEN [registered EXCEPT ![blk.voter] = blk.voter]
                   ELSE registered
  /\ UNCHANGED <<setupVars, vote, discardedVotes, tallyVars>>

CheckVoterRegistration(blk) ==
  LET unseen == blk.hint = "VoterReg" /\ registered[blk.voter] = NoKey IN
  /\ Ends(unseen /\ (blk.key = NoKey \/ (~LooseMode /\ blk.signed = "missing")),
          unseen /\ (LooseMode \/ blk.signed = "valid"))
  /\ registered' = IF Accepted THEN [registered EXCEPT ![blk.voter] = blk.key]
                   ELSE registered
  /\ UNCHANGED <<setupVars, vote, discardedVotes, tallyVars>>

\* VerifyEncryptionProof, for each ciphertext that has a proof: only one of a 0
\* or a 1 has a good one.
ProofsHold(blk) ==
  \A c \in 1 .. blk.proofs : c \in DOMAIN Plain[blk.votes] => Plain[blk.votes][c] \in 0 .. 1

\* As many good proofs as there are ciphertexts, or fewer: those without a proof
\* are in no sum and in no check. The overall proof is that the others add up
\* to at most maxChoices.
BallotProven(blk) ==
  /\ ProofsHold(blk)
  /\ blk.proofs \in 1 .. Len(Plain[blk.votes])
  /\ blk.proven = "valid"
  /\ Total(SubSeq(Plain[blk.votes], 1, blk.proofs)) % Order <= setup.maxChoices

\* One proof too many is an index out of range; without any there is no sum.
ProvingPanics(blk) ==
  \/ setup.exponents = "none"
  \/ /\ blk.votes # NoVote /\ ProofsHold(blk)
     /\ \/ blk.proofs > Len(Plain[blk.votes])
        \/ blk.proven = "missing"
        \/ blk.proven = "valid" /\ blk.proofs = 0
  \/ blk.votes = NoVote /\ (blk.proofs > 0 \/ blk.proven # "invalid")

\* Mutant of CheckVoteCast: any key will do, the voter need not be registered.
CastUnregistered(blk) ==
  /\ Ends(FALSE, /\ blk.hint = "Ballot" /\ blk.votes \in Ballots \ Nulled
                 /\ BallotProven(blk))
  /\ vote' = IF Accepted THEN [vote EXCEPT ![blk.voter] = blk.votes] ELSE vote
  /\ UNCHANGED <<setupVars, registered, discardedVotes, tallyVars>>

\* In loose mode neither the signature nor a proof is looked at, nor what they
\* are of: even `null` for the votes will do, and takes back the last ballot.
CheckVoteCast(blk) ==
  LET known  == blk.hint = "Ballot" /\ registered[blk.voter] # NoKey
      strict == known /\ ~LooseMode
      signed == blk.signer = registered[blk.voter]
  IN
  /\ Ends(\/ strict /\ (blk.signer = NoKey \/ blk.votes \in Nulled)
          \/ strict /\ signed /\ ProvingPanics(blk),
          \/ known /\ LooseMode
          \/ strict /\ signed /\ blk.votes # NoVote /\ BallotProven(blk))
  /\ discardedVotes' = IF Accepted /\ vote[blk.voter] # NoVote
                       THEN discardedVotes + 1 ELSE discardedVotes
  /\ vote' = IF Accepted THEN [vote EXCEPT ![blk.voter] = blk.votes] ELSE vote
  /\ UNCHANGED <<setupVars, registered, tallyVars>>

\* GetLocalTally: computed from the votes of this moment unless it is cached.
LocalTally == IF localTallies = NoTally THEN EncryptedTally(vote) ELSE localTallies

\* When there is nothing cached it reads es.system, which may be nil, and goes
\* through each ballot's ciphertexts, which may be too many, or null.
LocalTallyPanics ==
  /\ localTallies = NoTally
  /\ \/ ~system
     \/ \E v \in Voters : /\ vote[v] # NoVote
                         /\ \/ vote[v] \in Nulled
                            \/ Len(Plain[vote[v]]) > Cardinality(Candidates)

\* The products for candidate c are the same; c's product is of nothing.
SameFor(c, t, u) == \A b \in Ballots : c \in DOMAIN Plain[b] => t[b] = u[b]
EmptyFor(c, t)   == \A b \in Ballots : c \in DOMAIN Plain[b] => t[b] = 0

\* The local tally has no value for a candidate no ballot has a ciphertext for.
ComparingPanics(tally, local) ==
  \/ tally = NoTally
  \/ \E c \in Candidates : /\ EmptyFor(c, local)
                           /\ \A d \in 1 .. c - 1 : SameFor(d, tally, local)

\* The payload is compared with the local tally, candidate by candidate; then
\* the signature is checked, then the proofs with the trustee's shard key, which
\* may be nil. A rejected block, too, leaves the local tally cached. Encoding
\* the payload once more (checkCanonical) dereferences the decrypted tallies.
CheckPartialTally(blk) ==
  LET encodable    == blk.hint = "PartialTally" /\ blk.decryption # "undecodable"
      reachesTally == encodable /\ blk.index \in Trustees \ resultPartials
      local        == LocalTally
      agrees       == \A c \in Candidates : SameFor(c, blk.tally, local)
      unverifiable == \/ blk.signed = "missing"
                      \/ /\ blk.signed = "valid"
                         /\ blk.index \notin trusteePublic \/ blk.decryption = "missing"
  IN
  /\ Ends(\/ blk.hint = "PartialTally" /\ ~encodable
          \/ /\ reachesTally
             /\ LocalTallyPanics \/ ComparingPanics(blk.tally, local) \/ (agrees /\ unverifiable),
          reachesTally /\ agrees /\ blk.signed = "valid" /\ blk.decryption = "valid")
  /\ localTallies' = IF reachesTally THEN local ELSE localTallies
  /\ resultPartials' = IF Accepted THEN resultPartials \cup {blk.index} ELSE resultPartials
  /\ UNCHANGED <<setupVars, voterVars, finalTallys>>

\* "not in a valid time to add any blocks"
OutOfPhase(blk) ==
  /\ Reject
  /\ UNCHANGED <<setupVars, voterVars, tallyVars>>

\* Validate: the genesis block first, then by the phase of the block's time.
ValidateInPhase(blk, phase) ==
  \/ phase = ParameterConfirmation /\ CheckTrusteeShares(blk)
  \/ phase = ParameterConfirmation /\ CheckTrusteePublic(blk)
  \/ phase = ParameterConfirmation /\ SetupIsOver(blk)
  \/ phase = VoterRegistration     /\ CheckVoterRegistration(blk)
  \/ phase = VoteCasting           /\ CheckVoteCast(blk)
  \/ phase = TallyDecryption       /\ CheckPartialTally(blk)
  \/ phase = NoPhase               /\ OutOfPhase(blk)

Validate(blk) ==
  \/ setup = NoSetup /\ CheckGenesis(blk)
  \/ /\ setup # NoSetup
     /\ \E phase \in {GetPhaseForTime(setup.timing, blk.time)} :
          ValidateInPhase(blk, phase)

-----------------------------------------------------------------------------
Latest(s, t) == IF s < t THEN t ELSE s

\* A block is offered: by chain.Add, or by the forward pass of openChain.
Offer(blk) ==
  /\ Running
  /\ ClockMayStepBack \/ clock <= blk.time
  /\ blk.hint = "Ballot" => discardedVotes < MaxDiscarded
  /\ clock' = Latest(clock, blk.time)
  /\ Validate(blk)
  /\ malformed' = (malformed \/ (Malformed(blk) /\ verdict' # "rejected"))

\* The trustee command asks for the tally right after it opened the chain; it
\* stamps its first block with the second after the tally phase opens.
GetLocalTally ==
  /\ Running
  /\ setup # NoSetup
  /\ clock' = Latest(clock, setup.timing.opens[TallyDecryption] + 1)
  /\ IF LocalTallyPanics
     THEN verdict' = "panicked" /\ UNCHANGED localTallies
     ELSE verdict' = "answered" /\ localTallies' = LocalTally
  /\ UNCHANGED <<setupVars, voterVars, resultPartials, finalTallys, malformed>>

\* Mutant of DLogExceeded: the powers stop short of the turnout.
DLogShort(tallies) == \E c \in Candidates : tallies[c] >= Turnout

\* lazyLookup walks the powers of the generator up to 2 * max + 1, with the
\* turnout for max, and panics when a candidate's count is not among them.
DLogExceeded(tallies) == \E c \in Candidates : tallies[c] > 2 * Turnout + 1

\* GetResult and combineTallies. Any `required` partial decryptions combine to
\* the same tally, so which ones the map's order picks makes no difference.
GetResult ==
  LET combines == finalTallys = NoResult /\ Cardinality(resultPartials) >= setup.required
  IN
  /\ Running
  /\ IF setup = NoSetup \/ (combines /\ DLogExceeded(DecryptedTally(localTallies)))
     THEN verdict' = "panicked" /\ UNCHANGED finalTallys
     ELSE /\ verdict' = "answered"
          /\ finalTallys' = IF combines THEN DecryptedTally(localTallies) ELSE finalTallys
  /\ UNCHANGED <<setupVars, voterVars, localTallies, resultPartials, malformed, clock>>

Next ==
  \/ \E blk \in GenesisBlocks : Offer(blk)
  \/ \E blk \in SharesBlocks : Offer(blk)
  \/ \E blk \in PublicBlocks : Offer(blk)
  \/ \E blk \in RegistrationBlocks : Offer(blk)
  \/ \E blk \in BallotBlocks : Offer(blk)
  \/ \E blk \in PartialTallyBlocks : Offer(blk)
  \/ \E blk \in UnreadableBlocks : Offer(blk)
  \/ GetLocalTally
  \/ GetResult

Spec == Init /\ [][Next]_vars

-----------------------------------------------------------------------------
\* Every variable holds what the fields of ElectionState can hold.
TypeOK ==
  /\ setup \in Setups \cup {NoSetup}
  /\ DOMAIN trusteeShares \subseteq Nat
  /\ \A j \in DOMAIN trusteeShares : trusteeShares[j] \subseteq Nat
  /\ trusteePublic \subseteq Nat /\ resultPartials \subseteq Nat
  /\ haveAllShares \in BOOLEAN /\ haveAllPublic \in BOOLEAN /\ system \in BOOLEAN
  /\ registered \in [Voters -> Keys \cup {NoKey}]
  /\ vote \in [Voters -> Ballots \cup {NoVote}]
  /\ discardedVotes \in Nat
  /\ localTallies \in [Ballots -> Nat] \cup {NoTally}
  /\ finalTallys = NoResult \/ DOMAIN finalTallys = Candidates
  /\ verdict \in {"none", "accepted", "rejected", "panicked", "answered"}
  /\ malformed \in BOOLEAN
  /\ clock \in Nat

\* Two-round setup: by the time a shard key is accepted, every trustee's shares
\* are on the chain with one for each of the others, so each trustee could
\* compute its key (GetEncryptedSecretShare finds every pair j, i).
EveryShareIsPosted ==
  trusteePublic # {} =>
    \A j, i \in Trustees : i # j => j \in DOMAIN trusteeShares /\ i \in trusteeShares[j]

\* A cached local tally is the product of exactly the ballots that count: no
\* ballot is accepted, or replaced, once the tally has been taken ("this can
\* only be worked out AFTER the votecasting is over").
LocalTallyIsCurrent ==
  localTallies # NoTally => localTallies = EncryptedTally(vote)

\* What LocalTallyIsCurrent says, once a trustee's partial decryption is on the
\* chain: it is of the ballots that count, "after the votecasting is over".
AcceptedPartialsAreCurrent ==
  resultPartials # {} => localTallies = EncryptedTally(vote)

\* The result gives each candidate the votes in the last ballot of every voter
\* who voted, and nothing else: repeats, rejected blocks and the order of the
\* partial decryptions leave no trace in it. (A ballot that says more than its
\* proofs do is counted for what it says.)
ResultCountsLastBallots ==
  finalTallys # NoResult =>
    \A c \in Candidates :
      finalTallys[c] =
        Total([v \in Voters |-> IF vote[v] = NoVote THEN 0 ELSE Worth(vote[v], c)]) % Order

\* The nil dereferences, the indices and the discrete-log limit that Validate,
\* GetLocalTally and GetResult risk are met only in an election whose setup was
\* never completed, or in which nobody voted, or once a malformed block has got
\* further than a rejection: the blocks the programs here write are safe in any
\* order, whatever else is rejected between them.
OnlyMalformedBlocksPanic ==
  setup # NoSetup /\ trusteePublic = Trustees /\ Turnout > 0 /\ ~malformed => Running

\* The inductive invariant behind LocalTallyIsCurrent. The setup in force has its
\* phases in order; a local tally is taken only after the tally phase opened, so
\* that no later timestamp is in the phases in which `vote` changes; partials
\* and a result exist only once there is a tally.
SetupInv ==
  setup # NoSetup => /\ setup.required >= 2
                     /\ \E minTime \in Times : PhasesInOrder(setup.timing, minTime)

TallyInv ==
  /\ localTallies # NoTally =>
       /\ setup # NoSetup
       /\ setup.timing.opens[TallyDecryption] < clock
       /\ localTallies = EncryptedTally(vote)
  /\ resultPartials # {} => localTallies # NoTally
  /\ finalTallys # NoResult => /\ localTallies # NoTally
                               /\ finalTallys = DecryptedTally(localTallies)

IInv == TypeOK /\ SetupInv /\ TallyInv

-----------------------------------------------------------------------------
(***************************************************************************)
(* The validator implements a ballot box: sealed when the local tally is    *)
(* first computed, its result the decryption of that tally.                 *)
(***************************************************************************)
Count(box) == DecryptedTally(EncryptedTally(box))

Box == INSTANCE BallotBox WITH
         electorate <- {v \in Voters : registered[v] # NoKey},
         box        <- vote,
         sealed     <- localTallies # NoTally,
         result     <- finalTallys

\* No ballot or registration is accepted once the tally is taken, a ballot only
\* from someone registered, and the result is the count of the final box.
ImplementsBallotBox == Box!BoxSpec

=============================================================================
