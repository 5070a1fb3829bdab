------------------------ MODULE ElectionValidatorProofs ------------------------
(***************************************************************************)
(* The validator keeps its types, its cached tally is of the ballots that    *)
(* count, it implements a ballot box, its result is the votes cast, the      *)
(* shares are there before the shard keys, and it does not panic once the    *)
(* setup is complete: for every election, any number of voters, trustees and *)
(* ballots, mostly as long as timestamps do not step back.                   *)
(***************************************************************************)
EXTENDS ElectionValidator, ArithmeticProofs

(***************************************************************************)
(* Timing: what checkPhase's four checks of the genesis block buy. The phase *)
(* of a timestamp is unambiguous, and phases come in their order.            *)
(***************************************************************************)
\* The phases follow one another: what PhasesInOrder says without the minimum.
Ordered(timing) ==
  \A p, q \in Phases : p < q => /\ timing.opens[p] <= timing.closes[p]
                                /\ timing.closes[p] <= timing.opens[q]

\* Each check hands its closing time to the next one, so that every phase ends
\* before any later one opens.
LEMMA InOrderIsOrdered ==
  ASSUME NEW timing \in Timings, NEW minTime \in Nat, PhasesInOrder(timing, minTime)
  PROVE  Ordered(timing)
<1>1. /\ \A p \in Phases : timing.opens[p] \in Nat
      /\ \A p \in Phases : timing.closes[p] \in Nat
  BY DEF Timings
<1>2. \A p \in Phases : timing.opens[p] <= timing.closes[p]
  BY DEF PhasesInOrder, CheckPhase, Phases
<1>3. /\ timing.closes[1] <= timing.opens[2]
      /\ timing.closes[2] <= timing.opens[3]
      /\ timing.closes[3] <= timing.opens[4]
  BY DEF PhasesInOrder, CheckPhase
<1> QED
  BY <1>1, <1>2, <1>3, SMTT(30) DEF Ordered, Phases

\* GetPhaseForTime names a phase the time lies within, or none if there is none.
LEMMA PhaseContainsTime ==
  ASSUME NEW timing \in Timings, NEW t \in Nat
  PROVE  LET p == GetPhaseForTime(timing, t) IN
         \/ p \in Phases /\ Within(timing, p, t)
         \/ p = NoPhase /\ \A q \in Phases : ~Within(timing, q, t)
<1>1. ASSUME NEW p \in Phases, Within(timing, p, t)
      PROVE  \E q \in Phases : /\ Within(timing, q, t)
                               /\ \A r \in 1 .. (q - 1) : ~Within(timing, r, t)
  <2>1. CASE Within(timing, 1, t)
    BY <2>1 DEF Phases
  <2>2. CASE ~Within(timing, 1, t) /\ Within(timing, 2, t)
    BY <2>2 DEF Phases
  <2>3. CASE ~Within(timing, 1, t) /\ ~Within(timing, 2, t) /\ Within(timing, 3, t)
    BY <2>3 DEF Phases
  <2>4. CASE /\ ~Within(timing, 1, t) /\ ~Within(timing, 2, t) /\ ~Within(timing, 3, t)
             /\ Within(timing, 4, t)
    BY <2>4 DEF Phases
  <2> QED
    BY <1>1, <2>1, <2>2, <2>3, <2>4 DEF Phases
<1> QED
  BY <1>1 DEF GetPhaseForTime

\* A timestamp lies within at most one phase, whatever order the table is
\* searched in.
THEOREM PhasesAreDisjoint ==
  ASSUME NEW timing \in Timings, NEW minTime \in Nat, PhasesInOrder(timing, minTime),
         NEW t \in Nat, NEW p \in Phases, NEW q \in Phases,
         Within(timing, p, t), Within(timing, q, t)
  PROVE  p = q
<1>1. Ordered(timing)
  BY InOrderIsOrdered
<1>2. /\ timing.opens[p] \in Nat /\ timing.closes[p] \in Nat
      /\ timing.opens[q] \in Nat /\ timing.closes[q] \in Nat
  BY DEF Timings
<1>3. p \in Nat /\ q \in Nat
  BY DEF Phases
<1>4. ~(p < q) /\ ~(q < p)
  BY <1>1, <1>2 DEF Ordered, Within
<1> QED
  BY <1>3, <1>4

\* A later timestamp is never in an earlier phase: with increasing timestamps
\* the election goes through its phases once, in order.
THEOREM PhaseIsMonotone ==
  ASSUME NEW timing \in Timings, NEW minTime \in Nat, PhasesInOrder(timing, minTime),
         NEW s \in Nat, NEW t \in Nat, s <= t,
         GetPhaseForTime(timing, s) # NoPhase, GetPhaseForTime(timing, t) # NoPhase
  PROVE  GetPhaseForTime(timing, s) <= GetPhaseForTime(timing, t)
<1> DEFINE p == GetPhaseForTime(timing, s)
           q == GetPhaseForTime(timing, t)
<1>1. p \in Phases /\ Within(timing, p, s)
  BY PhaseContainsTime
<1>2. q \in Phases /\ Within(timing, q, t)
  BY PhaseContainsTime
<1>3. Ordered(timing)
  BY InOrderIsOrdered
<1> HIDE DEF p, q
<1>4. /\ timing.opens[p] \in Nat /\ timing.closes[p] \in Nat
      /\ timing.opens[q] \in Nat /\ timing.closes[q] \in Nat
  BY <1>1, <1>2 DEF Timings
<1>5. ~(q < p)
  BY <1>1, <1>2, <1>3, <1>4 DEF Ordered, Within
<1>6. p \in Nat /\ q \in Nat
  BY <1>1, <1>2 DEF Phases
<1>7. p <= q
  BY <1>5, <1>6
<1> QED
  BY <1>7 DEF p, q

-----------------------------------------------------------------------------
(***************************************************************************)
(* Types                                                                   *)
(***************************************************************************)

\* A step that is not a stutter handles one block or answers one query.
LEMMA StepCases ==
  ASSUME Next
  PROVE  (\E blk \in Blocks : Offer(blk)) \/ GetLocalTally \/ GetResult
BY DEF Next, Blocks

\* The hint names the kind of payload; every block has a time.
LEMMA BlockKinds ==
  ASSUME NEW blk \in Blocks
  PROVE  /\ blk.time \in Nat
         /\ blk.hint = "ElectionSetup" => blk.data \in Setups /\ blk.time \in Times
         /\ blk.hint = "TrusteeShares" =>
              blk.index \in Indices /\ blk.recipients \in RecipientLists
         /\ blk.hint = "VoterReg" => blk.voter \in Voters /\ blk.key \in Keys \cup {NoKey}
         /\ blk.hint = "Ballot" => blk.voter \in Voters /\ blk.votes \in Ballots \cup {NoVote}
BY TimesAssumption DEF Blocks, GenesisBlocks, SharesBlocks, PublicBlocks,
   RegistrationBlocks, BallotBlocks, PartialTallyBlocks, UnreadableBlocks

LEMMA EncryptedTallyType ==
  ASSUME NEW cast
  PROVE  /\ EncryptedTally(cast) \in [Ballots -> Nat]
         /\ EncryptedTally(cast) # NoTally
<1>1. ASSUME NEW b \in Ballots
      PROVE  Cardinality({v \in Voters : cast[v] = b}) \in Nat
  <2>1. IsFiniteSet({v \in Voters : cast[v] = b})
    BY FS_Subset, FiniteAssumption
  <2> QED
    BY <2>1, FS_CardinalityType
<1>2. EncryptedTally(cast) \in [Ballots -> Nat]
  BY <1>1 DEF EncryptedTally
<1> QED
  BY <1>2, NoTallyAssumption

\* Once the tally phase has opened, no later time is in the phases of
\* registration and vote casting.
LEMMA TallyTimeIsLate ==
  ASSUME SetupInv, setup \in Setups, setup # NoSetup, NEW t \in Nat,
         setup.timing.opens[TallyDecryption] < t
  PROVE  /\ GetPhaseForTime(setup.timing, t) # VoterRegistration
         /\ GetPhaseForTime(setup.timing, t) # VoteCasting
<1>1. setup.timing \in Timings
  BY SetupsAssumption DEF SetupData
<1>2. PICK minTime \in Times : PhasesInOrder(setup.timing, minTime)
  BY DEF SetupInv
<1>3. Ordered(setup.timing)
  BY <1>1, <1>2, InOrderIsOrdered, TimesAssumption
<1>4. \A p \in Phases : setup.timing.opens[p] \in Nat /\ setup.timing.closes[p] \in Nat
  BY <1>1 DEF Timings
<1>5. ASSUME NEW p \in Phases, p < TallyDecryption
      PROVE  ~Within(setup.timing, p, t)
  <2>1. setup.timing.closes[p] <= setup.timing.opens[TallyDecryption]
    BY <1>3, <1>5 DEF Ordered, Phases, TallyDecryption
  <2> QED
    BY <1>4, <2>1 DEF Within, Phases, TallyDecryption
<1>6. /\ VoterRegistration \in Phases /\ VoterRegistration < TallyDecryption
      /\ VoteCasting \in Phases /\ VoteCasting < TallyDecryption
      /\ VoterRegistration # NoPhase /\ VoteCasting # NoPhase
  BY DEF VoterRegistration, VoteCasting, TallyDecryption, Phases, NoPhase
<1> QED
  BY <1>1, <1>5, <1>6, PhaseContainsTime

\* The trustee indices of a payload that passes the range check are numbers.
LEMMA TrusteesAreNumbers ==
  ASSUME TypeOK, setup # NoSetup
  PROVE  setup \in SetupData /\ Trustees \subseteq Nat
BY SetupsAssumption DEF TypeOK, SetupData, Trustees

\* How a handler may end.
Endings == {"panicked", "accepted", "rejected"}

(***************************************************************************)
(* What each handler does to the state: nothing, unless it accepts.          *)
(***************************************************************************)
LEMMA GenesisEffect ==
  ASSUME NEW blk, CheckGenesis(blk)
  PROVE  /\ verdict' \in Endings
         /\ \/ setup' = setup
            \/ /\ blk.hint = "ElectionSetup" /\ ValidSetup(blk.data, blk.time)
               /\ setup' = blk.data
BY DEF CheckGenesis, Ends, Accepted, Endings

LEMMA SharesEffect ==
  ASSUME NEW blk, CheckTrusteeShares(blk)
  PROVE  /\ verdict' \in Endings
         /\ \/ trusteeShares' = trusteeShares
            \/ /\ blk.hint = "TrusteeShares"
               /\ blk.index \in Trustees \ DOMAIN trusteeShares
               /\ SharesForTheOthers(blk.index, blk.recipients)
               /\ trusteeShares' = [j \in DOMAIN trusteeShares \cup {blk.index} |->
                                      IF j = blk.index THEN Range(blk.recipients)
                                      ELSE trusteeShares[j]]
BY DEF CheckTrusteeShares, Ends, Accepted, Endings

LEMMA PublicEffect ==
  ASSUME NEW blk, CheckTrusteePublic(blk)
  PROVE  /\ verdict' \in Endings
         /\ \/ trusteePublic' = trusteePublic
            \/ /\ blk.index \in Trustees /\ trusteePublic' = trusteePublic \cup {blk.index}
               /\ setup.exponents = "enough" /\ system' = TRUE
BY DEF CheckTrusteePublic, Ends, Accepted, Endings

LEMMA RegistrationEffect ==
  ASSUME NEW blk, CheckVoterRegistration(blk)
  PROVE  /\ verdict' \in Endings
         /\ \/ registered' = registered
            \/ /\ blk.hint = "VoterReg" /\ registered[blk.voter] = NoKey /\ blk.key # NoKey
               /\ registered' = [registered EXCEPT ![blk.voter] = blk.key]
BY DEF CheckVoterRegistration, Ends, Accepted, Endings

\* A strict validator takes no ballot without ciphertexts, or with a null one.
LEMMA BallotEffect ==
  ASSUME NEW blk, CheckVoteCast(blk)
  PROVE  /\ verdict' \in Endings
         /\ discardedVotes' = discardedVotes \/ discardedVotes' = discardedVotes + 1
         /\ \/ vote' = vote
            \/ /\ blk.hint = "Ballot" /\ registered[blk.voter] # NoKey
               /\ vote' = [vote EXCEPT ![blk.voter] = blk.votes]
               /\ verdict' = "accepted"
               /\ ~LooseMode => /\ blk.votes # NoVote /\ blk.votes \notin Nulled
                                /\ BallotProven(blk)
BY DEF CheckVoteCast, Ends, Accepted, Endings

LEMMA TallyEffect ==
  ASSUME NEW blk, CheckPartialTally(blk)
  PROVE  /\ verdict' \in Endings
         /\ localTallies' = LocalTally \/ localTallies' = localTallies
         /\ localTallies' = LocalTally \/ resultPartials' = resultPartials
         /\ \/ resultPartials' = resultPartials
            \/ blk.index \in Trustees /\ resultPartials' = resultPartials \cup {blk.index}
BY DEF CheckPartialTally, Ends, Accepted, Endings

\* Types are kept by every handler of Validate.
LEMMA ValidateTypeOK ==
  ASSUME TypeOK, NEW blk \in Blocks, Offer(blk)
  PROVE  TypeOK'
<1>1. clock' \in Nat
  BY BlockKinds DEF Offer, Latest, TypeOK
<1>2. malformed' \in BOOLEAN
  BY Zenon DEF Offer
<1> DEFINE ends == verdict' \in Endings
<1>3. CASE CheckGenesis(blk)
  <2>1. ends /\ setup' \in Setups \cup {NoSetup}
    BY <1>3, BlockKinds, GenesisEffect DEF TypeOK
  <2> QED
    BY <1>1, <1>2, <1>3, <2>1 DEF CheckGenesis, TypeOK, Endings, voterVars, tallyVars
<1>4. CASE setup # NoSetup /\ CheckTrusteeShares(blk)
  <2>1. ends
    BY <1>4, SharesEffect
  <2>2. /\ DOMAIN trusteeShares' \subseteq Nat
        /\ \A j \in DOMAIN trusteeShares' : trusteeShares'[j] \subseteq Nat
    <3>1. CASE trusteeShares' = trusteeShares
      BY <3>1 DEF TypeOK
    <3>2. CASE /\ blk.index \in Trustees
               /\ SharesForTheOthers(blk.index, blk.recipients)
               /\ trusteeShares' = [j \in DOMAIN trusteeShares \cup {blk.index} |->
                                      IF j = blk.index THEN Range(blk.recipients)
                                      ELSE trusteeShares[j]]
      <4>1. Range(blk.recipients) \subseteq Nat
        BY <1>4, <3>2, TrusteesAreNumbers DEF SharesForTheOthers, Range
      <4>2. blk.index \in Nat
        BY <1>4, <3>2, TrusteesAreNumbers
      <4> QED
        BY <3>2, <4>1, <4>2 DEF TypeOK
    <3> QED
      BY <1>4, <3>1, <3>2, SharesEffect
  <2> QED
    BY <1>1, <1>2, <1>4, <2>1, <2>2
    DEF CheckTrusteeShares, TypeOK, Endings, voterVars, tallyVars
<1>5. CASE setup # NoSetup /\ CheckTrusteePublic(blk)
  <2>1. trusteePublic' \subseteq Nat
    <3>1. \/ trusteePublic' = trusteePublic
          \/ blk.index \in Trustees /\ trusteePublic' = trusteePublic \cup {blk.index}
      BY <1>5, PublicEffect
    <3>2. Trustees \subseteq Nat
      BY <1>5, TrusteesAreNumbers
    <3>3. trusteePublic \subseteq Nat
      BY DEF TypeOK
    <3> QED
      BY <3>1, <3>2, <3>3
  <2>2. system' \in BOOLEAN
    BY <1>5 DEF CheckTrusteePublic, TypeOK
  <2>3. ends
    BY <1>5, PublicEffect
  <2> QED
    BY <1>1, <1>2, <1>5, <2>1, <2>2, <2>3
    DEF CheckTrusteePublic, TypeOK, Endings, voterVars, tallyVars
<1>6. CASE SetupIsOver(blk)
  BY <1>1, <1>2, <1>6 DEF SetupIsOver, TypeOK, Reject, voterVars, tallyVars
<1>7. CASE CheckVoterRegistration(blk)
  <2>1. ends /\ registered' \in [Voters -> Keys \cup {NoKey}]
    BY <1>7, BlockKinds, RegistrationEffect DEF TypeOK
  <2> QED
    BY <1>1, <1>2, <1>7, <2>1
    DEF CheckVoterRegistration, TypeOK, Endings, setupVars, tallyVars
<1>8. CASE CheckVoteCast(blk)
  <2>1. ends /\ vote' \in [Voters -> Ballots \cup {NoVote}] /\ discardedVotes' \in Nat
    BY <1>8, BlockKinds, BallotEffect DEF TypeOK
  <2> QED
    BY <1>1, <1>2, <1>8, <2>1 DEF CheckVoteCast, TypeOK, Endings, setupVars, tallyVars
<1>9. CASE setup # NoSetup /\ CheckPartialTally(blk)
  <2>1. LocalTally \in [Ballots -> Nat]
    BY EncryptedTallyType DEF LocalTally, TypeOK
  <2>2. localTallies' \in [Ballots -> Nat] \cup {NoTally}
    BY <1>9, <2>1, TallyEffect DEF TypeOK
  <2>3. resultPartials' \subseteq Nat
    <3>1. \/ resultPartials' = resultPartials
          \/ blk.index \in Trustees /\ resultPartials' = resultPartials \cup {blk.index}
      BY <1>9, TallyEffect
    <3>2. Trustees \subseteq Nat
      BY <1>9, TrusteesAreNumbers
    <3>3. resultPartials \subseteq Nat
      BY DEF TypeOK
    <3> QED
      BY <3>1, <3>2, <3>3
  <2>4. ends
    BY <1>9, TallyEffect
  <2> QED
    BY <1>1, <1>2, <1>9, <2>2, <2>3, <2>4
    DEF CheckPartialTally, TypeOK, Endings, setupVars, voterVars
<1>10. CASE OutOfPhase(blk)
  BY <1>1, <1>2, <1>10 DEF OutOfPhase, TypeOK, Reject, setupVars, voterVars, tallyVars
<1> QED
  BY <1>3, <1>4, <1>5, <1>6, <1>7, <1>8, <1>9, <1>10 DEF Offer, Validate, ValidateInPhase

\* Types are kept by every step.
LEMMA NextTypeOK ==
  ASSUME TypeOK, [Next]_vars
  PROVE  TypeOK'
<1>1. ASSUME NEW blk \in Blocks, Offer(blk)
      PROVE  TypeOK'
  BY <1>1, ValidateTypeOK
<1>2. CASE GetLocalTally
  <2>1. clock' \in Nat
    BY <1>2, SetupsAssumption
    DEF GetLocalTally, Latest, TypeOK, SetupData, Timings, Phases, TallyDecryption
  <2>2. LocalTally \in [Ballots -> Nat]
    BY EncryptedTallyType DEF LocalTally, TypeOK
  <2> QED
    BY <1>2, <2>1, <2>2 DEF GetLocalTally, TypeOK, setupVars, voterVars
<1>3. CASE GetResult
  BY <1>3 DEF GetResult, TypeOK, DecryptedTally, setupVars, voterVars
<1>4. CASE UNCHANGED vars
  BY <1>4 DEF vars, setupVars, voterVars, tallyVars, TypeOK
<1> QED
  BY <1>1, <1>2, <1>3, <1>4, StepCases

LEMMA InitTypeOK == Init => TypeOK
<1>1. DOMAIN <<>> = {}
  OBVIOUS
<1>2. Init => /\ DOMAIN trusteeShares \subseteq Nat
              /\ \A j \in DOMAIN trusteeShares : trusteeShares[j] \subseteq Nat
  BY <1>1 DEF Init
<1>3. Init => /\ haveAllShares \in BOOLEAN
              /\ haveAllPublic \in BOOLEAN
              /\ system \in BOOLEAN
              /\ malformed \in BOOLEAN
  BY Zenon DEF Init
<1>4. Init => /\ registered \in [Voters -> Keys \cup {NoKey}]
              /\ vote \in [Voters -> Ballots \cup {NoVote}]
  BY DEF Init
<1> QED
  BY <1>2, <1>3, <1>4 DEF Init, TypeOK

\* Every field of the state holds what it may hold, whatever blocks are offered
\* in whatever order, with and without loose mode and increasing timestamps.
THEOREM TypeCorrect == Spec => []TypeOK
<1>1. Init => TypeOK
  BY InitTypeOK
<1>2. TypeOK /\ [Next]_vars => TypeOK'
  BY NextTypeOK
<1> QED
  BY <1>1, <1>2, PTL DEF Spec

-----------------------------------------------------------------------------
\* Only the genesis block changes the setup, and it checked the phases.
LEMMA NextSetupInv ==
  ASSUME TypeOK, SetupInv, [Next]_vars
  PROVE  SetupInv'
<1>1. ASSUME NEW blk \in Blocks, CheckGenesis(blk)
      PROVE  SetupInv'
  <2>1. CASE setup' = setup
    BY <2>1 DEF SetupInv
  <2>2. CASE /\ blk.hint = "ElectionSetup" /\ ValidSetup(blk.data, blk.time)
             /\ setup' = blk.data
    <3>1. setup' \in SetupData /\ blk.time \in Times
      BY <2>2, BlockKinds, SetupsAssumption
    <3>2. setup'.required >= 2 /\ PhasesInOrder(setup'.timing, blk.time)
      BY <2>2, <3>1 DEF ValidSetup, NumbersInRange, SetupData
    <3> QED
      BY <3>1, <3>2 DEF SetupInv
  <2> QED
    BY <1>1, <2>1, <2>2, GenesisEffect
<1>2. ASSUME NEW blk \in Blocks, Offer(blk), setup # NoSetup
      PROVE  setup' = setup
  BY <1>2 DEF Offer, Validate, ValidateInPhase, CheckTrusteeShares, CheckTrusteePublic,
     SetupIsOver, CheckVoterRegistration, CheckVoteCast, CheckPartialTally, OutOfPhase,
     setupVars
<1>3. CASE GetLocalTally \/ GetResult \/ UNCHANGED vars
  BY <1>3 DEF GetLocalTally, GetResult, vars, setupVars, SetupInv
<1>4. ASSUME NEW blk \in Blocks, Offer(blk)
      PROVE  SetupInv'
  <2>1. CASE setup = NoSetup
    BY <1>1, <1>4, <2>1 DEF Offer, Validate
  <2>2. CASE setup # NoSetup
    BY <1>2, <1>4, <2>2 DEF SetupInv
  <2> QED
    BY <2>1, <2>2
<1> QED
  BY <1>3, <1>4, StepCases

\* What a handler does to the votes, the tallies and the result.
TalliesUnchanged == UNCHANGED <<vote, localTallies, resultPartials, finalTallys>>

LEMMA OfferCases ==
  ASSUME NEW blk \in Blocks, Offer(blk)
  PROVE  \/ TalliesUnchanged
         \/ /\ setup # NoSetup
            /\ GetPhaseForTime(setup.timing, blk.time) = VoteCasting
            /\ UNCHANGED tallyVars
         \/ /\ setup # NoSetup
            /\ GetPhaseForTime(setup.timing, blk.time) = TallyDecryption
            /\ localTallies' = LocalTally
            /\ UNCHANGED <<setup, vote, finalTallys>>
<1>1. CASE setup = NoSetup /\ CheckGenesis(blk)
  BY <1>1 DEF CheckGenesis, TalliesUnchanged, voterVars, tallyVars
<1>2. CASE CheckTrusteeShares(blk) \/ CheckTrusteePublic(blk) \/ SetupIsOver(blk)
  BY <1>2 DEF CheckTrusteeShares, CheckTrusteePublic, SetupIsOver, TalliesUnchanged,
     voterVars, tallyVars
<1>3. CASE CheckVoterRegistration(blk) \/ OutOfPhase(blk)
  BY <1>3 DEF CheckVoterRegistration, OutOfPhase, TalliesUnchanged, voterVars, tallyVars
<1>4. CASE /\ setup # NoSetup
           /\ GetPhaseForTime(setup.timing, blk.time) = VoteCasting
           /\ CheckVoteCast(blk)
  BY <1>4 DEF CheckVoteCast
<1>5. CASE /\ setup # NoSetup
           /\ GetPhaseForTime(setup.timing, blk.time) = TallyDecryption
           /\ CheckPartialTally(blk)
  <2>1. UNCHANGED <<setup, vote, finalTallys>>
    BY <1>5 DEF CheckPartialTally, setupVars, voterVars
  <2>2. \/ localTallies' = LocalTally
        \/ UNCHANGED <<localTallies, resultPartials>>
    BY <1>5, TallyEffect
  <2> QED
    BY <1>5, <2>1, <2>2 DEF TalliesUnchanged
<1> QED
  BY <1>1, <1>2, <1>3, <1>4, <1>5 DEF Offer, Validate, ValidateInPhase

\* Only a setup already in force keeps its place: needed where a tally exists.
LEMMA SetupIsKept ==
  ASSUME NEW blk \in Blocks, Offer(blk), setup # NoSetup
  PROVE  setup' = setup
BY DEF Offer, Validate, ValidateInPhase, CheckTrusteeShares, CheckTrusteePublic,
   SetupIsOver, CheckVoterRegistration, CheckVoteCast, CheckPartialTally, OutOfPhase,
   setupVars

\* With increasing timestamps, a block stamped in an earlier phase than the
\* tally's is not offered once there is a tally.
LEMMA TallyClosesVoting ==
  ASSUME ~ClockMayStepBack, IInv, NEW blk \in Blocks, Offer(blk), localTallies # NoTally
  PROVE  /\ GetPhaseForTime(setup.timing, blk.time) # VoterRegistration
         /\ GetPhaseForTime(setup.timing, blk.time) # VoteCasting
<1>1. /\ setup # NoSetup /\ setup \in Setups
      /\ setup.timing.opens[TallyDecryption] < clock
  BY DEF IInv, TallyInv, TypeOK
<1>2. /\ clock \in Nat /\ blk.time \in Nat /\ clock <= blk.time
  BY BlockKinds DEF IInv, TypeOK, Offer
<1>3. setup.timing.opens[TallyDecryption] \in Nat
  BY <1>1, SetupsAssumption DEF SetupData, Timings, Phases, TallyDecryption
<1>4. setup.timing.opens[TallyDecryption] < blk.time
  BY <1>1, <1>2, <1>3
<1> QED
  BY <1>1, <1>2, <1>4, TallyTimeIsLate DEF IInv

LEMMA OfferTallyInv ==
  ASSUME ~ClockMayStepBack, IInv, NEW blk \in Blocks, Offer(blk)
  PROVE  TallyInv'
<1> USE DEF IInv
<1>1. /\ clock \in Nat /\ blk.time \in Nat /\ clock' \in Nat
      /\ clock <= clock' /\ blk.time <= clock'
  BY BlockKinds DEF TypeOK, Offer, Latest
<1>2. setup # NoSetup => setup' = setup /\ setup.timing.opens[TallyDecryption] \in Nat
  BY SetupIsKept, SetupsAssumption DEF TypeOK, SetupData, Timings, Phases, TallyDecryption
<1>3. CASE TalliesUnchanged
  BY <1>1, <1>2, <1>3 DEF TalliesUnchanged, TallyInv, EncryptedTally, DecryptedTally
<1>4. CASE /\ setup # NoSetup
           /\ GetPhaseForTime(setup.timing, blk.time) = VoteCasting
           /\ UNCHANGED tallyVars
  <2>1. localTallies = NoTally
    BY <1>4, TallyClosesVoting
  <2> QED
    BY <1>4, <2>1 DEF TallyInv, tallyVars
<1>5. CASE /\ setup # NoSetup
           /\ GetPhaseForTime(setup.timing, blk.time) = TallyDecryption
           /\ localTallies' = LocalTally
           /\ UNCHANGED <<setup, vote, finalTallys>>
  <2>1. setup.timing.opens[TallyDecryption] < blk.time
    <3>1. setup.timing \in Timings
      BY <1>5, SetupsAssumption DEF TypeOK, SetupData
    <3>2. Within(setup.timing, TallyDecryption, blk.time)
      BY <1>1, <1>5, <3>1, PhaseContainsTime DEF TallyDecryption, NoPhase
    <3> QED
      BY <3>2 DEF Within
  <2>2. setup'.timing.opens[TallyDecryption] < clock'
    BY <1>1, <1>2, <1>5, <2>1
  <2>3. LocalTally = EncryptedTally(vote) /\ LocalTally # NoTally
    BY EncryptedTallyType DEF LocalTally, TallyInv
  <2>4. EncryptedTally(vote)' = EncryptedTally(vote)
    BY <1>5 DEF EncryptedTally
  <2>5. finalTallys' # NoResult => finalTallys' = DecryptedTally(localTallies)'
    <3>1. CASE finalTallys = NoResult
      BY <1>5, <3>1
    <3>2. CASE finalTallys # NoResult
      <4>1. localTallies' = localTallies
        BY <1>5, <3>2 DEF TallyInv, LocalTally
      <4> QED
        BY <1>5, <3>2, <4>1 DEF TallyInv, DecryptedTally
    <3> QED
      BY <3>1, <3>2
  <2> QED
    BY <1>5, <2>2, <2>3, <2>4, <2>5 DEF TallyInv
<1> QED
  BY <1>3, <1>4, <1>5, OfferCases

LEMMA NextTallyInv ==
  ASSUME ~ClockMayStepBack, IInv, [Next]_vars
  PROVE  TallyInv'
<1> USE DEF IInv
<1>1. ASSUME NEW blk \in Blocks, Offer(blk)
      PROVE  TallyInv'
  BY <1>1, OfferTallyInv
<1>2. CASE GetLocalTally
  <2>1. setup.timing.opens[TallyDecryption] \in Nat /\ clock \in Nat /\ setup # NoSetup
    BY <1>2, SetupsAssumption
    DEF GetLocalTally, TypeOK, SetupData, Timings, Phases, TallyDecryption
  <2>2. setup.timing.opens[TallyDecryption] < clock'
    BY <1>2, <2>1 DEF GetLocalTally, Latest
  <2>3. UNCHANGED <<setup, vote, resultPartials, finalTallys>>
    BY <1>2 DEF GetLocalTally, setupVars, voterVars
  <2>4. CASE localTallies' = localTallies
    BY <2>1, <2>2, <2>3, <2>4 DEF TallyInv, EncryptedTally, DecryptedTally
  <2>5. CASE localTallies' = LocalTally /\ localTallies = NoTally
    <3>1. LocalTally = EncryptedTally(vote) /\ LocalTally # NoTally
      BY <2>5, EncryptedTallyType DEF LocalTally
    <3>2. EncryptedTally(vote)' = EncryptedTally(vote)
      BY <2>3 DEF EncryptedTally
    <3>3. finalTallys' = NoResult
      BY <2>3, <2>5 DEF TallyInv
    <3> QED
      BY <2>1, <2>2, <2>3, <2>5, <3>1, <3>2, <3>3 DEF TallyInv
  <2> QED
    BY <1>2, <2>4, <2>5 DEF GetLocalTally, LocalTally
<1>3. CASE GetResult
  <2>1. UNCHANGED <<setup, vote, localTallies, resultPartials, clock>>
    BY <1>3 DEF GetResult, setupVars, voterVars
  <2>2. CASE finalTallys' = finalTallys
    BY <2>1, <2>2 DEF TallyInv, EncryptedTally, DecryptedTally
  <2>3. CASE /\ setup # NoSetup
             /\ Cardinality(resultPartials) >= setup.required
             /\ finalTallys' = DecryptedTally(localTallies)
    <3>1. resultPartials # {}
      <4>1. setup.required \in Nat /\ setup.required >= 2
        BY <2>3, SetupsAssumption DEF TypeOK, SetupData, SetupInv
      <4> QED
        BY <2>3, <4>1, FS_EmptySet
    <3>2. DecryptedTally(localTallies)' = DecryptedTally(localTallies)
      BY <2>1 DEF DecryptedTally
    <3>3. EncryptedTally(vote)' = EncryptedTally(vote)
      BY <2>1 DEF EncryptedTally
    <3> QED
      BY <2>1, <2>3, <3>1, <3>2, <3>3 DEF TallyInv
  <2> QED
    BY <1>3, <2>2, <2>3 DEF GetResult
<1>4. CASE UNCHANGED vars
  BY <1>4 DEF vars, setupVars, voterVars, tallyVars, TallyInv, EncryptedTally, DecryptedTally
<1> QED
  BY <1>1, <1>2, <1>3, <1>4, StepCases

\* IInv holds initially and every step keeps it.
THEOREM Invariance ==
  ASSUME ~ClockMayStepBack
  PROVE  Spec => []IInv
<1>1. Init => IInv
  <2>1. Init => TypeOK
    BY InitTypeOK
  <2>2. Init => SetupInv /\ TallyInv
    BY DEF Init, SetupInv, TallyInv
  <2> QED
    BY <2>1, <2>2 DEF IInv
<1>2. IInv /\ [Next]_vars => IInv'
  BY NextTypeOK, NextSetupInv, NextTallyInv DEF IInv
<1> QED
  BY <1>1, <1>2, PTL DEF Spec

\* No ballot is accepted, or replaced, once the tally has been taken, when each
\* block is stamped no earlier than those before it.
THEOREM TallyStaysCurrent ==
  ASSUME ~ClockMayStepBack
  PROVE  Spec => []LocalTallyIsCurrent
<1>1. IInv => LocalTallyIsCurrent
  BY DEF IInv, TallyInv, LocalTallyIsCurrent
<1> QED
  BY <1>1, Invariance, PTL

-----------------------------------------------------------------------------
(***************************************************************************)
(* The validator implements a ballot box.                                   *)
(***************************************************************************)
\* What the abstract box sees of the state.
BoxUnchanged == UNCHANGED <<registered, vote, localTallies, finalTallys>>

LEMMA BoxStutters ==
  ASSUME BoxUnchanged
  PROVE  UNCHANGED Box!boxVars
BY DEF BoxUnchanged, Box!boxVars

\* An accepted registration enters one more person in the electorate.
LEMMA RegistrationEnters ==
  ASSUME IInv, NEW blk \in Blocks, CheckVoterRegistration(blk), localTallies = NoTally
  PROVE  [Box!BoxNext]_Box!boxVars
<1>1. UNCHANGED <<vote, localTallies, finalTallys>>
  BY DEF CheckVoterRegistration, tallyVars
<1>2. CASE registered' = registered
  BY <1>1, <1>2, BoxStutters DEF BoxUnchanged
<1>3. CASE /\ blk.hint = "VoterReg" /\ registered[blk.voter] = NoKey /\ blk.key # NoKey
           /\ registered' = [registered EXCEPT ![blk.voter] = blk.key]
  <2>1. blk.voter \in Voters /\ blk.key \in Keys /\ blk.key # NoKey
    BY <1>3, BlockKinds
  <2>2. registered \in [Voters -> Keys \cup {NoKey}]
    BY DEF IInv, TypeOK
  <2>3. {v \in Voters : registered'[v] # NoKey}
          = {v \in Voters : registered[v] # NoKey} \cup {blk.voter}
    BY <1>3, <2>1, <2>2
  <2>4. Box!Enter(blk.voter)
    BY <1>1, <1>3, <2>1, <2>3 DEF Box!Enter
  <2> QED
    BY <2>1, <2>4 DEF Box!BoxNext
<1> QED
  BY <1>2, <1>3, RegistrationEffect

\* An accepted ballot is cast by someone in the electorate.
LEMMA BallotIsCast ==
  ASSUME ~LooseMode, IInv, NEW blk \in Blocks, CheckVoteCast(blk), localTallies = NoTally
  PROVE  [Box!BoxNext]_Box!boxVars
<1>1. UNCHANGED <<registered, localTallies, finalTallys>>
  BY DEF CheckVoteCast, tallyVars
<1>2. CASE vote' = vote
  BY <1>1, <1>2, BoxStutters DEF BoxUnchanged
<1>3. CASE /\ blk.hint = "Ballot"
           /\ registered[blk.voter] # NoKey
           /\ vote' = [vote EXCEPT ![blk.voter] = blk.votes]
           /\ blk.votes # NoVote
  <2>1. blk.voter \in Voters /\ blk.votes \in Ballots
    BY <1>3, BlockKinds
  <2>2. Box!Cast(blk.voter, blk.votes)
    BY <1>1, <1>3, <2>1 DEF Box!Cast
  <2> QED
    BY <2>1, <2>2 DEF Box!BoxNext
<1> QED
  BY <1>2, <1>3, BallotEffect

\* The first time the local tally is computed the box is sealed.
LEMMA TallySeals ==
  ASSUME UNCHANGED <<registered, vote, finalTallys>>, localTallies' = LocalTally
  PROVE  [Box!BoxNext]_Box!boxVars
<1>1. CASE localTallies # NoTally
  BY <1>1, BoxStutters DEF BoxUnchanged, LocalTally
<1>2. CASE localTallies = NoTally
  <2>1. localTallies' # NoTally
    BY <1>2, EncryptedTallyType DEF LocalTally
  <2> QED
    BY <1>2, <2>1 DEF Box!BoxNext, Box!Seal
<1> QED
  BY <1>1, <1>2

LEMMA OfferImplementsBox ==
  ASSUME ~ClockMayStepBack, ~LooseMode, IInv, NEW blk \in Blocks, Offer(blk)
  PROVE  [Box!BoxNext]_Box!boxVars
<1>1. CASE CheckGenesis(blk)
  BY <1>1, BoxStutters DEF CheckGenesis, BoxUnchanged, voterVars, tallyVars
<1>2. CASE CheckTrusteeShares(blk) \/ CheckTrusteePublic(blk) \/ SetupIsOver(blk)
  BY <1>2, BoxStutters DEF CheckTrusteeShares, CheckTrusteePublic, SetupIsOver,
     BoxUnchanged, voterVars, tallyVars
<1>3. CASE OutOfPhase(blk)
  BY <1>3, BoxStutters DEF OutOfPhase, BoxUnchanged, voterVars, tallyVars
<1>4. CASE /\ GetPhaseForTime(setup.timing, blk.time) = VoterRegistration
           /\ CheckVoterRegistration(blk)
  BY <1>4, TallyClosesVoting, RegistrationEnters
<1>5. CASE /\ GetPhaseForTime(setup.timing, blk.time) = VoteCasting
           /\ CheckVoteCast(blk)
  BY <1>5, TallyClosesVoting, BallotIsCast
<1>6. CASE CheckPartialTally(blk)
  <2>1. UNCHANGED <<registered, vote, finalTallys>>
    BY <1>6 DEF CheckPartialTally, voterVars
  <2>2. localTallies' = LocalTally \/ localTallies' = localTallies
    BY <1>6, TallyEffect
  <2> QED
    BY <2>1, <2>2, TallySeals, BoxStutters DEF BoxUnchanged
<1> QED
  BY <1>1, <1>2, <1>3, <1>4, <1>5, <1>6 DEF Offer, Validate, ValidateInPhase

LEMMA StepImplementsBox ==
  ASSUME ~ClockMayStepBack, ~LooseMode, IInv, [Next]_vars
  PROVE  [Box!BoxNext]_Box!boxVars
<1>1. ASSUME NEW blk \in Blocks, Offer(blk)
      PROVE  [Box!BoxNext]_Box!boxVars
  BY <1>1, OfferImplementsBox
<1>2. CASE GetLocalTally
  <2>1. UNCHANGED <<registered, vote, finalTallys>>
    BY <1>2 DEF GetLocalTally, voterVars
  <2>2. localTallies' = LocalTally \/ localTallies' = localTallies
    BY <1>2 DEF GetLocalTally
  <2> QED
    BY <2>1, <2>2, TallySeals, BoxStutters DEF BoxUnchanged
<1>3. CASE GetResult
  <2>1. UNCHANGED <<registered, vote, localTallies>>
    BY <1>3 DEF GetResult, voterVars
  <2>2. CASE finalTallys' = finalTallys
    BY <2>1, <2>2, BoxStutters DEF BoxUnchanged
  <2>3. CASE /\ setup # NoSetup /\ finalTallys = NoResult
             /\ Cardinality(resultPartials) >= setup.required
             /\ finalTallys' = DecryptedTally(localTallies)
    <3>1. setup.required \in Nat /\ setup.required >= 2
      BY <2>3, SetupsAssumption DEF IInv, TypeOK, SetupData, SetupInv
    <3>2. resultPartials # {}
      BY <2>3, <3>1, FS_EmptySet
    <3>3. localTallies # NoTally /\ localTallies = EncryptedTally(vote)
      BY <3>2 DEF IInv, TallyInv
    <3>4. Box!Announce
      BY <2>1, <2>3, <3>3 DEF Box!Announce, Count
    <3> QED
      BY <3>4 DEF Box!BoxNext
  <2> QED
    BY <1>3, <2>2, <2>3 DEF GetResult
<1>4. CASE UNCHANGED vars
  BY <1>4, BoxStutters DEF vars, voterVars, tallyVars, BoxUnchanged
<1> QED
  BY <1>1, <1>2, <1>3, <1>4, StepCases

\* Every run of a strict validator is a run of a ballot box: nobody enters or
\* casts once it is sealed, and what is announced is the count of the sealed box.
THEOREM Refinement ==
  ASSUME ~ClockMayStepBack, ~LooseMode
  PROVE  Spec => ImplementsBallotBox
<1>1. Init => Box!Open
  BY DEF Init, Box!Open
<1>2. IInv /\ [Next]_vars => [Box!BoxNext]_Box!boxVars
  BY StepImplementsBox
<1> QED
  BY <1>1, <1>2, Invariance, PTL DEF Spec, ImplementsBallotBox, Box!BoxSpec

-----------------------------------------------------------------------------
(***************************************************************************)
(* The result: the sums of the tally, ballot by ballot, are the votes, voter *)
(* by voter.                                                                *)
(***************************************************************************)
\* The votes for a candidate in the last ballot of each voter.
GivenTo(cast, c) == [v \in Voters |-> IF cast[v] = NoVote THEN 0 ELSE Worth(cast[v], c)]

\* What a ciphertext counts is a number.
LEMMA WorthIsNatural ==
  ASSUME NEW b \in Ballots, NEW c
  PROVE  Worth(b, c) \in Nat
<1>1. Plain[b] \in Seq(Nat)
  BY PlainAssumption
<1>2. CASE c \in DOMAIN Plain[b]
  BY <1>1, <1>2 DEF Worth
<1>3. CASE c \notin DOMAIN Plain[b]
  BY <1>3 DEF Worth
<1> QED
  BY <1>2, <1>3

\* Decrypting the product of the ballots counts what counting voter by voter
\* would.
LEMMA CountByBallotOrByVoter ==
  ASSUME NEW cast \in [Voters -> Ballots \cup {NoVote}], NEW c \in Candidates
  PROVE  /\ DecryptedTally(EncryptedTally(cast))[c] = Total(GivenTo(cast, c)) % Order
         /\ Total(GivenTo(cast, c)) = SumOver(GivenTo(cast, c), Voters)
<1> DEFINE w == [b \in Ballots |-> Worth(b, c)]
<1>1. Casting(Voters, Ballots, NoVote, cast, w)
  BY FiniteAssumption, NothingAssumption, WorthIsNatural DEF Casting
<1>2. Weighed(cast, w, Ballots, Voters)
        = [b \in Ballots |-> EncryptedTally(cast)[b] * Worth(b, c)]
  BY DEF Weighed, EncryptedTally
<1>3. Given(cast, w, Voters, NoVote) = GivenTo(cast, c)
  BY DEF Given, GivenTo
<1>4. DecryptedTally(EncryptedTally(cast))[c]
        = Total(Weighed(cast, w, Ballots, Voters)) % Order
  BY <1>2 DEF DecryptedTally
<1> HIDE DEF w
<1> QED
  BY <1>1, <1>3, <1>4, CountByKindOrByVoter

\* What is announced is, for each candidate, the votes in the last ballot of
\* every voter who voted: whatever was replaced, rejected or reordered.
THEOREM ResultIsOfLastBallots ==
  ASSUME ~ClockMayStepBack
  PROVE  Spec => []ResultCountsLastBallots
<1>1. IInv => ResultCountsLastBallots
  <2> SUFFICES ASSUME IInv, finalTallys # NoResult, NEW c \in Candidates
               PROVE  finalTallys[c] = Total(GivenTo(vote, c)) % Order
    BY DEF ResultCountsLastBallots, GivenTo
  <2>1. finalTallys = DecryptedTally(EncryptedTally(vote))
    BY DEF IInv, TallyInv
  <2>2. vote \in [Voters -> Ballots \cup {NoVote}]
    BY DEF IInv, TypeOK
  <2> QED
    BY <2>1, <2>2, CountByBallotOrByVoter
<1> QED
  BY <1>1, Invariance, PTL

-----------------------------------------------------------------------------
(***************************************************************************)
(* The two rounds of the setup. Shares are counted, never looked up: that    *)
(* the count is complete says that every pair is there because a trustee's   *)
(* list, as long as there are others, without repeats and without itself,    *)
(* can only be all the others.                                              *)
(***************************************************************************)
SharesInv ==
  IF setup = NoSetup
  THEN DOMAIN trusteeShares = {} /\ trusteePublic = {} /\ haveAllShares = FALSE
  ELSE /\ setup.trustees >= 3 /\ Cardinality(Candidates) >= 2
       /\ \A j \in DOMAIN trusteeShares : j \in Trustees /\ trusteeShares[j] = Trustees \ {j}
       /\ haveAllShares => DOMAIN trusteeShares = Trustees
       /\ trusteePublic # {} => haveAllShares /\ system /\ setup.exponents = "enough"

LEMMA TrusteesAreCounted ==
  ASSUME setup \in Setups
  PROVE  IsFiniteSet(Trustees) /\ Cardinality(Trustees) = setup.trustees
<1> DEFINE n == setup.trustees
<1>1. n \in Nat
  BY SetupsAssumption DEF SetupData
<1> HIDE DEF n
<1>2. IsFiniteSet(1 .. n) /\ Cardinality(1 .. n) = IF 1 > n THEN 0 ELSE n - 1 + 1
  BY <1>1, FS_Interval
<1>3. IsFiniteSet(1 .. n) /\ Cardinality(1 .. n) = n
  BY <1>1, <1>2
<1> QED
  BY <1>3 DEF Trustees, n

LEMMA RecipientsAreTheOthers ==
  ASSUME setup \in Setups, NEW index \in Trustees, NEW recipients \in RecipientLists,
         SharesForTheOthers(index, recipients)
  PROVE  Range(recipients) = Trustees \ {index}
<1> DEFINE places == 1 .. Len(recipients)
           others == Trustees \ {index}
<1>1. recipients \in Seq(Nat) /\ setup.trustees \in Nat
  BY RecipientsAssumption, SetupsAssumption DEF SetupData
<1>2. DOMAIN recipients = places /\ Len(recipients) \in Nat /\ recipients \in [places -> Nat]
  BY <1>1
<1>3. Len(recipients) = setup.trustees - 1
  BY DEF SharesForTheOthers
<1>4. IsFiniteSet(Trustees) /\ Cardinality(Trustees) = setup.trustees
  BY <1>1, TrusteesAreCounted DEF SetupData
<1>5. IsFiniteSet(others) /\ Cardinality(others) = setup.trustees - 1
  BY <1>4, FS_RemoveElement
<1>6. IsFiniteSet(places) /\ Cardinality(places) = setup.trustees - 1
  BY <1>1, <1>2, <1>3, FS_Interval
<1>7. recipients \in Injection(places, others)
  BY <1>2 DEF SharesForTheOthers, Injection, IsInjective
<1>8. recipients \in Surjection(places, others)
  <2> HIDE DEF places, others
  <2> QED
    BY <1>5, <1>6, <1>7, FS_Injection
<1> QED
  BY <1>2, <1>8 DEF Surjection, Range

LEMMA AllSharesCounted ==
  ASSUME setup \in Setups, SharesInv, setup # NoSetup, HasAllTrusteeShares
  PROVE  DOMAIN trusteeShares = Trustees
<1>1. CASE haveAllShares
  BY <1>1 DEF SharesInv
<1>2. CASE Cardinality(DOMAIN trusteeShares) = setup.trustees
  <2>2. IsFiniteSet(Trustees) /\ Cardinality(Trustees) = setup.trustees
    BY TrusteesAreCounted
  <2>3. DOMAIN trusteeShares \in SUBSET Trustees
    BY DEF SharesInv
  <2> QED
    BY <1>2, <2>2, <2>3, FS_Subset
<1> QED
  BY <1>1, <1>2 DEF HasAllTrusteeShares

LEMMA NextSharesInv ==
  ASSUME TypeOK, SharesInv, [Next]_vars
  PROVE  SharesInv'
<1>1. ASSUME NEW blk \in Blocks, setup = NoSetup, CheckGenesis(blk)
      PROVE  SharesInv'
  <2>1. DOMAIN trusteeShares' = {} /\ trusteePublic' = {} /\ haveAllShares' = FALSE
    BY <1>1 DEF CheckGenesis, SharesInv
  <2>2. CASE setup' = setup
    BY <1>1, <2>1, <2>2 DEF SharesInv
  <2>3. CASE blk.hint = "ElectionSetup" /\ ValidSetup(blk.data, blk.time) /\ setup' = blk.data
    <3>1. setup'.trustees >= 3 /\ setup' # NoSetup /\ Cardinality(Candidates) >= 2
      BY <2>3, BlockKinds, NothingAssumption DEF ValidSetup, NumbersInRange
    <3> QED
      BY <2>1, <3>1 DEF SharesInv
  <2> QED
    BY <1>1, <2>2, <2>3, GenesisEffect
<1>2. ASSUME NEW blk \in Blocks, setup # NoSetup, CheckTrusteeShares(blk)
      PROVE  SharesInv'
  <2>1. UNCHANGED <<setup, haveAllShares, trusteePublic, system>> /\ Trustees' = Trustees
    BY <1>2 DEF CheckTrusteeShares, Trustees
  <2>2. haveAllShares = FALSE /\ trusteePublic = {}
    BY <1>2 DEF CheckTrusteeShares, HasAllTrusteeShares, SharesInv, TypeOK
  <2>3. CASE trusteeShares' = trusteeShares
    BY <1>2, <2>1, <2>3 DEF SharesInv
  <2>4. CASE /\ blk.hint = "TrusteeShares"
             /\ blk.index \in Trustees \ DOMAIN trusteeShares
             /\ SharesForTheOthers(blk.index, blk.recipients)
             /\ trusteeShares' = [j \in DOMAIN trusteeShares \cup {blk.index} |->
                                    IF j = blk.index THEN Range(blk.recipients)
                                    ELSE trusteeShares[j]]
    <3>1. blk.recipients \in RecipientLists
      BY <2>4, BlockKinds
    <3>2. Range(blk.recipients) = Trustees \ {blk.index}
      BY <1>2, <2>4, <3>1, RecipientsAreTheOthers DEF TypeOK
    <3> QED
      BY <1>2, <2>1, <2>2, <2>4, <3>2 DEF SharesInv
  <2> QED
    BY <1>2, <2>3, <2>4, SharesEffect
<1>3. ASSUME NEW blk \in Blocks, setup # NoSetup, CheckTrusteePublic(blk)
      PROVE  SharesInv'
  <2>1. UNCHANGED <<setup, trusteeShares>> /\ Trustees' = Trustees /\ haveAllShares' = TRUE
    BY <1>3 DEF CheckTrusteePublic, Trustees
  <2>2. DOMAIN trusteeShares = Trustees
    BY <1>3, AllSharesCounted DEF TypeOK, CheckTrusteePublic
  <2>3. trusteePublic' # {} => system' /\ setup.exponents = "enough"
    <3>1. CASE trusteePublic' = trusteePublic
      BY <1>3, <3>1 DEF CheckTrusteePublic, SharesInv
    <3>2. CASE setup.exponents = "enough" /\ system' = TRUE
      BY <3>2
    <3> QED
      BY <1>3, <3>1, <3>2, PublicEffect
  <2> QED
    BY <1>3, <2>1, <2>2, <2>3 DEF SharesInv
<1>4. ASSUME NEW blk \in Blocks, setup # NoSetup, SetupIsOver(blk)
      PROVE  SharesInv'
  <2>1. UNCHANGED <<setup, trusteeShares, trusteePublic, system>> /\ Trustees' = Trustees
    BY <1>4 DEF SetupIsOver, Trustees
  <2>2. DOMAIN trusteeShares = Trustees /\ haveAllShares' = TRUE
    BY <1>4, AllSharesCounted DEF TypeOK, SetupIsOver
  <2> QED
    BY <1>4, <2>1, <2>2 DEF SharesInv
<1>5. CASE UNCHANGED setupVars
  BY <1>5 DEF setupVars, SharesInv, Trustees
<1>6. ASSUME NEW blk \in Blocks, Offer(blk)
      PROVE  SharesInv'
  BY <1>1, <1>2, <1>3, <1>4, <1>5, <1>6 DEF Offer, Validate, ValidateInPhase,
     CheckVoterRegistration, CheckVoteCast, CheckPartialTally, OutOfPhase
<1>7. CASE GetLocalTally \/ GetResult \/ UNCHANGED vars
  BY <1>5, <1>7 DEF GetLocalTally, GetResult, vars
<1> QED
  BY <1>6, <1>7, StepCases

\* Whatever shares are offered, in whatever order: once one shard key has been
\* accepted, every trustee's share for every other is on the chain.
THEOREM SharesBeforeShardKeys == Spec => []EveryShareIsPosted
<1>1. Init => TypeOK /\ SharesInv
  BY InitTypeOK DEF Init, SharesInv
<1>2. TypeOK /\ SharesInv /\ [Next]_vars => TypeOK' /\ SharesInv'
  BY NextTypeOK, NextSharesInv
<1>3. SharesInv => EveryShareIsPosted
  BY DEF SharesInv, EveryShareIsPosted
<1> QED
  BY <1>1, <1>2, <1>3, PTL DEF Spec

-----------------------------------------------------------------------------
(***************************************************************************)
(* Panics. In an election with every shard key accepted, a ballot cast and    *)
(* nothing malformed let past, the handlers find what they dereference, and   *)
(* the counts are small enough for the discrete logarithm: every ballot has a *)
(* ciphertext for each candidate, each proved to be of a 0 or a 1, so that no *)
(* candidate gets more votes than there are voters.                          *)
(***************************************************************************)
WellFormed(b) ==
  /\ b \notin Nulled
  /\ Len(Plain[b]) = Cardinality(Candidates)
  /\ \A c \in Candidates : Plain[b][c] \in 0 .. 1

BallotsInRange ==
  ~malformed => \A v \in Voters : vote[v] # NoVote => WellFormed(vote[v])

\* Candidate c's ciphertext is the c-th of a list that is long enough.
LEMMA HasEveryCandidate ==
  ASSUME NEW b \in Ballots, Len(Plain[b]) = Cardinality(Candidates)
  PROVE  DOMAIN Plain[b] = Candidates
<1>1. Plain[b] \in Seq(Nat)
  BY PlainAssumption
<1>2. DOMAIN Plain[b] = 1 .. Len(Plain[b])
  BY <1>1
<1> QED
  BY <1>2, CandidatesAssumption

\* Nothing malformed has got past yet, if nothing has after this block.
LEMMA MalformedIsRemembered ==
  ASSUME NEW blk, Offer(blk), ~malformed', verdict' # "rejected", TypeOK
  PROVE  ~malformed /\ ~Malformed(blk)
BY Zenon DEF Offer

\* A ballot that is proved and not malformed has all its ciphertexts proved.
LEMMA ProvenIsWellFormed ==
  ASSUME NEW blk \in Blocks, blk.hint = "Ballot", blk.votes \in Ballots, ~Malformed(blk),
         BallotProven(blk)
  PROVE  WellFormed(blk.votes)
<1>1. /\ blk.votes \notin Nulled
      /\ Len(Plain[blk.votes]) = Cardinality(Candidates)
      /\ blk.proofs = Cardinality(Candidates)
  BY DEF Malformed, BallotProven
<1>2. DOMAIN Plain[blk.votes] = Candidates
  BY <1>1, HasEveryCandidate
<1>3. ASSUME NEW c \in Candidates
      PROVE  Plain[blk.votes][c] \in 0 .. 1
  BY <1>1, <1>2, <1>3, CandidatesAssumption DEF BallotProven, ProofsHold
<1> QED
  BY <1>1, <1>3 DEF WellFormed

LEMMA NextBallotsInRange ==
  ASSUME ~LooseMode, TypeOK, BallotsInRange, [Next]_vars
  PROVE  BallotsInRange'
<1>1. ASSUME vote' = vote, ~malformed' => ~malformed
      PROVE  BallotsInRange'
  BY <1>1 DEF BallotsInRange, WellFormed
<1>2. ASSUME NEW blk \in Blocks, Offer(blk)
      PROVE  BallotsInRange'
  <2>1. ~malformed' => ~malformed
    BY <1>2, Zenon DEF Offer
  <2>2. CASE vote' = vote
    BY <1>1, <2>1, <2>2
  <2>3. CASE CheckVoteCast(blk) /\ vote' # vote
    <3> SUFFICES ASSUME ~malformed'
                 PROVE  \A v \in Voters : vote'[v] # NoVote => WellFormed(vote'[v])
      BY DEF BallotsInRange, WellFormed
    <3>1. /\ blk.hint = "Ballot" /\ vote' = [vote EXCEPT ![blk.voter] = blk.votes]
          /\ verdict' = "accepted" /\ blk.votes # NoVote /\ BallotProven(blk)
      BY <2>3, BallotEffect
    <3>2. ~malformed /\ ~Malformed(blk)
      BY <1>2, <3>1, MalformedIsRemembered
    <3>3. WellFormed(blk.votes)
      BY <3>1, <3>2, BlockKinds, ProvenIsWellFormed
    <3>4. \A v \in Voters : vote'[v] = IF v = blk.voter THEN blk.votes ELSE vote[v]
      BY <3>1 DEF TypeOK
    <3> QED
      BY <3>2, <3>3, <3>4 DEF BallotsInRange
  <2>4. vote' = vote \/ CheckVoteCast(blk)
    BY <1>2 DEF Offer, Validate, ValidateInPhase, CheckGenesis, CheckTrusteeShares,
       CheckTrusteePublic, SetupIsOver, CheckVoterRegistration, CheckPartialTally,
       OutOfPhase, voterVars
  <2> QED
    BY <2>2, <2>3, <2>4
<1>3. CASE GetLocalTally \/ GetResult \/ UNCHANGED vars
  BY <1>1, <1>3 DEF GetLocalTally, GetResult, vars, voterVars
<1> QED
  BY <1>2, <1>3, StepCases

LEMMA CountsStayBelowTurnout ==
  ASSUME TypeOK, BallotsInRange, ~malformed, NEW c \in Candidates
  PROVE  /\ Turnout \in Nat
         /\ DecryptedTally(EncryptedTally(vote))[c] \in Nat
         /\ DecryptedTally(EncryptedTally(vote))[c] <= Turnout
<1> DEFINE f     == GivenTo(vote, c)
           voted == {v \in Voters : vote[v] # NoVote}
<1>1. vote \in [Voters -> Ballots \cup {NoVote}] /\ IsFiniteSet(Voters)
  BY FiniteAssumption DEF TypeOK
<1>2. ASSUME NEW v \in Voters
      PROVE  f[v] \in 0 .. 1 /\ (v \notin voted => f[v] = 0)
  <2>1. CASE vote[v] = NoVote
    BY <2>1 DEF GivenTo
  <2>2. CASE vote[v] # NoVote
    <3>1. vote[v] \in Ballots /\ WellFormed(vote[v])
      BY <1>1, <2>2 DEF BallotsInRange
    <3>2. Worth(vote[v], c) \in 0 .. 1
      BY <3>1, HasEveryCandidate DEF Worth, WellFormed
    <3> QED
      BY <2>2, <3>2 DEF GivenTo
  <2> QED
    BY <2>1, <2>2
<1>3. DecryptedTally(EncryptedTally(vote))[c] = SumOver(f, Voters) % Order
  BY <1>1, CountByBallotOrByVoter
<1> HIDE DEF f
<1>4. voted \in SUBSET Voters /\ Turnout = Cardinality(voted) /\ Cardinality(voted) \in Nat
  BY <1>1, FS_Subset, FS_CardinalityType DEF Turnout
<1> HIDE DEF voted
<1>5. SumOver(f, Voters) <= Cardinality(voted)
  BY <1>1, <1>2, <1>4, SumOfOnes
<1>6. SumOver(f, Voters) \in Nat
  <2>1. \A v \in Voters : f[v] \in Nat
    BY <1>2
  <2> QED
    BY <1>1, <2>1, SumOfNaturals
<1>7. SumOver(f, Voters) % Order \in Nat /\ SumOver(f, Voters) % Order <= SumOver(f, Voters)
  BY <1>6, OrderAssumption, RemainderIsNoMore
<1> QED
  BY <1>3, <1>4, <1>5, <1>6, <1>7

\* Every candidate has a ciphertext in somebody's ballot: no product is empty.
LEMMA NoProductIsEmpty ==
  ASSUME TypeOK, BallotsInRange, ~malformed, Turnout > 0, NEW c \in Candidates
  PROVE  ~EmptyFor(c, EncryptedTally(vote))
<1>1. PICK v \in Voters : vote[v] # NoVote
  <2>1. {v \in Voters : vote[v] # NoVote} # {}
    BY FS_EmptySet DEF Turnout
  <2> QED
    BY <2>1
<1> DEFINE b     == vote[v]
           alike == {u \in Voters : vote[u] = b}
<1>2. b \in Ballots /\ WellFormed(b)
  BY <1>1 DEF TypeOK, BallotsInRange
<1>3. c \in DOMAIN Plain[b]
  BY <1>2, HasEveryCandidate DEF WellFormed
<1>4. IsFiniteSet(alike) /\ alike # {}
  BY FiniteAssumption, FS_Subset
<1>5. Cardinality(alike) # 0
  BY <1>4, FS_EmptySet
<1> QED
  BY <1>2, <1>3, <1>5 DEF EncryptedTally, EmptyFor

PanicInv == IInv /\ SharesInv /\ BallotsInRange /\ OnlyMalformedBlocksPanic

\* A panic changes nothing the property looks at.
Unmoved == UNCHANGED <<setup, trusteePublic, vote>>

LEMMA PanicsLeaveTheRest ==
  ASSUME [Next]_vars, verdict' = "panicked"
  PROVE  Unmoved
<1>1. ASSUME NEW blk \in Blocks, Offer(blk)
      PROVE  Unmoved
  BY <1>1 DEF Offer, Validate, ValidateInPhase, CheckGenesis, CheckTrusteeShares,
     CheckTrusteePublic, SetupIsOver, CheckVoterRegistration, CheckVoteCast,
     CheckPartialTally, OutOfPhase, Ends, Accepted, Reject, Unmoved, setupVars, voterVars
<1>2. CASE GetLocalTally \/ GetResult
  BY <1>2 DEF GetLocalTally, GetResult, Unmoved, setupVars, voterVars
<1>3. CASE UNCHANGED vars
  BY <1>3 DEF vars, Unmoved, setupVars, voterVars
<1> QED
  BY <1>1, <1>2, <1>3, StepCases

\* The situation the property is about.
Complete ==
  /\ setup # NoSetup /\ setup \in Setups /\ setup.trustees \in Nat
  /\ trusteePublic = Trustees /\ Turnout > 0 /\ ~malformed

LEMMA CompleteMeansReady ==
  ASSUME PanicInv, Complete
  PROVE  /\ HasAllTrusteeShares /\ HasAllTrusteePublic
         /\ setup.exponents = "enough"
         /\ ~LocalTallyPanics
         /\ LocalTally = EncryptedTally(vote)
<1>1. 1 \in Trustees
  BY DEF PanicInv, SharesInv, Complete, Trustees
<1>2. haveAllShares /\ system /\ setup.exponents = "enough"
  BY <1>1 DEF PanicInv, SharesInv, Complete
<1>3. Cardinality(trusteePublic) = setup.trustees
  BY TrusteesAreCounted DEF Complete
<1>4. ASSUME NEW v \in Voters, vote[v] # NoVote
      PROVE  vote[v] \notin Nulled /\ ~(Len(Plain[vote[v]]) > Cardinality(Candidates))
  <2>1. WellFormed(vote[v])
    BY <1>4 DEF PanicInv, BallotsInRange, Complete
  <2>2. Cardinality(Candidates) \in Nat
    BY CandidatesAssumption, FS_CardinalityType
  <2> QED
    BY <2>1, <2>2 DEF WellFormed
<1>5. LocalTally = EncryptedTally(vote)
  BY DEF PanicInv, IInv, TallyInv, LocalTally
<1> QED
  BY <1>2, <1>3, <1>4, <1>5 DEF HasAllTrusteeShares, HasAllTrusteePublic, LocalTallyPanics

LEMMA BallotsDoNotPanic ==
  ASSUME PanicInv, Complete, NEW blk \in Blocks, CheckVoteCast(blk), ~Malformed(blk)
  PROVE  verdict' # "panicked"
<1>1. Cardinality(Candidates) \in Nat /\ Cardinality(Candidates) >= 2
  BY CandidatesAssumption, FS_CardinalityType DEF PanicInv, SharesInv, Complete
<1>2. setup.exponents # "none"
  BY CompleteMeansReady
<1>3. ASSUME blk.hint = "Ballot"
      PROVE  /\ blk.signer # NoKey /\ blk.votes \notin Nulled /\ blk.votes # NoVote
             /\ ~ProvingPanics(blk)
  BY <1>1, <1>2, <1>3 DEF Malformed, ProvingPanics
<1> QED
  BY <1>3 DEF CheckVoteCast, Ends

LEMMA TalliesDoNotPanic ==
  ASSUME PanicInv, Complete, NEW blk \in Blocks, CheckPartialTally(blk), ~Malformed(blk)
  PROVE  verdict' # "panicked"
<1>1. ~LocalTallyPanics /\ LocalTally = EncryptedTally(vote)
  BY CompleteMeansReady
<1>2. \A c \in Candidates : ~EmptyFor(c, LocalTally)
  BY <1>1, NoProductIsEmpty DEF PanicInv, IInv, Complete
<1>3. blk.hint = "PartialTally" => ~ComparingPanics(blk.tally, LocalTally)
  BY <1>2 DEF Malformed, ComparingPanics
<1> QED
  BY <1>1, <1>3 DEF CheckPartialTally, Malformed, Ends, Complete

LEMMA NextNeverPanics ==
  ASSUME PanicInv, [Next]_vars
  PROVE  OnlyMalformedBlocksPanic'
<1> SUFFICES ASSUME setup' # NoSetup, trusteePublic' = Trustees', Turnout' > 0,
                    ~malformed', verdict' = "panicked"
             PROVE  FALSE
  BY DEF OnlyMalformedBlocksPanic, Running
<1>1. ~malformed
  <2>1. ASSUME NEW blk \in Blocks, Offer(blk)
        PROVE  ~malformed
    BY <2>1, Zenon DEF Offer
  <2>2. CASE GetLocalTally \/ GetResult \/ UNCHANGED vars
    BY <2>2 DEF GetLocalTally, GetResult, vars
  <2> QED
    BY <2>1, <2>2, StepCases
<1>2. Complete
  <2>1. setup' = setup /\ trusteePublic' = trusteePublic /\ vote' = vote
    BY PanicsLeaveTheRest DEF Unmoved
  <2> QED
    BY <1>1, <2>1, SetupsAssumption
    DEF Trustees, Turnout, PanicInv, IInv, TypeOK, SetupData, Complete
<1>3. Running
  BY <1>2 DEF PanicInv, OnlyMalformedBlocksPanic, Complete
<1>4. ASSUME NEW blk \in Blocks, Offer(blk)
      PROVE  FALSE
  <2>1. ~Malformed(blk)
    BY <1>4, MalformedIsRemembered DEF PanicInv, IInv
  <2>2. HasAllTrusteeShares /\ HasAllTrusteePublic /\ setup # NoSetup
    BY <1>2, CompleteMeansReady DEF Complete
  <2>3. ~CheckTrusteeShares(blk) /\ ~CheckTrusteePublic(blk)
    BY <2>2 DEF CheckTrusteeShares, CheckTrusteePublic
  <2>4. ~SetupIsOver(blk) /\ ~OutOfPhase(blk)
    BY DEF SetupIsOver, OutOfPhase, Reject
  <2>5. ~CheckVoterRegistration(blk)
    BY <2>1 DEF CheckVoterRegistration, Malformed, Ends
  <2>6. ~CheckVoteCast(blk) /\ ~CheckPartialTally(blk)
    BY <1>2, <2>1, BallotsDoNotPanic, TalliesDoNotPanic
  <2> QED
    BY <1>4, <2>2, <2>3, <2>4, <2>5, <2>6 DEF Offer, Validate, ValidateInPhase
<1>5. CASE GetLocalTally
  BY <1>2, <1>5, CompleteMeansReady DEF GetLocalTally
<1>6. CASE GetResult
  <2>1. /\ Cardinality(resultPartials) >= setup.required
        /\ DLogExceeded(DecryptedTally(localTallies))
    BY <1>2, <1>6 DEF GetResult, Complete
  <2>2. setup.required \in Nat /\ setup.required >= 2
    BY <1>2, SetupsAssumption DEF PanicInv, IInv, SetupInv, SetupData, Complete
  <2>3. resultPartials # {}
    BY <2>1, <2>2, FS_EmptySet
  <2>4. localTallies = EncryptedTally(vote)
    BY <2>3 DEF PanicInv, IInv, TallyInv
  <2>5. PICK c \in Candidates : DecryptedTally(EncryptedTally(vote))[c] > 2 * Turnout + 1
    BY <2>1, <2>4 DEF DLogExceeded
  <2> QED
    BY <1>1, <2>5, CountsStayBelowTurnout DEF PanicInv, IInv
<1>7. CASE UNCHANGED vars
  BY <1>3, <1>7 DEF vars, Running
<1> QED
  BY <1>4, <1>5, <1>6, <1>7, StepCases

\* A validator that checks every proof does not panic in an election whose setup
\* was completed and in which somebody voted, whatever blocks it is offered, as
\* long as it has let past none that is malformed, and is offered none that
\* gets further than a rejection.
THEOREM NoPanicOnceComplete ==
  ASSUME ~ClockMayStepBack, ~LooseMode
  PROVE  Spec => []OnlyMalformedBlocksPanic
<1>1. Init => PanicInv
  <2>1. Init => IInv
    BY InitTypeOK DEF Init, IInv, SetupInv, TallyInv
  <2>2. Init => SharesInv /\ BallotsInRange /\ OnlyMalformedBlocksPanic
    BY DEF Init, SharesInv, BallotsInRange, OnlyMalformedBlocksPanic
  <2> QED
    BY <2>1, <2>2 DEF PanicInv
<1>2. PanicInv /\ [Next]_vars => PanicInv'
  <2>1. PanicInv /\ [Next]_vars => IInv'
    BY NextTypeOK, NextSetupInv, NextTallyInv DEF PanicInv, IInv
  <2>2. PanicInv /\ [Next]_vars => SharesInv' /\ BallotsInRange'
    BY NextSharesInv, NextBallotsInRange DEF PanicInv, IInv
  <2> QED
    BY <2>1, <2>2, NextNeverPanics DEF PanicInv
<1>3. PanicInv => OnlyMalformedBlocksPanic
  BY DEF PanicInv
<1> QED
  BY <1>1, <1>2, <1>3, PTL DEF Spec

===============================================================================
