----------------------- MODULE SimulatedElectionProofs -----------------------
(***************************************************************************)
(* Five things about a simulated election, for any number of trustees and    *)
(* voters: the authority's blocks are within their phases, so that its own    *)
(* loops are never refused one; what voter simulate infers from the chain     *)
(* when it is run again is true, so that no voter loses its key or votes      *)
(* twice and the result counts the ballots of the files; the types; and that  *)
(* a strict validator accepts all the commands put on the chain.             *)
(***************************************************************************)
EXTENDS SimulatedElection, ArithmeticProofs, FiniteSetTheorems, TLAPS

\* With the flags a simulation is meant for.
Simulable == NumTrustees <= 120 /\ NumVoters < 300 * Hour

-----------------------------------------------------------------------------
\* The one thing the proofs need of Hour: room for 120 trustees.
LEMMA HourIsLong == Hour \in Nat /\ 3571 < Hour /\ 240 < Hour
  BY SMT DEF Hour

LEMMA Bounds ==
  ASSUME NEW s \in Int
  PROVE  /\ TimingFor(s).opens[1] = Now + s
         /\ TimingFor(s).opens[2] = Now + s + Hour + 1
         /\ TimingFor(s).opens[3] = Now + s + 301 * Hour + 2
         /\ TimingFor(s).opens[4] = Now + s + 601 * Hour + 3
         /\ TimingFor(s).closes[1] = Now + s + Hour
         /\ TimingFor(s).closes[2] = Now + s + 301 * Hour + 1
         /\ TimingFor(s).closes[3] = Now + s + 601 * Hour + 2
         /\ TimingFor(s).closes[4] = Now + s + 602 * Hour + 3
  BY ClockAssumption, HourIsLong, SMT DEF TimingFor

\* A time within a phase of this timing is in no other phase.
LEMMA OnePhase ==
  ASSUME NEW s \in Int, NEW t \in Int, NEW p \in Phases, Within(TimingFor(s), p, t)
  PROVE  GetPhaseForTime(TimingFor(s), t) = p
<1> DEFINE T == TimingFor(s)
<1>1. ASSUME NEW q \in Phases, Within(T, q, t)
      PROVE  q = p
  <2>1. T.opens[p] < t /\ t < T.closes[p] /\ T.opens[q] < t /\ t < T.closes[q]
    BY <1>1 DEF Within
  <2>2. p \in {1, 2, 3, 4} /\ q \in {1, 2, 3, 4}
    BY <1>1 DEF Phases
  <2>3. /\ T.opens[1] = Now + s /\ T.opens[2] = Now + s + Hour + 1
        /\ T.opens[3] = Now + s + 301 * Hour + 2 /\ T.opens[4] = Now + s + 601 * Hour + 3
        /\ T.closes[1] = Now + s + Hour /\ T.closes[2] = Now + s + 301 * Hour + 1
        /\ T.closes[3] = Now + s + 601 * Hour + 2 /\ T.closes[4] = Now + s + 602 * Hour + 3
    BY Bounds, SMT
  <2> HIDE DEF T
  <2>4. QED
    BY <2>1, <2>2, <2>3, ClockAssumption, HourIsLong, SMT
<1>2. \A q \in 1 .. (p - 1) : ~Within(T, q, t)
  BY <1>1 DEF Phases
<1>3. \E q \in Phases : Within(T, q, t)
  OBVIOUS
<1>4. ASSUME NEW q \in Phases, Within(T, q, t) /\ \A r \in 1 .. (q - 1) : ~Within(T, r, t)
      PROVE  q = p
  BY <1>1, <1>4
<1> HIDE DEF T
<1>5. (CHOOSE q \in Phases : Within(T, q, t) /\ \A r \in 1 .. (q - 1) : ~Within(T, r, t)) = p
  BY <1>2, <1>4, Within(T, p, t) DEF T
<1>6. QED
  BY <1>3, <1>5 DEF GetPhaseForTime, T

\* "Big enough to allow 1 million voters": every stamp the commands give a block
\* lies in the phase the block is meant for, for up to 120 trustees (the last of
\* whom posts its decryption 3571 seconds into the hour) and 1079999 voters.
THEOREM StampsAreInTheirPhases ==
  ASSUME Simulable, zone = 0
  PROVE  /\ \A i \in Trustees :
              /\ GetPhaseForTime(timing, SharesStamp(i)) = ParameterConfirmation
              /\ GetPhaseForTime(timing, PublicStamp(i)) = ParameterConfirmation
              /\ GetPhaseForTime(timing, PartialStamp(i)) = TallyDecryption
         /\ \A v \in Voters :
              /\ GetPhaseForTime(timing, RegStamp(v)) = VoterRegistration
              /\ GetPhaseForTime(timing, BallotStamp(v)) = VoteCasting
<1> DEFINE T == TimingFor(0)
<1>1. timing = T
  BY DEF timing
<1>2. /\ T.opens[1] = Now /\ T.opens[2] = Now + Hour + 1
      /\ T.opens[3] = Now + 301 * Hour + 2 /\ T.opens[4] = Now + 601 * Hour + 3
      /\ T.closes[1] = Now + Hour /\ T.closes[2] = Now + 301 * Hour + 1
      /\ T.closes[3] = Now + 601 * Hour + 2 /\ T.closes[4] = Now + 602 * Hour + 3
  BY ClockAssumption, HourIsLong, SMT DEF TimingFor
<1>3. /\ 1 \in Phases /\ 2 \in Phases /\ 3 \in Phases /\ 4 \in Phases
      /\ ParameterConfirmation = 1 /\ VoterRegistration = 2
      /\ VoteCasting = 3 /\ TallyDecryption = 4
  BY DEF Phases, ParameterConfirmation, VoterRegistration, VoteCasting, TallyDecryption
<1> HIDE DEF T
<1>4. ASSUME NEW i \in Trustees
      PROVE  /\ Within(T, 1, SharesStamp(i)) /\ Within(T, 1, PublicStamp(i))
             /\ Within(T, 4, PartialStamp(i))
             /\ SharesStamp(i) \in Int /\ PublicStamp(i) \in Int /\ PartialStamp(i) \in Int
  BY <1>1, <1>2, <1>3, ClockAssumption, FlagsAssumption, HourIsLong, SMT
     DEF Simulable, Trustees, Within, SharesStamp, PublicStamp, PartialStamp
<1>5. ASSUME NEW v \in Voters
      PROVE  /\ Within(T, 2, RegStamp(v)) /\ Within(T, 3, BallotStamp(v))
             /\ RegStamp(v) \in Int /\ BallotStamp(v) \in Int
  BY <1>1, <1>2, <1>3, ClockAssumption, FlagsAssumption, HourIsLong, SMT
     DEF Simulable, Voters, Within, RegStamp, BallotStamp
<1>6. QED
  BY <1>1, <1>3, <1>4, <1>5, OnePhase, SMT DEF T

-----------------------------------------------------------------------------
(***************************************************************************)
(* The authority's own loops. Each counts the trustees whose block of this   *)
(* round is on the chain; that, and not where the time stands, is what        *)
(* makes the second round's first block acceptable.                          *)
(***************************************************************************)
SetupBlocks ==
  [hint : {"ElectionSetup", "TrusteeShares", "TrusteePublic"}, who : Nat, time : Int,
   key : {NoKey}, votes : {NoVote}]

SharesRound ==
  pc = "shares" =>
    /\ blocks \in Seq(SetupBlocks) /\ index \in Trustees
    /\ Posted("TrusteeShares") = 1 .. index - 1
    /\ Posted("TrusteePublic") = {}

PublicRound ==
  pc \in {"saveShard", "public"} =>
    /\ blocks \in Seq(SetupBlocks) /\ index \in Trustees
    /\ Posted("TrusteeShares") = Trustees
    /\ Posted("TrusteePublic") = 1 .. index - 1

\* Which command is running where.
CommandRuns ==
  /\ pc \in {"idle", "genesis", "shares", "saveShard", "public", "draw", "write",
             "register", "cast", "finish", "partial", "print"}
  /\ pc \in {"draw", "write", "register", "cast", "finish"} => command = "voter"
  /\ pc \in {"partial", "print"} => command = "trustee"

IInv == CommandRuns /\ (zone = 0 => SharesRound /\ PublicRound) /\ SetupSucceeds

-----------------------------------------------------------------------------
\* One more block: its sender has posted it, and nobody anything else.
LEMMA PostedByAppend ==
  ASSUME NEW S, blocks \in Seq(S), NEW blk \in S, blocks' = Append(blocks, blk), NEW h
  PROVE  Posted(h)' = IF blk.hint = h THEN Posted(h) \cup {blk.who} ELSE Posted(h)
<1>1. /\ DOMAIN blocks = 1 .. Len(blocks) /\ DOMAIN blocks' = 1 .. Len(blocks) + 1
      /\ Len(blocks) \in Nat
      /\ \A k \in 1 .. Len(blocks) : blocks'[k] = blocks[k]
      /\ blocks'[Len(blocks) + 1] = blk
  OBVIOUS
<1>2. \A k \in DOMAIN blocks' : k \in DOMAIN blocks \/ k = Len(blocks) + 1
  BY <1>1
<1>3. \A k \in DOMAIN blocks : k \in DOMAIN blocks'
  BY <1>1
<1>4. Len(blocks) + 1 \in DOMAIN blocks'
  BY <1>1
<1>5. \A x : x \in Posted(h)' <=> \E k \in DOMAIN blocks' : blocks'[k].hint = h /\ blocks'[k].who = x
  BY DEF Posted
<1>6. \A x : x \in Posted(h) <=> \E k \in DOMAIN blocks : blocks[k].hint = h /\ blocks[k].who = x
  BY DEF Posted
<1>7. \A x : x \in Posted(h)' <=> x \in Posted(h) \/ (blk.hint = h /\ x = blk.who)
  BY <1>1, <1>2, <1>3, <1>4, <1>5, <1>6
<1>8. QED
  BY <1>7

LEMMA InitIInv == ASSUME Simulable, Init PROVE IInv
  BY DEF Simulable, Init, IInv, CommandRuns, SharesRound, PublicRound, SetupSucceeds, Ended

\* What the authority's steps have to do: the loops go on from trustee to trustee.
LEMMA PostSharesIInv == ASSUME Simulable, IInv, zone = 0, PostShares PROVE IInv'
<1> DEFINE blk == Blk("TrusteeShares", index, SharesStamp(index))
<1>1. /\ pc = "shares" /\ index \in Trustees /\ index \in Nat /\ blocks \in Seq(SetupBlocks)
      /\ Posted("TrusteeShares") = 1 .. index - 1 /\ Posted("TrusteePublic") = {}
      /\ zone = 0 /\ NumTrustees \in Nat
  BY FlagsAssumption DEF PostShares, IInv, SharesRound, Trustees
<1>2. GetPhaseForTime(timing, SharesStamp(index)) = ParameterConfirmation
  BY <1>1, StampsAreInTheirPhases
<1>3. SharesStamp(index) \in Int
  BY <1>1, ClockAssumption DEF SharesStamp
<1>4. blk \in SetupBlocks /\ blk.hint = "TrusteeShares" /\ blk.who = index
      /\ blk.time = SharesStamp(index)
  BY <1>1, <1>3 DEF Blk, SetupBlocks
<1> HIDE DEF blk
<1>5. Accepts(blk)
  BY <1>1, <1>2, <1>4 DEF Accepts
<1>6. /\ blocks' = Append(blocks, blk)
      /\ IF index < NumTrustees THEN Goto("shares", index + 1) ELSE Goto("saveShard", 1)
      /\ UNCHANGED <<zone, command, ended>>
  BY <1>5 DEF PostShares, MintFails, MintAdds, blk
<1>7. /\ Posted("TrusteeShares")' = (1 .. index - 1) \cup {index}
      /\ Posted("TrusteePublic")' = {}
  BY <1>1, <1>4, <1>6, PostedByAppend
<1>8. Posted("TrusteeShares")' = 1 .. index
  <2>1. (1 .. index - 1) \cup {index} = 1 .. index
    BY <1>1 DEF Trustees
  <2>2. QED
    BY <1>7, <2>1
<1>9. blocks' \in Seq(SetupBlocks)
  BY <1>1, <1>4, <1>6
<1>10. CASE index < NumTrustees
  <2>1. pc' = "shares" /\ index' = index + 1 /\ index' \in Trustees /\ index' - 1 = index
    BY <1>1, <1>6, <1>10 DEF Goto, Trustees
  <2>2. SharesRound' /\ PublicRound'
    BY <1>7, <1>8, <1>9, <2>1 DEF SharesRound, PublicRound
  <2>3. CommandRuns' /\ SetupSucceeds' /\ zone' = 0
    BY <1>1, <1>6, <2>1 DEF CommandRuns, SetupSucceeds, Ended, IInv
  <2>4. QED
    BY <2>2, <2>3 DEF IInv
<1>11. CASE ~(index < NumTrustees)
  <2>1. pc' = "saveShard" /\ index' = 1 /\ index' \in Trustees /\ 1 .. index' - 1 = {}
    BY <1>1, <1>6, <1>11, FlagsAssumption DEF Goto, Trustees
  <2>2. 1 .. index = Trustees
    BY <1>1, <1>11 DEF Trustees
  <2>3. SharesRound' /\ PublicRound'
    BY <1>7, <1>8, <1>9, <2>1, <2>2 DEF SharesRound, PublicRound, Trustees
  <2>4. CommandRuns' /\ SetupSucceeds' /\ zone' = 0
    BY <1>1, <1>6, <2>1 DEF CommandRuns, SetupSucceeds, Ended, IInv
  <2>5. QED
    BY <2>3, <2>4 DEF IInv
<1>12. QED
  BY <1>10, <1>11

LEMMA PostPublicIInv == ASSUME Simulable, IInv, zone = 0, PostPublic PROVE IInv'
<1> DEFINE blk == Blk("TrusteePublic", index, PublicStamp(index))
<1>1. /\ pc = "public" /\ index \in Trustees /\ index \in Nat /\ blocks \in Seq(SetupBlocks)
      /\ Posted("TrusteeShares") = Trustees /\ Posted("TrusteePublic") = 1 .. index - 1
      /\ zone = 0 /\ NumTrustees \in Nat
  BY FlagsAssumption DEF PostPublic, IInv, PublicRound, Trustees
<1>2. GetPhaseForTime(timing, PublicStamp(index)) = ParameterConfirmation
  BY <1>1, StampsAreInTheirPhases
<1>3. PublicStamp(index) \in Int
  BY <1>1, ClockAssumption DEF PublicStamp
<1>4. blk \in SetupBlocks /\ blk.hint = "TrusteePublic" /\ blk.who = index
      /\ blk.time = PublicStamp(index)
  BY <1>1, <1>3 DEF Blk, SetupBlocks
<1> HIDE DEF blk
<1>5. Accepts(blk)
  BY <1>1, <1>2, <1>4 DEF Accepts
<1>6. /\ blocks' = Append(blocks, blk)
      /\ IF index < NumTrustees
         THEN Goto("saveShard", index + 1) /\ UNCHANGED <<voters, measured, ended>> ELSE End("done")
      /\ UNCHANGED <<zone, command>>
  BY <1>5 DEF PostPublic, MintFails, MintAdds, blk
<1>7. /\ Posted("TrusteePublic")' = (1 .. index - 1) \cup {index}
      /\ Posted("TrusteeShares")' = Trustees
  BY <1>1, <1>4, <1>6, PostedByAppend
<1>8. Posted("TrusteePublic")' = 1 .. index
  <2>1. (1 .. index - 1) \cup {index} = 1 .. index
    BY <1>1 DEF Trustees
  <2>2. QED
    BY <1>7, <2>1
<1>9. blocks' \in Seq(SetupBlocks)
  BY <1>1, <1>4, <1>6
<1>10. CASE index < NumTrustees
  <2>1. pc' = "saveShard" /\ index' = index + 1 /\ index' \in Trustees /\ index' - 1 = index
        /\ ended' = ended
    BY <1>1, <1>6, <1>10 DEF Goto, Trustees
  <2>2. SharesRound' /\ PublicRound'
    BY <1>7, <1>8, <1>9, <2>1 DEF SharesRound, PublicRound, Trustees
  <2>3. CommandRuns' /\ SetupSucceeds' /\ zone' = 0
    BY <1>1, <1>6, <2>1 DEF CommandRuns, SetupSucceeds, Ended, IInv
  <2>4. QED
    BY <2>2, <2>3 DEF IInv
<1>11. CASE ~(index < NumTrustees)
  <2>1. pc' = "idle" /\ ended' = "done" /\ zone' = 0
    BY <1>1, <1>6, <1>11 DEF End, Goto
  <2>2. QED
    BY <2>1 DEF IInv, CommandRuns, SharesRound, PublicRound, SetupSucceeds, Ended
<1>12. QED
  BY <1>10, <1>11

\* In another zone the authority may be refused, and nothing is said of it.
LEMMA PostElsewhere == ASSUME IInv, zone # 0, PostShares \/ PostPublic PROVE IInv'
<1>1. zone' = zone /\ command' = command
  BY DEF PostShares, PostPublic
<1>2. pc' \in {"idle", "shares", "saveShard"}
  BY DEF PostShares, PostPublic, MintFails, End, Goto
<1>3. QED
  BY <1>1, <1>2 DEF IInv, CommandRuns, SetupSucceeds

\* The other commands leave the authority alone.
LEMMA OtherIInv ==
  ASSUME Simulable, IInv,
         \/ StartAuthority \/ OpenVoter \/ OpenTrustee \/ Audit \/ Kill
         \/ DrawVoter \/ WriteVoter \/ RegisterVoter \/ CastVote \/ FinishVoting
         \/ PostPartial \/ PrintResult
  PROVE  IInv'
<1> USE DEF IInv, CommandRuns, SharesRound, PublicRound, SetupSucceeds, Ended, Goto
<1>1. CASE StartAuthority
  BY <1>1 DEF StartAuthority, Simulable
<1>2. CASE OpenVoter
  <2>1. command' = "voter" /\ zone' = zone
    BY <1>2 DEF OpenVoter, dirVars
  <2>2. pc' \in {"idle", "draw", "cast", "finish"}
    BY <1>2, SMT DEF OpenVoter, End, NextToRegister, NextToCast
  <2>3. QED
    BY <2>1, <2>2
<1>3. CASE OpenTrustee
  <2>1. command' = "trustee" /\ zone' = zone /\ pc' \in {"idle", "partial"}
    BY <1>3 DEF OpenTrustee, dirVars, End
  <2>2. QED
    BY <2>1
<1>4. CASE Audit
  <2>1. command' = "auditor" /\ zone' = zone /\ pc' = "idle"
    BY <1>4 DEF Audit, dirVars, End
  <2>2. QED
    BY <2>1
<1>5. CASE Kill
  BY <1>5 DEF Kill, End, dirVars
<1>6. CASE DrawVoter
  BY <1>6 DEF DrawVoter
<1>7. CASE WriteVoter
  BY <1>7 DEF WriteVoter
<1>8. CASE RegisterVoter
  <2>1. command' = "voter" /\ zone' = zone /\ pc' \in {"idle", "draw", "cast"}
    BY <1>8 DEF RegisterVoter, MintFails, End, NextToRegister
  <2>2. QED
    BY <2>1
<1>9. CASE CastVote
  <2>1. command' = "voter" /\ zone' = zone /\ pc' \in {"idle", "cast", "finish"}
    BY <1>9 DEF CastVote, MintFails, End, NextToCast
  <2>2. QED
    BY <2>1
<1>10. CASE FinishVoting
  <2>1. command' = "voter" /\ zone' = zone /\ pc' = "idle"
    BY <1>10 DEF FinishVoting, End, dirVars
  <2>2. QED
    BY <2>1
<1>11. CASE PostPartial
  <2>1. command' = "trustee" /\ zone' = zone /\ pc' \in {"idle", "partial", "print"}
    BY <1>11 DEF PostPartial, MintFails, End
  <2>2. QED
    BY <2>1
<1>12. CASE PrintResult
  <2>1. command' = "trustee" /\ zone' = zone /\ pc' = "idle"
    BY <1>12 DEF PrintResult, End, dirVars
  <2>2. QED
    BY <2>1
<1>13. QED
  BY <1>1, <1>2, <1>3, <1>4, <1>5, <1>6, <1>7, <1>8, <1>9, <1>10, <1>11, <1>12

LEMMA NextIInv == ASSUME Simulable, IInv, [Next]_vars PROVE IInv'
<1>1. CASE CreateGenesis
  <2>1. /\ blocks' = <<Blk("ElectionSetup", 0, GenesisStamp)>>
        /\ pc' = "shares" /\ index' = 1 /\ UNCHANGED <<zone, command, ended>>
    BY <1>1 DEF CreateGenesis, Goto, IInv
  <2> DEFINE blk == Blk("ElectionSetup", 0, GenesisStamp)
  <2>2. GenesisStamp \in Int
    BY SMT DEF GenesisStamp
  <2>3. blk \in SetupBlocks /\ blk.hint = "ElectionSetup"
    BY <2>2 DEF Blk, SetupBlocks
  <2>4. blocks' \in Seq(SetupBlocks) /\ DOMAIN blocks' = {1} /\ blocks'[1].hint = "ElectionSetup"
    BY <2>1, <2>3
  <2>5. Posted("TrusteeShares")' = {} /\ Posted("TrusteePublic")' = {}
    BY <2>4 DEF Posted
  <2>6. index' \in Trustees /\ 1 .. index' - 1 = {}
    BY <2>1, FlagsAssumption DEF Trustees
  <2>7. SharesRound' /\ PublicRound'
    BY <2>1, <2>4, <2>5, <2>6 DEF SharesRound, PublicRound, Trustees
  <2>8. CommandRuns' /\ SetupSucceeds'
    BY <2>1 DEF CommandRuns, SetupSucceeds, Ended, IInv
  <2>9. QED
    BY <2>1, <2>7, <2>8 DEF IInv
<1>2. CASE PostShares
  BY <1>2, PostSharesIInv, PostElsewhere
<1>3. CASE SaveShard
  <2>1. /\ pc = "saveShard" /\ pc' = "public"
        /\ UNCHANGED <<index, blocks, zone, command, ended>>
    BY <1>3 DEF SaveShard, Goto
  <2>2. Posted("TrusteeShares")' = Posted("TrusteeShares")
        /\ Posted("TrusteePublic")' = Posted("TrusteePublic")
    BY <2>1 DEF Posted
  <2>3. QED
    BY <2>1, <2>2 DEF IInv, CommandRuns, SharesRound, PublicRound, SetupSucceeds, Ended
<1>4. CASE PostPublic
  BY <1>4, PostPublicIInv, PostElsewhere
<1>5. CASE UNCHANGED vars
  <2>1. UNCHANGED <<pc, index, blocks, zone, command, ended>>
    BY <1>5 DEF vars, dirVars, processVars
  <2>2. Posted("TrusteeShares")' = Posted("TrusteeShares")
        /\ Posted("TrusteePublic")' = Posted("TrusteePublic")
    BY <2>1 DEF Posted
  <2>3. QED
    BY <2>1, <2>2 DEF IInv, CommandRuns, SharesRound, PublicRound, SetupSucceeds, Ended
<1>6. QED
  BY <1>1, <1>2, <1>3, <1>4, <1>5, OtherIInv DEF Next, Step

\* In a simulation with such flags no block of the authority's is refused, however
\* often it is killed and run again.
THEOREM SetupAlwaysSucceeds == ASSUME Simulable PROVE Spec => []SetupSucceeds
<1>1. Init => IInv
  BY InitIInv
<1>2. IInv /\ [Next]_vars => IInv'
  BY NextIInv
<1>3. IInv => SetupSucceeds
  BY DEF IInv
<1>4. QED
  BY <1>1, <1>2, <1>3, PTL DEF Spec

-----------------------------------------------------------------------------
(***************************************************************************)
(* The voters. What a resumed command infers from the length of the chain     *)
(* and its last block is true because a chain on a complete setup has one     *)
(* shape: the blocks of the setup, a registration of each voter in turn, a    *)
(* ballot of each in turn, and behind ballots the partial tallies.           *)
(***************************************************************************)
VoterLabels == {"draw", "write", "register", "cast", "finish"}
SetupLabels == {"genesis", "shares", "saveShard", "public"}
SetupHints  == {"ElectionSetup", "TrusteeShares", "TrusteePublic"}

IsList == blocks \in Seq(Range(blocks))

\* Where the blocks of a voter are.
RegPlace(v)    == setupBlocks + v
BallotPlace(v) == setupBlocks + NumVoters + v

InPlace(k) ==
  \/ \E v \in Voters : k = RegPlace(v) /\ blocks[k].hint = "VoterReg" /\ blocks[k].who = v
  \/ \E v \in Voters : k = BallotPlace(v) /\ blocks[k].hint = "Ballot" /\ blocks[k].who = v
  \/ k > BallotPlace(1) /\ blocks[k].hint = "PartialTally"

Shape ==
  /\ Len(blocks) >= setupBlocks
  /\ \A k \in 1 .. setupBlocks : blocks[k].hint \in SetupHints
  /\ blocks[setupBlocks].hint = "TrusteePublic"
  /\ \A k \in DOMAIN blocks : k > setupBlocks => InPlace(k)
  /\ \A k, n \in DOMAIN blocks :
       k < n /\ blocks[k].hint = "PartialTally" => blocks[n].hint = "PartialTally"

LEMMA Counts ==
  /\ NumTrustees \in Nat /\ NumTrustees >= 3 /\ NumVoters \in Nat /\ NumVoters >= 1
  /\ setupBlocks \in Nat /\ setupBlocks = 1 + 2 * NumTrustees /\ setupBlocks >= 7
  /\ Voters = 1 .. NumVoters /\ Trustees = 1 .. NumTrustees
  BY FlagsAssumption DEF setupBlocks, Voters, Trustees

LEMMA ListAppend ==
  ASSUME IsList, NEW blk, blocks' = Append(blocks, blk)
  PROVE  /\ IsList'
         /\ Len(blocks) \in Nat /\ DOMAIN blocks = 1 .. Len(blocks)
         /\ Len(blocks') = Len(blocks) + 1 /\ DOMAIN blocks' = 1 .. Len(blocks) + 1
         /\ \A k \in DOMAIN blocks : blocks'[k] = blocks[k]
         /\ blocks'[Len(blocks) + 1] = blk
         /\ \A h : Posted(h)' = IF blk.hint = h THEN Posted(h) \cup {blk.who} ELSE Posted(h)
<1> DEFINE S == Range(blocks) \cup {blk}
<1>1. blocks \in Seq(S)
  BY DEF IsList
<1>2. /\ Len(blocks) \in Nat /\ DOMAIN blocks = 1 .. Len(blocks)
      /\ Len(blocks') = Len(blocks) + 1 /\ DOMAIN blocks' = 1 .. Len(blocks) + 1
      /\ \A k \in DOMAIN blocks : blocks'[k] = blocks[k]
      /\ blocks'[Len(blocks) + 1] = blk
  BY <1>1
<1>3. IsList'
  <2>1. blocks' \in Seq(S)
    BY <1>1
  <2>2. \A k \in DOMAIN blocks' : blocks'[k] \in Range(blocks')
    BY DEF Range
  <2>3. blocks' \in Seq(Range(blocks'))
    BY <1>2, <2>1, <2>2
  <2> QED
    BY <2>3 DEF IsList, Range
<1>4. ASSUME NEW h
      PROVE  Posted(h)' = IF blk.hint = h THEN Posted(h) \cup {blk.who} ELSE Posted(h)
  BY <1>1, PostedByAppend
<1> QED
  BY <1>2, <1>3, <1>4

\* On a chain of this shape a voter's blocks, if posted, are where they belong.
LEMMA RegIsInPlace ==
  ASSUME IsList, Shape, NEW v
  PROVE  /\ v \in Posted("VoterReg") <=> v \in Voters /\ RegPlace(v) \in DOMAIN blocks
         /\ v \in Posted("VoterReg") => At("VoterReg", v) = {RegPlace(v)}
<1>1. ASSUME NEW k \in DOMAIN blocks, blocks[k].hint = "VoterReg"
      PROVE  blocks[k].who \in Voters /\ k = RegPlace(blocks[k].who)
  <2>1. k > setupBlocks
    <3> SUFFICES ASSUME ~(k > setupBlocks) PROVE FALSE
      OBVIOUS
    <3>1. k \in 1 .. setupBlocks
      BY Counts DEF IsList
    <3> QED
      BY <1>1, <3>1 DEF Shape, SetupHints
  <2> QED
    BY <1>1, <2>1 DEF Shape, InPlace
<1>2. ASSUME v \in Voters, RegPlace(v) \in DOMAIN blocks
      PROVE  blocks[RegPlace(v)].hint = "VoterReg" /\ blocks[RegPlace(v)].who = v
  <2>1. /\ RegPlace(v) > setupBlocks
        /\ ~(RegPlace(v) > BallotPlace(1))
        /\ \A w \in Voters : RegPlace(v) # BallotPlace(w)
        /\ \A w \in Voters : RegPlace(v) = RegPlace(w) => v = w
    BY <1>2, Counts DEF RegPlace, BallotPlace
  <2> QED
    BY <1>2, <2>1 DEF Shape, InPlace
<1> QED
  BY <1>1, <1>2 DEF Posted, At

LEMMA BallotIsInPlace ==
  ASSUME IsList, Shape, NEW v
  PROVE  /\ v \in Posted("Ballot") <=> /\ v \in Voters /\ BallotPlace(v) \in DOMAIN blocks
                                       /\ blocks[BallotPlace(v)].hint = "Ballot"
         /\ v \in Posted("Ballot") => At("Ballot", v) = {BallotPlace(v)}
<1>1. ASSUME NEW k \in DOMAIN blocks, blocks[k].hint = "Ballot"
      PROVE  blocks[k].who \in Voters /\ k = BallotPlace(blocks[k].who)
  <2>1. k > setupBlocks
    <3> SUFFICES ASSUME ~(k > setupBlocks) PROVE FALSE
      OBVIOUS
    <3>1. k \in 1 .. setupBlocks
      BY Counts DEF IsList
    <3> QED
      BY <1>1, <3>1 DEF Shape, SetupHints
  <2> QED
    BY <1>1, <2>1 DEF Shape, InPlace
<1>2. ASSUME v \in Voters, BallotPlace(v) \in DOMAIN blocks, blocks[BallotPlace(v)].hint = "Ballot"
      PROVE  blocks[BallotPlace(v)].who = v
  <2>1. \A w \in Voters : BallotPlace(v) = BallotPlace(w) => v = w
    BY <1>2, Counts DEF BallotPlace
  <2> QED
    BY <1>1, <1>2, <2>1
<1> QED
  BY <1>1, <1>2 DEF Posted, At

\* The unsigned arithmetic of Resume does not wrap on a chain of this shape.
LEMMA SmallNumbers ==
  ASSUME NEW u \in 0 .. NumTrustees + 2 * NumVoters
  PROVE  u % Word = u /\ ToInt(u) = u
<1>1. Word \in Nat /\ u < Word /\ 2 * u < Word /\ u \in Nat
  BY WordAssumption, Counts
<1>2. u % Word = u
  BY <1>1, SMT
<1>3. u < Word \div 2
  BY <1>1, WordAssumption, Counts, SMT
<1> QED
  BY <1>2, <1>3 DEF ToInt

LEMMA ResumeGoesOn ==
  ASSUME IsList, Shape
  PROVE  LET n == Len(blocks) - setupBlocks IN
         \/ /\ n \in 0 .. NumVoters
            /\ Resume = [loop |-> "registration", from |-> n]
         \/ /\ n - NumVoters \in 1 .. NumVoters
            /\ blocks[Len(blocks)].hint = "Ballot"
            /\ Resume = [loop |-> "casting", from |-> n - NumVoters]
         \/ Resume = [loop |-> "panic", from |-> 0]
<1> DEFINE n    == Len(blocks) - setupBlocks
           hint == blocks[Len(blocks)].hint
           last == LastDone(hint)
<1>1. /\ Len(blocks) \in Nat /\ DOMAIN blocks = 1 .. Len(blocks) /\ n \in Nat
      /\ Len(blocks) \in DOMAIN blocks /\ Last(blocks).hint = hint /\ blocks # <<>>
  BY Counts DEF IsList, Shape, Last
<1>2. Resume =
        CASE hint = "TrusteePublic"                -> [loop |-> "registration", from |-> 0]
          [] hint = "VoterReg" /\ last = NumVoters -> [loop |-> "casting", from |-> 0]
          [] hint = "VoterReg" /\ last # NumVoters -> [loop |-> "registration", from |-> SkipAfter(last)]
          [] hint = "Ballot" /\ last = NumVoters   -> [loop |-> "none", from |-> 0]
          [] hint = "Ballot" /\ last # NumVoters   -> [loop |-> "casting", from |-> SkipAfter(last)]
          [] OTHER                                 -> [loop |-> "panic", from |-> 0]
  BY <1>1, Zenon DEF Resume
<1>3. CASE n = 0
  <2>1. hint = "TrusteePublic"
    BY <1>1, <1>3, Counts DEF Shape
  <2> QED
    BY <1>2, <1>3, <2>1, Counts
<1>4. CASE n # 0
  <2>1. InPlace(Len(blocks))
    <3>1. Len(blocks) >= setupBlocks
      BY DEF Shape
    <3>2. Len(blocks) > setupBlocks
      <4>1. \A a, b \in Nat : a >= b /\ a - b # 0 => a > b
        OBVIOUS
      <4>2. Len(blocks) \in Nat /\ setupBlocks \in Nat
        BY <1>1, Counts
      <4> QED
        BY <1>4, <3>1, <4>1, <4>2
    <3> QED
      BY <1>1, <3>2 DEF Shape
  <2>2. ASSUME NEW v \in Voters, Len(blocks) = RegPlace(v), hint = "VoterReg"
        PROVE  n \in 0 .. NumVoters /\ Resume = [loop |-> "registration", from |-> n]
    <3>1. n = v /\ v \in 1 .. NumVoters
      BY <2>2, Counts DEF RegPlace
    <3>2. Minus(Len(blocks) - 1, setupBlocks) = v - 1
      <4>1. (Len(blocks) - 1) - setupBlocks = v - 1 /\ v - 1 \in 0 .. NumTrustees + 2 * NumVoters
        BY <3>1, <1>1, Counts
      <4> QED
        BY <4>1, SmallNumbers DEF Minus
    <3>3. last = v - 1
      BY <2>2, <3>2 DEF LastDone
    <3>4. SkipAfter(last) = v /\ last # NumVoters
      <4>1. last + 1 = v /\ v \in 0 .. NumTrustees + 2 * NumVoters
        BY <3>1, <3>3, Counts
      <4> QED
        BY <3>1, <3>3, <4>1, SmallNumbers, Counts DEF SkipAfter
    <3> HIDE DEF last
    <3>5. Resume = [loop |-> "registration", from |-> SkipAfter(last)]
      BY <1>2, <2>2, <3>4
    <3> QED
      BY <3>1, <3>4, <3>5, Counts
  <2>3. ASSUME NEW v \in Voters, Len(blocks) = BallotPlace(v), hint = "Ballot"
        PROVE  /\ n - NumVoters \in 1 .. NumVoters
               /\ Resume = [loop |-> "casting", from |-> n - NumVoters]
    <3>1. n - NumVoters = v /\ v \in 1 .. NumVoters
      BY <2>3, Counts DEF BallotPlace
    <3>2. Minus(Len(blocks) - 1, setupBlocks) = NumVoters + v - 1
      <4>1. /\ (Len(blocks) - 1) - setupBlocks = NumVoters + v - 1
            /\ NumVoters + v - 1 \in 0 .. NumTrustees + 2 * NumVoters
        BY <3>1, <1>1, Counts
      <4> QED
        BY <4>1, SmallNumbers DEF Minus
    <3>3. last = v - 1
      <4>1. last = Minus(NumVoters + v - 1, NumVoters)
        BY <2>3, <3>2 DEF LastDone
      <4>2. (NumVoters + v - 1) - NumVoters = v - 1 /\ v - 1 \in 0 .. NumTrustees + 2 * NumVoters
        BY <3>1, Counts
      <4> QED
        BY <4>1, <4>2, SmallNumbers DEF Minus
    <3>4. SkipAfter(last) = v /\ last # NumVoters
      <4>1. last + 1 = v /\ v \in 0 .. NumTrustees + 2 * NumVoters
        BY <3>1, <3>3, Counts
      <4> QED
        BY <3>1, <3>3, <4>1, SmallNumbers, Counts DEF SkipAfter
    <3> HIDE DEF last
    <3>5. Resume = [loop |-> "casting", from |-> SkipAfter(last)]
      BY <1>2, <2>3, <3>4
    <3> QED
      BY <3>1, <3>4, <3>5, Counts
  <2>4. CASE hint = "PartialTally"
    BY <1>2, <2>4
  <2> QED
    BY <2>1, <2>2, <2>3, <2>4 DEF InPlace
<1> QED
  BY <1>3, <1>4

LEMMA ShapeGrows ==
  ASSUME IsList, Shape, NEW blk, blocks' = Append(blocks, blk),
         \/ \E v \in Voters : Len(blocks) + 1 = RegPlace(v) /\ blk.hint = "VoterReg" /\ blk.who = v
         \/ \E v \in Voters : Len(blocks) + 1 = BallotPlace(v) /\ blk.hint = "Ballot" /\ blk.who = v
         \/ Len(blocks) + 1 > BallotPlace(1) /\ blk.hint = "PartialTally",
         blk.hint = "PartialTally" \/ Posted("PartialTally") = {}
  PROVE  Shape'
<1> DEFINE n == Len(blocks)
<1>1. /\ n \in Nat /\ DOMAIN blocks = 1 .. n
      /\ Len(blocks') = n + 1 /\ DOMAIN blocks' = 1 .. n + 1
      /\ \A k \in DOMAIN blocks : blocks'[k] = blocks[k]
      /\ blocks'[n + 1] = blk
  BY ListAppend
<1> HIDE DEF n
<1>2. n >= setupBlocks /\ setupBlocks \in Nat /\ setupBlocks >= 7
  BY Counts DEF Shape, n
<1>3. /\ Len(blocks') >= setupBlocks
      /\ \A k \in 1 .. setupBlocks : blocks'[k].hint \in SetupHints
      /\ blocks'[setupBlocks].hint = "TrusteePublic"
  <2>1. \A k \in 1 .. setupBlocks : k \in DOMAIN blocks
    BY <1>1, <1>2
  <2>2. setupBlocks \in 1 .. setupBlocks
    BY <1>2
  <2>3. Len(blocks') >= setupBlocks
    BY <1>1, <1>2
  <2> QED
    BY <1>1, <2>1, <2>2, <2>3 DEF Shape
<1>4. ASSUME NEW k \in DOMAIN blocks', k > setupBlocks PROVE InPlace(k)'
  <2>1. CASE k \in DOMAIN blocks
    <3>1. InPlace(k) /\ blocks'[k] = blocks[k]
      BY <1>1, <1>4, <2>1 DEF Shape
    <3> QED
      BY <3>1 DEF InPlace
  <2>2. CASE k = n + 1
    BY <1>1, <2>2 DEF InPlace, n
  <2> QED
    BY <1>1, <2>1, <2>2
<1>5. ASSUME NEW k \in DOMAIN blocks', NEW m \in DOMAIN blocks', k < m,
             blocks'[k].hint = "PartialTally"
      PROVE  blocks'[m].hint = "PartialTally"
  <2>1. k \in DOMAIN blocks /\ blocks[k].hint = "PartialTally"
    BY <1>1, <1>5
  <2>2. CASE m \in DOMAIN blocks
    BY <1>1, <1>5, <2>1, <2>2 DEF Shape
  <2>3. CASE m = n + 1
    <3>1. Posted("PartialTally") # {}
      BY <2>1 DEF Posted
    <3> QED
      BY <1>1, <2>3, <3>1
  <2> QED
    BY <1>1, <2>2, <2>3
<1> QED
  BY <1>3, <1>4, <1>5 DEF Shape

\* There is no partial tally before the first ballot, nor before any ballot.
LEMMA NoPartialBefore ==
  ASSUME IsList, Shape,
         \/ Len(blocks) <= setupBlocks + NumVoters
         \/ blocks[Len(blocks)].hint # "PartialTally"
  PROVE  Posted("PartialTally") = {}
<1> SUFFICES ASSUME NEW k \in DOMAIN blocks, blocks[k].hint = "PartialTally" PROVE FALSE
  BY DEF Posted
<1>1. /\ Len(blocks) \in Nat /\ DOMAIN blocks = 1 .. Len(blocks)
      /\ Len(blocks) \in DOMAIN blocks
  BY DEF IsList
<1>2. CASE Len(blocks) <= setupBlocks + NumVoters
  <2>1. k > setupBlocks
    BY <1>1, Counts DEF Shape, SetupHints
  <2>2. k > BallotPlace(1)
    BY <2>1 DEF Shape, InPlace
  <2> QED
    BY <1>1, <1>2, <2>2, Counts DEF BallotPlace
<1>3. CASE blocks[Len(blocks)].hint # "PartialTally"
  BY <1>1, <1>3 DEF Shape
<1> QED
  BY <1>2, <1>3

-----------------------------------------------------------------------------
\* The authority's rounds leave a chain of this shape, or one that is cut short.
SetupRounds ==
  /\ pc = "shares" => /\ index \in Trustees /\ Len(blocks) = index
                      /\ Posted("TrusteePublic") = {}
  /\ pc \in {"saveShard", "public"} => /\ index \in Trustees
                                       /\ Len(blocks) = NumTrustees + index
                                       /\ Posted("TrusteePublic") = 1 .. index - 1
  /\ pc = "genesis" => Posted("TrusteePublic") = {}
  /\ pc \in SetupLabels => /\ announced = NoResult
                           /\ \A k \in DOMAIN blocks : blocks[k].hint \in SetupHints

\* Where the running voter command is, by the chain: it has the voters whose files
\* are written, and writes the file of the one it registers next.
VoterRounds ==
  /\ pc \in {"draw", "write", "register"} =>
       /\ index \in Voters /\ Len(blocks) = setupBlocks + index - 1
       /\ \A v \in 1 .. index - 1 : voters[v] = voterFile[v]
  /\ pc \in {"write", "register"} => voters[index] # NoDraw
  /\ pc = "register" => voterFile[index] = voters[index]
  /\ pc = "cast" => /\ index \in Voters /\ Len(blocks) = setupBlocks + NumVoters + index - 1
                    /\ voters = voterFile
  /\ pc = "finish" => Len(blocks) = setupBlocks + 2 * NumVoters
  /\ pc \in VoterLabels => Posted("PartialTally") = {}
  /\ pc \in {"partial", "print"} => Posted("Ballot") # {}

FilesHold ==
  \A v \in Voters : RegPlace(v) \in DOMAIN blocks =>
    voterFile[v] # NoDraw /\ blocks[RegPlace(v)].key = voterFile[v].key
BallotsHold ==
  \A v \in Voters :
    BallotPlace(v) \in DOMAIN blocks /\ blocks[BallotPlace(v)].hint = "Ballot" =>
      blocks[BallotPlace(v)].votes = voterFile[v].ballot

\* The tally of the ballots in their places; what is announced is that, and after
\* the first partial tally there are no more ballots.
BallotTally ==
  [c \in Candidates |->
     Cardinality({v \in Voters : /\ v \in Posted("Ballot")
                                 /\ blocks[BallotPlace(v)].votes # NoVote
                                 /\ Plain[blocks[BallotPlace(v)].votes][c] = 1})]
ResultHolds ==
  announced # NoResult => Posted("PartialTally") # {} /\ announced = BallotTally

VoterTypes ==
  /\ IsList
  /\ voterFile \in [Voters -> Draws \cup {NoDraw}]
  /\ voters \in [Voters -> Draws \cup {NoDraw}]

ChainHolds == Shape /\ VoterRounds /\ FilesHold /\ BallotsHold /\ ResultHolds

VInv == VoterTypes /\ SetupRounds /\ (SetupComplete => ChainHolds)

LEMMA SameBlocks ==
  ASSUME UNCHANGED blocks
  PROVE  /\ \A h : Posted(h)' = Posted(h)
         /\ SetupComplete' = SetupComplete /\ Shape' = Shape /\ IsList' = IsList
         /\ BallotTally' = BallotTally
<1>1. \A h : Posted(h)' = Posted(h)
  BY DEF Posted
<1>2. SetupComplete' = SetupComplete
  BY <1>1 DEF SetupComplete
<1>3. \A k : InPlace(k)' = InPlace(k)
  BY DEF InPlace
<1>4. Shape' = Shape /\ IsList' = IsList
  BY <1>3 DEF Shape, IsList
<1>5. BallotTally' = BallotTally
  BY <1>1 DEF BallotTally
<1> QED
  BY <1>1, <1>2, <1>4, <1>5

\* The ballot that counts is the one in its place.
LEMMA LastBallotOfShape ==
  ASSUME IsList, Shape, NEW v \in Voters
  PROVE  LastBallot[v] = IF v \in Posted("Ballot") THEN blocks[BallotPlace(v)].votes ELSE NoVote
<1>1. CASE v \in Posted("Ballot")
  <2>1. At("Ballot", v) = {BallotPlace(v)}
    BY <1>1, BallotIsInPlace
  <2>2. BallotPlace(v) <= BallotPlace(v)
    BY Counts DEF BallotPlace
  <2>3. (CHOOSE k \in At("Ballot", v) : \A n \in At("Ballot", v) : n <= k) = BallotPlace(v)
    BY <2>1, <2>2
  <2>4. LastBallot[v] = blocks[CHOOSE k \in At("Ballot", v) :
                                 \A n \in At("Ballot", v) : n <= k].votes
    BY <1>1, Zenon DEF LastBallot
  <2> QED
    BY <1>1, <2>3, <2>4, Zenon
<1>2. CASE v \notin Posted("Ballot")
  BY <1>2 DEF LastBallot
<1> QED
  BY <1>1, <1>2

\* What GetResult counts on a chain of this shape.
LEMMA ResultOfShape ==
  ASSUME IsList, Shape, Result # NoResult
  PROVE  Posted("PartialTally") # {} /\ Result = BallotTally
<1>1. Posted("PartialTally") # {}
  <2> SUFFICES ASSUME Posted("PartialTally") = {} PROVE FALSE
    OBVIOUS
  <2>1. Cardinality(Posted("PartialTally")) = 0
    BY FS_EmptySet
  <2>2. 0 < TrusteesRequired
    BY FlagsAssumption
  <2> QED
    BY <2>1, <2>2, FlagsAssumption DEF Result
<1>2. ASSUME NEW v \in Voters
      PROVE  LastBallot[v] = IF v \in Posted("Ballot") THEN blocks[BallotPlace(v)].votes ELSE NoVote
  BY LastBallotOfShape
<1>3. ASSUME NEW c
      PROVE  {v \in Voters : LastBallot[v] # NoVote /\ Plain[LastBallot[v]][c] = 1}
               = {v \in Voters : /\ v \in Posted("Ballot")
                                 /\ blocks[BallotPlace(v)].votes # NoVote
                                 /\ Plain[blocks[BallotPlace(v)].votes][c] = 1}
  BY <1>2
<1>4. Result = [c \in Candidates |->
          Cardinality({v \in Voters : LastBallot[v] # NoVote /\ Plain[LastBallot[v]][c] = 1})]
  BY DEF Result
<1> QED
  BY <1>1, <1>3, <1>4 DEF BallotTally

-----------------------------------------------------------------------------
LEMMA NobodyIsTyped == Nobody \in [Voters -> Draws \cup {NoDraw}]
  BY DEF Nobody

\* A command that ends leaves the directory as it is.
LEMMA EndKeepsVInv ==
  ASSUME VInv, NEW how, End(how), UNCHANGED <<blocks, voterFile>>,
         announced' \in {announced, Result}
  PROVE  VInv'
<1>1. pc' = "idle" /\ voters' = Nobody
  BY DEF End, Goto
<1>2. VoterTypes'
  BY <1>1, NobodyIsTyped, SameBlocks DEF VInv, VoterTypes
<1>3. SetupRounds'
  BY <1>1 DEF SetupRounds, SetupLabels
<1>4. ASSUME SetupComplete' PROVE ChainHolds'
  <2>1. ChainHolds /\ IsList
    BY <1>4, SameBlocks DEF VInv, VoterTypes
  <2>2. Shape' /\ VoterRounds'
    BY <1>1, <2>1, SameBlocks DEF ChainHolds, VoterRounds, VoterLabels
  <2>3. FilesHold' /\ BallotsHold'
    BY <2>1 DEF ChainHolds, FilesHold, BallotsHold, RegPlace, BallotPlace
  <2>4. ResultHolds'
    BY <2>1, SameBlocks, ResultOfShape DEF ChainHolds, ResultHolds
  <2> QED
    BY <2>2, <2>3, <2>4 DEF ChainHolds
<1> QED
  BY <1>2, <1>3, <1>4 DEF VInv

\* So does one that begins.
LEMMA StartKeepsVInv ==
  ASSUME VInv, UNCHANGED <<blocks, voterFile, announced>>, pc' \notin SetupLabels,
         voters' \in [Voters -> Draws \cup {NoDraw}],
         SetupComplete => VoterRounds'
  PROVE  VInv'
<1>1. VoterTypes'
  BY SameBlocks DEF VInv, VoterTypes
<1>2. SetupRounds'
  BY DEF SetupRounds, SetupLabels
<1>3. ASSUME SetupComplete' PROVE ChainHolds'
  <2>1. ChainHolds /\ SetupComplete
    BY <1>3, SameBlocks DEF VInv
  <2>2. FilesHold' /\ BallotsHold'
    BY <2>1 DEF ChainHolds, FilesHold, BallotsHold, RegPlace, BallotPlace
  <2> QED
    BY <2>1, <2>2, SameBlocks DEF ChainHolds, ResultHolds
<1> QED
  BY <1>1, <1>2, <1>3 DEF VInv

-----------------------------------------------------------------------------
LEMMA InitVInv == Init => VInv
<1> SUFFICES ASSUME Init PROVE VInv
  OBVIOUS
<1>1. blocks = <<>> /\ pc = "idle" /\ voterFile = Nobody /\ voters = Nobody
  BY DEF Init
<1>2. Posted("TrusteePublic") = {}
  BY <1>1 DEF Posted
<1>3. ~SetupComplete
  BY <1>2, Counts DEF SetupComplete
<1>4. IsList
  BY <1>1 DEF IsList
<1> QED
  BY <1>1, <1>3, <1>4, NobodyIsTyped DEF VInv, VoterTypes, SetupRounds, SetupLabels

LEMMA StartAuthorityKeepsVInv == ASSUME VInv, StartAuthority PROVE VInv'
<1>1. /\ blocks' = <<>> /\ pc' = "genesis" /\ voterFile' = Nobody /\ voters' = voters
      /\ announced' = NoResult
  BY DEF StartAuthority, Goto
<1>2. Posted("TrusteePublic")' = {}
  BY <1>1 DEF Posted
<1>3. ~SetupComplete'
  BY <1>2, Counts DEF SetupComplete
<1>4. IsList'
  BY <1>1 DEF IsList
<1>5. SetupRounds'
  BY <1>1, <1>2 DEF SetupRounds
<1> QED
  BY <1>1, <1>3, <1>4, <1>5, NobodyIsTyped DEF VInv, VoterTypes

LEMMA CreateGenesisKeepsVInv == ASSUME VInv, CreateGenesis PROVE VInv'
<1> DEFINE blk == Blk("ElectionSetup", 0, GenesisStamp)
<1>1. /\ blocks' = <<blk>> /\ pc = "genesis" /\ pc' = "shares" /\ index' = 1
      /\ UNCHANGED <<voterFile, voters, announced>>
  BY DEF CreateGenesis, Goto
<1>2. blk.hint = "ElectionSetup"
  BY DEF Blk
<1> HIDE DEF blk
<1>3. DOMAIN blocks' = {1} /\ blocks'[1] = blk /\ Len(blocks') = 1
  BY <1>1
<1>4. Posted("TrusteePublic")' = {}
  BY <1>2, <1>3 DEF Posted
<1>5. ~SetupComplete'
  BY <1>4, Counts DEF SetupComplete
<1>6. IsList'
  <2>1. blk \in Range(blocks')
    BY <1>3 DEF Range
  <2>2. blocks' \in Seq(Range(blocks'))
    BY <1>1, <2>1
  <2> QED
    BY <2>2 DEF IsList, Range
<1>7. SetupRounds'
  BY <1>1, <1>2, <1>3, <1>4, Counts DEF SetupRounds, SetupLabels, VInv, SetupHints
<1> QED
  BY <1>1, <1>5, <1>6, <1>7 DEF VInv, VoterTypes

\* The rounds of the authority's blocks, if they are not refused.
LEMMA PostSharesKeepsVInv == ASSUME VInv, PostShares PROVE VInv'
<1> DEFINE blk == Blk("TrusteeShares", index, SharesStamp(index))
<1>1. CASE MintFails(blk)
  BY <1>1, EndKeepsVInv DEF PostShares, MintFails
<1>2. CASE ~MintFails(blk)
  <2>1. /\ blocks' = Append(blocks, blk) /\ pc = "shares"
        /\ IF index < NumTrustees THEN Goto("shares", index + 1) ELSE Goto("saveShard", 1)
        /\ UNCHANGED <<voterFile, voters, announced>>
    BY <1>2 DEF PostShares, MintAdds
  <2>2. blk.hint = "TrusteeShares"
    BY DEF Blk
  <2> HIDE DEF blk
  <2>3. /\ index \in Trustees /\ Len(blocks) = index /\ Posted("TrusteePublic") = {}
        /\ announced = NoResult /\ \A k \in DOMAIN blocks : blocks[k].hint \in SetupHints
    BY <2>1 DEF VInv, SetupRounds, SetupLabels
  <2>4. /\ IsList' /\ Len(blocks') = index + 1 /\ DOMAIN blocks' = 1 .. index + 1
        /\ DOMAIN blocks = 1 .. index
        /\ \A k \in DOMAIN blocks : blocks'[k] = blocks[k]
        /\ blocks'[index + 1] = blk
    BY <2>1, <2>3, ListAppend DEF VInv, VoterTypes
  <2>5. Posted("TrusteePublic")' = {}
    BY <2>1, <2>2, <2>3, ListAppend DEF VInv, VoterTypes
  <2>6. \A k \in DOMAIN blocks' : blocks'[k].hint \in SetupHints
    BY <2>2, <2>3, <2>4, Counts DEF SetupHints
  <2>7. SetupRounds'
    <3>1. CASE index < NumTrustees
      BY <2>1, <2>3, <2>4, <2>5, <2>6, <3>1, Counts DEF SetupRounds, Goto
    <3>2. CASE ~(index < NumTrustees)
      <4>1. index = NumTrustees /\ 1 .. 1 - 1 = {} /\ 1 \in Trustees
        BY <2>3, <3>2, Counts
      <4> QED
        BY <2>1, <2>3, <2>4, <2>5, <2>6, <3>2, <4>1 DEF SetupRounds, Goto
    <3> QED
      BY <3>1, <3>2
  <2>8. ~SetupComplete'
    BY <2>5, Counts DEF SetupComplete
  <2> QED
    BY <2>1, <2>4, <2>7, <2>8 DEF VInv, VoterTypes
<1> QED
  BY <1>1, <1>2

LEMMA SaveShardKeepsVInv == ASSUME VInv, SaveShard PROVE VInv'
<1>1. /\ pc = "saveShard" /\ pc' = "public"
      /\ UNCHANGED <<index, blocks, voterFile, voters, announced>>
  BY DEF SaveShard, Goto
<1>2. /\ index \in Trustees /\ Posted("TrusteePublic") = 1 .. index - 1
  BY <1>1 DEF VInv, SetupRounds
<1>3. ~SetupComplete
  <2>1. NumTrustees \in Trustees /\ NumTrustees \notin 1 .. index - 1
    BY <1>2, Counts
  <2> QED
    BY <1>2, <2>1 DEF SetupComplete
<1>4. SetupRounds'
  BY <1>1, SameBlocks DEF VInv, SetupRounds, SetupLabels
<1> QED
  BY <1>1, <1>3, <1>4, SameBlocks DEF VInv, VoterTypes

LEMMA PostPublicKeepsVInv == ASSUME VInv, PostPublic PROVE VInv'
<1> DEFINE blk == Blk("TrusteePublic", index, PublicStamp(index))
<1>1. CASE MintFails(blk)
  BY <1>1, EndKeepsVInv DEF PostPublic, MintFails
<1>2. CASE ~MintFails(blk)
  <2>1. /\ blocks' = Append(blocks, blk) /\ pc = "public"
        /\ IF index < NumTrustees
           THEN Goto("saveShard", index + 1) /\ UNCHANGED <<voters, measured, ended>>
           ELSE End("done")
        /\ UNCHANGED <<voterFile, announced>>
    BY <1>2 DEF PostPublic, MintAdds
  <2>2. blk.hint = "TrusteePublic" /\ blk.who = index
    BY DEF Blk
  <2> HIDE DEF blk
  <2>3. /\ index \in Trustees /\ Len(blocks) = NumTrustees + index
        /\ Posted("TrusteePublic") = 1 .. index - 1
        /\ announced = NoResult /\ \A k \in DOMAIN blocks : blocks[k].hint \in SetupHints
    BY <2>1 DEF VInv, SetupRounds, SetupLabels
  <2> DEFINE n == NumTrustees + index
  <2>4. /\ IsList' /\ Len(blocks') = n + 1 /\ DOMAIN blocks' = 1 .. n + 1
        /\ DOMAIN blocks = 1 .. n
        /\ \A k \in DOMAIN blocks : blocks'[k] = blocks[k]
        /\ blocks'[n + 1] = blk
    BY <2>1, <2>3, ListAppend DEF VInv, VoterTypes
  <2>5. Posted("TrusteePublic")' = 1 .. index
    <3>1. Posted("TrusteePublic")' = (1 .. index - 1) \cup {index}
      BY <2>1, <2>2, <2>3, ListAppend DEF VInv, VoterTypes
    <3>2. (1 .. index - 1) \cup {index} = 1 .. index
      BY <2>3, Counts
    <3> QED
      BY <3>1, <3>2
  <2>6. \A k \in DOMAIN blocks' : blocks'[k].hint \in SetupHints
    BY <2>2, <2>3, <2>4, Counts DEF SetupHints
  <2>7. CASE index < NumTrustees
    <3>1. SetupRounds'
      <4>1. /\ pc' = "saveShard" /\ index' = index + 1 /\ index' \in Trustees
            /\ Len(blocks') = NumTrustees + index' /\ 1 .. index = 1 .. index' - 1
        BY <2>1, <2>3, <2>4, <2>7, Counts DEF Goto
      <4> QED
        BY <2>1, <2>3, <2>5, <2>6, <4>1 DEF SetupRounds
    <3>2. ~SetupComplete'
      <4>1. NumTrustees \in Trustees /\ NumTrustees \notin 1 .. index
        BY <2>3, <2>7, Counts
      <4> QED
        BY <2>5, <4>1 DEF SetupComplete
    <3> QED
      BY <2>1, <2>4, <2>7, <3>1, <3>2 DEF VInv, VoterTypes
  <2>8. CASE ~(index < NumTrustees)
    <3>1. pc' = "idle" /\ voters' = Nobody /\ index = NumTrustees /\ n + 1 = setupBlocks
      BY <2>1, <2>3, <2>8, Counts DEF End, Goto
    <3>2. Shape'
      <4>1. /\ Len(blocks') = setupBlocks /\ DOMAIN blocks' = 1 .. setupBlocks
            /\ blocks'[setupBlocks].hint = "TrusteePublic"
        BY <2>2, <2>4, <3>1
      <4>2. \A k \in DOMAIN blocks' : ~(k > setupBlocks) /\ blocks'[k].hint # "PartialTally"
        BY <2>6, <4>1, Counts DEF SetupHints
      <4>3. Len(blocks') >= setupBlocks
        BY <4>1, Counts
      <4> QED
        BY <2>6, <4>1, <4>2, <4>3 DEF Shape
    <3>3. FilesHold' /\ BallotsHold'
      <4>1. \A v \in Voters : RegPlace(v) \notin DOMAIN blocks' /\ BallotPlace(v) \notin DOMAIN blocks'
        <5>1. DOMAIN blocks' = 1 .. setupBlocks
          BY <2>4, <3>1
        <5> QED
          BY <5>1, Counts DEF RegPlace, BallotPlace
      <4> QED
        BY <4>1 DEF FilesHold, BallotsHold
    <3>4. VoterRounds' /\ ResultHolds' /\ SetupRounds'
      BY <2>1, <2>3, <3>1 DEF VoterRounds, VoterLabels, ResultHolds, SetupRounds, SetupLabels
    <3> QED
      BY <2>1, <2>4, <3>1, <3>2, <3>3, <3>4, NobodyIsTyped DEF VInv, VoterTypes, ChainHolds
  <2> QED
    BY <2>7, <2>8
<1> QED
  BY <1>1, <1>2

-----------------------------------------------------------------------------
\* voter simulate goes on where the chain ends.
LEMMA OpenVoterKeepsVInv == ASSUME VInv, OpenVoter PROVE VInv'
<1> DEFINE n     == Len(blocks) - setupBlocks
           files == Loaded(Resume.loop, Resume.from)
<1>1. UNCHANGED <<blocks, voterFile, announced>>
  BY DEF OpenVoter, dirVars
<1>2. CASE \E how : End(how)
  BY <1>1, <1>2, EndKeepsVInv
<1>3. CASE ~\E how : End(how)
  <2>1. /\ Resume.loop \in {"registration", "casting"}
        /\ \A v \in files : voterFile[v] # NoDraw
        /\ voters' = [v \in Voters |-> IF v \in files THEN voterFile[v] ELSE NoDraw]
        /\ IF Resume.loop = "registration"
           THEN NextToRegister(Skipped(Resume.from))
           ELSE NextToCast(Skipped(Resume.from))
    BY <1>3 DEF OpenVoter
  <2>2. voters' \in [Voters -> Draws \cup {NoDraw}]
    BY <2>1 DEF VInv, VoterTypes
  <2>3. pc' \notin SetupLabels
    BY <2>1 DEF NextToRegister, NextToCast, Goto, SetupLabels
  <2>4. ASSUME SetupComplete PROVE VoterRounds'
    <3>1. IsList /\ Shape /\ Len(blocks) \in Nat /\ blocks' = blocks
      BY <1>1, <2>4 DEF VInv, ChainHolds, VoterTypes, IsList
    <3>2. CASE n \in 0 .. NumVoters /\ Resume = [loop |-> "registration", from |-> n]
      <4>1. /\ Resume.loop = "registration" /\ Resume.from = n
            /\ Skipped(n) = n /\ n \in Nat /\ n <= NumVoters
            /\ Len(blocks) = setupBlocks + n
        <5>1. Len(blocks) = setupBlocks + n
          BY <3>1, Counts
        <5> HIDE DEF n
        <5>2. n \in Nat /\ n <= NumVoters
          BY <3>2, Counts
        <5>3. ~(n < 0)
          BY <5>2
        <5>4. Skipped(n) = n
          BY <5>3 DEF Skipped
        <5>5. Resume.loop = "registration" /\ Resume.from = n
          BY <3>2
        <5> QED
          BY <5>1, <5>2, <5>4, <5>5
      <4> HIDE DEF n
      <4>2. files = {v \in Voters : v <= n} /\ NextToRegister(n)
        BY <2>1, <4>1 DEF Loaded
      <4>3. Posted("PartialTally")' = {}
        BY <3>1, <4>1, NoPartialBefore, SameBlocks, Counts
      <4>4. CASE n < NumVoters
        <5>1. pc' = "draw" /\ index' = n + 1
          BY <4>2, <4>4 DEF NextToRegister, Goto
        <5>2. index' \in Voters /\ Len(blocks') = setupBlocks + index' - 1
          BY <3>1, <4>1, <4>4, <5>1, Counts
        <5>3. \A v \in 1 .. index' - 1 : voters'[v] = voterFile'[v]
          <6>1. \A v \in 1 .. index' - 1 : v \in Voters /\ v \in files
            BY <4>1, <4>2, <4>4, <5>1, Counts
          <6> QED
            BY <1>1, <2>1, <6>1
        <5> QED
          BY <4>3, <5>1, <5>2, <5>3 DEF VoterRounds
      <4>5. CASE ~(n < NumVoters)
        <5>1. pc' = "cast" /\ index' = 1 /\ n = NumVoters
          BY <4>1, <4>2, <4>5, Counts DEF NextToRegister, Goto
        <5>2. files = Voters
          BY <4>2, <5>1, Counts
        <5>3. voters' = voterFile'
          BY <1>1, <2>1, <5>2 DEF VInv, VoterTypes
        <5>4. index' \in Voters /\ Len(blocks') = setupBlocks + NumVoters + index' - 1
          BY <3>1, <4>1, <5>1, Counts
        <5> QED
          BY <4>3, <5>1, <5>3, <5>4 DEF VoterRounds
      <4> QED
        BY <4>4, <4>5
    <3>3. CASE /\ n - NumVoters \in 1 .. NumVoters /\ blocks[Len(blocks)].hint = "Ballot"
               /\ Resume = [loop |-> "casting", from |-> n - NumVoters]
      <4> DEFINE m == n - NumVoters
      <4>1. /\ Resume.loop = "casting" /\ Resume.from = m
            /\ Skipped(m) = m /\ m \in 1 .. NumVoters
            /\ Len(blocks) = setupBlocks + NumVoters + m
        <5>1. Len(blocks) = setupBlocks + NumVoters + m
          BY <3>1, Counts
        <5>2. m \in 1 .. NumVoters /\ Resume = [loop |-> "casting", from |-> m]
          BY <3>3
        <5> HIDE DEF m
        <5>3. ~(m < 0)
          BY <5>2, Counts
        <5>4. Skipped(m) = m
          BY <5>3 DEF Skipped
        <5>5. Resume.loop = "casting" /\ Resume.from = m
          BY <5>2
        <5> QED
          BY <5>1, <5>2, <5>4, <5>5
      <4> HIDE DEF n, m
      <4>2. files = Voters /\ NextToCast(m)
        BY <2>1, <4>1 DEF Loaded
      <4>3. voters' = voterFile'
        BY <1>1, <2>1, <4>2 DEF VInv, VoterTypes
      <4>4. Posted("PartialTally")' = {}
        BY <3>1, <3>3, NoPartialBefore, SameBlocks
      <4>5. CASE m < NumVoters
        <5>1. pc' = "cast" /\ index' = m + 1
          BY <4>2, <4>5 DEF NextToCast, Goto
        <5>2. index' \in Voters /\ Len(blocks') = setupBlocks + NumVoters + index' - 1
          BY <3>1, <4>1, <4>5, <5>1, Counts
        <5> QED
          BY <4>3, <4>4, <5>1, <5>2 DEF VoterRounds
      <4>6. CASE ~(m < NumVoters)
        <5>1. pc' = "finish" /\ m = NumVoters
          BY <4>1, <4>2, <4>6, Counts DEF NextToCast, Goto
        <5>2. Len(blocks') = setupBlocks + 2 * NumVoters
          BY <3>1, <4>1, <5>1, Counts
        <5> QED
          BY <4>4, <5>1, <5>2 DEF VoterRounds
      <4> QED
        BY <4>5, <4>6
    <3>4. Resume # [loop |-> "panic", from |-> 0]
      BY <2>1
    <3> QED
      BY <3>1, <3>2, <3>3, <3>4, ResumeGoesOn
  <2> QED
    BY <1>1, <2>2, <2>3, <2>4, StartKeepsVInv
<1> QED
  BY <1>2, <1>3

\* The file emptied is of a voter that is not registered yet.
LEMMA DrawVoterKeepsVInv == ASSUME VInv, DrawVoter PROVE VInv'
<1>1. PICK d \in Draws : voters' = [voters EXCEPT ![index] = d]
  BY DEF DrawVoter, FreshKeys, Draws
<1>2. /\ voterFile' = [voterFile EXCEPT ![index] = NoDraw]
      /\ pc = "draw" /\ pc' = "write" /\ UNCHANGED <<blocks, announced, index>>
  BY DEF DrawVoter, Goto
<1>3. VoterTypes'
  BY <1>1, <1>2, SameBlocks DEF VInv, VoterTypes
<1>4. SetupRounds'
  BY <1>2 DEF SetupRounds, SetupLabels
<1>5. ASSUME SetupComplete' PROVE ChainHolds'
  <2>1. ChainHolds /\ IsList
    BY <1>2, <1>5, SameBlocks DEF VInv, VoterTypes
  <2>2. /\ index \in Voters
        /\ Len(blocks) = setupBlocks + index - 1 /\ DOMAIN blocks = 1 .. Len(blocks)
        /\ \A v \in 1 .. index - 1 : voters[v] = voterFile[v]
        /\ Posted("PartialTally") = {}
    BY <1>2, <2>1 DEF ChainHolds, VoterRounds, VoterLabels, IsList
  <2>3. voters'[index] # NoDraw
    BY <1>1, <2>2, DrawAssumption DEF VInv, VoterTypes, Draws
  <2>4. \A v \in 1 .. index - 1 : voters'[v] = voterFile'[v]
    <3>1. \A v \in 1 .. index - 1 : v \in Voters /\ v # index
      BY <2>2, Counts
    <3> QED
      BY <1>1, <1>2, <2>2, <3>1 DEF VInv, VoterTypes
  <2>5. VoterRounds'
    BY <1>2, <2>2, <2>3, <2>4, SameBlocks DEF VoterRounds, VoterLabels
  <2>6. /\ \A v \in Voters : RegPlace(v) \in DOMAIN blocks => v # index
        /\ \A v \in Voters : BallotPlace(v) \notin DOMAIN blocks
    BY <2>2, Counts DEF RegPlace, BallotPlace
  <2>7. FilesHold' /\ BallotsHold'
    <3>1. \A v \in Voters : v # index => voterFile'[v] = voterFile[v]
      BY <1>2 DEF VInv, VoterTypes
    <3> QED
      BY <1>2, <2>1, <2>6, <3>1 DEF ChainHolds, FilesHold, BallotsHold
  <2>8. ResultHolds'
    BY <1>2, <2>1, SameBlocks DEF ChainHolds, ResultHolds
  <2> QED
    BY <1>2, <2>1, <2>5, <2>7, <2>8, SameBlocks DEF ChainHolds
<1> QED
  BY <1>3, <1>4, <1>5 DEF VInv

LEMMA WriteVoterKeepsVInv == ASSUME VInv, WriteVoter PROVE VInv'
<1>1. /\ voterFile' = [voterFile EXCEPT ![index] = voters[index]] /\ voters' = voters
      /\ pc = "write" /\ pc' = "register" /\ UNCHANGED <<blocks, announced, index>>
  BY DEF WriteVoter, Goto
<1>2. VoterTypes'
  BY <1>1, SameBlocks DEF VInv, VoterTypes
<1>3. SetupRounds'
  BY <1>1 DEF SetupRounds, SetupLabels
<1>4. ASSUME SetupComplete' PROVE ChainHolds'
  <2>1. ChainHolds /\ IsList
    BY <1>1, <1>4, SameBlocks DEF VInv, VoterTypes
  <2>2. /\ index \in Voters
        /\ Len(blocks) = setupBlocks + index - 1 /\ DOMAIN blocks = 1 .. Len(blocks)
        /\ \A v \in 1 .. index - 1 : voters[v] = voterFile[v]
        /\ Posted("PartialTally") = {} /\ voters[index] # NoDraw
    BY <1>1, <2>1 DEF ChainHolds, VoterRounds, VoterLabels, IsList
  <2>3. voterFile'[index] = voters[index] /\ \A v \in Voters : v # index => voterFile'[v] = voterFile[v]
    BY <1>1, <2>2 DEF VInv, VoterTypes
  <2>4. \A v \in 1 .. index - 1 : voters'[v] = voterFile'[v]
    <3>1. \A v \in 1 .. index - 1 : v \in Voters /\ v # index
      BY <2>2, Counts
    <3> QED
      BY <1>1, <2>2, <2>3, <3>1
  <2>5. VoterRounds'
    BY <1>1, <2>2, <2>3, <2>4, SameBlocks DEF VoterRounds, VoterLabels
  <2>6. /\ \A v \in Voters : RegPlace(v) \in DOMAIN blocks => v # index
        /\ \A v \in Voters : BallotPlace(v) \notin DOMAIN blocks
    BY <2>2, Counts DEF RegPlace, BallotPlace
  <2>7. FilesHold' /\ BallotsHold'
    BY <1>1, <2>1, <2>3, <2>6 DEF ChainHolds, FilesHold, BallotsHold
  <2>8. ResultHolds'
    BY <1>1, <2>1, SameBlocks DEF ChainHolds, ResultHolds
  <2> QED
    BY <1>1, <2>1, <2>5, <2>7, <2>8, SameBlocks DEF ChainHolds
<1> QED
  BY <1>2, <1>3, <1>4 DEF VInv

\* The voter registered is the one whose turn it is, with the key in its file.
LEMMA RegisterVoterKeepsVInv == ASSUME VInv, RegisterVoter PROVE VInv'
<1> DEFINE blk == RegBlk(index, voters[index])
<1>1. CASE MintFails(blk)
  BY <1>1, EndKeepsVInv DEF RegisterVoter, MintFails
<1>2. CASE ~MintFails(blk)
  <2>1. /\ blocks' = Append(blocks, blk) /\ pc = "register" /\ NextToRegister(index)
        /\ UNCHANGED <<voterFile, voters, announced>>
    BY <1>2 DEF RegisterVoter, MintAdds
  <2>2. blk.hint = "VoterReg" /\ blk.who = index /\ blk.key = voters[index].key
    BY DEF RegBlk, Blk
  <2> HIDE DEF blk
  <2>3. pc' \in {"draw", "cast"}
    BY <2>1 DEF NextToRegister, Goto
  <2>4. SetupComplete' = SetupComplete
    BY <2>1, <2>2, ListAppend DEF VInv, VoterTypes, SetupComplete
  <2>5. SetupRounds' /\ VoterTypes'
    BY <2>1, <2>3, ListAppend DEF SetupRounds, SetupLabels, VInv, VoterTypes
  <2>6. ASSUME SetupComplete PROVE ChainHolds'
    <3> DEFINE n == Len(blocks)
    <3>1. IsList /\ ChainHolds
      BY <2>6 DEF VInv, VoterTypes
    <3>2. /\ index \in Voters /\ n = setupBlocks + index - 1
          /\ \A v \in 1 .. index - 1 : voters[v] = voterFile[v]
          /\ voters[index] # NoDraw /\ voterFile[index] = voters[index]
          /\ Posted("PartialTally") = {}
      BY <2>1, <3>1 DEF ChainHolds, VoterRounds, VoterLabels
    <3>3. /\ n \in Nat /\ DOMAIN blocks = 1 .. n
          /\ Len(blocks') = n + 1 /\ DOMAIN blocks' = 1 .. n + 1
          /\ \A k \in DOMAIN blocks : blocks'[k] = blocks[k]
          /\ blocks'[n + 1] = blk
      BY <2>1, <3>1, ListAppend
    <3>4. n + 1 = RegPlace(index)
      BY <3>2, Counts DEF RegPlace
    <3>5. Shape'
      BY <2>1, <2>2, <3>1, <3>2, <3>4, ShapeGrows DEF ChainHolds
    <3>6. /\ Posted("PartialTally")' = {} /\ announced = NoResult
      BY <2>1, <2>2, <3>1, <3>2, ListAppend DEF ChainHolds, ResultHolds
    <3> HIDE DEF n
    <3>7. VoterRounds'
      <4>1. CASE index < NumVoters
        <5>1. pc' = "draw" /\ index' = index + 1
          BY <2>1, <4>1 DEF NextToRegister, Goto
        <5>2. index' \in Voters /\ Len(blocks') = setupBlocks + index' - 1
          BY <3>2, <3>3, <4>1, <5>1, Counts
        <5>3. \A v \in 1 .. index' - 1 : v \in 1 .. index - 1 \/ v = index
          BY <3>2, <5>1, Counts
        <5> QED
          BY <2>1, <3>2, <3>6, <5>1, <5>2, <5>3 DEF VoterRounds
      <4>2. CASE ~(index < NumVoters)
        <5>1. pc' = "cast" /\ index' = 1 /\ index = NumVoters
          BY <2>1, <3>2, <4>2, Counts DEF NextToRegister, Goto
        <5>2. index' \in Voters /\ Len(blocks') = setupBlocks + NumVoters + index' - 1
          BY <3>2, <3>3, <5>1, Counts
        <5>3. \A v \in Voters : voters[v] = voterFile[v]
          <6>1. \A v \in Voters : v \in 1 .. index - 1 \/ v = index
            BY <5>1, Counts
          <6> QED
            BY <3>2, <6>1
        <5>4. voters' = voterFile'
          BY <2>1, <5>3 DEF VInv, VoterTypes
        <5> QED
          BY <3>6, <5>1, <5>2, <5>4 DEF VoterRounds
      <4> QED
        BY <4>1, <4>2
    <3>8. FilesHold'
      <4> SUFFICES ASSUME NEW v \in Voters, RegPlace(v) \in DOMAIN blocks'
                   PROVE  voterFile[v] # NoDraw /\ blocks'[RegPlace(v)].key = voterFile[v].key
        BY <2>1 DEF FilesHold, RegPlace
      <4>1. CASE RegPlace(v) \in DOMAIN blocks
        BY <3>1, <3>3, <4>1 DEF ChainHolds, FilesHold
      <4>2. CASE RegPlace(v) \notin DOMAIN blocks
        <5>1. v = index /\ RegPlace(v) = n + 1
          <6>1. RegPlace(v) = n + 1
            BY <3>3, <4>2
          <6> QED
            BY <3>4, <6>1, <3>2, Counts DEF RegPlace
        <5> QED
          BY <2>2, <3>2, <3>3, <5>1
      <4> QED
        BY <4>1, <4>2
    <3>9. BallotsHold'
      <4>1. \A v \in Voters : BallotPlace(v) \notin DOMAIN blocks'
        BY <3>2, <3>3, Counts DEF BallotPlace
      <4> QED
        BY <4>1 DEF BallotsHold, BallotPlace
    <3> QED
      BY <2>1, <3>5, <3>6, <3>7, <3>8, <3>9 DEF ChainHolds, ResultHolds
  <2> QED
    BY <2>4, <2>5, <2>6 DEF VInv
<1> QED
  BY <1>1, <1>2

\* The ballot cast is that of the voter whose turn it is, as its file has it.
LEMMA CastVoteKeepsVInv == ASSUME VInv, CastVote PROVE VInv'
<1> DEFINE blk == BallotBlk(index, voters[index])
<1>1. CASE MintFails(blk)
  BY <1>1, EndKeepsVInv DEF CastVote, MintFails
<1>2. CASE ~MintFails(blk)
  <2>1. /\ blocks' = Append(blocks, blk) /\ pc = "cast" /\ NextToCast(index)
        /\ UNCHANGED <<voterFile, voters, announced>>
    BY <1>2 DEF CastVote, MintAdds
  <2>2. blk.hint = "Ballot" /\ blk.who = index /\ blk.votes = voters[index].ballot
    BY DEF BallotBlk, Blk
  <2> HIDE DEF blk
  <2>3. pc' \in {"cast", "finish"}
    BY <2>1 DEF NextToCast, Goto
  <2>4. SetupComplete' = SetupComplete
    BY <2>1, <2>2, ListAppend DEF VInv, VoterTypes, SetupComplete
  <2>5. SetupRounds' /\ VoterTypes'
    BY <2>1, <2>3, ListAppend DEF SetupRounds, SetupLabels, VInv, VoterTypes
  <2>6. ASSUME SetupComplete PROVE ChainHolds'
    <3> DEFINE n == Len(blocks)
    <3>1. IsList /\ ChainHolds
      BY <2>6 DEF VInv, VoterTypes
    <3>2. /\ index \in Voters /\ n = setupBlocks + NumVoters + index - 1
          /\ voters = voterFile /\ Posted("PartialTally") = {}
      BY <2>1, <3>1 DEF ChainHolds, VoterRounds, VoterLabels
    <3>3. /\ n \in Nat /\ DOMAIN blocks = 1 .. n
          /\ Len(blocks') = n + 1 /\ DOMAIN blocks' = 1 .. n + 1
          /\ \A k \in DOMAIN blocks : blocks'[k] = blocks[k]
          /\ blocks'[n + 1] = blk
      BY <2>1, <3>1, ListAppend
    <3>4. n + 1 = BallotPlace(index)
      BY <3>2, Counts DEF BallotPlace
    <3>5. Shape'
      BY <2>1, <2>2, <3>1, <3>2, <3>4, ShapeGrows DEF ChainHolds
    <3>6. /\ Posted("PartialTally")' = {} /\ announced = NoResult
      BY <2>1, <2>2, <3>1, <3>2, ListAppend DEF ChainHolds, ResultHolds
    <3> HIDE DEF n
    <3>7. VoterRounds'
      <4>1. CASE index < NumVoters
        <5>1. pc' = "cast" /\ index' = index + 1
          BY <2>1, <4>1 DEF NextToCast, Goto
        <5>2. index' \in Voters /\ Len(blocks') = setupBlocks + NumVoters + index' - 1
          BY <3>2, <3>3, <4>1, <5>1, Counts
        <5> QED
          BY <2>1, <3>2, <3>6, <5>1, <5>2 DEF VoterRounds
      <4>2. CASE ~(index < NumVoters)
        <5>1. pc' = "finish" /\ index = NumVoters
          BY <2>1, <3>2, <4>2, Counts DEF NextToCast, Goto
        <5>2. Len(blocks') = setupBlocks + 2 * NumVoters
          BY <3>2, <3>3, <5>1, Counts
        <5> QED
          BY <3>6, <5>1, <5>2 DEF VoterRounds
      <4> QED
        BY <4>1, <4>2
    <3>8. FilesHold'
      <4>1. \A v \in Voters : RegPlace(v) \in DOMAIN blocks /\ blocks'[RegPlace(v)] = blocks[RegPlace(v)]
        <5>1. \A v \in Voters : RegPlace(v) \in DOMAIN blocks
          BY <3>2, <3>3, Counts DEF RegPlace
        <5> QED
          BY <3>3, <5>1
      <4> QED
        BY <2>1, <3>1, <4>1 DEF ChainHolds, FilesHold, RegPlace
    <3>9. BallotsHold'
      <4> SUFFICES ASSUME NEW v \in Voters, BallotPlace(v) \in DOMAIN blocks',
                          blocks'[BallotPlace(v)].hint = "Ballot"
                   PROVE  blocks'[BallotPlace(v)].votes = voterFile[v].ballot
        BY <2>1 DEF BallotsHold, BallotPlace
      <4>1. CASE BallotPlace(v) \in DOMAIN blocks
        BY <3>1, <3>3, <4>1 DEF ChainHolds, BallotsHold
      <4>2. CASE BallotPlace(v) \notin DOMAIN blocks
        <5>1. v = index /\ BallotPlace(v) = n + 1
          <6>1. BallotPlace(v) = n + 1
            BY <3>3, <4>2
          <6> QED
            BY <3>4, <6>1, <3>2, Counts DEF BallotPlace
        <5> QED
          BY <2>2, <3>2, <3>3, <5>1
      <4> QED
        BY <4>1, <4>2
    <3> QED
      BY <2>1, <3>5, <3>6, <3>7, <3>8, <3>9 DEF ChainHolds, ResultHolds
  <2> QED
    BY <2>4, <2>5, <2>6 DEF VInv
<1> QED
  BY <1>1, <1>2

LEMMA FinishVotingKeepsVInv == ASSUME VInv, FinishVoting PROVE VInv'
<1>1. UNCHANGED <<blocks, voterFile, announced>> /\ \E how : End(how)
  BY DEF FinishVoting, dirVars
<1> QED
  BY <1>1, EndKeepsVInv

-----------------------------------------------------------------------------
\* trustee simulate begins behind a ballot,
LEMMA OpenTrusteeKeepsVInv == ASSUME VInv, OpenTrustee PROVE VInv'
<1>1. UNCHANGED <<blocks, voterFile, announced>>
  BY DEF OpenTrustee, dirVars
<1>2. CASE \E how : End(how)
  BY <1>1, <1>2, EndKeepsVInv
<1>3. CASE ~\E how : End(how)
  <2>1. /\ pc' = "partial" /\ voters' = voters /\ Posted("Ballot") # {}
    BY <1>3 DEF OpenTrustee, Goto
  <2>2. VoterRounds'
    BY <1>1, <2>1, SameBlocks DEF VoterRounds, VoterLabels
  <2> QED
    BY <1>1, <2>1, <2>2, StartKeepsVInv DEF VInv, VoterTypes, SetupLabels
<1> QED
  BY <1>2, <1>3

\* and adds to the chain nothing that changes the tally.
LEMMA PostPartialKeepsVInv == ASSUME VInv, PostPartial PROVE VInv'
<1> DEFINE blk == Blk("PartialTally", index, PartialStamp(index))
<1>1. CASE MintFails(blk)
  BY <1>1, EndKeepsVInv DEF PostPartial, MintFails
<1>2. CASE ~MintFails(blk)
  <2>1. /\ blocks' = Append(blocks, blk) /\ pc = "partial" /\ pc' \in {"partial", "print"}
        /\ UNCHANGED <<voterFile, voters, announced>>
    BY <1>2 DEF PostPartial, MintAdds, Goto
  <2>2. blk.hint = "PartialTally" /\ blk.who = index
    BY DEF Blk
  <2> HIDE DEF blk
  <2>3. /\ Posted("Ballot")' = Posted("Ballot")
        /\ Posted("TrusteePublic")' = Posted("TrusteePublic")
        /\ Posted("PartialTally")' # {}
    BY <2>1, <2>2, ListAppend DEF VInv, VoterTypes
  <2>4. SetupComplete' = SetupComplete
    BY <2>3 DEF SetupComplete
  <2>5. SetupRounds' /\ VoterTypes'
    BY <2>1, ListAppend DEF SetupRounds, SetupLabels, VInv, VoterTypes
  <2>6. ASSUME SetupComplete PROVE ChainHolds'
    <3> DEFINE n == Len(blocks)
    <3>1. IsList /\ ChainHolds
      BY <2>6 DEF VInv, VoterTypes
    <3>2. PICK w : w \in Posted("Ballot")
      BY <2>1, <3>1 DEF ChainHolds, VoterRounds
    <3>3. /\ n \in Nat /\ DOMAIN blocks = 1 .. n
          /\ Len(blocks') = n + 1 /\ DOMAIN blocks' = 1 .. n + 1
          /\ \A k \in DOMAIN blocks : blocks'[k] = blocks[k]
          /\ blocks'[n + 1] = blk
      BY <2>1, <3>1, ListAppend
    <3> HIDE DEF n
    <3>4. w \in Voters /\ BallotPlace(w) \in DOMAIN blocks
      BY <3>1, <3>2, BallotIsInPlace DEF ChainHolds
    <3>5. n + 1 > BallotPlace(1) /\ n >= setupBlocks + NumVoters
      BY <3>3, <3>4, Counts DEF BallotPlace
    <3>6. Shape'
      BY <2>1, <2>2, <3>1, <3>5, ShapeGrows DEF ChainHolds, n
    <3>7. VoterRounds'
      BY <2>1, <2>3, <3>1 DEF ChainHolds, VoterRounds, VoterLabels
    <3>8. FilesHold'
      <4>1. \A v \in Voters : RegPlace(v) \in DOMAIN blocks /\ blocks'[RegPlace(v)] = blocks[RegPlace(v)]
        <5>1. \A v \in Voters : RegPlace(v) \in DOMAIN blocks
          BY <3>3, <3>5, Counts DEF RegPlace
        <5> QED
          BY <3>3, <5>1
      <4> QED
        BY <2>1, <3>1, <4>1 DEF ChainHolds, FilesHold, RegPlace
    <3>9. BallotsHold'
      <4> SUFFICES ASSUME NEW v \in Voters, BallotPlace(v) \in DOMAIN blocks',
                          blocks'[BallotPlace(v)].hint = "Ballot"
                   PROVE  blocks'[BallotPlace(v)].votes = voterFile[v].ballot
        BY <2>1 DEF BallotsHold, BallotPlace
      <4>1. BallotPlace(v) \in DOMAIN blocks
        BY <2>2, <3>3
      <4> QED
        BY <3>1, <3>3, <4>1 DEF ChainHolds, BallotsHold
    <3>10. BallotTally' = BallotTally
      <4>1. ASSUME NEW v \in Voters, v \in Posted("Ballot")
            PROVE  blocks'[BallotPlace(v)] = blocks[BallotPlace(v)]
        BY <3>1, <3>3, <4>1, BallotIsInPlace DEF ChainHolds
      <4>2. ASSUME NEW c
            PROVE  {v \in Voters : /\ v \in Posted("Ballot")'
                                   /\ blocks'[BallotPlace(v)].votes # NoVote
                                   /\ Plain[blocks'[BallotPlace(v)].votes][c] = 1}
                 = {v \in Voters : /\ v \in Posted("Ballot")
                                   /\ blocks[BallotPlace(v)].votes # NoVote
                                   /\ Plain[blocks[BallotPlace(v)].votes][c] = 1}
        BY <2>3, <4>1
      <4> QED
        BY <4>2 DEF BallotTally, BallotPlace
    <3>11. ResultHolds'
      BY <2>1, <2>3, <3>1, <3>10 DEF ChainHolds, ResultHolds
    <3> QED
      BY <3>6, <3>7, <3>8, <3>9, <3>11 DEF ChainHolds
  <2> QED
    BY <2>4, <2>5, <2>6 DEF VInv
<1> QED
  BY <1>1, <1>2

LEMMA PrintResultKeepsVInv == ASSUME VInv, PrintResult PROVE VInv'
<1>1. UNCHANGED <<blocks, voterFile>> /\ announced' = Result /\ \E how : End(how)
  BY DEF PrintResult, dirVars
<1> QED
  BY <1>1, EndKeepsVInv

LEMMA AuditKeepsVInv == ASSUME VInv, Audit PROVE VInv'
<1>1. UNCHANGED <<blocks, voterFile>> /\ announced' \in {announced, Result} /\ \E how : End(how)
  BY DEF Audit, dirVars
<1> QED
  BY <1>1, EndKeepsVInv

LEMMA KillKeepsVInv == ASSUME VInv, Kill PROVE VInv'
<1>1. UNCHANGED <<blocks, voterFile, announced>> /\ \E how : End(how)
  BY DEF Kill, dirVars
<1> QED
  BY <1>1, EndKeepsVInv

LEMMA StutterKeepsVInv == ASSUME VInv, UNCHANGED vars PROVE VInv'
<1>1. UNCHANGED <<blocks, voterFile, announced, pc, index, voters>>
  BY DEF vars, dirVars, processVars
<1>2. VoterTypes' /\ SetupRounds'
  BY <1>1, SameBlocks DEF VInv, VoterTypes, SetupRounds, SetupLabels
<1>3. ASSUME SetupComplete PROVE ChainHolds'
  <2>1. VoterRounds'
    BY <1>1, <1>3, SameBlocks DEF VInv, ChainHolds, VoterRounds, VoterLabels
  <2>2. FilesHold' /\ BallotsHold' /\ ResultHolds'
    BY <1>1, <1>3, SameBlocks
       DEF VInv, ChainHolds, FilesHold, BallotsHold, ResultHolds, RegPlace, BallotPlace
  <2> QED
    BY <1>1, <1>3, <2>1, <2>2, SameBlocks DEF VInv, ChainHolds
<1> QED
  BY <1>1, <1>2, <1>3, SameBlocks DEF VInv

LEMMA NextKeepsVInv == ASSUME VInv, [Next]_vars PROVE VInv'
<1>1. CASE StartAuthority BY <1>1, StartAuthorityKeepsVInv
<1>2. CASE CreateGenesis  BY <1>2, CreateGenesisKeepsVInv
<1>3. CASE PostShares     BY <1>3, PostSharesKeepsVInv
<1>4. CASE SaveShard      BY <1>4, SaveShardKeepsVInv
<1>5. CASE PostPublic     BY <1>5, PostPublicKeepsVInv
<1>6. CASE OpenVoter      BY <1>6, OpenVoterKeepsVInv
<1>7. CASE DrawVoter      BY <1>7, DrawVoterKeepsVInv
<1>8. CASE WriteVoter     BY <1>8, WriteVoterKeepsVInv
<1>9. CASE RegisterVoter  BY <1>9, RegisterVoterKeepsVInv
<1>10. CASE CastVote      BY <1>10, CastVoteKeepsVInv
<1>11. CASE FinishVoting  BY <1>11, FinishVotingKeepsVInv
<1>12. CASE OpenTrustee   BY <1>12, OpenTrusteeKeepsVInv
<1>13. CASE PostPartial   BY <1>13, PostPartialKeepsVInv
<1>14. CASE PrintResult   BY <1>14, PrintResultKeepsVInv
<1>15. CASE Audit         BY <1>15, AuditKeepsVInv
<1>16. CASE Kill          BY <1>16, KillKeepsVInv
<1>17. CASE UNCHANGED vars BY <1>17, StutterKeepsVInv
<1> QED
  BY <1>1, <1>2, <1>3, <1>4, <1>5, <1>6, <1>7, <1>8, <1>9, <1>10, <1>11, <1>12, <1>13,
     <1>14, <1>15, <1>16, <1>17 DEF Next, Step


LEMMA VInvHolds == Spec => []VInv
<1>1. Init => VInv
  BY InitVInv
<1>2. VInv /\ [Next]_vars => VInv'
  BY NextKeepsVInv
<1> QED
  BY <1>1, <1>2, PTL DEF Spec

\* However often voter simulate is killed and run again, the file of a registered
\* voter holds the key of its registration: it is never emptied and never written
\* with another draw.
THEOREM KeysAreKept == Spec => []VotersKeepTheirKeys
<1>1. VInv => VotersKeepTheirKeys
  <2> SUFFICES ASSUME VInv, SetupComplete, NEW v \in Posted("VoterReg")
               PROVE  voterFile[v] # NoDraw /\ voterFile[v].key = RegisteredKey[v]
    BY DEF VotersKeepTheirKeys
  <2>1. IsList /\ Shape /\ FilesHold
    BY DEF VInv, VoterTypes, ChainHolds
  <2>2. v \in Voters /\ RegPlace(v) \in DOMAIN blocks /\ At("VoterReg", v) = {RegPlace(v)}
    BY <2>1, RegIsInPlace
  <2>3. RegisteredKey[v] = blocks[CHOOSE k \in At("VoterReg", v) : TRUE].key
    BY <2>2, Zenon DEF RegisteredKey
  <2>4. (CHOOSE k \in At("VoterReg", v) : TRUE) = RegPlace(v)
    BY <2>2
  <2> QED
    BY <2>1, <2>2, <2>3, <2>4 DEF FilesHold
<1> QED
  BY <1>1, VInvHolds, PTL

\* On a complete setup there are as many ballots as voters with one.
LEMMA NoneIsDiscarded == ASSUME VInv, SetupComplete PROVE Discarded = 0
<1>1. IsList /\ Shape
  BY DEF VInv, VoterTypes, ChainHolds
<1> DEFINE S == Posted("Ballot")
           P == {k \in DOMAIN blocks : blocks[k].hint = "Ballot"}
           f == [v \in S |-> BallotPlace(v)]
<1>2. \A v \in S : v \in Voters /\ At("Ballot", v) = {BallotPlace(v)} /\ BallotPlace(v) \in P
  BY <1>1, BallotIsInPlace
<1>3. \A k \in P : blocks[k].who \in S /\ k \in At("Ballot", blocks[k].who)
  BY DEF Posted, At
<1>4. S \subseteq Voters /\ IsFiniteSet(S)
  <2>1. IsFiniteSet(Voters)
    BY Counts, FS_Interval
  <2> QED
    BY <1>2, <2>1, FS_Subset
<1> HIDE DEF S, P
<1>5. f \in [S -> P]
  BY <1>2
<1>6. \A a, b \in S : f[a] = f[b] => a = b
  BY <1>4, Counts DEF BallotPlace
<1>7. \A k \in P : \E v \in S : f[v] = k
  BY <1>2, <1>3
<1>8. f \in Bijection(S, P)
  BY <1>5, <1>6, <1>7 DEF Bijection, Injection, Surjection, IsInjective
<1>9. Cardinality(P) = Cardinality(S) /\ Cardinality(S) \in Nat
  BY <1>4, <1>8, FS_Bijection, FS_CardinalityType DEF ExistsBijection
<1> QED
  BY <1>9 DEF Discarded, S, P

\* No command ever puts a second ballot of a voter on the chain: there are as many
\* ballots as there are voters with one.
THEOREM EachVotesOnce == Spec => []OneBallotEach
<1>1. VInv => OneBallotEach
  BY NoneIsDiscarded DEF OneBallotEach
<1> QED
  BY <1>1, VInvHolds, PTL

-----------------------------------------------------------------------------
(***************************************************************************)
(* Used as it is meant to be, voter simulate only runs on a complete setup.  *)
(***************************************************************************)
CommandsHold ==
  /\ pc # "idle" => ended = "running"
  /\ pc \in SetupLabels => command = "authority"
  /\ pc \in VoterLabels => SetupComplete
  /\ pc \in {"partial", "print"} => command = "trustee"
  /\ Posted("Ballot") # {} => SetupComplete
  /\ Ended("voter", "done") => Posted("Ballot") = Voters

\* Behind the last ballot every voter has one.
LEMMA AllHaveVoted ==
  ASSUME VInv, SetupComplete, pc = "finish"
  PROVE  Posted("Ballot") = Voters
<1>1. /\ IsList /\ Shape /\ Len(blocks) = setupBlocks + 2 * NumVoters
      /\ Posted("PartialTally") = {}
  BY DEF VInv, VoterTypes, ChainHolds, VoterRounds, VoterLabels
<1>2. DOMAIN blocks = 1 .. setupBlocks + 2 * NumVoters
  BY <1>1 DEF IsList
<1>3. ASSUME NEW v \in Voters PROVE v \in Posted("Ballot")
  <2>1. /\ BallotPlace(v) \in DOMAIN blocks /\ BallotPlace(v) > setupBlocks
        /\ \A w \in Voters : RegPlace(w) # BallotPlace(v)
    BY <1>2, Counts DEF BallotPlace, RegPlace
  <2>2. blocks[BallotPlace(v)].hint # "PartialTally"
    BY <1>1, <2>1 DEF Posted
  <2>3. blocks[BallotPlace(v)].hint = "Ballot"
    BY <1>1, <2>1, <2>2 DEF Shape, InPlace
  <2> QED
    BY <1>1, <2>1, <2>3, BallotIsInPlace
<1>4. Posted("Ballot") \subseteq Voters
  BY <1>1, BallotIsInPlace
<1> QED
  BY <1>3, <1>4

\* A run that resumes has something to do: Resume never finds nothing.
LEMMA ResumeHasWork ==
  ASSUME VInv, SetupComplete PROVE Resume.loop # "none"
  BY ResumeGoesOn DEF VInv, VoterTypes, ChainHolds

\* What ends leaves the chain as it is, and says what it must.
LEMMA EndKeepsCommands ==
  ASSUME CommandsHold, NEW how, End(how), UNCHANGED blocks,
         how = "done" /\ command' = "voter" => Posted("Ballot") = Voters
  PROVE  CommandsHold'
<1>1. pc' = "idle" /\ ended' = how
  BY DEF End, Goto
<1>2. Posted("Ballot")' = Posted("Ballot") /\ SetupComplete' = SetupComplete
  BY SameBlocks
<1>3. Ended("voter", "done")' => Posted("Ballot")' = Voters
  BY <1>1, <1>2 DEF Ended
<1> QED
  BY <1>1, <1>2, <1>3 DEF CommandsHold, SetupLabels, VoterLabels

\* So does what goes on without a block.
LEMMA StepKeepsCommands ==
  ASSUME CommandsHold, UNCHANGED blocks, pc # "idle", UNCHANGED <<command, ended>>,
         \/ pc \in SetupLabels /\ pc' \in SetupLabels
         \/ pc \in VoterLabels /\ pc' \in VoterLabels
  PROVE  CommandsHold'
<1>1. Posted("Ballot")' = Posted("Ballot") /\ SetupComplete' = SetupComplete
  BY SameBlocks
<1>2. ended' = "running"
  BY DEF CommandsHold
<1> QED
  BY <1>1, <1>2 DEF CommandsHold, SetupLabels, VoterLabels, Ended

LEMMA MintKeepsCommands ==
  ASSUME VInv, CommandsHold, NEW blk, pc # "idle", UNCHANGED command,
         \/ MintFails(blk)
         \/ blocks' = Append(blocks, blk) /\ UNCHANGED ended /\
            \/ pc \in SetupLabels /\ pc' \in SetupLabels /\ blk.hint # "Ballot"
            \/ pc \in VoterLabels /\ pc' \in VoterLabels /\ blk.hint # "TrusteePublic"
            \/ pc \in {"partial", "print"} /\ pc' \in {"partial", "print"}
               /\ blk.hint \notin {"Ballot", "TrusteePublic"}
  PROVE  CommandsHold'
<1>1. CASE MintFails(blk)
  BY <1>1, EndKeepsCommands DEF MintFails
<1>2. CASE ~MintFails(blk)
  <2>1. blocks' = Append(blocks, blk) /\ ended' = "running" /\ command' = command
    BY <1>2 DEF CommandsHold
  <2>2. \A h : Posted(h)' = IF blk.hint = h THEN Posted(h) \cup {blk.who} ELSE Posted(h)
    BY <2>1, ListAppend DEF VInv, VoterTypes
  <2>3. ~Ended("voter", "done")'
    BY <2>1 DEF Ended
  <2>4. CASE pc \in SetupLabels /\ pc' \in SetupLabels /\ blk.hint # "Ballot"
    <3>1. Posted("Ballot") = {}
      <4>1. \A k \in DOMAIN blocks : blocks[k].hint \in SetupHints
        BY <2>4 DEF VInv, SetupRounds
      <4> QED
        BY <4>1 DEF Posted, SetupHints
    <3>2. Posted("Ballot")' = {}
      BY <2>2, <2>4, <3>1
    <3> QED
      BY <2>1, <2>3, <2>4, <3>2 DEF CommandsHold, SetupLabels, VoterLabels
  <2>5. CASE ~(pc \in SetupLabels /\ pc' \in SetupLabels /\ blk.hint # "Ballot")
    <3>1. /\ blk.hint # "TrusteePublic"
          /\ \/ pc \in VoterLabels /\ pc' \in VoterLabels
             \/ /\ pc \in {"partial", "print"} /\ pc' \in {"partial", "print"}
                /\ blk.hint # "Ballot"
      BY <1>2, <2>5
    <3>2. SetupComplete' = SetupComplete
      BY <2>2, <3>1 DEF SetupComplete
    <3>3. blk.hint # "Ballot" => Posted("Ballot")' = Posted("Ballot")
      BY <2>2
    <3> QED
      BY <2>1, <2>3, <3>1, <3>2, <3>3 DEF CommandsHold, SetupLabels, VoterLabels
  <2> QED
    BY <2>4, <2>5
<1> QED
  BY <1>1, <1>2

LEMMA InitCommands == ASSUME Init PROVE CommandsHold
<1>1. blocks = <<>> /\ pc = "idle" /\ command = "none"
  BY DEF Init
<1>2. Posted("Ballot") = {}
  BY <1>1 DEF Posted
<1> QED
  BY <1>1, <1>2 DEF CommandsHold, SetupLabels, VoterLabels, Ended

LEMMA NextKeepsCommands ==
  ASSUME ~PartialSetupUsed, VInv, CommandsHold, [Next]_vars
  PROVE  CommandsHold'
<1> USE DEF SetupLabels, VoterLabels
<1>1. CASE StartAuthority
  <2>1. /\ blocks' = <<>> /\ pc' = "genesis" /\ command' = "authority" /\ ended' = "running"
    BY <1>1 DEF StartAuthority, Goto
  <2>2. Posted("Ballot")' = {}
    BY <2>1 DEF Posted
  <2> QED
    BY <2>1, <2>2 DEF CommandsHold, Ended
<1>2. CASE CreateGenesis
  <2>1. /\ blocks' = <<Blk("ElectionSetup", 0, GenesisStamp)>> /\ pc = "genesis"
        /\ pc' = "shares" /\ UNCHANGED <<command, ended>>
    BY <1>2 DEF CreateGenesis, Goto
  <2>2. blocks'[1].hint = "ElectionSetup" /\ DOMAIN blocks' = {1}
    BY <2>1 DEF Blk
  <2>3. Posted("Ballot")' = {}
    BY <2>2 DEF Posted
  <2> QED
    BY <2>1, <2>3 DEF CommandsHold, Ended
<1>3. CASE PostShares
  <2> DEFINE blk == Blk("TrusteeShares", index, SharesStamp(index))
  <2>1. /\ pc = "shares" /\ UNCHANGED command
        /\ \/ MintFails(blk)
           \/ /\ blocks' = Append(blocks, blk) /\ UNCHANGED ended
              /\ pc' \in {"shares", "saveShard"}
    BY <1>3 DEF PostShares, MintAdds, Goto
  <2>2. blk.hint # "Ballot"
    BY DEF Blk
  <2> HIDE DEF blk
  <2> QED
    BY <2>1, <2>2, MintKeepsCommands
<1>4. CASE SaveShard
  BY <1>4, StepKeepsCommands DEF SaveShard, Goto
<1>5. CASE PostPublic
  <2> DEFINE blk == Blk("TrusteePublic", index, PublicStamp(index))
  <2>1. /\ pc = "public" /\ UNCHANGED command
        /\ \/ MintFails(blk)
           \/ /\ blocks' = Append(blocks, blk)
              /\ \/ pc' = "saveShard" /\ UNCHANGED ended
                 \/ pc' = "idle" /\ ended' = "done"
    BY <1>5 DEF PostPublic, MintAdds, Goto, End
  <2>2. blk.hint = "TrusteePublic"
    BY DEF Blk
  <2> HIDE DEF blk
  <2>3. CASE pc' = "idle" /\ blocks' = Append(blocks, blk) /\ ended' = "done"
    <3>1. Posted("Ballot")' = Posted("Ballot")
      BY <2>2, <2>3, ListAppend DEF VInv, VoterTypes
    <3>2. \A k \in DOMAIN blocks : blocks[k].hint # "Ballot"
      BY <2>1 DEF VInv, SetupRounds, SetupHints
    <3>3. Posted("Ballot") = {}
      BY <3>2 DEF Posted
    <3>4. command' = "authority"
      BY <2>1 DEF CommandsHold
    <3> QED
      BY <2>3, <3>1, <3>3, <3>4 DEF CommandsHold, Ended
  <2> QED
    BY <2>1, <2>2, <2>3, MintKeepsCommands
<1>6. CASE OpenVoter
  <2>1. SetupComplete /\ UNCHANGED blocks /\ command' = "voter"
    BY <1>6 DEF OpenVoter, dirVars
  <2>2. Resume.loop # "none"
    BY <2>1, ResumeHasWork
  <2>3. CASE End("panicked")
    BY <2>1, <2>3, EndKeepsCommands
  <2>4. CASE ~End("panicked")
    <3>1. pc' \in {"draw", "cast", "finish"} /\ ended' = "running"
      BY <1>6, <2>2, <2>4 DEF OpenVoter, NextToRegister, NextToCast, Goto
    <3> QED
      BY <2>1, <3>1, SameBlocks DEF CommandsHold, Ended
  <2> QED
    BY <2>3, <2>4
<1>7. CASE DrawVoter
  BY <1>7, StepKeepsCommands DEF DrawVoter, Goto
<1>8. CASE WriteVoter
  BY <1>8, StepKeepsCommands DEF WriteVoter, Goto
<1>9. CASE RegisterVoter
  <2> DEFINE blk == RegBlk(index, voters[index])
  <2>1. /\ pc = "register" /\ UNCHANGED command
        /\ \/ MintFails(blk)
           \/ /\ blocks' = Append(blocks, blk) /\ UNCHANGED ended
              /\ pc' \in {"draw", "cast"}
    BY <1>9 DEF RegisterVoter, MintAdds, NextToRegister, Goto
  <2>2. blk.hint # "TrusteePublic"
    BY DEF Blk, RegBlk
  <2> HIDE DEF blk
  <2> QED
    BY <2>1, <2>2, MintKeepsCommands
<1>10. CASE CastVote
  <2> DEFINE blk == BallotBlk(index, voters[index])
  <2>1. /\ pc = "cast" /\ UNCHANGED command
        /\ \/ MintFails(blk)
           \/ /\ blocks' = Append(blocks, blk) /\ UNCHANGED ended
              /\ pc' \in {"cast", "finish"}
    BY <1>10 DEF CastVote, MintAdds, NextToCast, Goto
  <2>2. blk.hint # "TrusteePublic"
    BY DEF Blk, BallotBlk
  <2> HIDE DEF blk
  <2> QED
    BY <2>1, <2>2, MintKeepsCommands
<1>11. CASE FinishVoting
  <2>1. pc = "finish" /\ UNCHANGED blocks /\ \E how : End(how)
    BY <1>11 DEF FinishVoting, dirVars
  <2>2. Posted("Ballot") = Voters
    BY <2>1, AllHaveVoted DEF CommandsHold
  <2> QED
    BY <2>1, <2>2, EndKeepsCommands
<1>12. CASE OpenTrustee
  <2>1. UNCHANGED blocks /\ command' = "trustee"
    BY <1>12 DEF OpenTrustee, dirVars
  <2>2. CASE End("panicked")
    BY <2>1, <2>2, EndKeepsCommands
  <2>3. CASE ~End("panicked")
    <3>1. pc' = "partial" /\ ended' = "running"
      BY <1>12, <2>3 DEF OpenTrustee, Goto
    <3> QED
      BY <2>1, <3>1, SameBlocks DEF CommandsHold, Ended
  <2> QED
    BY <2>2, <2>3
<1>13. CASE PostPartial
  <2> DEFINE blk == Blk("PartialTally", index, PartialStamp(index))
  <2>1. /\ pc = "partial" /\ UNCHANGED command
        /\ \/ MintFails(blk)
           \/ /\ blocks' = Append(blocks, blk) /\ UNCHANGED ended
              /\ pc' \in {"partial", "print"}
    BY <1>13 DEF PostPartial, MintAdds, Goto
  <2>2. blk.hint \notin {"Ballot", "TrusteePublic"}
    BY DEF Blk
  <2> HIDE DEF blk
  <2> QED
    BY <2>1, <2>2, MintKeepsCommands
<1>14. CASE PrintResult
  <2>1. command' = "trustee" /\ UNCHANGED blocks /\ \E how : End(how)
    BY <1>14 DEF PrintResult, dirVars, CommandsHold
  <2> QED
    BY <2>1, EndKeepsCommands
<1>15. CASE Audit
  <2>1. command' = "auditor" /\ UNCHANGED blocks /\ \E how : End(how)
    BY <1>15 DEF Audit, dirVars
  <2> QED
    BY <2>1, EndKeepsCommands
<1>16. CASE Kill
  <2>1. UNCHANGED blocks /\ End("killed")
    BY <1>16 DEF Kill, dirVars
  <2> QED
    BY <2>1, EndKeepsCommands
<1>17. CASE UNCHANGED vars
  BY <1>17, SameBlocks DEF vars, dirVars, processVars, CommandsHold, Ended
<1> QED
  BY <1>1, <1>2, <1>3, <1>4, <1>5, <1>6, <1>7, <1>8, <1>9, <1>10, <1>11, <1>12, <1>13,
     <1>14, <1>15, <1>16, <1>17 DEF Next, Step

LEMMA CommandsAlwaysHold ==
  ASSUME ~PartialSetupUsed PROVE Spec => [](VInv /\ CommandsHold)
<1>1. Init => VInv /\ CommandsHold
  BY InitVInv, InitCommands
<1>2. VInv /\ CommandsHold /\ [Next]_vars => (VInv /\ CommandsHold)'
  BY NextKeepsVInv, NextKeepsCommands
<1> QED
  BY <1>1, <1>2, PTL DEF Spec

\* On a complete setup, a run of voter simulate that goes through its loops leaves
\* a ballot of every voter, wherever the killed runs before it had stopped.
THEOREM AllVoteInTheEnd == ASSUME ~PartialSetupUsed PROVE Spec => []DoneMeansAllVoted
<1>1. VInv /\ CommandsHold => DoneMeansAllVoted
  BY AllHaveVoted DEF CommandsHold, VoterLabels, DoneMeansAllVoted
<1> QED
  BY <1>1, CommandsAlwaysHold, PTL

\* On a complete setup, the result printed when every voter has a ballot counts
\* the ballots that are in the voters' files: the ballots as they were drawn.
THEOREM ResultCountsTheFiles == ASSUME ~PartialSetupUsed PROVE Spec => []ResultIsWhatVotersDrew
<1>1. VInv /\ CommandsHold => ResultIsWhatVotersDrew
  <2> SUFFICES ASSUME VInv, CommandsHold, announced # NoResult, Posted("Ballot") = Voters,
                      NEW c \in Candidates
               PROVE  announced[c] = Cardinality({v \in Voters : Plain[voterFile[v].ballot][c] = 1})
    BY DEF ResultIsWhatVotersDrew
  <2>1. 1 \in Voters
    BY Counts
  <2>2. SetupComplete
    BY <2>1 DEF CommandsHold
  <2>3. /\ IsList /\ Shape /\ FilesHold /\ BallotsHold /\ announced = BallotTally
        /\ voterFile \in [Voters -> Draws \cup {NoDraw}]
    BY <2>2 DEF VInv, VoterTypes, ChainHolds, ResultHolds
  <2>4. ASSUME NEW v \in Voters
        PROVE  /\ blocks[BallotPlace(v)].votes = voterFile[v].ballot
               /\ voterFile[v].ballot # NoVote
    <3>1. BallotPlace(v) \in DOMAIN blocks /\ blocks[BallotPlace(v)].hint = "Ballot"
      BY <2>3, BallotIsInPlace
    <3>2. RegPlace(v) \in DOMAIN blocks
      <4>1. DOMAIN blocks = 1 .. Len(blocks) /\ Len(blocks) \in Nat
        BY <2>3 DEF IsList
      <4> QED
        BY <3>1, <4>1, Counts DEF RegPlace, BallotPlace
    <3>3. voterFile[v] \in Draws
      BY <2>3, <3>2 DEF FilesHold
    <3>4. voterFile[v].ballot \in Ballots
      BY <3>3 DEF Draws
    <3> QED
      BY <2>3, <3>1, <3>4, DrawAssumption DEF BallotsHold
  <2>5. {v \in Voters : /\ v \in Posted("Ballot")
                        /\ blocks[BallotPlace(v)].votes # NoVote
                        /\ Plain[blocks[BallotPlace(v)].votes][c] = 1}
          = {v \in Voters : Plain[voterFile[v].ballot][c] = 1}
    BY <2>4
  <2> QED
    BY <2>3, <2>5 DEF BallotTally
<1> QED
  BY <1>1, CommandsAlwaysHold, PTL

-----------------------------------------------------------------------------
(***************************************************************************)
(* Types. Whom a command works on is a trustee or a voter, and a voter has   *)
(* been loaded or drawn before a block is made of it, on a partial setup too.*)
(***************************************************************************)
TypedBlock(b) ==
  /\ b.time \in Nat /\ b.who \in Trustees \cup Voters \cup {0}
  /\ b.key \in Keys \cup {NoKey} /\ b.votes \in Ballots \cup {NoVote}

RoundsTyped ==
  /\ pc \in {"shares", "saveShard", "public", "partial"} => index \in Trustees
  /\ pc \in {"draw", "write", "register", "cast"} => index \in Voters
  /\ pc = "draw" => \A v \in Voters : v < index => voters[v] # NoDraw
  /\ pc \in {"write", "register"} => \A v \in Voters : v <= index => voters[v] # NoDraw
  /\ pc = "cast" => \A v \in Voters : voters[v] # NoDraw

TInv == IsList /\ TypeOK /\ RoundsTyped

LEMMA StampsAreTimes ==
  ASSUME zone \in ZoneShifts
  PROVE  /\ GenesisStamp \in Nat
         /\ \A i \in Nat : SharesStamp(i) \in Nat /\ PublicStamp(i) \in Nat
         /\ \A i \in Nat \ {0} : /\ RegStamp(i) \in Nat /\ BallotStamp(i) \in Nat
                                 /\ PartialStamp(i) \in Nat
<1>1. GenesisStamp \in Nat
  BY SMT DEF GenesisStamp
<1>2. \A i \in Nat : SharesStamp(i) \in Nat /\ PublicStamp(i) \in Nat
  BY ClockAssumption, Counts DEF SharesStamp, PublicStamp
<1>3. zone \in Int /\ Now + zone \in Nat
  BY ClockAssumption
<1>4. /\ timing.opens[2] = Now + zone + Hour + 1 /\ timing.opens[3] = Now + zone + 301 * Hour + 2
      /\ timing.opens[4] = Now + zone + 601 * Hour + 3
  BY <1>3, Bounds DEF timing
<1>5. timing.opens[2] \in Nat /\ timing.opens[3] \in Nat /\ timing.opens[4] \in Nat
  BY <1>3, <1>4, ClockAssumption, HourIsLong
<1>6. ASSUME NEW i \in Nat \ {0}
      PROVE  RegStamp(i) \in Nat /\ BallotStamp(i) \in Nat /\ PartialStamp(i) \in Nat
  BY <1>5, SMT DEF RegStamp, BallotStamp, PartialStamp, VoterRegistration, VoteCasting, TallyDecryption
<1> QED
  BY <1>1, <1>2, <1>6

LEMMA ResultIsTyped == Result = NoResult \/ Result \in [Candidates -> 0 .. NumVoters]
<1>1. ASSUME NEW S, S \subseteq Voters PROVE Cardinality(S) \in 0 .. NumVoters
  <2>1. IsFiniteSet(Voters) /\ Cardinality(Voters) = NumVoters
    BY Counts, FS_Interval
  <2>2. Cardinality(S) \in Nat /\ Cardinality(S) <= NumVoters
    BY <1>1, <2>1, FS_Subset, FS_CardinalityType
  <2> QED
    BY <2>2, Counts
<1>2. ASSUME NEW c \in Candidates
      PROVE Cardinality({v \in Voters : LastBallot[v] # NoVote /\ Plain[LastBallot[v]][c] = 1})
              \in 0 .. NumVoters
  BY <1>1
<1> QED
  BY <1>2 DEF Result

LEMMA ResumeIsTyped ==
  ASSUME IsList
  PROVE  Resume.from \in Int /\ Resume.loop \in {"registration", "casting", "none", "panic"}
<1>1. Word \in Nat /\ Word > 0
  BY WordAssumption, Counts
<1>2. ASSUME NEW u \in Int PROVE u % Word \in Int /\ ToInt(u) \in Int
  BY <1>1 DEF ToInt
<1>3. Len(blocks) - 1 \in Int /\ setupBlocks \in Int /\ NumVoters \in Int
  BY Counts DEF IsList
<1>4. ASSUME NEW a \in Int, NEW b \in Int PROVE Minus(a, b) \in Int
  BY <1>2 DEF Minus
<1>5. ASSUME NEW h PROVE LastDone(h) \in Int
  BY <1>3, <1>4 DEF LastDone
<1>6. ASSUME NEW u \in Int PROVE SkipAfter(u) \in Int
  BY <1>2 DEF SkipAfter
<1>7. 0 \in Int
  OBVIOUS
<1> QED
  BY <1>5, <1>6, <1>7, Zenon DEF Resume

-----------------------------------------------------------------------------
LEMMA EndIsTyped ==
  ASSUME TInv, NEW how \in {"done", "panicked", "killed", "refused"}, End(how),
         UNCHANGED dirVars, announced' \in {announced, Result},
         command' \in {"none", "authority", "voter", "trustee", "auditor"},
         kills' \in 0 .. MaxKills
  PROVE  TInv'
<1>1. /\ pc' = "idle" /\ index' = 0 /\ voters' = Nobody /\ measured' = {} /\ ended' = how
      /\ UNCHANGED <<blocks, zone, shardSaved, voterFile>>
  BY DEF End, Goto, dirVars
<1>2. IsList' /\ RoundsTyped'
  BY <1>1, SameBlocks DEF TInv, RoundsTyped
<1>3. announced' = NoResult \/ announced' \in [Candidates -> 0 .. NumVoters]
  BY ResultIsTyped DEF TInv, TypeOK
<1> QED
  BY <1>1, <1>2, <1>3, NobodyIsTyped, Counts DEF TInv, TypeOK

\* A mint, be it refused or not.
LEMMA MintIsTyped ==
  ASSUME TInv, NEW blk,
         \/ MintFails(blk)
         \/ MintAdds(blk) /\ TypedBlock(blk) /\ RoundsTyped'
            /\ pc' \in {"idle", "shares", "saveShard", "public", "draw", "cast", "finish",
                        "partial", "print"}
            /\ index' \in 0 .. NumTrustees + NumVoters
            /\ voters' \in {voters, Nobody} /\ measured' \subseteq {"registration", "casting"}
            /\ ended' \in {ended, "done"},
         UNCHANGED <<zone, shardSaved, voterFile, announced, command, kills>>
  PROVE  TInv'
<1>1. CASE MintFails(blk)
  <2>1. End("panicked") /\ UNCHANGED dirVars
    BY <1>1 DEF MintFails, dirVars
  <2> QED
    BY <2>1, EndIsTyped DEF TInv, TypeOK
<1>2. CASE ~MintFails(blk)
  <2>1. blocks' = Append(blocks, blk) /\ TypedBlock(blk)
    BY <1>2 DEF MintAdds
  <2>2. IsList' /\ \A k \in DOMAIN blocks' : TypedBlock(blocks'[k])
    <3>1. /\ IsList' /\ DOMAIN blocks = 1 .. Len(blocks) /\ DOMAIN blocks' = 1 .. Len(blocks) + 1
          /\ Len(blocks) \in Nat /\ blocks'[Len(blocks) + 1] = blk
          /\ \A k \in DOMAIN blocks : blocks'[k] = blocks[k]
      BY <2>1, ListAppend DEF TInv
    <3>2. \A k \in DOMAIN blocks : TypedBlock(blocks[k])
      BY DEF TInv, TypeOK, TypedBlock
    <3> QED
      BY <2>1, <3>1, <3>2
  <2>3. /\ pc' \in {"idle", "shares", "saveShard", "public", "draw", "cast", "finish",
                    "partial", "print"}
        /\ index' \in 0 .. NumTrustees + NumVoters
        /\ voters' \in [Voters -> Draws \cup {NoDraw}]
        /\ measured' \subseteq {"registration", "casting"}
        /\ ended' \in {"running", "done", "panicked", "killed", "refused"}
        /\ RoundsTyped'
    BY <1>2, NobodyIsTyped DEF TInv, TypeOK
  <2>4. UNCHANGED <<zone, shardSaved, voterFile, announced, command, kills>>
    OBVIOUS
  <2>5. TypeOK'
    BY <2>2, <2>3, <2>4 DEF TInv, TypeOK, TypedBlock
  <2> QED
    BY <2>2, <2>3, <2>5 DEF TInv
<1> QED
  BY <1>1, <1>2

LEMMA InitTyped == ASSUME Init PROVE TInv
  BY NobodyIsTyped, Counts, ClockAssumption
     DEF Init, TInv, TypeOK, IsList, RoundsTyped

LEMMA NextKeepsTypes == ASSUME TInv, [Next]_vars PROVE TInv'
<1>0. /\ zone \in ZoneShifts /\ index \in 0 .. NumTrustees + NumVoters
      /\ NumTrustees \in Nat /\ NumVoters \in Nat /\ index \in Int
      /\ \A i \in Trustees : i \in Nat \ {0} /\ i \in 0 .. NumTrustees + NumVoters
      /\ \A i \in Voters : i \in Nat \ {0} /\ i \in 0 .. NumTrustees + NumVoters
      /\ 0 \in 0 .. NumTrustees + NumVoters /\ 1 \in Trustees /\ 1 \in Voters
  BY Counts DEF TInv, TypeOK
<1>1. CASE StartAuthority
  <2>1. /\ blocks' = <<>> /\ shardSaved' = {} /\ voterFile' = Nobody /\ announced' = NoResult
        /\ zone' \in ZoneShifts /\ pc' = "genesis" /\ index' = 0
        /\ command' = "authority" /\ ended' = "running" /\ UNCHANGED <<voters, measured, kills>>
    BY <1>1 DEF StartAuthority, Goto
  <2>2. IsList' /\ DOMAIN blocks' = {} /\ RoundsTyped'
    BY <2>1 DEF IsList, RoundsTyped
  <2> QED
    BY <1>0, <2>1, <2>2, NobodyIsTyped DEF TInv, TypeOK
<1>2. CASE CreateGenesis
  <2> DEFINE blk == Blk("ElectionSetup", 0, GenesisStamp)
  <2>1. /\ blocks' = <<blk>> /\ pc' = "shares" /\ index' = 1
        /\ UNCHANGED <<zone, shardSaved, voterFile, announced, voters, measured, command, ended, kills>>
    BY <1>2 DEF CreateGenesis, Goto
  <2>2. TypedBlock(blk)
    BY <1>0, StampsAreTimes DEF TypedBlock, Blk
  <2> HIDE DEF blk
  <2>3. DOMAIN blocks' = {1} /\ blocks'[1] = blk
    BY <2>1
  <2>4. IsList'
    <3>1. blk \in Range(blocks')
      BY <2>3 DEF Range
    <3>2. blocks' \in Seq(Range(blocks'))
      BY <2>1, <3>1
    <3> QED
      BY <3>2 DEF IsList, Range
  <2>5. RoundsTyped' /\ index' \in 0 .. NumTrustees + NumVoters
    BY <1>0, <2>1 DEF RoundsTyped
  <2> QED
    BY <2>1, <2>2, <2>3, <2>4, <2>5 DEF TInv, TypeOK, TypedBlock
<1>3. CASE PostShares
  <2> DEFINE blk == Blk("TrusteeShares", index, SharesStamp(index))
  <2>1. index \in Trustees
    BY <1>3 DEF PostShares, TInv, RoundsTyped
  <2>2. TypedBlock(blk)
    BY <1>0, <2>1, StampsAreTimes DEF TypedBlock, Blk
  <2> HIDE DEF blk
  <2>3. /\ \/ MintFails(blk)
           \/ /\ MintAdds(blk)
              /\ \/ index < NumTrustees /\ pc' = "shares" /\ index' = index + 1
                 \/ pc' = "saveShard" /\ index' = 1
              /\ UNCHANGED <<voters, measured, ended>>
        /\ UNCHANGED <<zone, shardSaved, voterFile, announced, command, kills>>
    BY <1>3 DEF PostShares, Goto, blk
  <2>4. index < NumTrustees => index + 1 \in Trustees
    BY <2>1, Counts
  <2>5. CASE MintFails(blk)
    BY <2>3, <2>5, MintIsTyped
  <2>6. CASE ~MintFails(blk)
    <3>1. RoundsTyped' /\ index' \in Trustees
      BY <1>0, <2>3, <2>4, <2>6 DEF RoundsTyped
    <3> QED
      BY <1>0, <2>2, <2>3, <2>6, <3>1, MintIsTyped DEF TInv, TypeOK
  <2> QED
    BY <2>5, <2>6
<1>4. CASE SaveShard
  <2>1. /\ index \in Trustees /\ pc' = "public" /\ index' = index
        /\ shardSaved' = shardSaved \cup {index}
        /\ UNCHANGED <<blocks, zone, voterFile, announced, voters, measured, command, ended, kills>>
    BY <1>4 DEF SaveShard, Goto, TInv, RoundsTyped
  <2>2. RoundsTyped' /\ IsList'
    BY <2>1, SameBlocks DEF RoundsTyped, TInv
  <2> QED
    BY <2>1, <2>2 DEF TInv, TypeOK
<1>5. CASE PostPublic
  <2> DEFINE blk == Blk("TrusteePublic", index, PublicStamp(index))
  <2>1. index \in Trustees
    BY <1>5 DEF PostPublic, TInv, RoundsTyped
  <2>2. TypedBlock(blk)
    BY <1>0, <2>1, StampsAreTimes DEF TypedBlock, Blk
  <2> HIDE DEF blk
  <2>3. /\ \/ MintFails(blk)
           \/ /\ MintAdds(blk)
              /\ \/ /\ index < NumTrustees /\ pc' = "saveShard" /\ index' = index + 1
                    /\ UNCHANGED <<voters, measured, ended>>
                 \/ /\ pc' = "idle" /\ index' = 0 /\ voters' = Nobody /\ measured' = {}
                    /\ ended' = "done"
        /\ UNCHANGED <<zone, shardSaved, voterFile, announced, command, kills>>
    BY <1>5 DEF PostPublic, Goto, End, blk
  <2>4. index < NumTrustees => index + 1 \in Trustees
    BY <2>1, Counts
  <2>5. CASE MintFails(blk)
    BY <2>3, <2>5, MintIsTyped
  <2>6. CASE ~MintFails(blk)
    <3>1. RoundsTyped' /\ index' \in 0 .. NumTrustees + NumVoters
      BY <1>0, <2>3, <2>4, <2>6 DEF RoundsTyped
    <3> QED
      BY <1>0, <2>2, <2>3, <2>6, <3>1, MintIsTyped DEF TInv, TypeOK
  <2> QED
    BY <2>5, <2>6
<1>6. CASE OpenVoter
  <2> DEFINE n     == Skipped(Resume.from)
             files == Loaded(Resume.loop, Resume.from)
  <2>1. command' = "voter" /\ UNCHANGED <<dirVars, announced, kills>>
    BY <1>6 DEF OpenVoter
  <2>2. CASE End("done") \/ End("panicked")
    BY <2>1, <2>2, EndIsTyped DEF TInv, TypeOK
  <2>3. CASE ~(End("done") \/ End("panicked"))
    <3>1. /\ \A v \in files : voterFile[v] # NoDraw
          /\ voters' = [v \in Voters |-> IF v \in files THEN voterFile[v] ELSE NoDraw]
          /\ \/ Resume.loop = "registration" /\ NextToRegister(n)
             \/ Resume.loop = "casting" /\ NextToCast(n)
          /\ UNCHANGED measured /\ ended' = "running"
      BY <1>6, <2>3 DEF OpenVoter
    <3>2. n \in Nat /\ (Resume.from >= 0 => n = Resume.from) /\ (Resume.from < 0 => n = 0)
      BY ResumeIsTyped DEF Skipped, TInv
    <3>3. Resume.loop = "registration" => \A v \in Voters : v <= n => v \in files
      BY <1>0, <3>2, ResumeIsTyped DEF Loaded, TInv
    <3>4. Resume.loop = "casting" => files = Voters
      BY DEF Loaded
    <3> HIDE DEF n, files
    <3>5. \A v \in Voters : v \in files => voters'[v] # NoDraw
      BY <3>1
    <3>6. CASE Resume.loop = "registration" /\ n < NumVoters
      <4>1. pc' = "draw" /\ index' = n + 1 /\ index' \in Voters
        BY <3>1, <3>2, <3>6, Counts DEF NextToRegister, Goto
      <4>2. \A v \in Voters : v < index' => v <= n
        BY <3>2, <4>1, Counts
      <4>3. RoundsTyped' /\ index' \in 0 .. NumTrustees + NumVoters
        BY <1>0, <3>3, <3>5, <3>6, <4>1, <4>2 DEF RoundsTyped
      <4> QED
        BY <2>1, <3>1, <4>1, <4>3, SameBlocks DEF TInv, TypeOK, dirVars
    <3>7. CASE Resume.loop = "registration" /\ ~(n < NumVoters)
      <4>1. pc' = "cast" /\ index' = 1
        BY <3>1, <3>7 DEF NextToRegister, Goto
      <4>2. \A v \in Voters : v <= n
        BY <3>2, <3>7, Counts
      <4>3. RoundsTyped' /\ index' \in 0 .. NumTrustees + NumVoters
        BY <1>0, <3>3, <3>5, <3>7, <4>1, <4>2 DEF RoundsTyped
      <4> QED
        BY <2>1, <3>1, <4>1, <4>3, SameBlocks DEF TInv, TypeOK, dirVars
    <3>8. CASE Resume.loop = "casting"
      <4>1. \/ pc' = "cast" /\ index' = n + 1 /\ index' \in Voters
            \/ pc' = "finish" /\ index' = 0
        BY <3>1, <3>2, <3>8, Counts DEF NextToCast, Goto
      <4>2. RoundsTyped' /\ index' \in 0 .. NumTrustees + NumVoters
        BY <1>0, <3>4, <3>5, <3>8, <4>1 DEF RoundsTyped
      <4> QED
        BY <2>1, <3>1, <4>1, <4>2, SameBlocks DEF TInv, TypeOK, dirVars
    <3> QED
      BY <3>1, <3>6, <3>7, <3>8
  <2> QED
    BY <2>2, <2>3
<1>7. CASE DrawVoter
  <2>1. PICK d \in Draws : voters' = [voters EXCEPT ![index] = d]
    BY <1>7 DEF DrawVoter, FreshKeys, Draws
  <2>2. /\ pc = "draw" /\ pc' = "write" /\ index' = index
        /\ voterFile' = [voterFile EXCEPT ![index] = NoDraw]
        /\ UNCHANGED <<blocks, zone, shardSaved, announced, measured, command, ended, kills>>
    BY <1>7 DEF DrawVoter, Goto
  <2>3. index \in Voters /\ \A v \in Voters : v < index => voters[v] # NoDraw
    BY <2>2 DEF TInv, RoundsTyped
  <2>4. \A v \in Voters : v <= index => voters'[v] # NoDraw
    <3>1. d # NoDraw
      BY DrawAssumption DEF Draws
    <3>2. \A v \in Voters : v <= index => v < index \/ v = index
      BY <2>3, Counts
    <3> QED
      BY <2>1, <2>3, <3>1, <3>2 DEF TInv, TypeOK
  <2>5. RoundsTyped' /\ IsList'
    BY <2>2, <2>3, <2>4, SameBlocks DEF RoundsTyped, TInv
  <2>6. voters' \in [Voters -> Draws \cup {NoDraw}] /\ voterFile' \in [Voters -> Draws \cup {NoDraw}]
    BY <2>1, <2>2 DEF TInv, TypeOK
  <2> QED
    BY <2>2, <2>5, <2>6 DEF TInv, TypeOK
<1>8. CASE WriteVoter
  <2>1. /\ pc = "write" /\ pc' = "register" /\ index' = index
        /\ voterFile' = [voterFile EXCEPT ![index] = voters[index]]
        /\ measured' = measured \cup {"registration"}
        /\ UNCHANGED <<blocks, zone, shardSaved, announced, voters, command, ended, kills>>
    BY <1>8 DEF WriteVoter, Goto
  <2>2. RoundsTyped' /\ IsList' /\ index \in Voters
    BY <2>1, SameBlocks DEF RoundsTyped, TInv
  <2>3. voterFile' \in [Voters -> Draws \cup {NoDraw}]
    BY <2>1, <2>2 DEF TInv, TypeOK
  <2> QED
    BY <2>1, <2>2, <2>3 DEF TInv, TypeOK
<1>9. CASE RegisterVoter
  <2> DEFINE blk == RegBlk(index, voters[index])
  <2>1. pc = "register" /\ index \in Voters /\ \A v \in Voters : v <= index => voters[v] # NoDraw
    BY <1>9 DEF RegisterVoter, TInv, RoundsTyped
  <2>2. voters[index] \in Draws
    BY <1>0, <2>1 DEF TInv, TypeOK
  <2>3. TypedBlock(blk)
    <3>1. /\ blk.time = RegStamp(index) /\ blk.who = index /\ blk.key = voters[index].key
          /\ blk.votes = NoVote
      BY DEF RegBlk, Blk
    <3>2. voters[index].key \in Keys
      BY <2>2 DEF Draws
    <3> HIDE DEF blk
    <3> QED
      BY <1>0, <2>1, <3>1, <3>2, StampsAreTimes DEF TypedBlock
  <2> HIDE DEF blk
  <2>4. /\ \/ MintFails(blk)
           \/ MintAdds(blk) /\ NextToRegister(index) /\ UNCHANGED <<voters, measured, ended>>
        /\ UNCHANGED <<zone, shardSaved, voterFile, announced, command, kills>>
    BY <1>9 DEF RegisterVoter, blk
  <2>5. CASE MintFails(blk)
    BY <2>4, <2>5, MintIsTyped
  <2>6. CASE ~MintFails(blk)
    <3>1. \/ pc' = "draw" /\ index' = index + 1 /\ index < NumVoters
          \/ pc' = "cast" /\ index' = 1 /\ index = NumVoters
      BY <2>1, <2>4, <2>6, Counts DEF NextToRegister, Goto
    <3>2. /\ index < NumVoters => index + 1 \in Voters
          /\ \A v \in Voters : v < index + 1 => v <= index
          /\ index = NumVoters => \A v \in Voters : v <= index
      BY <2>1, Counts
    <3>3. RoundsTyped' /\ index' \in Voters
      BY <1>0, <2>1, <2>4, <2>6, <3>1, <3>2 DEF RoundsTyped
    <3> QED
      BY <1>0, <2>3, <2>4, <2>6, <3>1, <3>3, MintIsTyped DEF TInv, TypeOK
  <2> QED
    BY <2>5, <2>6
<1>10. CASE CastVote
  <2> DEFINE blk == BallotBlk(index, voters[index])
  <2>1. pc = "cast" /\ index \in Voters /\ \A v \in Voters : voters[v] # NoDraw
    BY <1>10 DEF CastVote, TInv, RoundsTyped
  <2>2. voters[index] \in Draws
    BY <2>1 DEF TInv, TypeOK
  <2>3. TypedBlock(blk)
    <3>1. /\ blk.time = BallotStamp(index) /\ blk.who = index /\ blk.key = voters[index].key
          /\ blk.votes = voters[index].ballot
      BY DEF BallotBlk, Blk
    <3>2. voters[index].key \in Keys /\ voters[index].ballot \in Ballots
      BY <2>2 DEF Draws
    <3> HIDE DEF blk
    <3> QED
      BY <1>0, <2>1, <3>1, <3>2, StampsAreTimes DEF TypedBlock
  <2> HIDE DEF blk
  <2>4. /\ \/ MintFails(blk)
           \/ /\ MintAdds(blk) /\ NextToCast(index)
              /\ measured' = measured \cup {"casting"} /\ UNCHANGED <<voters, ended>>
        /\ UNCHANGED <<zone, shardSaved, voterFile, announced, command, kills>>
    BY <1>10 DEF CastVote, blk
  <2>5. CASE MintFails(blk)
    BY <2>4, <2>5, MintIsTyped
  <2>6. CASE ~MintFails(blk)
    <3>1. \/ pc' = "cast" /\ index' = index + 1 /\ index + 1 \in Voters
          \/ pc' = "finish" /\ index' = 0
      BY <2>1, <2>4, <2>6, Counts DEF NextToCast, Goto
    <3>2. RoundsTyped' /\ index' \in 0 .. NumTrustees + NumVoters
      BY <1>0, <2>1, <2>4, <2>6, <3>1 DEF RoundsTyped
    <3> QED
      BY <1>0, <2>3, <2>4, <2>6, <3>1, <3>2, MintIsTyped DEF TInv, TypeOK
  <2> QED
    BY <2>5, <2>6
<1>11. CASE FinishVoting
  <2>1. UNCHANGED <<dirVars, announced, command, kills>> /\ (End("done") \/ End("panicked"))
    BY <1>11 DEF FinishVoting
  <2> QED
    BY <2>1, EndIsTyped DEF TInv, TypeOK
<1>12. CASE OpenTrustee
  <2>1. command' = "trustee" /\ UNCHANGED <<dirVars, announced, kills>>
    BY <1>12 DEF OpenTrustee
  <2>2. CASE End("panicked")
    BY <2>1, <2>2, EndIsTyped DEF TInv, TypeOK
  <2>3. CASE ~End("panicked")
    <3>1. pc' = "partial" /\ index' = 1 /\ ended' = "running" /\ UNCHANGED <<voters, measured>>
      BY <1>12, <2>3 DEF OpenTrustee, Goto
    <3>2. RoundsTyped' /\ index' \in 0 .. NumTrustees + NumVoters
      BY <1>0, <3>1 DEF RoundsTyped
    <3> QED
      BY <2>1, <3>1, <3>2, SameBlocks DEF TInv, TypeOK, dirVars
  <2> QED
    BY <2>2, <2>3
<1>13. CASE PostPartial
  <2> DEFINE blk == Blk("PartialTally", index, PartialStamp(index))
  <2>1. index \in Trustees
    BY <1>13 DEF PostPartial, TInv, RoundsTyped
  <2>2. TypedBlock(blk)
    BY <1>0, <2>1, StampsAreTimes DEF TypedBlock, Blk
  <2> HIDE DEF blk
  <2>3. /\ \/ MintFails(blk)
           \/ /\ MintAdds(blk)
              /\ \/ index < NumTrustees /\ pc' = "partial" /\ index' = index + 1
                 \/ pc' = "print" /\ index' = 0
              /\ UNCHANGED <<voters, measured, ended>>
        /\ UNCHANGED <<zone, shardSaved, voterFile, announced, command, kills>>
    BY <1>13 DEF PostPartial, Goto, blk
  <2>4. index < NumTrustees => index + 1 \in Trustees
    BY <2>1, Counts
  <2>5. CASE MintFails(blk)
    BY <2>3, <2>5, MintIsTyped
  <2>6. CASE ~MintFails(blk)
    <3>1. RoundsTyped' /\ index' \in 0 .. NumTrustees + NumVoters
      BY <1>0, <2>3, <2>4, <2>6 DEF RoundsTyped
    <3> QED
      BY <1>0, <2>2, <2>3, <2>6, <3>1, MintIsTyped DEF TInv, TypeOK
  <2> QED
    BY <2>5, <2>6
<1>14. CASE PrintResult
  <2>1. UNCHANGED <<dirVars, command, kills>> /\ announced' = Result /\ End("done")
    BY <1>14 DEF PrintResult
  <2> QED
    BY <2>1, EndIsTyped DEF TInv, TypeOK
<1>15. CASE Audit
  <2>1. /\ UNCHANGED <<dirVars, kills>> /\ announced' \in {announced, Result}
        /\ command' = "auditor"
        /\ \E how \in {"done", "panicked", "refused"} : End(how)
    BY <1>15 DEF Audit
  <2> QED
    BY <2>1, EndIsTyped DEF TInv, TypeOK
<1>16. CASE Kill
  <2>1. /\ kills \in 0 .. MaxKills /\ kills < MaxKills /\ kills' = kills + 1
        /\ End("killed") /\ UNCHANGED <<dirVars, announced, command>>
    BY <1>16 DEF Kill, TInv, TypeOK
  <2>2. kills' \in 0 .. MaxKills
    BY <2>1, ClockAssumption
  <2> QED
    BY <2>1, <2>2, EndIsTyped DEF TInv, TypeOK
<1>17. CASE UNCHANGED vars
  BY <1>17, SameBlocks DEF vars, dirVars, processVars, TInv, TypeOK, RoundsTyped
<1> QED
  BY <1>1, <1>2, <1>3, <1>4, <1>5, <1>6, <1>7, <1>8, <1>9, <1>10, <1>11, <1>12, <1>13,
     <1>14, <1>15, <1>16, <1>17 DEF Next, Step

\* Every variable keeps its type, on a setup that was cut short too: no block is
\* ever made of a voter that is not there.
THEOREM SimulationIsTyped == Spec => []TypeOK
<1>1. Init => TInv
  BY InitTyped
<1>2. TInv /\ [Next]_vars => TInv'
  BY NextKeepsTypes
<1>3. TInv => TypeOK
  BY DEF TInv
<1> QED
  BY <1>1, <1>2, <1>3, PTL DEF Spec

-----------------------------------------------------------------------------
(***************************************************************************)
(* The refinement. What the commands put on the chain is what a strict       *)
(* validator accepts, in the order of the stamps.                           *)
(***************************************************************************)

\* Voters are simulated on complete setups, on a machine that keeps London's time,
\* after the day that is stamped on the genesis block.
AsIntended == Simulable /\ ~PartialSetupUsed /\ ZoneShifts = {0} /\ GenesisStamp <= Now

\* Every block carries the stamp of the loop that makes blocks of its kind.
Stamped(b) ==
  \/ b.hint = "ElectionSetup" /\ b.time = GenesisStamp
  \/ b.hint = "TrusteeShares" /\ b.who \in Trustees /\ b.time = SharesStamp(b.who)
  \/ b.hint = "TrusteePublic" /\ b.who \in Trustees /\ b.time = PublicStamp(b.who)
  \/ b.hint = "VoterReg" /\ b.who \in Voters /\ b.time = RegStamp(b.who)
  \/ b.hint = "Ballot" /\ b.who \in Voters /\ b.time = BallotStamp(b.who)
  \/ b.hint = "PartialTally" /\ b.who \in Trustees /\ b.time = PartialStamp(b.who)

StampsHold == zone = 0 /\ \A k \in DOMAIN blocks : Stamped(blocks[k])

\* trustee simulate goes through the trustees from the first one; run again, it is
\* refused the first block. What is announced stays the result.
PartialRounds ==
  /\ Posted("PartialTally") # {} => 1 \in Posted("PartialTally") /\ SetupComplete
  /\ pc \in {"partial", "print"} => SetupComplete
  /\ pc = "partial" =>
       /\ index \in Trustees
       /\ \/ index = 1 /\ 1 \in Posted("PartialTally")
          \/ Posted("PartialTally") = 1 .. index - 1 /\ announced = NoResult
  /\ announced # NoResult => announced = Result

MInv == StampsHold /\ PartialRounds /\ (pc = "genesis" => blocks = <<>>)

RInv == IInv /\ VInv /\ CommandsHold /\ TInv /\ MInv

\* What a command makes a block of, and where.
MintedHere(blk) ==
  \/ pc = "shares"   /\ blk = Blk("TrusteeShares", index, SharesStamp(index))
  \/ pc = "public"   /\ blk = Blk("TrusteePublic", index, PublicStamp(index))
  \/ pc = "register" /\ blk = RegBlk(index, voters[index])
  \/ pc = "cast"     /\ blk = BallotBlk(index, voters[index])
  \/ pc = "partial"  /\ blk = Blk("PartialTally", index, PartialStamp(index))

MintStep(blk) ==
  /\ MintedHere(blk) /\ MintAdds(blk)
  /\ UNCHANGED <<zone, announced>>
  /\ pc' # "genesis"
  /\ pc' \in {"partial", "print"} => pc = "partial"
  /\ pc' = "partial" => index < NumTrustees /\ index' = index + 1

\* Every other step leaves the chain alone, and may announce the result.
QuietStep ==
  /\ UNCHANGED <<blocks, zone>> /\ announced' \in {announced, Result}
  /\ \/ pc' \notin {"genesis", "partial", "print"}
     \/ UNCHANGED <<pc, index, announced>>
     \/ pc' = "partial" /\ index' = 1 /\ Posted("Ballot") # {} /\ UNCHANGED announced

LEMMA StepKinds ==
  ASSUME [Next]_vars
  PROVE  \/ StartAuthority
         \/ CreateGenesis
         \/ \E blk : MintStep(blk)
         \/ QuietStep
<1>1. ASSUME NEW blk, MintFails(blk), UNCHANGED <<zone, announced>> PROVE QuietStep
  BY <1>1 DEF MintFails, End, Goto, QuietStep
<1>2. ASSUME PostShares PROVE QuietStep \/ \E blk : MintStep(blk)
  BY <1>1, <1>2 DEF PostShares, MintStep, MintedHere, Goto
<1>3. ASSUME PostPublic PROVE QuietStep \/ \E blk : MintStep(blk)
  BY <1>1, <1>3 DEF PostPublic, MintStep, MintedHere, Goto, End
<1>4. ASSUME RegisterVoter PROVE QuietStep \/ \E blk : MintStep(blk)
  BY <1>1, <1>4 DEF RegisterVoter, MintStep, MintedHere, Goto, NextToRegister
<1>5. ASSUME CastVote PROVE QuietStep \/ \E blk : MintStep(blk)
  BY <1>1, <1>5 DEF CastVote, MintStep, MintedHere, Goto, NextToCast
<1>6. ASSUME PostPartial PROVE QuietStep \/ \E blk : MintStep(blk)
  BY <1>1, <1>6 DEF PostPartial, MintStep, MintedHere, Goto
<1>7. ASSUME OpenVoter \/ OpenTrustee PROVE QuietStep
  BY <1>7 DEF OpenVoter, OpenTrustee, dirVars, QuietStep, Goto, End, NextToRegister, NextToCast
<1>8. ASSUME Audit \/ Kill \/ PrintResult \/ FinishVoting PROVE QuietStep
  BY <1>8 DEF Audit, Kill, PrintResult, FinishVoting, dirVars, QuietStep, Goto, End
<1>9. ASSUME SaveShard \/ DrawVoter \/ WriteVoter \/ UNCHANGED vars PROVE QuietStep
  BY <1>9 DEF SaveShard, DrawVoter, WriteVoter, vars, dirVars, processVars, QuietStep, Goto
<1> QED
  BY <1>2, <1>3, <1>4, <1>5, <1>6, <1>7, <1>8, <1>9 DEF Next, Step

LEMMA MintHints ==
  ASSUME NEW blk, MintedHere(blk)
  PROVE  /\ blk.who = index
         /\ pc = "shares" => blk.hint = "TrusteeShares" /\ blk.time = SharesStamp(index)
         /\ pc = "public" => blk.hint = "TrusteePublic" /\ blk.time = PublicStamp(index)
         /\ pc = "register" => /\ blk.hint = "VoterReg" /\ blk.time = RegStamp(index)
                               /\ blk.key = voters[index].key
         /\ pc = "cast" => /\ blk.hint = "Ballot" /\ blk.time = BallotStamp(index)
                           /\ blk.key = voters[index].key /\ blk.votes = voters[index].ballot
         /\ pc = "partial" => blk.hint = "PartialTally" /\ blk.time = PartialStamp(index)
         /\ pc \in {"shares", "public", "register", "cast", "partial"}
<1>1. CASE pc = "shares" /\ blk = Blk("TrusteeShares", index, SharesStamp(index))
  BY <1>1 DEF Blk
<1>2. CASE pc = "public" /\ blk = Blk("TrusteePublic", index, PublicStamp(index))
  BY <1>2 DEF Blk
<1>3. CASE pc = "register" /\ blk = RegBlk(index, voters[index])
  BY <1>3 DEF RegBlk, Blk
<1>4. CASE pc = "cast" /\ blk = BallotBlk(index, voters[index])
  BY <1>4 DEF BallotBlk, Blk
<1>5. CASE pc = "partial" /\ blk = Blk("PartialTally", index, PartialStamp(index))
  BY <1>5 DEF Blk
<1> QED
  BY <1>1, <1>2, <1>3, <1>4, <1>5 DEF MintedHere

LEMMA MintIsStamped ==
  ASSUME RInv, NEW blk, MintedHere(blk)
  PROVE  Stamped(blk)
BY MintHints DEF RInv, TInv, RoundsTyped, Stamped

\* A command that makes a block runs on a chain that nothing was announced of.
LEMMA NothingAnnounced ==
  ASSUME RInv, NEW blk, MintedHere(blk), Accepts(blk)
  PROVE  announced = NoResult
<1>1. CASE pc \in {"shares", "public"}
  BY <1>1 DEF RInv, VInv, SetupRounds, SetupLabels
<1>2. CASE pc \in {"register", "cast"}
  BY <1>2 DEF RInv, CommandsHold, VoterLabels, VInv, ChainHolds, VoterRounds, ResultHolds
<1>3. CASE pc = "partial"
  <2>1. blk.who \notin Posted("PartialTally")
    BY <1>3, MintHints DEF Accepts
  <2>2. blk.who = index
    BY MintHints
  <2> QED
    BY <1>3, <2>1, <2>2 DEF RInv, MInv, PartialRounds
<1> QED
  BY <1>1, <1>2, <1>3, MintHints

\* The chain has a genesis block when a command makes another one.
LEMMA ChainIsThere ==
  ASSUME RInv, NEW blk, MintedHere(blk)
  PROVE  IsList /\ Len(blocks) \in Nat /\ Len(blocks) > 0 /\ blocks # <<>>
<1>1. IsList /\ Len(blocks) \in Nat
  BY DEF RInv, TInv, IsList
<1>2. CASE pc \in {"shares", "public"}
  BY <1>1, <1>2, Counts DEF RInv, VInv, SetupRounds
<1>3. CASE pc \in {"register", "cast", "partial"}
  <2>1. Shape
    BY <1>3 DEF RInv, CommandsHold, VoterLabels, VInv, ChainHolds, MInv, PartialRounds
  <2> QED
    BY <1>1, <2>1, Counts DEF Shape
<1>4. Len(blocks) > 0
  BY <1>2, <1>3, MintHints
<1> QED
  BY <1>1, <1>4

LEMMA ZoneIsLondon ==
  ASSUME AsIntended, RInv PROVE zone = 0
BY DEF AsIntended, RInv, TInv, TypeOK

LEMMA NextKeepsStamps ==
  ASSUME AsIntended, RInv, [Next]_vars
  PROVE  StampsHold'
<1> USE ZoneIsLondon
<1>1. CASE StartAuthority
  BY <1>1 DEF StartAuthority, AsIntended, StampsHold
<1>2. CASE CreateGenesis
  <2>1. blocks' = <<Blk("ElectionSetup", 0, GenesisStamp)>> /\ UNCHANGED zone
    BY <1>2 DEF CreateGenesis
  <2>2. \A k \in DOMAIN blocks' : blocks'[k] = Blk("ElectionSetup", 0, GenesisStamp)
    BY <2>1
  <2>3. \A k \in DOMAIN blocks' : Stamped(blocks[k])'
    BY <2>2 DEF Stamped, Blk
  <2> QED
    BY <2>1, <2>3 DEF StampsHold
<1>3. ASSUME NEW blk, MintStep(blk) PROVE StampsHold'
  <2>1. blocks' = Append(blocks, blk) /\ UNCHANGED zone /\ Stamped(blk)
    BY <1>3, MintIsStamped DEF MintStep, MintAdds
  <2>2. IsList
    BY DEF RInv, TInv
  <2>3. \A k \in DOMAIN blocks' : Stamped(blocks'[k])
    BY <2>1, <2>2, ListAppend DEF RInv, MInv, StampsHold
  <2>4. \A k \in DOMAIN blocks' : Stamped(blocks[k])'
    BY <2>1, <2>3 DEF Stamped, SharesStamp, PublicStamp, RegStamp, BallotStamp, PartialStamp, timing
  <2> QED
    BY <2>1, <2>4 DEF StampsHold
<1>4. CASE QuietStep
  BY <1>4 DEF QuietStep, RInv, MInv, StampsHold, Stamped, SharesStamp, PublicStamp, RegStamp,
     BallotStamp, PartialStamp, timing
<1> QED
  BY <1>1, <1>2, <1>3, <1>4, StepKinds

LEMMA NextKeepsPartials ==
  ASSUME AsIntended, RInv, [Next]_vars
  PROVE  PartialRounds' /\ (pc = "genesis" => blocks = <<>>)'
<1>0. IsList /\ NumTrustees \in Nat /\ Trustees = 1 .. NumTrustees
  BY Counts DEF RInv, TInv
<1>1. CASE StartAuthority
  <2>1. blocks' = <<>> /\ announced' = NoResult /\ pc' = "genesis"
    BY <1>1 DEF StartAuthority, Goto
  <2>2. Posted("PartialTally")' = {}
    BY <2>1 DEF Posted
  <2> QED
    BY <2>1, <2>2 DEF PartialRounds
<1>2. CASE CreateGenesis
  <2>1. /\ blocks' = <<Blk("ElectionSetup", 0, GenesisStamp)>> /\ pc = "genesis"
        /\ announced' = announced /\ pc' = "shares"
    BY <1>2 DEF CreateGenesis, Goto
  <2>2. Posted("PartialTally")' = {}
    BY <2>1 DEF Posted, Blk
  <2>3. announced = NoResult
    BY <2>1 DEF RInv, VInv, SetupRounds, SetupLabels
  <2> QED
    BY <2>1, <2>2, <2>3 DEF PartialRounds
<1>3. ASSUME NEW blk, MintStep(blk) PROVE PartialRounds' /\ (pc = "genesis" => blocks = <<>>)'
  <2>1. /\ MintedHere(blk) /\ Accepts(blk) /\ blocks' = Append(blocks, blk)
        /\ announced' = announced /\ announced = NoResult /\ blk.who = index
    BY <1>3, NothingAnnounced, MintHints DEF MintStep, MintAdds
  <2>2. \A h : Posted(h)' = IF blk.hint = h THEN Posted(h) \cup {index} ELSE Posted(h)
    BY <1>0, <2>1, ListAppend
  <2>3. SetupComplete => SetupComplete'
    <3>1. blk.hint = "TrusteePublic" => index \in Trustees
      BY <2>1, MintHints DEF RInv, TInv, RoundsTyped
    <3> QED
      BY <2>2, <3>1 DEF SetupComplete
  <2>4. CASE pc = "partial"
    <3>1. /\ blk.hint = "PartialTally" /\ index \notin Posted("PartialTally")
          /\ index \in Trustees /\ SetupComplete
      BY <2>1, <2>4, MintHints DEF Accepts, RInv, MInv, PartialRounds
    <3>2. Posted("PartialTally") = 1 .. index - 1
      BY <2>4, <3>1 DEF RInv, MInv, PartialRounds
    <3>3. Posted("PartialTally")' = 1 .. index
      <4>1. Posted("PartialTally")' = (1 .. index - 1) \cup {index}
        BY <2>2, <3>1, <3>2
      <4>2. index \in Nat /\ 1 <= index
        BY <1>0, <3>1
      <4>3. (1 .. index - 1) \cup {index} = 1 .. index
        BY ONLY <4>2
      <4> QED
        BY <4>1, <4>3
    <3>4. 1 \in Posted("PartialTally")'
      BY <1>0, <3>1, <3>3
    <3>5. pc' = "partial" => index' \in Trustees /\ Posted("PartialTally")' = 1 .. index' - 1
      BY <1>0, <1>3, <3>1, <3>3 DEF MintStep
    <3> QED
      BY <1>3, <2>1, <2>3, <3>1, <3>4, <3>5 DEF MintStep, PartialRounds
  <2>5. CASE pc # "partial"
    <3>1. Posted("PartialTally")' = Posted("PartialTally")
      BY <2>1, <2>2, <2>5, MintHints
    <3>2. pc' \notin {"genesis", "partial", "print"}
      BY <1>3, <2>5 DEF MintStep
    <3> QED
      BY <2>1, <2>3, <3>1, <3>2 DEF RInv, MInv, PartialRounds
  <2> QED
    BY <2>4, <2>5
<1>4. CASE QuietStep
  <2>1. UNCHANGED <<blocks, zone>> /\ announced' \in {announced, Result}
    BY <1>4 DEF QuietStep
  <2>2. /\ Posted("PartialTally")' = Posted("PartialTally") /\ SetupComplete' = SetupComplete
        /\ LastBallot' = LastBallot
    BY <2>1, SameBlocks DEF LastBallot, At
  <2>2a. Result' = Result
    BY <2>2, Zenon DEF Result
  <2>3. (announced # NoResult => announced = Result)'
    BY <2>1, <2>2a DEF RInv, MInv, PartialRounds
  <2>4. CASE pc' \notin {"genesis", "partial", "print"}
    BY <2>2, <2>3, <2>4 DEF RInv, MInv, PartialRounds
  <2>5. CASE UNCHANGED <<pc, index, announced>>
    BY <2>1, <2>2, <2>3, <2>5 DEF RInv, MInv, PartialRounds
  <2>6. CASE pc' = "partial" /\ index' = 1 /\ Posted("Ballot") # {} /\ UNCHANGED announced
    <3>1. SetupComplete
      BY <2>6 DEF RInv, CommandsHold
    <3>2. announced # NoResult => Posted("PartialTally") # {}
      BY <3>1 DEF RInv, VInv, ChainHolds, ResultHolds
    <3>3. 1 \in Trustees /\ 1 .. 1 - 1 = {}
      BY Counts
    <3> QED
      BY <2>2, <2>3, <2>6, <3>1, <3>2, <3>3 DEF RInv, MInv, PartialRounds
  <2> QED
    BY <1>4, <2>4, <2>5, <2>6 DEF QuietStep
<1> QED
  BY <1>1, <1>2, <1>3, <1>4, StepKinds

LEMMA NextKeepsRInv == ASSUME AsIntended, RInv, [Next]_vars PROVE RInv'
  BY NextIInv, NextKeepsVInv, NextKeepsCommands, NextKeepsTypes, NextKeepsStamps,
     NextKeepsPartials DEF RInv, MInv, AsIntended

LEMMA InitRInv == ASSUME AsIntended, Init PROVE RInv
<1>1. IInv /\ VInv /\ CommandsHold /\ TInv
  BY InitIInv, InitVInv, InitCommands, InitTyped DEF AsIntended
<1>2. Posted("PartialTally") = {}
  BY DEF Init, Posted
<1>3. MInv
  BY <1>2 DEF Init, MInv, StampsHold, PartialRounds, AsIntended
<1> QED
  BY <1>1, <1>3 DEF RInv

-----------------------------------------------------------------------------
\* The stamps, and what orders them.
StampedAt(i) ==
  /\ SharesStamp(i) = Now + i
  /\ PublicStamp(i) = Now + NumTrustees + i
  /\ RegStamp(i) = Now + Hour + 1 + i
  /\ BallotStamp(i) = Now + 301 * Hour + 2 + i
  /\ PartialStamp(i) = Now + 601 * Hour + 4 + 30 * (i - 1)

LEMMA StampsInNumbers ==
  ASSUME AsIntended, zone = 0
  PROVE  /\ Now \in Nat /\ Hour \in Nat /\ GenesisStamp \in Nat /\ GenesisStamp <= Now
         /\ NumTrustees \in Nat /\ NumVoters \in Nat
         /\ NumTrustees <= 120 /\ 240 < Hour /\ NumVoters < 300 * Hour
         /\ \A i \in Int : StampedAt(i)
<1>1. /\ Now \in Nat /\ Hour \in Nat /\ GenesisStamp \in Nat /\ GenesisStamp <= Now
      /\ NumTrustees \in Nat /\ NumVoters \in Nat
      /\ NumTrustees <= 120 /\ 240 < Hour /\ NumVoters < 300 * Hour
  BY ClockAssumption, HourIsLong, Counts DEF AsIntended, Simulable, GenesisStamp
<1>2. /\ timing.opens[2] = Now + Hour + 1
      /\ timing.opens[3] = Now + 301 * Hour + 2
      /\ timing.opens[4] = Now + 601 * Hour + 3
  BY <1>1, Bounds DEF timing
<1>3. ASSUME NEW i \in Int
      PROVE  StampedAt(i)
  BY <1>1, <1>2 DEF StampedAt, SharesStamp, PublicStamp, RegStamp, BallotStamp, PartialStamp,
     VoterRegistration, VoteCasting, TallyDecryption
<1> QED
  BY <1>1, <1>3

\* Which blocks there are when a command makes one.
LEMMA BlocksBefore ==
  ASSUME AsIntended, RInv, NEW blk, MintedHere(blk), Accepts(blk)
  PROVE  /\ pc \in {"shares", "public"} =>
              /\ \A h : Posted(h) # {} => h \in SetupHints
              /\ Posted("TrusteePublic") \subseteq 1 .. index - 1
         /\ pc = "shares" => /\ Posted("TrusteeShares") = 1 .. index - 1
                             /\ Posted("TrusteePublic") = {}
         /\ pc = "public" => /\ Posted("TrusteeShares") = Trustees
                             /\ Posted("TrusteePublic") = 1 .. index - 1
         /\ pc \in {"register", "cast", "partial"} => SetupComplete /\ ChainHolds
         /\ pc = "register" => /\ Posted("VoterReg") \subseteq 1 .. index - 1
                               /\ Posted("Ballot") = {}
         /\ pc = "cast" => Posted("Ballot") \subseteq 1 .. index - 1
         /\ pc \in {"register", "cast"} => Posted("PartialTally") = {}
         /\ pc = "partial" => Posted("PartialTally") = 1 .. index - 1
<1>0. zone = 0 /\ IsList
  BY ZoneIsLondon DEF RInv, TInv
<1>1. CASE pc \in {"shares", "public"}
  <2>1. \A k \in DOMAIN blocks : blocks[k].hint \in SetupHints
    BY <1>1 DEF RInv, VInv, SetupRounds, SetupLabels
  <2>2. \A h : Posted(h) # {} => h \in SetupHints
    BY <2>1 DEF Posted
  <2>3. /\ pc = "shares" => /\ Posted("TrusteeShares") = 1 .. index - 1
                            /\ Posted("TrusteePublic") = {}
        /\ pc = "public" => /\ Posted("TrusteeShares") = Trustees
                            /\ Posted("TrusteePublic") = 1 .. index - 1
    BY <1>0 DEF RInv, IInv, SharesRound, PublicRound
  <2> QED
    BY <1>1, <2>2, <2>3
<1>2. CASE pc \in {"register", "cast", "partial"}
  <2>1. SetupComplete /\ ChainHolds
    BY <1>2 DEF RInv, CommandsHold, VoterLabels, VInv, MInv, PartialRounds
  <2>2. DOMAIN blocks = 1 .. Len(blocks) /\ Len(blocks) \in Nat
    BY <1>0 DEF IsList
  <2>3. ASSUME pc = "register"
        PROVE  Posted("VoterReg") \subseteq 1 .. index - 1 /\ Posted("Ballot") = {}
    <3>1. index \in Voters /\ Len(blocks) = setupBlocks + index - 1
      BY <2>1, <2>3 DEF ChainHolds, VoterRounds
    <3>2. \A v : v \in Posted("VoterReg") => v \in Voters /\ RegPlace(v) \in DOMAIN blocks
      BY <1>0, <2>1, RegIsInPlace DEF ChainHolds
    <3>3. \A v : v \in Posted("Ballot") => v \in Voters /\ BallotPlace(v) \in DOMAIN blocks
      BY <1>0, <2>1, BallotIsInPlace DEF ChainHolds
    <3>4. ASSUME NEW v \in Posted("VoterReg") PROVE v \in 1 .. index - 1
      BY <2>2, <3>1, <3>2, Counts DEF RegPlace
    <3>5. ASSUME NEW v \in Posted("Ballot") PROVE FALSE
      BY <2>2, <3>1, <3>3, Counts DEF BallotPlace
    <3> QED
      BY <3>4, <3>5
  <2>4. ASSUME pc = "cast"
        PROVE  Posted("Ballot") \subseteq 1 .. index - 1
    <3>1. index \in Voters /\ Len(blocks) = setupBlocks + NumVoters + index - 1
      BY <2>1, <2>4 DEF ChainHolds, VoterRounds
    <3>2. \A v : v \in Posted("Ballot") => v \in Voters /\ BallotPlace(v) \in DOMAIN blocks
      BY <1>0, <2>1, BallotIsInPlace DEF ChainHolds
    <3>3. ASSUME NEW v \in Posted("Ballot") PROVE v \in 1 .. index - 1
      BY <2>2, <3>1, <3>2, Counts DEF BallotPlace
    <3> QED
      BY <3>3
  <2>5. pc \in {"register", "cast"} => Posted("PartialTally") = {}
    BY <2>1 DEF ChainHolds, VoterRounds, VoterLabels
  <2>6. pc = "partial" => Posted("PartialTally") = 1 .. index - 1
    <3>1. pc = "partial" => index \notin Posted("PartialTally")
      BY MintHints DEF Accepts
    <3> QED
      BY <3>1 DEF RInv, MInv, PartialRounds
  <2> QED
    BY <1>2, <2>1, <2>3, <2>4, <2>5, <2>6
<1> QED
  BY <1>1, <1>2, MintHints

\* It is stamped no earlier than any of them.
LEMMA MintIsLatest ==
  ASSUME AsIntended, RInv, NEW blk, MintedHere(blk), Accepts(blk), NEW k \in DOMAIN blocks
  PROVE  /\ blocks[k].time \in Nat /\ blk.time \in Nat
         /\ blocks[k].time <= blk.time
<1> DEFINE b == blocks[k]
           i == b.who
<1>0. zone = 0
  BY ZoneIsLondon
<1>1. Stamped(b) /\ i \in Posted(b.hint)
  BY DEF RInv, MInv, StampsHold, Posted
<1>2. index \in Nat /\ 1 <= index /\ (pc \in {"shares", "public", "partial"} => index \in Trustees)
      /\ (pc \in {"register", "cast"} => index \in Voters)
  BY MintHints, Counts DEF RInv, TInv, RoundsTyped
<1>3. Trustees = 1 .. NumTrustees /\ Voters = 1 .. NumVoters
  BY Counts
<1> HIDE DEF b, i
<1>4. b.hint \in {"TrusteeShares", "TrusteePublic", "VoterReg", "Ballot", "PartialTally"} => i \in Int
  BY <1>1, <1>3 DEF Stamped, i
<1>5. /\ Now \in Nat /\ Hour \in Nat /\ GenesisStamp \in Nat /\ GenesisStamp <= Now
      /\ NumTrustees \in Nat /\ NumVoters \in Nat
      /\ NumTrustees <= 120 /\ 240 < Hour /\ NumVoters < 300 * Hour
  BY <1>0, StampsInNumbers
<1>5a. \A j \in Int : StampedAt(j)
  BY <1>0, StampsInNumbers
<1>6. /\ b.hint = "ElectionSetup" => b.time = GenesisStamp
      /\ b.hint = "TrusteeShares" => i \in Trustees /\ b.time = Now + i
      /\ b.hint = "TrusteePublic" => i \in Trustees /\ b.time = Now + NumTrustees + i
      /\ b.hint = "VoterReg" => i \in Voters /\ b.time = Now + Hour + 1 + i
      /\ b.hint = "Ballot" => i \in Voters /\ b.time = Now + 301 * Hour + 2 + i
      /\ b.hint = "PartialTally" => /\ i \in Trustees
                                    /\ b.time = Now + 601 * Hour + 4 + 30 * (i - 1)
      /\ b.hint \in {"ElectionSetup", "TrusteeShares", "TrusteePublic", "VoterReg", "Ballot",
                     "PartialTally"}
  <2>1. /\ b.hint = "ElectionSetup" => b.time = GenesisStamp
        /\ b.hint = "TrusteeShares" => i \in Trustees /\ b.time = SharesStamp(i)
        /\ b.hint = "TrusteePublic" => i \in Trustees /\ b.time = PublicStamp(i)
        /\ b.hint = "VoterReg" => i \in Voters /\ b.time = RegStamp(i)
        /\ b.hint = "Ballot" => i \in Voters /\ b.time = BallotStamp(i)
        /\ b.hint = "PartialTally" => i \in Trustees /\ b.time = PartialStamp(i)
        /\ b.hint \in {"ElectionSetup", "TrusteeShares", "TrusteePublic", "VoterReg", "Ballot",
                       "PartialTally"}
    BY <1>1 DEF Stamped, i
  <2>2. i \in Int => StampedAt(i)
    BY <1>5a
  <2> QED
    BY <1>4, <2>1, <2>2 DEF StampedAt
<1>7. /\ pc = "shares" => blk.time = Now + index
      /\ pc = "public" => blk.time = Now + NumTrustees + index
      /\ pc = "register" => blk.time = Now + Hour + 1 + index
      /\ pc = "cast" => blk.time = Now + 301 * Hour + 2 + index
      /\ pc = "partial" => blk.time = Now + 601 * Hour + 4 + 30 * (index - 1)
  <2>1. index \in Int
    BY <1>2
  <2>2. StampedAt(index)
    BY <1>5a, <2>1
  <2> QED
    BY <2>2, MintHints DEF StampedAt
<1>8. \A h : b.hint = h => i \in Posted(h)
  BY <1>1
<1>9. b.time \in Nat
  BY <1>3, <1>5, <1>6
<1>10. CASE pc \in {"shares", "public"}
  <2>1. b.hint \in SetupHints
    BY <1>1, <1>10, BlocksBefore
  <2>2. /\ b.hint = "TrusteePublic" => pc = "public" /\ i \in 1 .. index - 1
        /\ b.hint = "TrusteeShares" /\ pc = "shares" => i \in 1 .. index - 1
    BY <1>8, <1>10, BlocksBefore
  <2> QED
    BY <1>2, <1>3, <1>5, <1>6, <1>7, <1>9, <1>10, <2>1, <2>2 DEF SetupHints, b
<1>11. CASE pc = "register"
  <2>1. /\ b.hint \notin {"Ballot", "PartialTally"}
        /\ b.hint = "VoterReg" => i \in 1 .. index - 1
    BY <1>8, <1>11, BlocksBefore
  <2> QED
    BY <1>2, <1>3, <1>5, <1>6, <1>7, <1>9, <1>11, <2>1 DEF b
<1>12. CASE pc = "cast"
  <2>1. /\ b.hint # "PartialTally"
        /\ b.hint = "Ballot" => i \in 1 .. index - 1
    BY <1>8, <1>12, BlocksBefore
  <2> QED
    BY <1>2, <1>3, <1>5, <1>6, <1>7, <1>9, <1>12, <2>1 DEF b
<1>13. CASE pc = "partial"
  <2>1. b.hint = "PartialTally" => i \in 1 .. index - 1
    BY <1>8, <1>13, BlocksBefore
  <2> QED
    BY <1>2, <1>3, <1>5, <1>6, <1>7, <1>9, <1>13, <2>1 DEF b
<1> QED
  BY <1>10, <1>11, <1>12, <1>13, MintHints

-----------------------------------------------------------------------------
\* What a block more does to what the validator's state is read from.
LEMMA PlacesGrow ==
  ASSUME IsList, NEW blk, blocks' = Append(blocks, blk), NEW h, NEW w
  PROVE  At(h, w)' = IF blk.hint = h /\ blk.who = w
                     THEN At(h, w) \cup {Len(blocks) + 1} ELSE At(h, w)
BY ListAppend DEF At

LEMMA PostedAtPlaces ==
  ASSUME NEW h, NEW w
  PROVE  w \in Posted(h) <=> At(h, w) # {}
BY DEF Posted, At

LEMMA KeysGrow ==
  ASSUME IsList, NEW blk, blocks' = Append(blocks, blk),
         blk.hint = "VoterReg" => blk.who \in Voters \ Posted("VoterReg")
  PROVE  RegisteredKey' = IF blk.hint = "VoterReg"
                          THEN [RegisteredKey EXCEPT ![blk.who] = blk.key] ELSE RegisteredKey
<1> DEFINE place(v) == CHOOSE k \in At("VoterReg", v) : TRUE
           chosen(v) == CHOOSE k \in At("VoterReg", v)' : TRUE
           key(v)   == IF v \in Posted("VoterReg") THEN blocks[place(v)].key ELSE NoKey
           new(v)   == IF v \in Posted("VoterReg")' THEN blocks'[chosen(v)].key ELSE NoKey
<1>1. /\ DOMAIN blocks = 1 .. Len(blocks) /\ Len(blocks) \in Nat
      /\ \A k \in DOMAIN blocks : blocks'[k] = blocks[k]
      /\ blocks'[Len(blocks) + 1] = blk
      /\ Posted("VoterReg")' = IF blk.hint = "VoterReg" THEN Posted("VoterReg") \cup {blk.who}
                               ELSE Posted("VoterReg")
  BY ListAppend
<1>2. ASSUME NEW v \in Voters, v \in Posted("VoterReg")
      PROVE  place(v) \in DOMAIN blocks
  <2>1. At("VoterReg", v) # {} /\ At("VoterReg", v) \subseteq DOMAIN blocks
    BY <1>2, PostedAtPlaces DEF At
  <2> QED
    BY <2>1
<1>3. ASSUME NEW v \in Voters, ~(blk.hint = "VoterReg" /\ blk.who = v)
      PROVE  new(v) = key(v)
  <2>1. At("VoterReg", v)' = At("VoterReg", v)
    BY <1>3, PlacesGrow
  <2>2. v \in Posted("VoterReg")' <=> v \in Posted("VoterReg")
    BY <1>1, <1>3
  <2>3. v \in Posted("VoterReg") => blocks'[place(v)].key = blocks[place(v)].key
    BY <1>1, <1>2
  <2> QED
    BY <2>1, <2>2, <2>3
<1>4. ASSUME blk.hint = "VoterReg" PROVE new(blk.who) = blk.key
  <2>1. At("VoterReg", blk.who)' = {Len(blocks) + 1}
    <3>1. At("VoterReg", blk.who) = {}
      BY <1>4, PostedAtPlaces
    <3> QED
      BY <1>4, <3>1, PlacesGrow
  <2>2. chosen(blk.who) = Len(blocks) + 1
    BY <2>1
  <2> QED
    BY <1>1, <1>4, <2>2
<1>5. RegisteredKey = [v \in Voters |-> key(v)] /\ RegisteredKey' = [v \in Voters |-> new(v)]
  BY DEF RegisteredKey
<1> HIDE DEF key, new
<1> QED
  BY <1>3, <1>4, <1>5

LEMMA BallotsGrow ==
  ASSUME IsList, NEW blk, blocks' = Append(blocks, blk), Posted("Ballot") = {} \/ Shape,
         blk.hint = "Ballot" => blk.who \in Voters \ Posted("Ballot")
  PROVE  LastBallot' = IF blk.hint = "Ballot"
                       THEN [LastBallot EXCEPT ![blk.who] = blk.votes] ELSE LastBallot
<1> DEFINE place(v)  == CHOOSE k \in At("Ballot", v) : \A n \in At("Ballot", v) : n <= k
           chosen(v) == CHOOSE k \in At("Ballot", v)' : \A n \in At("Ballot", v)' : n <= k
           vote(v)   == IF v \in Posted("Ballot") THEN blocks[place(v)].votes ELSE NoVote
           new(v)    == IF v \in Posted("Ballot")' THEN blocks'[chosen(v)].votes ELSE NoVote
<1>1. /\ DOMAIN blocks = 1 .. Len(blocks) /\ Len(blocks) \in Nat
      /\ \A k \in DOMAIN blocks : blocks'[k] = blocks[k]
      /\ blocks'[Len(blocks) + 1] = blk
      /\ Posted("Ballot")' = IF blk.hint = "Ballot" THEN Posted("Ballot") \cup {blk.who}
                             ELSE Posted("Ballot")
  BY ListAppend
<1>2. ASSUME NEW v \in Voters, v \in Posted("Ballot")
      PROVE  place(v) \in DOMAIN blocks
  <2>1. Shape
    BY <1>2
  <2>2. At("Ballot", v) = {BallotPlace(v)} /\ At("Ballot", v) \subseteq DOMAIN blocks
    BY <1>2, <2>1, BallotIsInPlace DEF At
  <2>3. BallotPlace(v) <= BallotPlace(v)
    BY Counts DEF BallotPlace
  <2> QED
    BY <2>2, <2>3
<1>3. ASSUME NEW v \in Voters, ~(blk.hint = "Ballot" /\ blk.who = v)
      PROVE  new(v) = vote(v)
  <2>1. At("Ballot", v)' = At("Ballot", v)
    BY <1>3, PlacesGrow
  <2>2. v \in Posted("Ballot")' <=> v \in Posted("Ballot")
    BY <1>1, <1>3
  <2>3. v \in Posted("Ballot") => blocks'[place(v)].votes = blocks[place(v)].votes
    BY <1>1, <1>2
  <2> QED
    BY <2>1, <2>2, <2>3
<1>4. ASSUME blk.hint = "Ballot" PROVE new(blk.who) = blk.votes
  <2>1. At("Ballot", blk.who)' = {Len(blocks) + 1}
    <3>1. At("Ballot", blk.who) = {}
      BY <1>4, PostedAtPlaces
    <3> QED
      BY <1>4, <3>1, PlacesGrow
  <2>2. chosen(blk.who) = Len(blocks) + 1
    BY <1>1, <2>1
  <2> QED
    BY <1>1, <1>4, <2>2
<1>5. LastBallot = [v \in Voters |-> vote(v)] /\ LastBallot' = [v \in Voters |-> new(v)]
  BY DEF LastBallot
<1> HIDE DEF vote, new
<1> QED
  BY <1>3, <1>4, <1>5

LEMMA DiscardedStays ==
  ASSUME IsList, NEW blk, blocks' = Append(blocks, blk),
         blk.hint = "Ballot" => blk.who \notin Posted("Ballot")
  PROVE  Discarded' = Discarded
<1> DEFINE P == {k \in DOMAIN blocks : blocks[k].hint = "Ballot"}
           S == Posted("Ballot")
<1>1. /\ DOMAIN blocks = 1 .. Len(blocks) /\ Len(blocks) \in Nat
      /\ DOMAIN blocks' = 1 .. Len(blocks) + 1
      /\ \A k \in DOMAIN blocks : blocks'[k] = blocks[k]
      /\ blocks'[Len(blocks) + 1] = blk
      /\ S' = IF blk.hint = "Ballot" THEN S \cup {blk.who} ELSE S
  BY ListAppend
<1>2. IsFiniteSet(P)
  <2>1. IsFiniteSet(1 .. Len(blocks))
    BY <1>1, FS_Interval
  <2> QED
    BY <1>1, <2>1, FS_Subset
<1>3. IsFiniteSet(S)
  <2> DEFINE f == [k \in P |-> blocks[k].who]
  <2>1. /\ \A k \in P : f[k] \in S
        /\ \A w \in S : \E k \in P : f[k] = w
    BY DEF Posted
  <2> HIDE DEF P, S
  <2>2. f \in Surjection(P, S)
    BY <2>1 DEF Surjection
  <2> QED
    BY <1>2, <2>2, FS_Surjection
<1>4. P' = IF blk.hint = "Ballot" THEN P \cup {Len(blocks) + 1} ELSE P
  BY <1>1
<1>5. Len(blocks) + 1 \notin P
  BY <1>1
<1>6. Discarded = Cardinality(P) - Cardinality(S) /\ Discarded' = Cardinality(P') - Cardinality(S')
  BY DEF Discarded
<1> HIDE DEF P, S
<1>7. Cardinality(P) \in Nat /\ Cardinality(S) \in Nat
  BY <1>2, <1>3, FS_CardinalityType
<1>8. CASE blk.hint = "Ballot"
  <2>1. blk.who \notin S
    BY <1>8 DEF S
  <2>2. Cardinality(P') = Cardinality(P) + 1 /\ Cardinality(S') = Cardinality(S) + 1
    BY <1>1, <1>2, <1>3, <1>4, <1>5, <1>8, <2>1, FS_AddElement
  <2> QED
    BY <1>6, <1>7, <2>2
<1>9. CASE blk.hint # "Ballot"
  BY <1>1, <1>4, <1>6, <1>9
<1> QED
  BY <1>8, <1>9

-----------------------------------------------------------------------------
\* The state a validator has before and after a block.
LEMMA MintMaps ==
  ASSUME AsIntended, RInv, NEW blk, MintStep(blk)
  PROVE  /\ blocks # <<>> /\ blocks' # <<>> /\ zone \in ZoneShifts /\ zone' = zone
         /\ announced = NoResult /\ announced' = NoResult
         /\ Last(blocks).time \in Nat /\ blk.time \in Nat
         /\ Last(blocks).time <= blk.time /\ Last(blocks').time = blk.time
         /\ \A h : Posted(h)' = IF blk.hint = h THEN Posted(h) \cup {index} ELSE Posted(h)
         /\ RegisteredKey' = IF blk.hint = "VoterReg"
                             THEN [RegisteredKey EXCEPT ![index] = blk.key] ELSE RegisteredKey
         /\ LastBallot' = IF blk.hint = "Ballot"
                          THEN [LastBallot EXCEPT ![index] = blk.votes] ELSE LastBallot
         /\ Discarded = 0 /\ Discarded' = Discarded
<1>1. /\ MintedHere(blk) /\ Accepts(blk) /\ blocks' = Append(blocks, blk) /\ zone' = zone
      /\ announced' = announced /\ blk.who = index
  BY MintHints DEF MintStep, MintAdds
<1>2. announced = NoResult /\ IsList /\ Len(blocks) \in Nat /\ Len(blocks) > 0 /\ blocks # <<>>
  BY <1>1, NothingAnnounced, ChainIsThere
<1>3. /\ DOMAIN blocks = 1 .. Len(blocks) /\ Len(blocks') = Len(blocks) + 1
      /\ blocks'[Len(blocks) + 1] = blk
      /\ \A h : Posted(h)' = IF blk.hint = h THEN Posted(h) \cup {index} ELSE Posted(h)
  BY <1>1, <1>2, ListAppend
<1>4. blocks' # <<>> /\ Last(blocks') = blk
  BY <1>2, <1>3 DEF Last
<1>5. Last(blocks).time \in Nat /\ blk.time \in Nat /\ Last(blocks).time <= blk.time
  <2>1. Len(blocks) \in DOMAIN blocks /\ Last(blocks) = blocks[Len(blocks)]
    BY <1>2, <1>3 DEF Last
  <2> QED
    BY <1>1, <2>1, MintIsLatest
<1>6. zone \in ZoneShifts
  BY DEF RInv, TInv, TypeOK
<1>7. /\ blk.hint = "VoterReg" => blk.who \in Voters \ Posted("VoterReg")
      /\ blk.hint = "Ballot" => blk.who \in Voters \ Posted("Ballot")
  <2>1. pc \in {"register", "cast"} => index \in Voters
    BY DEF RInv, TInv, RoundsTyped
  <2>2. blk.hint = "VoterReg" => pc = "register" /\ index \notin 1 .. index - 1
    BY <1>1, <2>1, MintHints, Counts
  <2>3. blk.hint = "Ballot" => pc = "cast" /\ index \notin 1 .. index - 1
    BY <1>1, <2>1, MintHints, Counts
  <2> QED
    BY <1>1, <2>1, <2>2, <2>3, BlocksBefore
<1>8. Posted("Ballot") = {} \/ Shape
  <2>1. pc \in {"shares", "public"} => Posted("Ballot") = {}
    BY <1>1, BlocksBefore DEF SetupHints
  <2>2. pc \in {"register", "cast", "partial"} => Shape
    BY <1>1, BlocksBefore DEF ChainHolds
  <2> QED
    BY <1>1, <2>1, <2>2, MintHints
<1>9. RegisteredKey' = IF blk.hint = "VoterReg"
                       THEN [RegisteredKey EXCEPT ![index] = blk.key] ELSE RegisteredKey
  BY <1>1, <1>2, <1>7, KeysGrow
<1>10. LastBallot' = IF blk.hint = "Ballot"
                     THEN [LastBallot EXCEPT ![index] = blk.votes] ELSE LastBallot
  BY <1>1, <1>2, <1>7, <1>8, BallotsGrow
<1>11. Discarded = 0
  <2>1. CASE SetupComplete
    BY <2>1, NoneIsDiscarded DEF RInv
  <2>2. CASE ~SetupComplete
    <3>1. Posted("Ballot") = {}
      BY <2>2 DEF RInv, CommandsHold
    <3>2. {k \in DOMAIN blocks : blocks[k].hint = "Ballot"} = {}
      BY <3>1 DEF Posted
    <3> QED
      BY <3>1, <3>2, FS_EmptySet DEF Discarded
  <2> QED
    BY <2>1, <2>2
<1>12. Discarded' = Discarded
  BY <1>1, <1>2, <1>7, DiscardedStays
<1> QED
  BY <1>1, <1>2, <1>3, <1>4, <1>5, <1>6, <1>9, <1>10, <1>11, <1>12

\* The phases are the same in both modules.
LEMMA SamePhases ==
  ASSUME NEW t, NEW time PROVE V!GetPhaseForTime(t, time) = GetPhaseForTime(t, time)
BY DEF V!GetPhaseForTime, GetPhaseForTime, V!Phases, Phases, V!Within, Within, V!NoPhase, NoPhase

LEMMA SameCardinality == ASSUME NEW S PROVE V!Cardinality(S) = Cardinality(S)
BY DEF V!Cardinality, Cardinality, V!IsFiniteSet, IsFiniteSet

\* A block one of whose handlers accepts it is a block offered and accepted.
LEMMA MintIsOffered ==
  ASSUME AsIntended, RInv, NEW blk, MintStep(blk), NEW b, b.time = blk.time,
         ~V!Malformed(b), V!ValidateInPhase(b, GetPhaseForTime(timing, blk.time))
  PROVE  V!Offer(b)
<1> USE MintMaps
<1>1. V!Running /\ (b.hint = "Ballot" => Discarded < NumTrustees)
  <2>1. 0 < NumTrustees
    BY Counts
  <2> QED
    BY <2>1 DEF V!Running
<1>2. /\ (IF blocks = <<>> THEN 0 ELSE Last(blocks).time) <= b.time
      /\ (IF blocks = <<>> THEN 0 ELSE Last(blocks).time)'
           = V!Latest(IF blocks = <<>> THEN 0 ELSE Last(blocks).time, b.time)
  BY DEF V!Latest
<1>3. V!Validate(b)
  <2>1. (IF blocks = <<>> THEN NoSetup ELSE SetupFor(zone)) = SetupFor(zone)
        /\ SetupFor(zone) # NoSetup /\ SetupFor(zone).timing = timing
    BY NoSetupAssumption DEF SetupFor, timing
  <2>2. V!GetPhaseForTime(timing, b.time) = GetPhaseForTime(timing, blk.time)
    BY SamePhases
  <2> QED
    BY <2>1, <2>2 DEF V!Validate
<1> QED
  BY <1>1, <1>2, <1>3 DEF V!Offer

LEMMA OthersAreTheRest ==
  ASSUME NEW i \in Trustees
  PROVE  /\ Len(Others(i)) = NumTrustees - 1 /\ DOMAIN Others(i) = 1 .. NumTrustees - 1
         /\ \A m, n \in DOMAIN Others(i) : Others(i)[m] = Others(i)[n] => m = n
         /\ V!Range(Others(i)) = Trustees \ {i}
<1>1. /\ NumTrustees \in Nat /\ NumTrustees >= 3 /\ Trustees = 1 .. NumTrustees /\ i \in Nat
      /\ 1 <= i /\ i <= NumTrustees
  BY Counts
<1>2. /\ Others(i) \in Seq(Nat) /\ Len(Others(i)) = NumTrustees - 1
      /\ DOMAIN Others(i) = 1 .. NumTrustees - 1
  BY <1>1 DEF Others
<1>3. \A k \in 1 .. NumTrustees - 1 : Others(i)[k] = IF k < i THEN k ELSE k + 1
  BY DEF Others
<1>4. \A m, n \in DOMAIN Others(i) : Others(i)[m] = Others(i)[n] => m = n
  BY <1>1, <1>2, <1>3
<1>5. \A k \in DOMAIN Others(i) : Others(i)[k] \in Trustees \ {i}
  BY <1>1, <1>2, <1>3
<1>6. ASSUME NEW j \in Trustees \ {i} PROVE \E k \in DOMAIN Others(i) : Others(i)[k] = j
  <2>1. CASE j < i
    <3>1. j \in DOMAIN Others(i) /\ Others(i)[j] = j
      BY <1>1, <1>2, <1>3, <2>1
    <3> QED
      BY <3>1
  <2>2. CASE ~(j < i)
    <3>1. j - 1 \in DOMAIN Others(i) /\ Others(i)[j - 1] = j
      BY <1>1, <1>2, <1>3, <2>2
    <3> QED
      BY <3>1
  <2> QED
    BY <2>1, <2>2
<1>7. V!Range(Others(i)) = Trustees \ {i}
  BY <1>5, <1>6 DEF V!Range
<1> QED
  BY <1>2, <1>4, <1>7

\* The posted trustees are all of them only if none is left.
LEMMA NotAllPosted ==
  ASSUME NEW S, S \subseteq Trustees, NEW i \in Trustees \ S
  PROVE  V!Cardinality(S) # NumTrustees
<1>1. IsFiniteSet(Trustees) /\ Cardinality(Trustees) = NumTrustees
  BY Counts, FS_Interval
<1>2. Cardinality(S) = Cardinality(Trustees) => S = Trustees
  BY <1>1, FS_Subset
<1> QED
  BY <1>1, <1>2, SameCardinality

\* The setup a validator has, once there is a chain.
LEMMA SetupInForce ==
  ASSUME blocks # <<>>
  PROVE  /\ (IF blocks = <<>> THEN NoSetup ELSE SetupFor(zone)) = SetupFor(zone)
         /\ SetupFor(zone).trustees = NumTrustees /\ SetupFor(zone).required = TrusteesRequired
         /\ SetupFor(zone).maxChoices = 1 /\ SetupFor(zone).timing = timing
         /\ V!Trustees = Trustees
BY DEF SetupFor, V!Trustees, Trustees, timing

LEMMA SharesAreAccepted ==
  ASSUME AsIntended, RInv, NEW blk, MintStep(blk), pc = "shares"
  PROVE  V!Next
<1>0. PICK b : b = [hint |-> "TrusteeShares", time |-> blk.time, index |-> index,
                 recipients |-> Others(index), signed |-> NumTrustees - 1,
                 broken |-> FALSE]
  OBVIOUS
<1>1. /\ blk.hint = "TrusteeShares" /\ blk.time = SharesStamp(index) /\ index \in Trustees
      /\ Accepts(blk) /\ blk.who = index /\ MintedHere(blk)
  BY MintHints DEF MintStep, MintAdds, RInv, TInv, RoundsTyped
<1>2. /\ Posted("TrusteeShares") = 1 .. index - 1 /\ Posted("TrusteePublic") = {}
      /\ index \notin Posted("TrusteeShares") /\ Posted("TrusteeShares") \subseteq Trustees
      /\ GetPhaseForTime(timing, blk.time) = ParameterConfirmation
  <2>1. Posted("TrusteeShares") = 1 .. index - 1 /\ Posted("TrusteePublic") = {}
    BY <1>1, BlocksBefore
  <2> QED
    BY <1>1, <2>1, Counts DEF Accepts
<1>3. b \in V!SharesBlocks
  BY <1>0, <1>1, MintMaps DEF V!SharesBlocks, Stamps
<1>4. /\ blocks # <<>> /\ blocks' # <<>> /\ zone' = zone /\ announced = NoResult /\ announced' = NoResult
      /\ RegisteredKey' = RegisteredKey /\ LastBallot' = LastBallot /\ Discarded' = Discarded
      /\ Posted("TrusteeShares")' = Posted("TrusteeShares") \cup {index}
      /\ Posted("TrusteePublic")' = Posted("TrusteePublic")
      /\ Posted("PartialTally")' = Posted("PartialTally")
  BY <1>1, MintMaps
<1>5. V!CheckTrusteeShares(b)
  <2>1. ~V!HasAllTrusteeShares
    <3>1. V!Cardinality(Posted("TrusteeShares")) # NumTrustees
      BY <1>1, <1>2, NotAllPosted
    <3> QED
      BY <1>2, <1>4, <3>1, SetupInForce DEF V!HasAllTrusteeShares
  <2>2. V!SharesForTheOthers(index, Others(index))
    <3>1. \A m \in DOMAIN Others(index) : Others(index)[m] \in Trustees \ {index}
      BY <1>1, OthersAreTheRest DEF V!Range
    <3> QED
      BY <1>1, <1>4, <3>1, OthersAreTheRest, SetupInForce DEF V!SharesForTheOthers
  <2>3. [j \in Posted("TrusteeShares") |-> Trustees \ {j}]'
          = [j \in DOMAIN [j \in Posted("TrusteeShares") |-> Trustees \ {j}] \cup {index} |->
               IF j = index THEN V!Range(Others(index))
               ELSE [i \in Posted("TrusteeShares") |-> Trustees \ {i}][j]]
    BY <1>1, <1>2, <1>4, OthersAreTheRest
  <2>4. /\ b.hint = "TrusteeShares" /\ b.index = index /\ b.recipients = Others(index)
        /\ b.signed = Len(Others(index)) /\ ~b.broken
    BY <1>0, <1>1, OthersAreTheRest
  <2>5. index \in V!Trustees \ DOMAIN [j \in Posted("TrusteeShares") |-> Trustees \ {j}]
    BY <1>1, <1>2, <1>4, SetupInForce
  <2>6. Len(Others(index)) \in Nat
    BY <1>1, OthersAreTheRest, Counts
  <2>7. V!Ends(FALSE, TRUE) /\ V!Accepted
    BY <1>4 DEF V!Ends, V!Accepted
  <2> DEFINE shares   == [j \in Posted("TrusteeShares") |-> Trustees \ {j}]
             expected == b.hint = "TrusteeShares" /\ b.index \in V!Trustees \ DOMAIN shares
  <2>8. V!Ends(expected /\ V!ReachesUnsigned(b) /\ b.broken,
               expected /\ V!SharesForTheOthers(b.index, b.recipients)
                        /\ b.signed >= Len(b.recipients))
    BY <2>2, <2>4, <2>5, <2>6, <2>7 DEF V!Ends
  <2>9. shares' = IF V!Accepted
                  THEN [j \in DOMAIN shares \cup {b.index} |->
                          IF j = b.index THEN V!Range(b.recipients) ELSE shares[j]]
                  ELSE shares
    BY <2>3, <2>4, <2>7
  <2>10. /\ SetupFor(zone)' = SetupFor(zone)
         /\ (IF Posted("PartialTally") = {} THEN NoTally
             ELSE [x \in Ballots |-> Cardinality({v \in Voters : LastBallot[v] = x})])'
             = (IF Posted("PartialTally") = {} THEN NoTally
                ELSE [x \in Ballots |-> Cardinality({v \in Voters : LastBallot[v] = x})])
    BY <1>4 DEF SetupFor, TimingFor
  <2> QED
    BY <1>4, <2>1, <2>8, <2>9, <2>10 DEF V!CheckTrusteeShares, V!voterVars, V!tallyVars
<1>6. b.time = blk.time /\ ~V!Malformed(b)
  BY <1>0 DEF V!Malformed
<1>7. V!Offer(b)
  <2>1. V!ValidateInPhase(b, GetPhaseForTime(timing, blk.time))
    BY <1>2, <1>5 DEF V!ValidateInPhase, V!ParameterConfirmation, ParameterConfirmation
  <2> QED
    BY <1>6, <2>1, MintIsOffered
<1> QED
  BY <1>3, <1>7 DEF V!Next

LEMMA ShardKeysAreAccepted ==
  ASSUME AsIntended, RInv, NEW blk, MintStep(blk), pc = "public"
  PROVE  V!Next
<1>0. PICK b : b = [hint |-> "TrusteePublic", time |-> blk.time, index |-> index,
                 signed |-> "valid", shardKey |-> "valid"]
  OBVIOUS
<1>1. /\ blk.hint = "TrusteePublic" /\ blk.time = PublicStamp(index) /\ index \in Trustees
      /\ Accepts(blk) /\ blk.who = index /\ MintedHere(blk)
  BY MintHints DEF MintStep, MintAdds, RInv, TInv, RoundsTyped
<1>2. /\ Posted("TrusteeShares") = Trustees
      /\ index \notin Posted("TrusteePublic") /\ Posted("TrusteePublic") \subseteq Trustees
      /\ GetPhaseForTime(timing, blk.time) = ParameterConfirmation
  <2>1. Posted("TrusteeShares") = Trustees /\ Posted("TrusteePublic") = 1 .. index - 1
    BY <1>1, BlocksBefore
  <2> QED
    BY <1>1, <2>1, Counts DEF Accepts
<1>3. b \in V!PublicBlocks
  BY <1>0, <1>1, MintMaps DEF V!PublicBlocks, V!Verdicts, Stamps
<1>4. /\ blocks # <<>> /\ blocks' # <<>> /\ zone' = zone /\ announced = NoResult /\ announced' = NoResult
      /\ RegisteredKey' = RegisteredKey /\ LastBallot' = LastBallot /\ Discarded' = Discarded
      /\ Posted("TrusteeShares")' = Posted("TrusteeShares")
      /\ Posted("TrusteePublic")' = Posted("TrusteePublic") \cup {index}
      /\ Posted("PartialTally")' = Posted("PartialTally")
  BY <1>1, MintMaps
<1>5. V!CheckTrusteePublic(b)
  <2>1. V!HasAllTrusteeShares
    <3>1. V!Cardinality(Trustees) = NumTrustees
      BY Counts, FS_Interval, SameCardinality
    <3>2. DOMAIN [j \in Posted("TrusteeShares") |-> Trustees \ {j}] = Trustees
      BY <1>2
    <3> QED
      BY <1>4, <3>1, <3>2, SetupInForce DEF V!HasAllTrusteeShares
  <2>2. ~V!HasAllTrusteePublic
    <3>1. V!Cardinality(Posted("TrusteePublic")) # NumTrustees
      BY <1>1, <1>2, NotAllPosted
    <3> QED
      BY <1>4, <3>1, SetupInForce DEF V!HasAllTrusteePublic
  <2>3. /\ b.hint = "TrusteePublic" /\ b.index = index /\ b.signed = "valid"
        /\ b.shardKey = "valid" /\ SetupFor(zone).exponents = "enough"
    BY <1>0 DEF SetupFor
  <2>4. index \in V!Trustees \ Posted("TrusteePublic") /\ Posted("TrusteePublic")' # {}
    BY <1>1, <1>2, <1>4, SetupInForce
  <2> QED
    BY <1>4, <2>1, <2>2, <2>3, <2>4 DEF V!CheckTrusteePublic, V!Ends, V!Accepted, V!voterVars, V!tallyVars
<1>6. b.time = blk.time /\ ~V!Malformed(b)
  BY <1>0 DEF V!Malformed
<1>7. V!Offer(b)
  <2>1. V!ValidateInPhase(b, GetPhaseForTime(timing, blk.time))
    BY <1>2, <1>5 DEF V!ValidateInPhase, V!ParameterConfirmation, ParameterConfirmation
  <2> QED
    BY <1>6, <2>1, MintIsOffered
<1> QED
  BY <1>3, <1>7 DEF V!Next

\* The voter at whose turn it is has been drawn, as its file has it.
LEMMA VoterOfTheTurn ==
  ASSUME RInv, pc \in {"register", "cast"}
  PROVE  /\ index \in Voters /\ voters[index] \in Draws /\ voterFile[index] = voters[index]
         /\ voters[index].key \in Keys /\ voters[index].key # NoKey
         /\ voters[index].ballot \in Ballots
<1>1. pc \in VoterLabels /\ SetupComplete /\ VoterRounds
  BY DEF RInv, CommandsHold, VInv, ChainHolds, VoterLabels
<1>2. index \in Voters /\ voters[index] # NoDraw
  BY Counts DEF RInv, TInv, RoundsTyped
<1>3. voters \in [Voters -> Draws \cup {NoDraw}]
  BY DEF RInv, VInv, VoterTypes
<1>4. voters[index] \in Draws
  BY <1>2, <1>3
<1>5. voterFile[index] = voters[index]
  BY <1>1 DEF VoterRounds
<1> QED
  BY <1>2, <1>4, <1>5, NothingAssumption DEF Draws

LEMMA RegistrationsAreAccepted ==
  ASSUME AsIntended, RInv, NEW blk, MintStep(blk), pc = "register"
  PROVE  V!Next
<1>0. PICK b : b = [hint |-> "VoterReg", time |-> blk.time, voter |-> index,
                    key |-> blk.key, signed |-> "valid"]
  OBVIOUS
<1>1. /\ blk.hint = "VoterReg" /\ blk.time = RegStamp(index) /\ index \in Voters
      /\ Accepts(blk) /\ blk.who = index /\ MintedHere(blk) /\ blk.key = voters[index].key
      /\ blk.key \in Keys /\ blk.key # NoKey
  BY MintHints, VoterOfTheTurn DEF MintStep, MintAdds
<1>2. /\ index \notin Posted("VoterReg")
      /\ GetPhaseForTime(timing, blk.time) = VoterRegistration
  BY <1>1 DEF Accepts
<1>3. b \in V!RegistrationBlocks
  <2>1. blk.time \in Stamps
    BY <1>1, MintMaps DEF RegStamp, Stamps, timing
  <2> QED
    BY <1>0, <1>1, <2>1 DEF V!RegistrationBlocks, V!Verdicts
<1>4. /\ blocks # <<>> /\ blocks' # <<>> /\ zone' = zone /\ announced = NoResult /\ announced' = NoResult
      /\ RegisteredKey' = [RegisteredKey EXCEPT ![index] = blk.key]
      /\ LastBallot' = LastBallot /\ Discarded' = Discarded
      /\ Posted("TrusteeShares")' = Posted("TrusteeShares")
      /\ Posted("TrusteePublic")' = Posted("TrusteePublic")
      /\ Posted("PartialTally")' = Posted("PartialTally")
  BY <1>1, MintMaps
<1>5. V!CheckVoterRegistration(b)
  <2>1. RegisteredKey[index] = NoKey
    BY <1>1, <1>2 DEF RegisteredKey
  <2>2. /\ b.hint = "VoterReg" /\ b.voter = index /\ b.key = blk.key /\ b.key # NoKey
        /\ b.signed = "valid"
    BY <1>0, <1>1
  <2>3. (IF Posted("PartialTally") = {} THEN NoTally
         ELSE [x \in Ballots |-> Cardinality({v \in Voters : LastBallot[v] = x})])'
          = (IF Posted("PartialTally") = {} THEN NoTally
             ELSE [x \in Ballots |-> Cardinality({v \in Voters : LastBallot[v] = x})])
    BY <1>4
  <2> QED
    BY <1>4, <2>1, <2>2, <2>3
       DEF V!CheckVoterRegistration, V!Ends, V!Accepted, V!setupVars, V!tallyVars
<1>6. b.time = blk.time /\ ~V!Malformed(b)
  BY <1>0, <1>1 DEF V!Malformed
<1>7. V!Offer(b)
  <2>1. V!ValidateInPhase(b, GetPhaseForTime(timing, blk.time))
    BY <1>2, <1>5 DEF V!ValidateInPhase, V!VoterRegistration, VoterRegistration
  <2> QED
    BY <1>6, <2>1, MintIsOffered
<1> QED
  BY <1>3, <1>7 DEF V!Next

\* makeVotes makes a list with a vote for each candidate,
LEMMA ListsOfVotes ==
  ASSUME NEW x \in Ballots
  PROVE  /\ Cardinality(Candidates) \in Nat /\ Cardinality(Candidates) >= 2
         /\ V!Cardinality(Candidates) = Cardinality(Candidates)
         /\ Plain[x] \in Seq(0 .. 1) /\ Len(Plain[x]) = Cardinality(Candidates)
         /\ DOMAIN Plain[x] = Candidates
         /\ SubSeq(Plain[x], 1, Cardinality(Candidates)) = Plain[x]
<1>1. /\ Cardinality(Candidates) \in Nat /\ Cardinality(Candidates) >= 2
      /\ Candidates = 1 .. Cardinality(Candidates) /\ Plain[x] \in [Candidates -> 0 .. 1]
  BY VotesAssumption, FS_CardinalityType
<1> DEFINE n == Cardinality(Candidates)
<1> HIDE DEF n
<1>2. n \in Nat /\ Plain[x] \in [1 .. n -> 0 .. 1]
  BY <1>1 DEF n
<1>3. Plain[x] \in Seq(0 .. 1) /\ Len(Plain[x]) = n /\ DOMAIN Plain[x] = 1 .. n
  BY <1>2
<1>4. SubSeq(Plain[x], 1, n) = Plain[x]
  BY <1>2, <1>3
<1> QED
  BY <1>1, <1>3, <1>4, SameCardinality DEF n

\* and a vote for one of them at most, which is what its proofs are about.
LEMMA BallotsHaveProofs ==
  ASSUME blocks # <<>>, NEW b, b.votes \in Ballots, b.proven = "valid",
         b.proofs = Cardinality(Candidates)
  PROVE  V!BallotProven(b)
<1>0. PICK x \in Ballots : x = b.votes
  OBVIOUS
<1>1. /\ IsFiniteSet(Candidates) /\ Plain[x] \in [Candidates -> 0 .. 1]
      /\ \A c, d \in Candidates : Plain[x][c] = 1 /\ Plain[x][d] = 1 => c = d
  BY VotesAssumption
<1> DEFINE T == {c \in Candidates : Plain[x][c] = 1}
<1>2. Cardinality(T) <= 1 /\ Cardinality(T) \in Nat
  <2>1. CASE T = {}
    <3> HIDE DEF T
    <3> QED
      BY <2>1, FS_EmptySet
  <2>2. CASE T # {}
    <3>1. PICK c \in T : T = {c}
      BY <1>1, <2>2
    <3>2. Cardinality({c}) = 1
      BY FS_Singleton
    <3> HIDE DEF T
    <3> QED
      BY <3>1, <3>2
  <2> QED
    BY <2>1, <2>2
<1>3. SumOver(Plain[x], Candidates) <= Cardinality(T)
  <2>1. /\ T \in SUBSET Candidates
        /\ \A c \in Candidates : Plain[x][c] \in 0 .. 1 /\ (c \notin T => Plain[x][c] = 0)
    BY <1>1
  <2> HIDE DEF T
  <2> QED
    BY <1>1, <2>1, SumOfOnes
<1>4. Total(Plain[x]) = SumOver(Plain[x], Candidates)
  BY <1>1, TotalIsSum
<1>5. SumOver(Plain[x], Candidates) \in Int
  BY <1>1, SumTakesOutAny
<1>6. V!Total(Plain[x]) = Total(Plain[x])
  BY DEF V!Total, Total, V!FoldFunction, FoldFunction, V!FoldFunctionOnSet, FoldFunctionOnSet,
         V!MapThenFoldSet, MapThenFoldSet
<1> HIDE DEF T
<1>7. V!Total(Plain[x]) <= 1 /\ V!Total(Plain[x]) \in Nat
  <2>1. SumOver(Plain[x], Candidates) >= 0
    BY <1>1, SumOfNaturals
  <2> QED
    BY <1>2, <1>3, <1>4, <1>5, <1>6, <2>1
<1>8. V!Total(Plain[x]) % Order <= 1
  <2>1. Order \in Nat /\ Order > 0
    BY OrderAssumption, FlagsAssumption
  <2>2. V!Total(Plain[x]) % Order \in Nat /\ V!Total(Plain[x]) % Order <= V!Total(Plain[x])
    BY <1>7, <2>1, RemainderIsNoMore
  <2> QED
    BY <1>7, <2>2
<1>9. V!ProofsHold(b)
  BY <1>0, <1>1, ListsOfVotes DEF V!ProofsHold
<1>10. b.proofs \in 1 .. Len(Plain[x]) /\ SubSeq(Plain[x], 1, b.proofs) = Plain[x]
  BY ListsOfVotes
<1>11. (IF blocks = <<>> THEN NoSetup ELSE SetupFor(zone)).maxChoices = 1
  BY SetupInForce
<1> QED
  BY <1>0, <1>8, <1>9, <1>10, <1>11 DEF V!BallotProven

\* The ballot is signed with the key its voter is registered with.
LEMMA KeyIsRegistered ==
  ASSUME RInv, pc = "cast", SetupComplete, index \in Posted("VoterReg")
  PROVE  RegisteredKey[index] = voters[index].key
<1>1. IsList /\ Shape /\ FilesHold
  BY DEF RInv, VInv, VoterTypes, ChainHolds
<1>2. /\ index \in Voters /\ RegPlace(index) \in DOMAIN blocks
      /\ At("VoterReg", index) = {RegPlace(index)}
  BY <1>1, RegIsInPlace
<1>3. blocks[RegPlace(index)].key = voterFile[index].key
  BY <1>1, <1>2 DEF FilesHold
<1>4. RegisteredKey[index] = blocks[RegPlace(index)].key
  <2>1. (CHOOSE k \in At("VoterReg", index) : TRUE) = RegPlace(index)
    BY <1>2
  <2> QED
    BY <1>2, <2>1 DEF RegisteredKey
<1> QED
  BY <1>3, <1>4, VoterOfTheTurn

LEMMA BallotsAreAccepted ==
  ASSUME AsIntended, RInv, NEW blk, MintStep(blk), pc = "cast"
  PROVE  V!Next
<1>0. PICK b : b = [hint |-> "Ballot", time |-> blk.time, voter |-> index, votes |-> blk.votes,
                    signer |-> blk.key, proofs |-> Cardinality(Candidates), proven |-> "valid"]
  OBVIOUS
<1>1. /\ blk.hint = "Ballot" /\ blk.time = BallotStamp(index) /\ index \in Voters
      /\ Accepts(blk) /\ blk.who = index /\ MintedHere(blk) /\ blk.key = voters[index].key
      /\ blk.key \in Keys /\ blk.key # NoKey
      /\ blk.votes = voters[index].ballot /\ blk.votes \in Ballots
  BY MintHints, VoterOfTheTurn DEF MintStep, MintAdds
<1>2. /\ index \in Posted("VoterReg") /\ SetupComplete /\ index \notin Posted("Ballot")
      /\ GetPhaseForTime(timing, blk.time) = VoteCasting
  <2>1. Posted("Ballot") \subseteq 1 .. index - 1 /\ SetupComplete
    BY <1>1, BlocksBefore
  <2> QED
    BY <1>1, <2>1, Counts DEF Accepts
<1>3. b \in V!BallotBlocks
  <2>1. blk.time \in Stamps
    BY <1>1, MintMaps DEF BallotStamp, Stamps, timing
  <2> QED
    BY <1>0, <1>1, <2>1, ListsOfVotes DEF V!BallotBlocks, V!Verdicts
<1>4. /\ blocks # <<>> /\ blocks' # <<>> /\ zone' = zone /\ announced = NoResult /\ announced' = NoResult
      /\ LastBallot' = [LastBallot EXCEPT ![index] = blk.votes]
      /\ RegisteredKey' = RegisteredKey /\ Discarded' = Discarded
      /\ Posted("TrusteeShares")' = Posted("TrusteeShares")
      /\ Posted("TrusteePublic")' = Posted("TrusteePublic")
      /\ Posted("PartialTally")' = Posted("PartialTally")
      /\ Posted("PartialTally") = {}
  BY <1>1, MintMaps, BlocksBefore
<1>5. V!CheckVoteCast(b)
  <2>1. RegisteredKey[index] = blk.key /\ RegisteredKey[index] # NoKey
    BY <1>1, <1>2, KeyIsRegistered
  <2>2. LastBallot[index] = NoVote
    BY <1>1, <1>2 DEF LastBallot
  <2>3. /\ b.hint = "Ballot" /\ b.voter = index /\ b.votes = blk.votes /\ b.signer = blk.key
        /\ b.proven = "valid" /\ b.proofs = Cardinality(Candidates)
    BY <1>0
  <2>4. V!BallotProven(b)
    BY <1>1, <1>4, <2>3, BallotsHaveProofs
  <2>5. ~V!ProvingPanics(b)
    <3>1. SetupFor(zone).exponents = "enough"
      BY DEF SetupFor
    <3>2. b.votes # NoVote
      BY <1>1, <2>3, DrawAssumption
    <3> QED
      BY <1>1, <1>4, <2>3, <3>1, <3>2, ListsOfVotes, SetupInForce DEF V!ProvingPanics
  <2>6. b.votes # NoVote
    BY <1>1, <2>3, DrawAssumption
  <2> QED
    BY <1>1, <1>4, <2>1, <2>2, <2>3, <2>4, <2>5, <2>6
       DEF V!CheckVoteCast, V!Ends, V!Accepted, V!setupVars, V!tallyVars
<1>6. b.time = blk.time /\ ~V!Malformed(b)
  <2>1. b.votes \in Ballots /\ b.votes # NoVote /\ b.signer # NoKey
    BY <1>0, <1>1, DrawAssumption
  <2> QED
    BY <1>0, <2>1, ListsOfVotes DEF V!Malformed
<1>7. V!Offer(b)
  <2>1. V!ValidateInPhase(b, GetPhaseForTime(timing, blk.time))
    BY <1>2, <1>5 DEF V!ValidateInPhase, V!VoteCasting, VoteCasting
  <2> QED
    BY <1>6, <2>1, MintIsOffered
<1> QED
  BY <1>3, <1>7 DEF V!Next

\* The ballots that count are ballots of voters that have one on the chain.
LEMMA BallotsThatCount ==
  ASSUME RInv, SetupComplete
  PROVE  /\ LastBallot \in [Voters -> Ballots \cup {NoVote}]
         /\ Posted("Ballot") \subseteq Voters
         /\ \A v \in Voters : LastBallot[v] # NoVote <=> v \in Posted("Ballot")
<1>1. /\ IsList /\ Shape /\ FilesHold /\ BallotsHold /\ DOMAIN blocks = 1 .. Len(blocks)
      /\ Len(blocks) \in Nat
  BY DEF RInv, VInv, VoterTypes, ChainHolds, IsList
<1>2. Posted("Ballot") \subseteq Voters
  BY <1>1, BallotIsInPlace
<1>3. ASSUME NEW v \in Posted("Ballot") PROVE LastBallot[v] \in Ballots
  <2>1. /\ v \in Voters /\ BallotPlace(v) \in DOMAIN blocks
        /\ blocks[BallotPlace(v)].hint = "Ballot"
    BY <1>1, BallotIsInPlace
  <2>2. RegPlace(v) \in DOMAIN blocks
    BY <1>1, <2>1, Counts DEF RegPlace, BallotPlace
  <2>3. voterFile[v] # NoDraw /\ blocks[BallotPlace(v)].votes = voterFile[v].ballot
    BY <1>1, <2>1, <2>2 DEF FilesHold, BallotsHold
  <2>4. voterFile[v] \in Draws
    BY <2>1, <2>3 DEF RInv, VInv, VoterTypes
  <2>5. LastBallot[v] = blocks[BallotPlace(v)].votes
    BY <1>1, <2>1, LastBallotOfShape
  <2> QED
    BY <2>3, <2>4, <2>5 DEF Draws
<1>4. \A v \in Voters \ Posted("Ballot") : LastBallot[v] = NoVote
  BY DEF LastBallot
<1>5. LastBallot = [v \in Voters |-> LastBallot[v]]
  BY DEF LastBallot
<1> QED
  BY <1>2, <1>3, <1>4, <1>5, DrawAssumption

\* The tally a validator has, or makes, of them.
LEMMA SameTally ==
  V!EncryptedTally(LastBallot) = [x \in Ballots |-> Cardinality({v \in Voters : LastBallot[v] = x})]
BY SameCardinality DEF V!EncryptedTally

\* Once somebody voted it is a tally that can be compared with what is posted.
LEMMA TallyIsComparable ==
  ASSUME RInv, SetupComplete, Posted("Ballot") # {}
  PROVE  /\ V!EncryptedTally(LastBallot) # NoTally
         /\ ~V!ComparingPanics(V!EncryptedTally(LastBallot), V!EncryptedTally(LastBallot))
<1>1. PICK v \in Voters : LastBallot[v] \in Ballots
  BY BallotsThatCount
<1> DEFINE S == {w \in Voters : LastBallot[w] = LastBallot[v]}
<1>2. Cardinality(S) # 0
  <2>1. IsFiniteSet(Voters)
    BY Counts, FS_Interval
  <2>2. S # {} /\ IsFiniteSet(S)
    BY <2>1, FS_Subset
  <2> HIDE DEF S
  <2> QED
    BY <2>2, FS_EmptySet
<1>3. V!EncryptedTally(LastBallot)[LastBallot[v]] = Cardinality(S)
  BY <1>1, SameTally
<1> HIDE DEF S
<1>4. ASSUME NEW c \in Candidates PROVE ~V!EmptyFor(c, V!EncryptedTally(LastBallot))
  BY <1>1, <1>2, <1>3, ListsOfVotes DEF V!EmptyFor
<1>5. V!EncryptedTally(LastBallot) \in [Ballots -> Nat]
  <2>1. IsFiniteSet(Voters)
    BY Counts, FS_Interval
  <2>2. ASSUME NEW x \in Ballots PROVE Cardinality({w \in Voters : LastBallot[w] = x}) \in Nat
    <3>1. IsFiniteSet({w \in Voters : LastBallot[w] = x})
      BY <2>1, FS_Subset
    <3> QED
      BY <3>1, FS_CardinalityType
  <2> QED
    BY <2>2, SameTally
<1> QED
  BY <1>4, <1>5, NoTallyAssumption DEF V!ComparingPanics

LEMMA PartialsAreAccepted ==
  ASSUME AsIntended, RInv, NEW blk, MintStep(blk), pc = "partial"
  PROVE  V!Next
<1>0. PICK b : b = [hint |-> "PartialTally", time |-> blk.time, index |-> index,
                    tally |-> V!EncryptedTally(LastBallot), signed |-> "valid",
                    decryption |-> "valid"]
  OBVIOUS
<1>1. /\ blk.hint = "PartialTally" /\ blk.time = PartialStamp(index) /\ index \in Trustees
      /\ Accepts(blk) /\ blk.who = index /\ MintedHere(blk)
  BY MintHints DEF MintStep, MintAdds, RInv, TInv, RoundsTyped
<1>2. /\ index \notin Posted("PartialTally") /\ SetupComplete /\ Posted("Ballot") # {}
      /\ index \in Posted("TrusteePublic")
      /\ GetPhaseForTime(timing, blk.time) = TallyDecryption
  <2>1. SetupComplete
    BY <1>1, BlocksBefore
  <2>2. Posted("Ballot") # {}
    BY <2>1 DEF RInv, VInv, ChainHolds, VoterRounds
  <2> QED
    BY <1>1, <2>1, <2>2 DEF Accepts
<1>3. b \in V!PartialTallyBlocks
  <2>1. blk.time \in Stamps
    BY <1>1, MintMaps DEF PartialStamp, Stamps, timing
  <2>2. V!EncryptedTally(LastBallot)
          \in {V!EncryptedTally(cast) : cast \in [Voters -> (Ballots \ {}) \cup {NoVote}]}
    BY <1>2, BallotsThatCount
  <2> QED
    BY <1>0, <1>1, <2>1, <2>2 DEF V!PartialTallyBlocks, V!Verdicts
<1>4. /\ blocks # <<>> /\ blocks' # <<>> /\ zone' = zone /\ announced = NoResult /\ announced' = NoResult
      /\ LastBallot' = LastBallot
      /\ RegisteredKey' = RegisteredKey /\ Discarded' = Discarded
      /\ Posted("TrusteeShares")' = Posted("TrusteeShares")
      /\ Posted("TrusteePublic")' = Posted("TrusteePublic")
      /\ Posted("PartialTally")' = Posted("PartialTally") \cup {index}
  BY <1>1, MintMaps
<1>5. V!CheckPartialTally(b)
  <2>1. /\ b.hint = "PartialTally" /\ b.index = index /\ b.tally = V!EncryptedTally(LastBallot)
        /\ b.signed = "valid" /\ b.decryption = "valid"
    BY <1>0
  <2>2. index \in V!Trustees \ Posted("PartialTally")
    BY <1>1, <1>2, <1>4, SetupInForce
  <2>3. V!LocalTally = V!EncryptedTally(LastBallot) /\ ~V!LocalTallyPanics
    <3>1. \A v \in Voters : LastBallot[v] # NoVote => LastBallot[v] \in Ballots
      BY <1>2, BallotsThatCount
    <3>2. \A v \in Voters : LastBallot[v] # NoVote => ~(Len(Plain[LastBallot[v]]) > V!Cardinality(Candidates))
      BY <3>1, ListsOfVotes
    <3> QED
      BY <1>2, <3>2, SameTally DEF V!LocalTally, V!LocalTallyPanics
  <2>4. ~V!ComparingPanics(b.tally, V!LocalTally)
    BY <1>2, <2>1, <2>3, TallyIsComparable
  <2>6. \A c \in Candidates : V!SameFor(c, b.tally, V!LocalTally)
    BY <2>1, <2>3 DEF V!SameFor
  <2>5. (IF Posted("PartialTally") = {} THEN NoTally
         ELSE [x \in Ballots |-> Cardinality({v \in Voters : LastBallot[v] = x})])'
          = V!EncryptedTally(LastBallot)
    BY <1>4, SameTally
  <2> QED
    BY <1>2, <1>4, <2>1, <2>2, <2>3, <2>4, <2>5, <2>6
       DEF V!CheckPartialTally, V!Ends, V!Accepted, V!setupVars, V!voterVars
<1>6. b.time = blk.time /\ ~V!Malformed(b)
  <2>1. b.tally # NoTally
    BY <1>0, <1>2, TallyIsComparable
  <2> QED
    BY <1>0, <2>1 DEF V!Malformed
<1>7. V!Offer(b)
  <2>1. V!ValidateInPhase(b, GetPhaseForTime(timing, blk.time))
    BY <1>2, <1>5 DEF V!ValidateInPhase, V!TallyDecryption, TallyDecryption
  <2> QED
    BY <1>6, <2>1, MintIsOffered
<1> QED
  BY <1>3, <1>7 DEF V!Next

-----------------------------------------------------------------------------
(* The steps that make no block of a loop: the start of an election and its  *)
(* genesis block, and the queries.                                          *)
IsBare(chain) == \A k \in DOMAIN chain : chain[k].hint = "ElectionSetup"
NothingRead ==
  /\ [j \in Posted("TrusteeShares") |-> Trustees \ {j}] = <<>>
  /\ Posted("TrusteePublic") = {} /\ Posted("PartialTally") = {}
  /\ RegisteredKey = [v \in Voters |-> NoKey] /\ LastBallot = [v \in Voters |-> NoVote]
  /\ Discarded = 0

\* Nothing is read from a chain with no more than a genesis block,
LEMMA BareChain == IsBare(blocks) => NothingRead
<1> SUFFICES ASSUME IsBare(blocks) PROVE NothingRead
  OBVIOUS
<1>1. \A h : h # "ElectionSetup" => Posted(h) = {}
  BY DEF IsBare, Posted
<1>2. {k \in DOMAIN blocks : blocks[k].hint = "Ballot"} = {}
  BY DEF IsBare
<1>3. Discarded = 0
  BY <1>1, <1>2, FS_EmptySet DEF Discarded
<1> QED
  BY <1>1, <1>3 DEF NothingRead, RegisteredKey, LastBallot

\* before a step and after it.
LEMMA BareChainNext == IsBare(blocks') => NothingRead'
<1> SUFFICES ASSUME IsBare(blocks') PROVE NothingRead'
  OBVIOUS
<1>1. \A h : h # "ElectionSetup" => Posted(h)' = {}
  BY DEF IsBare, Posted
<1>2. {k \in DOMAIN blocks' : blocks'[k].hint = "Ballot"} = {}
  BY DEF IsBare
<1>3. Discarded' = 0
  BY <1>1, <1>2, FS_EmptySet DEF Discarded
<1> QED
  BY <1>1, <1>3 DEF NothingRead, RegisteredKey, LastBallot

LEMMA InitIsANewValidator == ASSUME Init PROVE V!Init
<1>1. blocks = <<>> /\ announced = NoResult
  BY DEF Init
<1>2. IsBare(blocks)
  BY <1>1 DEF IsBare
<1>3. NothingRead
  BY <1>2, BareChain
<1> QED
  BY <1>1, <1>3 DEF V!Init, NothingRead

LEMMA NewElectionIsANewValidator == ASSUME StartAuthority PROVE V!Init'
<1>1. blocks' = <<>> /\ announced' = NoResult
  BY DEF StartAuthority
<1>2. IsBare(blocks')
  BY <1>1 DEF IsBare
<1>3. NothingRead'
  BY <1>2, BareChainNext
<1> QED
  BY <1>1, <1>3 DEF V!Init, NothingRead

\* The genesis block is accepted: its phases are in order, and after its stamp.
LEMMA SetupIsValid ==
  ASSUME AsIntended, zone = 0
  PROVE  V!ValidSetup(SetupFor(zone), GenesisStamp)
<1>1. /\ Now \in Nat /\ Hour \in Nat /\ GenesisStamp \in Nat /\ GenesisStamp <= Now
      /\ NumTrustees \in Nat /\ NumTrustees >= 3 /\ TrusteesRequired \in 2 .. NumTrustees
  BY StampsInNumbers, FlagsAssumption
<1>2. /\ timing.opens[1] = Now /\ timing.closes[1] = Now + Hour
      /\ timing.opens[2] = Now + Hour + 1 /\ timing.closes[2] = Now + 301 * Hour + 1
      /\ timing.opens[3] = Now + 301 * Hour + 2 /\ timing.closes[3] = Now + 601 * Hour + 2
      /\ timing.opens[4] = Now + 601 * Hour + 3 /\ timing.closes[4] = Now + 602 * Hour + 3
  <2>1. zone \in Int
    BY SMT
  <2>2. /\ timing.opens[1] = Now + zone /\ timing.closes[1] = Now + zone + Hour
        /\ timing.opens[2] = Now + zone + Hour + 1
        /\ timing.closes[2] = Now + zone + 301 * Hour + 1
        /\ timing.opens[3] = Now + zone + 301 * Hour + 2
        /\ timing.closes[3] = Now + zone + 601 * Hour + 2
        /\ timing.opens[4] = Now + zone + 601 * Hour + 3
        /\ timing.closes[4] = Now + zone + 602 * Hour + 3
    BY <2>1, Bounds DEF timing
  <2>3. Now + zone = Now
    BY <1>1
  <2> QED
    BY <2>2, <2>3
<1>3. V!PhasesInOrder(timing, GenesisStamp)
  <2>1. V!CheckPhase(timing, 1, GenesisStamp)
    BY <1>1, <1>2 DEF V!CheckPhase
  <2>2. \A p \in 2 .. 4 : V!CheckPhase(timing, p, timing.closes[p - 1])
    <3>1. V!CheckPhase(timing, 2, timing.closes[1])
      BY <1>1, <1>2 DEF V!CheckPhase
    <3>2. V!CheckPhase(timing, 3, timing.closes[2])
      BY <1>1, <1>2 DEF V!CheckPhase
    <3>3. V!CheckPhase(timing, 4, timing.closes[3])
      BY <1>1, <1>2 DEF V!CheckPhase
    <3>4. \A p \in 2 .. 4 : (p = 2 /\ p - 1 = 1) \/ (p = 3 /\ p - 1 = 2) \/ (p = 4 /\ p - 1 = 3)
      OBVIOUS
    <3> QED
      BY <3>1, <3>2, <3>3, <3>4
  <2> QED
    BY <2>1, <2>2 DEF V!PhasesInOrder
<1>4. V!Cardinality(Candidates) \in Nat /\ V!Cardinality(Candidates) >= 2
  BY SameCardinality, VotesAssumption, FS_CardinalityType
<1>5. /\ SetupFor(zone).params = "valid" /\ SetupFor(zone).parties = "valid"
      /\ SetupFor(zone).trustees = NumTrustees
      /\ SetupFor(zone).required = TrusteesRequired /\ SetupFor(zone).maxChoices = 1
      /\ SetupFor(zone).timing = timing
  BY DEF SetupFor, timing
<1> QED
  BY <1>1, <1>3, <1>4, <1>5 DEF V!ValidSetup, V!NumbersInRange

LEMMA GenesisIsAccepted ==
  ASSUME AsIntended, RInv, CreateGenesis
  PROVE  V!Next
<1>0. PICK b : b = [hint |-> "ElectionSetup", time |-> GenesisStamp, data |-> SetupFor(zone),
                    genesis |-> TRUE, future |-> FALSE, ours |-> TRUE]
  OBVIOUS
<1>1. /\ blocks = <<>> /\ blocks' = <<Blk("ElectionSetup", 0, GenesisStamp)>> /\ zone' = zone
      /\ announced' = announced /\ announced = NoResult /\ zone = 0 /\ zone \in ZoneShifts
  BY ZoneIsLondon
     DEF CreateGenesis, RInv, MInv, VInv, SetupRounds, SetupLabels, TInv, TypeOK
<1>2. blocks' # <<>> /\ Last(blocks').time = GenesisStamp /\ GenesisStamp \in Nat
  <2>1. Len(blocks') = 1 /\ blocks'[1] = Blk("ElectionSetup", 0, GenesisStamp) /\ blocks' # <<>>
    BY <1>1
  <2> QED
    BY <1>1, <2>1, StampsInNumbers DEF Last, Blk
<1>3. NothingRead /\ NothingRead'
  <2>1. IsBare(blocks) /\ IsBare(blocks')
    BY <1>1 DEF IsBare, Blk
  <2> QED
    BY <2>1, BareChain, BareChainNext
<1>4. b \in V!GenesisBlocks
  BY <1>0, <1>1 DEF V!GenesisBlocks, Stamps
<1>5. SetupFor(zone)' = SetupFor(zone)
  BY <1>1 DEF SetupFor, TimingFor
<1>6. V!CheckGenesis(b)
  <2>1. /\ b.hint = "ElectionSetup" /\ b.genesis /\ ~b.future /\ b.ours /\ b.data = SetupFor(zone)
        /\ b.time = GenesisStamp
    BY <1>0
  <2>2. V!ValidSetup(b.data, b.time)
    BY <1>1, <2>1, SetupIsValid
  <2>3. ~V!SetupPanics(b.data, b.ours) /\ V!Accepted
    BY <1>1, <1>2, <2>1 DEF V!Accepted, V!SetupPanics, SetupFor
  <2>4. UNCHANGED <<Posted("TrusteePublic"), Posted("PartialTally"), RegisteredKey, LastBallot,
                    Discarded, [j \in Posted("TrusteeShares") |-> Trustees \ {j}]>>
    BY <1>3 DEF NothingRead
  <2>5. (IF Posted("PartialTally") = {} THEN NoTally
         ELSE [x \in Ballots |-> Cardinality({v \in Voters : LastBallot[v] = x})])'
          = (IF Posted("PartialTally") = {} THEN NoTally
             ELSE [x \in Ballots |-> Cardinality({v \in Voters : LastBallot[v] = x})])
    BY <1>3 DEF NothingRead
  <2> QED
    BY <1>1, <1>2, <1>5, <2>1, <2>2, <2>3, <2>4, <2>5
       DEF V!CheckGenesis, V!Ends, V!Accepted, V!voterVars, V!tallyVars
<1>7. V!Offer(b)
  <2>1. b.time = GenesisStamp /\ b.hint = "ElectionSetup"
    BY <1>0
  <2>2. V!Validate(b)
    BY <1>1, <1>6 DEF V!Validate
  <2>3. V!Running
    BY <1>1 DEF V!Running
  <2> QED
    BY <1>1, <1>2, <2>1, <2>2, <2>3 DEF V!Offer, V!Latest, V!Malformed
<1> QED
  BY <1>4, <1>7 DEF V!Next

\* The result is what decrypting the validator's tally gives, and within the limit
\* of its discrete logarithms.
LEMMA ResultIsTheDecryption ==
  ASSUME RInv, SetupComplete, Result # NoResult
  PROVE  /\ V!DecryptedTally(V!EncryptedTally(LastBallot)) = Result
         /\ ~V!DLogExceeded(Result)
<1>1. /\ LastBallot \in [Voters -> Ballots \cup {NoVote}] /\ IsFiniteSet(Voters)
      /\ Plain \in [Ballots -> [Candidates -> 0 .. 1]]
  <2>1. IsFiniteSet(Voters)
    BY Counts, FS_Interval
  <2> QED
    BY <2>1, BallotsThatCount, VotesAssumption
<1> DEFINE Named(c) == {v \in Voters : LastBallot[v] # NoVote /\ Plain[LastBallot[v]][c] = 1}
<1>2. \A c \in Candidates : Result[c] = Cardinality(Named(c))
  BY DEF Result
<1>3. Result = [c \in Candidates |-> Result[c]]
  BY DEF Result
<1>4. ASSUME NEW c \in Candidates
      PROVE  V!DecryptedTally(V!EncryptedTally(LastBallot))[c] = Cardinality(Named(c))
  <2> DEFINE w == [x \in Ballots |-> V!Worth(x, c)]
             g == Given(LastBallot, w, Voters, NoVote)
             h == Weighed(LastBallot, w, Ballots, Voters)
  <2>0. /\ \A x \in Ballots : V!Worth(x, c) = Plain[x][c]
        /\ w = [x \in Ballots |-> Plain[x][c]]
    BY ListsOfVotes DEF V!Worth
  <2>1. Casting(Voters, Ballots, NoVote, LastBallot, w)
    BY <1>1, <2>0, VotesAssumption, DrawAssumption DEF Casting
  <2>2. h = [x \in Ballots |-> V!EncryptedTally(LastBallot)[x] * V!Worth(x, c)]
    BY SameTally DEF Weighed
  <2>3. V!DecryptedTally(V!EncryptedTally(LastBallot))[c] = V!Total(h) % Order
    BY <2>2 DEF V!DecryptedTally
  <2>4. V!Total(h) = Total(h)
    BY DEF V!Total, Total, V!FoldFunction, FoldFunction, V!FoldFunctionOnSet, FoldFunctionOnSet,
           V!MapThenFoldSet, MapThenFoldSet
  <2>5. \A v \in Voters : g[v] \in 0 .. 1
    BY <1>1, <2>0 DEF Given
  <2>6. {v \in Voters : g[v] = 1} = Named(c)
    BY <1>1, <2>0, DrawAssumption DEF Given
  <2> HIDE DEF w, g, h, Named
  <2>7. Total(h) = SumOver(g, Voters)
    BY <2>1, CountByKindOrByVoter DEF g, h
  <2>8. SumOver(g, Voters) = Cardinality({v \in Voters : g[v] = 1})
    BY <1>1, <2>5, SumCountsOnes
  <2>9. Cardinality(Named(c)) \in Residues(Order) /\ Order \in Nat /\ Order > 0
    <3>1. IsFiniteSet(Voters) /\ Cardinality(Voters) = NumVoters /\ Named(c) \subseteq Voters
      BY Counts, FS_Interval DEF Named
    <3>2. Cardinality(Named(c)) \in Nat /\ Cardinality(Named(c)) <= NumVoters
      BY <3>1, FS_Subset, FS_CardinalityType
    <3> QED
      BY <3>2, OrderAssumption, FlagsAssumption DEF Residues
  <2>10. Cardinality(Named(c)) % Order = Cardinality(Named(c))
    BY <2>9, ResidueOfResidue
  <2> QED
    BY <2>3, <2>4, <2>6, <2>7, <2>8, <2>10
<1>5. V!DecryptedTally(V!EncryptedTally(LastBallot)) = Result
  <2>1. V!DecryptedTally(V!EncryptedTally(LastBallot))
          = [c \in Candidates |-> V!DecryptedTally(V!EncryptedTally(LastBallot))[c]]
    BY DEF V!DecryptedTally
  <2> QED
    BY <1>2, <1>3, <1>4, <2>1
<1> DEFINE voted == {v \in Voters : LastBallot[v] # NoVote}
<1>6. \A c \in Candidates : Named(c) \subseteq voted
  OBVIOUS
<1>7. IsFiniteSet(voted) /\ V!Turnout = Cardinality(voted)
  BY <1>1, FS_Subset, SameCardinality DEF V!Turnout
<1> HIDE DEF Named, voted
<1>8. Cardinality(voted) \in Nat /\ \A c \in Candidates : Cardinality(Named(c)) <= Cardinality(voted)
  BY <1>6, <1>7, FS_Subset, FS_CardinalityType
<1>9. \A c \in Candidates : Cardinality(Named(c)) \in Nat
  BY <1>6, <1>7, FS_Subset, FS_CardinalityType
<1>10. ~V!DLogExceeded(Result)
  BY <1>2, <1>7, <1>8, <1>9 DEF V!DLogExceeded
<1> QED
  BY <1>5, <1>10

\* The other steps are not seen by the validator, or ask it for the result.
LEMMA QuietStepsAreQueries ==
  ASSUME AsIntended, RInv, QuietStep
  PROVE  Unseen \/ V!Next
<1>1. UNCHANGED <<blocks, zone>> /\ announced' \in {announced, Result}
  BY DEF QuietStep
<1>2. /\ \A h : Posted(h)' = Posted(h)
      /\ RegisteredKey' = RegisteredKey /\ LastBallot' = LastBallot /\ Discarded' = Discarded
      /\ (IF blocks = <<>> THEN 0 ELSE Last(blocks).time)'
           = (IF blocks = <<>> THEN 0 ELSE Last(blocks).time)
  BY <1>1 DEF Posted, RegisteredKey, LastBallot, Discarded, At, Last
<1>3. SetupFor(zone)' = SetupFor(zone)
  BY <1>1 DEF SetupFor, TimingFor
<1>4. CASE announced' = announced
  BY <1>1, <1>2, <1>3, <1>4 DEF Unseen, V!vars, V!setupVars, V!voterVars, V!tallyVars
<1>5. CASE announced' # announced
  <2>1. announced' = Result /\ announced = NoResult /\ Result # NoResult
    BY <1>1, <1>5 DEF RInv, MInv, PartialRounds
  <2>2. /\ Cardinality(Posted("PartialTally")) >= TrusteesRequired /\ Posted("PartialTally") # {}
        /\ SetupComplete
    <3>1. ~(Cardinality(Posted("PartialTally")) < TrusteesRequired)
      BY <2>1 DEF Result
    <3>2. Posted("PartialTally") # {}
      BY <3>1, FlagsAssumption, FS_EmptySet
    <3>3. SetupComplete
      BY <3>2 DEF RInv, MInv, PartialRounds
    <3>4. IsFiniteSet(Posted("PartialTally"))
      <4>1. Posted("PartialTally") \subseteq Trustees
        BY DEF Posted, RInv, MInv, StampsHold, Stamped
      <4>2. IsFiniteSet(Trustees)
        BY Counts, FS_Interval
      <4> QED
        BY <4>1, <4>2, FS_Subset
    <3>5. Cardinality(Posted("PartialTally")) \in Nat
      BY <3>4, FS_CardinalityType
    <3> QED
      BY <3>1, <3>2, <3>3, <3>5, FlagsAssumption
  <2>3. blocks # <<>>
    BY <2>2 DEF Posted
  <2>4. (IF Posted("PartialTally") = {} THEN NoTally
         ELSE [x \in Ballots |-> Cardinality({v \in Voters : LastBallot[v] = x})])
          = V!EncryptedTally(LastBallot)
    BY <2>2, SameTally
  <2>5. /\ V!DecryptedTally(V!EncryptedTally(LastBallot)) = Result
        /\ ~V!DLogExceeded(Result)
    BY <2>1, <2>2, ResultIsTheDecryption
  <2>6. SetupFor(zone) # NoSetup
    BY NoSetupAssumption DEF RInv, TInv, TypeOK
  <2>7. V!Cardinality(Posted("PartialTally")) >= TrusteesRequired
    BY <2>2, SameCardinality
  <2>8. V!Running
    BY <2>1, <2>3 DEF V!Running
  <2>9. V!GetResult
    BY <1>1, <1>2, <1>3, <2>1, <2>3, <2>4, <2>5, <2>6, <2>7, <2>8, SetupInForce
       DEF V!GetResult, V!setupVars, V!voterVars
  <2> QED
    BY <2>9 DEF V!Next
<1> QED
  BY <1>4, <1>5

\* One block more is one block accepted, whichever loop made it.
LEMMA MintsAreAccepted ==
  ASSUME AsIntended, RInv, NEW blk, MintStep(blk)
  PROVE  V!Next
<1>1. pc \in {"shares", "public", "register", "cast", "partial"}
  BY MintHints DEF MintStep
<1> QED
  BY <1>1, SharesAreAccepted, ShardKeysAreAccepted, RegistrationsAreAccepted,
     BallotsAreAccepted, PartialsAreAccepted

\* A strict validator accepts every block the commands put on the chain, and the
\* result printed is the one it answers with: used as it is meant to be, on a
\* complete setup and on a machine with London's time, the simulation is a
\* behaviour of the validator, which starts anew with each election.
THEOREM CommandsImplementValidator ==
  ASSUME AsIntended PROVE Spec => ImplementsValidator
<1>1. Init => V!Init /\ RInv
  BY InitIsANewValidator, InitRInv
<1>2. RInv /\ [Next]_vars => RInv'
  BY NextKeepsRInv
<1>3. RInv /\ [Next]_vars => [Unseen \/ NewElection \/ V!Next]_V!vars
  <2> SUFFICES ASSUME RInv, [Next]_vars PROVE Unseen \/ NewElection \/ V!Next
    OBVIOUS
  <2>1. CASE StartAuthority
    BY <2>1, NewElectionIsANewValidator DEF NewElection
  <2>2. CASE CreateGenesis
    BY <2>2, GenesisIsAccepted
  <2>3. ASSUME NEW blk, MintStep(blk) PROVE V!Next
    BY <2>3, MintsAreAccepted
  <2>4. CASE QuietStep
    BY <2>4, QuietStepsAreQueries
  <2> QED
    BY <2>1, <2>2, <2>3, <2>4, StepKinds
<1> QED
  BY <1>1, <1>2, <1>3, PTL DEF Spec, ImplementsValidator

=============================================================================
