-------------------------- MODULE SimulatedElection --------------------------
(***************************************************************************)
(* One election run by the simulation commands over one data directory:     *)
(* authority, voter, trustee and auditor (cmds/*, run_benchmarks.sh). They   *)
(* run one at a time, in whatever order the operator chooses; each can be    *)
(* killed between any two of its writes and run again, and has nothing to    *)
(* go on but the chain and the files of keys it finds in the directory.      *)
(*                                                                         *)
(* Every command validates its own blocks in loose mode, without checking    *)
(* a voter's signature; only the auditor is strict.                          *)
(***************************************************************************)
EXTENDS Timing, Integers, Sequences, FiniteSets, SequencesExt

CONSTANTS
  NumTrustees, TrusteesRequired, NumVoters,   \* the flags of the commands
  Candidates, Ballots, Plain, Order,          \* as in ElectionValidator
  Keys,             \* voter keys; GenerateKeyPair never draws one twice
  Now,              \* the second in which authority simulate is started
  ZoneShifts,       \* how far the machine's clock may be ahead of Europe/London
  Word,             \* 2^64, the number of values of a uint64
  PartialSetupUsed, \* may voter simulate be run on a setup that was cut short?
  MaxKills,         \* bound on the number of times a command is killed
  NoKey, NoVote, NoDraw, NoSetup, NoTally, NoResult

ASSUME FlagsAssumption == /\ NumTrustees \in Nat /\ NumTrustees >= 3
                          /\ TrusteesRequired \in 2 .. NumTrustees
                          /\ NumVoters \in Nat \ {0}
ASSUME WordAssumption  == Word \in Nat /\ Word > 4 * (NumTrustees + NumVoters)
ASSUME ClockAssumption == /\ Now \in Nat /\ ZoneShifts \subseteq Int /\ MaxKills \in Nat
                          /\ \A s \in ZoneShifts : Now + s \in Nat
ASSUME UsageAssumption == PartialSetupUsed \in BOOLEAN
ASSUME DrawAssumption  == NoDraw \notin [key : Keys, ballot : Ballots] /\ NoVote \notin Ballots
\* makeVotes: a vote for one candidate, or for none.
ASSUME VotesAssumption == /\ IsFiniteSet(Ballots)
                          /\ IsFiniteSet(Candidates) /\ Cardinality(Candidates) >= 2
                          /\ Candidates = 1 .. Cardinality(Candidates)
                          /\ Plain \in [Ballots -> [Candidates -> 0 .. 1]]
                          /\ \A b \in Ballots : \A c, d \in Candidates :
                               Plain[b][c] = 1 /\ Plain[b][d] = 1 => c = d
ASSUME NothingAssumption == NoKey \notin Keys
ASSUME OrderAssumption == Order \in Nat /\ Order > NumVoters
ASSUME NoTallyAssumption == NoTally \notin [Ballots -> Nat]

VARIABLES
  blocks,      \* the chain: what every command finds when it opens it
  zone,        \* the shift under which the phases were written down
  shardSaved,  \* the trustees whose file has the shard key in it
  voterFile,   \* what the file of a voter holds, NoDraw if it is not there or empty
  announced,   \* the last result printed
  pc,          \* where the running command is, "idle" when none runs
  index,       \* its loop variable (from 1)
  voters,      \* voter simulate: the voters loaded or drawn so far
  measured,    \* voter simulate: which of its two averages have a sample
  command,     \* the last command started
  ended,       \* how it ended, "running" while it has not
  kills

dirVars     == <<blocks, zone, shardSaved, voterFile>>
processVars == <<pc, index, voters, measured>>
vars        == <<dirVars, announced, processVars, command, ended, kills>>

Trustees == 1 .. NumTrustees
Voters   == 1 .. NumVoters

\* A simulated voter: its key pair, and the ballot makeVotes drew for it.
Draws == [key : Keys, ballot : Ballots]

-----------------------------------------------------------------------------
(***************************************************************************)
(* Times                                                                   *)
(***************************************************************************)
Hour         == 3600
GenesisStamp == 1609459200     \* 2021-01-01T00:00:00Z

\* The phases authority simulate writes down: wall-clock times of the machine,
\* which everyone reads as times in Europe/London.
TimingFor(shift) ==
  LET start == Now + shift IN
  [opens  |-> <<start, start + Hour + 1, start + 301 * Hour + 2, start + 601 * Hour + 3>>,
   closes |-> <<start + Hour, start + 301 * Hour + 1, start + 601 * Hour + 2,
                start + 602 * Hour + 3>>]

timing == TimingFor(zone)

\* The stamps each loop gives its blocks. The authority takes the time from the
\* machine, the others from the genesis block.
\* Mutant of SharesStamp: no + 1 on the first, it is stamped as the phase opens.
SharesStampEarly(i) == Now + i - 1
\* Mutant of PublicStamp: the second loop starts from the first second again.
PublicStampAgain(i) == Now + i

SharesStamp(i)  == Now + i
PublicStamp(i)  == Now + NumTrustees + i
RegStamp(i)     == timing.opens[VoterRegistration] + i
BallotStamp(i)  == timing.opens[VoteCasting] + i
PartialStamp(i) == timing.opens[TallyDecryption] + 1 + 30 * (i - 1)

-----------------------------------------------------------------------------
(***************************************************************************)
(* The chain                                                               *)
(***************************************************************************)
Blk(hint, who, time) ==
  [hint |-> hint, who |-> who, time |-> time, key |-> NoKey, votes |-> NoVote]
RegBlk(v, draw)    == [Blk("VoterReg", v, RegStamp(v)) EXCEPT !.key = draw.key]
BallotBlk(v, draw) ==
  [Blk("Ballot", v, BallotStamp(v)) EXCEPT !.key = draw.key, !.votes = draw.ballot]

\* Who has posted a block of this kind, and where.
At(hint, who) == {k \in DOMAIN blocks : blocks[k].hint = hint /\ blocks[k].who = who}
Posted(hint)  == {blocks[k].who : k \in {n \in DOMAIN blocks : blocks[n].hint = hint}}

SetupComplete == Posted("TrusteePublic") = Trustees

\* What the validator of a command (in loose mode) lets pass, of the blocks the
\* commands make; a rejected block, or a nil shard key, is a panic.
Accepts(blk) ==
  LET phase == GetPhaseForTime(timing, blk.time) IN
  CASE blk.hint = "TrusteeShares" ->
         /\ phase = ParameterConfirmation
         /\ blk.who \notin Posted("TrusteeShares")
    [] blk.hint = "TrusteePublic" ->
         /\ phase = ParameterConfirmation
         /\ Posted("TrusteeShares") = Trustees
         /\ blk.who \notin Posted("TrusteePublic")
    [] blk.hint = "VoterReg" ->
         phase = VoterRegistration /\ blk.who \notin Posted("VoterReg")
    [] blk.hint = "Ballot" ->
         phase = VoteCasting /\ blk.who \in Posted("VoterReg")
    [] blk.hint = "PartialTally" ->
         /\ phase = TallyDecryption
         /\ blk.who \in Posted("TrusteePublic") \ Posted("PartialTally")

\* The state a strict validator has after the chain's blocks.
RegisteredKey ==
  [v \in Voters |-> IF v \in Posted("VoterReg")
                    THEN blocks[CHOOSE k \in At("VoterReg", v) : TRUE].key ELSE NoKey]
LastBallot ==
  [v \in Voters |->
     IF v \in Posted("Ballot")
     THEN blocks[CHOOSE k \in At("Ballot", v) : \A n \in At("Ballot", v) : n <= k].votes
     ELSE NoVote]
Discarded ==
  Cardinality({k \in DOMAIN blocks : blocks[k].hint = "Ballot"}) - Cardinality(Posted("Ballot"))

\* Mutant of Result: every ballot block counts.
ResultOfAllBallots ==
  IF Cardinality(Posted("PartialTally")) < TrusteesRequired THEN NoResult
  ELSE [c \in Candidates |->
          Cardinality({k \in DOMAIN blocks : blocks[k].hint = "Ballot" /\ Plain[blocks[k].votes][c] = 1})]

\* GetResult: with enough partial decryptions, how many last ballots name each
\* candidate; else there are no results in it.
Result ==
  IF Cardinality(Posted("PartialTally")) < TrusteesRequired THEN NoResult
  ELSE [c \in Candidates |->
          Cardinality({v \in Voters : LastBallot[v] # NoVote /\ Plain[LastBallot[v]][c] = 1})]

-----------------------------------------------------------------------------
Nobody == [v \in Voters |-> NoDraw]

Init ==
  /\ blocks = <<>> /\ zone \in ZoneShifts
  /\ shardSaved = {} /\ voterFile = Nobody
  /\ announced = NoResult
  /\ pc = "idle" /\ index = 0 /\ voters = Nobody /\ measured = {}
  /\ command = "none" /\ ended = "done"
  /\ kills = 0

Goto(label, i) == pc' = label /\ index' = i

\* The process ends; what it had in memory is gone.
End(how) ==
  /\ Goto("idle", 0)
  /\ voters' = Nobody /\ measured' = {}
  /\ ended' = how

\* chain.Mint of the block, and what follows it; on an error, a panic.
MintFails(blk) ==
  /\ ~Accepts(blk)
  /\ End("panicked")
  /\ UNCHANGED blocks
MintAdds(blk) ==
  /\ Accepts(blk)
  /\ blocks' = Append(blocks, blk)

-----------------------------------------------------------------------------
(***************************************************************************)
(* authority simulate                                                      *)
(***************************************************************************)

\* os.RemoveAll(dataDir): whatever was there, a new election begins.
StartAuthority ==
  /\ pc = "idle"
  /\ blocks' = <<>> /\ shardSaved' = {} /\ voterFile' = Nobody
  /\ announced' = NoResult
  /\ zone' \in ZoneShifts
  /\ Goto("genesis", 0)
  /\ command' = "authority" /\ ended' = "running"
  /\ UNCHANGED <<voters, measured, kills>>

CreateGenesis ==
  /\ pc = "genesis"
  /\ blocks' = <<Blk("ElectionSetup", 0, GenesisStamp)>>
  /\ Goto("shares", 1)
  /\ UNCHANGED <<zone, shardSaved, voterFile, announced, voters, measured, command, ended, kills>>

PostShares ==
  LET blk == Blk("TrusteeShares", index, SharesStamp(index)) IN
  /\ pc = "shares"
  /\ \/ MintFails(blk)
     \/ /\ MintAdds(blk)
        /\ IF index < NumTrustees THEN Goto("shares", index + 1) ELSE Goto("saveShard", 1)
        /\ UNCHANGED <<voters, measured, ended>>
  /\ UNCHANGED <<zone, shardSaved, voterFile, announced, command, kills>>

\* The trustee's file is written again, now with its shard key.
SaveShard ==
  /\ pc = "saveShard"
  /\ shardSaved' = shardSaved \cup {index}
  /\ Goto("public", index)
  /\ UNCHANGED <<blocks, zone, voterFile, announced, voters, measured, command, ended, kills>>

PostPublic ==
  LET blk == Blk("TrusteePublic", index, PublicStamp(index)) IN
  /\ pc = "public"
  /\ \/ MintFails(blk)
     \/ /\ MintAdds(blk)
        /\ IF index < NumTrustees
           THEN Goto("saveShard", index + 1) /\ UNCHANGED <<voters, measured, ended>>
           ELSE End("done")
  /\ UNCHANGED <<zone, shardSaved, voterFile, announced, command, kills>>

-----------------------------------------------------------------------------
(***************************************************************************)
(* voter simulate                                                          *)
(***************************************************************************)

\* Arithmetic of uint64, and its conversion to int.
Minus(a, b) == (a - b) % Word
ToInt(u)    == IF u < Word \div 2 THEN u ELSE u - Word

\* Where to go on, inferred from the kind of the head block and its depth: the
\* loop, and how many voters it skips.
setupBlocks == 1 + 2 * NumTrustees

\* The depth of the head less the blocks that are not registrations, or ballots.
LastDone(hint) ==
  LET afterSetup == Minus(Len(blocks) - 1, setupBlocks) IN
  IF hint = "VoterReg" THEN afterSetup ELSE Minus(afterSetup, NumVoters)

\* Mutants of SkipAfter: the last voter again, or the next one left out.
SkipTooFew(last)  == ToInt(last)
SkipTooMany(last) == ToInt((last + 2) % Word)

\* resumeFrom = int(last + 1): how many voters the resumed loop skips.
SkipAfter(last) == ToInt((last + 1) % Word)

Resume ==
  LET hint == IF blocks = <<>> THEN "none" ELSE Last(blocks).hint
      last == LastDone(hint)
  IN
  CASE hint = "TrusteePublic"                -> [loop |-> "registration", from |-> 0]
    [] hint = "VoterReg" /\ last = NumVoters -> [loop |-> "casting", from |-> 0]
    [] hint = "VoterReg" /\ last # NumVoters -> [loop |-> "registration", from |-> SkipAfter(last)]
    [] hint = "Ballot" /\ last = NumVoters   -> [loop |-> "none", from |-> 0]
    [] hint = "Ballot" /\ last # NumVoters   -> [loop |-> "casting", from |-> SkipAfter(last)]
    [] OTHER                                 -> [loop |-> "panic", from |-> 0]

\* The files read before anything is written: of the voters registered so far,
\* or, when casting, of all.
Loaded(loop, from) == IF loop = "registration" THEN {v \in Voters : v <= from} ELSE Voters

NextToRegister(i) == IF i < NumVoters THEN Goto("draw", i + 1) ELSE Goto("cast", 1)
NextToCast(i)     == IF i < NumVoters THEN Goto("cast", i + 1) ELSE Goto("finish", 0)

Skipped(from) == IF from < 0 THEN 0 ELSE from

OpenVoter ==
  LET at    == Resume
      files == Loaded(at.loop, at.from)
  IN
  /\ pc = "idle"
  /\ SetupComplete \/ PartialSetupUsed
  /\ command' = "voter"
  /\ \/ at.loop = "none"  /\ End("done")
     \/ at.loop = "panic" /\ End("panicked")
     \/ /\ at.loop \in {"registration", "casting"}
        /\ IF \E v \in files : voterFile[v] = NoDraw
           THEN End("panicked")
           ELSE /\ voters' = [v \in Voters |-> IF v \in files THEN voterFile[v] ELSE NoDraw]
                /\ IF at.loop = "registration"
                   THEN NextToRegister(Skipped(at.from))
                   ELSE NextToCast(Skipped(at.from))
                /\ UNCHANGED measured /\ ended' = "running"
  /\ UNCHANGED <<dirVars, announced, kills>>

\* Keys no file and no block holds.
FreshKeys ==
  Keys \ ({voterFile[v].key : v \in {w \in Voters : voterFile[w] # NoDraw}}
             \cup {blocks[k].key : k \in DOMAIN blocks}
             \cup {voters[v].key : v \in {w \in Voters : voters[w] # NoDraw}})

\* A voter is drawn, and os.Create empties its file.
DrawVoter ==
  /\ pc = "draw"
  /\ \E key \in FreshKeys, ballot \in Ballots :
       voters' = [voters EXCEPT ![index] = [key |-> key, ballot |-> ballot]]
  /\ voterFile' = [voterFile EXCEPT ![index] = NoDraw]
  /\ Goto("write", index)
  /\ UNCHANGED <<blocks, zone, shardSaved, announced, measured, command, ended, kills>>

WriteVoter ==
  /\ pc = "write"
  /\ voterFile' = [voterFile EXCEPT ![index] = voters[index]]
  /\ measured' = measured \cup {"registration"}
  /\ Goto("register", index)
  /\ UNCHANGED <<blocks, zone, shardSaved, announced, voters, command, ended, kills>>

RegisterVoter ==
  LET blk == RegBlk(index, voters[index]) IN
  /\ pc = "register"
  /\ \/ MintFails(blk)
     \/ MintAdds(blk) /\ NextToRegister(index) /\ UNCHANGED <<voters, measured, ended>>
  /\ UNCHANGED <<zone, shardSaved, voterFile, announced, command, kills>>

CastVote ==
  LET blk == BallotBlk(index, voters[index]) IN
  /\ pc = "cast"
  /\ \/ MintFails(blk)
     \/ /\ MintAdds(blk)
        /\ NextToCast(index)
        /\ measured' = measured \cup {"casting"}
        /\ UNCHANGED <<voters, ended>>
  /\ UNCHANGED <<zone, shardSaved, voterFile, announced, command, kills>>

\* The result is printed (without results yet), then the two averages, each the
\* quotient of a time and a count of samples.
FinishVoting ==
  /\ pc = "finish"
  /\ End(IF measured = {"registration", "casting"} THEN "done" ELSE "panicked")
  /\ UNCHANGED <<dirVars, announced, command, kills>>

-----------------------------------------------------------------------------
(***************************************************************************)
(* trustee simulate, auditor                                               *)
(***************************************************************************)

\* Loading a trustee without a shard key, the local tally without a system, and
\* the decryption of an empty tally are nil dereferences.
OpenTrustee ==
  /\ pc = "idle"
  /\ command' = "trustee"
  /\ IF \/ blocks = <<>>
        \/ shardSaved # Trustees
        \/ Posted("TrusteePublic") = {}
        \/ Posted("Ballot") = {}
     THEN End("panicked")
     ELSE Goto("partial", 1) /\ ended' = "running" /\ UNCHANGED <<voters, measured>>
  /\ UNCHANGED <<dirVars, announced, kills>>

PostPartial ==
  LET blk == Blk("PartialTally", index, PartialStamp(index)) IN
  /\ pc = "partial"
  /\ \/ MintFails(blk)
     \/ /\ MintAdds(blk)
        /\ IF index < NumTrustees THEN Goto("partial", index + 1) ELSE Goto("print", 0)
        /\ UNCHANGED <<voters, measured, ended>>
  /\ UNCHANGED <<zone, shardSaved, voterFile, announced, command, kills>>

PrintResult ==
  /\ pc = "print"
  /\ announced' = Result
  /\ End("done")
  /\ UNCHANGED <<dirVars, command, kills>>

\* The auditor opens the chain with a strict validator and prints the result and
\* the averages of what it measured, in which a count of zero is a panic: there
\* is one as long as there is no result.
Audit ==
  /\ pc = "idle"
  /\ command' = "auditor"
  /\ \/ blocks = <<>> /\ End("panicked") /\ UNCHANGED announced
     \/ /\ blocks # <<>>
        /\ IF \E k \in DOMAIN blocks :
                blocks[k].hint = "Ballot" /\ blocks[k].key # RegisteredKey[blocks[k].who]
           THEN End("refused") /\ UNCHANGED announced
           ELSE /\ announced' = Result
                /\ End(IF Result = NoResult THEN "panicked" ELSE "done")
  /\ UNCHANGED <<dirVars, kills>>

-----------------------------------------------------------------------------
Kill ==
  /\ pc # "idle"
  /\ kills < MaxKills
  /\ kills' = kills + 1
  /\ End("killed")
  /\ UNCHANGED <<dirVars, announced, command>>

Step ==
  \/ CreateGenesis \/ PostShares \/ SaveShard \/ PostPublic
  \/ DrawVoter \/ WriteVoter \/ RegisterVoter \/ CastVote \/ FinishVoting
  \/ PostPartial \/ PrintResult

Next == StartAuthority \/ OpenVoter \/ OpenTrustee \/ Audit \/ Step \/ Kill

\* A command that runs goes on by itself. The operator runs voter simulate and
\* trustee simulate again as often as they can be run.
Fairness == WF_vars(Step) /\ SF_vars(OpenVoter) /\ SF_vars(OpenTrustee)

Spec == Init /\ [][Next]_vars /\ Fairness

-----------------------------------------------------------------------------
Ended(name, how) == command = name /\ ended = how

TypeOK ==
  /\ zone \in ZoneShifts
  /\ \A k \in DOMAIN blocks : /\ blocks[k].time \in Nat
                              /\ blocks[k].who \in Trustees \cup Voters \cup {0}
                              /\ blocks[k].key \in Keys \cup {NoKey}
                              /\ blocks[k].votes \in Ballots \cup {NoVote}
  /\ shardSaved \subseteq Trustees
  /\ voterFile \in [Voters -> Draws \cup {NoDraw}]
  /\ voters \in [Voters -> Draws \cup {NoDraw}]
  /\ announced = NoResult \/ announced \in [Candidates -> 0 .. NumVoters]
  /\ pc \in {"idle", "genesis", "shares", "saveShard", "public", "draw", "write",
             "register", "cast", "finish", "partial", "print"}
  /\ index \in 0 .. NumTrustees + NumVoters
  /\ command \in {"none", "authority", "voter", "trustee", "auditor"}
  /\ ended \in {"running", "done", "panicked", "killed", "refused"}
  /\ measured \subseteq {"registration", "casting"}
  /\ kills \in 0 .. MaxKills

\* However often voter simulate is killed and run again, the file of a registered
\* voter holds the key it is registered with: it is never overwritten by a second
\* draw, and never emptied.
VotersKeepTheirKeys ==
  SetupComplete =>
    \A v \in Posted("VoterReg") : voterFile[v] # NoDraw /\ voterFile[v].key = RegisteredKey[v]

\* And nobody is made to vote twice: a resumed run goes on with the first voter
\* that has no ballot on the chain.
OneBallotEach == SetupComplete => Discarded = 0

\* A run of voter simulate that has gone through its loops, or found nothing to do,
\* has left a ballot of every voter on the chain, whatever the runs before it had
\* done.
DoneMeansAllVoted == pc = "finish" \/ Ended("voter", "done") => Posted("Ballot") = Voters

\* The authority never fails in the phases it has just written down, on a machine
\* that keeps London's time.
SetupSucceeds == zone = 0 => ~Ended("authority", "panicked")

\* A run that had nothing left to do, or has done the rest, says so and ends.
EndOfVotingIsNoPanic ==
  Ended("voter", "panicked") /\ Posted("Ballot") = Voters => Posted("PartialTally") # {}

\* The result counts for every voter the ballot in the voter's file.
ResultIsWhatVotersDrew ==
  announced # NoResult /\ Posted("Ballot") = Voters =>
    \A c \in Candidates :
      announced[c] = Cardinality({v \in Voters : Plain[voterFile[v].ballot][c] = 1})

\* Once it is set up the election comes to its result, if a command that was
\* killed is run again; only a trustee run killed half way is not made up for.
TallyCutShort == pc # "partial" /\ Posted("PartialTally") # {}
ElectionCompletes ==
  SetupComplete ~> \/ ~SetupComplete
                   \/ Cardinality(Posted("PartialTally")) >= TrusteesRequired
                   \/ TallyCutShort

-----------------------------------------------------------------------------
(***************************************************************************)
(* What the commands put on the chain is a behaviour of a strict validator,  *)
(* to which every block is offered in the order of the timestamps.          *)
(***************************************************************************)
SetupFor(shift) ==
  [trustees |-> NumTrustees, required |-> TrusteesRequired, maxChoices |-> 1,
   timing |-> TimingFor(shift),
   params |-> "valid", parties |-> "valid", exponents |-> "enough"]

ASSUME NoSetupAssumption == NoSetup \notin {SetupFor(s) : s \in ZoneShifts}

\* The other trustees, in order: to whom trustee i sends its shares.
Others(i) == [k \in 1 .. NumTrustees - 1 |-> IF k < i THEN k ELSE k + 1]

Stamps ==
  {GenesisStamp} \cup {SharesStamp(i) : i \in Trustees} \cup {PublicStamp(i) : i \in Trustees}
    \cup UNION {{TimingFor(s).opens[VoterRegistration] + v : v \in Voters}
                  \cup {TimingFor(s).opens[VoteCasting] + v : v \in Voters}
                  \cup {TimingFor(s).opens[TallyDecryption] + 1 + 30 * (i - 1) : i \in Trustees}
                  : s \in ZoneShifts}

V == INSTANCE ElectionValidator WITH
       Setups <- {SetupFor(s) : s \in ZoneShifts},
       Indices <- Trustees,
       RecipientLists <- {Others(i) : i \in Trustees},
       Times <- Stamps,
       Nulled <- {},
       Lengths <- {NumTrustees - 1, Cardinality(Candidates)},
       LooseMode <- FALSE,
       ClockMayStepBack <- FALSE,
       MaxDiscarded <- NumTrustees,
       setup          <- IF blocks = <<>> THEN NoSetup ELSE SetupFor(zone),
       trusteeShares  <- [j \in Posted("TrusteeShares") |-> Trustees \ {j}],
       haveAllShares  <- Posted("TrusteePublic") # {},
       trusteePublic  <- Posted("TrusteePublic"),
       haveAllPublic  <- FALSE,
       system         <- Posted("TrusteePublic") # {},
       registered     <- RegisteredKey,
       vote           <- LastBallot,
       discardedVotes <- Discarded,
       localTallies   <- IF Posted("PartialTally") = {} THEN NoTally
                         ELSE [b \in Ballots |-> Cardinality({v \in Voters : LastBallot[v] = b})],
       resultPartials <- Posted("PartialTally"),
       finalTallys    <- announced,
       verdict        <- IF announced # NoResult THEN "answered"
                         ELSE IF blocks = <<>> THEN "none" ELSE "accepted",
       malformed      <- FALSE,
       clock          <- IF blocks = <<>> THEN 0 ELSE Last(blocks).time

Unseen      == UNCHANGED V!vars
NewElection == V!Init'

\* A strict validator accepts every block the commands ever put on the chain, in
\* the order of their timestamps: each voter's ballot is signed with the key it
\* is registered with, though the commands that wrote it never checked that, and
\* the result printed is the validator's.
ImplementsValidator == V!Init /\ [][Unseen \/ NewElection \/ V!Next]_V!vars

=============================================================================
