# A verification of Astris (go-astris)

Astris is a voting scheme kept on a small block chain: an authority writes a
genesis block with the election's setup, trustees exchange key shares in two
rounds of blocks, voters register and cast encrypted ballots, trustees post
partial decryptions, and anyone can validate the chain and compute the result.
This directory holds TLA+ modules translated from the Go source, the TLC
configurations that check them on small instances, and proofs about them that
TLAPS checks for every value of their constants.

## 1. Inventory

| Component | State | Operations | Talks to |
|---|---|---|---|
| Phases (`astris/validator.go` `checkPhase`, `astris/state.go` `GetPhaseForTime`) | none (a cached table of instants) | accept or refuse four time bounds; map a timestamp to a phase | used by the validator |
| `ElectionValidator` + `ElectionState` (`astris/`) | setup, shares, shard keys, voters and their last ballots, cached tally, partial decryptions, cached result | `Validate` (six handlers by phase), `GetLocalTally`, `GetResult` | called by the chain for each block; asked by the commands |
| `blockchain` (`chain.go`, `database.go`, `block.go`) | a SQLite table; in each process a linked list, a depth and a validator | `Create`, `Open` (reverse and forward pass), `Mint` + `Add`, head query | the validator; the table is shared by processes |
| Proof of work (`block.go`) | none | nonce search, leading-zero check, id hash | `Mint`, `openChain` |
| `authority simulate`, `voter simulate`, `trustee simulate`, `auditor` (`cmds/`) | files of keys in the data directory; loop counters | run one after the other over one data directory (`run_benchmarks.sh`) | open the chain, mint blocks, ask for the result |
| `authority interactive` (`cmds/authority`) | one setup in memory and its file | GET and PUT handlers, one goroutine each, without a lock | HTTP clients: the page in `ui/authority` |
| Threshold and exponential ElGamal, proofs, signatures (`crypto/elgamal`) | none (a lookup table) | shares, shard keys, partial and combined decryption, discrete log, prove and verify | validator and commands |
| Peer protocol (`protocol/server.go`) | none of its own | stream handlers over an interface nothing implements yet | peers |
| Time zones (`timezone/`) | a sorted list | prefix search, the test whether a zone is valid | the validator's check of the setup |
| UI, generated code | static data | serving pages | - |

Behaviours that are hard here: blocks are accepted by *time*, not by what the
election has reached, so a phase can open on an unfinished one; results of
expensive computations are cached at their first use; the validator changes its
state before the block is stored; several processes may use one table, each with
its own idea of the head; a process can be killed between any two blocks and
another has to carry on from the table; requests to the config server decode into
one setup and write one file at the same time. `PROJECT.json` lists each of these as a
hazard at its line, with the properties that would catch it going wrong.

What makes each component correct:

- phases: no time in two phases, later blocks in no earlier phase;
- validator: a shard key only after all shares; the tally is of exactly the last
  ballots; one result, the count of those ballots; in an election that was set up
  and in which somebody voted, no panic unless a block is malformed;
- chain: the table is a tree on the genesis block; a process in use knows the
  state its blocks add up to; what was written can be opened again; a block once
  added stays on the chain;
- commands: a command that was killed and is run again goes on where the chain
  stands, without losing a voter's key or having anyone vote twice; what they write
  without checking it is what a strict validator accepts; the election gets to its
  result;
- proof of work: what was minted passes the check when the chain is opened; a block's
  time moves on only if it must, and the search ends if it can;
- config server: what a client was told is saved is in the file and is served again,
  however the server ended; the file is not left empty by saves that overlap, and
  holds null only where a PUT of null met another request;
- time zones: a zone is valid only if it is in the list.

## 2. Modules

| Module | Models | State and actions |
|---|---|---|
| `Arithmetic` | the loops that add up or multiply | `Total` and `Product` over the values of a function, as folds in an order left open. |
| `Timing` | the four phases | operators only. `CheckPhase` and `PhasesInOrder` are `checkPhase` and its four calls; `GetPhaseForTime` is the Go function of that name, with -1 written `NoPhase`. |
| `ElectionValidator` | one validator in one process | each variable is a field of `ElectionState` (the `haveAll...` and `system` caches included). `Offer(blk)` is one call of `Validate`, which dispatches to `CheckGenesis`, `CheckTrusteeShares`, `CheckTrusteePublic`, `SetupIsOver`, `CheckVoterRegistration`, `CheckVoteCast`, `CheckPartialTally`, `OutOfPhase`; `GetLocalTally` and `GetResult` are the queries. `verdict` is how the last call ended; a panic ends the process. `malformed` is a history variable: whether a block in which something is missing has got further than a rejection. |
| `BallotBox` | what an election promises | enter, cast, seal, announce. `ElectionValidator!Box` maps the validator to it. |
| `Chain` | the table, and the processes that open and extend it | `rows` is the table, `list` / `at` / `state` the memory of each process, `pc` where its call of `Open` is. Each turn of the two loops of `openChain` is a step of its own (`ReadHead`, `ReversePass`, `ForwardPass`), because each reads the table anew; `Mint` with `Add` is one step, because only its INSERT is seen by others; `Exit` is a process that ends or is killed at any point. `AtDepth` and `NextOf` are the walks over the list. |
| `ProofOfWork` | ids, the nonce search and its check | `header` is the header whose nonce is searched; each turn of `CalculateProofOfWork` is a step (`SearchGenesis`, `SearchNonce`), as is each header the forward pass checks (`ForwardPass`); `workLevel` is the validator's. `Mint` begins a search, `Reopen` ends the process, perhaps in the middle of one. |
| `ConfigServer` | the server of `authority interactive` | `setup` is the pointer all handlers share, `struct` what is at each place it may point to, `file` the config file; `put[h]` is where a handler is. `Put` and `PutNull` begin a request; `Allocate` and `Follow` are `Decode(&setup)` looking at the pointer again, `DecodeField` and `EndDecode` the decoding; `Truncate`, `SetVersion`, `Encode`, `EncodeField`, `Write` are `save`, with its two readings of the pointer; `Start` and `Kill` the process. `saved`, `touched`, `cut` and `nullMet` are history variables. |
| `Timezone` | `PrefixSearch` and `IsValidZone` | `i`, `j` are what `sort.Search` has left, `lo`, `hi` its two answers; a turn of either loop is a step. |
| `Ledger` | what a chain promises | a list of payloads that only grows, by payloads the rules allow. `Chain!L` maps the chain found from the table's head to it. |
| `SimulatedElection` | the four commands over one data directory | `blocks`, `shardSaved`, `voterFile` are the directory (chain, trustees' and voters' files); `pc`, `index`, `voters`, `measured` the running command. `StartAuthority` ... `PostPublic` are `authority simulate`, `OpenVoter` ... `FinishVoting` are `voter simulate` (`Resume` is its switch over the head block), `OpenTrustee` ... `PrintResult` are `trustee simulate`, `Audit` is the auditor. A step ends at each write another process could find: `DrawVoter` empties a voter's file, `WriteVoter` fills it, `RegisterVoter` mints. `Kill` ends the process at any of them. |
| `ElGamal` | `crypto/elgamal`: encryption, signatures, proofs | operators only, named as the Go functions, over a group that is given by `P`, `Q` and `G`. |
| `DiscreteLog` | both algorithms of `DiscreteLogLookup` | `counter`, `last`, `cache` are what `lazyLookup` closes over; `Query` is one call of the function it returns. `SparseLookup` is the other algorithm. |
| `Threshold` | the cryptography of an election from end to end | one action per use of it: `CreateTrustee`, `PostShardKey`, `CastBallot`, `PostPartialTally`, `CombineTallies` (any quorum, for each candidate), `LookUp`. An action computes what the sender computes and then what the validator computes to check it; `refused` records a check that failed. |
| `MCElectionValidator`, `MCChain`, `MCSimulatedElection`, `MCThreshold`, `MCProofOfWork`, `MCConfigServer`, `MCTimezone` | instances for TLC | |
| `ElectionValidatorProofs` (with the theorems about `Timing`), `ChainProofs` (with the refinement of `Ledger`), `SimulatedElectionProofs`, `ThresholdProofs` (with `ElGamal` and `DiscreteLog`), `ProofOfWorkProofs`, `ConfigServerProofs`, `TimezoneProofs` | theorems | |
| `ArithmeticProofs` | lemmas about sums, products and residues, for the others to cite | |

How data are abstracted. A ballot is one of a small set, `Plain` says what its list of
ciphertexts encrypts, which may be shorter or longer than the list of candidates, and
`Nulled` which ballots have a null in that list; a tally is the multiset of the ballots
multiplied into it, so that products of the same ballots in any order are equal and of
different ballots are not; its decryption is the sum of the plaintexts modulo the order of
the group, which is what threshold decryption of an exponential ElGamal product computes. A
signature, a proof of knowledge or a part of the setup payload is a field of the block
with the verdict of its check: valid, invalid, or `"missing"`, where the check would
dereference what is null or not there. A ballot has as many good proofs as it likes
(`proofs`); only a 0 or a 1 has a good one (`ProofsHold`), a ciphertext without one is
checked by nothing, and a proof too many is an index out of range (`ProvingPanics`). A
`null` among the tallies of a partial decryption is the tally `NoTally`; a number that is
not base64, which `BigIntSlice` leaves nil and `checkCanonical` panics over, is
`"undecodable"`. What every handler turns down before it does anything else, a block whose
payload hash, JSON or canonical form is wrong or a list of which has its length compared
and does not fit, is `Unreadable`. `Malformed` says which blocks no program of the
repository writes: something missing, or a ballot with lists of other lengths.

Blocks in `Chain` carry the fields the head query and the passes look at. The id is a
function of previous id, payload and time, as the hash is; nonces and proofs of work are the
subject of `ProofOfWork`, which has in turn one process and a table that is a sequence. The
validator is any deterministic `Apply`; `MCChain` gives one with the election's dependencies
(a vote needs its registration, none after a vote). A read that fails in the middle of
`Open` makes the process end, which is `Exit`.

`SimulatedElection` takes the block store as `Ledger` promises it (a list that
grows), and has its own short `Accepts` for what a loose validator refuses of the
blocks the commands make. That this agrees with `ElectionValidator` is not taken
for granted: `V` maps the state to a *strict* validator's and `ImplementsValidator`
is checked. The operator runs one command at a time, in any order, any number of
times, with the same flags; `authority simulate` removes the directory and begins a
new election. Arithmetic on depths is modulo `Word` and converted to a signed
number as Go does it, since a setup cut short takes it below zero. The group is assumed to have
more elements than there are voters (`OrderAssumption`), so that no count wraps.

`Threshold` is what the other modules abstract from: that the product of ballots decrypts to
the sum of the votes (`DecryptedTally` in `ElectionValidator`) and that what honest trustees
and voters make has valid proofs is there computed, as `crypto/elgamal` computes it, in a
small group when TLC runs it and in any when it is proved. Everybody is honest in it:
whether a proof can be forged depends on the size of the group and on the hash. Sums and
products are folds in an order left open (`Arithmetic`), as the iterations over maps are.
The shares are checked against the public exponents (`CheckSecretShareFrom`) only by a test
of the repository; `SharesAreConsistent` says that it would succeed.

In `ProofOfWork` the hash is any function of the four things that are hashed, and an
id is the tuple of its words; a payload stands for the payload's hash and its hint. The
context of the search is one nobody cancels, so its exit is left out.

In `ConfigServer` a setup is a function from its keys to what tells the code's paths apart:
a sound value, nothing, a value that can be written and is refused when read (parameters
that `System.Validate` refuses), or one that panics when written (a `big.Int` left nil, by a
`System` that is decoded half way or by `BigIntSlice`, which drops the error). What a body
gives a field is one of those values, or a part with a wrong type, which `encoding/json`
reports when it has decoded the rest, or one that `UnmarshalJSON` refuses, which ends the
decoding. A field that another handler decodes at the same moment may be read, and end up,
as anything. The pointer `setup` is read once by each of the statements that use it, a turn
each: `Decode` looks whether it is nil and only then follows it, and `save` sets the version
through it and then hands it to the encoder. A PUT of `null` in between makes it nil: a
panic in the first three, and in the last `null` in the file, answered with "Saved". What is
written to `setup.Version` is a constant and left out. GET encodes the setup and changes
nothing (`Served`); a body that is not JSON, or another method, changes nothing either. The
clients are those of the page, which ask for a whole setup or a part of one and get an
answer.

In `Timezone` a string is a sequence of bytes; `strings.Compare`, `strings.HasPrefix`
and `sort.Search` are the library's.

## 3. Runs

| Run | Shows | Bounds |
|---|---|---|
| `validator` | type invariant, `EveryShareIsPosted`, `LocalTallyIsCurrent`, `ResultCountsLastBallots`, `OnlyMalformedBlocksPanic`, and the refinement `ImplementsBallotBox` | 3 trustees, 2 needed; 2 voters, 2 keys (symmetric); 2 candidates, 1 choice; 5 ballots: a well-formed one, one whose second ciphertext is out of range, one too short, one too long, one with a null; up to 2 good proofs (`Lengths`) and any verdict of the next; exponents modulo 11; adjoining phases, and five other setups: overlapping phases, a threshold above the trustees, a null party, no exponents, exponents that are not base64; timestamps 0, 1, 3, 4 (a boundary), 5, 7; one replaced ballot |
| `backdated_block` | a finding: `AcceptedPartialsAreCurrent` fails when timestamps may go back | the same, fewer ballots |
| `chain` | memory, re-opening, permanence of added blocks, and `ImplementsLedger`, for processes one after the other that may be killed at any step and whose writes may fail | 2 processes, 4 payloads, 5 ids, 2 timestamps |
| `chain_two_writers` | what is left when two processes use the directory at a time: a tree that can be opened, in which each process finds the blocks of its branch by depth and in order (`BlocksAreFoundByDepth`), and openings that end | 2 processes, 4 payloads, 5 ids, 1 timestamp |
| `simulation` | type invariant, `VotersKeepTheirKeys`, `OneBallotEach`, `DoneMeansAllVoted`, `SetupSucceeds`, `ResultIsWhatVotersDrew`, also on setups that were cut short | 3 trustees, 2 needed; 3 voters, 5 keys (symmetric); 2 candidates, 2 ballots; 2 kills; `Word` 64; the machine's clock 0 or 3600 s ahead of London's |
| `simulation_whole` | the refinement `ImplementsValidator` and `ElectionCompletes`, voters being simulated on complete setups | 2 voters, 3 keys, no symmetry |
| `simulation_resume` | a finding: a run with nothing or only casting left to do panics | 3 voters, 4 keys |
| `threshold` | `SharesAreConsistent`, `HonestBlocksAreAccepted`, `QuorumsShareOneSecret`, `AnyQuorumDecrypts`, `CountsAreVotes`: the arithmetic behind shares, shard keys, proofs, combination and lookup fits together | the subgroup of order 7 modulo 29; 3 trustees, 2 needed; 2 candidates, 2 choices, 2 ballots; two numbers, 0 and 3, to be drawn, for an OR proof 16 of their combinations |
| `proof_of_work` | `OpenFailsOnlyAtGenesis`: what is searched at one level is checked at the same one; `SearchSkipsNothing`, `SearchEnds`: time moves on only if it must, and far enough; `CheckCountsZeroBits` | ids of 2 words of 2 bits, 3 nonces, 4 seconds, 2 payloads, levels 0 to 3, 3 blocks |
| `config_server` | `SavedConfigStays`, `QuietFileIsWhole`, whatever is killed, refused or panics | 2 requests at a time, 2 fields, 4 bodies and null, 2 places for a setup (symmetric); 1.7 million states |
| `timezone` | `SearchIsExact`, `ValidZonesAreListed`, `SearchEnds` | 9 zones, of which 2 begin others; all 156 strings of up to 3 of 5 bytes |
| `timezone_prefix` | a finding: `ListedZonesAreValid` fails for a zone that begins another | the same |

Why the bounds suffice. Three trustees are the fewest the code accepts, and the recipient
lists contain what each should send and lists with a recipient repeated, missing or the
sender itself. Two voters give a tally with zero, one and two ballots, equal and different
ones, and one replacement lets either voter vote again, before or after the other. To keep
the malformed blocks affordable, `MCSpec` offers at each timestamp the blocks of the kind
that is due and the unreadable one, since any other kind is rejected by the first comparison
of its handler; `WithoutVerdict`, the VIEW, tells states apart by all they hold but how the
last call ended, except for a panic. No property looks at more of `verdict` but `TypeOK`.
The phases have one second inside each and a boundary second between two of them. `Latest`
and `clock` are a bound on the environment, not code: with `ClockMayStepBack = FALSE` blocks
come in the order of their timestamps, which is how the commands stamp them on a complete
setup (`simulation_whole`; on one cut short they do not, see section 5). `MaxDiscarded`
bounds the number of replaced ballots and `Ids` the number of blocks. `validator` does not
check for deadlock: the program may stop (a panic), and the queries are otherwise always
possible. Four payloads after each other, of which one depends on another, and two
timestamps are enough for two branches of equal and of different length and for all three
keys of the head query to decide. In the simulation three voters give a first, a middle and
a last one to be killed at, and two kills a resumed run that is killed again; the refinement
and the liveness are checked with two voters, a first and a last. No draw gives a key that a
file or a block still holds, and a file may hold one that was never registered, so there are
more keys than voters. 64 stands for 2^64: any number more than four times all depths wraps
in the same places. In `threshold` a group of order 7 tells all shares of three trustees
apart, and seven is more than a lookup can reach; of the two numbers drawn, 0 makes keys,
commitments and challenges trivial and 3 does not, so sums of them wrap modulo 7. What the
oracle answers is drawn like what `random.Int` returns, and the verifier, who repeats the
question, is given the same answer. With two choices the overall proof has two fakes, whose
challenges and responses differ; the theorem is for all that may be drawn. The run has no
deadlock check: an election ends. The hash of `proof_of_work` spreads over all sixteen ids,
so that there are payloads whose genesis block no nonce suits, seconds at which none suits,
and blocks none ever does; four seconds make timestamps wrap. In `config_server` the two
fields are one that can be refused half way and one that cannot, and two places are enough,
since a setup that no handler uses is collected; the VIEW `Reachable` leaves out what no
pointer leads to, and `touched` while nothing is saved, when no property asks for it. `Now`
is any date; the true hour and phases are kept, and so no stamp is scaled.

Each property has a mutant, an operator named in a comment `Mutant of ...` just
above the definition it replaces, that breaks the code as a plausible slip would
and makes TLC find that property violated.

Fairness. `Fairness` in `Chain` is weak fairness of `Opening(p)`: `openChain` is a loop in
one goroutine, with no lock or channel in it, so a process that has begun to open goes on.
Nothing is assumed about `Mint`, `Create`, `Open` or `Exit`: what a process does, and
whether it lives, is up to its user. The validator has no fairness: nothing obliges anyone
to offer a block. In `SimulatedElection` a command that runs is sequential code and goes on
(`WF_vars(Step)`); the operator, who can start a command only when none runs and may always
prefer another, is assumed to run the voter and the trustee command again whenever it can be
run time and again (`SF_vars`); `MaxKills` bounds the kills. `authority simulate` may be run
at any time and begins a new election: `ElectionCompletes` counts that (`~SetupComplete`) as
an end of the old. The searches of `Timezone` and `ProofOfWork` are loops of one goroutine
and go on (in the latter a process may still end at any time). `ConfigServer` has no
fairness: a client may wait for ever.

## 4. Proofs

- `ArithmeticProofs`. The library's induction theorems take an operator as a parameter,
  which the installed provers cannot instantiate; here a property is the *set* of
  what has it, and induction over numbers (`NumberInduction`) and over the subsets of a finite
  set (`SubsetInduction`, `ElementInduction`) follows from a least counterexample
  (`LeastNumber`, of the library's `WFMin`). A function that is recursive along ranks below a
  bound exists (`RecursiveFunctionExists`). A fold takes the elements in an order nobody
  chose: with an operation that may take them in any, it is an aggregate from which
  any element may be taken out first (`AggTakesOutAny`), and so are `Total` and `Product`
  (`SumTakesOutAny`, `ProductTakesOutAny`). On these rest what sums do
  (`SumIsLinear`, `SumCountsOnes`, `SumsOfSame`), that counting ballot by ballot is
  counting voter by voter (`CountByKindOrByVoter`, one voter at a time), the residues, and that
  modulo a prime every residue but 0 has one inverse (`InversesExist`, `InverseIsUnique`).
- `ElectionValidatorProofs`. From `PhasesInOrder` the eight instants are ordered
  (`InOrderIsOrdered`); so no time is in two phases (`PhasesAreDisjoint`) and a later time
  is in no earlier phase (`PhaseIsMonotone`). `TypeCorrect` is one step per handler.
  `TallyStaysCurrent` needs more than itself: that a cached tally equals the product of the
  current ballots is preserved by `CheckVoteCast` only because it cannot run any more. So
  `IInv` adds that the setup has its phases in order (`SetupInv`) and that a tally is cached
  only when the clock is past the opening of the tally phase (`TallyInv`); `PhaseIsMonotone`
  then excludes a block of the casting phase. It assumes `ClockMayStepBack = FALSE`, the
  assumption the run `backdated_block` shows to be needed. `Refinement` maps every step to a
  step of the ballot box or a stutter, under `IInv`. `ResultIsOfLastBallots` is about sums
  over finite sets: the result sums over ballots, the property over voters, and
  `CountByKindOrByVoter` says that it is the same. `SharesBeforeShardKeys` needs that the
  code's counting is enough: a list as long as there are other trustees, without repeats and
  without the sender, is an injection between sets of one size, so it names all of them
  (`RecipientsAreTheOthers`), and the cached answers stay true (`SharesInv`).
  `NoPanicOnceComplete` puts these together (`PanicInv`): as long as no malformed block was
  let past, every ballot in the box has a proven ciphertext for each candidate, so that a
  candidate's count, a sum of zeros and ones, is at most the turnout and no candidate's
  local tally is empty. Its assumptions are `~LooseMode`, since proofs are checked only
  then, and `ClockMayStepBack = FALSE`; `Refinement` has them too, since in loose mode
  `null` for a ballot takes the last one out of the box.
- `ChainProofs`. `TableIsATree` holds with any number of writers, failing writes and callers
  that go on. `Mint` writes the depth it counted in memory next to the id of the block it
  links to and never looks at the table, so the invariant `IInv` relates the two: the blocks
  of a list are in the table, a level apart, and from the forward pass on the first is at
  level 0 (`ListOK`); rows are never changed. `WalksMeetTheBranch` follows from the same
  `ListOK`: the k-th block of a list is the one at depth k - 1, and hangs on the one before
  it. The rest of the module is about the ledger. `StateAfter`, `PayloadsTo` and `BlocksTo`
  are recursive along the branches of the table. What they are at every block is shown by a
  least counterexample: depths are naturals, the library's `WFMin` gives the least depth of
  a block that lacks a property, and in a tree the block before that one has it
  (`TreeInduction`). That a recursive function has the value its equation says needs some
  function with that equation; the invariants carry one along (`Replays`, `Lists`), and a
  new block extends it (`StatesOfGrown`, `PayloadsOfGrown`). `ChainCanBeOpened` and
  `ValidatorsFollowTheirLists` rest on `ValidatorsOK`: every block of the table was accepted
  after the one before it, and each process's validator has seen exactly the blocks its
  list, or its forward pass, says. They hold for any number of writers and assume
  `~CallerRetries`, without which `OpenNeverFails` fails (section 5).
  `OfficialBlocksAreFound` rests on `LineInv`: used by one process at a time (`OneAtATime`,
  needed too) the table has one block a level, and a list ends at the deepest. Both together
  give `ChainImplementsLedger`: creating the genesis block and a `Mint` that succeeds extend
  the ledger, everything else stutters.
- `SimulatedElectionProofs`. `StampsAreInTheirPhases`: from the eight instants `TimingFor`
  gives, with the real hour, every stamp is in its phase for up to 120 trustees and 1079999
  voters, and (`OnePhase`) in no other. `SetupAlwaysSucceeds` then needs, besides the
  stamps, that the authority's two loops post exactly the trustees before `index`; the
  inductive `IInv` says so for each round (`SharesRound`, `PublicRound`) on a machine that
  keeps London's time, and that only the authority runs at the authority's labels. Both
  assume `Simulable`: the flags in range. The other theorems hold for any flags. `voter
  simulate` infers where to go on from the length of the chain and the kind of its last
  block; that is right because the chain of a complete setup has one shape (`Shape`: the
  setup, a registration of each voter in turn, a ballot of each in turn, behind ballots
  partial tallies), which `ResumeGoesOn` turns into the loop and the voter it resumes at,
  unsigned arithmetic included, and because a command at work stands where the chain ends
  (`VoterRounds`). With what the files hold of the blocks (`FilesHold`, `BallotsHold`) this
  is inductive, and gives `KeysAreKept`, `EachVotesOnce` (a bijection of voters and ballots)
  and, if voters are only simulated on a complete setup (`~PartialSetupUsed`,
  `CommandsHold`), `AllVoteInTheEnd` and `ResultCountsTheFiles`. `SimulationIsTyped` has an
  invariant of its own, since on a partial setup none of the shape is there.
  `CommandsImplementValidator` is the refinement of `ElectionValidator`, for a strict
  validator and blocks whose timestamps never go back. A state maps to what the validator
  would have read from the chain; the theorem says that each step of a command is an
  accepted block, a query, a new election or nothing. It needs all the invariants above and
  one more, `MInv`: every block carries the stamp of the loop that makes its kind
  (`Stamped`), so that the block a command makes next is the latest (`MintIsLatest`), and
  who has posted a partial tally is known (`PartialRounds`). `StepKinds` sorts the steps;
  for each loop the block is built that a validator would be offered, and its handler's
  conditions are shown one by one: for shares that the list names all the others, for a
  ballot that its key is the one registered, which no command checks (`KeyIsRegistered`,
  from `FilesHold`), for a partial decryption that the local tally is not the empty product,
  for the result that decrypting the tally counts it (`ResultIsTheDecryption`). `AsIntended`
  collects what it assumes, each with a reason of its own: the flags in range and London's
  time, without which the authority is refused its own blocks; no voters on a setup cut
  short, where blocks are stamped earlier than the head; and a clock not before 2021, the
  stamp of the genesis block, since a phase may not open before it.
- `ThresholdProofs`. All six invariants of `Threshold`, for every group, number of trustees,
  threshold and electorate. Everything published is a power of `G`, `X(e)`, and computing
  with powers is computing with exponents modulo `Q` (`XAdd`, `XPowers`, `ProductOfPowers`).
  The loop of `CreateSecretShare` is Horner's and gives the value of the polynomial
  (`HornerIsPolynomial`), which the published exponents give too (`ShareIsExpected`); summed
  up, the shares a trustee receives are its shard, whose power is the shard key expected of
  it (`SharesCombine`, `PublicKeys`). That the shards of any quorum interpolate to the
  secret goes without polynomials being divided: leaving an index out of the set changes a
  Lagrange coefficient by a factor (`LagrangeType`), so interpolating the next intermediate
  values of the Horner loop over one index less is a step down (`Shift`), and what is one
  everywhere is one at zero (`AtOfOnes`). Then signatures, decryption proofs and the OR
  proof of honest participants verify, whatever is drawn; and the table `lazyLookup` fills
  holds the powers of `G` up to where it got (`IsTable`). The inductive `IInv` says of each
  variable which exponents are behind it: `KeysFit`, `TallyFits` (a tally encrypts the votes
  under the secret), `PartsFit`, `ResultsFit`, and that nothing was refused. Assumed is what
  `System.Validate` demands of a group, that there are fewer trustees than `Q` and that a
  lookup reaches less than `Q` powers, and of the choices what the validator demands of a
  setup. (`SystemAssumption` asks more in one point: that `G` is not 1. `System.Validate`
  lets 1 through, and with it every ciphertext decrypts to 1.)
- `ProofOfWorkProofs`. `ChainsCanBeOpened` and `StampsMoveOnlyIfTheyMust` hold for any
  hash, any levels and any size of words, seconds and nonces. `IInv` adds that every
  block after the first suits the level of the genesis payload, that the first suits the
  fixed one unless nothing does, and at which block which of them is in force
  (`LevelInv`). `ZeroBitsAreCounted` is about the check alone, for every size and number of
  words: how many zeros lead a word says which power of two it is below
  (`LeadingZerosBound`), and so do its first bits (`FirstBitsBound`); then word by word
  (`CheckIsBitwise`).
- `ConfigServerProofs`. For any number of requests at a time, any fields and any bodies.
  `SavedConfigStays` speaks of answers already given; the invariant says how far a request
  that is still owed one has come (`OwedInv`: it is alone, what it has decoded is what it
  will write, what it has encoded is what is in memory), and that while something is saved
  nobody is past the truncation (`SavedInv`). `QuietFileIsWhole` needs that an empty file is
  somebody's save under way, or one cut short (`FileInv`), and that the pointer can be nil
  between the two readings of a save, or null on its way to the file, only if a PUT of null
  has met another request (`NullInv`): a save by itself has a setup, or panics at the first
  reading.
- `TimezoneProofs`. `PrefixSearchIsExact`: the zones with a prefix lie together in any
  sorted list, since `Less` is an order; the invariant is that of a binary search
  (`LowInv`, `HighInv`).

Assumptions are the named ASSUMEs of the modules: constants have their types, null
values are none of the values they stand for, the rules accept the genesis payload, the
list of zones is sorted. TLC evaluates them in every run.

Every invariant and action property that a passing run checks, and each of the three
refinements, is a theorem. Only model-checked are `OpenTerminates`, `ElectionCompletes` and
both `SearchEnds`: they are liveness properties, and the provers do not reason about
fairness and ENABLED.

## 5. Findings

Three violation runs are disagreements between what the source or its notes say and
what the code does; `PROJECT.json` quotes the lines. Their causes: no comparison of a
block's timestamp with the previous block's (`backdated_block`); an average of nothing
(`simulation_resume`); and a test for a valid zone that takes a prefix search with
several hits for a failure (`timezone_prefix`: nobody can set up an election in
America/Bahia). For the same reason as in `simulation_resume` the auditor of a chain that
has no result ends in a division by zero (`Average.MarshalJSON`); that is in the model
(`Audit`).

What else the models show, without a run of its own (the settings named make TLC show
it):

- Two processes on one data directory fork the table, and a block whose `Add` returned
  leaves the chain: `OfficialBlocksStay` in `MCChain.cfg` with `OneAtATime = FALSE`.
- The validator is changed before the write, so after a failed write a caller that goes
  on writes blocks with which the chain cannot be opened: `OpenNeverFails` there with
  `CallerRetries = TRUE`. For the same reason a failed block cannot be submitted again,
  as `TODO.md` wants it.
- On a setup that was cut short the resume arithmetic goes below zero, and the resumed
  `voter simulate` stamps blocks earlier than the head.
- On a machine an hour ahead of London `authority simulate` is refused its own first
  block, since it writes wall-clock times of one zone and declares another
  (`SetupSucceeds` without its condition).
- The config server's GET answers from memory, not from the file (the comment says
  "return the content of the file"): after a PUT that was refused half way the two differ.
  It may even be that nothing can be saved any more: a nil number is left in the setup,
  each save truncates the file and panics, until a body sets the field. And of two PUTs that
  overlap one may be answered "Saved" and be lost: this is why `SavedConfigStays` speaks
  of requests that overlap with no other.
- A block in which something is null, or a number is not base64, panics the validator that
  comes to it, in any phase (`OnlyMalformedBlocksPanic` without `~malformed` shows the later
  ones). A ciphertext without a proof is counted all the same: a ballot with two ciphertexts
  and one proof gives its second candidate whatever it encrypts (`ResultCountsLastBallots`
  says that it counts), and if that is beyond the reach of the lookup, `GetResult` panics.
- Between the two readings of the setup in `save` a PUT of `null` may take it away: the file
  says `null`, the client "Saved Configuration file" (`QuietFileIsWhole` without
  `nullMet`). The next start reads it as a blank setup.
- The nonce search for the genesis block tries one second only, and its failure is
  ignored; with 2^32 nonces it does not happen at the fixed level.

## 6. Plan

Done: the modules of section 2 and the proofs of section 4. Worth doing next, in this order:

1. `Auditor`: a second validator over the blocks a first one accepted, strict or
   loose, live or later: it accepts every one of them, and agrees when caught up;
   composes `ElectionValidator` with itself and with `Ledger`.
2. Proofs: what `Auditor` adds; and the refinement of `ElectionValidator` for machines in other
   zones, where the authority is refused and nothing follows.

Not modelled, and why: the peer protocol (`protocol/server.go` serves interfaces that
nothing implements and is constructed nowhere, so there is no state behind it); parameter
constants and key derivation (large constants and randomness); the JSON encoder, generated
code, pages and flags.
