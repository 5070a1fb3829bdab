----------------------------- MODULE ProofOfWork -----------------------------
(***************************************************************************)
(* Ids and proofs of work (blockchain/block.go): how the nonce of a block is  *)
(* searched, for the genesis block by authority simulate and for every other  *)
(* by Mint, and how openChain checks it. The table is a sequence of headers    *)
(* here (module Chain has the rest); sha256 is any function, each turn of the *)
(* nonce search a step. A header's payload stands for its hash and its hint.   *)
(***************************************************************************)
EXTENDS Naturals, SequencesExt

CONSTANTS
  WordBits, Words,   \* an id is Words numbers of WordBits bits: 64 and 4 in Go
  Payloads,
  MaxSeconds,        \* the largest uint32, of a timestamp
  MaxNonce,          \* math.MaxUint32
  Hash,              \* calculateBlockHash
  AstrisWorkLevel,   \* the level for the genesis block
  Difficulties,      \* the levels its payload may set for the others
  GenesisTime,
  Now,               \* time.Now(), for a Mint that names no time
  NoTime,
  MaxBlocks          \* bound on the number of blocks

\* The powers of two there are in a word.
PowerOfTwo[n \in 0 .. WordBits] == IF n = 0 THEN 1 ELSE 2 * PowerOfTwo[n - 1]

Ids     == [1 .. Words -> 0 .. PowerOfTwo[WordBits] - 1]
ZeroId  == [w \in 1 .. Words |-> 0]
Bits    == Words * WordBits
Seconds == 0 .. MaxSeconds
Nonces  == 0 .. MaxNonce

ASSUME SizesAssumption  == WordBits \in Nat \ {0} /\ Words \in Nat \ {0}
                           /\ MaxSeconds \in Nat /\ MaxNonce \in Nat /\ MaxBlocks \in Nat
ASSUME ZeroAssumption   == ZeroId \in Ids
ASSUME HashAssumption   == Hash \in [Ids \X Payloads \X Seconds \X Nonces -> Ids]
ASSUME LevelsAssumption == AstrisWorkLevel \in 0 .. Bits - 1 /\ Difficulties \subseteq 0 .. Bits - 1
ASSUME TimesAssumption  == GenesisTime \in Seconds /\ Now \in Seconds /\ NoTime \notin Seconds

VARIABLES
  pc,          \* what the process is doing
  chain,       \* the blocks of the table, from the genesis block to the head
  header,      \* the header whose nonce is searched, or was last
  asked,       \* the timestamp Mint was asked for
  difficulty,  \* what the genesis payload says
  workLevel,   \* ev.workLevel
  at           \* openChain: the block the forward pass is at

vars == <<pc, chain, header, asked, difficulty, workLevel, at>>

Headers == [prev : Ids, payload : Payloads, time : Seconds, nonce : Nonces]
Blocks  == [id : Ids, header : Headers]

-----------------------------------------------------------------------------
\* CalculateBlockID: the depth is not part of it.
Id(h) == Hash[h.prev, h.payload, h.time, h.nonce]

\* bits.LeadingZeros64
LeadingZeros(x) ==
  CHOOSE z \in 0 .. WordBits :
    /\ x < PowerOfTwo[WordBits - z]
    /\ z = WordBits \/ x >= PowerOfTwo[WordBits - z - 1]

\* Mutant of ProofOfWorkCheck: the words before the last one looked at are not.
CheckLastWordOnly(level, id) ==
  LET skipped == IF level > WordBits THEN (level - 1) \div WordBits ELSE 0
  IN  LeadingZeros(id[skipped + 1]) >= level - skipped * WordBits

\* proofOfWorkCheck: the loop takes a word off the level while it exceeds one.
ProofOfWorkCheck(level, id) ==
  LET full == IF level > WordBits THEN (level - 1) \div WordBits ELSE 0
  IN  /\ \A w \in 1 .. full : id[w] = 0
      /\ LeadingZeros(id[full + 1]) >= level - full * WordBits

Suits(level, h) == ProofOfWorkCheck(level, Id(h))

\* BlockHeader.Validate
Validate(b, level) == b.id = Id(b.header) /\ ProofOfWorkCheck(level, b.id)

Stored(h) == [id |-> Id(h), header |-> h]

-----------------------------------------------------------------------------
Init ==
  /\ pc = "none"
  /\ chain = <<>>
  /\ header \in [prev : {ZeroId}, payload : Payloads, time : {GenesisTime}, nonce : {0}]
  /\ asked = NoTime
  /\ difficulty \in Difficulties
  /\ workLevel = AstrisWorkLevel
  /\ at = 0

\* openChain begins with a fresh validator.
StartOpening ==
  /\ pc' = "forward"
  /\ at' = 1
  /\ workLevel' = AstrisWorkLevel

\* authority simulate writes its genesis block with whatever nonce the search
\* ended with: that it found none goes unnoticed until openChain.
CreateGenesis(h) ==
  /\ chain' = <<Stored(h)>>
  /\ header' = h
  /\ StartOpening

\* One turn of CalculateProofOfWork for the genesis block.
SearchGenesis ==
  /\ pc = "none"
  /\ \/ /\ Suits(AstrisWorkLevel, header)
        /\ CreateGenesis(header)
     \/ /\ ~Suits(AstrisWorkLevel, header)
        /\ header.nonce = MaxNonce
        /\ CreateGenesis([header EXCEPT !.nonce = 0])
     \/ /\ ~Suits(AstrisWorkLevel, header)
        /\ header.nonce < MaxNonce
        /\ header' = [header EXCEPT !.nonce = @ + 1]
        /\ UNCHANGED <<pc, chain, at, workLevel>>
  /\ UNCHANGED <<asked, difficulty>>

\* One turn of the forward pass: the block is checked at the level known before
\* it, then validated, and the genesis block sets the level.
ForwardPass ==
  /\ pc = "forward"
  /\ IF Validate(chain[at], workLevel)
     THEN /\ workLevel' = difficulty
          /\ IF at = Len(chain)
             THEN pc' = "ready" /\ UNCHANGED at
             ELSE at' = at + 1 /\ UNCHANGED pc
     ELSE pc' = "failed" /\ UNCHANGED <<at, workLevel>>
  /\ UNCHANGED <<chain, header, asked, difficulty>>

\* Mint begins; its caller takes the level from the validator.
Mint(payload, ts) ==
  LET time == IF ts = 0 THEN Now ELSE ts
  IN
  /\ pc = "ready"
  /\ Len(chain) < MaxBlocks
  /\ pc' = "mining"
  /\ header' = [prev |-> Last(chain).id, payload |-> payload, time |-> time, nonce |-> 0]
  /\ asked' = time
  /\ UNCHANGED <<chain, difficulty, workLevel, at>>

\* Mutant of NextSecond: a timestamp that does not wrap.
NextSecondUnbounded(t) == t + 1

\* ts++ on a uint32
NextSecond(t) == IF t = MaxSeconds THEN 0 ELSE t + 1

\* Mutant of Add: the id is calculated for the timestamp after the one searched.
AddLate == chain' = Append(chain, [id |-> Id(header),
                                   header |-> [header EXCEPT !.time = NextSecond(@)]])
Add == chain' = Append(chain, Stored(header))

\* Mutants of NextTry: the timestamp does not move; the search goes on with the
\* nonce it ended with.
NextTrySameSecond ==
  header' = [header EXCEPT !.nonce = IF @ = MaxNonce THEN 0 ELSE @ + 1]
NextTryKeepsNonce ==
  header' = IF header.nonce = MaxNonce
            THEN [header EXCEPT !.time = NextSecond(@)]
            ELSE [header EXCEPT !.nonce = @ + 1]

\* The next nonce, or the first one of the next second.
NextTry ==
  header' = IF header.nonce = MaxNonce
            THEN [header EXCEPT !.time = NextSecond(@), !.nonce = 0]
            ELSE [header EXCEPT !.nonce = @ + 1]

\* One turn of CalculateProofOfWork under Mint.
SearchNonce ==
  /\ pc = "mining"
  /\ IF Suits(workLevel, header)
     THEN Add /\ pc' = "ready" /\ UNCHANGED header
     ELSE NextTry /\ UNCHANGED <<pc, chain>>
  /\ UNCHANGED <<asked, difficulty, workLevel, at>>

\* The process ends, or is killed in the middle of a search; another one opens
\* the chain.
Reopen ==
  /\ pc \in {"ready", "mining", "failed"}
  /\ StartOpening
  /\ asked' = NoTime
  /\ UNCHANGED <<chain, header, difficulty>>

Next ==
  \/ SearchGenesis
  \/ ForwardPass
  \/ \E payload \in Payloads, ts \in Seconds : Mint(payload, ts)
  \/ SearchNonce
  \/ Reopen

\* The search is a loop of one goroutine with a context nobody cancels.
Fairness == WF_vars(SearchNonce)

Spec == Init /\ [][Next]_vars /\ Fairness

-----------------------------------------------------------------------------
TypeOK ==
  /\ pc \in {"none", "forward", "failed", "ready", "mining"}
  /\ chain \in Seq(Blocks)
  /\ header \in Headers
  /\ asked \in Seconds \cup {NoTime}
  /\ difficulty \in Difficulties
  /\ workLevel \in {AstrisWorkLevel, difficulty}
  /\ at \in Nat

Try(h, t, n) == [h EXCEPT !.time = t, !.nonce = n]

\* A chain can be opened, after whatever was minted on it, unless no nonce at all
\* suits its genesis block: the level at which a block is searched is the level at
\* which it will be checked, and the header that is stored is the one that was
\* searched.
OpenFailsOnlyAtGenesis ==
  pc = "failed" =>
    \A n \in Nonces : ~Suits(AstrisWorkLevel, [chain[1].header EXCEPT !.nonce = n])

\* The seconds a search has left behind when it is at t (it may have gone round).
Passed(t) == IF asked <= t THEN asked .. t - 1 ELSE Seconds \ (t .. asked - 1)

\* Mint moves a block's timestamp on, perhaps out of its phase, only when no nonce
\* suits any of the seconds before, and takes the first nonce that suits: what it
\* writes depends on nothing but the block and the time asked for.
SearchSkipsNothing ==
  pc \in {"mining", "ready"} /\ asked # NoTime =>
    /\ \A t \in Passed(header.time), n \in Nonces : ~Suits(difficulty, Try(header, t, n))
    /\ \A n \in 0 .. header.nonce - 1 : ~Suits(difficulty, Try(header, header.time, n))

\* Counted word by word or bit by bit, an id has the same zeros in front.
Bit(id, b) ==
  (id[((b - 1) \div WordBits) + 1]
     \div PowerOfTwo[WordBits - 1 - ((b - 1) % WordBits)]) % 2
CheckCountsZeroBits ==
  \A level \in 0 .. Bits :
    Suits(level, header) <=> \A b \in 1 .. level : Bit(Id(header), b) = 0

\* A search ends if anything suits the block at any time at all.
Solvable  == \E t \in Seconds, n \in Nonces : Suits(workLevel, Try(header, t, n))
SearchEnds == pc = "mining" /\ Solvable ~> pc # "mining"

\* The inductive invariant behind the first two: every block after the first suits
\* the level that will be asked for, and the first one if anything could.
BlocksInv ==
  /\ pc # "none" => chain # <<>>
  /\ \A k \in DOMAIN chain :
       /\ chain[k].id = Id(chain[k].header)
       /\ k > 1 => Suits(difficulty, chain[k].header)
GenesisInv ==
  /\ pc = "none" =>
       \A n \in 0 .. header.nonce - 1 : ~Suits(AstrisWorkLevel, [header EXCEPT !.nonce = n])
  /\ chain # <<>> =>
       \/ Suits(AstrisWorkLevel, chain[1].header)
       \/ \A n \in Nonces : ~Suits(AstrisWorkLevel, [chain[1].header EXCEPT !.nonce = n])
LevelInv ==
  /\ pc = "none" => chain = <<>> /\ workLevel = AstrisWorkLevel /\ asked = NoTime
  /\ pc \in {"ready", "mining"} => workLevel = difficulty
  /\ pc \in {"forward", "failed"} => asked = NoTime
  /\ pc = "mining" => asked # NoTime
  /\ pc = "forward" =>
       /\ at \in DOMAIN chain
       /\ workLevel = IF at = 1 THEN AstrisWorkLevel ELSE difficulty
IInv == TypeOK /\ BlocksInv /\ GenesisInv /\ LevelInv /\ OpenFailsOnlyAtGenesis
        /\ SearchSkipsNothing

=============================================================================
