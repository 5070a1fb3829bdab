-------------------------------- MODULE Chain --------------------------------
(***************************************************************************)
(* The block store of one election (blockchain/chain.go, database.go) and   *)
(* the processes that open it: each keeps the list of blocks and a stateful *)
(* validator in its own memory and shares only the table of the SQLite file.*)
(*                                                                         *)
(* The validator is any BlockValidator: Apply[s, p] is its state after it   *)
(* accepted payload p in state s, Refused when it rejects p.                *)
(***************************************************************************)
EXTENDS Naturals, Sequences, FiniteSets, SequencesExt

CONSTANTS
  Procs,          \* processes that use the data directory
  Payloads,       \* block payloads
  GenesisPayload,
  States,         \* states of the validator
  Blank,          \* its state before the genesis block
  Apply,          \* Apply[s, p], see above
  Refused,
  Ids,            \* block ids, ordered as `ORDER BY id`
  ChainId,        \* the id of the genesis block
  Times,          \* timestamps given to blocks
  StorageMayFail, \* may db.Write return an error?
  CallerRetries,  \* does the caller of Mint go on after an error?
  OneAtATime      \* is the chain used by one process at a time?

ZeroId == 0

ASSUME IdsAssumption     == Ids \subseteq Nat \ {ZeroId} /\ ChainId \in Ids
ASSUME GenesisAssumption == GenesisPayload \in Payloads
ASSUME ApplyAssumption   ==
  /\ Blank \in States /\ Refused \notin States
  /\ Apply \in [States \X Payloads -> States \cup {Refused}]
  /\ Apply[Blank, GenesisPayload] # Refused

VARIABLES
  rows,      \* the table: rows[id] is a block
  pc,        \* where each process is: Create, Open and openChain, then in use
  list,      \* bc.head: the blocklist, from its first known block to the head
  at,        \* openChain: the block of `list` the forward pass is at
  state,     \* bc.validator
  official   \* the blocks whose Add returned without error

vars == <<rows, pc, list, at, state, official>>

Block == [prev : Ids \cup {ZeroId}, depth : Nat, time : Times, payload : Payloads]

Genesis(t) == [prev |-> ZeroId, depth |-> 0, time |-> t, payload |-> GenesisPayload]
IsGenesis(b) == b.depth = 0 /\ b.prev = ZeroId

\* Mutant of Before: ORDER BY depth ASC.
ShallowestFirst(i, j) == rows[i].depth < rows[j].depth

\* ORDER BY depth DESC, epoch_seconds DESC, id ASC
Before(i, j) ==
  \/ rows[i].depth > rows[j].depth
  \/ /\ rows[i].depth = rows[j].depth
     /\ \/ rows[i].time > rows[j].time
        \/ rows[i].time = rows[j].time /\ i < j
IsHead(i) == \A j \in DOMAIN rows \ {i} : Before(i, j)

\* Mutant of Depth: the number of blocks, not the depth of the head.
DepthOffByOne(p) == Len(list[p])

\* bc.depth: set by openChain from the head's row, then counted by Add.
Depth(p) == IF list[p] = <<>> THEN 0 ELSE Len(list[p]) - 1

-----------------------------------------------------------------------------
Init ==
  /\ rows = <<>>
  /\ pc = [p \in Procs |-> "closed"]
  /\ list = [p \in Procs |-> <<>>]
  /\ at = [p \in Procs |-> 0]
  /\ state = [p \in Procs |-> Blank]
  /\ official = {}

Insert(id, b) == rows' = [i \in DOMAIN rows \cup {id} |-> IF i = id THEN b ELSE rows[i]]

Goto(p, label) == pc' = [pc EXCEPT ![p] = label]

\* The process ends: Open or Mint returned an error and the command panics, it
\* is done, or it is killed. Its memory is gone; a later run starts afresh.
Forget(p) ==
  /\ Goto(p, "closed")
  /\ list' = [list EXCEPT ![p] = <<>>]
  /\ at' = [at EXCEPT ![p] = 0]
  /\ state' = [state EXCEPT ![p] = Blank]

Exit(p) ==
  /\ pc[p] # "closed"
  /\ Forget(p)
  /\ UNCHANGED <<rows, official>>

MayStart(p) ==
  /\ pc[p] = "closed"
  /\ OneAtATime => \A q \in Procs : pc[q] = "closed"

\* Create writes the genesis block unchecked, then opens the chain. When the
\* block is there already its INSERT fails, and Create with it.
Create(p, t) ==
  /\ MayStart(p)
  /\ ChainId \notin DOMAIN rows
  /\ Insert(ChainId, Genesis(t))
  /\ Goto(p, "opening")
  /\ UNCHANGED <<list, at, state, official>>

Open(p) ==
  /\ MayStart(p)
  /\ Goto(p, "opening")
  /\ UNCHANGED <<rows, list, at, state, official>>

\* openChain reads the head once. A chain without blocks is ready at once.
ReadHead(p) ==
  /\ pc[p] = "opening"
  /\ IF DOMAIN rows = {}
     THEN Goto(p, "ready") /\ UNCHANGED list
     ELSE \E head \in DOMAIN rows :
            /\ IsHead(head)
            /\ Goto(p, "reverse") /\ list' = [list EXCEPT ![p] = <<head>>]
  /\ UNCHANGED <<rows, at, state, official>>

\* Mutant of Broken: the level that must follow is off by one.
BrokenOffByOne(id, last) ==
  id \notin DOMAIN rows \/ (last # 0 /\ rows[id].depth # last)

\* One turn of the loop that walks from the head back to the genesis block: the
\* block must be there, one level above the last one, and the chain's own
\* genesis block if it is one at all.
Broken(id, last) ==
  \/ id \notin DOMAIN rows
  \/ last # 0 /\ rows[id].depth # last - 1
  \/ IsGenesis(rows[id]) /\ id # ChainId

ReversePass(p) ==
  LET id   == Head(list[p])
      last == IF Len(list[p]) = 1 THEN 0 ELSE rows[list[p][2]].depth
  IN
  /\ pc[p] = "reverse"
  /\ IF Broken(id, last)
     THEN Goto(p, "failed") /\ UNCHANGED <<list, at>>
     ELSE IF IsGenesis(rows[id])
     THEN Goto(p, "forward") /\ at' = [at EXCEPT ![p] = 1] /\ UNCHANGED list
     ELSE list' = [list EXCEPT ![p] = <<rows[id].prev>> \o @] /\ UNCHANGED <<pc, at>>
  /\ UNCHANGED <<rows, state, official>>

\* One turn of the loop that validates from the genesis block up to the head.
ForwardPass(p) ==
  LET after == Apply[state[p], rows[list[p][at[p]]].payload]
  IN
  /\ pc[p] = "forward"
  /\ IF after = Refused
     THEN Goto(p, "failed") /\ UNCHANGED <<at, state>>
     ELSE /\ state' = [state EXCEPT ![p] = after]
          /\ IF at[p] = Len(list[p])
             THEN Goto(p, "ready") /\ UNCHANGED at
             ELSE at' = [at EXCEPT ![p] = @ + 1] /\ UNCHANGED pc
  /\ UNCHANGED <<rows, list, official>>

-----------------------------------------------------------------------------
\* Mint on a chain opened while it had no blocks: bc.head is nil, a panic.
MintOnEmptyChain(p) ==
  /\ pc[p] = "ready"
  /\ list[p] = <<>>
  /\ Forget(p)
  /\ UNCHANGED <<rows, official>>

\* The block id is a hash of previous id, payload and time: the same three give
\* the same id, any others one that is not in the table yet.
BlockIds(prev, payload, t) ==
  LET same == {i \in DOMAIN rows : /\ rows[i].prev = prev
                                   /\ rows[i].payload = payload
                                   /\ rows[i].time = t}
  IN IF same # {} THEN same ELSE Ids \ ({ChainId} \cup DOMAIN rows)

\* bc.validator.Validate, and its mutant: its answer is ignored.
AcceptsAll(p, payload) == TRUE
Accepts(p, payload)    == Apply[state[p], payload] # Refused

\* Mutant of AddFails: the process goes on with its chain.
AddFailsUnnoticed(p, after) ==
  state' = [state EXCEPT ![p] = after] /\ UNCHANGED <<pc, list, at>>

\* Add returned an error: every command panics on it; a caller that retries
\* keeps its chain, with whatever the validator made of the block.
AddFails(p, after) ==
  IF CallerRetries
  THEN state' = [state EXCEPT ![p] = after] /\ UNCHANGED <<pc, list, at>>
  ELSE Forget(p)

\* Mint links the new block to the list's head and calls Add, which validates
\* it, writes it, and only then moves the head. Only the write is seen by other
\* processes, so the whole call is one step.
Mint(p, payload, t) ==
  LET after == Apply[state[p], payload] IN
  /\ pc[p] = "ready"
  /\ list[p] # <<>>
  /\ \E id \in BlockIds(Last(list[p]), payload, t) :
       \/ /\ ~Accepts(p, payload)
          /\ AddFails(p, state[p])
          /\ UNCHANGED <<rows, official>>
       \/ /\ Accepts(p, payload)
          /\ StorageMayFail \/ id \in DOMAIN rows
          /\ AddFails(p, after)
          /\ UNCHANGED <<rows, official>>
       \/ /\ Accepts(p, payload)
          /\ id \notin DOMAIN rows
          /\ Insert(id, [prev |-> Last(list[p]), depth |-> Depth(p) + 1,
                         time |-> t, payload |-> payload])
          /\ list' = [list EXCEPT ![p] = Append(@, id)]
          /\ state' = [state EXCEPT ![p] = after]
          /\ official' = official \cup {id}
          /\ UNCHANGED <<pc, at>>

\* The block at a depth, and the one after a block, found by walking back through
\* the list from its head; ZeroId if there is none. The genesis block is at depth 0
\* of any chain, also of one without blocks.
AtDepth(p, d) ==
  IF d = 0 THEN ChainId
  ELSE IF Depth(p) < d THEN ZeroId
  ELSE list[p][Len(list[p]) - (Depth(p) - d)]
NextOf(p, id) ==
  LET found == {k \in DOMAIN list[p] : list[p][k] = id}
  IN  IF found \ {Len(list[p])} = {} THEN ZeroId ELSE list[p][Max(found) + 1]

\* Mutant of Opening: nothing takes the list through the validator.
OpeningUnvalidated(p) == ReadHead(p) \/ ReversePass(p)

Opening(p) == ReadHead(p) \/ ReversePass(p) \/ ForwardPass(p)

Next ==
  \E p \in Procs :
    \/ \E t \in Times : Create(p, t)
    \/ Open(p)
    \/ Opening(p)
    \/ MintOnEmptyChain(p)
    \/ \E payload \in Payloads, t \in Times : Mint(p, payload, t)
    \/ Exit(p)

\* openChain is a loop of one goroutine: a process that is opening goes on.
Fairness == \A p \in Procs : WF_vars(Opening(p))

Spec == Init /\ [][Next]_vars /\ Fairness

-----------------------------------------------------------------------------
TypeOK ==
  /\ DOMAIN rows \subseteq Ids
  /\ \A i \in DOMAIN rows : rows[i] \in Block
  /\ pc \in [Procs -> {"closed", "opening", "reverse", "forward", "ready", "failed"}]
  /\ list \in [Procs -> Seq(Ids \cup {ZeroId})]
  /\ at \in [Procs -> Nat]
  /\ state \in [Procs -> States]
  /\ official \subseteq Ids

HeadId == CHOOSE i \in DOMAIN rows : IsHead(i)

\* The payloads from the genesis block to block `id`, and the validator's state
\* after them: what a process that opens the chain at `id` will find.
PayloadsTo ==
  LET path[i \in DOMAIN rows] ==
        IF i = ChainId THEN <<rows[i].payload>>
        ELSE Append(path[rows[i].prev], rows[i].payload)
  IN path
StateAfter ==
  LET replay[i \in DOMAIN rows] ==
        IF i = ChainId THEN Apply[Blank, rows[i].payload]
        ELSE IF replay[rows[i].prev] = Refused THEN Refused
        ELSE Apply[replay[rows[i].prev], rows[i].payload]
  IN replay

BlocksTo ==
  LET blocks[i \in DOMAIN rows] ==
        IF i = ChainId THEN {i} ELSE {i} \cup blocks[rows[i].prev]
  IN blocks

\* The table is a tree on the genesis block: every block hangs on one that is
\* there, a level deeper, whoever wrote it and however their writes interleaved.
RowsFormATree ==
  \A i \in DOMAIN rows \ {ChainId} :
    rows[i].prev \in DOMAIN rows /\ rows[i].depth = rows[rows[i].prev].depth + 1

\* The inductive invariant behind RowsFormATree. What a process that is past the
\* head query has in its list are blocks of the table, a level apart, and once the
\* reverse pass is over the first is at level 0: so Mint's bc.depth + 1 is the
\* level below the block it links to.
GenesisInv ==
  \A i \in DOMAIN rows : i = ChainId => rows[i].depth = 0 /\ rows[i].prev = ZeroId
ListOK(p) ==
  /\ pc[p] \in {"closed", "opening"} => list[p] = <<>>
  /\ pc[p] \in {"reverse", "forward"} => list[p] # <<>>
  /\ pc[p] = "forward" => at[p] \in DOMAIN list[p]
  /\ \A k \in DOMAIN list[p] :
       /\ list[p][k] \in DOMAIN rows
       /\ rows[list[p][k]].depth = rows[list[p][1]].depth + (k - 1)
       /\ k > 1 => rows[list[p][k]].prev = list[p][k - 1]
  /\ pc[p] \in {"forward", "ready"} /\ list[p] # <<>> => rows[list[p][1]].depth = 0
IInv == TypeOK /\ GenesisInv /\ RowsFormATree /\ \A p \in Procs : ListOK(p)

\* Walking up a chain in use from the genesis block, by depth or from one block to
\* the next, meets every block of its branch once, each hanging on the one before,
\* and ends at the head: whoever else wrote blocks into the table.
BlocksAreFoundByDepth ==
  \A p \in Procs : pc[p] = "ready" /\ list[p] # <<>> =>
    /\ \A d \in 0 .. Depth(p) :
         /\ AtDepth(p, d) \in DOMAIN rows
         /\ rows[AtDepth(p, d)].depth = d
         /\ d > 0 => /\ rows[AtDepth(p, d)].prev = AtDepth(p, d - 1)
                     /\ NextOf(p, AtDepth(p, d - 1)) = AtDepth(p, d)
    /\ AtDepth(p, Depth(p)) = Last(list[p])
    /\ NextOf(p, Last(list[p])) = ZeroId

\* A process in use knows the state the blocks of its list add up to: what its
\* validator accepts next is what any process opening that list would accept.
ValidatorMatchesList ==
  \A p \in Procs :
    pc[p] = "ready" /\ list[p] # <<>> => state[p] = StateAfter[Last(list[p])]

\* What Add and Mint have written can be opened again: both passes of openChain
\* succeed over the table, also when it grew between two of their steps.
OpenNeverFails == \A p \in Procs : pc[p] # "failed"

\* A block whose Add returned is on the chain that any process opening it from
\* now on will find: 'This is now an "official" block'.
OfficialBlocksStay ==
  official # {} => official \subseteq BlocksTo[HeadId]

\* A process that opens the chain gets to use it, or ends, though others write
\* more blocks meanwhile.
OpenTerminates ==
  \A p \in Procs : pc[p] = "opening" ~> pc[p] \in {"ready", "failed", "closed"}

\* The chain found from the head of the table only grows, by payloads its
\* validator accepts: a block is never replaced by one of another branch.
L == INSTANCE Ledger WITH
       log   <- IF DOMAIN rows = {} THEN <<>> ELSE PayloadsTo[HeadId],
       rules <- IF DOMAIN rows = {} THEN Blank ELSE StateAfter[HeadId]
ImplementsLedger == L!LedgerSpec

=============================================================================
