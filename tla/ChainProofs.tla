----------------------------- MODULE ChainProofs -----------------------------
(***************************************************************************)
(* For every set of processes, payloads, ids and times, every validator, and *)
(* whatever is shared, fails or is retried: the types of Chain, and that the  *)
(* table is always a tree; what the block store promises of the blocks it     *)
(* holds; and that it implements Ledger. Nothing here depends on Fairness.    *)
(***************************************************************************)
EXTENDS Chain, ArithmeticProofs

\* Insert(id, b) with an id that is not there adds one row and keeps the others.
LEMMA InsertAdds ==
  ASSUME NEW id, NEW b, id \notin DOMAIN rows, Insert(id, b)
  PROVE  /\ DOMAIN rows' = DOMAIN rows \cup {id}
         /\ rows'[id] = b
         /\ \A i \in DOMAIN rows : rows'[i] = rows[i]
  BY DEF Insert

\* A process that did not move is all right in a table that grew.
LEMMA ListOKStays ==
  ASSUME TypeOK, NEW p \in Procs, ListOK(p),
         pc'[p] = pc[p], list'[p] = list[p], at'[p] = at[p],
         DOMAIN rows \subseteq DOMAIN rows',
         \A i \in DOMAIN rows : rows'[i] = rows[i]
  PROVE  ListOK(p)'
<1>1. list[p] \in Seq(Ids \cup {ZeroId})
  BY DEF TypeOK
<1>2. list[p] # <<>> => 1 \in DOMAIN list[p]
  BY <1>1
<1>3. \A k \in DOMAIN list[p] : 1 \in DOMAIN list[p]
  BY <1>1
<1>4. \A k \in DOMAIN list[p] :
        list[p][k] \in DOMAIN rows /\ rows'[list[p][k]] = rows[list[p][k]]
  BY DEF ListOK
<1> QED
  BY <1>2, <1>3, <1>4 DEF ListOK

LEMMA InitIInv == Init => IInv
<1> SUFFICES ASSUME Init PROVE IInv
  OBVIOUS
<1>1. DOMAIN rows = {}
  BY DEF Init
<1>2. TypeOK
  <2>1. <<>> \in Seq(Ids \cup {ZeroId})
    OBVIOUS
  <2>2. list \in [Procs -> Seq(Ids \cup {ZeroId})]
    BY <2>1 DEF Init
  <2> QED
    BY <1>1, <2>2, ApplyAssumption DEF Init, TypeOK
<1>3. ASSUME NEW p \in Procs PROVE ListOK(p)
  BY DEF Init, ListOK
<1> QED
  BY <1>1, <1>2, <1>3 DEF IInv, GenesisInv, RowsFormATree

\* A process that ends has nothing left to satisfy.
LEMMA ForgetKeepsIInv ==
  ASSUME IInv, NEW p \in Procs, Forget(p), UNCHANGED <<rows, official>>
  PROVE  IInv'
<1>1. TypeOK'
  <2>1. list' \in [Procs -> Seq(Ids \cup {ZeroId})]
    <3>1. <<>> \in Seq(Ids \cup {ZeroId})
      OBVIOUS
    <3> QED
      BY <3>1 DEF IInv, TypeOK, Forget
  <2>2. pc' \in [Procs -> {"closed", "opening", "reverse", "forward", "ready", "failed"}]
    BY DEF IInv, TypeOK, Forget, Goto
  <2>3. at' \in [Procs -> Nat] /\ state' \in [Procs -> States]
    BY ApplyAssumption DEF IInv, TypeOK, Forget
  <2> QED
    BY <2>1, <2>2, <2>3 DEF IInv, TypeOK
<1>2. GenesisInv' /\ RowsFormATree'
  BY DEF IInv, GenesisInv, RowsFormATree
<1>3. ASSUME NEW q \in Procs PROVE ListOK(q)'
  <2>1. CASE q = p
    <3>1. list'[p] = <<>> /\ pc'[p] = "closed"
      BY DEF IInv, TypeOK, Forget, Goto
    <3> QED
      BY <2>1, <3>1 DEF ListOK
  <2>2. CASE q # p
    <3>1. pc'[q] = pc[q] /\ list'[q] = list[q] /\ at'[q] = at[q]
      BY <2>2 DEF IInv, TypeOK, Forget, Goto
    <3> QED
      BY <3>1, ListOKStays DEF IInv
  <2> QED
    BY <2>1, <2>2
<1> QED
  BY <1>1, <1>2, <1>3 DEF IInv

-----------------------------------------------------------------------------
\* The genesis block is written at level 0 into a table that lacks it.
LEMMA CreateKeepsIInv ==
  ASSUME IInv, NEW p \in Procs, NEW t \in Times, Create(p, t)
  PROVE  IInv'
<1>1. /\ DOMAIN rows' = DOMAIN rows \cup {ChainId}
      /\ rows'[ChainId] = Genesis(t)
      /\ \A i \in DOMAIN rows : rows'[i] = rows[i]
  BY InsertAdds DEF Create
<1>2. Genesis(t) \in Block /\ Genesis(t).depth = 0 /\ Genesis(t).prev = ZeroId
  BY GenesisAssumption DEF Genesis, Block
<1>3. TypeOK'
  <2>1. DOMAIN rows' \subseteq Ids /\ \A i \in DOMAIN rows' : rows'[i] \in Block
    BY <1>1, <1>2, IdsAssumption DEF IInv, TypeOK
  <2> QED
    BY <2>1 DEF IInv, TypeOK, Create, Goto
<1>4. GenesisInv'
  BY <1>1, <1>2 DEF GenesisInv
<1>5. RowsFormATree'
  BY <1>1 DEF IInv, RowsFormATree, Create
<1>6. ASSUME NEW q \in Procs PROVE ListOK(q)'
  <2>1. list'[q] = list[q] /\ at'[q] = at[q]
    BY DEF Create
  <2>2. CASE q = p
    <3>1. list[p] = <<>> /\ pc'[p] = "opening"
      BY DEF IInv, TypeOK, ListOK, Create, MayStart, Goto
    <3> QED
      BY <2>1, <2>2, <3>1 DEF ListOK
  <2>3. CASE q # p
    <3>1. pc'[q] = pc[q]
      BY <2>3 DEF IInv, TypeOK, Create, Goto
    <3> QED
      BY <1>1, <2>1, <3>1, ListOKStays DEF IInv
  <2> QED
    BY <2>2, <2>3
<1> QED
  BY <1>3, <1>4, <1>5, <1>6 DEF IInv

LEMMA OpenKeepsIInv ==
  ASSUME IInv, NEW p \in Procs, Open(p)
  PROVE  IInv'
<1>1. TypeOK'
  BY DEF IInv, TypeOK, Open, Goto
<1>2. GenesisInv' /\ RowsFormATree'
  BY DEF IInv, GenesisInv, RowsFormATree, Open
<1>3. ASSUME NEW q \in Procs PROVE ListOK(q)'
  <2>1. /\ UNCHANGED <<rows, list, at>>
        /\ q # p => pc'[q] = pc[q]
        /\ pc[p] = "closed" /\ pc'[p] = "opening"
    BY DEF IInv, TypeOK, Open, MayStart, Goto
  <2> QED
    BY <2>1 DEF IInv, ListOK
<1> QED
  BY <1>1, <1>2, <1>3 DEF IInv

-----------------------------------------------------------------------------
\* The three kinds of step of openChain only read the table, and leave the other
\* processes alone; what is left to show is that the process itself is all right.
LEMMA OpeningKeepsIInv ==
  ASSUME IInv, NEW p \in Procs, UNCHANGED <<rows, official>>, TypeOK',
         \A q \in Procs \ {p} : pc'[q] = pc[q] /\ list'[q] = list[q] /\ at'[q] = at[q],
         ListOK(p)'
  PROVE  IInv'
<1>1. GenesisInv' /\ RowsFormATree'
  BY DEF IInv, GenesisInv, RowsFormATree
<1>2. ASSUME NEW q \in Procs PROVE ListOK(q)'
  <2>1. CASE q = p
    BY <2>1
  <2>2. CASE q # p
    <3>1. ListOK(q) /\ TypeOK /\ rows' = rows
      BY DEF IInv
    <3> QED
      BY <2>2, <3>1, ListOKStays
  <2> QED
    BY <2>1, <2>2
<1> QED
  BY <1>1, <1>2 DEF IInv

LEMMA ReadHeadKeepsIInv ==
  ASSUME IInv, NEW p \in Procs, ReadHead(p)
  PROVE  IInv'
<1>1. /\ UNCHANGED <<rows, at, state, official>>
      /\ \A q \in Procs \ {p} : pc'[q] = pc[q] /\ list'[q] = list[q] /\ at'[q] = at[q]
  BY DEF ReadHead, Goto, IInv, TypeOK
<1>2. CASE DOMAIN rows = {}
  <2>1. pc'[p] = "ready" /\ list' = list /\ list[p] = <<>>
    BY <1>2 DEF ReadHead, Goto, IInv, TypeOK, ListOK
  <2>2. TypeOK'
    BY <1>1, <1>2 DEF ReadHead, Goto, IInv, TypeOK
  <2>3. ListOK(p)'
    BY <2>1 DEF ListOK
  <2> QED
    BY <1>1, <2>2, <2>3, OpeningKeepsIInv
<1>3. CASE DOMAIN rows # {}
  <2>1. PICK head \in DOMAIN rows :
          Goto(p, "reverse") /\ list' = [list EXCEPT ![p] = <<head>>]
    BY <1>3 DEF ReadHead
  <2>2. pc'[p] = "reverse" /\ list'[p] = <<head>> /\ rows[head].depth \in Nat
    BY <2>1 DEF Goto, IInv, TypeOK, Block
  <2>3. TypeOK'
    <3>1. head \in Ids \cup {ZeroId}
      BY DEF IInv, TypeOK
    <3>2. list' \in [Procs -> Seq(Ids \cup {ZeroId})]
      BY <2>1, <3>1 DEF IInv, TypeOK
    <3> QED
      BY <1>1, <2>1, <3>2 DEF Goto, IInv, TypeOK
  <2>4. ListOK(p)'
    <3>1. \A k \in DOMAIN list'[p] : k = 1 /\ list'[p][k] = head
      BY <2>2
    <3> QED
      BY <1>1, <2>2, <3>1 DEF ListOK
  <2> QED
    BY <1>1, <2>3, <2>4, OpeningKeepsIInv
<1> QED
  BY <1>2, <1>3

\* A block put before the list is the parent of the list's first block, so it
\* is one level above it: the table is a tree.
LEMMA ReversePassKeepsIInv ==
  ASSUME IInv, NEW p \in Procs, ReversePass(p)
  PROVE  IInv'
<1> DEFINE id == Head(list[p])
<1>1. /\ UNCHANGED <<rows, state, official>>
      /\ \A q \in Procs \ {p} : pc'[q] = pc[q] /\ list'[q] = list[q] /\ at'[q] = at[q]
  BY DEF ReversePass, Goto, IInv, TypeOK
<1>2. /\ pc[p] = "reverse" /\ list[p] # <<>> /\ ListOK(p)
      /\ list[p] \in Seq(Ids \cup {ZeroId})
  BY DEF ReversePass, IInv, TypeOK, ListOK
<1>3. id = list[p][1] /\ 1 \in DOMAIN list[p]
  BY <1>2
<1>4. id \in DOMAIN rows /\ rows[id] \in Block
  BY <1>2, <1>3 DEF ListOK, IInv, TypeOK
<1>5. \/ Goto(p, "failed") /\ UNCHANGED <<list, at>>
      \/ IsGenesis(rows[id]) /\ Goto(p, "forward") /\ at' = [at EXCEPT ![p] = 1]
           /\ UNCHANGED list
      \/ /\ ~IsGenesis(rows[id])
         /\ list' = [list EXCEPT ![p] = <<rows[id].prev>> \o @]
         /\ UNCHANGED <<pc, at>>
  BY DEF ReversePass
<1>6. CASE Goto(p, "failed") /\ UNCHANGED <<list, at>>
  <2>1. pc'[p] = "failed"
    BY <1>6 DEF Goto, IInv, TypeOK
  <2>2. TypeOK'
    BY <1>1, <1>6 DEF Goto, IInv, TypeOK
  <2>3. ListOK(p)'
    BY <1>1, <1>2, <1>6, <2>1 DEF ListOK
  <2> QED
    BY <1>1, <2>2, <2>3, OpeningKeepsIInv
<1>7. CASE IsGenesis(rows[id]) /\ Goto(p, "forward") /\ at' = [at EXCEPT ![p] = 1]
             /\ UNCHANGED list
  <2>1. pc'[p] = "forward" /\ at'[p] = 1 /\ rows[list[p][1]].depth = 0
    BY <1>3, <1>7 DEF Goto, IInv, TypeOK, IsGenesis
  <2>2. TypeOK'
    BY <1>1, <1>7 DEF Goto, IInv, TypeOK
  <2>3. ListOK(p)'
    BY <1>1, <1>2, <1>3, <1>7, <2>1 DEF ListOK
  <2> QED
    BY <1>1, <2>2, <2>3, OpeningKeepsIInv
<1>8. CASE /\ ~IsGenesis(rows[id])
           /\ list' = [list EXCEPT ![p] = <<rows[id].prev>> \o @]
           /\ UNCHANGED <<pc, at>>
  <2> DEFINE prev == rows[id].prev
  <2>1. id # ChainId
    BY <1>4, <1>8 DEF IInv, GenesisInv, IsGenesis
  <2>2. prev \in DOMAIN rows /\ rows[id].depth = rows[prev].depth + 1
    BY <1>4, <2>1 DEF IInv, RowsFormATree
  <2>3. prev \in Ids \cup {ZeroId} /\ rows[prev] \in Block /\ rows[prev].depth \in Nat
    BY <2>2 DEF IInv, TypeOK, Block
  <2>4. list'[p] = <<prev>> \o list[p]
    BY <1>8 DEF IInv, TypeOK
  <2>5. TypeOK'
    <3>1. <<prev>> \o list[p] \in Seq(Ids \cup {ZeroId})
      BY <1>2, <2>3
    <3>2. list' \in [Procs -> Seq(Ids \cup {ZeroId})]
      BY <1>8, <3>1 DEF IInv, TypeOK
    <3> QED
      BY <1>1, <1>8, <3>2 DEF IInv, TypeOK
  <2>6. ListOK(p)'
    <3>1. \A k \in DOMAIN list'[p] :
            \/ k = 1 /\ list'[p][k] = prev
            \/ k - 1 \in DOMAIN list[p] /\ list'[p][k] = list[p][k - 1]
      BY <1>2, <2>3, <2>4
    <3>2. list'[p][1] = prev /\ list'[p] # <<>>
      BY <1>2, <2>3, <2>4
    <3>3. ASSUME NEW k \in DOMAIN list'[p]
          PROVE  /\ list'[p][k] \in DOMAIN rows
                 /\ rows[list'[p][k]].depth = rows[list'[p][1]].depth + (k - 1)
                 /\ k > 1 => rows[list'[p][k]].prev = list'[p][k - 1]
      <4>1. CASE k = 1 /\ list'[p][k] = prev
        BY <2>2, <2>3, <3>2, <4>1
      <4>2. CASE k - 1 \in DOMAIN list[p] /\ list'[p][k] = list[p][k - 1]
        <5>1. /\ list[p][k - 1] \in DOMAIN rows
              /\ rows[list[p][k - 1]].depth = rows[id].depth + ((k - 1) - 1)
          BY <1>2, <1>3, <4>2 DEF ListOK
        <5>2. k \in Nat
          BY <1>2, <4>2, <2>4, <2>3
        <5>3. rows[list[p][k - 1]].depth = rows[prev].depth + (k - 1)
          BY <2>2, <2>3, <5>1, <5>2
        <5>4. CASE k = 2
          BY <1>3, <3>2, <4>2, <5>1, <5>3, <5>4
        <5>5. CASE k # 2
          <6>1. k - 1 \in 1 .. Len(list[p]) /\ Len(list[p]) \in Nat
            BY <1>2, <4>2
          <6>2. k - 1 > 1 /\ k - 1 \in DOMAIN list'[p]
            BY <1>2, <2>3, <2>4, <5>2, <5>5, <6>1
          <6>3. rows[list[p][k - 1]].prev = list[p][(k - 1) - 1]
            BY <1>2, <4>2, <6>2 DEF ListOK
          <6>4. list'[p][k - 1] = list[p][(k - 1) - 1]
            BY <3>1, <6>2
          <6> QED
            BY <3>2, <4>2, <5>1, <5>3, <6>3, <6>4
        <5> QED
          BY <5>4, <5>5
      <4> QED
        BY <3>1, <4>1, <4>2
    <3> QED
      BY <1>1, <1>2, <1>8, <3>2, <3>3 DEF ListOK
  <2> QED
    BY <1>1, <2>5, <2>6, OpeningKeepsIInv
<1> QED
  BY <1>5, <1>6, <1>7, <1>8

LEMMA ForwardPassKeepsIInv ==
  ASSUME IInv, NEW p \in Procs, ForwardPass(p)
  PROVE  IInv'
<1> DEFINE b     == rows[list[p][at[p]]]
           after == Apply[state[p], b.payload]
<1>1. /\ UNCHANGED <<rows, list, official>>
      /\ \A q \in Procs \ {p} : pc'[q] = pc[q] /\ list'[q] = list[q] /\ at'[q] = at[q]
  BY DEF ForwardPass, Goto, IInv, TypeOK
<1>2. /\ pc[p] = "forward" /\ list[p] # <<>> /\ ListOK(p)
      /\ list[p] \in Seq(Ids \cup {ZeroId})
      /\ at[p] \in DOMAIN list[p]
  BY DEF ForwardPass, IInv, TypeOK, ListOK
<1>3. b \in Block
  BY <1>2 DEF ListOK, IInv, TypeOK
<1>4. after \in States \cup {Refused}
  BY <1>3, ApplyAssumption DEF IInv, TypeOK, Block
<1>5. CASE after = Refused
  <2>1. pc'[p] = "failed" /\ UNCHANGED <<at, state>> /\ Goto(p, "failed")
    BY <1>5 DEF ForwardPass, Goto, IInv, TypeOK
  <2>2. TypeOK'
    BY <1>1, <2>1 DEF Goto, IInv, TypeOK
  <2>3. ListOK(p)'
    BY <1>1, <1>2, <2>1 DEF ListOK
  <2> QED
    BY <1>1, <2>2, <2>3, OpeningKeepsIInv
<1>6. CASE after # Refused
  <2>1. /\ state' = [state EXCEPT ![p] = after]
        /\ \/ at[p] = Len(list[p]) /\ Goto(p, "ready") /\ UNCHANGED at
           \/ at[p] # Len(list[p]) /\ at' = [at EXCEPT ![p] = @ + 1] /\ UNCHANGED pc
    BY <1>6 DEF ForwardPass
  <2>2. state' \in [Procs -> States]
    BY <1>4, <1>6, <2>1 DEF IInv, TypeOK
  <2>3. TypeOK'
    <3>1. at' \in [Procs -> Nat]
      <4>1. at \in [Procs -> Nat] /\ at[p] + 1 \in Nat
        BY DEF IInv, TypeOK
      <4> QED
        BY <2>1, <4>1
    <3>2. pc' \in [Procs -> {"closed", "opening", "reverse", "forward", "ready", "failed"}]
      BY <2>1 DEF Goto, IInv, TypeOK
    <3> QED
      BY <1>1, <2>2, <3>1, <3>2 DEF IInv, TypeOK
  <2>4. pc'[p] \in {"forward", "ready"} /\ pc'[p] = "forward" => at'[p] \in DOMAIN list[p]
    <3>1. DOMAIN list[p] = 1 .. Len(list[p]) /\ Len(list[p]) \in Nat
      BY <1>2
    <3>2. CASE Goto(p, "ready")
      BY <3>2 DEF Goto, IInv, TypeOK
    <3>3. CASE at[p] # Len(list[p]) /\ at' = [at EXCEPT ![p] = @ + 1] /\ UNCHANGED pc
      BY <1>2, <3>1, <3>3 DEF IInv, TypeOK
    <3> QED
      BY <2>1, <3>2, <3>3
  <2>5. pc'[p] \in {"forward", "ready"}
    BY <1>2, <2>1 DEF Goto, IInv, TypeOK
  <2>6. ListOK(p)'
    BY <1>1, <1>2, <2>4, <2>5 DEF ListOK
  <2> QED
    BY <1>1, <2>3, <2>6, OpeningKeepsIInv
<1> QED
  BY <1>5, <1>6

-----------------------------------------------------------------------------
\* A failed call keeps the chain, or ends the process with it.
LEMMA AddFailsKeepsIInv ==
  ASSUME IInv, NEW p \in Procs, NEW after \in States, AddFails(p, after),
         UNCHANGED <<rows, official>>
  PROVE  IInv'
<1>1. CASE CallerRetries
  <2>1. state' = [state EXCEPT ![p] = after] /\ UNCHANGED <<pc, list, at>>
    BY <1>1 DEF AddFails
  <2> QED
    BY <2>1 DEF IInv, TypeOK, GenesisInv, RowsFormATree, ListOK
<1>2. CASE ~CallerRetries
  BY <1>2, ForgetKeepsIInv DEF AddFails
<1> QED
  BY <1>1, <1>2

\* The block Mint adds is one level below the last of the list, which begins at
\* level 0: bc.depth counts the levels, though Add never looks at the table.
LEMMA MintKeepsIInv ==
  ASSUME IInv, NEW p \in Procs, NEW payload \in Payloads, NEW t \in Times,
         Mint(p, payload, t)
  PROVE  IInv'
<1> DEFINE after == Apply[state[p], payload]
           last  == Last(list[p])
<1>1. /\ pc[p] = "ready" /\ list[p] # <<>> /\ ListOK(p)
      /\ list[p] \in Seq(Ids \cup {ZeroId})
      /\ state[p] \in States
  BY DEF Mint, IInv, TypeOK
<1>2. after \in States \cup {Refused}
  BY <1>1, ApplyAssumption
<1>3. PICK id \in BlockIds(last, payload, t) :
        \/ AddFails(p, state[p]) /\ UNCHANGED <<rows, official>>
        \/ after # Refused /\ AddFails(p, after) /\ UNCHANGED <<rows, official>>
        \/ /\ after # Refused
           /\ id \notin DOMAIN rows
           /\ Insert(id, [prev |-> last, depth |-> Depth(p) + 1,
                          time |-> t, payload |-> payload])
           /\ list' = [list EXCEPT ![p] = Append(@, id)]
           /\ state' = [state EXCEPT ![p] = after]
           /\ official' = official \cup {id}
           /\ UNCHANGED <<pc, at>>
  BY DEF Mint, Accepts
<1>4. CASE \/ AddFails(p, state[p]) /\ UNCHANGED <<rows, official>>
           \/ after # Refused /\ AddFails(p, after) /\ UNCHANGED <<rows, official>>
  BY <1>1, <1>2, <1>4, AddFailsKeepsIInv
<1>5. CASE /\ after # Refused
           /\ id \notin DOMAIN rows
           /\ Insert(id, [prev |-> last, depth |-> Depth(p) + 1,
                          time |-> t, payload |-> payload])
           /\ list' = [list EXCEPT ![p] = Append(@, id)]
           /\ state' = [state EXCEPT ![p] = after]
           /\ official' = official \cup {id}
           /\ UNCHANGED <<pc, at>>
  <2> DEFINE b == [prev |-> last, depth |-> Depth(p) + 1, time |-> t, payload |-> payload]
  <2>1. id \in Ids /\ id # ChainId
    BY <1>5 DEF BlockIds
  <2>2. /\ DOMAIN rows' = DOMAIN rows \cup {id}
        /\ rows'[id] = b
        /\ \A i \in DOMAIN rows : rows'[i] = rows[i]
    BY <1>5, InsertAdds
  <2>3. /\ Len(list[p]) \in Nat \ {0} /\ 1 \in DOMAIN list[p]
        /\ Len(list[p]) \in DOMAIN list[p] /\ last = list[p][Len(list[p])]
    BY <1>1 DEF Last
  <2>4. /\ last \in DOMAIN rows /\ last \in Ids
        /\ rows[list[p][1]].depth = 0
        /\ rows[last].depth = Len(list[p]) - 1
    BY <1>1, <2>3 DEF ListOK, IInv, TypeOK
  <2>5. Depth(p) = Len(list[p]) - 1 /\ Depth(p) + 1 = Len(list[p])
    BY <1>1, <2>3 DEF Depth
  <2>6. b \in Block
    BY <2>3, <2>4, <2>5 DEF Block
  <2>7. TypeOK'
    <3>1. DOMAIN rows' \subseteq Ids /\ \A i \in DOMAIN rows' : rows'[i] \in Block
      BY <2>1, <2>2, <2>6 DEF IInv, TypeOK
    <3>2. list' \in [Procs -> Seq(Ids \cup {ZeroId})]
      <4>1. Append(list[p], id) \in Seq(Ids \cup {ZeroId})
        BY <1>1, <2>1
      <4> QED
        BY <1>5, <4>1 DEF IInv, TypeOK
    <3>3. state' \in [Procs -> States]
      BY <1>2, <1>5 DEF IInv, TypeOK
    <3> QED
      BY <1>5, <2>1, <3>1, <3>2, <3>3 DEF IInv, TypeOK
  <2>8. GenesisInv'
    BY <2>1, <2>2 DEF IInv, GenesisInv
  <2>9. RowsFormATree'
    <3>1. rows'[id].prev \in DOMAIN rows' /\ rows'[id].depth = rows'[rows'[id].prev].depth + 1
      BY <2>2, <2>3, <2>4, <2>5
    <3>2. \A i \in DOMAIN rows \ {ChainId} :
            rows'[i].prev \in DOMAIN rows' /\ rows'[i].depth = rows'[rows'[i].prev].depth + 1
      BY <2>2 DEF IInv, RowsFormATree
    <3> QED
      BY <2>2, <3>1, <3>2 DEF RowsFormATree
  <2>10. ASSUME NEW q \in Procs PROVE ListOK(q)'
    <3>1. CASE q # p
      <4>1. pc'[q] = pc[q] /\ list'[q] = list[q] /\ at'[q] = at[q]
        BY <1>5, <3>1 DEF IInv, TypeOK
      <4> QED
        BY <2>2, <4>1, ListOKStays DEF IInv
    <3>2. CASE q = p
      <4>1. list'[p] = Append(list[p], id) /\ pc'[p] = "ready"
        BY <1>1, <1>5 DEF IInv, TypeOK
      <4>2. list'[p][1] = list[p][1] /\ list'[p] # <<>>
        BY <1>1, <2>1, <2>3, <4>1
      <4>3. \A k \in DOMAIN list'[p] :
              \/ k \in DOMAIN list[p] /\ list'[p][k] = list[p][k]
              \/ k = Len(list[p]) + 1 /\ list'[p][k] = id
        BY <1>1, <2>1, <4>1
      <4>4. rows'[list'[p][1]].depth = 0
        BY <1>1, <2>2, <2>3, <2>4, <4>2 DEF ListOK
      <4>5. ASSUME NEW k \in DOMAIN list'[p]
            PROVE  /\ list'[p][k] \in DOMAIN rows'
                   /\ rows'[list'[p][k]].depth = rows'[list'[p][1]].depth + (k - 1)
                   /\ k > 1 => rows'[list'[p][k]].prev = list'[p][k - 1]
        <5>1. CASE k \in DOMAIN list[p] /\ list'[p][k] = list[p][k]
          <6>1. k > 1 => k - 1 \in DOMAIN list[p] /\ list'[p][k - 1] = list[p][k - 1]
            BY <1>1, <2>1, <4>1, <5>1
          <6> QED
            BY <1>1, <2>2, <2>4, <4>4, <5>1, <6>1 DEF ListOK
        <5>2. CASE k = Len(list[p]) + 1 /\ list'[p][k] = id
          <6>1. list'[p][k - 1] = last
            BY <1>1, <2>1, <2>3, <4>1, <5>2
          <6> QED
            BY <2>2, <2>3, <2>5, <4>4, <5>2, <6>1
        <5> QED
          BY <4>3, <5>1, <5>2
      <4> QED
        BY <3>2, <4>1, <4>2, <4>4, <4>5 DEF ListOK
    <3> QED
      BY <3>1, <3>2
  <2> QED
    BY <2>7, <2>8, <2>9, <2>10 DEF IInv
<1> QED
  BY <1>3, <1>4, <1>5

-----------------------------------------------------------------------------
LEMMA NextKeepsIInv == IInv /\ [Next]_vars => IInv'
<1> SUFFICES ASSUME IInv, [Next]_vars PROVE IInv'
  OBVIOUS
<1>1. ASSUME NEW p \in Procs, NEW t \in Times, Create(p, t) PROVE IInv'
  BY <1>1, CreateKeepsIInv
<1>2. ASSUME NEW p \in Procs, Open(p) PROVE IInv'
  BY <1>2, OpenKeepsIInv
<1>3. ASSUME NEW p \in Procs, Opening(p) PROVE IInv'
  BY <1>3, ReadHeadKeepsIInv, ReversePassKeepsIInv, ForwardPassKeepsIInv DEF Opening
<1>4. ASSUME NEW p \in Procs, MintOnEmptyChain(p) PROVE IInv'
  BY <1>4, ForgetKeepsIInv DEF MintOnEmptyChain
<1>5. ASSUME NEW p \in Procs, NEW payload \in Payloads, NEW t \in Times,
             Mint(p, payload, t)
      PROVE  IInv'
  BY <1>5, MintKeepsIInv
<1>6. ASSUME NEW p \in Procs, Exit(p) PROVE IInv'
  BY <1>6, ForgetKeepsIInv DEF Exit
<1>7. CASE UNCHANGED vars
  BY <1>7 DEF vars, IInv, TypeOK, GenesisInv, RowsFormATree, ListOK
<1> QED
  BY <1>1, <1>2, <1>3, <1>4, <1>5, <1>6, <1>7 DEF Next

LEMMA IInvHolds == Spec => []IInv
<1>1. Init => IInv
  BY InitIInv
<1>2. IInv /\ [Next]_vars => IInv'
  BY NextKeepsIInv
<1> QED
  BY <1>1, <1>2, PTL DEF Spec

\* A block at level 0 is the genesis block: the others are a level below one that
\* is there.
LEMMA OnlyGenesisAtTop ==
  ASSUME IInv, NEW i \in DOMAIN rows, rows[i].depth = 0
  PROVE  i = ChainId
<1> SUFFICES ASSUME i # ChainId PROVE FALSE
  OBVIOUS
<1>1. rows[i].prev \in DOMAIN rows /\ rows[i].depth = rows[rows[i].prev].depth + 1
  BY DEF IInv, RowsFormATree
<1>2. rows[rows[i].prev].depth \in Nat
  BY <1>1 DEF IInv, TypeOK, Block
<1> QED
  BY <1>1, <1>2

\* In a chain in use AtDepth finds the list's blocks in their order, and NextOf
\* leads from each to the one after.
LEMMA WalkFollowsList ==
  ASSUME IInv, NEW p \in Procs, pc[p] = "ready", list[p] # <<>>
  PROVE  /\ Depth(p) = Len(list[p]) - 1 /\ Len(list[p]) \in Nat \ {0}
         /\ \A d \in 0 .. Depth(p) : AtDepth(p, d) = list[p][d + 1]
         /\ \A k \in 1 .. Len(list[p]) - 1 : NextOf(p, list[p][k]) = list[p][k + 1]
         /\ NextOf(p, list[p][Len(list[p])]) = ZeroId
<1> DEFINE l == list[p]
<1>1. l \in Seq(Ids \cup {ZeroId}) /\ ListOK(p)
  BY DEF IInv, TypeOK
<1>2. /\ Len(l) \in Nat \ {0} /\ DOMAIN l = 1 .. Len(l) /\ 1 \in DOMAIN l
      /\ Depth(p) = Len(l) - 1
  BY <1>1 DEF Depth
<1>3. l[1] = ChainId
  BY <1>1, <1>2, OnlyGenesisAtTop DEF ListOK
<1>4. ASSUME NEW d \in 0 .. Depth(p) PROVE AtDepth(p, d) = l[d + 1]
  <2>1. CASE d = 0
    BY <1>3, <2>1 DEF AtDepth
  <2>2. CASE d # 0
    <3>1. ~(Depth(p) < d) /\ Len(l) - (Depth(p) - d) = d + 1
      BY <1>2
    <3> QED
      BY <2>2, <3>1 DEF AtDepth
  <2> QED
    BY <2>1, <2>2
<1>5. \A j \in DOMAIN l : rows[l[j]].depth = j - 1
  BY <1>1, <1>2 DEF ListOK
<1>6. \A j, k \in 1 .. Len(l) : l[j] = l[k] => j = k
  <2> SUFFICES ASSUME NEW j \in 1 .. Len(l), NEW k \in 1 .. Len(l), l[j] = l[k]
               PROVE  j = k
    OBVIOUS
  <2>1. j - 1 = k - 1
    BY <1>2, <1>5
  <2> QED
    BY <1>2, <2>1
<1>7. ASSUME NEW k \in 1 .. Len(l) PROVE {j \in DOMAIN l : l[j] = l[k]} = {k}
  BY <1>2, <1>6
<1>8. ASSUME NEW k \in 1 .. Len(l) - 1 PROVE NextOf(p, l[k]) = l[k + 1]
  <2>1. k \in 1 .. Len(l) /\ k # Len(l)
    BY <1>2
  <2>2. {j \in DOMAIN l : l[j] = l[k]} = {k}
    BY <1>7, <2>1
  <2>3. Max({k}) = k
    BY DEF Max
  <2> QED
    BY <2>1, <2>2, <2>3 DEF NextOf
<1>9. NextOf(p, l[Len(l)]) = ZeroId
  <2>1. {j \in DOMAIN l : l[j] = l[Len(l)]} = {Len(l)}
    BY <1>2, <1>7
  <2> QED
    BY <2>1 DEF NextOf
<1> QED
  BY <1>2, <1>4, <1>8, <1>9

LEMMA WalkMeetsTheBranch == IInv => BlocksAreFoundByDepth
<1> SUFFICES ASSUME IInv, NEW p \in Procs, pc[p] = "ready", list[p] # <<>>
             PROVE  /\ \A d \in 0 .. Depth(p) :
                         /\ AtDepth(p, d) \in DOMAIN rows
                         /\ rows[AtDepth(p, d)].depth = d
                         /\ d > 0 => /\ rows[AtDepth(p, d)].prev = AtDepth(p, d - 1)
                                     /\ NextOf(p, AtDepth(p, d - 1)) = AtDepth(p, d)
                    /\ AtDepth(p, Depth(p)) = Last(list[p])
                    /\ NextOf(p, Last(list[p])) = ZeroId
  BY DEF BlocksAreFoundByDepth
<1> DEFINE l == list[p]
<1>1. /\ Depth(p) = Len(l) - 1 /\ Len(l) \in Nat \ {0}
      /\ \A d \in 0 .. Depth(p) : AtDepth(p, d) = l[d + 1]
      /\ \A k \in 1 .. Len(l) - 1 : NextOf(p, l[k]) = l[k + 1]
      /\ NextOf(p, l[Len(l)]) = ZeroId
  BY WalkFollowsList
<1>2. l \in Seq(Ids \cup {ZeroId}) /\ ListOK(p)
  BY DEF IInv, TypeOK
<1>3. DOMAIN l = 1 .. Len(l) /\ 1 \in DOMAIN l /\ rows[l[1]].depth = 0
  BY <1>1, <1>2 DEF ListOK
<1>4. ASSUME NEW d \in 0 .. Depth(p)
      PROVE  /\ AtDepth(p, d) \in DOMAIN rows
             /\ rows[AtDepth(p, d)].depth = d
             /\ d > 0 => /\ rows[AtDepth(p, d)].prev = AtDepth(p, d - 1)
                         /\ NextOf(p, AtDepth(p, d - 1)) = AtDepth(p, d)
  <2>1. d + 1 \in DOMAIN l /\ (d + 1) - 1 = d /\ d \in Nat
    BY <1>1, <1>3
  <2>2. l[d + 1] \in DOMAIN rows /\ rows[l[d + 1]].depth = d
    <3>1. \A k \in DOMAIN l :
            l[k] \in DOMAIN rows /\ rows[l[k]].depth = rows[l[1]].depth + (k - 1)
      BY <1>2 DEF ListOK
    <3>2. rows[l[d + 1]].depth = 0 + ((d + 1) - 1)
      BY <1>3, <2>1, <3>1
    <3> QED
      BY <2>1, <3>1, <3>2
  <2>3. ASSUME d > 0
        PROVE  /\ rows[AtDepth(p, d)].prev = AtDepth(p, d - 1)
               /\ NextOf(p, AtDepth(p, d - 1)) = AtDepth(p, d)
    <3>1. d - 1 \in 0 .. Depth(p) /\ (d - 1) + 1 = d /\ d \in 1 .. Len(l) - 1
      BY <1>1, <2>3
    <3>2. rows[l[d + 1]].prev = l[d]
      <4>1. d + 1 > 1
        BY <2>1, <2>3
      <4>2. rows[l[d + 1]].prev = l[(d + 1) - 1]
        BY <1>2, <2>1, <4>1 DEF ListOK
      <4> QED
        BY <2>1, <4>2
    <3>3. AtDepth(p, d - 1) = l[d] /\ AtDepth(p, d) = l[d + 1]
      BY <1>1, <3>1
    <3> QED
      BY <1>1, <3>1, <3>2, <3>3
  <2> QED
    BY <1>1, <2>2, <2>3
<1>5. AtDepth(p, Depth(p)) = l[Len(l)]
  BY <1>1
<1> QED
  BY <1>1, <1>4, <1>5 DEF Last

\* Every variable of the chain has its type.
THEOREM ChainTypeCorrect == Spec => []TypeOK
<1>1. IInv => TypeOK
  BY DEF IInv
<1> QED
  BY <1>1, IInvHolds, PTL

\* Every block in the table but the genesis block hangs on one that is there, a
\* level deeper, whoever wrote it: also when several processes, each counting
\* bc.depth in its own memory, write to one data directory.
THEOREM TableIsATree == Spec => []RowsFormATree
<1>1. IInv => RowsFormATree
  BY DEF IInv
<1> QED
  BY <1>1, IInvHolds, PTL

\* Walking up a chain in use, by depth or from block to block, meets its branch of
\* the table, whatever the other processes write into it.
THEOREM WalksMeetTheBranch == Spec => []BlocksAreFoundByDepth
  BY IInvHolds, WalkMeetsTheBranch, PTL

-----------------------------------------------------------------------------
(***************************************************************************)
(* StateAfter, PayloadsTo and BlocksTo are recursive along the branches of    *)
(* the table. What they are at every block is shown by the least depth of a  *)
(* block where it fails: the table is a tree, so the block before that one    *)
(* has it, and it is the genesis block or gets it from there.                *)
(***************************************************************************)
\* A table of blocks that is a tree on the genesis block.
Tree(T) ==
  \A i \in DOMAIN T :
    /\ T[i].depth \in Nat
    /\ i # ChainId => T[i].prev \in DOMAIN T /\ T[i].depth = T[T[i].prev].depth + 1

LEMMA RowsAreATree == IInv => Tree(rows)
  BY DEF IInv, TypeOK, Block, RowsFormATree, Tree

\* What the genesis block has, and each block when the one before it does, every
\* block of a tree has.
LEMMA TreeInduction ==
  ASSUME NEW T, Tree(T), NEW Good,
         \A i \in DOMAIN T : i = ChainId \/ T[i].prev \in Good => i \in Good
  PROVE  DOMAIN T \subseteq Good
<1> DEFINE Bad    == DOMAIN T \ Good
           depths == {T[i].depth : i \in Bad}
<1> SUFFICES ASSUME Bad # {} PROVE FALSE
  OBVIOUS
<1>1. depths \subseteq Nat /\ depths # {}
  BY DEF Tree
<1>2. PICK d \in depths : \A e \in depths : d <= e
  BY <1>1, LeastNumber
<1>3. PICK i \in Bad : T[i].depth = d
  BY <1>2
<1>4. i # ChainId /\ T[i].prev \in Bad /\ T[i].depth = T[T[i].prev].depth + 1
  BY <1>3 DEF Tree
<1>5. T[T[i].prev].depth \in Nat /\ d <= T[T[i].prev].depth
  BY <1>2, <1>4 DEF Tree
<1> QED
  BY <1>3, <1>4, <1>5

\* T with one more block.
Grown(T, U, id) ==
  /\ id \notin DOMAIN T
  /\ DOMAIN U = DOMAIN T \cup {id}
  /\ \A i \in DOMAIN T : U[i] = T[i]

\* The block before one of T is in T; the one before the new block, if that is
\* not the genesis block, was there.
LEMMA GrownPrev ==
  ASSUME NEW T, NEW U, NEW id, Tree(T), Tree(U), Grown(T, U, id)
  PROVE  \A i \in DOMAIN U \ {ChainId} : U[i].prev \in DOMAIN T
<1>1. ASSUME id # ChainId PROVE U[id].prev \in DOMAIN T
  <2>1. /\ U[id].prev \in DOMAIN U /\ U[id].depth = U[U[id].prev].depth + 1
        /\ U[id].depth \in Nat
    BY <1>1 DEF Tree, Grown
  <2>2. U[id].prev # id
    BY <2>1
  <2> QED
    BY <2>1, <2>2 DEF Grown
<1>2. ASSUME NEW i \in DOMAIN T \ {ChainId} PROVE U[i].prev \in DOMAIN T
  BY DEF Tree, Grown
<1> QED
  BY <1>1, <1>2 DEF Grown

-----------------------------------------------------------------------------
\* StateAfter of a table T, and what a function must be to be it.
StatesOf(T) ==
  LET replay[i \in DOMAIN T] ==
        IF i = ChainId THEN Apply[Blank, T[i].payload]
        ELSE IF replay[T[i].prev] = Refused THEN Refused
        ELSE Apply[replay[T[i].prev], T[i].payload]
  IN replay
StateStep(T, s, i) ==
  IF i = ChainId THEN Apply[Blank, T[i].payload]
  ELSE IF s[T[i].prev] = Refused THEN Refused
  ELSE Apply[s[T[i].prev], T[i].payload]
Replays(T, s) == s = [i \in DOMAIN T |-> StateStep(T, s, i)]

LEMMA StatesOfReplays ==
  ASSUME NEW T, NEW s, Replays(T, s)
  PROVE  Replays(T, StatesOf(T))
  BY Zenon DEF StatesOf, Replays, StateStep

\* A new block gets the state its validator gave it, and changes no other's.
LEMMA StatesOfGrown ==
  ASSUME NEW T, NEW U, NEW id, Tree(T), Tree(U), Grown(T, U, id),
         Replays(T, StatesOf(T))
  PROVE  /\ Replays(U, StatesOf(U))
         /\ \A i \in DOMAIN T : StatesOf(U)[i] = StatesOf(T)[i]
<1> DEFINE s == StatesOf(T)
           u == [i \in DOMAIN U |-> StateStep(U, s, i)]
           v == StatesOf(U)
<1>1. \A i \in DOMAIN U \ {ChainId} : U[i].prev \in DOMAIN T
  BY GrownPrev
<1>2. ASSUME NEW i \in DOMAIN T PROVE u[i] = s[i] /\ i \in DOMAIN U
  <2>1. s[i] = StateStep(T, s, i)
    BY Zenon DEF Replays
  <2>2. StateStep(T, s, i) = StateStep(U, s, i)
    BY DEF StateStep, Grown
  <2> QED
    BY <2>1, <2>2 DEF Grown
<1> HIDE DEF s
<1>3. Replays(U, u)
  <2>1. ASSUME NEW i \in DOMAIN U PROVE StateStep(U, s, i) = StateStep(U, u, i)
    <3>1. i # ChainId => u[U[i].prev] = s[U[i].prev]
      BY <1>1, <1>2
    <3> HIDE DEF u
    <3> QED
      BY <3>1 DEF StateStep
  <2> QED
    BY <2>1, Zenon DEF Replays
<1>4. Replays(U, v)
  BY <1>3, StatesOfReplays
<1> HIDE DEF u, v
<1>5. ASSUME NEW i \in DOMAIN U, i = ChainId \/ v[U[i].prev] = u[U[i].prev]
      PROVE  v[i] = u[i]
  <2>1. v[i] = StateStep(U, v, i) /\ u[i] = StateStep(U, u, i)
    BY <1>3, <1>4, Zenon DEF Replays
  <2> QED
    BY <1>5, <2>1 DEF StateStep
<1>6. \A i \in DOMAIN U : v[i] = u[i]
  <2> DEFINE Good == {i \in DOMAIN U : v[i] = u[i]}
  <2>1. \A i \in DOMAIN U : i = ChainId \/ U[i].prev \in Good => i \in Good
    BY <1>5
  <2> HIDE DEF Good
  <2>2. DOMAIN U \subseteq Good
    BY <2>1, TreeInduction
  <2> QED
    BY <2>2 DEF Good
<1> QED
  BY <1>2, <1>4, <1>6 DEF s, v

-----------------------------------------------------------------------------
\* The same for PayloadsTo.
PayloadsOf(T) ==
  LET path[i \in DOMAIN T] ==
        IF i = ChainId THEN <<T[i].payload>>
        ELSE Append(path[T[i].prev], T[i].payload)
  IN path
PathStep(T, s, i) ==
  IF i = ChainId THEN <<T[i].payload>> ELSE Append(s[T[i].prev], T[i].payload)
Lists(T, s) == s = [i \in DOMAIN T |-> PathStep(T, s, i)]

LEMMA PayloadsOfLists ==
  ASSUME NEW T, NEW s, Lists(T, s)
  PROVE  Lists(T, PayloadsOf(T))
  BY Zenon DEF PayloadsOf, Lists, PathStep

\* The payloads up to a block are what they were when the table has one more.
LEMMA PayloadsOfGrown ==
  ASSUME NEW T, NEW U, NEW id, Tree(T), Tree(U), Grown(T, U, id),
         Lists(T, PayloadsOf(T))
  PROVE  /\ Lists(U, PayloadsOf(U))
         /\ \A i \in DOMAIN T : PayloadsOf(U)[i] = PayloadsOf(T)[i]
<1> DEFINE s == PayloadsOf(T)
           u == [i \in DOMAIN U |-> PathStep(U, s, i)]
           v == PayloadsOf(U)
<1>1. \A i \in DOMAIN U \ {ChainId} : U[i].prev \in DOMAIN T
  BY GrownPrev
<1>2. ASSUME NEW i \in DOMAIN T PROVE u[i] = s[i] /\ i \in DOMAIN U
  <2>1. s[i] = PathStep(T, s, i)
    BY Zenon DEF Lists
  <2>2. PathStep(T, s, i) = PathStep(U, s, i)
    BY DEF PathStep, Grown
  <2> QED
    BY <2>1, <2>2 DEF Grown
<1> HIDE DEF s
<1>3. Lists(U, u)
  <2>1. ASSUME NEW i \in DOMAIN U PROVE PathStep(U, s, i) = PathStep(U, u, i)
    <3>1. i # ChainId => u[U[i].prev] = s[U[i].prev]
      BY <1>1, <1>2
    <3> HIDE DEF u
    <3> QED
      BY <3>1 DEF PathStep
  <2> QED
    BY <2>1, Zenon DEF Lists
<1>4. Lists(U, v)
  BY <1>3, PayloadsOfLists
<1> HIDE DEF u, v
<1>5. ASSUME NEW i \in DOMAIN U, i = ChainId \/ v[U[i].prev] = u[U[i].prev]
      PROVE  v[i] = u[i]
  <2>1. v[i] = PathStep(U, v, i) /\ u[i] = PathStep(U, u, i)
    BY <1>3, <1>4, Zenon DEF Lists
  <2> QED
    BY <1>5, <2>1 DEF PathStep
<1>6. \A i \in DOMAIN U : v[i] = u[i]
  <2> DEFINE Good == {i \in DOMAIN U : v[i] = u[i]}
  <2>1. \A i \in DOMAIN U : i = ChainId \/ U[i].prev \in Good => i \in Good
    BY <1>5
  <2> HIDE DEF Good
  <2>2. DOMAIN U \subseteq Good
    BY <2>1, TreeInduction
  <2> QED
    BY <2>2 DEF Good
<1> QED
  BY <1>2, <1>4, <1>6 DEF s, v

-----------------------------------------------------------------------------
LEMMA StateAfterIsStatesOf == StateAfter = StatesOf(rows)
  BY DEF StateAfter, StatesOf

\* The validator accepts every block of the table after the one before it.
AllAccepted ==
  /\ Replays(rows, StateAfter)
  /\ \A i \in DOMAIN rows : StateAfter[i] \in States

LEMMA StateOfAccepted ==
  ASSUME IInv, AllAccepted, NEW i \in DOMAIN rows
  PROVE  StateAfter[i] = IF i = ChainId THEN Apply[Blank, rows[i].payload]
                         ELSE Apply[StateAfter[rows[i].prev], rows[i].payload]
<1>1. StateAfter[i] = StateStep(rows, StateAfter, i)
  BY Zenon DEF AllAccepted, Replays
<1>2. CASE i = ChainId
  BY <1>1, <1>2 DEF StateStep
<1>3. CASE i # ChainId
  <2>1. StateAfter[rows[i].prev] # Refused
    BY <1>3, ApplyAssumption DEF AllAccepted, IInv, RowsFormATree
  <2> QED
    BY <1>1, <1>3, <2>1 DEF StateStep
<1> QED
  BY <1>2, <1>3

\* They stay accepted when a block is written that the validator accepts.
LEMMA AcceptedStay ==
  ASSUME IInv, IInv', AllAccepted, NEW id, Grown(rows, rows', id),
         StateStep(rows', StateAfter, id) \in States
  PROVE  /\ AllAccepted'
         /\ \A i \in DOMAIN rows : StateAfter'[i] = StateAfter[i]
         /\ StateAfter'[id] = StateStep(rows', StateAfter, id)
<1>1. Tree(rows) /\ Tree(rows')
  <2>1. Tree(rows)
    BY RowsAreATree
  <2>2. Tree(rows')
    BY DEF IInv, TypeOK, Block, RowsFormATree, Tree
  <2> QED
    BY <2>1, <2>2
<1>2. Replays(rows, StatesOf(rows))
  BY StateAfterIsStatesOf DEF AllAccepted
<1>3. StateAfter' = StatesOf(rows')
  BY DEF StateAfter, StatesOf
<1>4. Replays(rows', StatesOf(rows'))
  BY <1>1, <1>2, StatesOfGrown
<1>5. \A i \in DOMAIN rows : StatesOf(rows')[i] = StatesOf(rows)[i]
  BY <1>1, <1>2, StatesOfGrown
<1>6. \A i \in DOMAIN rows : StateAfter'[i] = StateAfter[i]
  BY <1>3, <1>5, StateAfterIsStatesOf
<1>7. Replays(rows', StateAfter') /\ id \in DOMAIN rows'
  BY <1>3, <1>4 DEF Grown
<1>8. StateAfter'[id] = StateStep(rows', StateAfter', id)
  BY <1>7, Zenon DEF Replays
<1>9. StateStep(rows', StateAfter', id) = StateStep(rows', StateAfter, id)
  <2>1. \A i \in DOMAIN rows' \ {ChainId} : rows'[i].prev \in DOMAIN rows
    BY <1>1, GrownPrev
  <2>2. id # ChainId => StateAfter'[rows'[id].prev] = StateAfter[rows'[id].prev]
    BY <1>6, <1>7, <2>1
  <2> QED
    BY <2>2 DEF StateStep
<1>10. AllAccepted'
  BY <1>6, <1>7, <1>8, <1>9 DEF AllAccepted, Grown
<1> QED
  BY <1>6, <1>8, <1>9, <1>10

\* What the validator of a process has seen: nothing until the forward pass, there
\* the blocks before the one the pass is at, in use the whole list.
ValidatorOK(p) ==
  /\ pc[p] # "failed"
  /\ pc[p] \in {"closed", "opening", "reverse"} => state[p] = Blank
  /\ pc[p] = "forward" =>
       state[p] = IF at[p] = 1 THEN Blank ELSE StateAfter[list[p][at[p] - 1]]
  /\ pc[p] = "ready" /\ list[p] # <<>> => state[p] = StateAfter[Last(list[p])]
ValidatorsOK == IInv /\ AllAccepted /\ \A p \in Procs : ValidatorOK(p)

\* A process that did not move is all right in a table that grew.
LEMMA ValidatorOKStays ==
  ASSUME IInv, NEW p \in Procs, ValidatorOK(p),
         pc'[p] = pc[p], list'[p] = list[p], at'[p] = at[p], state'[p] = state[p],
         \A i \in DOMAIN rows : StateAfter'[i] = StateAfter[i]
  PROVE  ValidatorOK(p)'
<1>1. ListOK(p) /\ list[p] \in Seq(Ids \cup {ZeroId}) /\ at[p] \in Nat
  BY DEF IInv, TypeOK
<1>2. ASSUME pc[p] = "forward", at[p] # 1 PROVE at[p] - 1 \in DOMAIN list[p]
  BY <1>1, <1>2 DEF ListOK
<1>3. ASSUME list[p] # <<>> PROVE Last(list[p]) \in DOMAIN rows
  <2>1. Len(list[p]) \in DOMAIN list[p]
    BY <1>1, <1>3
  <2> QED
    BY <1>1, <2>1 DEF ListOK, Last
<1>4. pc[p] = "forward" /\ at[p] # 1 => list[p][at[p] - 1] \in DOMAIN rows
  BY <1>1, <1>2 DEF ListOK
<1> QED
  BY <1>3, <1>4 DEF ValidatorOK

\* A step of one process that leaves the table alone, or adds a block to it that
\* the validator accepts: what is left to show is that the process is all right.
LEMMA StepKeepsValidatorsOK ==
  ASSUME ValidatorsOK, [Next]_vars, NEW p \in Procs,
         \A q \in Procs \ {p} : /\ pc'[q] = pc[q] /\ list'[q] = list[q]
                                /\ at'[q] = at[q] /\ state'[q] = state[q],
         AllAccepted' /\ \A i \in DOMAIN rows : StateAfter'[i] = StateAfter[i],
         ValidatorOK(p)'
  PROVE  ValidatorsOK'
<1>1. IInv'
  BY NextKeepsIInv DEF ValidatorsOK
<1>2. ASSUME NEW q \in Procs PROVE ValidatorOK(q)'
  <2>1. CASE q = p
    BY <2>1
  <2>2. CASE q # p
    BY <2>2, ValidatorOKStays DEF ValidatorsOK
  <2> QED
    BY <2>1, <2>2
<1> QED
  BY <1>1, <1>2 DEF ValidatorsOK

LEMMA SameTableSameStates ==
  ASSUME UNCHANGED rows, AllAccepted
  PROVE  AllAccepted' /\ \A i \in DOMAIN rows : StateAfter'[i] = StateAfter[i]
<1>1. StateAfter' = StateAfter
  BY DEF StateAfter
<1> QED
  BY <1>1 DEF AllAccepted, Replays, StateStep

LEMMA InitValidatorsOK == Init => ValidatorsOK
<1> SUFFICES ASSUME Init PROVE ValidatorsOK
  OBVIOUS
<1>1. IInv /\ DOMAIN rows = {}
  BY InitIInv DEF Init
<1>2. AllAccepted
  <2> DEFINE s == [i \in DOMAIN rows |-> Blank]
  <2>1. s = [i \in DOMAIN rows |-> StateStep(rows, s, i)]
    BY <1>1
  <2>2. Replays(rows, s)
    BY <2>1 DEF Replays
  <2> HIDE DEF s
  <2>3. Replays(rows, StatesOf(rows))
    BY <2>2, StatesOfReplays
  <2> QED
    BY <1>1, <2>3, StateAfterIsStatesOf DEF AllAccepted
<1>3. \A p \in Procs : ValidatorOK(p)
  BY DEF Init, ValidatorOK
<1> QED
  BY <1>1, <1>2, <1>3 DEF ValidatorsOK

-----------------------------------------------------------------------------
LEMMA ForgetKeepsValidatorsOK ==
  ASSUME ValidatorsOK, [Next]_vars, NEW p \in Procs, Forget(p), UNCHANGED rows
  PROVE  ValidatorsOK'
<1>1. \A q \in Procs \ {p} : /\ pc'[q] = pc[q] /\ list'[q] = list[q]
                             /\ at'[q] = at[q] /\ state'[q] = state[q]
  BY DEF ValidatorsOK, IInv, TypeOK, Forget, Goto
<1>2. pc'[p] = "closed" /\ state'[p] = Blank
  BY DEF ValidatorsOK, IInv, TypeOK, Forget, Goto
<1>3. ValidatorOK(p)'
  BY <1>2 DEF ValidatorOK
<1>4. AllAccepted' /\ \A i \in DOMAIN rows : StateAfter'[i] = StateAfter[i]
  BY SameTableSameStates DEF ValidatorsOK
<1> QED
  BY <1>1, <1>3, <1>4, StepKeepsValidatorsOK

LEMMA CreateKeepsValidatorsOK ==
  ASSUME ValidatorsOK, [Next]_vars, NEW p \in Procs, NEW t \in Times, Create(p, t)
  PROVE  ValidatorsOK'
<1>1. /\ Grown(rows, rows', ChainId)
      /\ rows'[ChainId] = Genesis(t)
  <2>1. ChainId \notin DOMAIN rows /\ Insert(ChainId, Genesis(t))
    BY DEF Create
  <2> QED
    BY <2>1, InsertAdds DEF Grown
<1>2. StateStep(rows', StateAfter, ChainId) \in States
  <2>1. Apply[Blank, GenesisPayload] \in States
    BY GenesisAssumption, ApplyAssumption
  <2>2. rows'[ChainId].payload = GenesisPayload
    BY <1>1 DEF Genesis
  <2> QED
    BY <2>1, <2>2, Zenon DEF StateStep
<1>3. IInv /\ IInv' /\ AllAccepted
  BY NextKeepsIInv DEF ValidatorsOK
<1>4. AllAccepted' /\ \A i \in DOMAIN rows : StateAfter'[i] = StateAfter[i]
  BY <1>1, <1>2, <1>3, AcceptedStay
<1>5. /\ pc[p] = "closed" /\ pc'[p] = "opening" /\ UNCHANGED <<list, at, state>>
      /\ \A q \in Procs \ {p} : pc'[q] = pc[q]
  BY DEF ValidatorsOK, IInv, TypeOK, Create, MayStart, Goto
<1>6. ValidatorOK(p)'
  BY <1>5 DEF ValidatorOK, ValidatorsOK
<1> QED
  BY <1>4, <1>5, <1>6, StepKeepsValidatorsOK

LEMMA OpenKeepsValidatorsOK ==
  ASSUME ValidatorsOK, [Next]_vars, NEW p \in Procs, Open(p)
  PROVE  ValidatorsOK'
<1>1. /\ pc[p] = "closed" /\ pc'[p] = "opening" /\ UNCHANGED <<rows, list, at, state>>
      /\ \A q \in Procs \ {p} : pc'[q] = pc[q]
  BY DEF ValidatorsOK, IInv, TypeOK, Open, MayStart, Goto
<1>2. ValidatorOK(p)'
  BY <1>1 DEF ValidatorOK, ValidatorsOK
<1> QED
  BY <1>1, <1>2, SameTableSameStates, StepKeepsValidatorsOK DEF ValidatorsOK

LEMMA ReadHeadKeepsValidatorsOK ==
  ASSUME ValidatorsOK, [Next]_vars, NEW p \in Procs, ReadHead(p)
  PROVE  ValidatorsOK'
<1>1. /\ pc[p] = "opening" /\ UNCHANGED <<rows, at, state>>
      /\ \/ pc'[p] = "ready" /\ UNCHANGED list
         \/ pc'[p] = "reverse"
      /\ \A q \in Procs \ {p} : pc'[q] = pc[q] /\ list'[q] = list[q]
  BY DEF ReadHead, Goto, ValidatorsOK, IInv, TypeOK
<1>2. list[p] = <<>>
  BY <1>1 DEF ValidatorsOK, IInv, ListOK
<1>3. ValidatorOK(p)'
  BY <1>1, <1>2 DEF ValidatorOK, ValidatorsOK
<1> QED
  BY <1>1, <1>3, SameTableSameStates, StepKeepsValidatorsOK DEF ValidatorsOK

\* The reverse pass meets no gap: the blocks of the list are of the table, a level
\* apart, and only the chain's own genesis block looks like one.
LEMMA ReversePassKeepsValidatorsOK ==
  ASSUME ValidatorsOK, [Next]_vars, NEW p \in Procs, ReversePass(p)
  PROVE  ValidatorsOK'
<1> DEFINE id   == Head(list[p])
           last == IF Len(list[p]) = 1 THEN 0 ELSE rows[list[p][2]].depth
<1>1. /\ pc[p] = "reverse" /\ list[p] # <<>> /\ ListOK(p)
      /\ list[p] \in Seq(Ids \cup {ZeroId})
  BY DEF ReversePass, ValidatorsOK, IInv, TypeOK, ListOK
<1>2. id = list[p][1] /\ 1 \in DOMAIN list[p]
  BY <1>1
<1>3. id \in DOMAIN rows /\ rows[id].depth \in Nat
  BY <1>1, <1>2 DEF ListOK, ValidatorsOK, IInv, TypeOK, Block
<1>4. ~Broken(id, last)
  <2>1. IsGenesis(rows[id]) => id = ChainId
    BY <1>3, OnlyGenesisAtTop DEF IsGenesis, ValidatorsOK
  <2>2. last # 0 => rows[id].depth = last - 1
    <3>1. CASE Len(list[p]) = 1
      BY <3>1
    <3>2. CASE Len(list[p]) # 1
      <4>1. 2 \in DOMAIN list[p]
        <5>1. DOMAIN list[p] = 1 .. Len(list[p]) /\ Len(list[p]) \in Nat
          BY <1>1
        <5>2. \A n \in Nat : 1 \in 1 .. n /\ n # 1 => 2 \in 1 .. n
          OBVIOUS
        <5> QED
          BY <1>2, <3>2, <5>1, <5>2
      <4>2. rows[list[p][2]].depth = rows[list[p][1]].depth + (2 - 1)
        BY <1>1, <4>1 DEF ListOK
      <4> QED
        BY <1>2, <1>3, <3>2, <4>2
    <3> QED
      BY <3>1, <3>2
  <2> QED
    BY <1>3, <2>1, <2>2 DEF Broken
<1> HIDE DEF last
<1>5. /\ UNCHANGED <<rows, state>>
      /\ \/ pc'[p] = "forward" /\ at'[p] = 1
         \/ pc'[p] = "reverse"
      /\ \A q \in Procs \ {p} : pc'[q] = pc[q] /\ list'[q] = list[q] /\ at'[q] = at[q]
  BY <1>1, <1>4 DEF ReversePass, Goto, ValidatorsOK, IInv, TypeOK, last
<1>6. ValidatorOK(p)'
  BY <1>1, <1>5 DEF ValidatorOK, ValidatorsOK
<1> QED
  BY <1>5, <1>6, SameTableSameStates, StepKeepsValidatorsOK DEF ValidatorsOK

\* The forward pass gives the validator the blocks in the order they were accepted.
LEMMA ForwardPassKeepsValidatorsOK ==
  ASSUME ValidatorsOK, [Next]_vars, NEW p \in Procs, ForwardPass(p)
  PROVE  ValidatorsOK'
<1> DEFINE k     == at[p]
           i     == list[p][k]
           after == Apply[state[p], rows[i].payload]
<1>1. /\ pc[p] = "forward" /\ list[p] # <<>> /\ ListOK(p)
      /\ list[p] \in Seq(Ids \cup {ZeroId})
      /\ k \in DOMAIN list[p] /\ k \in Nat
      /\ IInv /\ AllAccepted /\ ValidatorOK(p)
  BY DEF ForwardPass, ValidatorsOK, IInv, TypeOK, ListOK
<1>2. /\ i \in DOMAIN rows /\ rows[i].depth = k - 1
      /\ k > 1 => rows[i].prev = list[p][k - 1]
  <2>1. rows[list[p][1]].depth = 0
    BY <1>1 DEF ListOK
  <2>2. rows[i].depth = rows[list[p][1]].depth + (k - 1)
    BY <1>1 DEF ListOK
  <2>3. i \in DOMAIN rows /\ (k > 1 => rows[i].prev = list[p][k - 1])
    BY <1>1 DEF ListOK
  <2>4. rows[i].depth = 0 + (k - 1)
    BY <2>1, <2>2
  <2> QED
    BY <1>1, <2>3, <2>4
<1>3. k = 1 <=> i = ChainId
  <2>1. k = 1 => i = ChainId
    BY <1>1, <1>2, OnlyGenesisAtTop
  <2>2. i = ChainId => k = 1
    BY <1>1, <1>2 DEF IInv, GenesisInv
  <2> QED
    BY <2>1, <2>2
<1>4. after = StateAfter[i] /\ after \in States /\ after # Refused
  <2>1. StateAfter[i] = IF i = ChainId THEN Apply[Blank, rows[i].payload]
                        ELSE Apply[StateAfter[rows[i].prev], rows[i].payload]
    BY <1>1, <1>2, StateOfAccepted
  <2>2. state[p] = IF k = 1 THEN Blank ELSE StateAfter[list[p][k - 1]]
    BY <1>1 DEF ValidatorOK
  <2>3. k # 1 => k > 1
    BY <1>1
  <2>4. after = StateAfter[i]
    <3> HIDE DEF i, k
    <3>1. CASE k = 1
      <4>1. StateAfter[i] = Apply[Blank, rows[i].payload] /\ state[p] = Blank
        BY <1>3, <2>1, <2>2, <3>1
      <4> QED
        BY <4>1
    <3>2. CASE k # 1
      <4>1. /\ StateAfter[i] = Apply[StateAfter[rows[i].prev], rows[i].payload]
            /\ state[p] = StateAfter[rows[i].prev]
        BY <1>2, <1>3, <2>1, <2>2, <2>3, <3>2
      <4> QED
        BY <4>1
    <3> QED
      BY <3>1, <3>2
  <2> QED
    BY <1>1, <1>2, <2>4, ApplyAssumption DEF AllAccepted
<1> HIDE DEF i, after
<1>5. /\ UNCHANGED <<rows, list>>
      /\ state' = [state EXCEPT ![p] = after]
      /\ \/ k = Len(list[p]) /\ pc'[p] = "ready" /\ UNCHANGED at
         \/ pc'[p] = "forward" /\ at' = [at EXCEPT ![p] = k + 1]
      /\ \A q \in Procs \ {p} : pc'[q] = pc[q]
  BY <1>1, <1>4 DEF ForwardPass, Goto, IInv, TypeOK, i, after
<1>6. state'[p] = after /\ \A q \in Procs \ {p} : state'[q] = state[q] /\ at'[q] = at[q]
  BY <1>1, <1>5 DEF IInv, TypeOK
<1>7. StateAfter' = StateAfter
  BY <1>5 DEF StateAfter
<1>8. ValidatorOK(p)'
  <2>1. CASE k = Len(list[p]) /\ pc'[p] = "ready"
    BY <1>4, <1>5, <1>6, <1>7, <2>1 DEF ValidatorOK, Last, i
  <2>2. CASE pc'[p] = "forward" /\ at' = [at EXCEPT ![p] = k + 1]
    <3>1. at'[p] = k + 1 /\ at'[p] # 1 /\ at'[p] - 1 = k
      BY <1>1, <2>2 DEF IInv, TypeOK
    <3> QED
      BY <1>4, <1>5, <1>6, <1>7, <2>2, <3>1 DEF ValidatorOK, i
  <2> QED
    BY <1>5, <2>1, <2>2
<1>9. AllAccepted' /\ \A j \in DOMAIN rows : StateAfter'[j] = StateAfter[j]
  BY <1>1, <1>5, SameTableSameStates
<1> QED
  BY <1>5, <1>6, <1>8, <1>9, StepKeepsValidatorsOK

\* A Mint that succeeds, and what it does to the table.
Minted(p, id, payload, t) ==
  /\ pc[p] = "ready" /\ list[p] # <<>>
  /\ id \notin DOMAIN rows /\ id # ChainId
  /\ Apply[state[p], payload] # Refused
  /\ Insert(id, [prev |-> Last(list[p]), depth |-> Depth(p) + 1,
                 time |-> t, payload |-> payload])
  /\ list' = [list EXCEPT ![p] = Append(@, id)]
  /\ state' = [state EXCEPT ![p] = Apply[state[p], payload]]
  /\ official' = official \cup {id}
  /\ UNCHANGED <<pc, at>>

LEMMA MintFailsOrWrites ==
  ASSUME NEW p \in Procs, NEW payload \in Payloads, NEW t \in Times, Mint(p, payload, t)
  PROVE  \/ /\ UNCHANGED <<rows, official>>
            /\ \E after : AddFails(p, after)
         \/ \E id \in Ids : Minted(p, id, payload, t)
<1>1. PICK id \in BlockIds(Last(list[p]), payload, t) :
        \/ AddFails(p, state[p]) /\ UNCHANGED <<rows, official>>
        \/ AddFails(p, Apply[state[p], payload]) /\ UNCHANGED <<rows, official>>
        \/ /\ Apply[state[p], payload] # Refused
           /\ id \notin DOMAIN rows
           /\ Insert(id, [prev |-> Last(list[p]), depth |-> Depth(p) + 1,
                          time |-> t, payload |-> payload])
           /\ list' = [list EXCEPT ![p] = Append(@, id)]
           /\ state' = [state EXCEPT ![p] = Apply[state[p], payload]]
           /\ official' = official \cup {id}
           /\ UNCHANGED <<pc, at>>
  BY DEF Mint, Accepts
<1>2. id \notin DOMAIN rows => id \in Ids /\ id # ChainId
  BY DEF BlockIds
<1>3. pc[p] = "ready" /\ list[p] # <<>>
  BY DEF Mint
<1> QED
  BY <1>1, <1>2, <1>3 DEF Minted

LEMMA MintedGrows ==
  ASSUME IInv, NEW p \in Procs, NEW id \in Ids, NEW payload \in Payloads, NEW t \in Times,
         Minted(p, id, payload, t)
  PROVE  /\ Grown(rows, rows', id) /\ id # ChainId
         /\ list'[p] = Append(list[p], id) /\ Last(list'[p]) = id
         /\ Last(list[p]) \in DOMAIN rows
         /\ rows'[id].prev = Last(list[p]) /\ rows'[id].payload = payload
         /\ rows'[id].depth = rows[Last(list[p])].depth + 1
<1>1. Grown(rows, rows', id) /\ id # ChainId
  BY InsertAdds DEF Minted, Grown
<1>2. rows'[id] = [prev |-> Last(list[p]), depth |-> Depth(p) + 1,
                   time |-> t, payload |-> payload]
  BY InsertAdds DEF Minted
<1>3. /\ list'[p] = Append(list[p], id) /\ list[p] \in Seq(Ids \cup {ZeroId})
      /\ ListOK(p) /\ pc[p] = "ready" /\ list[p] # <<>>
  BY DEF Minted, IInv, TypeOK
<1>4. Last(list'[p]) = id
  BY <1>3 DEF Last
<1>5. /\ Len(list[p]) \in DOMAIN list[p] /\ Last(list[p]) = list[p][Len(list[p])]
      /\ Len(list[p]) \in Nat /\ Depth(p) = Len(list[p]) - 1
  BY <1>3 DEF Last, Depth
<1>6. Last(list[p]) \in DOMAIN rows /\ rows[Last(list[p])].depth = Len(list[p]) - 1
  BY <1>3, <1>5 DEF ListOK
<1> QED
  BY <1>1, <1>2, <1>3, <1>4, <1>5, <1>6

LEMMA MintKeepsValidatorsOK ==
  ASSUME ~CallerRetries, ValidatorsOK, [Next]_vars,
         NEW p \in Procs, NEW payload \in Payloads, NEW t \in Times, Mint(p, payload, t)
  PROVE  ValidatorsOK'
<1>1. CASE UNCHANGED rows /\ \E after : AddFails(p, after)
  BY <1>1, ForgetKeepsValidatorsOK DEF AddFails
<1>2. ASSUME NEW id \in Ids, Minted(p, id, payload, t) PROVE ValidatorsOK'
  <2> DEFINE after == Apply[state[p], payload]
             last  == Last(list[p])
  <2>1. /\ Grown(rows, rows', id) /\ id # ChainId
        /\ Last(list'[p]) = id
        /\ last \in DOMAIN rows
        /\ rows'[id].prev = last /\ rows'[id].payload = payload
    BY <1>2, MintedGrows DEF ValidatorsOK
  <2>2. pc[p] = "ready" /\ list[p] # <<>> /\ after # Refused
    BY <1>2 DEF Minted
  <2>3. state[p] = StateAfter[last] /\ state[p] \in States
    BY <2>2 DEF ValidatorsOK, ValidatorOK, IInv, TypeOK
  <2>4. after \in States
    BY <2>2, <2>3, ApplyAssumption
  <2>5. StateStep(rows', StateAfter, id) = after
    <3>1. StateAfter[last] # Refused
      BY <2>3, ApplyAssumption
    <3> QED
      BY <2>1, <2>3, <3>1 DEF StateStep
  <2>6. IInv /\ IInv' /\ AllAccepted
    BY NextKeepsIInv DEF ValidatorsOK
  <2>7. /\ AllAccepted'
        /\ \A i \in DOMAIN rows : StateAfter'[i] = StateAfter[i]
        /\ StateAfter'[id] = after
    BY <2>1, <2>4, <2>5, <2>6, AcceptedStay
  <2>8. /\ UNCHANGED <<pc, at>> /\ state'[p] = after
        /\ \A q \in Procs \ {p} : list'[q] = list[q] /\ state'[q] = state[q]
    BY <1>2, <2>6 DEF Minted, IInv, TypeOK
  <2>9. ValidatorOK(p)'
    BY <2>1, <2>2, <2>7, <2>8 DEF ValidatorOK
  <2> QED
    BY <2>7, <2>8, <2>9, StepKeepsValidatorsOK
<1> QED
  BY <1>1, <1>2, MintFailsOrWrites

LEMMA NextKeepsValidatorsOK ==
  ASSUME ~CallerRetries
  PROVE  ValidatorsOK /\ [Next]_vars => ValidatorsOK'
<1> SUFFICES ASSUME ValidatorsOK, [Next]_vars PROVE ValidatorsOK'
  OBVIOUS
<1>1. ASSUME NEW p \in Procs, NEW t \in Times, Create(p, t) PROVE ValidatorsOK'
  BY <1>1, CreateKeepsValidatorsOK
<1>2. ASSUME NEW p \in Procs, Open(p) PROVE ValidatorsOK'
  BY <1>2, OpenKeepsValidatorsOK
<1>3. ASSUME NEW p \in Procs, Opening(p) PROVE ValidatorsOK'
  BY <1>3, ReadHeadKeepsValidatorsOK, ReversePassKeepsValidatorsOK,
     ForwardPassKeepsValidatorsOK DEF Opening
<1>4. ASSUME NEW p \in Procs, MintOnEmptyChain(p) PROVE ValidatorsOK'
  BY <1>4, ForgetKeepsValidatorsOK DEF MintOnEmptyChain
<1>5. ASSUME NEW p \in Procs, NEW payload \in Payloads, NEW t \in Times,
             Mint(p, payload, t)
      PROVE  ValidatorsOK'
  BY <1>5, MintKeepsValidatorsOK
<1>6. ASSUME NEW p \in Procs, Exit(p) PROVE ValidatorsOK'
  BY <1>6, ForgetKeepsValidatorsOK DEF Exit
<1>7. CASE UNCHANGED vars
  <2>1. IInv' /\ AllAccepted' /\ StateAfter' = StateAfter
    BY <1>7, NextKeepsIInv, SameTableSameStates DEF vars, ValidatorsOK, StateAfter
  <2> QED
    BY <1>7, <2>1 DEF vars, ValidatorsOK, ValidatorOK
<1> QED
  BY <1>1, <1>2, <1>3, <1>4, <1>5, <1>6, <1>7 DEF Next

LEMMA ValidatorsOKHolds ==
  ASSUME ~CallerRetries
  PROVE  Spec => []ValidatorsOK
<1>1. Init => ValidatorsOK
  BY InitValidatorsOK
<1>2. ValidatorsOK /\ [Next]_vars => ValidatorsOK'
  BY NextKeepsValidatorsOK
<1> QED
  BY <1>1, <1>2, PTL DEF Spec

\* What Create and Mint have written can always be opened again, by any number of
\* processes at once and also while the others go on writing: neither pass of
\* openChain fails.
THEOREM ChainCanBeOpened ==
  ASSUME ~CallerRetries
  PROVE  Spec => []OpenNeverFails
<1>1. ValidatorsOK => OpenNeverFails
  BY DEF ValidatorsOK, ValidatorOK, OpenNeverFails
<1> QED
  BY <1>1, ValidatorsOKHolds, PTL

\* The validator of a process in use is in the state that the blocks of its list
\* add up to, whether it opened them or wrote them.
THEOREM ValidatorsFollowTheirLists ==
  ASSUME ~CallerRetries
  PROVE  Spec => []ValidatorMatchesList
<1>1. ValidatorsOK => ValidatorMatchesList
  BY DEF ValidatorsOK, ValidatorOK, ValidatorMatchesList
<1> QED
  BY <1>1, ValidatorsOKHolds, PTL

-----------------------------------------------------------------------------
\* A chain used by one process at a time is a line: no two blocks share a level,
\* and the list of the process ends at the deepest.
Deepest(i) ==
  i \in DOMAIN rows /\ \A j \in DOMAIN rows \ {i} : rows[j].depth < rows[i].depth
OneOpen    == \A p, q \in Procs : pc[p] # "closed" /\ pc[q] # "closed" => p = q
OneALevel  == \A i, j \in DOMAIN rows : rows[i].depth = rows[j].depth => i = j
LineInv ==
  /\ IInv /\ OneOpen /\ OneALevel
  /\ DOMAIN rows # {} => \E i \in DOMAIN rows : Deepest(i)
  /\ \A p \in Procs : list[p] # <<>> => Deepest(Last(list[p]))
  /\ official \subseteq DOMAIN rows

\* The head query finds the deepest block.
LEMMA HeadIsDeepest ==
  ASSUME IInv, NEW i, Deepest(i)
  PROVE  HeadId = i /\ \A j \in DOMAIN rows : IsHead(j) => j = i
<1>1. i \in DOMAIN rows /\ IsHead(i)
  BY DEF Deepest, IsHead, Before, IInv, TypeOK, Block
<1>2. ASSUME NEW j \in DOMAIN rows, IsHead(j) PROVE j = i
  <2> SUFFICES ASSUME j # i PROVE FALSE
    OBVIOUS
  <2>1. rows[i].depth \in Nat /\ rows[j].depth \in Nat
    BY <1>1 DEF IInv, TypeOK, Block
  <2>2. Before(j, i)
    BY <1>1, <1>2 DEF IsHead
  <2>3. rows[j].depth < rows[i].depth
    BY DEF Deepest
  <2>4. rows[j].depth > rows[i].depth \/ rows[j].depth = rows[i].depth
    BY <2>2 DEF Before
  <2> QED
    BY <2>1, <2>3, <2>4
<1> QED
  BY <1>1, <1>2 DEF HeadId

\* A table without the genesis block is empty.
LEMMA NoGenesisNoRows ==
  ASSUME IInv, ChainId \notin DOMAIN rows
  PROVE  DOMAIN rows = {}
<1> DEFINE none == {}
<1>1. \A i \in DOMAIN rows : i = ChainId \/ rows[i].prev \in none => i \in none
  OBVIOUS
<1> HIDE DEF none
<1>2. DOMAIN rows \subseteq none
  BY <1>1, RowsAreATree, TreeInduction
<1> QED
  BY <1>2 DEF none

\* A block below all others is the new end of the line.
LEMMA LineGrows ==
  ASSUME IInv, IInv', OneALevel, NEW id, Grown(rows, rows', id),
         \A i \in DOMAIN rows : rows[i].depth < rows'[id].depth
  PROVE  OneALevel' /\ Deepest(id)'
<1>1. \A i \in DOMAIN rows : rows'[i] = rows[i] /\ rows[i].depth \in Nat
  BY DEF Grown, IInv, TypeOK, Block
<1>2. rows'[id].depth \in Nat
  BY DEF Grown, IInv, TypeOK, Block
<1> QED
  BY <1>1, <1>2 DEF OneALevel, Deepest, Grown

\* A process that ends or stays as it is, in the same table.
LEMMA SameTableKeepsLineInv ==
  ASSUME LineInv, [Next]_vars, UNCHANGED <<rows, official>>, OneOpen',
         \A p \in Procs : list'[p] # <<>> => Deepest(Last(list'[p]))
  PROVE  LineInv'
<1>1. IInv'
  BY NextKeepsIInv DEF LineInv
<1> QED
  BY <1>1 DEF LineInv, OneALevel, Deepest

LEMMA ForgetKeepsLineInv ==
  ASSUME LineInv, [Next]_vars, NEW p \in Procs, Forget(p), UNCHANGED <<rows, official>>
  PROVE  LineInv'
<1>1. /\ pc'[p] = "closed" /\ list'[p] = <<>>
      /\ \A q \in Procs \ {p} : pc'[q] = pc[q] /\ list'[q] = list[q]
  BY DEF LineInv, IInv, TypeOK, Forget, Goto
<1>2. OneOpen'
  BY <1>1 DEF LineInv, OneOpen
<1>3. \A q \in Procs : list'[q] # <<>> => Deepest(Last(list'[q]))
  BY <1>1 DEF LineInv
<1> QED
  BY <1>2, <1>3, SameTableKeepsLineInv

\* The process that is open is the only one that moves.
LEMMA OpeningKeepsLineInv ==
  ASSUME LineInv, [Next]_vars, NEW p \in Procs, Opening(p)
  PROVE  LineInv'
<1>1. /\ pc[p] # "closed" /\ UNCHANGED <<rows, official>>
      /\ \A q \in Procs \ {p} : pc'[q] = pc[q] /\ list'[q] = list[q]
  BY DEF Opening, ReadHead, ReversePass, ForwardPass, Goto, LineInv, IInv, TypeOK
<1>2. OneOpen'
  BY <1>1 DEF LineInv, OneOpen
<1>3. list'[p] # <<>> => Deepest(Last(list'[p]))
  <2>1. CASE ReadHead(p)
    <3>1. CASE DOMAIN rows = {}
      BY <2>1, <3>1 DEF ReadHead, LineInv
    <3>2. CASE DOMAIN rows # {}
      <4>1. PICK head \in DOMAIN rows :
              IsHead(head) /\ list' = [list EXCEPT ![p] = <<head>>]
        BY <2>1, <3>2 DEF ReadHead
      <4>2. PICK i \in DOMAIN rows : Deepest(i)
        BY <3>2 DEF LineInv
      <4>3. head = i
        BY <4>1, <4>2, HeadIsDeepest DEF LineInv
      <4>4. Last(list'[p]) = head
        BY <4>1 DEF LineInv, IInv, TypeOK, Last
      <4> QED
        BY <4>2, <4>3, <4>4
    <3> QED
      BY <3>1, <3>2
  <2>2. CASE ReversePass(p)
    <3>1. \/ UNCHANGED list
          \/ list'[p] = <<rows[Head(list[p])].prev>> \o list[p]
      BY <2>2 DEF ReversePass, LineInv, IInv, TypeOK
    <3>2. list[p] # <<>> /\ list[p] \in Seq(Ids \cup {ZeroId})
      BY <2>2 DEF ReversePass, LineInv, IInv, TypeOK, ListOK
    <3>3. ASSUME NEW first, list'[p] = <<first>> \o list[p]
          PROVE  Last(list'[p]) = Last(list[p])
      BY <3>2, <3>3 DEF Last
    <3> QED
      BY <3>1, <3>2, <3>3 DEF LineInv
  <2>3. CASE ForwardPass(p)
    BY <2>3 DEF ForwardPass, LineInv
  <2> QED
    BY <2>1, <2>2, <2>3 DEF Opening
<1>4. \A q \in Procs : list'[q] # <<>> => Deepest(Last(list'[q]))
  BY <1>1, <1>3 DEF LineInv
<1> QED
  BY <1>1, <1>2, <1>4, SameTableKeepsLineInv

LEMMA MayStartKeepsOneOpen ==
  ASSUME OneAtATime, IInv, NEW p \in Procs, MayStart(p), Goto(p, "opening")
  PROVE  OneOpen' /\ \A q \in Procs : pc[q] = "closed" /\ list[q] = <<>>
<1>1. \A q \in Procs : pc[q] = "closed"
  BY DEF MayStart
<1>2. \A q \in Procs : list[q] = <<>>
  BY <1>1 DEF IInv, ListOK
<1>3. \A q \in Procs \ {p} : pc'[q] = "closed"
  BY <1>1 DEF Goto, IInv, TypeOK
<1> QED
  BY <1>1, <1>2, <1>3 DEF OneOpen

LEMMA CreateKeepsLineInv ==
  ASSUME OneAtATime, LineInv, [Next]_vars, NEW p \in Procs, NEW t \in Times, Create(p, t)
  PROVE  LineInv' /\ DOMAIN rows = {} /\ Deepest(ChainId)' /\ Grown(rows, rows', ChainId)
<1>1. Grown(rows, rows', ChainId) /\ UNCHANGED <<list, official>>
  BY InsertAdds DEF Create, Grown
<1>2. DOMAIN rows = {}
  BY <1>1, NoGenesisNoRows DEF LineInv, Grown
<1>3. IInv' /\ IInv
  BY NextKeepsIInv DEF LineInv
<1>4. OneALevel' /\ Deepest(ChainId)'
  BY <1>1, <1>2, <1>3, LineGrows DEF LineInv
<1>5. OneOpen' /\ \A q \in Procs : list[q] = <<>>
  BY <1>3, MayStartKeepsOneOpen DEF Create
<1>6. ChainId \in DOMAIN rows' /\ official' \subseteq DOMAIN rows'
  BY <1>1, <1>2 DEF Grown, LineInv
<1> QED
  BY <1>1, <1>2, <1>3, <1>4, <1>5, <1>6 DEF LineInv

LEMMA OpenKeepsLineInv ==
  ASSUME OneAtATime, LineInv, [Next]_vars, NEW p \in Procs, Open(p)
  PROVE  LineInv'
<1>1. OneOpen' /\ UNCHANGED <<rows, list, official>>
  BY MayStartKeepsOneOpen DEF Open, LineInv
<1> QED
  BY <1>1, SameTableKeepsLineInv DEF LineInv

LEMMA MintedKeepsLineInv ==
  ASSUME LineInv, [Next]_vars, NEW p \in Procs, NEW id \in Ids,
         NEW payload \in Payloads, NEW t \in Times, Minted(p, id, payload, t)
  PROVE  LineInv' /\ Deepest(Last(list[p])) /\ Deepest(id)'
<1> DEFINE last == Last(list[p])
<1>1. /\ Grown(rows, rows', id)
      /\ Last(list'[p]) = id
      /\ last \in DOMAIN rows
      /\ rows'[id].depth = rows[last].depth + 1
  BY MintedGrows DEF LineInv
<1>2. pc[p] = "ready" /\ list[p] # <<>> /\ UNCHANGED pc
  BY DEF Minted
<1>3. Deepest(last)
  BY <1>2 DEF LineInv
<1>4. ASSUME NEW i \in DOMAIN rows PROVE rows[i].depth < rows'[id].depth
  <2>1. rows[i].depth \in Nat /\ rows[last].depth \in Nat
    BY <1>1 DEF LineInv, IInv, TypeOK, Block
  <2>2. i = last \/ rows[i].depth < rows[last].depth
    BY <1>3 DEF Deepest
  <2> QED
    BY <1>1, <2>1, <2>2
<1>5. IInv /\ IInv' /\ OneALevel
  BY NextKeepsIInv DEF LineInv
<1>6. OneALevel' /\ Deepest(id)'
  BY <1>1, <1>4, <1>5, LineGrows
<1>7. \A q \in Procs \ {p} : list'[q] = <<>>
  <2>1. \A q \in Procs \ {p} : pc[q] = "closed"
    BY <1>2 DEF LineInv, OneOpen
  <2>2. \A q \in Procs \ {p} : list[q] = <<>>
    BY <1>5, <2>1 DEF IInv, ListOK
  <2> QED
    BY <2>2 DEF Minted, LineInv, IInv, TypeOK
<1>8. official' \subseteq DOMAIN rows' /\ id \in DOMAIN rows'
  BY <1>1 DEF Minted, LineInv, Grown
<1>9. ASSUME NEW q \in Procs, list'[q] # <<>> PROVE Deepest(Last(list[q]))'
  <2>1. q = p /\ Last(list[q])' = id
    BY <1>1, <1>7, <1>9
  <2> QED
    BY <1>6, <2>1
<1>10. OneOpen'
  BY <1>2 DEF LineInv, OneOpen
<1> QED
  BY <1>3, <1>5, <1>6, <1>8, <1>9, <1>10 DEF LineInv

LEMMA AddFailsKeepsLineInv ==
  ASSUME LineInv, [Next]_vars, NEW p \in Procs, NEW after, AddFails(p, after),
         UNCHANGED <<rows, official>>
  PROVE  LineInv'
<1>1. CASE CallerRetries
  BY <1>1, SameTableKeepsLineInv DEF AddFails, LineInv, OneOpen
<1>2. CASE ~CallerRetries
  BY <1>2, ForgetKeepsLineInv DEF AddFails
<1> QED
  BY <1>1, <1>2

LEMMA NextKeepsLineInv ==
  ASSUME OneAtATime
  PROVE  LineInv /\ [Next]_vars => LineInv'
<1> SUFFICES ASSUME LineInv, [Next]_vars PROVE LineInv'
  OBVIOUS
<1>1. ASSUME NEW p \in Procs, NEW t \in Times, Create(p, t) PROVE LineInv'
  BY <1>1, CreateKeepsLineInv
<1>2. ASSUME NEW p \in Procs, Open(p) PROVE LineInv'
  BY <1>2, OpenKeepsLineInv
<1>3. ASSUME NEW p \in Procs, Opening(p) PROVE LineInv'
  BY <1>3, OpeningKeepsLineInv
<1>4. ASSUME NEW p \in Procs, MintOnEmptyChain(p) PROVE LineInv'
  BY <1>4, ForgetKeepsLineInv DEF MintOnEmptyChain
<1>5. ASSUME NEW p \in Procs, NEW payload \in Payloads, NEW t \in Times,
             Mint(p, payload, t)
      PROVE  LineInv'
  BY <1>5, MintFailsOrWrites, AddFailsKeepsLineInv, MintedKeepsLineInv
<1>6. ASSUME NEW p \in Procs, Exit(p) PROVE LineInv'
  BY <1>6, ForgetKeepsLineInv DEF Exit
<1>7. CASE UNCHANGED vars
  BY <1>7, SameTableKeepsLineInv DEF vars, LineInv, OneOpen
<1> QED
  BY <1>1, <1>2, <1>3, <1>4, <1>5, <1>6, <1>7 DEF Next

LEMMA InitLineInv == Init => LineInv
<1> SUFFICES ASSUME Init PROVE LineInv
  OBVIOUS
<1>1. IInv
  BY InitIInv
<1>2. DOMAIN rows = {} /\ (\A p \in Procs : pc[p] = "closed" /\ list[p] = <<>>) /\ official = {}
  BY DEF Init
<1> QED
  BY <1>1, <1>2 DEF LineInv, OneOpen, OneALevel

LEMMA LineInvHolds ==
  ASSUME OneAtATime
  PROVE  Spec => []LineInv
<1>1. Init => LineInv
  BY InitLineInv
<1>2. LineInv /\ [Next]_vars => LineInv'
  BY NextKeepsLineInv
<1> QED
  BY <1>1, <1>2, PTL DEF Spec

-----------------------------------------------------------------------------
\* On a line, the blocks up to a block are those at its level or above.
BlocksStep(s, i) == IF i = ChainId THEN {i} ELSE {i} \cup s[rows[i].prev]

LEMMA BlocksToEquation ==
  ASSUME NEW s, s = [i \in DOMAIN rows |-> BlocksStep(s, i)]
  PROVE  BlocksTo = [i \in DOMAIN rows |-> BlocksStep(BlocksTo, i)]
  BY Zenon DEF BlocksTo, BlocksStep

LEMMA BlocksToDeepest ==
  ASSUME LineInv, NEW i, Deepest(i)
  PROVE  BlocksTo[i] = DOMAIN rows
<1> DEFINE upTo(j) == {k \in DOMAIN rows : rows[k].depth <= rows[j].depth}
           s == [j \in DOMAIN rows |-> upTo(j)]
<1>1. IInv /\ OneALevel /\ \A j \in DOMAIN rows : rows[j].depth \in Nat
  BY DEF LineInv, IInv, TypeOK, Block
<1>2. ASSUME NEW j \in DOMAIN rows, j = ChainId PROVE upTo(j) = {j}
  <2>1. rows[j].depth = 0
    BY <1>1, <1>2 DEF IInv, GenesisInv
  <2>2. \A k \in DOMAIN rows : rows[k].depth <= 0 => k = j
    BY <1>1, <1>2, OnlyGenesisAtTop
  <2> QED
    BY <1>1, <2>1, <2>2
<1>3. ASSUME NEW j \in DOMAIN rows, j # ChainId
      PROVE  rows[j].prev \in DOMAIN rows /\ upTo(j) = {j} \cup upTo(rows[j].prev)
  <2>1. rows[j].prev \in DOMAIN rows /\ rows[j].depth = rows[rows[j].prev].depth + 1
    BY <1>1, <1>3 DEF IInv, RowsFormATree
  <2>2. \A k \in DOMAIN rows :
          rows[k].depth <= rows[j].depth <=> k = j \/ rows[k].depth <= rows[rows[j].prev].depth
    BY <1>1, <2>1 DEF OneALevel
  <2> QED
    BY <2>1, <2>2
<1>4. BlocksTo = [j \in DOMAIN rows |-> BlocksStep(BlocksTo, j)]
  <2>1. \A j \in DOMAIN rows : upTo(j) = BlocksStep(s, j)
    BY <1>2, <1>3 DEF BlocksStep
  <2>2. s = [j \in DOMAIN rows |-> BlocksStep(s, j)]
    BY <2>1
  <2> HIDE DEF s
  <2> QED
    BY <2>2, BlocksToEquation
<1>5. ASSUME NEW j \in DOMAIN rows, j = ChainId \/ BlocksTo[rows[j].prev] = upTo(rows[j].prev)
      PROVE  BlocksTo[j] = upTo(j)
  <2>1. BlocksTo[j] = BlocksStep(BlocksTo, j)
    BY <1>4, Zenon
  <2> HIDE DEF upTo
  <2> QED
    BY <1>2, <1>3, <1>5, <2>1 DEF BlocksStep
<1>6. BlocksTo[i] = upTo(i)
  <2> DEFINE Good == {j \in DOMAIN rows : BlocksTo[j] = upTo(j)}
  <2>1. \A j \in DOMAIN rows : j = ChainId \/ rows[j].prev \in Good => j \in Good
    BY <1>5
  <2> HIDE DEF Good
  <2>2. DOMAIN rows \subseteq Good
    BY <1>1, <2>1, RowsAreATree, TreeInduction
  <2> QED
    BY <2>2 DEF Good, Deepest
<1>7. upTo(i) = DOMAIN rows
  BY <1>1 DEF Deepest
<1> QED
  BY <1>6, <1>7

\* A block whose Add returned is on the chain that every later Open finds, as long
\* as one process at a time uses the data directory; also when writes fail, the
\* caller retries, or the process dies at any point.
THEOREM OfficialBlocksAreFound ==
  ASSUME OneAtATime
  PROVE  Spec => []OfficialBlocksStay
<1>1. LineInv => OfficialBlocksStay
  <2> SUFFICES ASSUME LineInv, official # {} PROVE official \subseteq BlocksTo[HeadId]
    BY DEF OfficialBlocksStay
  <2>1. DOMAIN rows # {} /\ official \subseteq DOMAIN rows
    BY DEF LineInv
  <2>2. PICK i \in DOMAIN rows : Deepest(i)
    BY <2>1 DEF LineInv
  <2>3. HeadId = i
    BY <2>2, HeadIsDeepest DEF LineInv
  <2> QED
    BY <2>1, <2>2, <2>3, BlocksToDeepest
<1> QED
  BY <1>1, LineInvHolds, PTL

-----------------------------------------------------------------------------
\* The refinement: the log and the rules' state that Chain shows to Ledger.
Log   == IF DOMAIN rows = {} THEN <<>> ELSE PayloadsTo[HeadId]
Rules == IF DOMAIN rows = {} THEN Blank ELSE StateAfter[HeadId]

LEMMA PayloadsToIsPayloadsOf == PayloadsTo = PayloadsOf(rows)
  BY DEF PayloadsTo, PayloadsOf

LedgerInv == LineInv /\ ValidatorsOK /\ Lists(rows, PayloadsTo)

\* PayloadsTo is what its definition says in every table that a step can leave: it
\* does not follow by itself that a recursive function exists.
LEMMA PayloadsStay ==
  ASSUME IInv, IInv', Lists(rows, PayloadsTo), NEW id, Grown(rows, rows', id)
  PROVE  /\ Lists(rows, PayloadsTo)'
         /\ \A i \in DOMAIN rows : PayloadsTo'[i] = PayloadsTo[i]
<1>1. Tree(rows) /\ Tree(rows')
  <2>1. Tree(rows)
    BY RowsAreATree
  <2>2. Tree(rows')
    BY DEF IInv, TypeOK, Block, RowsFormATree, Tree
  <2> QED
    BY <2>1, <2>2
<1>2. PayloadsTo' = PayloadsOf(rows')
  BY DEF PayloadsTo, PayloadsOf
<1>3. Lists(rows, PayloadsOf(rows))
  BY PayloadsToIsPayloadsOf
<1>4. /\ Lists(rows', PayloadsOf(rows'))
      /\ \A i \in DOMAIN rows : PayloadsOf(rows')[i] = PayloadsOf(rows)[i]
  BY <1>1, <1>3, PayloadsOfGrown
<1>5. Lists(rows', PayloadsTo')
  BY <1>2, <1>4
<1>6. Lists(rows, PayloadsTo)'
  BY <1>5 DEF Lists, PathStep
<1> QED
  BY <1>2, <1>4, <1>6, PayloadsToIsPayloadsOf

\* A step writes the genesis block into an empty table, or a block behind the
\* deepest, or leaves the table alone.
LEMMA StepsOfTheTable ==
  ASSUME OneAtATime, LineInv, [Next]_vars
  PROVE  \/ UNCHANGED rows
         \/ \E p \in Procs, t \in Times : Create(p, t)
         \/ \E p \in Procs, id \in Ids, payload \in Payloads, t \in Times :
              Minted(p, id, payload, t)
<1>1. ASSUME NEW p \in Procs, Opening(p) PROVE UNCHANGED rows
  BY <1>1 DEF Opening, ReadHead, ReversePass, ForwardPass
<1>2. ASSUME NEW p \in Procs, Open(p) \/ MintOnEmptyChain(p) \/ Exit(p)
      PROVE  UNCHANGED rows
  BY <1>2 DEF Open, MintOnEmptyChain, Exit
<1>3. ASSUME NEW p \in Procs, NEW payload \in Payloads, NEW t \in Times,
             Mint(p, payload, t)
      PROVE  UNCHANGED rows \/ \E id \in Ids : Minted(p, id, payload, t)
  BY <1>3, MintFailsOrWrites
<1>4. CASE UNCHANGED vars
  BY <1>4 DEF vars
<1> QED
  BY <1>1, <1>2, <1>3, <1>4 DEF Next

LEMMA SameTableSameLog ==
  ASSUME UNCHANGED rows
  PROVE  UNCHANGED <<Log, Rules, PayloadsTo>>
<1>1. HeadId' = HeadId
  BY DEF HeadId, IsHead, Before
<1>2. PayloadsTo' = PayloadsTo /\ StateAfter' = StateAfter
  BY DEF PayloadsTo, StateAfter
<1> QED
  BY <1>1, <1>2 DEF Log, Rules

LEMMA NextKeepsLedgerInv ==
  ASSUME OneAtATime, ~CallerRetries
  PROVE  LedgerInv /\ [Next]_vars => LedgerInv'
<1> SUFFICES ASSUME LedgerInv, [Next]_vars PROVE LedgerInv'
  OBVIOUS
<1>1. LineInv' /\ ValidatorsOK' /\ IInv /\ IInv' /\ LineInv
  BY NextKeepsLineInv, NextKeepsValidatorsOK DEF LedgerInv, LineInv
<1>2. Lists(rows, PayloadsTo)'
  <2>1. CASE UNCHANGED rows
    BY <2>1, SameTableSameLog DEF LedgerInv, Lists, PathStep
  <2>2. ASSUME NEW p \in Procs, NEW t \in Times, Create(p, t)
        PROVE  Lists(rows, PayloadsTo)'
    BY <1>1, <2>2, CreateKeepsLineInv, PayloadsStay DEF LedgerInv
  <2>3. ASSUME NEW p \in Procs, NEW id \in Ids, NEW payload \in Payloads, NEW t \in Times,
               Minted(p, id, payload, t)
        PROVE  Lists(rows, PayloadsTo)'
    BY <1>1, <2>3, MintedGrows, PayloadsStay DEF LedgerInv
  <2> QED
    BY <1>1, <2>1, <2>2, <2>3, StepsOfTheTable
<1> QED
  BY <1>1, <1>2 DEF LedgerInv

LEMMA InitLedgerInv == Init => LedgerInv
<1> SUFFICES ASSUME Init PROVE LedgerInv
  OBVIOUS
<1>1. DOMAIN rows = {}
  BY DEF Init
<1>2. Lists(rows, PayloadsTo)
  <2> DEFINE s == [i \in DOMAIN rows |-> <<>>]
  <2>1. s = [i \in DOMAIN rows |-> PathStep(rows, s, i)]
    BY <1>1
  <2>2. Lists(rows, s)
    BY <2>1 DEF Lists
  <2> HIDE DEF s
  <2> QED
    BY <2>2, PayloadsOfLists, PayloadsToIsPayloadsOf
<1> QED
  BY <1>2, InitLineInv, InitValidatorsOK DEF LedgerInv

\* HeadIsDeepest, also of the table a step leaves.
LEMMA HeadBefore == IInv => \A j \in Ids : Deepest(j) => HeadId = j
  BY HeadIsDeepest
LEMMA HeadAfter == (IInv => \A j \in Ids : Deepest(j) => HeadId = j)'
  BY HeadBefore, PTL
LEMMA HeadBeforeAndAfter ==
  ASSUME IInv, IInv', NEW i \in Ids
  PROVE  (Deepest(i) => HeadId = i) /\ (Deepest(i)' => HeadId' = i)
  BY HeadBefore, HeadAfter

\* The genesis block extends the empty log.
LEMMA CreateExtends ==
  ASSUME OneAtATime, LedgerInv, LedgerInv', [Next]_vars,
         NEW p \in Procs, NEW t \in Times, Create(p, t)
  PROVE  /\ Apply[Rules, GenesisPayload] # Refused
         /\ Log' = Append(Log, GenesisPayload)
         /\ Rules' = Apply[Rules, GenesisPayload]
<1>1. LineInv /\ IInv /\ IInv' /\ AllAccepted /\ Lists(rows', PayloadsTo')
  BY DEF LedgerInv, LineInv, ValidatorsOK, Lists, PathStep
<1>2. /\ DOMAIN rows = {} /\ Deepest(ChainId)' /\ ChainId \in DOMAIN rows'
      /\ Grown(rows, rows', ChainId)
  <2>1. DOMAIN rows = {} /\ Deepest(ChainId)' /\ Grown(rows, rows', ChainId)
    BY <1>1, CreateKeepsLineInv
  <2> QED
    BY <2>1 DEF Grown
<1>3. rows'[ChainId].payload = GenesisPayload
  <2>1. ChainId \notin DOMAIN rows /\ Insert(ChainId, Genesis(t))
    BY DEF Create
  <2>2. rows'[ChainId] = Genesis(t)
    BY <2>1, InsertAdds
  <2> QED
    BY <2>2 DEF Genesis
<1>4. Log = <<>> /\ Rules = Blank
  BY <1>2 DEF Log, Rules
<1>5. HeadId' = ChainId
  BY <1>1, <1>2, HeadBeforeAndAfter, IdsAssumption
<1>6. Log' = <<GenesisPayload>>
  <2>1. PayloadsTo'[ChainId] = PathStep(rows', PayloadsTo', ChainId)
    BY <1>1, <1>2, Zenon DEF Lists
  <2>2. PayloadsTo'[ChainId] = <<GenesisPayload>>
    BY <1>3, <2>1 DEF PathStep
  <2> QED
    BY <1>2, <1>5, <2>2 DEF Log
<1>7. Rules' = Apply[Blank, GenesisPayload]
  <2>1. StateStep(rows', StateAfter, ChainId) = Apply[Blank, GenesisPayload]
    BY <1>3 DEF StateStep
  <2>2. StateAfter'[ChainId] = Apply[Blank, GenesisPayload]
    BY <1>1, <1>2, <2>1, AcceptedStay, ApplyAssumption, GenesisAssumption
  <2> QED
    BY <1>2, <1>5, <2>2 DEF Rules
<1>8. Append(<<>>, GenesisPayload) = <<GenesisPayload>>
  OBVIOUS
<1>9. Log' = Append(Log, GenesisPayload)
  BY <1>4, <1>6, <1>8, Zenon
<1>10. Apply[Rules, GenesisPayload] # Refused /\ Rules' = Apply[Rules, GenesisPayload]
  BY <1>4, <1>7, ApplyAssumption
<1> QED
  BY <1>9, <1>10

\* Every other block extends the log by its payload, which the rules allow.
LEMMA MintedExtends ==
  ASSUME OneAtATime, LedgerInv, LedgerInv', [Next]_vars,
         NEW p \in Procs, NEW id \in Ids, NEW payload \in Payloads, NEW t \in Times,
         Minted(p, id, payload, t)
  PROVE  /\ Apply[Rules, payload] # Refused
         /\ Log' = Append(Log, payload)
         /\ Rules' = Apply[Rules, payload]
<1> DEFINE last == Last(list[p])
<1>1. /\ LineInv /\ IInv /\ IInv' /\ AllAccepted' /\ Lists(rows', PayloadsTo')
      /\ ValidatorOK(p) /\ AllAccepted /\ Lists(rows, PayloadsTo)
  BY DEF LedgerInv, LineInv, ValidatorsOK, Lists, PathStep
<1>2. /\ Grown(rows, rows', id) /\ id # ChainId /\ id \in DOMAIN rows'
      /\ last \in DOMAIN rows
      /\ rows'[id].prev = last /\ rows'[id].payload = payload
  <2>1. /\ Grown(rows, rows', id) /\ id # ChainId
        /\ last \in DOMAIN rows
        /\ rows'[id].prev = last /\ rows'[id].payload = payload
    BY <1>1, MintedGrows
  <2> QED
    BY <2>1 DEF Grown
<1>3. HeadId = last /\ HeadId' = id
  <2>1. Deepest(last) /\ Deepest(id)' /\ last \in Ids
    BY <1>1, <1>2, MintedKeepsLineInv DEF IInv, TypeOK
  <2> QED
    BY <1>1, <2>1, HeadBeforeAndAfter
<1>4. /\ state[p] = StateAfter[last] /\ Apply[state[p], payload] # Refused
  BY <1>1 DEF Minted, ValidatorOK
<1>5. Log = PayloadsTo[last] /\ Rules = state[p]
  BY <1>2, <1>3, <1>4 DEF Log, Rules
<1>6. Log' = Append(PayloadsTo[last], payload)
  <2>1. PayloadsTo'[id] = PathStep(rows', PayloadsTo', id)
    BY <1>1, <1>2, Zenon DEF Lists
  <2>2. PayloadsTo'[last] = PayloadsTo[last]
    BY <1>1, <1>2, PayloadsStay
  <2>3. PayloadsTo'[id] = Append(PayloadsTo[last], payload)
    BY <1>2, <2>1, <2>2 DEF PathStep
  <2> QED
    BY <1>2, <1>3, <2>3 DEF Log
<1>7. Rules' = Apply[state[p], payload]
  <2>1. StateStep(rows', StateAfter, id) = Apply[state[p], payload]
    <3>1. StateAfter[last] \in States /\ StateAfter[last] # Refused
      BY <1>1, <1>2, ApplyAssumption DEF AllAccepted
    <3> QED
      BY <1>2, <1>4, <3>1 DEF StateStep
  <2>2. Apply[state[p], payload] \in States
    BY <1>1, <1>4, ApplyAssumption DEF IInv, TypeOK
  <2>3. StateAfter'[id] = Apply[state[p], payload]
    BY <1>1, <1>2, <2>1, <2>2, AcceptedStay
  <2> QED
    BY <1>2, <1>3, <2>3 DEF Rules
<1> QED
  BY <1>4, <1>5, <1>6, <1>7

LEMMA StepExtends ==
  ASSUME OneAtATime, LedgerInv, LedgerInv', [Next]_vars
  PROVE  \/ UNCHANGED <<Log, Rules>>
         \/ \E payload \in Payloads : /\ Apply[Rules, payload] # Refused
                                      /\ Log' = Append(Log, payload)
                                      /\ Rules' = Apply[Rules, payload]
<1>1. CASE UNCHANGED rows
  BY <1>1, SameTableSameLog
<1>2. ASSUME NEW p \in Procs, NEW t \in Times, Create(p, t)
      PROVE  \E payload \in Payloads : /\ Apply[Rules, payload] # Refused
                                       /\ Log' = Append(Log, payload)
                                       /\ Rules' = Apply[Rules, payload]
  BY <1>2, CreateExtends, GenesisAssumption
<1>3. ASSUME NEW p \in Procs, NEW id \in Ids, NEW payload \in Payloads, NEW t \in Times,
             Minted(p, id, payload, t)
      PROVE  /\ Apply[Rules, payload] # Refused
             /\ Log' = Append(Log, payload)
             /\ Rules' = Apply[Rules, payload]
  BY <1>3, MintedExtends
<1> QED
  BY <1>1, <1>2, <1>3, StepsOfTheTable DEF LedgerInv

\* Used by one process at a time, whose commands end on an error, the block store
\* is a ledger: the payloads found from the head of the table only ever grow, one
\* at a time, by what the validator allows after those before.
THEOREM ChainImplementsLedger ==
  ASSUME OneAtATime, ~CallerRetries
  PROVE  Spec => ImplementsLedger
<1>1. Init => LedgerInv
  BY InitLedgerInv
<1>2. LedgerInv /\ [Next]_vars => LedgerInv'
  BY NextKeepsLedgerInv
<1>3. Init => L!Empty
  BY DEF Init, L!Empty
<1>4. LedgerInv /\ LedgerInv' /\ [Next]_vars
        => [\E p \in Payloads : L!Extend(p)]_<<IF DOMAIN rows = {} THEN <<>>
                                                ELSE PayloadsTo[HeadId],
                                              IF DOMAIN rows = {} THEN Blank
                                                ELSE StateAfter[HeadId]>>
  BY StepExtends DEF L!Extend, Log, Rules
<1> QED
  BY <1>1, <1>2, <1>3, <1>4, PTL DEF Spec, ImplementsLedger, L!LedgerSpec
=============================================================================
