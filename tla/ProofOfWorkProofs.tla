-------------------------- MODULE ProofOfWorkProofs --------------------------
(***************************************************************************)
(* For every hash function, every size of ids, nonces and timestamps, and      *)
(* every level: a chain that was opened once can be opened again, and a         *)
(* timestamp is moved on only past seconds that no nonce suits, whatever the     *)
(* check of an id says; and that it counts the zero bits in front.             *)
(***************************************************************************)
EXTENDS ProofOfWork, ArithmeticProofs

\* A header has an id.
LEMMA IdType ==
  ASSUME NEW h \in Headers
  PROVE  Id(h) \in Ids /\ Stored(h) \in Blocks
BY HashAssumption DEF Headers, Blocks, Id, Stored

\* Nothing has been searched at first.
LEMMA InitIInv == Init => IInv
<1> SUFFICES ASSUME Init PROVE IInv
  OBVIOUS
<1>1. /\ pc = "none" /\ chain = <<>> /\ asked = NoTime /\ workLevel = AstrisWorkLevel
      /\ at = 0 /\ header.nonce = 0 /\ difficulty \in Difficulties
  BY DEF Init
<1>2. header \in Headers
  BY ZeroAssumption, TimesAssumption, SizesAssumption DEF Init, Headers, Nonces
<1>3. TypeOK
  BY <1>1, <1>2 DEF TypeOK
<1>4. DOMAIN chain = {}
  BY <1>1
<1> QED
  BY <1>1, <1>3, <1>4 DEF IInv, BlocksInv, GenesisInv, LevelInv, OpenFailsOnlyAtGenesis,
                          SearchSkipsNothing

-----------------------------------------------------------------------------
\* The genesis block is stored when it suits or when no nonce is left.
LEMMA CreateGenesisKeepsIInv ==
  ASSUME IInv, pc = "none", NEW h \in Headers, CreateGenesis(h),
         UNCHANGED <<asked, difficulty>>,
         \/ Suits(AstrisWorkLevel, h)
         \/ \A n \in Nonces : ~Suits(AstrisWorkLevel, [h EXCEPT !.nonce = n])
  PROVE  IInv'
<1>1. /\ chain' = <<Stored(h)>> /\ header' = h
      /\ pc' = "forward" /\ at' = 1 /\ workLevel' = AstrisWorkLevel
      /\ asked' = NoTime /\ difficulty' = difficulty
  BY DEF CreateGenesis, StartOpening, IInv, LevelInv
<1>2. /\ DOMAIN chain' = {1} /\ chain'[1] = Stored(h)
      /\ Stored(h).id = Id(h) /\ Stored(h).header = h
  BY <1>1 DEF Stored
<1>3. TypeOK'
  BY <1>1, IdType DEF IInv, TypeOK
<1>4. BlocksInv'
  BY <1>1, <1>2 DEF BlocksInv
<1>5. GenesisInv'
  BY <1>1, <1>2 DEF GenesisInv, Suits
<1>6. LevelInv'
  BY <1>1, <1>2 DEF LevelInv
<1> QED
  BY <1>1, <1>3, <1>4, <1>5, <1>6 DEF IInv, OpenFailsOnlyAtGenesis, SearchSkipsNothing

LEMMA SearchGenesisKeepsIInv ==
  ASSUME IInv, SearchGenesis
  PROVE  IInv'
<1>1. /\ pc = "none" /\ header \in Headers /\ header.nonce \in 0 .. MaxNonce
      /\ UNCHANGED <<asked, difficulty>> /\ MaxNonce \in Nat
      /\ \A n \in 0 .. header.nonce - 1 :
           ~Suits(AstrisWorkLevel, [header EXCEPT !.nonce = n])
  BY SizesAssumption DEF SearchGenesis, IInv, TypeOK, Headers, Nonces, GenesisInv
<1>2. header = [header EXCEPT !.nonce = header.nonce]
  BY <1>1 DEF Headers
<1>3. CASE Suits(AstrisWorkLevel, header) /\ CreateGenesis(header)
  BY <1>1, <1>3, CreateGenesisKeepsIInv
<1>4. CASE /\ ~Suits(AstrisWorkLevel, header) /\ header.nonce = MaxNonce
           /\ CreateGenesis([header EXCEPT !.nonce = 0])
  <2> DEFINE h == [header EXCEPT !.nonce = 0]
  <2>1. h \in Headers /\ \A n \in Nonces : [h EXCEPT !.nonce = n] = [header EXCEPT !.nonce = n]
    <3>1. 0 \in Nonces
      BY <1>1 DEF Nonces
    <3>2. h = [prev |-> header.prev, payload |-> header.payload, time |-> header.time, nonce |-> 0]
      BY <1>1 DEF Headers
    <3>3. h \in Headers
      BY <1>1, <3>1, <3>2 DEF Headers
    <3>4. ASSUME NEW n \in Nonces
          PROVE  [h EXCEPT !.nonce = n] = [header EXCEPT !.nonce = n]
      BY <1>1 DEF Headers
    <3> QED
      BY <3>3, <3>4
  <2>2. \A n \in Nonces : ~Suits(AstrisWorkLevel, [header EXCEPT !.nonce = n])
    BY <1>1, <1>2, <1>4 DEF Nonces
  <2>3. \A n \in Nonces : ~Suits(AstrisWorkLevel, [h EXCEPT !.nonce = n])
    BY <2>1, <2>2
  <2> HIDE DEF h
  <2>4. CreateGenesis(h)
    BY <1>4 DEF h
  <2> QED
    BY <1>1, <2>1, <2>3, <2>4, CreateGenesisKeepsIInv
<1>5. CASE /\ ~Suits(AstrisWorkLevel, header) /\ header.nonce < MaxNonce
           /\ header' = [header EXCEPT !.nonce = @ + 1]
           /\ UNCHANGED <<pc, chain, at, workLevel>>
  <2>1. header' \in Headers /\ header'.nonce = header.nonce + 1
    BY <1>1, <1>5 DEF Headers, Nonces
  <2>2. \A n \in Nonces : [header' EXCEPT !.nonce = n] = [header EXCEPT !.nonce = n]
    BY <1>1, <1>5 DEF Headers, Nonces
  <2>3. \A n \in 0 .. header'.nonce - 1 :
          n \in Nonces /\ ~Suits(AstrisWorkLevel, [header EXCEPT !.nonce = n])
    BY <1>1, <1>2, <1>5, <2>1 DEF Nonces
  <2>4. \A n \in 0 .. header'.nonce - 1 :
          ~Suits(AstrisWorkLevel, [header' EXCEPT !.nonce = n])
    BY <2>2, <2>3
  <2>5. TypeOK'
    BY <1>1, <1>5, <2>1 DEF IInv, TypeOK
  <2>6. GenesisInv'
    BY <1>1, <1>5, <2>4 DEF IInv, GenesisInv, LevelInv, Suits, Id
  <2> QED
    BY <1>1, <1>5, <2>5, <2>6
       DEF IInv, BlocksInv, LevelInv, OpenFailsOnlyAtGenesis, SearchSkipsNothing
<1> QED
  BY <1>3, <1>4, <1>5 DEF SearchGenesis

\* Every block passes at the level it is checked at, but a genesis block that no
\* nonce suits.
LEMMA ForwardPassKeepsIInv ==
  ASSUME IInv, ForwardPass
  PROVE  IInv'
<1>1. /\ pc = "forward" /\ at \in DOMAIN chain /\ at \in Nat
      /\ workLevel = IF at = 1 THEN AstrisWorkLevel ELSE difficulty
      /\ UNCHANGED <<chain, header, asked, difficulty>>
      /\ asked = NoTime /\ chain # <<>> /\ chain \in Seq(Blocks)
  BY DEF ForwardPass, IInv, TypeOK, BlocksInv, LevelInv
<1>2. at \in 1 .. Len(chain) /\ Len(chain) \in Nat
  BY <1>1
<1>3. chain[at].id = Id(chain[at].header) /\ (at > 1 => Suits(difficulty, chain[at].header))
  BY <1>1 DEF IInv, BlocksInv
<1>4. BlocksInv' /\ GenesisInv'
  BY <1>1 DEF ForwardPass, IInv, BlocksInv, GenesisInv, Suits, Id
<1>5. CASE Validate(chain[at], workLevel)
  <2>1. workLevel' = difficulty
    BY <1>5 DEF ForwardPass
  <2>2. CASE at = Len(chain)
    <3>1. pc' = "ready" /\ at' = at
      BY <1>5, <2>2 DEF ForwardPass
    <3> QED
      BY <1>1, <1>4, <2>1, <3>1
         DEF IInv, TypeOK, LevelInv, OpenFailsOnlyAtGenesis, SearchSkipsNothing
  <2>3. CASE at # Len(chain)
    <3>1. pc' = "forward" /\ at' = at + 1
      BY <1>1, <1>5, <2>3 DEF ForwardPass
    <3>2. at' \in 1 .. Len(chain) /\ at' \in Nat /\ at' # 1
      BY <1>2, <2>3, <3>1
    <3> QED
      BY <1>1, <1>4, <2>1, <3>1, <3>2
         DEF IInv, TypeOK, LevelInv, OpenFailsOnlyAtGenesis, SearchSkipsNothing
  <2> QED
    BY <2>2, <2>3
<1>6. CASE ~Validate(chain[at], workLevel)
  <2>1. pc' = "failed" /\ UNCHANGED <<at, workLevel>>
    BY <1>6 DEF ForwardPass
  <2>2. at = 1 /\ ~Suits(AstrisWorkLevel, chain[1].header)
    BY <1>1, <1>2, <1>3, <1>6 DEF Validate, Suits
  <2>3. \A n \in Nonces : ~Suits(AstrisWorkLevel, [chain[1].header EXCEPT !.nonce = n])
    BY <1>1, <2>2 DEF IInv, GenesisInv
  <2>4. OpenFailsOnlyAtGenesis'
    BY <1>1, <2>3 DEF OpenFailsOnlyAtGenesis, Suits, Id
  <2> QED
    BY <1>1, <1>4, <2>1, <2>4 DEF IInv, TypeOK, LevelInv, SearchSkipsNothing
<1> QED
  BY <1>5, <1>6

LEMMA ReopenKeepsIInv ==
  ASSUME IInv, Reopen
  PROVE  IInv'
<1>1. /\ pc' = "forward" /\ at' = 1 /\ workLevel' = AstrisWorkLevel /\ asked' = NoTime
      /\ UNCHANGED <<chain, header, difficulty>>
      /\ chain # <<>> /\ chain \in Seq(Blocks)
  BY DEF Reopen, StartOpening, IInv, TypeOK, BlocksInv
<1>2. 1 \in DOMAIN chain
  BY <1>1
<1>3. TypeOK' /\ LevelInv'
  BY <1>1, <1>2 DEF IInv, TypeOK, LevelInv
<1>4. BlocksInv' /\ GenesisInv'
  BY <1>1 DEF IInv, BlocksInv, GenesisInv, Suits, Id
<1> QED
  BY <1>1, <1>3, <1>4 DEF IInv, OpenFailsOnlyAtGenesis, SearchSkipsNothing

-----------------------------------------------------------------------------
\* A search has left nothing behind when it begins.
LEMMA MintKeepsIInv ==
  ASSUME IInv, NEW payload \in Payloads, NEW ts \in Seconds, Mint(payload, ts)
  PROVE  IInv'
<1> DEFINE time == IF ts = 0 THEN Now ELSE ts
<1>1. time \in Seconds /\ time \in Nat
  BY TimesAssumption, SizesAssumption DEF Seconds
<1>2. /\ pc = "ready" /\ pc' = "mining" /\ asked' = time
      /\ header' = [prev |-> Last(chain).id, payload |-> payload, time |-> time, nonce |-> 0]
      /\ UNCHANGED <<chain, difficulty, workLevel, at>>
  BY DEF Mint
<1> HIDE DEF time
<1>3. chain # <<>> /\ chain \in Seq(Blocks)
  BY <1>2 DEF IInv, TypeOK, BlocksInv
<1>4. Last(chain).id \in Ids
  <2>1. Len(chain) \in 1 .. Len(chain)
    BY <1>3
  <2>2. chain[Len(chain)] \in Blocks
    BY <1>3, <2>1
  <2> QED
    BY <2>2 DEF Last, Blocks
<1>5. header' \in Headers /\ header'.nonce = 0 /\ header'.time = time
  BY <1>1, <1>2, <1>4, SizesAssumption DEF Headers, Nonces
<1>6. TypeOK'
  BY <1>1, <1>2, <1>5 DEF IInv, TypeOK
<1>7. LevelInv'
  BY <1>1, <1>2, TimesAssumption DEF IInv, LevelInv
<1>8. BlocksInv' /\ GenesisInv'
  BY <1>2, <1>3 DEF IInv, BlocksInv, GenesisInv, Suits, Id
<1>9. SearchSkipsNothing'
  <2>1. asked' .. header'.time - 1 = {}
    BY <1>1, <1>2, <1>5
  <2>2. 0 .. header'.nonce - 1 = {}
    BY <1>5
  <2> QED
    BY <1>1, <1>2, <1>5, <2>1, <2>2 DEF SearchSkipsNothing, Passed
<1> QED
  BY <1>2, <1>6, <1>7, <1>8, <1>9 DEF IInv, OpenFailsOnlyAtGenesis

\* The header that was searched is the header that is stored.
LEMMA AddKeepsIInv ==
  ASSUME IInv, SearchNonce, Suits(workLevel, header)
  PROVE  IInv'
<1>1. /\ pc = "mining" /\ pc' = "ready" /\ chain' = Append(chain, Stored(header))
      /\ UNCHANGED <<header, asked, difficulty, workLevel, at>>
      /\ chain \in Seq(Blocks) /\ chain # <<>> /\ header \in Headers
      /\ workLevel = difficulty
  BY DEF SearchNonce, Add, IInv, TypeOK, BlocksInv, LevelInv
<1>2. Stored(header) \in Blocks
  BY <1>1, IdType
<1>3. /\ chain' \in Seq(Blocks) /\ chain' # <<>> /\ Len(chain) \in Nat
      /\ DOMAIN chain' = 1 .. Len(chain) + 1 /\ 1 \in DOMAIN chain
      /\ \A k \in 1 .. Len(chain) : chain'[k] = chain[k]
      /\ chain'[Len(chain) + 1] = Stored(header)
      /\ DOMAIN chain = 1 .. Len(chain)
  BY <1>1, <1>2
<1>4. TypeOK' /\ LevelInv'
  BY <1>1, <1>3 DEF IInv, TypeOK, LevelInv
<1>5. BlocksInv'
  <2> SUFFICES ASSUME NEW k \in DOMAIN chain'
               PROVE  /\ chain'[k].id = Id(chain'[k].header)
                      /\ k > 1 => Suits(difficulty, chain'[k].header)
    BY <1>1, <1>3 DEF BlocksInv, Suits, Id
  <2>1. CASE k \in DOMAIN chain
    BY <1>3, <2>1 DEF IInv, BlocksInv
  <2>2. CASE k = Len(chain) + 1
    BY <1>1, <1>3, <2>2 DEF Stored
  <2> QED
    BY <1>3, <2>1, <2>2
<1>6. GenesisInv'
  BY <1>1, <1>3 DEF IInv, GenesisInv, Suits, Id
<1>7. SearchSkipsNothing'
  BY <1>1 DEF IInv, LevelInv, SearchSkipsNothing, Passed, Suits, Id, Try
<1> QED
  BY <1>1, <1>4, <1>5, <1>6, <1>7 DEF IInv, OpenFailsOnlyAtGenesis

\* The search goes on when the current nonce does not suit either.
LEMMA NextTryKeepsIInv ==
  ASSUME IInv, SearchNonce, ~Suits(workLevel, header)
  PROVE  IInv'
<1>1. /\ pc = "mining" /\ NextTry
      /\ UNCHANGED <<pc, chain, asked, difficulty, workLevel, at>>
      /\ header \in Headers /\ asked \in Seconds /\ workLevel = difficulty
      /\ MaxNonce \in Nat /\ MaxSeconds \in Nat
  BY SizesAssumption DEF SearchNonce, IInv, TypeOK, LevelInv
<1>2. /\ header.nonce \in 0 .. MaxNonce /\ header.time \in 0 .. MaxSeconds
      /\ asked \in 0 .. MaxSeconds /\ asked # NoTime
  BY <1>1 DEF Headers, Nonces, Seconds, IInv, LevelInv
<1>3. header = Try(header, header.time, header.nonce)
  BY <1>1 DEF Headers, Try
<1>4. /\ \A t \in Passed(header.time), n \in Nonces : ~Suits(difficulty, Try(header, t, n))
      /\ \A n \in 0 .. header.nonce : ~Suits(difficulty, Try(header, header.time, n))
  <2>1. /\ \A t \in Passed(header.time), n \in Nonces : ~Suits(difficulty, Try(header, t, n))
        /\ \A n \in 0 .. header.nonce - 1 : ~Suits(difficulty, Try(header, header.time, n))
    BY <1>1, <1>2 DEF IInv, SearchSkipsNothing
  <2>2. \A n \in 0 .. header.nonce : n = header.nonce \/ n \in 0 .. header.nonce - 1
    BY <1>2
  <2> QED
    BY <1>1, <1>3, <2>1, <2>2
<1>5. /\ header' \in Headers
      /\ \A t \in Seconds, n \in Nonces : Try(header', t, n) = Try(header, t, n)
  <2>1. NextSecond(header.time) \in Seconds
    BY <1>1, <1>2 DEF NextSecond, Seconds
  <2>2. header.nonce # MaxNonce => header.nonce + 1 \in Nonces
    BY <1>1, <1>2 DEF Nonces
  <2>3. 0 \in Nonces
    BY <1>1 DEF Nonces
  <2> QED
    BY <1>1, <2>1, <2>2, <2>3 DEF NextTry, Headers, Try
<1>6. SearchSkipsNothing'
  <2>1. CASE header.nonce = MaxNonce
    <3>1. header'.time = NextSecond(header.time) /\ header'.nonce = 0
      BY <1>1, <2>1 DEF NextTry, Headers
    <3>2. \A t \in Passed(header'.time) : t \in Seconds /\ (t = header.time \/ t \in Passed(header.time))
      BY <1>1, <1>2, <3>1 DEF NextSecond, Passed, Seconds
    <3>3. \A n \in Nonces : ~Suits(difficulty, Try(header, header.time, n))
      BY <1>4, <2>1 DEF Nonces
    <3>4. \A t \in Passed(header'.time), n \in Nonces : ~Suits(difficulty, Try(header', t, n))
      BY <1>4, <1>5, <3>2, <3>3
    <3>5. 0 .. header'.nonce - 1 = {}
      BY <3>1
    <3>6. (Passed(header.time))' = {t \in Passed(header'.time) : TRUE}
      BY <1>1 DEF Passed
    <3> QED
      BY <1>1, <3>4, <3>5, <3>6 DEF SearchSkipsNothing, Suits, Id
  <2>2. CASE header.nonce # MaxNonce
    <3>1. header'.time = header.time /\ header'.nonce = header.nonce + 1
      BY <1>1, <2>2 DEF NextTry, Headers
    <3>2. Passed(header.time) \subseteq Seconds /\ header.time \in Seconds
      BY <1>1, <1>2 DEF Passed, Seconds
    <3>3. \A n \in 0 .. header'.nonce - 1 : n \in Nonces /\ n \in 0 .. header.nonce
      BY <1>1, <1>2, <2>2, <3>1 DEF Nonces
    <3>4. /\ \A t \in Passed(header.time), n \in Nonces : ~Suits(difficulty, Try(header', t, n))
          /\ \A n \in 0 .. header'.nonce - 1 : ~Suits(difficulty, Try(header', header'.time, n))
      BY <1>4, <1>5, <3>1, <3>2, <3>3
    <3> QED
      BY <1>1, <3>1, <3>4 DEF SearchSkipsNothing, Passed, Suits, Id
  <2> QED
    BY <2>1, <2>2
<1>7. TypeOK' /\ LevelInv'
  BY <1>1, <1>5 DEF IInv, TypeOK, LevelInv
<1>8. BlocksInv' /\ GenesisInv'
  BY <1>1 DEF IInv, BlocksInv, GenesisInv, LevelInv, Suits, Id
<1> QED
  BY <1>1, <1>6, <1>7, <1>8 DEF IInv, OpenFailsOnlyAtGenesis

-----------------------------------------------------------------------------
LEMMA NextKeepsIInv == IInv /\ [Next]_vars => IInv'
<1> SUFFICES ASSUME IInv, [Next]_vars PROVE IInv'
  OBVIOUS
<1>1. CASE SearchGenesis
  BY <1>1, SearchGenesisKeepsIInv
<1>2. CASE ForwardPass
  BY <1>2, ForwardPassKeepsIInv
<1>3. ASSUME NEW payload \in Payloads, NEW ts \in Seconds, Mint(payload, ts) PROVE IInv'
  BY <1>3, MintKeepsIInv
<1>4. CASE SearchNonce
  BY <1>4, AddKeepsIInv, NextTryKeepsIInv
<1>5. CASE Reopen
  BY <1>5, ReopenKeepsIInv
<1>6. CASE UNCHANGED vars
  BY <1>6 DEF vars, IInv, TypeOK, BlocksInv, GenesisInv, LevelInv, OpenFailsOnlyAtGenesis,
              SearchSkipsNothing, Passed, Suits, Id, Try
<1> QED
  BY <1>1, <1>2, <1>3, <1>4, <1>5, <1>6 DEF Next

LEMMA Inductive == Spec => []IInv
BY InitIInv, NextKeepsIInv, PTL DEF Spec

\* The types of the search, for every hash.
THEOREM TypeCorrect == Spec => []TypeOK
<1>1. IInv => TypeOK
  BY DEF IInv
<1> QED
  BY Inductive, <1>1, PTL

\* A chain that was opened once can be opened again, whatever was minted on it and
\* whenever the processes were killed.
THEOREM ChainsCanBeOpened == Spec => []OpenFailsOnlyAtGenesis
<1>1. IInv => OpenFailsOnlyAtGenesis
  BY DEF IInv
<1> QED
  BY Inductive, <1>1, PTL

\* Mint moves a timestamp on only past seconds that no nonce suits.
THEOREM StampsMoveOnlyIfTheyMust == Spec => []SearchSkipsNothing
<1>1. IInv => SearchSkipsNothing
  BY DEF IInv
<1> QED
  BY Inductive, <1>1, PTL

-----------------------------------------------------------------------------
(***************************************************************************)
(* The check of an id                                                      *)
(***************************************************************************)
\* The powers of two are powers of two.
LEMMA PowersOfTwo ==
  /\ \A n \in 0 .. WordBits : PowerOfTwo[n] \in Nat /\ PowerOfTwo[n] > 0
  /\ PowerOfTwo[0] = 1
  /\ \A n \in 1 .. WordBits : PowerOfTwo[n] = 2 * PowerOfTwo[n - 1]
<1> DEFINE D      == 0 .. WordBits
           V      == Nat
           rank   == [n \in D |-> n]
           before == [n \in D |-> IF n = 0 THEN 0 ELSE n - 1]
           base   == [n \in D |-> 1]
           step   == [d \in D \X V |-> 2 * d[2]]
           Doubles(g) == g = [n \in D |-> IF n = 0 THEN 1 ELSE 2 * g[n - 1]]
<1>1. WordBits \in Nat /\ WordBits > 0
  BY SizesAssumption
<1>2. Recursive(D, V, rank, before, base, step, WordBits)
  <2>1. rank \in [D -> Nat] /\ before \in [D -> D] /\ base \in [D -> V]
    BY <1>1
  <2>2. step \in [D \X V -> V]
    OBVIOUS
  <2>3. \A d \in D : rank[d] <= WordBits
    BY <1>1
  <2>4. \A d \in D : rank[d] # 0 => rank[before[d]] = rank[d] - 1
    BY <1>1
  <2> HIDE DEF rank, before, base, step, D, V
  <2> QED
    BY <1>1, <2>1, <2>2, <2>3, <2>4 DEF Recursive
<1>3. PICK g : Solves(D, V, rank, before, base, step, g)
  <2> HIDE DEF D, V, rank, before, base, step
  <2> QED
    BY <1>2, RecursiveFunctionExists
<1>4. g \in [D -> V] /\ \A n \in D : g[n] = IF n = 0 THEN 1 ELSE 2 * g[n - 1]
  <2>1. g \in [D -> V]
    BY <1>3 DEF Solves
  <2>2. ASSUME NEW n \in D
        PROVE  g[n] = IF n = 0 THEN 1 ELSE 2 * g[n - 1]
    <3>1. g[n] = IF rank[n] = 0 THEN base[n] ELSE step[<<n, g[before[n]]>>]
      BY <1>3 DEF Solves
    <3>2. CASE n = 0
      BY <3>1, <3>2
    <3>3. CASE n # 0
      <4>1. before[n] = n - 1 /\ n - 1 \in D
        BY <1>1, <3>3
      <4>2. step[<<n, g[n - 1]>>] = 2 * g[n - 1]
        BY <2>1, <4>1
      <4>3. rank[n] # 0
        BY <3>3
      <4> HIDE DEF step, before, rank
      <4> QED
        BY <3>1, <3>3, <4>1, <4>2, <4>3
    <3> QED
      BY <3>2, <3>3
  <2> QED
    BY <2>1, <2>2
<1>5. Doubles(g)
  BY <1>4
<1>6. PowerOfTwo = CHOOSE k : Doubles(k)
  BY DEF PowerOfTwo
<1>7. Doubles(PowerOfTwo)
  <2> HIDE DEF Doubles
  <2> QED
    BY <1>5, <1>6, Zenon
<1> DEFINE Good == {n \in Nat : n \in D => PowerOfTwo[n] \in Nat /\ PowerOfTwo[n] > 0}
<1>8. \A n \in Nat : n \in Good
  <2>1. 0 \in Good
    BY <1>1, <1>7
  <2>2. ASSUME NEW n \in Nat, n \in Good
        PROVE  n + 1 \in Good
    <3>1. CASE n + 1 \in D
      <4>1. n \in D /\ (n + 1) - 1 = n /\ n + 1 # 0
        BY <1>1, <3>1
      <4>2. PowerOfTwo[n + 1] = 2 * PowerOfTwo[n]
        BY <1>7, <3>1, <4>1
      <4> QED
        BY <2>2, <4>1, <4>2
    <3> QED
      BY <3>1
  <2> HIDE DEF Good
  <2> QED
    BY <2>1, <2>2, NumberInduction
<1>9. \A n \in 0 .. WordBits : PowerOfTwo[n] \in Nat /\ PowerOfTwo[n] > 0
  <2>1. \A n \in 0 .. WordBits : n \in Nat /\ n \in D
    BY <1>1
  <2> QED
    BY <1>8, <2>1
<1>10. PowerOfTwo[0] = 1
  BY <1>1, <1>7
<1>11. ASSUME NEW n \in 1 .. WordBits
       PROVE  PowerOfTwo[n] = 2 * PowerOfTwo[n - 1]
  <2>1. n \in D /\ n # 0
    BY <1>1
  <2> QED
    BY <1>7, <2>1
<1> QED
  BY <1>9, <1>10, <1>11

\* The larger the exponent, the larger the power.
LEMMA PowersGrow ==
  ASSUME NEW m \in 0 .. WordBits, NEW n \in 0 .. WordBits, m <= n
  PROVE  PowerOfTwo[m] <= PowerOfTwo[n]
<1> DEFINE Good == {k \in Nat : m + k <= WordBits => PowerOfTwo[m] <= PowerOfTwo[m + k]}
<1>1. WordBits \in Nat /\ m \in Nat /\ n \in Nat
  BY SizesAssumption
<1>2. 0 \in Good
  BY <1>1, PowersOfTwo
<1>3. ASSUME NEW k \in Nat, k \in Good
      PROVE  k + 1 \in Good
  <2>1. CASE m + (k + 1) <= WordBits
    <3>1. m + k \in 0 .. WordBits /\ m + (k + 1) \in 1 .. WordBits /\ m + (k + 1) - 1 = m + k
      BY <1>1, <2>1
    <3>2. PowerOfTwo[m + (k + 1)] = 2 * PowerOfTwo[m + k]
      BY <3>1, PowersOfTwo
    <3>3. PowerOfTwo[m] \in Nat /\ PowerOfTwo[m + k] \in Nat
      BY <3>1, PowersOfTwo
    <3>4. PowerOfTwo[m] <= PowerOfTwo[m + k]
      BY <1>1, <1>3, <3>1
    <3> QED
      BY <3>2, <3>3, <3>4
  <2> QED
    BY <2>1
<1>4. n - m \in Good
  <2> HIDE DEF Good
  <2>1. n - m \in Nat
    BY <1>1
  <2> QED
    BY <1>2, <1>3, <2>1, NumberInduction
<1> QED
  BY <1>1, <1>4

Word == 0 .. PowerOfTwo[WordBits] - 1

\* How many zeros lead a word says how small it is.
LEMMA LeadingZerosBound ==
  ASSUME NEW x \in Word, NEW k \in 0 .. WordBits
  PROVE  LeadingZeros(x) >= k <=> x < PowerOfTwo[WordBits - k]
<1>1. WordBits \in Nat /\ PowerOfTwo[WordBits] \in Nat /\ x \in Nat /\ x < PowerOfTwo[WordBits]
  BY SizesAssumption, PowersOfTwo DEF Word
<1> DEFINE S == {n \in 0 .. WordBits : x < PowerOfTwo[n]}
           Leads(z) == /\ x < PowerOfTwo[WordBits - z]
                       /\ z = WordBits \/ x >= PowerOfTwo[WordBits - z - 1]
<1>2. PICK n \in S : \A y \in S : n <= y
  <2>1. S \subseteq Nat /\ S # {}
    BY <1>1
  <2> HIDE DEF S
  <2> QED
    BY <2>1, LeastNumber
<1>3. WordBits - n \in 0 .. WordBits /\ Leads(WordBits - n)
  <2>1. WordBits - n \in 0 .. WordBits /\ WordBits - (WordBits - n) = n
    BY <1>1
  <2>2. CASE n # 0
    <3>1. n - 1 \in 0 .. WordBits /\ n - 1 \notin S /\ WordBits - (WordBits - n) - 1 = n - 1
      BY <1>1, <1>2, <2>2
    <3>2. PowerOfTwo[n - 1] \in Nat /\ ~(x < PowerOfTwo[n - 1])
      BY <3>1, PowersOfTwo
    <3>3. x >= PowerOfTwo[n - 1]
      BY <1>1, <3>2
    <3> QED
      BY <2>1, <3>1, <3>3
  <2> QED
    BY <1>1, <2>1, <2>2
<1> DEFINE z == LeadingZeros(x)
<1>4. z \in 0 .. WordBits /\ Leads(z)
  <2>1. z = CHOOSE y \in 0 .. WordBits : Leads(y)
    BY DEF LeadingZeros
  <2> HIDE DEF Leads, z
  <2> QED
    BY <1>3, <2>1
<1> HIDE DEF z
<1>5. ASSUME z >= k
      PROVE  x < PowerOfTwo[WordBits - k]
  <2>1. WordBits - z \in 0 .. WordBits /\ WordBits - k \in 0 .. WordBits /\ WordBits - z <= WordBits - k
    BY <1>1, <1>4, <1>5
  <2>2. PowerOfTwo[WordBits - z] <= PowerOfTwo[WordBits - k]
        /\ PowerOfTwo[WordBits - z] \in Nat /\ PowerOfTwo[WordBits - k] \in Nat
    BY <2>1, PowersGrow, PowersOfTwo
  <2> QED
    BY <1>1, <1>4, <2>2
<1>6. ASSUME x < PowerOfTwo[WordBits - k], ~(z >= k)
      PROVE  FALSE
  <2>1. /\ WordBits - z - 1 \in 0 .. WordBits /\ WordBits - k \in 0 .. WordBits
        /\ WordBits - k <= WordBits - z - 1 /\ z # WordBits
    BY <1>1, <1>4, <1>6
  <2>2. PowerOfTwo[WordBits - k] <= PowerOfTwo[WordBits - z - 1]
        /\ PowerOfTwo[WordBits - k] \in Nat /\ PowerOfTwo[WordBits - z - 1] \in Nat
    BY <2>1, PowersGrow, PowersOfTwo
  <2>3. x >= PowerOfTwo[WordBits - z - 1]
    BY <1>4, <2>1
  <2> QED
    BY <1>1, <1>6, <2>2, <2>3
<1> QED
  BY <1>5, <1>6 DEF z

\* Bit i of a word, counted from its front.
BitOf(x, i) == (x \div PowerOfTwo[WordBits - 1 - i]) % 2

\* So do its first k bits, if they are zero.
LEMMA FirstBitsBound ==
  ASSUME NEW x \in Word, NEW k \in 0 .. WordBits
  PROVE  x < PowerOfTwo[WordBits - k] <=> \A i \in 0 .. k - 1 : BitOf(x, i) = 0
<1>1. WordBits \in Nat /\ PowerOfTwo[WordBits] \in Nat /\ x \in Nat /\ x < PowerOfTwo[WordBits]
  BY SizesAssumption, PowersOfTwo DEF Word
<1> DEFINE Zeros(n) == \A i \in 0 .. n - 1 : BitOf(x, i) = 0
           Good     == {n \in Nat : n <= WordBits => (x < PowerOfTwo[WordBits - n] <=> Zeros(n))}
<1>2. 0 \in Good
  BY <1>1
<1>3. ASSUME NEW n \in Nat, n \in Good
      PROVE  n + 1 \in Good
  <2> SUFFICES ASSUME n + 1 <= WordBits
               PROVE  x < PowerOfTwo[WordBits - (n + 1)] <=> Zeros(n + 1)
    OBVIOUS
  <2> DEFINE m == PowerOfTwo[WordBits - 1 - n]
             q == x \div m
             r == x % m
  <2>1. m \in Nat /\ m > 0 /\ PowerOfTwo[WordBits - n] = 2 * m
    <3>1. WordBits - n \in 1 .. WordBits /\ WordBits - n - 1 = WordBits - 1 - n
          /\ WordBits - 1 - n \in 0 .. WordBits
      BY <1>1
    <3> QED
      BY <3>1, PowersOfTwo
  <2>2. PowerOfTwo[WordBits - (n + 1)] = m
    <3>1. WordBits - (n + 1) = WordBits - 1 - n
      BY <1>1
    <3> QED
      BY <3>1
  <2>3. x < 2 * m <=> Zeros(n)
    BY <1>1, <1>3, <2>1
  <2>4. BitOf(x, n) = q % 2
    BY DEF BitOf
  <2>5. Zeros(n + 1) <=> Zeros(n) /\ BitOf(x, n) = 0
    <3>1. \A i : i \in 0 .. (n + 1) - 1 <=> i \in 0 .. n - 1 \/ i = n
      OBVIOUS
    <3> QED
      BY <3>1
  <2> HIDE DEF m
  <2>6. q \in Int /\ r \in Residues(m) /\ x = m * q + r
    BY <1>1, <2>1, Division
  <2> HIDE DEF q, r, Zeros
  <2>7. Divided(m, x, q, r)
    BY <2>1, <2>6 DEF Divided
  <2>8. ASSUME x < m
        PROVE  q % 2 = 0
    <3>1. Divided(m, x, 0, x)
      BY <1>1, <2>1, <2>8 DEF Divided, Residues
    <3>2. q = 0
      BY <2>7, <3>1, DivisionIsUnique
    <3> QED
      BY <3>2
  <2>9. ASSUME x >= m, x < 2 * m
        PROVE  q % 2 = 1
    <3>1. Divided(m, x, 1, x - m)
      BY <1>1, <2>1, <2>9 DEF Divided, Residues
    <3>2. q = 1
      BY <2>7, <3>1, DivisionIsUnique
    <3> QED
      BY <3>2
  <2>10. x < m <=> x < 2 * m /\ q % 2 = 0
    <3>1. x < m => x < 2 * m
      BY <1>1, <2>1
    <3>2. x < m \/ x >= m
      BY <1>1, <2>1
    <3> QED
      BY <2>8, <2>9, <3>1, <3>2
  <2> QED
    BY <2>2, <2>3, <2>4, <2>5, <2>10
<1>4. k \in Good
  <2> HIDE DEF Good
  <2>1. k \in Nat
    BY <1>1
  <2> QED
    BY <1>2, <1>3, <2>1, NumberInduction
<1> QED
  BY <1>1, <1>4

\* The check of an id at a level, which takes a word off as long as it can, asks for as
\* many zero bits in front.
LEMMA CheckIsBitwise ==
  ASSUME NEW id \in Ids, NEW level \in 0 .. Bits
  PROVE  ProofOfWorkCheck(level, id) <=> \A b \in 1 .. level : Bit(id, b) = 0
<1>1. WordBits \in Nat /\ WordBits > 0 /\ Words \in Nat /\ Words > 0 /\ level \in Nat
      /\ level <= Words * WordBits
  BY SizesAssumption DEF Bits
<1>2. \A w \in 1 .. Words : id[w] \in Word
  BY DEF Ids, Word
<1>3. \A b : Bit(id, b) = BitOf(id[((b - 1) \div WordBits) + 1], (b - 1) % WordBits)
  BY DEF Bit, BitOf
<1>4. ASSUME NEW u \in Nat, NEW i \in 0 .. WordBits - 1
      PROVE  Bit(id, u * WordBits + i + 1) = BitOf(id[u + 1], i)
  <2> DEFINE c == u * WordBits + i
  <2>1. c \in Int /\ c + 1 - 1 = c
    BY <1>1
  <2>2. Divided(WordBits, c, u, i)
    BY <1>1 DEF Divided, Residues
  <2>3. Divided(WordBits, c, c \div WordBits, c % WordBits)
    <3> HIDE DEF c
    <3> QED
      BY <1>1, <2>1, Division DEF Divided
  <2>4. c \div WordBits = u /\ c % WordBits = i
    <3> HIDE DEF c
    <3> QED
      BY <2>2, <2>3, DivisionIsUnique
  <2> HIDE DEF c
  <2>5. Bit(id, c + 1) = BitOf(id[u + 1], i)
    BY <1>3, <2>1, <2>4
  <2> QED
    BY <2>5 DEF c
<1>5. CASE level = 0
  <2>1. id[1] \in Word /\ id[1] < PowerOfTwo[WordBits] /\ WordBits - 0 = WordBits
    BY <1>1, <1>2, PowersOfTwo DEF Word
  <2>2. LeadingZeros(id[1]) >= 0
    BY <1>1, <2>1, LeadingZerosBound
  <2>3. ~(level > WordBits) /\ level - 0 * WordBits = 0
    BY <1>1, <1>5
  <2>4. ProofOfWorkCheck(level, id)
    BY <1>5, <2>2, <2>3 DEF ProofOfWorkCheck
  <2> QED
    BY <1>5, <2>4
<1>6. CASE level # 0
  <2> DEFINE full == (level - 1) \div WordBits
             rest == (level - 1) % WordBits
  <2>1. full \in Int /\ rest \in 0 .. WordBits - 1 /\ level - 1 = WordBits * full + rest
    BY <1>1, <1>6, Division DEF Residues
  <2>2. level > WordBits \/ full = 0
    <3>1. CASE ~(level > WordBits)
      <4>1. Divided(WordBits, level - 1, 0, level - 1)
        BY <1>1, <1>6, <3>1 DEF Divided, Residues
      <4>2. Divided(WordBits, level - 1, full, rest)
        BY <1>1, <1>6, <2>1 DEF Divided, Residues
      <4> HIDE DEF full, rest
      <4> QED
        BY <4>1, <4>2, DivisionIsUnique
    <3> QED
      BY <3>1
  <2>3. ProofOfWorkCheck(level, id) <=> /\ \A w \in 1 .. full : id[w] = 0
                                        /\ LeadingZeros(id[full + 1]) >= level - full * WordBits
    BY <2>2 DEF ProofOfWorkCheck
  <2> HIDE DEF full, rest
  <2>4. full \in Nat /\ full < Words
    <3>1. full >= 0
      <4>1. full <= -1 => WordBits * full <= -WordBits
        BY <1>1, <2>1
      <4> QED
        BY <1>1, <1>6, <2>1, <4>1
    <3>2. full < Words
      <4>1. full >= Words => WordBits * full >= WordBits * Words
        BY <1>1, <2>1
      <4> QED
        BY <1>1, <1>6, <2>1, <4>1
    <3> QED
      BY <2>1, <3>1, <3>2
  <2>5. level - full * WordBits = rest + 1 /\ rest + 1 \in 0 .. WordBits
        /\ level = full * WordBits + rest + 1
    BY <1>1, <2>1
  <2>6. LeadingZeros(id[full + 1]) >= rest + 1
        <=> \A i \in 0 .. rest : BitOf(id[full + 1], i) = 0
    <3>1. id[full + 1] \in Word /\ (rest + 1) - 1 = rest
      BY <1>1, <1>2, <2>1, <2>4
    <3> QED
      BY <2>5, <3>1, LeadingZerosBound, FirstBitsBound
  <2>7. ASSUME NEW w \in 1 .. full
        PROVE  id[w] = 0 <=> \A i \in 0 .. WordBits - 1 : BitOf(id[w], i) = 0
    <3>1. id[w] \in Word /\ id[w] \in Nat /\ WordBits - WordBits = 0 /\ WordBits \in 0 .. WordBits
      BY <1>1, <1>2, <2>4 DEF Word
    <3>2. id[w] < PowerOfTwo[0] <=> id[w] = 0
      BY <3>1, PowersOfTwo
    <3> QED
      BY <3>1, <3>2, FirstBitsBound
  <2>8. ASSUME \A b \in 1 .. level : Bit(id, b) = 0
        PROVE  ProofOfWorkCheck(level, id)
    <3>1. ASSUME NEW w \in 1 .. full, NEW i \in 0 .. WordBits - 1
          PROVE  BitOf(id[w], i) = 0
      <4>1. w - 1 \in Nat /\ w - 1 + 1 = w
        BY <2>4
      <4>2. (w - 1) * WordBits + i + 1 \in 1 .. level
        <5>1. (w - 1) * WordBits <= (full - 1) * WordBits /\ (w - 1) * WordBits >= 0
          BY <1>1, <2>4
        <5>2. (full - 1) * WordBits = full * WordBits - WordBits
          BY <1>1, <2>4
        <5> QED
          BY <1>1, <2>1, <2>4, <2>5, <5>1, <5>2
      <4> QED
        BY <1>4, <2>8, <4>1, <4>2
    <3>2. ASSUME NEW i \in 0 .. rest
          PROVE  BitOf(id[full + 1], i) = 0
      <4>1. full * WordBits + i + 1 \in 1 .. level /\ i \in 0 .. WordBits - 1
        BY <1>1, <2>1, <2>4, <2>5
      <4> QED
        BY <1>4, <2>4, <2>8, <4>1
    <3> QED
      BY <2>3, <2>5, <2>6, <2>7, <3>1, <3>2
  <2>9. ASSUME ProofOfWorkCheck(level, id), NEW b \in 1 .. level
        PROVE  Bit(id, b) = 0
    <3> DEFINE u == (b - 1) \div WordBits
               i == (b - 1) % WordBits
    <3>1. u \in Int /\ i \in 0 .. WordBits - 1 /\ b - 1 = WordBits * u + i
      BY <1>1, Division DEF Residues
    <3> HIDE DEF u, i
    <3>2. u >= 0 /\ u <= full
      <4>1. u <= -1 => WordBits * u <= -WordBits
        BY <1>1, <3>1
      <4>2. u >= full + 1 => WordBits * u >= WordBits * full + WordBits
        BY <1>1, <2>4, <3>1
      <4> QED
        BY <1>1, <2>1, <2>4, <3>1, <4>1, <4>2
    <3>3. u \in Nat /\ b = u * WordBits + i + 1
      BY <1>1, <3>1, <3>2
    <3>4. Bit(id, b) = BitOf(id[u + 1], i)
      BY <1>4, <3>1, <3>3
    <3>5. CASE u = full
      <4>1. i \in 0 .. rest
        BY <1>1, <2>1, <2>4, <2>5, <3>1, <3>3, <3>5
      <4> QED
        BY <2>3, <2>5, <2>6, <2>9, <3>4, <3>5, <4>1
    <3>6. CASE u # full
      <4>1. u + 1 \in 1 .. full
        BY <2>4, <3>2, <3>3, <3>6
      <4> QED
        BY <2>3, <2>7, <2>9, <3>1, <3>4, <4>1
    <3> QED
      BY <3>5, <3>6
  <2> QED
    BY <2>8, <2>9
<1> QED
  BY <1>5, <1>6

\* The check that goes over an id word by word accepts it for a level exactly if that
\* many bits in front of it are zero, for every size of words.
THEOREM ZeroBitsAreCounted == Spec => []CheckCountsZeroBits
<1>1. IInv => CheckCountsZeroBits
  <2> SUFFICES ASSUME IInv, NEW level \in 0 .. Bits
               PROVE  Suits(level, header) <=> \A b \in 1 .. level : Bit(Id(header), b) = 0
    BY DEF CheckCountsZeroBits
  <2>1. Id(header) \in Ids
    BY IdType DEF IInv, TypeOK
  <2> QED
    BY <2>1, CheckIsBitwise DEF Suits
<1> QED
  BY Inductive, <1>1, PTL

=============================================================================
