------------------------- MODULE ConfigServerProofs -------------------------
(***************************************************************************)
(* For any number of requests at a time, any fields and any bodies: what was  *)
(* answered "Saved Configuration file" stays, no file is left empty but by a  *)
(* save that was cut short, and null but by requests that met.               *)
(***************************************************************************)
EXTENDS ConfigServer, TLAPS

LEMMA BlankType == Blank \in Setups /\ Blank \in Contents /\ Idle \in Puts
BY NamesAssumption DEF Blank, Setups, Contents, Written, Held, Idle, Puts

LEMMA InitIInv == Init => IInv
<1> SUFFICES ASSUME Init PROVE IInv
  OBVIOUS
<1>1. TypeOK
  BY BlankType DEF Init, TypeOK
<1>2. ASSUME NEW h \in Handlers 
      PROVE  HandlerInv(h) /\ OwedInv(h) /\ WritingInv(h) /\ NullInv(h) /\ ~Saving(h)
  BY BlankType, NamesAssumption DEF Init, HandlerInv, OwedInv, WritingInv, NullInv, Saving, Idle
<1>3. SavedInv
  BY DEF Init, SavedInv
<1>4. FileInv
  BY NamesAssumption DEF Init, FileInv
<1> QED
  BY <1>1, <1>2, <1>3, <1>4 DEF IInv

\* Nothing is asked of a handler that is idle.
LEMMA IdleNext ==
  ASSUME NEW h \in Handlers, put'[h] = Idle
  PROVE  (HandlerInv(h) /\ OwedInv(h) /\ WritingInv(h) /\ NullInv(h))' /\ ~Saving(h)'
<1>1. /\ put'[h].pc = "idle" /\ put'[h].owed = None /\ put'[h].copy = Blank
      /\ Blank # Null /\ Blank \in Contents
  BY BlankType, NamesAssumption DEF Idle
<1>2. HandlerInv(h)'
  BY <1>1 DEF HandlerInv
<1>3. OwedInv(h)'
  BY <1>1 DEF OwedInv
<1>4. WritingInv(h)' /\ NullInv(h)' /\ ~Saving(h)'
  BY <1>1 DEF WritingInv, NullInv, Saving
<1> QED
  BY <1>2, <1>3, <1>4

\* What is read from the file is a setup, and the file's own if it is sound.
LEMMA LoadedType ==
  ASSUME TypeOK
  PROVE  /\ Loaded \in Setups
         /\ file \notin {Missing, Empty, Null} /\ IsSound(file) => Loaded = file
<1>1. CASE file \in {Missing, Empty, Null}
  BY <1>1, BlankType DEF Loaded
<1>2. CASE file \notin {Missing, Empty, Null}
  <2>1. file \in [Fields -> Written]
    BY <1>2 DEF TypeOK, Contents
  <2>2. Loaded = [f \in Fields |->
                    IF \A g \in Fields : file[g] = Unsound => f <= g THEN file[f] ELSE Zero]
    BY <1>2 DEF Loaded
  <2>3. Loaded \in Setups
    BY <2>1, <2>2 DEF Setups, Written, Held
  <2>4. IsSound(file) => Loaded = file
    BY <2>1, <2>2 DEF IsSound
  <2> QED
    BY <2>3, <2>4
<1> QED
  BY <1>1, <1>2

LEMMA StartKeepsIInv ==
  ASSUME IInv, NEW s \in Structs, Start(s)
  PROVE  IInv'
<1>1. /\ TypeOK /\ ~up /\ up' = TRUE /\ setup' = s /\ UNCHANGED <<file, put, saved, cut, nullMet>>
      /\ struct' = [struct EXCEPT ![s] = Loaded]
      /\ touched' = (file \in {Missing, Empty, Null} \/ ~IsSound(file))
      /\ \A h \in Handlers : put[h] = Idle
  BY DEF Start, IInv, HandlerInv
<1>2. TypeOK'
  BY <1>1, LoadedType DEF TypeOK
<1>3. ASSUME NEW h \in Handlers
      PROVE  (HandlerInv(h) /\ OwedInv(h) /\ WritingInv(h) /\ NullInv(h))' /\ ~Saving(h)'
  BY <1>1, IdleNext
<1>4. SavedInv'
  <2>1. ASSUME saved # None PROVE file = saved
    BY <2>1 DEF IInv, SavedInv
  <2>2. ASSUME saved # None, ~touched' PROVE struct'[s] = saved
    BY <1>1, <2>1, <2>2, LoadedType DEF TypeOK
  <2> QED
    BY <1>1, <1>3, <2>1, <2>2 DEF SavedInv
<1>5. FileInv'
  BY <1>1 DEF IInv, FileInv, Saving
<1> QED
  BY <1>2, <1>3, <1>4, <1>5 DEF IInv

LEMMA KillKeepsIInv ==
  ASSUME IInv, Kill
  PROVE  IInv'
<1>1. /\ TypeOK /\ up' = FALSE /\ setup' = Nil /\ UNCHANGED <<file, saved, touched, nullMet>>
      /\ struct' = [s \in Structs |-> Blank]
      /\ \A h \in Handlers : put'[h] = Idle
      /\ cut' = (cut \/ \E h \in Handlers : Saving(h))
  BY DEF Kill, IInv
<1>2. TypeOK'
  BY <1>1, BlankType DEF TypeOK, Kill
<1>3. ASSUME NEW h \in Handlers
      PROVE  (HandlerInv(h) /\ OwedInv(h) /\ WritingInv(h) /\ NullInv(h))' /\ ~Saving(h)'
  BY <1>1, IdleNext
<1>4. SavedInv'
  BY <1>1, <1>3 DEF IInv, SavedInv
<1>5. FileInv'
  BY <1>1 DEF IInv, FileInv
<1> QED
  BY <1>2, <1>3, <1>4, <1>5 DEF IInv

-----------------------------------------------------------------------------
\* Where a request begins nothing is saved, and nothing but it is owed anything.
LEMMA BeginKeepsIInv ==
  ASSUME IInv, NEW h \in Handlers, NEW b \in Bodies \cup {Null},
         NEW pc \in {"allocating", "following", "parsed"}, NEW owed, Begin(h, b, pc, owed),
         pc # "parsed" => b \in Bodies,
         owed \in [Fields -> Held \cup Parts] \cup {None},
         setup' \in Structs \cup {Nil}, struct' \in [Structs -> Setups], nullMet' \in BOOLEAN,
         nullMet => nullMet', \A g \in Handlers \ {h} : put[g] # Idle => NullInv(g)',
         owed # None => /\ UNCHANGED setup /\ UNCHANGED struct
                        /\ pc = "allocating" => setup = Nil /\ owed = Merge(b, Blank)
                        /\ pc = "following" => setup # Nil /\ owed = Merge(b, struct[setup])
                        /\ pc # "parsed"
  PROVE  IInv'
<1> DEFINE r == [Idle EXCEPT !.pc = pc, !.body = b, !.owed = IF Alone(h) THEN owed ELSE None]
<1>1. /\ TypeOK /\ up /\ up' = TRUE /\ put[h] = Idle /\ UNCHANGED <<file, up, saved, cut>>
      /\ touched' = TRUE
      /\ put' = [g \in Handlers |-> IF g = h THEN r ELSE [put[g] EXCEPT !.owed = None]]
  BY DEF IInv, Begin
<1>2. /\ put'[h] = r /\ r \in Puts /\ r.pc = pc /\ r.body = b /\ r.copy = Blank
      /\ r.owed = (IF Alone(h) THEN owed ELSE None)
  <2>1. put'[h] = r
    BY <1>1
  <2>2. /\ r.pc = pc /\ r.body = b /\ r.copy = Blank /\ r.target = Nil /\ r.left = {}
        /\ r.owed = (IF Alone(h) THEN owed ELSE None)
    BY DEF Idle
  <2>3. r \in Puts
    BY BlankType DEF Puts, Idle
  <2> QED
    BY <2>1, <2>2, <2>3
<1> HIDE DEF r
<1>3. ASSUME NEW g \in Handlers \ {h}
      PROVE  /\ put'[g] = [put[g] EXCEPT !.owed = None] /\ put'[g] \in Puts
             /\ put'[g].owed = None /\ put'[g].pc = put[g].pc
             /\ put'[g].left = put[g].left /\ put'[g].body = put[g].body
             /\ put'[g].target = put[g].target /\ put'[g].copy = put[g].copy
  BY <1>1 DEF TypeOK, Puts
<1>4. TypeOK'
  <2>1. put' \in [Handlers -> Puts]
    BY <1>1, <1>2, <1>3
  <2> QED
    BY <1>1, <2>1 DEF TypeOK
<1>5. \A g \in Handlers : Saving(g)' <=> Saving(g)
  <2>1. ~Saving(h) /\ ~Saving(h)'
    BY <1>1, <1>2 DEF Saving, Idle
  <2> QED
    BY <1>3, <2>1 DEF Saving
<1>6. Alone(h) => \A g \in Handlers \ {h} : put'[g] = Idle
  BY <1>1 DEF Alone, Idle
<1>7. HandlerInv(h)' /\ WritingInv(h)' /\ NullInv(h)' /\ NullInv(h)' /\ OwedInv(h)'
  <2>1. HandlerInv(h)' /\ WritingInv(h)' /\ NullInv(h)' /\ NullInv(h)'
    BY <1>1, <1>2, BlankType, NamesAssumption DEF HandlerInv, WritingInv, NullInv
  <2>2. ASSUME put'[h].owed # None PROVE OwedInv(h)'
    <3>1. Alone(h) /\ owed # None /\ put'[h].owed = owed
      BY <1>2, <2>2
    <3>2. Alone(h)'
      BY <1>6, <3>1 DEF Alone
    <3>3. setup' = setup /\ struct' = struct /\ setup \in Structs \cup {Nil}
      BY <1>1, <3>1 DEF TypeOK
    <3> QED
      BY <1>2, <3>1, <3>2, <3>3, BlankType DEF OwedInv
  <2>3. put'[h].owed = None => OwedInv(h)'
    BY DEF OwedInv
  <2> QED
    BY <2>1, <2>2, <2>3
<1>8. ASSUME NEW g \in Handlers \ {h}
      PROVE  HandlerInv(g)' /\ WritingInv(g)' /\ NullInv(g)' /\ OwedInv(g)'
  <2>1. HandlerInv(g) /\ WritingInv(g)
    BY DEF IInv
  <2>2. HandlerInv(g)' /\ WritingInv(g)'
    BY <1>1, <1>3, <2>1 DEF HandlerInv, WritingInv
  <2>3. OwedInv(g)'
    BY <1>3 DEF OwedInv
  <2>4. CASE put[g] = Idle
    BY <1>3, <2>2, <2>3, <2>4, BlankType, NamesAssumption DEF NullInv, Idle
  <2> QED
    BY <2>2, <2>3, <2>4
<1>9. SavedInv'
  BY <1>1, <1>2, <1>5 DEF IInv, SavedInv
<1>10. FileInv'
  BY <1>1, <1>5 DEF IInv, FileInv
<1> QED
  BY <1>4, <1>7, <1>8, <1>9, <1>10 DEF IInv

LEMMA MergeType ==
  ASSUME NEW b \in Bodies, NEW s \in Setups
  PROVE  Merge(b, s) \in [Fields -> Held \cup Parts]
BY BodiesAssumption DEF Merge, Setups

LEMMA PutKeepsIInv ==
  ASSUME IInv, NEW h \in Handlers, NEW b \in Bodies, Put(h, b)
  PROVE  IInv'
<1>1. /\ TypeOK /\ UNCHANGED <<setup, struct, nullMet>>
      /\ setup' \in Structs \cup {Nil} /\ struct' \in [Structs -> Setups] /\ nullMet' \in BOOLEAN
  BY DEF Put, IInv, TypeOK
<1>2. ASSUME NEW g \in Handlers \ {h}, \E pc, owed : Begin(h, b, pc, owed) PROVE NullInv(g)'
  <2>1. NullInv(g) /\ put'[g].pc = put[g].pc /\ put'[g].copy = put[g].copy
    BY <1>1, <1>2 DEF Begin, IInv, TypeOK, Puts
  <2> QED
    BY <1>1, <2>1 DEF NullInv
<1>3. CASE setup = Nil
  <2>1. Begin(h, b, "allocating", Merge(b, Blank))
    BY <1>3 DEF Put
  <2>2. Merge(b, Blank) \in [Fields -> Held \cup Parts]
    BY MergeType, BlankType
  <2>3. \A g \in Handlers \ {h} : NullInv(g)'
    BY <1>2, <2>1
  <2> QED
    BY <1>1, <1>3, <2>1, <2>2, <2>3, BeginKeepsIInv
<1>4. CASE setup # Nil
  <2>1. Begin(h, b, "following", Merge(b, struct[setup]))
    BY <1>4 DEF Put
  <2>2. struct[setup] \in Setups
    BY <1>1, <1>4 DEF TypeOK
  <2>3. Merge(b, struct[setup]) \in [Fields -> Held \cup Parts]
    BY <2>2, MergeType
  <2>4. \A g \in Handlers \ {h} : NullInv(g)'
    BY <1>2, <2>1
  <2> QED
    BY <1>1, <1>4, <2>1, <2>3, <2>4, BeginKeepsIInv
<1> QED
  BY <1>3, <1>4

LEMMA CollectedType == ASSUME TypeOK PROVE Collected \in [Structs -> Setups]
BY BlankType DEF TypeOK, Collected

\* A request of null takes the setup from under those it meets.
LEMMA PutNullKeepsIInv ==
  ASSUME IInv, NEW h \in Handlers, PutNull(h)
  PROVE  IInv'
<1>1. /\ TypeOK /\ Begin(h, Null, "parsed", None) /\ setup' = Nil /\ struct' = Collected
      /\ nullMet' = (nullMet \/ ~Alone(h))
  BY DEF PutNull, IInv
<1>2. struct' \in [Structs -> Setups] /\ nullMet' \in BOOLEAN /\ nullMet \in BOOLEAN
  BY <1>1, CollectedType DEF TypeOK
<1>3. ASSUME NEW g \in Handlers \ {h}, put[g] # Idle PROVE NullInv(g)'
  <2>1. nullMet'
    BY <1>1, <1>3 DEF Alone
  <2> QED
    BY <2>1 DEF NullInv
<1> QED
  BY <1>1, <1>2, <1>3, BeginKeepsIInv

-----------------------------------------------------------------------------
\* A step of one request: if it is owed something it is alone, so nobody else is.
LEMMA OthersStay ==
  ASSUME IInv, NEW h \in Handlers, put[h].pc # "idle", NEW r \in Puts, Becomes(h, r), up' = up,
         setup # Nil => setup' # Nil, nullMet /\ ~Alone(h) => nullMet',
         (HandlerInv(h) /\ OwedInv(h) /\ WritingInv(h) /\ NullInv(h))'
  PROVE  /\ put' \in [Handlers -> Puts] /\ put'[h] = r
         /\ \A g \in Handlers \ {h} : put'[g] = put[g]
         /\ \A g \in Handlers : (HandlerInv(g) /\ OwedInv(g) /\ WritingInv(g) /\ NullInv(g))'
<1>1. /\ put' \in [Handlers -> Puts] /\ put'[h] = r
      /\ \A g \in Handlers \ {h} : put'[g] = put[g]
  BY DEF IInv, TypeOK, Becomes
<1>2. ASSUME NEW g \in Handlers, g # h
      PROVE  (HandlerInv(g) /\ OwedInv(g) /\ WritingInv(g) /\ NullInv(g))'
  <2>1. put[h] # Idle
    BY DEF Idle
  <2>2. /\ HandlerInv(g) /\ OwedInv(g) /\ WritingInv(g) /\ NullInv(g) /\ put'[g] = put[g]
    BY <1>1, <1>2 DEF IInv
  <2>3. put[g].owed = None
    BY <1>2, <2>1, <2>2 DEF OwedInv, Alone
  <2>4. HandlerInv(g)' /\ WritingInv(g)'
    BY <2>2 DEF HandlerInv, WritingInv
  <2>5. OwedInv(g)'
    BY <2>2, <2>3 DEF OwedInv
  <2>6. NullInv(g)'
    <3>1. CASE put[g] = Idle
      BY <2>2, <3>1, BlankType, NamesAssumption DEF NullInv, Idle
    <3>2. CASE put[g] # Idle
      <4>1. ~Alone(h)
        BY <1>2, <3>2 DEF Alone
      <4> QED
        BY <2>2, <4>1, NamesAssumption DEF NullInv, IInv, TypeOK
    <3> QED
      BY <3>1, <3>2
  <2> QED
    BY <2>4, <2>5, <2>6
<1> QED
  BY <1>1, <1>2

\* A request under way, if anything is saved, is not saving, and has touched the setup.
LEMMA StepKeepsIInv ==
  ASSUME IInv, NEW h \in Handlers, put[h].pc # "idle", NEW r \in Puts, Becomes(h, r),
         UNCHANGED <<file, up, saved, touched, nullMet>>,
         setup' = setup \/ put[h].pc = "allocating", setup' \in Structs \cup {Nil},
         setup # Nil => setup' # Nil,
         struct' \in [Structs -> Setups], cut' \in BOOLEAN,
         cut => cut', Saving(h) => Saving(h)' \/ cut',
         saved # None => ~Saving(h)',
         (HandlerInv(h) /\ OwedInv(h) /\ WritingInv(h) /\ NullInv(h))'
  PROVE  IInv'
<1>1. /\ put' \in [Handlers -> Puts] /\ put'[h] = r
      /\ \A g \in Handlers \ {h} : put'[g] = put[g]
      /\ \A g \in Handlers : (HandlerInv(g) /\ OwedInv(g) /\ WritingInv(g) /\ NullInv(g))'
  BY OthersStay
<1>2. TypeOK'
  BY <1>1 DEF IInv, TypeOK
<1>3. \A g \in Handlers \ {h} : Saving(g)' <=> Saving(g)
  BY <1>1 DEF Saving
<1>4. SavedInv'
  <2>1. put[h] # Idle
    BY DEF Idle
  <2> QED
    BY <1>3, <2>1 DEF IInv, SavedInv
<1>5. FileInv'
  BY <1>3 DEF IInv, FileInv
<1> QED
  BY <1>1, <1>2, <1>4, <1>5 DEF IInv

\* A request that ends without having written.
LEMMA DoneKeepsIInv ==
  ASSUME IInv, NEW h \in Handlers, put[h].pc # "idle", Done(h),
         UNCHANGED <<file, up, setup, saved, touched, nullMet>>,
         struct' \in [Structs -> Setups], cut' \in BOOLEAN,
         cut => cut', Saving(h) => cut'
  PROVE  IInv'
<1>1. put'[h] = Idle /\ Becomes(h, Idle) /\ Idle \in Puts
  BY BlankType DEF Done, Becomes, IInv, TypeOK
<1>2. (HandlerInv(h) /\ OwedInv(h) /\ WritingInv(h) /\ NullInv(h))' /\ ~Saving(h)'
  BY <1>1, IdleNext
<1>3. setup' \in Structs \cup {Nil}
  BY DEF IInv, TypeOK
<1> QED
  BY <1>1, <1>2, <1>3, StepKeepsIInv

\* A place nobody has hold of is blank: what is owed is what the body says.
LEMMA AllocateKeepsIInv ==
  ASSUME IInv, NEW h \in Handlers, Allocate(h)
  PROVE  IInv'
<1> DEFINE r == [put[h] EXCEPT !.pc = "following"]
<1>1. /\ put[h].pc = "allocating" /\ TypeOK /\ put[h] \in Puts /\ ~Saving(h)
      /\ UNCHANGED <<file, up, saved, touched, cut, nullMet>>
      /\ setup' \in Structs \ Targets /\ struct' = Collected /\ Becomes(h, r)
      /\ HandlerInv(h) /\ OwedInv(h)
  BY DEF Allocate, IInv, TypeOK, Saving
<1>2. /\ struct' \in [Structs -> Setups] /\ struct'[setup'] = Blank /\ cut' \in BOOLEAN
      /\ setup' # Nil
  BY <1>1, CollectedType, NamesAssumption DEF Collected, TypeOK
<1>3. /\ r \in Puts /\ r.pc = "following" /\ r.body = put[h].body /\ r.copy = put[h].copy
      /\ r.owed = put[h].owed
  BY <1>1 DEF Puts
<1>4. put'[h] = r /\ \A g \in Handlers \ {h} : put'[g] = put[g]
  BY <1>1 DEF Becomes, TypeOK
<1> HIDE DEF r
<1>5. HandlerInv(h)' /\ WritingInv(h)' /\ NullInv(h)' /\ ~Saving(h)'
  BY <1>1, <1>3, <1>4, NamesAssumption DEF HandlerInv, WritingInv, NullInv, Saving, Idle
<1>6. OwedInv(h)'
  BY <1>1, <1>2, <1>3, <1>4 DEF OwedInv, Alone
<1> QED
  BY <1>1, <1>2, <1>3, <1>5, <1>6, StepKeepsIInv

\* Decoding begins with the setup there is.
LEMMA FollowKeepsIInv ==
  ASSUME IInv, NEW h \in Handlers, Follow(h)
  PROVE  IInv'
<1>1. /\ put[h].pc = "following" /\ TypeOK /\ put[h] \in Puts /\ ~Saving(h)
      /\ UNCHANGED <<file, up, setup, struct, saved, touched, cut, nullMet>>
      /\ HandlerInv(h) /\ OwedInv(h)
      /\ put[h].body \in [Fields -> Parts]
  BY BodiesAssumption DEF Follow, IInv, TypeOK, Saving, HandlerInv
<1>2. struct' \in [Structs -> Setups] /\ cut' \in BOOLEAN /\ setup' \in Structs \cup {Nil}
  BY <1>1 DEF TypeOK
<1>3. CASE setup = Nil
  BY <1>1, <1>2, <1>3, DoneKeepsIInv DEF Follow
<1>4. CASE setup # Nil
  <2> DEFINE left == {f \in Fields : put[h].body[f] # Absent}
             r    == [put[h] EXCEPT !.pc = "decoding", !.target = setup, !.left = left]
  <2>1. Becomes(h, r) /\ setup \in Structs
    BY <1>1, <1>4 DEF Follow, TypeOK
  <2>2. /\ r \in Puts /\ r.pc = "decoding" /\ r.target = setup /\ r.left = left
        /\ r.owed = put[h].owed /\ r.body = put[h].body /\ r.copy = put[h].copy
    BY <1>1, <2>1 DEF Puts
  <2>3. put'[h] = r /\ \A g \in Handlers \ {h} : put'[g] = put[g]
    BY <1>1, <2>1 DEF Becomes, TypeOK
  <2> HIDE DEF r
  <2>4. HandlerInv(h)' /\ WritingInv(h)' /\ NullInv(h)' /\ ~Saving(h)'
    BY <1>1, <2>1, <2>2, <2>3, NamesAssumption DEF HandlerInv, WritingInv, NullInv, Saving, Idle
  <2>5. OwedInv(h)'
    <3> SUFFICES ASSUME put[h].owed # None PROVE OwedInv(h)'
      BY <2>2, <2>3 DEF OwedInv
    <3>1. Alone(h) /\ put[h].copy \in Contents /\ put[h].owed = Merge(put[h].body, struct[setup])
      BY <1>1 DEF OwedInv
    <3>2. \A f \in Fields : IF f \in left THEN put[h].body[f] = put[h].owed[f]
                            ELSE struct[setup][f] = put[h].owed[f]
      BY <3>1 DEF Merge
    <3>3. Alone(h)'
      BY <2>3, <3>1 DEF Alone
    <3> QED
      BY <1>1, <2>1, <2>2, <2>3, <3>1, <3>2, <3>3 DEF OwedInv
  <2> QED
    BY <1>1, <1>2, <1>4, <2>1, <2>2, <2>4, <2>5, StepKeepsIInv
<1> QED
  BY <1>3, <1>4

\* What is owed is in the field once it is decoded, unless the number is nil.
LEMMA DecodeFieldKeepsIInv ==
  ASSUME IInv, NEW h \in Handlers, NEW f \in Fields, DecodeField(h, f)
  PROVE  IInv'
<1> DEFINE s == put[h].target
<1>1. /\ put[h].pc = "decoding" /\ f \in put[h].left /\ TypeOK /\ put[h] \in Puts
      /\ put[h].body \in [Fields -> Parts] /\ s \in Structs
      /\ UNCHANGED <<file, up, setup, saved, touched, cut, nullMet>> /\ ~Saving(h)
      /\ HandlerInv(h) /\ OwedInv(h)
  BY BodiesAssumption DEF DecodeField, IInv, TypeOK, HandlerInv, Saving
<1>2. PICK v \in Decoded(h, f) : struct' = [struct EXCEPT ![s][f] = v]
  BY DEF DecodeField
<1>3. v \in Held
  BY DEF Decoded
<1>4. struct' \in [Structs -> Setups]
  BY <1>1, <1>2, <1>3 DEF TypeOK, Setups
<1>5. CASE put[h].body[f] = Refused
  <2>1. Done(h)
    BY <1>5 DEF DecodeField
  <2> QED
    BY <1>1, <1>4, <2>1, DoneKeepsIInv DEF TypeOK
<1>6. CASE put[h].body[f] # Refused
  <2> DEFINE r == [put[h] EXCEPT !.left = @ \ {f}]
  <2>1. Becomes(h, r)
    BY <1>6 DEF DecodeField
  <2>2. r \in Puts
    BY <1>1 DEF Puts
  <2>3. /\ put'[h] = r /\ r.left = put[h].left \ {f} /\ r.pc = "decoding"
        /\ r.body = put[h].body /\ r.target = s /\ r.owed = put[h].owed /\ r.copy = put[h].copy
        /\ \A g \in Handlers \ {h} : put'[g] = put[g]
    BY <1>1, <2>1 DEF Becomes, TypeOK, Puts
  <2> HIDE DEF r
  <2>4. HandlerInv(h)' /\ WritingInv(h)' /\ NullInv(h)' /\ ~Saving(h)'
    <3>1. up /\ put[h].copy \in Contents /\ Null \notin Contents
      BY <1>1, NamesAssumption DEF HandlerInv, Idle
    <3> QED
      BY <1>1, <2>3, <3>1 DEF HandlerInv, WritingInv, NullInv, Saving
  <2>5. OwedInv(h)'
    <3> SUFFICES ASSUME put[h].owed # None PROVE OwedInv(h)'
      BY <2>3 DEF OwedInv
    <3>1. /\ \A g \in Handlers \ {h} : put[g] = Idle
          /\ setup \in Structs /\ s = setup
          /\ \A k \in Fields :
               IF k \in put[h].left THEN put[h].body[k] = put[h].owed[k]
               ELSE put[h].body[k] = Mistyped \/ struct[setup][k] \in {put[h].owed[k], Broken}
      BY <1>1 DEF OwedInv, Alone
    <3>2. ~Racing(h, f)
      BY <3>1 DEF Racing, Idle
    <3>3. put[h].body[f] = Mistyped \/ v \in {put[h].owed[f], Broken}
      BY <1>1, <1>6, <3>1, <3>2 DEF Decoded
    <3>4. \A k \in Fields : struct'[setup][k] = IF k = f THEN v ELSE struct[setup][k]
      BY <1>1, <1>2, <3>1 DEF TypeOK, Setups
    <3>5. Alone(h)' /\ put[h].copy \in Contents
      BY <1>1, <2>3, <3>1 DEF Alone, HandlerInv
    <3> QED
      BY <1>1, <2>3, <3>1, <3>3, <3>4, <3>5 DEF OwedInv
  <2> QED
    BY <1>1, <1>4, <2>1, <2>2, <2>4, <2>5, StepKeepsIInv DEF TypeOK
<1> QED
  BY <1>5, <1>6

\* A request that is accepted has decoded every field it is owed.
LEMMA EndDecodeKeepsIInv ==
  ASSUME IInv, NEW h \in Handlers, EndDecode(h)
  PROVE  IInv'
<1>1. /\ put[h].pc = "decoding" /\ put[h].left = {} /\ TypeOK /\ put[h] \in Puts
      /\ UNCHANGED <<file, up, setup, struct, saved, touched, cut, nullMet>> /\ ~Saving(h)
      /\ HandlerInv(h) /\ OwedInv(h)
  BY DEF EndDecode, IInv, TypeOK, Saving
<1>2. /\ struct' \in [Structs -> Setups] /\ cut' \in BOOLEAN /\ setup' \in Structs \cup {Nil}
  BY <1>1 DEF TypeOK
<1>3. CASE \E f \in Fields : put[h].body[f] = Mistyped
  BY <1>1, <1>2, <1>3, DoneKeepsIInv DEF EndDecode
<1>4. CASE \A f \in Fields : put[h].body[f] # Mistyped
  <2> DEFINE r == [Idle EXCEPT !.pc = "parsed", !.owed = put[h].owed]
  <2>1. Becomes(h, r)
    BY <1>4 DEF EndDecode
  <2>2. r \in Puts
    BY <1>1, BlankType DEF Puts, Idle
  <2>3. /\ put'[h] = r /\ r.left = {} /\ r.pc = "parsed" /\ r.owed = put[h].owed
        /\ r.copy = Blank /\ Blank \in Contents
        /\ \A g \in Handlers \ {h} : put'[g] = put[g]
    BY <1>1, <2>1, BlankType DEF Becomes, TypeOK, Idle
  <2> HIDE DEF r
  <2>4. HandlerInv(h)' /\ WritingInv(h)' /\ NullInv(h)' /\ ~Saving(h)'
    <3>1. up /\ put[h].copy \in Contents /\ Null \notin Contents
      BY <1>1, NamesAssumption DEF HandlerInv, Idle
    <3> QED
      BY <1>1, <2>3, <3>1 DEF HandlerInv, WritingInv, NullInv, Saving
  <2>5. OwedInv(h)'
    BY <1>1, <1>4, <2>3 DEF OwedInv, Alone
  <2> QED
    BY <1>1, <1>2, <2>1, <2>2, <2>4, <2>5, StepKeepsIInv
<1> QED
  BY <1>3, <1>4

\* From here on the request is saving, and nothing is saved.
LEMMA TruncateKeepsIInv ==
  ASSUME IInv, NEW h \in Handlers, Truncate(h)
  PROVE  IInv'
<1>1. /\ put[h].pc = "parsed" /\ TypeOK /\ put[h] \in Puts
      /\ UNCHANGED <<up, setup, struct, touched, cut, nullMet>> /\ ~Saving(h)
      /\ HandlerInv(h) /\ OwedInv(h)
  BY DEF Truncate, IInv, TypeOK, Saving
<1>2. CASE Done(h) /\ UNCHANGED <<file, saved>>
  <2>1. struct' \in [Structs -> Setups] /\ cut' \in BOOLEAN
    BY <1>1 DEF TypeOK
  <2> QED
    BY <1>1, <1>2, <2>1, DoneKeepsIInv
<1> DEFINE r == [put[h] EXCEPT !.pc = "truncated"]
<1>3. CASE file' = Empty /\ saved' = None /\ Becomes(h, r)
  <2>1. r \in Puts /\ r.pc = "truncated" /\ r.owed = put[h].owed /\ r.copy = put[h].copy
    BY <1>1 DEF Puts
  <2>2. put'[h] = r /\ \A g \in Handlers \ {h} : put'[g] = put[g]
    BY <1>1, <1>3 DEF Becomes, TypeOK
  <2> HIDE DEF r
  <2>3. HandlerInv(h)' /\ WritingInv(h)' /\ NullInv(h)' /\ Saving(h)'
    <3>1. up /\ put[h].copy \in Contents /\ Null \notin Contents
      BY <1>1, NamesAssumption DEF HandlerInv, Idle
    <3> QED
      BY <1>1, <2>1, <2>2, <3>1 DEF HandlerInv, WritingInv, NullInv, Saving
  <2>4. OwedInv(h)'
    BY <1>1, <2>1, <2>2 DEF OwedInv, Alone
  <2>5. /\ put' \in [Handlers -> Puts]
        /\ \A g \in Handlers : (HandlerInv(g) /\ OwedInv(g) /\ WritingInv(g) /\ NullInv(g))'
    BY <1>1, <1>3, <2>1, <2>3, <2>4, OthersStay
  <2>6. TypeOK'
    BY <1>1, <1>3, <2>5 DEF TypeOK
  <2>7. SavedInv' /\ FileInv'
    BY <1>3, <2>3, NamesAssumption DEF SavedInv, FileInv
  <2> QED
    BY <2>5, <2>6, <2>7 DEF IInv
<1> QED
  BY <1>2, <1>3 DEF Truncate

LEMMA SetVersionKeepsIInv ==
  ASSUME IInv, NEW h \in Handlers, SetVersion(h)
  PROVE  IInv'
<1>1. /\ put[h].pc = "truncated" /\ TypeOK /\ put[h] \in Puts /\ Saving(h)
      /\ UNCHANGED <<file, up, setup, struct, saved, touched, nullMet>>
      /\ HandlerInv(h) /\ OwedInv(h)
  BY DEF SetVersion, IInv, TypeOK, Saving
<1>2. struct' \in [Structs -> Setups] /\ setup' \in Structs \cup {Nil}
  BY <1>1 DEF TypeOK
<1>3. CASE setup = Nil
  BY <1>1, <1>2, <1>3, DoneKeepsIInv DEF SetVersion
<1>4. CASE setup # Nil
  <2> DEFINE r == [put[h] EXCEPT !.pc = "versioned"]
  <2>1. Becomes(h, r) /\ cut' = cut /\ cut' \in BOOLEAN
    BY <1>1, <1>4 DEF SetVersion, TypeOK
  <2>2. /\ r \in Puts /\ r.pc = "versioned" /\ r.owed = put[h].owed /\ r.copy = put[h].copy
    BY <1>1 DEF Puts
  <2>3. put'[h] = r /\ \A g \in Handlers \ {h} : put'[g] = put[g]
    BY <1>1, <2>1 DEF Becomes, TypeOK
  <2> HIDE DEF r
  <2>4. HandlerInv(h)' /\ WritingInv(h)' /\ NullInv(h)' /\ Saving(h)'
    <3>1. up /\ put[h].copy \in Contents /\ Null \notin Contents
      BY <1>1, NamesAssumption DEF HandlerInv, Idle
    <3> QED
      BY <1>1, <1>4, <2>2, <2>3, <3>1 DEF HandlerInv, WritingInv, NullInv, Saving
  <2>5. OwedInv(h)'
    BY <1>1, <2>2, <2>3 DEF OwedInv, Alone
  <2>6. saved = None
    BY <1>1 DEF IInv, SavedInv
  <2> QED
    BY <1>1, <1>2, <2>1, <2>2, <2>4, <2>5, <2>6, StepKeepsIInv
<1> QED
  BY <1>3, <1>4

\* Without a setup null is on its way, after a request of null has met this one.
LEMMA EncodeKeepsIInv ==
  ASSUME IInv, NEW h \in Handlers, Encode(h)
  PROVE  IInv'
<1>1. /\ put[h].pc = "versioned" /\ TypeOK /\ put[h] \in Puts /\ Saving(h)
      /\ UNCHANGED <<file, up, setup, struct, saved, touched, cut, nullMet>>
      /\ HandlerInv(h) /\ OwedInv(h) /\ NullInv(h)
  BY DEF Encode, IInv, TypeOK, Saving
<1>2. /\ struct' \in [Structs -> Setups] /\ setup' \in Structs \cup {Nil} /\ cut' \in BOOLEAN
      /\ saved = None
  BY <1>1 DEF TypeOK, IInv, SavedInv
<1>3. /\ up /\ put[h].copy \in Contents /\ Null \notin Contents /\ Nil \notin Structs
  BY <1>1, NamesAssumption DEF HandlerInv, Idle
<1>4. CASE setup = Nil
  <2> DEFINE r == [put[h] EXCEPT !.pc = "writing", !.copy = Null]
  <2>1. Becomes(h, r)
    BY <1>4 DEF Encode
  <2>2. r \in Puts /\ r.pc = "writing" /\ r.owed = put[h].owed /\ r.copy = Null
    BY <1>1 DEF Puts
  <2>3. put'[h] = r /\ \A g \in Handlers \ {h} : put'[g] = put[g]
    BY <1>1, <2>1 DEF Becomes, TypeOK
  <2> HIDE DEF r
  <2>4. nullMet /\ put[h].owed = None
    BY <1>1, <1>3, <1>4 DEF NullInv, OwedInv
  <2>5. (HandlerInv(h) /\ OwedInv(h) /\ WritingInv(h) /\ NullInv(h))' /\ Saving(h)'
    BY <1>1, <1>3, <2>2, <2>3, <2>4 DEF HandlerInv, OwedInv, WritingInv, NullInv, Saving
  <2> QED
    BY <1>1, <1>2, <2>1, <2>2, <2>5, StepKeepsIInv
<1>5. CASE setup # Nil
  <2> DEFINE r == [put[h] EXCEPT !.pc = "encoding", !.target = setup, !.left = Fields]
  <2>1. Becomes(h, r) /\ setup \in Structs
    BY <1>1, <1>5 DEF Encode, TypeOK
  <2>2. /\ r \in Puts /\ r.pc = "encoding" /\ r.target = setup /\ r.left = Fields
        /\ r.owed = put[h].owed /\ r.copy = put[h].copy
    BY <1>1, <2>1 DEF Puts
  <2>3. put'[h] = r /\ \A g \in Handlers \ {h} : put'[g] = put[g]
    BY <1>1, <2>1 DEF Becomes, TypeOK
  <2> HIDE DEF r
  <2>4. HandlerInv(h)' /\ WritingInv(h)' /\ NullInv(h)' /\ Saving(h)'
    BY <1>1, <1>3, <2>1, <2>2, <2>3 DEF HandlerInv, WritingInv, NullInv, Saving
  <2>5. OwedInv(h)'
    BY <1>1, <2>2, <2>3 DEF OwedInv, Alone
  <2> QED
    BY <1>1, <1>2, <1>5, <2>1, <2>2, <2>4, <2>5, StepKeepsIInv
<1> QED
  BY <1>4, <1>5

\* A request that is owed something writes what is in the setup, which is that.
LEMMA EncodeFieldKeepsIInv ==
  ASSUME IInv, NEW h \in Handlers, NEW f \in Fields, EncodeField(h, f)
  PROVE  IInv'
<1> DEFINE t == put[h].target
<1>1. /\ put[h].pc = "encoding" /\ f \in put[h].left /\ TypeOK /\ put[h] \in Puts /\ Saving(h)
      /\ UNCHANGED <<file, up, setup, struct, saved, touched, nullMet>> /\ t \in Structs
      /\ HandlerInv(h) /\ OwedInv(h)
  BY DEF EncodeField, IInv, TypeOK, Saving, HandlerInv
<1>2. struct' \in [Structs -> Setups] /\ saved = None /\ setup' \in Structs \cup {Nil}
  BY <1>1 DEF TypeOK, IInv, SavedInv
<1>3. PICK v \in IF Racing(h, f) THEN Held ELSE {struct[t][f]} :
        IF CannotEncode(v)
        THEN Done(h) /\ cut' = TRUE
        ELSE /\ Becomes(h, [put[h] EXCEPT !.copy = [@ EXCEPT ![f] = v], !.left = @ \ {f},
                                         !.pc = IF put[h].left = {f} THEN "writing" ELSE @])
             /\ UNCHANGED cut
  BY DEF EncodeField
<1>4. v \in Held
  BY <1>1, <1>3 DEF TypeOK, Setups
<1>5. CASE CannotEncode(v)
  BY <1>1, <1>2, <1>3, <1>5, DoneKeepsIInv
<1>6. CASE ~CannotEncode(v)
  <2> DEFINE copy == [put[h].copy EXCEPT ![f] = v]
             r    == [put[h] EXCEPT !.copy = copy, !.left = put[h].left \ {f},
                                    !.pc = IF put[h].left = {f} THEN "writing" ELSE put[h].pc]
  <2>1. Becomes(h, r) /\ UNCHANGED cut
    BY <1>3, <1>6
  <2>2. put[h].copy \in [Fields -> Written] /\ v \in Written /\ v # Broken
    BY <1>1, <1>4, <1>6 DEF HandlerInv, Contents, Written, CannotEncode
  <2>3. /\ copy \in Contents
        /\ \A k \in Fields : copy[k] = IF k = f THEN v ELSE put[h].copy[k]
    BY <2>2 DEF Contents
  <2>4. /\ r.pc \in {"encoding", "writing"} /\ (r.pc = "writing" <=> r.left = {})
        /\ r.left = put[h].left \ {f} /\ r.copy = copy
        /\ r.target = t /\ r.owed = put[h].owed
    BY <1>1 DEF Puts
  <2>5. r \in Puts
    BY <1>1, <2>3 DEF Puts
  <2>6. put'[h] = r /\ \A g \in Handlers \ {h} : put'[g] = put[g]
    BY <1>1, <2>1 DEF Becomes, TypeOK
  <2>10. r.copy \in Contents
    BY <2>3, <2>4
  <2> HIDE DEF r, copy
  <2>7. HandlerInv(h)' /\ WritingInv(h)' /\ NullInv(h)' /\ Saving(h)'
    <3>1. up /\ put[h].copy \in Contents /\ Null \notin Contents
      BY <1>1, NamesAssumption DEF HandlerInv, Idle
    <3> QED
      BY <1>1, <2>4, <2>6, <2>10, <3>1 DEF HandlerInv, WritingInv, NullInv, Saving
  <2>8. OwedInv(h)'
    <3> SUFFICES ASSUME put[h].owed # None PROVE OwedInv(h)'
      BY <2>4, <2>6 DEF OwedInv
    <3>1. /\ \A g \in Handlers \ {h} : put[g] = Idle
          /\ setup \in Structs /\ t = setup
          /\ \A k \in Fields : struct[setup][k] \in {put[h].owed[k], Broken}
          /\ \A k \in Fields \ put[h].left :
               put[h].copy[k] = put[h].owed[k] /\ struct[setup][k] = put[h].owed[k]
      BY <1>1 DEF OwedInv, Alone
    <3>2. ~Racing(h, f)
      BY <3>1 DEF Racing, Idle
    <3>3. v = struct[setup][f]
      BY <1>3, <3>1, <3>2
    <3>4. v = put[h].owed[f]
      BY <2>2, <3>1, <3>3
    <3>5. \A k \in Fields \ r.left : r.copy[k] = put[h].owed[k] /\ struct[setup][k] = put[h].owed[k]
      BY <2>3, <2>4, <3>1, <3>3, <3>4
    <3>6. \A k \in Fields : struct'[setup'][k] \in {put[h].owed[k], Broken}
      BY <1>1, <3>1
    <3>7. Alone(h)'
      BY <2>6, <3>1 DEF Alone
    <3> QED
      BY <1>1, <2>4, <2>6, <2>10, <3>1, <3>5, <3>6, <3>7 DEF OwedInv
  <2>9. cut' \in BOOLEAN
    BY <1>1, <2>1 DEF TypeOK
  <2> QED
    BY <1>1, <1>2, <2>1, <2>5, <2>7, <2>8, <2>9, StepKeepsIInv
<1> QED
  BY <1>5, <1>6

\* What is written is what is owed, and from now on saved.
LEMMA WriteKeepsIInv ==
  ASSUME IInv, NEW h \in Handlers, Write(h)
  PROVE  IInv'
<1>1. /\ put[h].pc = "writing" /\ TypeOK /\ put[h] \in Puts /\ Saving(h)
      /\ UNCHANGED <<up, setup, struct>> /\ Done(h) /\ OwedInv(h) /\ WritingInv(h) /\ NullInv(h)
  BY DEF Write, IInv, TypeOK, Saving
<1>2. struct' \in [Structs -> Setups]
  BY <1>1 DEF TypeOK
<1>3. CASE cut' = TRUE /\ UNCHANGED <<file, saved, touched, nullMet>>
  BY <1>1, <1>2, <1>3, DoneKeepsIInv
<1>4. CASE /\ file' = put[h].copy /\ saved' = put[h].owed
           /\ touched' = (put[h].owed = None) /\ cut' = FALSE
           /\ nullMet' = (nullMet /\ ~(Alone(h) /\ put[h].copy # Null))
  <2>1. /\ put[h].copy \in Contents \cup {Null}
        /\ put[h].owed \in [Fields -> Held \cup Parts] \cup {None}
    BY <1>1 DEF Puts
  <2>2. Becomes(h, Idle) /\ Idle \in Puts /\ put'[h] = Idle
    BY <1>1, BlankType DEF Done, Becomes, TypeOK
  <2>3. (HandlerInv(h) /\ OwedInv(h) /\ WritingInv(h) /\ NullInv(h))' /\ ~Saving(h)'
    BY <2>2, IdleNext
  <2>4. /\ put' \in [Handlers -> Puts]
        /\ \A g \in Handlers \ {h} : put'[g] = put[g]
        /\ \A g \in Handlers : (HandlerInv(g) /\ OwedInv(g) /\ WritingInv(g) /\ NullInv(g))'
    <3>1. nullMet /\ ~Alone(h) => nullMet'
      BY <1>4
    <3> QED
      BY <1>1, <2>2, <2>3, <3>1, OthersStay
  <2>5. ASSUME put[h].owed # None
        PROVE  /\ put[h].owed = put[h].copy /\ put[h].copy \in Contents
               /\ setup \in Structs /\ struct[setup] = put[h].copy
               /\ \A g \in Handlers : put'[g] = Idle
    <3>1. /\ \A g \in Handlers \ {h} : put[g] = Idle
          /\ setup \in Structs
          /\ put[h].copy \in Contents /\ put[h].left = {}
          /\ \A k \in Fields : put[h].copy[k] = put[h].owed[k] /\ struct[setup][k] = put[h].owed[k]
      BY <1>1, <2>5, NamesAssumption DEF OwedInv, Alone, WritingInv
    <3>2. /\ put[h].copy \in [Fields -> Written]
          /\ put[h].owed \in [Fields -> Held \cup Parts]
          /\ struct[setup] \in [Fields -> Held]
      BY <1>1, <2>1, <2>5, <3>1 DEF Contents, TypeOK, Setups
    <3>3. put[h].owed = put[h].copy
      BY <3>1, <3>2, SMT
    <3>4. struct[setup] = put[h].copy
      BY <3>1, <3>2, SMT
    <3> QED
      BY <2>2, <2>4, <3>1, <3>3, <3>4
  <2>6. TypeOK'
    <3>1. saved' \in Contents \cup {None}
      BY <1>4, <2>1, <2>5
    <3> QED
      BY <1>1, <1>2, <1>4, <2>1, <2>4, <3>1 DEF TypeOK
  <2>7. SavedInv'
    BY <1>1, <1>4, <2>5 DEF SavedInv, Saving, Idle
  <2>8. FileInv'
    BY <1>1, <1>4, <2>1, NamesAssumption DEF FileInv, NullInv
  <2> QED
    BY <2>4, <2>6, <2>7, <2>8 DEF IInv
<1> QED
  BY <1>3, <1>4 DEF Write

-----------------------------------------------------------------------------
LEMMA NextKeepsIInv == IInv /\ [Next]_vars => IInv'
<1> SUFFICES ASSUME IInv, [Next]_vars PROVE IInv'
  OBVIOUS
<1>1. CASE UNCHANGED vars
  BY <1>1 DEF vars, IInv, TypeOK, HandlerInv, OwedInv, WritingInv, NullInv, SavedInv, FileInv,
              Saving, Alone
<1>2. ASSUME NEW s \in Structs, Start(s) PROVE IInv'
  BY <1>2, StartKeepsIInv
<1>3. CASE Kill
  BY <1>3, KillKeepsIInv
<1>4. ASSUME NEW h \in Handlers,
             \/ \E b \in Bodies : Put(h, b)
             \/ PutNull(h) \/ Allocate(h) \/ Follow(h)
             \/ \E f \in Fields : DecodeField(h, f) \/ EncodeField(h, f)
             \/ EndDecode(h) \/ Truncate(h) \/ SetVersion(h) \/ Encode(h) \/ Write(h)
      PROVE  IInv'
  BY <1>4, PutKeepsIInv, PutNullKeepsIInv, AllocateKeepsIInv, FollowKeepsIInv,
     DecodeFieldKeepsIInv, EndDecodeKeepsIInv, TruncateKeepsIInv,
     SetVersionKeepsIInv, EncodeKeepsIInv, EncodeFieldKeepsIInv, WriteKeepsIInv
<1> QED
  BY <1>1, <1>2, <1>3, <1>4 DEF Next

LEMMA Inductive == Spec => []IInv
<1> QED
  BY InitIInv, NextKeepsIInv, PTL DEF Spec

\* The type invariant: in particular the file never holds a number that is nil, since
\* BigIntToJSON panics before anything is written.
THEOREM ConfigTypeCorrect == Spec => []TypeOK
<1>1. IInv => TypeOK
  BY DEF IInv
<1> QED
  BY <1>1, Inductive, PTL

\* What a client was told is saved, when its request overlapped with no other, stays in
\* the file until the next save begins, and is what GET answers unless a request has
\* changed the setup meanwhile: authority.go's PUT handler, its save and its restart.
THEOREM SavedConfigsStay == Spec => []SavedConfigStays
<1>1. IInv => SavedConfigStays
  <2> SUFFICES ASSUME IInv, saved # None
               PROVE  file = saved /\ (up /\ ~touched => Served = saved)
    BY DEF SavedConfigStays
  <2>1. file = saved /\ saved \in [Fields -> Written]
    BY DEF IInv, SavedInv, TypeOK, Contents
  <2>2. ASSUME up, ~touched PROVE Served = saved
    <3>1. setup \in Structs /\ struct[setup] = saved
      BY <2>2 DEF IInv, SavedInv
    <3>2. setup # Nil /\ \A f \in Fields : struct[setup][f] # Broken
      BY <2>1, <3>1, NamesAssumption DEF Written
    <3> QED
      BY <3>1, <3>2 DEF Served
  <2> QED
    BY <2>1, <2>2
<1> QED
  BY <1>1, Inductive, PTL

\* However saves overlap, the file is left empty only by one that was cut short, and
\* with null in it only by a PUT of null that another request ran into.
THEOREM QuietFilesAreWhole == Spec => []QuietFileIsWhole
<1>1. IInv => QuietFileIsWhole
  BY DEF IInv, FileInv, QuietFileIsWhole, Saving, Idle
<1> QED
  BY <1>1, Inductive, PTL

=============================================================================
