---------------------------- MODULE ConfigServer ----------------------------
(***************************************************************************)
(* The web server of authority interactive (cmds/authority/authority.go): a  *)
(* PUT decodes its body into the one setup in memory, field by field, then    *)
(* truncates the file and writes the setup into it. net/http runs a goroutine *)
(* for each request, and nothing locks the setup, the variable that points to  *)
(* it, or the file. A GET encodes the setup and changes nothing, nor does a    *)
(* body that is not JSON.                                                   *)
(***************************************************************************)
EXTENDS Naturals, FiniteSets

CONSTANTS
  Handlers,   \* the goroutines of requests that overlap
  Fields,     \* the keys of a setup, numbered in the order they are written
  Values,     \* what a field may soundly hold
  Zero,       \* what it holds at first
  Unsound,    \* it can be written, but is refused when it is read back
  Broken,     \* writing it panics: a big.Int that is nil
  Bodies,     \* the JSON objects that are PUT
  Absent,     \* the body does not name the field
  Mistyped,   \* its value has the wrong JSON type
  Refused,    \* System or PublicKey: UnmarshalJSON fails half way
  Nulled,     \* BigIntSlice: a number that cannot be decoded is left nil
  Structs,    \* places a setup may be at
  Nil, Missing, Empty, None,
  Null        \* the JSON null, in a body or in the file

Parts    == Values \cup {Absent, Mistyped, Refused, Nulled}
Held     == Values \cup {Zero, Unsound, Broken}
Written  == Held \ {Broken}
Setups   == [Fields -> Held]
Contents == [Fields -> Written]

ASSUME FieldsAssumption == Fields \subseteq Nat
ASSUME BodiesAssumption == Bodies \subseteq [Fields -> Parts]
ASSUME NamesAssumption  ==
  /\ Broken \notin Values \cup {Zero, Unsound}
  /\ {Absent, Mistyped, Refused, Nulled} \cap Held = {}
  /\ Nil \notin Structs
  /\ {Missing, Empty, None, Null} \cap Contents = {}
  /\ Missing # Empty /\ Null \notin {Missing, Empty, None}

VARIABLES
  file,      \* authority-config.json: Missing, Empty (truncated), or what is in it
  up,        \* is the server running?
  setup,     \* the variable setup, a pointer
  struct,    \* what is at each place
  put,       \* what each handler is doing
  saved,     \* what a client was told is saved, until the next save begins
  touched,   \* has a PUT changed the setup since it was loaded or saved?
  cut,       \* did the last save to end not get to write the file?
  nullMet    \* has a PUT of null met another request, since a setup was written
             \* with no other request under way?

vars == <<file, up, setup, struct, put, saved, touched, cut, nullMet>>

Blank == [f \in Fields |-> Zero]

\* A handler: the struct it decodes `body` into, or encodes into `copy`; the fields
\* left to do; what its client expects to be saved, None once requests overlap.
Idle == [pc |-> "idle", body |-> Null, target |-> Nil, left |-> {}, copy |-> Blank, owed |-> None]

Init ==
  /\ file = Missing
  /\ up = FALSE
  /\ setup = Nil
  /\ struct = [s \in Structs |-> Blank]
  /\ put = [h \in Handlers |-> Idle]
  /\ saved = None
  /\ touched = FALSE
  /\ cut = FALSE
  /\ nullMet = FALSE

-----------------------------------------------------------------------------
IsSound(content) == \A f \in Fields : content[f] # Unsound

\* Mutant of Loaded: nothing is read.
LoadedNothing == Blank

\* Decoding the file stops at the first field that is refused; null is no field.
Loaded ==
  IF file \in {Missing, Empty, Null} THEN Blank
  ELSE [f \in Fields |-> IF \A g \in Fields : file[g] = Unsound => f <= g
                           THEN file[f] ELSE Zero]

\* The command starts. A file that cannot be parsed is an error in the log: the
\* setup is what was decoded before it.
Start(s) ==
  /\ ~up
  /\ up' = TRUE
  /\ setup' = s
  /\ struct' = [struct EXCEPT ![s] = Loaded]
  /\ touched' = (file \in {Missing, Empty, Null} \/ ~IsSound(file))
  /\ UNCHANGED <<file, put, saved, cut, nullMet>>

Saving(h) == put[h].pc \in {"truncated", "versioned", "encoding", "writing"}

\* The process is killed, whatever it is doing.
Kill ==
  /\ up
  /\ up' = FALSE
  /\ setup' = Nil
  /\ struct' = [s \in Structs |-> Blank]
  /\ put' = [h \in Handlers |-> Idle]
  /\ cut' = (cut \/ \E h \in Handlers : Saving(h))
  /\ UNCHANGED <<file, saved, touched, nullMet>>

-----------------------------------------------------------------------------
\* Without a lock a field that another handler decodes may be read, and end up, as
\* any mixture: one that neither would have written.
Racing(h, f) ==
  \E g \in Handlers \ {h} :
    /\ put[g].pc = "decoding"
    /\ put[g].target = put[h].target
    /\ put[g].body[f] # Absent

Becomes(h, r) == put' = [put EXCEPT ![h] = r]

\* The handler is done, with an answer or with a panic that net/http recovers.
Done(h) == Becomes(h, Idle)

Alone(h) == \A g \in Handlers \ {h} : put[g] = Idle

\* A PUT begins. It is owed what it asks for if no other is under way, until one is.
Begin(h, b, pc, owed) ==
  /\ up
  /\ put[h] = Idle
  /\ put' = [g \in Handlers |->
               IF g = h
               THEN [Idle EXCEPT !.pc = pc, !.body = b, !.owed = IF Alone(h) THEN owed ELSE None]
               ELSE [put[g] EXCEPT !.owed = None]]
  /\ touched' = TRUE
  /\ UNCHANGED <<file, up, saved, cut>>

\* What a setup is after a body that is accepted.
Merge(b, s) == [f \in Fields |-> IF b[f] = Absent THEN s[f] ELSE b[f]]

\* Decode(&setup) looks whether there is a setup, makes one if not, and only then
\* follows the pointer.
Put(h, b) ==
  /\ IF setup = Nil
     THEN Begin(h, b, "allocating", Merge(b, Blank))
     ELSE Begin(h, b, "following", Merge(b, struct[setup]))
  /\ UNCHANGED <<setup, struct, nullMet>>

\* What no handler has got hold of is collected, when the setup is taken from it.
Targets   == {put[g].target : g \in Handlers}
Collected == [s \in Structs |-> IF s \in Targets THEN struct[s] ELSE Blank]

Allocate(h) ==
  /\ put[h].pc = "allocating"
  /\ setup' \in Structs \ Targets
  /\ struct' = Collected
  /\ Becomes(h, [put[h] EXCEPT !.pc = "following"])
  /\ UNCHANGED <<file, up, saved, touched, cut, nullMet>>

\* A pointer that is nil once more by now is a panic.
Follow(h) ==
  /\ put[h].pc = "following"
  /\ IF setup = Nil
     THEN Done(h)
     ELSE Becomes(h, [put[h] EXCEPT !.pc = "decoding", !.target = setup,
                                    !.left = {f \in Fields : put[h].body[f] # Absent}])
  /\ UNCHANGED <<file, up, setup, struct, saved, touched, cut, nullMet>>

\* null takes the setup away, and is saved.
PutNull(h) ==
  /\ Begin(h, Null, "parsed", None)
  /\ setup' = Nil
  /\ struct' = Collected
  /\ nullMet' = (nullMet \/ ~Alone(h))

\* What decoding a part leaves in a field.
Decoded(h, f) ==
  LET part == put[h].body[f]
  IN  {v \in Held : \/ Racing(h, f)
                    \/ v = part
                    \/ part = Mistyped /\ v = struct[put[h].target][f]
                    \/ part = Refused /\ v \in {Broken, Unsound}
                    \/ part = Nulled /\ v = Broken}

\* The next field of the body, in whatever order it has. A value that UnmarshalJSON
\* refuses ends it: 422.
DecodeField(h, f) ==
  /\ put[h].pc = "decoding"
  /\ f \in put[h].left
  /\ \E v \in Decoded(h, f) : struct' = [struct EXCEPT ![put[h].target][f] = v]
  /\ IF put[h].body[f] = Refused
     THEN Done(h)
     ELSE Becomes(h, [put[h] EXCEPT !.left = @ \ {f}])
  /\ UNCHANGED <<file, up, setup, saved, touched, cut, nullMet>>

\* A value of the wrong type is an error only when all is decoded. save knows
\* nothing of what was decoded, or where.
EndDecode(h) ==
  /\ put[h].pc = "decoding"
  /\ put[h].left = {}
  /\ IF \E f \in Fields : put[h].body[f] = Mistyped
     THEN Done(h)
     ELSE Becomes(h, [Idle EXCEPT !.pc = "parsed", !.owed = put[h].owed])
  /\ UNCHANGED <<file, up, setup, struct, saved, touched, cut, nullMet>>

\* save: os.Create truncates the file, or fails.
Truncate(h) ==
  /\ put[h].pc = "parsed"
  /\ \/ file' = Empty /\ saved' = None /\ Becomes(h, [put[h] EXCEPT !.pc = "truncated"])
     \/ Done(h) /\ UNCHANGED <<file, saved>>
  /\ UNCHANGED <<up, setup, struct, touched, cut, nullMet>>

\* Mutant of SetVersion: it was set when the server started.
VersionUnset(h) ==
  /\ put[h].pc = "truncated"
  /\ Becomes(h, [put[h] EXCEPT !.pc = "versioned"])
  /\ UNCHANGED <<file, up, setup, struct, saved, touched, cut, nullMet>>

\* setup.Version = ... panics without a setup.
SetVersion(h) ==
  /\ put[h].pc = "truncated"
  /\ IF setup = Nil
     THEN Done(h) /\ cut' = TRUE
     ELSE Becomes(h, [put[h] EXCEPT !.pc = "versioned"]) /\ UNCHANGED cut
  /\ UNCHANGED <<file, up, setup, struct, saved, touched, nullMet>>

\* EncodeAndHash is given the pointer as it is now: of nil it makes null.
Encode(h) ==
  /\ put[h].pc = "versioned"
  /\ Becomes(h, IF setup = Nil
                THEN [put[h] EXCEPT !.pc = "writing", !.copy = Null]
                ELSE [put[h] EXCEPT !.pc = "encoding", !.target = setup, !.left = Fields])
  /\ UNCHANGED <<file, up, setup, struct, saved, touched, cut, nullMet>>

\* Mutant of CannotEncode: no number is nil.
NeverPanics(v) == FALSE

\* BigIntToJSON of nil
CannotEncode(v) == v = Broken

\* json.Marshal, field by field in the order of the struct.
EncodeField(h, f) ==
  /\ put[h].pc = "encoding"
  /\ f \in put[h].left /\ \A g \in put[h].left : f <= g
  /\ \E v \in IF Racing(h, f) THEN Held ELSE {struct[put[h].target][f]} :
       IF CannotEncode(v)
       THEN Done(h) /\ cut' = TRUE
       ELSE /\ Becomes(h, [put[h] EXCEPT !.copy = [@ EXCEPT ![f] = v], !.left = @ \ {f},
                                        !.pc = IF put[h].left = {f} THEN "writing" ELSE @])
            /\ UNCHANGED cut
  /\ UNCHANGED <<file, up, setup, struct, saved, touched, nullMet>>

\* One Write of all there is, at the start of the file, whoever wrote or truncated
\* it meanwhile; the rest of a longer one behind it is not read.
Write(h) ==
  /\ put[h].pc = "writing"
  /\ \/ /\ file' = put[h].copy
        /\ saved' = put[h].owed
        /\ touched' = (put[h].owed = None)
        /\ cut' = FALSE
        /\ nullMet' = (nullMet /\ ~(Alone(h) /\ put[h].copy # Null))
     \/ cut' = TRUE /\ UNCHANGED <<file, saved, touched, nullMet>>
  /\ Done(h)
  /\ UNCHANGED <<up, setup, struct>>

Next ==
  \/ \E s \in Structs : Start(s)
  \/ Kill
  \/ \E h \in Handlers :
       \/ \E b \in Bodies : Put(h, b)
       \/ PutNull(h) \/ Allocate(h) \/ Follow(h)
       \/ \E f \in Fields : DecodeField(h, f) \/ EncodeField(h, f)
       \/ EndDecode(h) \/ Truncate(h) \/ SetVersion(h) \/ Encode(h) \/ Write(h)

Spec == Init /\ [][Next]_vars

-----------------------------------------------------------------------------
Puts ==
  [pc : {"idle", "allocating", "following", "decoding", "parsed",
         "truncated", "versioned", "encoding", "writing"},
   body : Bodies \cup {Null}, target : Structs \cup {Nil}, left : SUBSET Fields,
   copy : Contents \cup {Null}, owed : [Fields -> Held \cup Parts] \cup {None}]

TypeOK ==
  /\ file \in Contents \cup {Missing, Empty, Null}
  /\ up \in BOOLEAN
  /\ setup \in Structs \cup {Nil}
  /\ struct \in [Structs -> Setups]
  /\ put \in [Handlers -> Puts]
  /\ saved \in Contents \cup {None}
  /\ touched \in BOOLEAN
  /\ cut \in BOOLEAN
  /\ nullMet \in BOOLEAN

\* What GET answers; a panic if it cannot be encoded.
Served ==
  IF setup = Nil \/ \E f \in Fields : struct[setup][f] = Broken THEN None ELSE struct[setup]

\* A client that was told "Saved Configuration file" and whose request overlapped
\* with no other finds what it asked for in the file, together with what was there
\* before, until another save begins: whatever requests were refused before or are
\* refused afterwards, and however often the server is killed. The server answers
\* with it until a request changes the setup, and again after each restart.
SavedConfigStays ==
  saved # None =>
    /\ file = saved
    /\ up /\ ~touched => Served = saved

\* Saves that overlap truncate and write the file in any order: once no request is
\* under way it is a whole setup, unless the last save to end did not get to its
\* write, because the process was killed, it panicked or the write failed. A file
\* that says null instead comes of a PUT of null that met another request: by
\* itself no request leaves one.
QuietFileIsWhole ==
  (\A h \in Handlers : put[h] = Idle) /\ ~cut =>
    file # Empty /\ (file = Null => nullMet)

\* The inductive invariant behind both: how far a request that is owed something has
\* come, that nothing else is under way, that while something is saved nobody is
\* saving, and where null may be on its way to the file.
HandlerInv(h) ==
  /\ put[h].pc \in {"allocating", "following", "decoding"} => put[h].body \in Bodies
  /\ put[h].pc \in {"decoding", "encoding"} => put[h].target \in Structs
  /\ put[h].pc # "writing" => put[h].copy \in Contents
  /\ ~up => put[h] = Idle
OwedInv(h) ==
  LET r == put[h]
  IN  r.owed # None =>
        /\ Alone(h) /\ r.pc # "idle" /\ r.copy \in Contents
        /\ IF r.pc = "allocating"
           THEN setup = Nil /\ r.owed = Merge(r.body, Blank)
           ELSE setup \in Structs
        /\ r.pc = "following" => r.owed = Merge(r.body, struct[setup])
        /\ r.pc \in {"decoding", "encoding", "writing"} => r.target = setup
        /\ r.pc = "decoding" =>
             \A f \in Fields :
               IF f \in r.left THEN r.body[f] = r.owed[f]
               ELSE r.body[f] = Mistyped \/ struct[setup][f] \in {r.owed[f], Broken}
        /\ r.pc \notin {"allocating", "following", "decoding"} =>
             \A f \in Fields : struct[setup][f] \in {r.owed[f], Broken}
        /\ r.pc \in {"encoding", "writing"} =>
             \A f \in Fields \ r.left : r.copy[f] = r.owed[f] /\ struct[setup][f] = r.owed[f]
WritingInv(h) == put[h].pc = "writing" /\ put[h].copy # Null => put[h].left = {}
NullInv(h) ==
  (put[h].pc = "versioned" /\ setup = Nil) \/ put[h].copy = Null => nullMet
SavedInv ==
  saved # None =>
    /\ file = saved
    /\ \A h \in Handlers : ~Saving(h)
    /\ up /\ ~touched => /\ setup \in Structs /\ struct[setup] = saved
                         /\ \A h \in Handlers : put[h] = Idle
FileInv ==
  /\ file = Empty => cut \/ \E h \in Handlers : Saving(h)
  /\ file = Null => nullMet
IInv ==
  /\ TypeOK
  /\ \A h \in Handlers : HandlerInv(h) /\ OwedInv(h) /\ WritingInv(h) /\ NullInv(h)
  /\ SavedInv
  /\ FileInv

=============================================================================
