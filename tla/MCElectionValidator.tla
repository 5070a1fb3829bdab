------------------------- MODULE MCElectionValidator -------------------------
(***************************************************************************)
(* The validator on a small election: three trustees of whom two decrypt,   *)
(* two voters, two candidates.                                              *)
(***************************************************************************)
EXTENDS ElectionValidator, TLC

CONSTANTS v1, v2, k1, k2, forFirst, forSecond, heavy, short, long, nulled

\* The second ciphertext of `heavy` has no good proof, nor has the third of
\* `long`; the first two of that exceed the one choice the setups allow.
Lists ==
  (forFirst :> <<1, 0>>) @@ (forSecond :> <<0, 1>>) @@ (heavy :> <<0, 9>>)
    @@ (short :> <<1>>) @@ (long :> <<1, 1, 9>>) @@ (nulled :> <<0, 0>>)
MCPlain == [b \in Ballots |-> Lists[b]]

\* Phases that touch: each opens in the second the one before it closes.
Adjoining == [opens |-> <<0, 2, 4, 6>>, closes |-> <<2, 4, 6, 8>>]

\* The tally would open before the casting closes.
Overlapping == [opens |-> <<0, 2, 4, 4>>, closes |-> <<2, 4, 6, 8>>]

TwoOfThree == [trustees |-> 3, required |-> 2, maxChoices |-> 1, timing |-> Adjoining,
               params |-> "valid", parties |-> "valid", exponents |-> "enough"]

MCSetups == {TwoOfThree,
             [TwoOfThree EXCEPT !.timing = Overlapping],
             [TwoOfThree EXCEPT !.parties = "missing"],
             [TwoOfThree EXCEPT !.exponents = "none"],
             [TwoOfThree EXCEPT !.exponents = "undecodable"],
             [TwoOfThree EXCEPT !.required = 4]}

\* The three lists honest trustees send, and lists that repeat, miss or exceed
\* the recipients.
MCRecipientLists == {<<2, 3>>, <<1, 3>>, <<2, 1>>, <<2>>, <<3, 3>>}

Symmetric == Permutations({k1, k2}) \cup Permutations({v1, v2})

\* How the last call ended matters to the next one only if it was a panic.
WithoutVerdict == <<setupVars, voterVars, tallyVars, Running, malformed, clock>>

\* The payload a block of this time should have. Of any other kind it is turned
\* down by the first check of its handler, as the unreadable one is, so that it
\* need not be offered in all its forms.
Due(time) ==
  IF setup = NoSetup THEN "ElectionSetup"
  ELSE CASE GetPhaseForTime(setup.timing, time) = ParameterConfirmation ->
              IF HasAllTrusteeShares THEN "TrusteePublic" ELSE "TrusteeShares"
         [] GetPhaseForTime(setup.timing, time) = VoterRegistration -> "VoterReg"
         [] GetPhaseForTime(setup.timing, time) = VoteCasting       -> "Ballot"
         [] GetPhaseForTime(setup.timing, time) = TallyDecryption   -> "PartialTally"
         [] OTHER                                                   -> "Unreadable"

\* A signature that is not valid ends the checks of a tally, whatever comes after.
SignatureDecides(blk) ==
  blk.hint = "PartialTally" /\ blk.signed # "valid" => blk.decryption \in {"valid", "undecodable"}

BlocksOf ==
  [time \in Times |->
     [hint \in {"ElectionSetup", "TrusteeShares", "TrusteePublic", "VoterReg", "Ballot",
                "PartialTally", "Unreadable"} |->
        {blk \in Blocks : blk.time = time /\ blk.hint = hint /\ SignatureDecides(blk)}]]

MCNext ==
  \/ \E time \in Times : \E blk \in BlocksOf[time][Due(time)] : Offer(blk)
  \/ \E blk \in UnreadableBlocks : Offer(blk)
  \/ GetLocalTally
  \/ GetResult

MCSpec == Init /\ [][MCNext]_vars
=============================================================================
