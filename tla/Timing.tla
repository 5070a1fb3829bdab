------------------------------- MODULE Timing -------------------------------
(***************************************************************************)
(* The four timed phases of an election: what the genesis block must say   *)
(* of them (astris/validator.go, checkPhase) and how a block's timestamp    *)
(* picks the phase it is validated in (astris/state.go, GetPhaseForTime).  *)
(* Times are whole seconds, as in BlockHeader.EpochSeconds.                *)
(***************************************************************************)
EXTENDS Naturals

ParameterConfirmation == 1
VoterRegistration     == 2
VoteCasting           == 3
TallyDecryption       == 4

Phases  == 1 .. 4
NoPhase == 0          \* the code's -1: a time in no phase at all

\* TimingInfo, with each TimeSpec already an instant.
Timings == [opens : [Phases -> Nat], closes : [Phases -> Nat]]

\* Mutant of CheckPhase: a phase may begin before the one before it ends.
CheckPhaseAlone(timing, p, minTime) == timing.opens[p] <= timing.closes[p]

\* checkPhase: the phase begins no earlier than `minTime` and does not end
\* before it begins. Its result, the next minimum, is the closing time.
CheckPhase(timing, p, minTime) ==
  /\ minTime <= timing.opens[p]
  /\ timing.opens[p] <= timing.closes[p]

\* The four calls of checkPhase in validateSetupDataPayload, each given the
\* closing time the one before it returned.
PhasesInOrder(timing, minTime) ==
  /\ CheckPhase(timing, 1, minTime)
  /\ \A p \in 2 .. 4 : CheckPhase(timing, p, timing.closes[p - 1])

\* t.After(start) && t.Before(end): both ends are excluded.
Within(timing, p, t) == timing.opens[p] < t /\ t < timing.closes[p]

\* The first phase of the table the time lies within.
GetPhaseForTime(timing, t) ==
  IF \E p \in Phases : Within(timing, p, t)
  THEN CHOOSE p \in Phases :
         Within(timing, p, t) /\ \A q \in 1 .. (p - 1) : ~Within(timing, q, t)
  ELSE NoPhase

=============================================================================
