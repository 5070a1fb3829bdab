CONSTANTS
  forFirst = forFirst
  blank = blank
  k1 = k1
  k2 = k2
  k3 = k3
  k4 = k4
  k5 = k5
  NumTrustees = 3
  TrusteesRequired = 2
  NumVoters = 3
  Candidates = {1, 2}
  Ballots = {forFirst, blank}
  Plain <- MCPlain
  Order = 11
  Keys = {k1, k2, k3, k4}
  Now = 1700000000
  ZoneShifts <- London
  Word = 64
  MaxKills = 2
  PartialSetupUsed = FALSE
  NoKey = NoKey
  NoVote = NoVote
  NoDraw = NoDraw
  NoSetup = NoSetup
  NoTally = NoTally
  NoResult = NoResult

SPECIFICATION Spec
SYMMETRY Symmetric

INVARIANT
  EndOfVotingIsNoPanic
