CONSTANTS
  v1 = v1
  v2 = v2
  k1 = k1
  k2 = k2
  forFirst = forFirst
  forSecond = forSecond
  heavy = heavy
  short = short
  long = long
  nulled = nulled
  Candidates = {1, 2}
  Voters = {v1, v2}
  Keys = {k1, k2}
  Ballots = {forFirst, heavy, short, long, nulled}
  Plain <- MCPlain
  Nulled = {nulled}
  Order = 11
  Setups <- MCSetups
  Indices = {1, 2, 3, 4}
  RecipientLists <- MCRecipientLists
  Lengths = {0, 1, 2}
  Times = {0, 1, 3, 4, 5, 7}
  LooseMode = FALSE
  ClockMayStepBack = FALSE
  MaxDiscarded = 1
  NoSetup = NoSetup
  NoKey = NoKey
  NoVote = NoVote
  NoTally = NoTally
  NoResult = NoResult

SPECIFICATION MCSpec
SYMMETRY Symmetric
VIEW WithoutVerdict

INVARIANTS
  TypeOK
  EveryShareIsPosted
  LocalTallyIsCurrent
  ResultCountsLastBallots
  OnlyMalformedBlocksPanic
PROPERTY
  ImplementsBallotBox

CHECK_DEADLOCK FALSE
