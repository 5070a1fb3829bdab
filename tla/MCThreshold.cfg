CONSTANTS
  alice = alice
  bob = bob
  P = 29
  Q = 7
  G = 7
  L = 3
  T = 1
  Candidates = {alice, bob}
  MaxChoices = 2
  MaxBallots = 2
  Drawn = {0, 3}
  OrDraws <- MCOrDraws
  Nothing = Nothing
  NoLog = NoLog
  Panicked = Panicked

SPECIFICATION Spec
CHECK_DEADLOCK FALSE

INVARIANTS
  TypeOK
  SharesAreConsistent
  HonestBlocksAreAccepted
  QuorumsShareOneSecret
  AnyQuorumDecrypts
  CountsAreVotes
