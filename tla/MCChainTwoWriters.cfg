CONSTANTS
  setup = setup
  reg1 = reg1
  reg2 = reg2
  vote1 = vote1
  refused = refused
  p1 = p1
  p2 = p2
  Procs = {p1, p2}
  Payloads = {setup, reg1, reg2, vote1}
  GenesisPayload = setup
  States <- MCStates
  Blank <- MCBlank
  Apply <- MCApply
  Refused <- MCRefused
  Ids = {1, 2, 3, 4, 5}
  ChainId = 1
  Times = {1}
  StorageMayFail = FALSE
  CallerRetries = FALSE
  OneAtATime = FALSE

SPECIFICATION Spec

INVARIANTS
  RowsFormATree
  BlocksAreFoundByDepth
  OpenNeverFails
PROPERTY
  OpenTerminates
