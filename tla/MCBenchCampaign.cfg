SPECIFICATION Spec
SYMMETRY MCSymmetry
\* Every campaign may be over.
CHECK_DEADLOCK FALSE
CONSTANTS
  a = a
  b = b
  aws = aws
  unwired = unwired
  Events = 2
  Servers = {a, b}
  Boot = "per_subscribe"
  Profiles = {aws, unwired}
  Wired = {aws}
  Phase1 <- MCPhase1
  Slices = {"pls-hub", "pls-hardware"}
  Singles = {"bm-pls4", "bm-pls9"}
  InProcess <- MCOne
  ByProcess <- MCTwo
  Rates = 2
  Rungs = 1
  Sizes = 2
  Sockets <- MCOneTwo
  Groups <- MCOneTwo
  Many = 2
  MaxStarts = 2
  MaxFaults = 1
INVARIANTS
  KneeIsFounded
  MeasuredInItsMode
  BaselineIsPerSubscribe
  FinishedSliceIsReported
PROPERTY SkippedReportsAreKept
