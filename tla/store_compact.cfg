SPECIFICATION Spec
CONSTANTS
  p1 = p1  p2 = p2  d1 = d1  d2 = d2
  Path = {p1, p2}
  Data = {d1, d2}
  Size <- OneLength
  Sound <- NoSound
  Audio = {}
  GroupChoices <- WholeGroup
  ManualList = {}
  MandatoryLock = TRUE
  CompactModes = {TRUE}
  Events = {"abort", "move", "stuck_tar", "torn_copy"}
  MaxCollections = 3
  MaxEdits = 2
  MaxArchives = 1
SYMMETRY SwapData
INVARIANTS TypeOK IInv RowsBacked LatestRestorable PastRestorable VerifyExplained
PROPERTY KeepsSnapshots
CHECK_DEADLOCK FALSE
