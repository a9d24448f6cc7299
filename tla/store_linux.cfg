SPECIFICATION Spec
CONSTANTS
  p1 = p1  p2 = p2  d1 = d1  d2 = d2
  Path = {p1, p2}
  Data = {d1, d2}
  Size <- OneLength
  Sound <- SameSound
  Audio = {p1}
  GroupChoices <- ChangingGroup
  ManualList = {p1}
  MandatoryLock = FALSE
  CompactModes = {}
  Events = {"edit_busy", "no_access", "unlisted", "relisted"}
  MaxCollections = 2
  MaxEdits = 2
  MaxArchives = 2
SYMMETRY SwapData
INVARIANTS NoMissedChange SnapshotComplete DedupUnique
CHECK_DEADLOCK FALSE
