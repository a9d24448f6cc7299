SPECIFICATION FairSpec
CONSTANTS
  p1 = p1  p2 = p2  d1 = d1  d2 = d2
  Path = {p1, p2}
  Data = {d1, d2}
  Size <- OneLength
  Sound <- SameSound
  Audio = {p1}
  GroupChoices <- TagGroup
  ManualList = {}
  MandatoryLock = TRUE
  CompactModes = {TRUE, FALSE}
  Events = {"edit_busy"}
  MaxCollections = 2
  MaxEdits = 2
  MaxArchives = 1
INVARIANTS CoreInv NoMissedChange ContentsMatchHash
PROPERTY OperationEnds
CHECK_DEADLOCK FALSE
