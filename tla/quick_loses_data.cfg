SPECIFICATION Spec
CONSTANTS
  p1 = p1  p2 = p2  d1 = d1  d2 = d2
  Path = {p1}
  Data = {d1, d2}
  Size <- OneLength
  Sound <- NoSound
  Audio = {}
  GroupChoices <- OneFileGroup
  ManualList = {}
  MandatoryLock = TRUE
  CompactModes = {FALSE}
  Events = {}
  MaxCollections = 3
  MaxEdits = 3
  MaxArchives = 1
INVARIANT LatestRestorable
CHECK_DEADLOCK FALSE
