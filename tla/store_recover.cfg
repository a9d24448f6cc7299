SPECIFICATION Spec
CONSTANTS
  p1 = p1  p2 = p2  d1 = d1  d2 = d2
  Path = {p1}
  Data = {d1, d2}
  Size <- OneLength
  Sound <- OneSound
  Audio = {p1}
  GroupChoices <- OneTagGroup
  ManualList = {}
  MandatoryLock = TRUE
  CompactModes = {}
  Events = {"lose_index", "abort", "move", "move_busy", "same_second", "bad_ffmpeg"}
  MaxCollections = 3
  MaxEdits = 2
  MaxArchives = 1
INVARIANTS HoardInv LatestRestorable PastRestorable NoMissedChange
PROPERTY CommittedTarsKept
CHECK_DEADLOCK FALSE
