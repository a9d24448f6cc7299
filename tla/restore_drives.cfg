SPECIFICATION Spec
CONSTANTS
  p1 = p1  p2 = p2  d1 = d1  d2 = d2  a1 = a1  a2 = a2  torn = torn
  Path = {p1, p2}
  Target <- SameTarget
  Id = {1, 2}
  Audio = {p1}
  Data = {d1, d2}
  Torn = torn
  Size <- Lengths
  Sound <- SameSound
  Compressed = {1}
  ArchiveOf <- Archives
  Events = {}
  LastCollection = 2
  Indexes <- TwoBackups
  Scopes <- AllOrOne
INVARIANT RestoredOrReported
CHECK_DEADLOCK FALSE
