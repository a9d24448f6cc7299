SPECIFICATION GroupSpec
CONSTANTS
  c1 = c1  parent = parent  child = child  tmp = tmp
  Content = {c1}
  DaysChoices = {0, 30, 49711}
  Ticks <- DayAndUnit
  MaxTime <- MoreThanDay
  MaxCollections = 3
  Directory = {parent, child}
  Pattern = {tmp}
  os_issubdirof <- Nested
  DefaultPatterns = {tmp}
  Entries <- FewEntries
PROPERTY KeptAsLongAsSet
CHECK_DEADLOCK FALSE
