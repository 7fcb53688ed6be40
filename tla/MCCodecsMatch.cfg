\* The documented bound on a match offset.
SPECIFICATION Spec
CONSTANTS
  Base = 16
  WordBytes = 2
  WordMax = 256
  MaxRun = 3
  Window = 5
  MaxMatch = 6
  LenBase = 4
  GroupTokens = 4
  DictBlock = 4
  DictMax = 2
  GroupBytes = 3
  GroupChars = 4
  CharBase = 8
  Feeds <- FewFeeds
  OutCap = 5
  Under <- AllCodecs
INVARIANT MatchInsideOutput
CHECK_DEADLOCK FALSE
