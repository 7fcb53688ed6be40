CONSTANTS
  IntMax = 127
  MaxDepth = 11
  Bytes <- AllBytes
  Letters <- AllLetters
  Feeds <- AllFeeds
  Records <- AllRecords
SPECIFICATION Spec
INVARIANTS AcceptsExactly MatchesMeaning TokensTileText
CHECK_DEADLOCK FALSE
