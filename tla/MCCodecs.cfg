\* Every codec on short inputs of all bytes and long inputs of two.
SPECIFICATION Spec
CONSTANTS
  Base = 16
  WordBytes = 2
  WordMax = 256
  MaxRun = 3
  Window = 5
  MaxMatch = 6
  LenBase = 4
  GroupTokens = 4
  DictBlock = 4
  DictMax = 2
  GroupBytes = 3
  GroupChars = 4
  CharBase = 8
  Feeds <- AllFeeds
  OutCap = 5
  Under <- AllCodecs
INVARIANTS RoundTrip CutDecodesToPrefix CodecsBounded
CHECK_DEADLOCK FALSE
