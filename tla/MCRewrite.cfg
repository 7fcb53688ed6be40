\* Every tool on every input, with allocation and I/O failures.
SPECIFICATION RewriteSpec
CONSTANTS
  HmacLen = 2
  MaxRaw = 12
  Codecs = {"store", "words"}
  Types = {1, 2}
  CodecIds = {"store", "words", "bad"}
  Records <- MCRecords
  Counts = {}
  Keys = {"k1", "k2"}
  MaxSections = 2
  TlvLenMax = 4
  MinTlvCap = 8
  U32Max = 20
  OomMay = {TRUE, FALSE}
  NoSection = NoSection
  Tools = {"repack", "sign", "select", "dedup", "sample"}
  Sources <- MCSources
  Contents <- MCContents
  EventMax = 1
  ItemCap = 2
  Samples = {0, 1, 2, 3}
  Filters <- MCFilters
  RepackTo = {"store", "words", "bad"}
INVARIANTS OutputIsSelection FailuresExplained
PROPERTY ToolReturns
