\* Every sequence of writer calls up to two sections of eight bytes.
SPECIFICATION WriterSpec
CONSTANTS
  HmacLen = 2
  MaxRaw = 8
  Codecs = {"store", "words", "pack", "dict"}
  Types = {1}
  CodecIds = {"store", "words", "pack", "dict", "bad"}
  Records <- MCRecords
  Counts = {0, 1, 2}
  Keys = {"k1", "k2"}
  MaxSections = 2
  TlvLenMax = 4
  MinTlvCap = 4
  U32Max = 8
  OomMay = {TRUE, FALSE}
  NoSection = NoSection
INVARIANTS SignedVerifies DamageFails FailuresSurface
PROPERTY ImplementsLog
