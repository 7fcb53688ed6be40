CONSTANTS
  EventMax = 2
  SensorMax = 2
  CfgMax = 2
  DiagMax = 3
  DiagBudget = 4
  RingSize = 2
  LabelMax = 4
  OomMay = TRUE
  Tlvs <- WireTlvs
  MaxAllocs = 8
  Containers <- MixedContainers
  MayAbort = TRUE
  MaxWalks = 2
  Slots = 8
  SensitiveMin = 65280
  EmitInputs <- EmitCases
  DiffInputs <- DiffCases
  Matches <- Accepts
SPECIFICATION CmdSpec
INVARIANTS WalksAccountForAll DeliveredInWireOrder
  PrintedIsRedactedSelection EmitIsStrict DiffExactWithinPools
PROPERTIES FreedOnlyByOwnKind WalkReturns
CHECK_DEADLOCK FALSE
