CONSTANTS
  EventMax = 2
  SensorMax = 2
  CfgMax = 2
  DiagMax = 3
  DiagBudget = 4
  RingSize = 2
  LabelMax = 4
  OomMay = FALSE
  Tlvs <- WireTlvs
  MaxAllocs = 8
  Containers <- TwoOfAKind
  MayAbort = FALSE
  MaxWalks = 1
  Slots = 8
  SensitiveMin = 65280
  EmitInputs = {}
  DiffInputs = {}
  Matches <- Accepts
SPECIFICATION CmdSpec
INVARIANT RetainedRecordsLive
CHECK_DEADLOCK FALSE
