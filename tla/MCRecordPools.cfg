CONSTANTS
  EventMax = 2
  SensorMax = 2
  CfgMax = 2
  DiagMax = 3
  DiagBudget = 4
  RingSize = 2
  LabelMax = 4
  OomMay = TRUE
  Tlvs <- AllTlvs
  MaxAllocs = 5
SPECIFICATION PoolSpec
INVARIANTS PoolsOwnLive CurrentRecordLive OnlyEventAndDiagLeak DiagAccounting
