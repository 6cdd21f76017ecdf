SPECIFICATION KeyedSpec
CONSTANTS
  Requests = {r1, r2, r3}
  Keys = {k1, k2}
  Payloads = {p1, p2}
  MaxWork = 3
  Bodies <- WorkNumbers
INVARIANT AnsweredIsRecorded
PROPERTIES
  SerialRecordsTruthful
  ReplaysAgree
CHECK_DEADLOCK FALSE
