SPECIFICATION KeyedSpec
CONSTANTS
  Requests = {r1, r2, r3}
  Keys = {k1}
  Payloads = {p1, p2}
  MaxWork = 3
  Bodies <- WorkNumbers
SYMMETRY Interchangeable
INVARIANT RecordsTruthful
CHECK_DEADLOCK FALSE
