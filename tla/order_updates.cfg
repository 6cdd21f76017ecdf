SPECIFICATION Spec
CONSTANTS
  None = None
  Requests = {r1, r2, r3}
  Intents = {i1}
  Hashes = {h1}
  References = {p1, p2}
  MaxAuth = 3
  MaxStem = 2
  Auths <- AuthNumbers
  Receipts <- StemNumbers
SYMMETRY Interchangeable
INVARIANTS
  UpdatesTypeOK
  ReceiptsComplete
  PairsAgree
PROPERTIES
  CallsTakeEffect
  AtomicImplemented
