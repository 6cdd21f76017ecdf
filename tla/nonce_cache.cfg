SPECIFICATION NonceSpec
CONSTANTS
  Nonces = {n1, n2, n3, n4}
  NonceTtl = 3
  NonceMax = 3
  MaxTime = 7
SYMMETRY Interchangeable
INVARIANTS
  CacheBounded
PROPERTY ForgottenForAReason
CHECK_DEADLOCK FALSE
