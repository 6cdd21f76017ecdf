SPECIFICATION Spec
CONSTANTS
  i1 = i1
  i2 = i2
  None = None
  Slots = {s1, s2}
  Intents = {i1, i2}
  Transcripts <- MixedTranscripts
  Keys = {}
  Rests = {}
  Posts = {}
  Policy <- SecondDenied
  NonceTtl = 2
  NonceMax = 2
  MayFail = TRUE
  MayRestart = FALSE
  MayDefer = FALSE
  MaxTime = 2
  MaxClock = 2
  MaxAuth = 2
  MaxReceipts = 2
SYMMETRY SlotsAlike
INVARIANTS
  TypeOK
  OneConsentPerIntent
  ReceiptShowsPayment
PROPERTIES
  LedgerImplemented
  LifecycleImplemented
