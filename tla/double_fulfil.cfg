SPECIFICATION Spec
CONSTANTS
  i1 = i1
  i2 = i2
  None = None
  Slots = {s1, s2}
  Intents = {i1}
  Transcripts <- OneTranscript
  Keys = {}
  Rests = {}
  Posts = {}
  Policy <- AllAllowed
  NonceTtl = 2
  NonceMax = 1
  MayFail = FALSE
  MayRestart = FALSE
  MayDefer = FALSE
  MaxTime = 0
  MaxClock = 1
  MaxAuth = 1
  MaxReceipts = 2
SYMMETRY SlotsAlike
INVARIANT FulfilledOnce
