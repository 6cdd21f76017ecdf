SPECIFICATION Spec
CONSTANTS
  i1 = i1
  i2 = i2
  None = None
  Slots = {s1, s2}
  Intents = {i1}
  Transcripts <- OneTranscript
  Keys = {k1}
  Rests = {}
  Posts <- TextPosts
  Policy <- AllAllowed
  NonceTtl = 2
  NonceMax = 1
  MayFail = FALSE
  MayRestart = FALSE
  MayDefer = FALSE
  MaxTime = 0
  MaxClock = 2
  MaxAuth = 2
  MaxReceipts = 1
SYMMETRY SlotsAlike
INVARIANT RetriesNeverTripReplay
