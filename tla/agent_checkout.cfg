SPECIFICATION FairAgentSpec
CONSTANTS
  a1 = a1
  a2 = a2
  None = None
  Slots = {a1, a2}
  Intents = {a1, a2}
  Transcripts <- Signed
  Keys = {}
  Rests = {}
  Posts = {}
  Price <- Prices
  Policy <- Decisions
  NonceTtl = 2
  NonceMax = 1
  MayFail = TRUE
  MayRestart = TRUE
  MayDefer = TRUE
  MaxTime = 2
  MaxClock = 3
  MaxAuth = 3
  MaxReceipts = 2
INVARIANTS
  AgentTypeOK
  ToldIsHonoured
  EndMeansDone
  ChargedOnce
  ChargedAsApproved
PROPERTIES
  EveryCheckoutEnds
  LifecycleImplemented
