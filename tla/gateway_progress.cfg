SPECIFICATION FairSpec
CONSTANTS
  i1 = i1
  i2 = i2
  None = None
  Slots = {s1, s2}
  Intents = {i1}
  Transcripts <- TwinTranscripts
  Keys = {k1}
  Rests = {x1}
  Posts <- RestPosts
  Policy <- AllAllowed
  NonceTtl = 1
  NonceMax = 1
  MayFail = FALSE
  MayRestart = FALSE
  MayDefer = FALSE
  MaxTime = 1
  MaxClock = 2
  MaxAuth = 2
  MaxReceipts = 2
PROPERTIES
  SerialFulfilsOnce
  OnePaymentPerKey
  AnswersAgree
  ConsentCounts
  PaymentCounts
