SPECIFICATION FairSpec
CONSTANTS
  Client = {c1, c2, c3}
  Request <- MixedRequests
  Null = null
  MaxCopies = 1
INVARIANTS TypeOK StoredIsOneDocument LoserHasWinner SendHasChannel AnswerIsOwnOrLater
PROPERTY EveryPutFinishes
