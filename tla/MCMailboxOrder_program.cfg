SPECIFICATION OrderFairSpec
CONSTANTS
  Endpoints = {1, 2}
  Frames <- TwoEndpoints
  Blocks = {b1, b2, b3}
  NoBlock = NoBlock
  Junk = Junk
  Window = 3
  MaxFailures = 0
INVARIANTS
  TypeOK
  QueueSendNeverDrops
  OneOwner
  NoLeak
  FaultHasACause
  AnswerIsTrue
  NoFrameForgotten
PROPERTIES
  CommandsAreAnswered
  ImplementsDelivery
