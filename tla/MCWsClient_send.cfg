SPECIFICATION FairSpec
CHECK_DEADLOCK FALSE
CONSTANTS
  Senders = {gpio}
  WsTask = ws
  NoTask = NoTask
  Lens = {0, 3}
  BufferSize = 2
  MaxSends <- SendsOfEach
INVARIANTS
  TypeOK
  LockIsHeldBySender
  BufferIsMine
  CopyInBounds
  MessagesNotInterleaved
  ResultIsTrue
  BitFollowsState
PROPERTIES
  SendsReturn
