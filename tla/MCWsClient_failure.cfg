SPECIFICATION Spec
CHECK_DEADLOCK FALSE
CONSTANTS
  Senders = {gpio}
  WsTask = ws
  NoTask = NoTask
  Lens = {3}
  BufferSize = 2
  MaxSends <- SendsOfEach
INVARIANTS
  ResultCountsTheData
