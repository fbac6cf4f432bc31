SPECIFICATION TimedSpec
CHECK_DEADLOCK FALSE
CONSTANTS
  Senders = {}
  WsTask = ws
  NoTask = NoTask
  Lens = {1}
  BufferSize = 1
  MaxSends = 0
  PollTimeout = 2
  PingTimeout = 6
  ReconnectTimeout = 2
  NetworkTimeout = 3
  DispatchTime = 4
  MaxTime = 24
INVARIANTS
  ReconnectsInTime
  QuietIsBounded
