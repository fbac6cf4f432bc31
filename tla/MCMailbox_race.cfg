SPECIFICATION Spec
CONSTANTS
  Endpoints = {1}
  Frames <- GpioFrames
  Blocks = {b1, b2, b3}
  NoBlock = NoBlock
  Junk = Junk
  Window = 2
  MaxFailures = 0
INVARIANTS
  NotRecievedMeansNotHandled
