SPECIFICATION DeviceSpec
CONSTANTS
  Endpoints = {1}
  GPIO = 1
  Frames <- Sent
  Pins = {4, 18, 34}
  OutputPins = {4, 18}
  LED = 18
  GpioNumber <- Number
  Blocks = {b1, b2}
  NoBlock = NoBlock
  Junk = Junk
  Window = 1
  MaxFailures = 1
INVARIANTS
  
  NeverRaced
PROPERTIES
  ImplementsCommands
  LedLives
