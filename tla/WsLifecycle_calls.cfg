SPECIFICATION FairSpec
CHECK_DEADLOCK FALSE
CONSTANTS
  TaskIds = {t1, t2, t3}
INVARIANTS
  TypeOK
  OneTask
  LoopHasState
PROPERTIES
  StopIsAnswered
  ImplementsCalls
