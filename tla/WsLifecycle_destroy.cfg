SPECIFICATION Spec
CHECK_DEADLOCK FALSE
CONSTANTS
  TaskIds = {t1, t2}
INVARIANTS
  DestroyEndsTask
