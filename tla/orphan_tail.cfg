SPECIFICATION Spec
CONSTANTS
  None = None
  Panic = Panic
  NotInRam = NotInRam
  PageSize = 2
  Layouts <- MCLayouts
  CompoundSizes = {2, 4}
  MaxEvents = 1
INVARIANT NoOrphanTail
CHECK_DEADLOCK FALSE
