SPECIFICATION Spec
CONSTANTS
  None = None
  Panic = Panic
  NotInRam = NotInRam
  PageSize = 2
  Layouts <- MCLayouts
  CompoundSizes = {2, 4}
  MaxEvents = 3
INVARIANTS EveryFrameDrawn PanelMatchesPicture CountersExact OnlyTornReadsPanic
CHECK_DEADLOCK FALSE
