SPECIFICATION StandaloneSpec
CONSTANT
  Cycle <- MCCycle
INVARIANTS
  PictureFollows
PROPERTIES
  CatchesUp
  Refreshing
  WorkerRuns
