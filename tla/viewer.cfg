SPECIFICATION Spec
CONSTANTS
  Cycle <- MCCycle
  TcpRoom <- MCTcpRoom
  Segments <- MCSegments
INVARIANTS
  ImageReady
  PictureMatchesData
PROPERTIES
  NoGaps
  LiveView
  ExitPropagates
