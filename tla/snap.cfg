SPECIFICATION Spec
CONSTANTS
  p1 = p1
  p2 = p2
  None = None
  Pids <- MCPids
  Segs <- MCSegs
  Half = 2
  Key <- MCKey
  NFiles = 2
  MaxEvents = 3
  MaxRuns = 2
SYMMETRY MCSymmetry
INVARIANTS
  ArchiveSound
PROPERTY
  NothingLost
