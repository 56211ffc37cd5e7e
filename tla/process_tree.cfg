SPECIFICATION Spec
CONSTANTS
  MaxPid <- MCMaxPid
  MaxEvents <- MCMaxEvents
INVARIANTS
  AncestryReal
  SteadyReported
  DescendantsExact
PROPERTY
  Terminates
