SPECIFICATION Spec
CONSTANTS
  a = a
  b = b
  me = me
  smon = smon
  p1 = p1
  Segs = {a, b}
  Private = {b}
  Size <- MCSize
  Procs = {me, smon, p1}
  Self = me
  Instances = {smon}
  NoSeg = NoSeg
  MaxEvents = 2
  Starts <- MCStarts
  Accepted <- MCAccepted
  Rooms = {0, 1, 2}
INVARIANTS
  RssInSync
  OnlyDeparturesPanic
  ReferencesExact
  LeaksUncounted
  VanishedExact
  TotalsBounded
