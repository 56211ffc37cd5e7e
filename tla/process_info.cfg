SPECIFICATION Spec
CONSTANTS
  bin = bin
  heap = heap
  shm = shm
  gate = gate
  f1 = f1
  f2 = f2
  s1 = s1
  Maps = {bin, heap, shm, gate}
  Kind <- MCKind
  NPages = 2
  Frames = {f1, f2}
  Slots = {s1}
  MaxEvents = 2
SYMMETRY MCSymmetry
INVARIANTS
  StablePagesReported
  ErrMeansLeft
  OneImage
