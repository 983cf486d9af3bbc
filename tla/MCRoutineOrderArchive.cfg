SPECIFICATION Spec
CONSTANTS
  Procs = {p1}
  Groups = {g1, g2, g3}
  MaxVersion = 3
  CreatesOverlap = FALSE
SYMMETRY Symmetry
INVARIANT ArchiveNeverCollides
CHECK_DEADLOCK FALSE
