SPECIFICATION Spec
CONSTANTS
  Procs = {p1, p2}
  Groups = {g1, g2, g3}
  MaxVersion = 3
  CreatesOverlap = FALSE
SYMMETRY Symmetry
INVARIANTS TypeOK Dense ReorderNeverCollides
PROPERTIES StaleLoses ArchiveKeepsOrder
CHECK_DEADLOCK FALSE
