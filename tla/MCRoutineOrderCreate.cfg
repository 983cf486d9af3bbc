SPECIFICATION Spec
CONSTANTS
  Procs = {p1, p2}
  Groups = {g1, g2, g3}
  MaxVersion = 3
  CreatesOverlap = TRUE
SYMMETRY Symmetry
INVARIANT Dense
CHECK_DEADLOCK FALSE
