\* Two processes and a log of two blocks on three buffers, for four blocks; bget() may panic.
CONSTANTS
  Procs = {p1, p2}
  Blocks = {x1, x2, x3, x4}
  Vals = {0, 1}
  NBUF = 3
  None = None
  MaxPins = 2
SYMMETRY Symmetry
SPECIFICATION Spec
INVARIANTS Coherent ScansSeeAll
