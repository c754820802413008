\* Three processes, descriptors for two requests and part of a third, as the
\* kernel has with eight; the counters wrap at fourteen.
CONSTANTS
  Procs = {p1, p2, p3}
  Vals = {0, 1}
  None = None
  NUM = 7
  IDX = 14
SYMMETRY Symmetry
SPECIFICATION Spec
INVARIANTS Transfers SleepsForACause
