\* Five processes compete for the lock; kill() wakes sleepers.
CONSTANTS
  Procs = {p1, p2, p3, p4, p5}
  None = None
SYMMETRY Symmetry
SPECIFICATION Spec
INVARIANTS Mutex NoMissedWakeup
