\* Two threads on two CPUs.
CONSTANTS
  CPUs = {c1, c2}
  Threads = {t1, t2}
  L = L
  None = None
SYMMETRY Symmetry
SPECIFICATION TrapSpec
INVARIANTS OffWhileHeld NeverAstray InterruptsAsEntered
