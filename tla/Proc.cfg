\* A shell with two children, or a child with a child; slots reused, allocations fail.
CONSTANTS
  NPROC = 4
  CPUs = {c1, c2}
  None = None
  MaxPid = 4
  KillArgs = {0, 1, 2, 3, 4}
  NoMemory = {0, 1}
SYMMETRY Symmetry
SPECIFICATION Spec
INVARIANTS OneCpu Accounted Collected
CHECK_DEADLOCK FALSE
