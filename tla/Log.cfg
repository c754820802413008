\* Two processes compete for room in the log, each one block below its reservation,
\* over three blocks of two values: every interleaving, every crash.
CONSTANTS
  Procs = {p1, p2}
  Blocks = {b1, b2, b3}
  Vals = {0, 1}
  Zero = 0
  NoBuf = NoBuf
  MAXOPBLOCKS = 2
  LOGSIZE = 4
  NLOG = 4
  OPBLOCKS = 1
SPECIFICATION FairSpec
INVARIANTS NoPanic NoLostWakeup PinnedWhileLogged
PROPERTIES CrashAtomic WaitersWake
