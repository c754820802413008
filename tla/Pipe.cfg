\* Two writers and two readers, anybody killed; counters of two bits wrap often.
CONSTANTS
  Writers = {w1, w2}
  Readers = {r1, r2}
  Killable = {w1, w2, r1, r2}
  Bytes = {0, 1}
  None = None
  PIPESIZE = 2
  UINT = 4
  MaxN = 2
SYMMETRY Symmetry
VIEW WhatCounts
SPECIFICATION Spec
INVARIANTS NoUseAfterFree SleepsForACause
PROPERTY IsFifo
CHECK_DEADLOCK FALSE
