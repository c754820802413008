CONSTANTS
  p1 = p1
  p2 = p2
  Procs = {p1, p2}
  InitProc = p1
  NPAGES = 18
  FAN = 4
  PGSIZE = 2
  USERSTACK = 1
  WORD = 3
  Grows <- MCGrows
  Programs <- MCPrograms
SPECIFICATION Spec
INVARIANTS PagesConserved MapsExactly UserCopies
VIEW PageNumbersAside
