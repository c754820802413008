CONSTANTS
  Words = {"gen", "cat", "nop", "none"}
  MAXARGS = 3
  Procs = {1, 2, 3, 4, 5, 6, 7}
  NOFILE = 5
  FileSlots = {1, 2, 3, 4, 5}
  Pipes = {1, 2}
  ITEMS = 2
  PIPESIZE = 1
  Cases <- MCCases
SPECIFICATION Spec
INVARIANTS ParsesTheGrammar FileRefs OnlyStandardFds ForegroundDone LinesEnd
CHECK_DEADLOCK FALSE
