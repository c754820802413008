CONSTANTS
  p1 = p1
  p2 = p2
  None = None
  Procs = {p1, p2}
  Names = {"a", "b"}
  NINODES = 3
  Image <- MCImage
  Calls <- MCCalls
  MaxCalls = 5
SPECIFICATION Spec
INVARIANTS Clean RefsAreUses FreedWithLastRef NoPanic NoDeadlock
