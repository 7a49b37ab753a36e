\* Two children that may end together.
CONSTANTS
  p1 = p1
  p2 = p2
  NoPid = NoPid
  Pids <- TwoPids
  MaxJobs = 2
  Keyboard = {"int"}
SPECIFICATION Spec
CHECK_DEADLOCK FALSE
INVARIANTS
  ReapsAll
