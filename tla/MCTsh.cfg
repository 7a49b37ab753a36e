\* Two children over a table of two, without symmetry: waitfg is live.
CONSTANTS
  p1 = p1
  p2 = p2
  NoPid = NoPid
  Pids <- TwoPids
  MaxJobs = 2
  Keyboard = {"int"}
SPECIFICATION FairSpec
CHECK_DEADLOCK FALSE
INVARIANTS
  OneForeground
  TableIsChildren
  ReportedStops
  IInv
PROPERTIES
  WaitfgReturns
