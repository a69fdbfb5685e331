\* Two epochs on two screened units; the other scenarios are in MCScreenSelection.
SPECIFICATION SelectionSpec
CONSTANTS
  Epochs = 2
  Banks <- One
  Seeds <- TwoScreened
  Gpus = 2
  Allowed = {"screen_epoch", "screen", "heldout"}
  Outcomes <- FailOrPass
  Losses = {1}
  NaN = NaN
  Absent = Absent
  v1 = v1
  v2 = v2
  Truncated = Truncated
  Blocked = Blocked
INVARIANTS
  RuleFollowed
  CountsHonest
  ProgressMeasured
PROPERTIES
  SelectionKept
\* Everything may have been committed; a unit ends with its pair, or with an exception.
CHECK_DEADLOCK FALSE
