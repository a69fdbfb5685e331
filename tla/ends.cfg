\* Nothing that was launched hangs, whatever is killed or fails beside it.
SPECIFICATION EndsSpec
CONSTANTS
  Runs = {1, 2, 3}
  Shards = 2
  Gpus = 2
  Configured = 1
  Attempts <- OneOrTwo
  Faults = TRUE
  MaxCount = 2
  Absent = Absent
  Truncated = Truncated
  NoPass = NoPass
  w1 = w1
  w2 = w2
  h1 = h1
  h2 = h2
  c1 = c1
  c2 = c2
  v1 = v1
  v2 = v2
INVARIANTS
  GpuBudgetProbed
PROPERTIES
  StagesOnce
  LaunchesEnd
  RunCompletes
  RerunCompletes
\* Every invocation ends, and no more are made.
CHECK_DEADLOCK FALSE
