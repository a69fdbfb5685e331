\* Three invocations one after the other, killed anywhere, with orphaned children.
SPECIFICATION PipelinesSpec
CONSTANTS
  Controllers = {c1, c2, c3}
  Shards = 2
  OptionalEnabled = TRUE
  Overlap = FALSE
  Absent = Absent
SYMMETRY Invocations
INVARIANTS
  LaunchedOnce
  StagesInOrder
  StateIsTrue
  GpuBudgetProbed
PROPERTIES
  ImplementsLedger
\* Every invocation ends, and no more are made.
CHECK_DEADLOCK FALSE
