\* Two invocations at the same time launch the same stage.
SPECIFICATION Spec
CONSTANTS
    Controllers = {c1, c2}
    Shards = 2
    OptionalEnabled = FALSE
    Overlap = TRUE
INVARIANTS
    LaunchedOnce
\* Every invocation ends, and no more are made.
CHECK_DEADLOCK FALSE
