\* Two screenings, one after the other, and a checkpoint replaced.
SPECIFICATION Spec
CONSTANTS
    Evaluators = {v1, v2}
    Reliable = {}
    Units = 1
    Epochs = 2
    Gpus = 1
    Modes = {"screen_epoch"}
    MaxEdits = 1
    Overlap = FALSE
    Orphans = FALSE
    Absent = Absent
    Truncated = Truncated
    Blocked = Blocked
INVARIANTS
    PairsRan
\* Every invocation ends, and no more are made.
CHECK_DEADLOCK FALSE
