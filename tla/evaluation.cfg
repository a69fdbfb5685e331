\* One unit, two epochs, a checkpoint replaced once; the other scenarios are in MCEvaluation.
SPECIFICATION EvaluationSpec
CONSTANTS
    Evaluators = {v1, v2}
    Third = v3
    Reliable = {}
    Units = 1
    Epochs = 2
    Gpus = 1
    Modes = {"screen", "heldout"}
    MaxEdits = 1
    Overlap = FALSE
    Orphans = FALSE
    Absent = Absent
    Truncated = Truncated
    Blocked = Blocked
SYMMETRY EvaluatorSymmetry
INVARIANTS
    EvidenceSound
    PairsWhole
PROPERTIES
    HeldoutIsOfSelected
\* Every invocation ends, and no more are made.
CHECK_DEADLOCK FALSE
