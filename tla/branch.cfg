\* Student and Bridge in one process; the other scenarios are in MCBranchOracle.
SPECIFICATION BranchSpec
CONSTANTS
    Names <- MCNames
    Arms <- MCArms
    Starts = {p1, p2}
    Targets <- MCTargets
    Results = {r1, r2}
    NoTrace = NoTrace
    Clone = "loop"
    AB = TRUE
    Repeats = 2
    ChunkSteps = 2
    Poses = {p1, p2}
    Accelerations = {"q1"}
    Generated = {"s1", "s2"}
    Hashes = {"h1"}
    ExactRestore = TRUE
    StaleChildren = FALSE
    NoRecord = NoRecord
    NoArtifact = NoArtifact
SYMMETRY MCSymmetry
INVARIANTS
    BranchesSound
    ForksSound
PROPERTIES
    ReplayExact
    RecordsKept
\* A run ends with a verdict or an exception.
CHECK_DEADLOCK FALSE
