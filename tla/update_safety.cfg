\* Two writers, killed and restarted on two hosts whose pids are used again.
SPECIFICATION Spec
CONSTANTS
    Writers = {w1, w2}
    Hosts = {h1, h2}
    Pids = {p1, p2}
    Contracts = {c1, c2}
    InnerEpochs = 3
    MaxEdits = 1
    Absent = Absent
SYMMETRY WriterSymmetry
INVARIANTS
    CheckpointsExact
    EpochsAreOneHistory
    LockLeftOnlyByDead
    NotWedged
PROPERTIES
    LockHonoured
    LiveTempsKept
    ImplementsCommit
\* Every launch ends, and no more are made.
CHECK_DEADLOCK FALSE
