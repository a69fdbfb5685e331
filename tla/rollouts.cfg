\* Two treatments of one client; the other scenarios are in MCRollouts.
SPECIFICATION RolloutsSpec
CONSTANTS
    MinFrame = 4
    Window = 2
    Cooldown = 4
    Epsilon = 0
    NoFrame = NoFrame
    NoScalar = NoScalar
    NoClient = NoClient
    NoContext = NoContext
    NoLabel = NoLabel
    NoEvent = NoEvent
    NoFile = NoFile
    Arms <- TwoArms
    Chunks = 4
    PlanFrames = 2
    KeyFrames = 2
    Quarter = 2
    MaxControls = 25
    StopOnSuccess = FALSE
    Shared = FALSE
    Progress = FALSE
    TraceFrames = 2
    StepLimit = 7
    MaxEvents = 2
    Ordinals = {0}
    Scalars = {0}
    TraceFailures = {0, 1}
    TraceQuiets = {FALSE, TRUE}
    Clients = {a}
    OtherClient = b
    Frames <- TwoFrames
    Dynamic = FALSE
    StepLimits = {2, 4}
    Failures = {0}
    Quiets = {FALSE}
    MaxAttempts = 3
    Kills = TRUE
INVARIANTS
    TreatmentsSound
    ScenariosSound
    EventsJust
    ArmsComparable
PROPERTIES
    SuccessKept
\* Episodes end.
CHECK_DEADLOCK FALSE
