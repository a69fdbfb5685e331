\* A worker handle, with failures anywhere; the other scenarios are in MCProcesses.
SPECIFICATION ProcessesSpec
CONSTANTS
  Actions = {a}
  MaxCalls = 4
  PipeSize = 1
  CommandRoom = 4
  Failures = TRUE
  None = None
  Absent = Absent
  Torn = Torn
  NoFrame = NoFrame
  NoScalar = NoScalar
  NoClient = NoClient
  NoContext = NoContext
  NoLabel = NoLabel
  NoEvent = NoEvent
  NoFile = NoFile
INVARIANTS
  WorkersFaithful
PROPERTIES
  HandlesEnd
  ProgramsEnd
\* Runs and episodes end.
CHECK_DEADLOCK FALSE
