\* Two-round runs repeated while another resumes; the other scenarios are in MCTrainerRuns.
SPECIFICATION TrainerSpec
CONSTANTS
  Runs = {1, 2, 3}
  Configs <- Resumed
  Slots = 1
  Dirs = {"i", "j"}
  MaxPolicy = 5
  Faults = TRUE
  None = None
  Absent = Absent
  Torn = Torn
INVARIANTS
  LineageKept
  ReadsOneRun
  ChainsWhole
  EpochsSerial
\* Runs and epochs end.
CHECK_DEADLOCK FALSE
