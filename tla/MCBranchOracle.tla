--------------------------- MODULE MCBranchOracle ---------------------------
(***************************************************************************)
(* Model checking of BranchOracle: actions are told apart, their contents  *)
(* are not.  A behaviour is one of these scenarios:                        *)
(*   bridge  Student and Bridge chunks of two actions, twice each (A/B),   *)
(*           in one process, the module extended here                      *)
(*   again   the Student's chunk of two actions twice (A/A) in one         *)
(*           process, the snapshot restored as the simulator takes it      *)
(*   fork    Student and Bridge twice each as children forked at the frame *)
(*   early   two children forked before the episode, over the files of an  *)
(*           earlier run                                                   *)
(* The last three share a second set of variables.                         *)
(***************************************************************************)
EXTENDS BranchOracle, TLC

VARIABLES part, record, calls, failed, place, chunk, hashes, saved, world, turn, action,
          start, done, files, over, verdict

otherVars == <<record, calls, failed, place, chunk, hashes, saved, world, turn, action,
               start, done, files, over, verdict>>

MCNames == {"student", "bridge"}
MCArms == {"left", "right"}
\* of the two actions a chunk may have in any scenario
MCTargets == {"s1", "s2", "bridge"} \X (1..2)
\* visible states and planner answers are only compared with each other
MCSymmetry == Permutations(Poses) \cup Permutations(Results)

Again == INSTANCE BranchOracle WITH
  AB <- FALSE, Repeats <- 1, Accelerations <- {"q1", "q2"}, ExactRestore <- FALSE,
  trace <- record, made <- calls, raised <- failed, phase <- place, source <- chunk,
  canon <- hashes, snap <- saved, sim <- world, item <- turn, step <- action,
  branch <- start, records <- done, children <- files, ended <- over, oracle <- verdict
Fork == INSTANCE BranchOracle WITH
  Clone <- "fork", ChunkSteps <- 1, Generated <- {"s1"}, StaleChildren <- TRUE,
  trace <- record, made <- calls, raised <- failed, phase <- place, source <- chunk,
  canon <- hashes, snap <- saved, sim <- world, item <- turn, step <- action,
  branch <- start, records <- done, children <- files, ended <- over, oracle <- verdict
Early == INSTANCE BranchOracle WITH
  Clone <- "early", AB <- FALSE, ChunkSteps <- 1, Generated <- {"s1"},
  Hashes <- {"h1", "h2"}, ExactRestore <- FALSE, StaleChildren <- TRUE,
  trace <- record, made <- calls, raised <- failed, phase <- place, source <- chunk,
  canon <- hashes, snap <- saved, sim <- world, item <- turn, step <- action,
  branch <- start, records <- done, children <- files, ended <- over, oracle <- verdict

Idle == record = NoRecord /\ calls = NoRecord /\ failed = NoRecord /\ place = NoRecord
        /\ chunk = NoRecord /\ hashes = NoRecord /\ saved = NoRecord /\ world = NoRecord
        /\ turn = NoRecord /\ action = NoRecord /\ start = NoRecord /\ done = NoRecord
        /\ files = NoRecord /\ over = NoRecord /\ verdict = NoRecord

BranchInit ==
  \/ part = "bridge" /\ Init /\ Idle
  \/ /\ \/ part = "again" /\ Again!Init
        \/ part = "fork" /\ Fork!Init
        \/ part = "early" /\ Early!Init
     \* one initial state of what stays idle
     /\ Init /\ source = NoArtifact /\ snap = CHOOSE s \in Snapshots : ~s.done

BranchNext ==
  /\ UNCHANGED part
  /\ \/ part = "bridge" /\ Next /\ UNCHANGED otherVars
     \/ /\ \/ part = "again" /\ Again!Next
           \/ part = "fork" /\ Fork!Next
           \/ part = "early" /\ Early!Next
        /\ UNCHANGED vars

BranchSpec == BranchInit /\ [][BranchNext]_<<part, vars, otherVars>>

-----------------------------------------------------------------------------
(* The same where the restored physics or the planner may differ, and for  *)
(* children forked at the frame or before the episode: a verdict that      *)
(* holds means one experiment repeated, an end that is judged is the one   *)
(* the branch itself left, and records of an earlier run enter only for a  *)
(* child whose episode ended before the frame.  Whether a Bridge chunk     *)
(* belongs to the Student's action is compared in one process only; a fork *)
(* reports that it does without comparing.                                 *)
ForksSound ==
  /\ part = "again" => Again!BranchesSound
  /\ part = "fork" => Fork!BranchesSound
  /\ part = "early" => Early!BranchesSound
=============================================================================
