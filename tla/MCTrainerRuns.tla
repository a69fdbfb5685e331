---------------------------- MODULE MCTrainerRuns ----------------------------
(***************************************************************************)
(* Model checking of the trainer's runs and of the epochs of an update.    *)
(* A behaviour is one of these scenarios:                                  *)
(*   resume   two-round runs repeated while others resume from their first *)
(*            checkpoint                                                   *)
(*   chain    collect, branch, collect on the branch's policy, branch again*)
(*   load     collections of two adapters in one directory, killed and     *)
(*            repeated, and read meanwhile                                 *)
(*   rounds   two rounds of two slots, and a run that resumes from them    *)
(*   epochs   two epochs on one process, killed and resumed anywhere       *)
(*   ranks    one epoch on two ranks, batches of one to three              *)
(***************************************************************************)
EXTENDS TrainerRuns

VARIABLES part,
          files, runConf, runPc, runRead, live, runOpt, runStep, runRound, runSlot, data,
          runRows, workers, steps, latest,
          counts, orders, saved, rankPc, epoch, generator, here, index, present, grad,
          weight, rankRows, adapter

Base(mode, dir) ==
  [mode |-> mode, dir |-> dir, rounds |-> 1, initial |-> None, bundle |-> None,
   resume |-> FALSE, seed |-> 0, dual |-> TRUE, group |-> "g", artifacts |-> <<>>]

Iterating == [Base("iterative", "i") EXCEPT !.rounds = 2]
Resuming == [Base("iterative", "j") EXCEPT !.initial = Checkpoint("i", 1), !.resume = TRUE]
Resumed == {Iterating, Resuming}

Collecting == Base("collect", "c")
Branching == [Base("branch", "b") EXCEPT !.bundle = Bundle("c")]
CollectingOn == [Collecting EXCEPT !.initial = Checkpoint("b", 1)]

CollectingJoint == [Collecting EXCEPT !.dual = FALSE]
CollectingAnew == [CollectingJoint EXCEPT !.seed = 1]
Loading == [Base("load", "u") EXCEPT !.artifacts = <<Artifact("c", 1, 1), Artifact("c", 1, 2)>>]

\* The three other scenarios of runs share a second set of variables.
Chain == INSTANCE TrainerRuns WITH
  Runs <- 1..4, Configs <- {Collecting, Branching, CollectingOn}, Dirs <- {"c", "b"},
  MaxPolicy <- 3,
  file <- files, conf <- runConf, pc <- runPc, read <- runRead, policy <- live, opt <- runOpt,
  step <- runStep, round <- runRound, slot <- runSlot, got <- data, rows <- runRows,
  worker <- workers, made <- steps, last <- latest
Load == INSTANCE TrainerRuns WITH
  Slots <- 2, Configs <- {CollectingJoint, CollectingAnew, Loading}, Dirs <- {"c", "u"},
  MaxPolicy <- 1,
  file <- files, conf <- runConf, pc <- runPc, read <- runRead, policy <- live, opt <- runOpt,
  step <- runStep, round <- runRound, slot <- runSlot, got <- data, rows <- runRows,
  worker <- workers, made <- steps, last <- latest
TwoRounds == INSTANCE TrainerRuns WITH
  Runs <- {1, 2}, Slots <- 2, MaxPolicy <- 4,
  file <- files, conf <- runConf, pc <- runPc, read <- runRead, policy <- live, opt <- runOpt,
  step <- runStep, round <- runRound, slot <- runSlot, got <- data, rows <- runRows,
  worker <- workers, made <- steps, last <- latest

OneProcess == INSTANCE UpdateEpochs WITH
  Trajectories <- 3, MaxLabels <- 2, BatchSize <- 2, World <- 1, Epochs <- 2,
  pc <- rankPc, rows <- rankRows
TwoRanks == INSTANCE UpdateEpochs WITH
  Trajectories <- 3, MaxLabels <- 2, BatchSize <- 3, World <- 2, Epochs <- 1,
  pc <- rankPc, rows <- rankRows

epochVars == <<counts, orders, saved, rankPc, epoch, generator, here, index, present, grad,
               weight, rankRows, adapter>>

runVars == <<files, runConf, runPc, runRead, live, runOpt, runStep, runRound, runSlot, data,
             runRows, workers, steps, latest>>

TrainerInit ==
  /\ part \in {"resume", "chain", "load", "rounds", "epochs", "ranks"}
  /\ Init
  /\ CASE part = "load" -> Load!Init
       [] part = "rounds" -> TwoRounds!Init
       [] OTHER -> Chain!Init
  /\ CASE part = "epochs" -> OneProcess!Init
       [] part = "ranks" -> TwoRanks!Init
       [] OTHER -> /\ counts = None /\ orders = None /\ saved = None /\ rankPc = None
                   /\ epoch = None /\ generator = None /\ here = None /\ index = None /\ present = None
                   /\ grad = None /\ weight = None /\ rankRows = None /\ adapter = None

\* runs are told apart by the order in which they start
InOrder(at) == \A r, q \in DOMAIN at : q < r /\ at[q] = "idle" => at[r] = "idle"

\* starting a load reads nothing, so that it may as well be the first start
LoadsFirst == runConf[1] \in {None, Loading}

TrainerNext ==
  /\ UNCHANGED part
  /\ \/ part = "resume" /\ Next /\ InOrder(pc)' /\ UNCHANGED <<runVars, epochVars>>
     \/ /\ UNCHANGED <<vars, epochVars>>
        /\ \/ part = "chain" /\ Chain!Next
           \/ part = "load" /\ Load!Next /\ LoadsFirst'
           \/ part = "rounds" /\ TwoRounds!Next
        /\ InOrder(runPc)'
     \/ part = "epochs" /\ OneProcess!Next /\ UNCHANGED <<vars, runVars>>
     \/ part = "ranks" /\ TwoRanks!Next /\ UNCHANGED <<vars, runVars>>

TrainerSpec == TrainerInit /\ [][TrainerNext]_<<part, vars, runVars, epochVars>>

-----------------------------------------------------------------------------
(* A collection, the branch trained on it and the next collection, two     *)
(* collections that are read while they are repeated, rounds of several    *)
(* rollouts: steps are on-policy, counts and parents those of the policy,  *)
(* and what is read is of one collection.                                  *)
ChainsWhole ==
  /\ part = "chain" => Chain!LineageKept
  /\ part = "load" => Load!LineageKept /\ Load!ReadsOneRun
  /\ part = "rounds" => TwoRounds!LineageKept /\ TwoRounds!ReadsOneRun

(* On any number of ranks, interrupted and resumed anywhere, the adapter   *)
(* is stepped with the batches of one uninterrupted process in its order,  *)
(* and the rows are theirs; an epoch takes every label once in batches as  *)
(* full as they can be, with no two labels of one trajectory, and all      *)
(* trajectories weigh the same.                                            *)
EpochsSerial ==
  /\ part = "epochs" =>
       /\ OneProcess!TypeOK /\ OneProcess!StepsSerially
       /\ OneProcess!EpochTakesAll /\ OneProcess!BatchesFull
  /\ part = "ranks" => TwoRanks!StepsSerially /\ TwoRanks!RowsSerial
=============================================================================
