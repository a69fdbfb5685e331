-------------------------- MODULE MCScreenSelection --------------------------
(***************************************************************************)
(* Model checking of what an evaluation counts: ScreenSelection, below it  *)
(* TaskProgress, and the files that overlapping invocations share          *)
(* (Evaluation).  A behaviour is one of these scenarios:                   *)
(*   values    every combination of scores of two epochs on two units, with*)
(*             ties and NaN losses, screened at the end                    *)
(*   epochs    epochs screened while the run still trains, on two GPUs     *)
(*   banks     held-out on two banks of two seeds, on two GPUs             *)
(*   stages    one observation of every task and every scene of it         *)
(*   units     the two episodes of a unit: three observations, of which    *)
(*             the worker acts for two                                     *)
(*   race      two overlapping screenings of single epochs, of which one   *)
(*             may be killed and leave children behind, while checkpoints  *)
(*             are replaced                                                *)
(***************************************************************************)
EXTENDS ScreenCounts, Integers

CONSTANTS v1, v2, Truncated, Blocked

VARIABLES
  part,
  published2, losses2, episode2, epochReceipt2, summary2, selection2, heldout2,
  mode2, wanted2, queue2, rows2,
  task, role, moving, trace, summaries, pair, phase,
  content, unitEpisode, unitReceipt, sharedReceipt, selected, confirmed,
  child, pc, command, todo, want, thread, pairs

(* The simulator may see a success that no key observation shows.          *)
Scores == {[success |-> FALSE, stage |-> 0], [success |-> FALSE, stage |-> 1],
           [success |-> TRUE, stage |-> 1], [success |-> TRUE, stage |-> 3]}
FailOrPass == {[success |-> FALSE, stage |-> 0], [success |-> TRUE, stage |-> 3]}
LossesOrNaN == {1, 2, NaN}
One == [screening |-> 1, heldout |-> 1]
TwoScreened == [screening |-> 2, heldout |-> 1]
TwoHeldOut == [screening |-> 1, heldout |-> 2]

PairedTasks ==
  {"handover_mic", "open_microwave", "put_object_cabinet", "put_bottles_dustbin",
   "place_fan", "place_shoe", "scan_object", "place_a2b_left", "stack_blocks_three",
   "blocks_ranking_rgb", "blocks_ranking_size"}
GenericTasks ==
  {"place_a2b_right", "place_bread_basket", "place_cans_plasticbox", "rotate_qrcode",
   "stamp_seal"}

\* The scenarios values and banks share a second set of variables.
OfValues == INSTANCE ScreenSelection WITH
  published <- published2, losses <- losses2, episode <- episode2,
  epochReceipt <- epochReceipt2, summary <- summary2, selection <- selection2,
  heldout <- heldout2, mode <- mode2, wanted <- wanted2, queue <- queue2, rows <- rows2,
  Gpus <- 1, Allowed <- {"screen"}, Outcomes <- Scores, Losses <- LossesOrNaN
OfBanks == INSTANCE ScreenSelection WITH
  published <- published2, losses <- losses2, episode <- episode2,
  epochReceipt <- epochReceipt2, summary <- summary2, selection <- selection2,
  heldout <- heldout2, mode <- mode2, wanted <- wanted2, queue <- queue2, rows <- rows2,
  Epochs <- 1, Banks <- TwoHeldOut, Seeds <- TwoHeldOut,
  Allowed <- {"screen", "heldout"}

Stages == INSTANCE TaskProgress WITH
  Tasks <- PairedTasks \cup GenericTasks, MaxControls <- 1, Observations <- 1,
  rows <- trace, summary <- summaries
UnitsOf == INSTANCE TaskProgress WITH
  Tasks <- PairedTasks, MaxControls <- 2, Observations <- 3,
  rows <- trace, summary <- summaries

Race == INSTANCE Evaluation WITH
  Evaluators <- {v1, v2}, Reliable <- {v1}, Units <- 1, Epochs <- 2, MaxEdits <- 1,
  Modes <- {"screen_epoch"}, Overlap <- TRUE, Orphans <- TRUE,
  episode <- unitEpisode, receipt <- unitReceipt, epochReceipt <- sharedReceipt,
  selection <- selected,
  heldout <- confirmed, mode <- command, rows <- pairs

ASSUME ScenariosConfigured == OfValues!Configured /\ OfBanks!Configured

otherVars == <<published2, losses2, episode2, epochReceipt2, summary2, selection2, heldout2,
               mode2, wanted2, queue2, rows2>>
progress == <<task, role, moving, trace, summaries, pair, phase>>
raceVars == <<content, unitEpisode, unitReceipt, sharedReceipt, selected, confirmed, child, pc,
              command, todo, want, thread, pairs>>

SelectionInit ==
  /\ part \in {"values", "epochs", "banks", "stages", "units", "race"}
  /\ Screen!Init
  /\ IF part = "banks" THEN OfBanks!Init ELSE OfValues!Init
  /\ IF part = "race" THEN Race!Init
     ELSE /\ content = Absent /\ unitEpisode = Absent /\ unitReceipt = Absent
          /\ sharedReceipt = Absent /\ selected = Absent /\ confirmed = Absent
          /\ child = Absent /\ pc = Absent /\ command = Absent /\ todo = Absent
          /\ want = Absent /\ thread = Absent /\ pairs = Absent
  /\ CASE part = "stages" -> Stages!Init
       [] part = "units" -> UnitsOf!Init
       [] OTHER -> /\ task = "none" /\ role = "none" /\ moving = FALSE /\ trace = <<>>
                   /\ summaries = <<>> /\ pair = Absent /\ phase = "none"

\* Bound: of the two checkpoints of the race, only the first one is replaced.
FirstReplaced == content'[2] = content[2]

SelectionNext ==
  /\ UNCHANGED part
  /\ \/ part = "epochs" /\ Screen!Next /\ UNCHANGED <<otherVars, progress, raceVars>>
     \/ part = "values" /\ OfValues!Next /\ UNCHANGED <<screenVars, progress, raceVars>>
     \/ part = "banks" /\ OfBanks!Next /\ UNCHANGED <<screenVars, progress, raceVars>>
     \/ part = "stages" /\ Stages!Next /\ UNCHANGED <<screenVars, otherVars, raceVars>>
     \/ part = "units" /\ UnitsOf!Next /\ UNCHANGED <<screenVars, otherVars, raceVars>>
     \/ /\ part = "race" /\ Race!Next /\ FirstReplaced
        /\ UNCHANGED <<screenVars, otherVars, progress>>

SelectionSpec ==
  SelectionInit /\ [][SelectionNext]_<<part, screenVars, otherVars, progress, raceVars>>

-----------------------------------------------------------------------------
(* The same of every combination of scores, ties and NaN losses, and of    *)
(* two held-out banks; and when two evaluators and the children of killed  *)
(* ones write one slot, an episode whose evaluator had resolved the        *)
(* content it is counted for was driven by that content, and each unit is  *)
(* counted once.                                                           *)
CountsHonest ==
  /\ part = "values" => OfValues!TypeOK /\ OfValues!SelectedByRule /\ OfValues!NetGain
  /\ part = "banks" => OfBanks!TypeOK /\ OfBanks!HeldoutOfSelected /\ OfBanks!NetGain
                       /\ OfBanks!BanksAddUp
  /\ part = "race" => Race!TypeOK /\ Race!AttestedPairsRan /\ Race!CountsEachUnitOnce

(* For every task the highest stage is the official predicate and no       *)
(* conjunct gained lowers the stage; the two episodes of a unit come to    *)
(* one pair, whose summaries fit the stages that were seen and whose       *)
(* contact onset has the right sign.                                       *)
ProgressMeasured ==
  /\ part = "stages" => Stages!TypeOK /\ Stages!StageIsOfficial /\ Stages!GainNeverLowers
  /\ part = "units" =>
       /\ UnitsOf!SummaryFits /\ UnitsOf!MilestoneIsStage
       /\ UnitsOf!UnitsPair
       /\ task = "handover_mic" => UnitsOf!OnsetSign
=============================================================================
