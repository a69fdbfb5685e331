----------------------------- MODULE MCRollouts ------------------------------
(***************************************************************************)
(* Model checking of what happens while an episode runs: LiveTreatment,    *)
(* StageOTrace and LiveEpisode.  A behaviour is one of these scenarios:    *)
(*   labels      two scheduled treatments, killed and run again            *)
(*   clients     two clients that share the Teacher lock                   *)
(*   records     two treatments with failing planner calls                 *)
(*   dynamic     an event chooses the frame of the first treatment         *)
(*   progress    a trace with a progress statistic                         *)
(*   observable  a trace of planner failures and quiet chunks              *)
(*   goOn        two arms that go on after success for four chunks         *)
(*   arms        four arms with shared noise; the horizon falls inside     *)
(*               the second chunk                                          *)
(*   stop        two arms that stop at success                             *)
(* Labels, observable and goOn are the modules extended here.              *)
(***************************************************************************)
EXTENDS LiveTreatment, PassiveTrace, ArmEpisodes

CONSTANT OtherClient

VARIABLES
  part,
  run, paths, serving, locked,
  phase2, continuous2, calls2, samples2, progress2, observable2, events2, observableEvents2,
  live2, liveEvents2,
  turn2, at2, chunk2, student2, teacher2, frameSt2, encoded2, history2, plan2, conds2, world2,
  parent2, reply2, shown2, total2, success2, episodes2, workers2, outcome2

TwoFrames == << 2, 6 >>
TwoArms == << "ST", "TS" >>

\* The scenarios clients, records and dynamic share a second set of variables.
TwoClients == INSTANCE LiveTreatment WITH
  client <- run, files <- paths, teachers <- serving, lock <- locked,
  Clients <- Clients \union {OtherClient}, Frames <- << 2 >>, StepLimits <- {2}, MaxAttempts <- 2
Unkilled == INSTANCE LiveTreatment WITH
  client <- run, files <- paths, teachers <- serving, lock <- locked,
  StepLimits <- {5}, Failures <- {0, 1}, MaxAttempts <- 1, Kills <- FALSE
OnEvent == INSTANCE LiveTreatment WITH
  client <- run, files <- paths, teachers <- serving, lock <- locked,
  Dynamic <- TRUE, StepLimits <- {5}, Failures <- {0, 1}, Quiets <- BOOLEAN, MaxAttempts <- 2

\* So do progress, and arms and stop, of traces and episodes.
Progressing == INSTANCE StageOTrace WITH
  Window <- 3, ChunkFrames <- 2, StepLimit <- 5, MaxEvents <- 2,
  Ordinals <- {0, 1}, Scalars <- {0, 1}, Failures <- {0, 1}, Quiets <- {FALSE},
  phase <- phase2, continuous <- continuous2, calls <- calls2, samples <- samples2,
  progress <- progress2, observable <- observable2, events <- events2,
  observableEvents <- observableEvents2, live <- live2, liveEvents <- liveEvents2

FourArms == INSTANCE LiveEpisode WITH
  Arms <- << "SS", "ST", "TS", "TT" >>, Chunks <- 3, Frames <- 2,
  MaxControls <- 9, StopOnSuccess <- TRUE, Shared <- TRUE, Progress <- TRUE,
  turn <- turn2, at <- at2, chunk <- chunk2, student <- student2, teacher <- teacher2,
  frameSt <- frameSt2, encoded <- encoded2, history <- history2, plan <- plan2, conds <- conds2,
  world <- world2, parent <- parent2, reply <- reply2, shown <- shown2, total <- total2,
  success <- success2, episodes <- episodes2, workers <- workers2, outcome <- outcome2
Stopping == INSTANCE LiveEpisode WITH
  Chunks <- 3, Frames <- 2, MaxControls <- 9, StopOnSuccess <- TRUE, Progress <- TRUE,
  turn <- turn2, at <- at2, chunk <- chunk2, student <- student2, teacher <- teacher2,
  frameSt <- frameSt2, encoded <- encoded2, history <- history2, plan <- plan2, conds <- conds2,
  world <- world2, parent <- parent2, reply <- reply2, shown <- shown2, total <- total2,
  success <- success2, episodes <- episodes2, workers <- workers2, outcome <- outcome2

ASSUME EpisodesConfigured == Live!Configured /\ FourArms!Configured /\ Stopping!Configured
ASSUME TracesConfigured == Trace!Configured /\ Progressing!Configured

treatmentVars == <<run, paths, serving, locked>>
traceVars == <<phase2, continuous2, calls2, samples2, progress2, observable2, events2,
               observableEvents2, live2, liveEvents2>>
episodeVars == <<turn2, at2, chunk2, student2, teacher2, frameSt2, encoded2, history2, plan2,
                 conds2, world2, parent2, reply2, shown2, total2, success2, episodes2, workers2,
                 outcome2>>

ofTreatments == {"clients", "records", "dynamic"}
ofEpisodes == {"arms", "stop"}

RolloutsInit ==
  /\ part \in {"labels", "observable", "progress", "goOn"} \union ofTreatments \union ofEpisodes
  /\ Init /\ Trace!Init /\ Live!Init /\ Progressing!Init
  /\ CASE part = "records" -> Unkilled!Init
       [] part = "dynamic" -> OnEvent!Init
       [] OTHER -> TwoClients!Init
  /\ IF part = "arms" THEN FourArms!Init ELSE Stopping!Init
  \* one initial state of what stays idle
  /\ part # "observable" => continuous = FALSE
  /\ part # "progress" => continuous2 = FALSE
  /\ part # "labels" => \A c \in Clients : client[c].limit = 2

RolloutsNext ==
  /\ UNCHANGED part
  /\ \/ /\ \/ part = "labels" /\ Next /\ UNCHANGED <<passiveVars, armVars>>
           \/ part = "observable" /\ Trace!Next /\ UNCHANGED <<vars, armVars>>
           \/ part = "goOn" /\ Live!Next /\ UNCHANGED <<vars, passiveVars>>
        /\ UNCHANGED <<treatmentVars, traceVars, episodeVars>>
     \/ /\ \/ /\ \/ part = "clients" /\ TwoClients!Next
                 \/ part = "records" /\ Unkilled!Next
                 \/ part = "dynamic" /\ OnEvent!Next
              /\ UNCHANGED <<traceVars, episodeVars>>
           \/ part = "progress" /\ Progressing!Next /\ UNCHANGED <<treatmentVars, episodeVars>>
           \/ /\ \/ part = "arms" /\ FourArms!Next
                 \/ part = "stop" /\ Stopping!Next
              /\ UNCHANGED <<treatmentVars, traceVars>>
        /\ UNCHANGED <<vars, passiveVars, armVars>>

RolloutsSpec ==
  RolloutsInit /\ [][RolloutsNext]_<<part, vars, passiveVars, armVars, treatmentVars, traceVars,
                                    episodeVars>>

-----------------------------------------------------------------------------
(* Two clients that share the Teacher, an episode whose planner calls      *)
(* fail, and one whose first treatment an event causes: one Teacher at a   *)
(* time, and a finished episode's files tell what happened in it.  A       *)
(* trace with a progress statistic has just events, and arms that share    *)
(* their noise or stop, with a horizon inside a chunk, are comparable.     *)
ScenariosSound ==
  /\ part = "clients" => TwoClients!TreatmentsSound
  /\ part = "records" => Unkilled!TreatmentsSound
  /\ part = "dynamic" => OnEvent!TreatmentsSound
  /\ part = "progress" => Progressing!EventsJust
  /\ part = "arms" => FourArms!ArmsComparable
  /\ part = "stop" => Stopping!ArmsComparable
=============================================================================
