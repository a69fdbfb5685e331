----------------------------- MODULE MCProcesses -----------------------------
(***************************************************************************)
(* Model checking of the processes that serve or make up an episode or a   *)
(* training run: PhysicsWorker (the module extended here), TrainerRuns,    *)
(* UpdateEpochs, LiveEpisode and LiveTreatment.  A behaviour is one of     *)
(* these scenarios:                                                        *)
(*   calls    calls and closes of a worker handle, failures anywhere       *)
(*   replay   a worker that does not fail replays steps from snapshots     *)
(*   faulty   a two-round training run and one that resumes from it, with  *)
(*            failures and kills                                           *)
(*   sound    the same with two slots and nothing that fails               *)
(*   ranks    three ranks that come to the end of an epoch                 *)
(*   arms     a comparison of two arms                                     *)
(*   clients  two clients that share the Teacher lock                      *)
(***************************************************************************)
EXTENDS PhysicsWorker, FiniteSets

CONSTANTS None, Absent, Torn, NoFrame, NoScalar, NoClient, NoContext, NoLabel, NoEvent, NoFile

VARIABLES
  part,
  file, conf, pc, read, policy, opt, step, round, slot, got, rows, workers, made, last,
  counts, orders, rankSaved, rankPc, epoch, generator, here, index, present, grad, weight,
  rankRows, adapter,
  turn, at, chunk, student, teacher, frameSt, encoded, history, plan, conds, world,
  parent, reply, shown, total, success, episodes, armWorkers, outcome,
  treated, files, teachers, lock

Handle == INSTANCE PhysicsWorker WITH MaxCalls <- 3
Replay == INSTANCE PhysicsWorker WITH
  Actions <- {"a", "b"}, Failures <- FALSE

Config(dir) ==
  [mode |-> "iterative", dir |-> dir, rounds |-> 1, initial |-> None, bundle |-> None,
   resume |-> FALSE, seed |-> 0, dual |-> TRUE, group |-> "g", artifacts |-> <<>>]
Configs ==
  {[Config("i") EXCEPT !.rounds = 2],
   [Config("j") EXCEPT !.initial = <<"i", "checkpoint", 1>>, !.resume = TRUE]}

Faulty == INSTANCE TrainerRuns WITH
  Runs <- {1, 2}, Slots <- 1, Dirs <- {"i", "j"}, MaxPolicy <- 3, Faults <- TRUE, worker <- workers
Sound == INSTANCE TrainerRuns WITH
  Runs <- {1, 2}, Slots <- 2, Dirs <- {"i", "j"}, MaxPolicy <- 4, Faults <- FALSE, worker <- workers
Epochs == INSTANCE UpdateEpochs WITH
  Trajectories <- 3, MaxLabels <- 1, BatchSize <- 2, World <- 3, Epochs <- 1, Faults <- FALSE,
  saved <- rankSaved, pc <- rankPc, rows <- rankRows
TwoArms == INSTANCE LiveEpisode WITH
  Arms <- << "ST", "TS" >>, Chunks <- 2, Frames <- 2, KeyFrames <- 2, Quarter <- 2,
  MaxControls <- 9, StopOnSuccess <- FALSE, Shared <- FALSE, Progress <- FALSE,
  workers <- armWorkers
TwoClients == INSTANCE LiveTreatment WITH
  MinFrame <- 4, Window <- 2, Cooldown <- 4, Epsilon <- 0,
  Clients <- {"x", "y"}, Frames <- << 2 >>, Dynamic <- FALSE, StepLimits <- {2},
  Failures <- {0}, Quiets <- {FALSE}, MaxAttempts <- 1, Kills <- TRUE, client <- treated

trainerVars == <<file, conf, pc, read, policy, opt, step, round, slot, got, rows, workers,
                 made, last>>
epochVars == <<counts, orders, rankSaved, rankPc, epoch, generator, here, index, present, grad,
               weight, rankRows, adapter>>
episodeVars == <<turn, at, chunk, student, teacher, frameSt, encoded, history, plan, conds,
                 world, parent, reply, shown, total, success, episodes, armWorkers, outcome>>
treatmentVars == <<treated, files, teachers, lock>>
allVars == <<part, vars, trainerVars, epochVars, episodeVars, treatmentVars>>

ProcessesInit ==
  /\ part \in {"calls", "replay", "faulty", "sound", "ranks", "arms", "clients"}
  /\ Init /\ TwoArms!Init /\ TwoClients!Init
  /\ IF part = "sound" THEN Sound!Init ELSE Faulty!Init
  /\ IF part = "ranks" THEN Epochs!Init
     ELSE /\ counts = None /\ orders = None /\ rankSaved = None /\ rankPc = None
          /\ epoch = None /\ generator = None /\ here = None /\ index = None /\ present = None
          /\ grad = None /\ weight = None /\ rankRows = None /\ adapter = None

ProcessesNext ==
  /\ UNCHANGED part
  /\ \/ /\ \/ part = "calls" /\ Handle!Next
           \/ part = "replay" /\ Replay!Next
        /\ UNCHANGED <<trainerVars, epochVars, episodeVars, treatmentVars>>
     \/ /\ \/ part = "faulty" /\ Faulty!Next
           \/ part = "sound" /\ Sound!Next
        /\ UNCHANGED <<vars, epochVars, episodeVars, treatmentVars>>
     \/ part = "ranks" /\ Epochs!Next
        /\ UNCHANGED <<vars, trainerVars, episodeVars, treatmentVars>>
     \/ part = "arms" /\ TwoArms!Next
        /\ UNCHANGED <<vars, trainerVars, epochVars, treatmentVars>>
     \/ part = "clients" /\ TwoClients!Next
        /\ UNCHANGED <<vars, trainerVars, epochVars, episodeVars>>

\* the fairness of each module, for the behaviours of its program
ProcessesFairness ==
  /\ WF_vars(part = "calls" /\ ClientMoves)
  /\ WF_vars(part = "calls" /\ WorkerMoves)
  /\ WF_vars(part = "calls" /\ PlannerEnds)
  /\ \A r \in {1, 2} :
       /\ WF_trainerVars(part = "faulty" /\ Faulty!Step(r))
       /\ WF_trainerVars(part = "sound" /\ Sound!Step(r))
       /\ \A w \in {1} \X {1, 2} : WF_trainerVars(part = "faulty" /\ Faulty!WorkerEnds(r, w))
  /\ WF_epochVars(part = "ranks" /\ Epochs!Collective)
  /\ \A r \in {0, 1, 2} : WF_epochVars(part = "ranks" /\ Epochs!Step(r))
  /\ WF_episodeVars(part = "arms" /\ TwoArms!Next)
  /\ \A c \in {"x", "y"} : WF_treatmentVars(part = "clients" /\ TwoClients!ClientStep(c))
  /\ WF_treatmentVars(part = "clients" /\ \E t \in teachers : TwoClients!TeacherStep(t))

ProcessesSpec == ProcessesInit /\ [][ProcessesNext]_allVars /\ ProcessesFairness

-----------------------------------------------------------------------------
(* CloseEnds, CallsReturn and PlannersEnd of PhysicsWorker: calls of a     *)
(* handle return and it can be closed, whatever state the worker is in,    *)
(* and no planner outlives its worker.                                     *)
HandlesEnd ==
  /\ part = "calls" /\ client.step = "killing" ~> client.step = "closed"
  /\ part = "calls" /\ client.step \in {"closing?", "reaping"} /\ ~spoiled ~> client.step = "closed"
  /\ part = "calls" /\ client.step \in {"sending", "waiting"} /\ ~spoiled ~> client.step = "idle"
  /\ part = "calls" /\ planner # "none" /\ ~Running ~> planner = "dead"

(* What is started comes to its end: simulator workers of a training run   *)
(* (WorkersEnd), its rounds when nothing fails (BuiltRunsComplete), all    *)
(* ranks of an epoch (AllDone), a comparison with its result file          *)
(* (Reported), and every client that waits for a Teacher (EpisodesEnd).    *)
ProgramsEnd ==
  /\ \A r \in {1, 2} :
       /\ \A w \in {1} \X {1, 2} :
            part = "faulty" /\ workers[r][w] = "fresh" ~> part = "faulty" /\ workers[r][w] = "closed"
       /\ part = "sound" /\ pc[r] \in {"collect", "update"} ~> part = "sound" /\ pc[r] = "done"
  /\ part = "ranks" ~> part = "ranks" /\ \A r \in {0, 1, 2} : rankPc[r] = "done"
  /\ part = "arms" ~> outcome # "nobody" /\ armWorkers = {} /\ at = "closed"
  /\ part = "clients" ~> [](\A c \in {"x", "y"} : treated[c].phase \in {"done", "failed", "killed"})
=============================================================================
