---------------------------- MODULE MCPipelines -----------------------------
(***************************************************************************)
(* Model checking of the two controllers: the qualified one (the module    *)
(* extended here) and the scaled one, once over four shards and once with  *)
(* a canary for two workers per GPU.  A behaviour is one of them, chosen   *)
(* in the initial state; the other stays idle.                             *)
(***************************************************************************)
EXTENDS QualifiedPipeline, FiniteSets, TLC

CONSTANT Absent

VARIABLES
  part,   \* "qualified", "scaled" or "canary"
  jobLog, passed, decision, runState, job, runPc, runStage, workers, next, procs

\* Two batches of collection on two GPUs.
Scaled == INSTANCE ScaledPipeline WITH
  Runs <- Controllers, Shards <- 4, Gpus <- 2, Configured <- 1, Attempts <- {1},
  Faults <- TRUE, MaxCount <- 2,
  log <- jobLog, state <- runState, child <- job, pc <- runPc, stage <- runStage

\* Two workers configured for each of two GPUs, two canaries with one or two.
Canary == INSTANCE ScaledPipeline WITH
  Runs <- Controllers, Shards <- 2, Gpus <- 2, Configured <- 2, Attempts <- {1, 2},
  Faults <- TRUE, MaxCount <- 1,
  log <- jobLog, state <- runState, child <- job, pc <- runPc, stage <- runStage

runVars == <<jobLog, passed, decision, runState, job, runPc, runStage, workers, next, procs>>

PipelinesInit ==
  /\ part \in {"qualified", "scaled", "canary"}
  /\ Init
  /\ IF part = "canary" THEN Canary!Init ELSE Scaled!Init

\* bounds of the canary scenario: no formal run, two invocations, and one
\* that is killed has launched two children at most
CanariesOnly ==
  /\ runState = Absent
  /\ Cardinality({c \in Controllers : runPc[c] # "idle"}) <= 2
  /\ \A c \in Controllers :
       runPc[c] = "killed" => Cardinality({j \in Canary!Jobs : job[c][j] # "none"}) <= 2

PipelinesNext ==
  /\ UNCHANGED part
  /\ \/ part = "qualified" /\ Next /\ UNCHANGED runVars
     \/ part = "scaled" /\ Scaled!Next /\ UNCHANGED vars
     \/ part = "canary" /\ Canary!Next /\ CanariesOnly' /\ UNCHANGED vars

PipelinesSpec == PipelinesInit /\ [][PipelinesNext]_<<part, vars, runVars>>

Invocations == Permutations(Controllers)

-----------------------------------------------------------------------------
(* The scaled controller in both scenarios: the budget of its GPUs, and,   *)
(* where there are formal runs, the partition of the records.              *)
GpuBudgetProbed ==
  /\ part = "scaled" => Scaled!GpuBudgetProbed
  /\ part = "canary" => Canary!GpuBudgetProbed
=============================================================================
