---------------------------- MODULE ScaledPipeline ----------------------------
(***************************************************************************)
(* The scaled controller, run_scaled_qualified_success_path_pipeline.py:   *)
(* a canary that probes how many collection workers a GPU carries, and the *)
(* stages of a formal run, collection in batches of all GPUs.              *)
(*                                                                         *)
(* A run is one invocation of canary or run.  Nothing is locked: what an   *)
(* invocation knows of earlier ones is in the output directories.  A       *)
(* killed invocation leaves its children running.                          *)
(***************************************************************************)
EXTENDS Integers, Sequences, FiniteSets

SX == INSTANCE SequencesExt

CONSTANTS
  Runs,        \* invocations
  Shards,      \* formal collection configs
  Gpus,        \* gpu_policy.stable_gpu_count
  Configured,  \* gpu_policy.collection_workers_per_gpu of the manifest
  Attempts,    \* the --workers-per-gpu a canary may be given
  Faults,      \* may invocations be killed and children fail?
  MaxCount,    \* bound on a split count
  Absent       \* a file that is not there

ASSUME ScaledAssumption ==
  /\ Gpus \in {2, 4} /\ Shards \in Nat \ {0} /\ Shards % Gpus = 0
  /\ Configured \in 1..2 /\ Attempts \subseteq 1..2
  /\ Faults \in BOOLEAN /\ MaxCount \in Nat \ {0}
  /\ Absent \notin {"RUNNING", "PASS"}

VARIABLES
  \* -- files --
  log,       \* jobs with a log in their output directory
  passed,    \* jobs with a PASS summary (an update: and its checkpoints)
  decision,  \* the canary's decision.json
  state,     \* pipeline_state.json
  \* -- processes --
  child,     \* the child of a run for a job
  pc,        \* where a run is
  stage,     \* what it runs: "canary" or a stage
  workers,   \* its workers per GPU
  next,      \* the config it launches next
  procs      \* the jobs of its batch

files == <<log, passed, decision, state>>
local == <<stage, workers, next, procs>>
vars == <<files, child, pc, local>>

-----------------------------------------------------------------------------
(* _expected_roles, _split_bounds and the shards of validate_contract.     *)

Roles == <<"train", "calibration", "screening", "heldout">>
Counts == [SX!ToSet(Roles) -> 1..MaxCount]

(* The cursor when k roles have had their records.                         *)
Before(counts, k) ==
  LET cursor == << counts.train, counts.train + counts.calibration,
                   counts.train + counts.calibration + counts.screening,
                   counts.train + counts.calibration + counts.screening + counts.heldout >>
  IN  IF k = 0 THEN 0 ELSE cursor[k]
ExpectedRoles(counts) ==
  LET Of(role) == [i \in 1..counts[role] |-> role]
  IN  Of("train") \o Of("calibration") \o Of("screening") \o Of("heldout")

(* Records are numbered from 0; the bounds are half open.                  *)
SplitBoundsClosed(counts) ==
  [k \in DOMAIN Roles |-> Before(counts, k - 1)..Before(counts, k)]
SplitBounds(counts) ==
  [k \in DOMAIN Roles |-> Before(counts, k - 1)..(Before(counts, k) - 1)]

CollectionCount(counts) == counts.train + counts.calibration
ShardRecords(counts, shard) ==
  {i \in 0..(CollectionCount(counts) - 1) : i % Shards = shard - 1}

-----------------------------------------------------------------------------
Stages == <<"collection", "update", "screening", "heldout">>

Configs(s) ==
  CASE s = "canary" -> Gpus * Configured
    [] s = "collection" -> Shards
    [] OTHER -> 1
JobsOf(s) == {<<s, i>> : i \in 1..Configs(s)}
Jobs == UNION {JobsOf(s) : s \in SX!ToSet(Stages) \cup {"canary"}}

(* A batch is as many configs as all GPUs carry; the others get one.       *)
Capacity(s, w) == IF s \in {"canary", "collection"} THEN Gpus * w ELSE 1
Position(i, s, w) == (i - 1) % Capacity(s, w)
GpuByBlock(i, s, w) == Position(i, s, w) \div Gpus
Gpu(i, s, w) == Position(i, s, w) % Gpus

Live(r) == pc[r] \in {"status", "gpus", "launch", "wait", "decide"}
Running(c) == c \in {"running", "written"}

(* _phase_status                                                           *)
Done(s) == JobsOf(s) \subseteq passed
StartedByReceipt(s) == \E j \in JobsOf(s) : j \in passed
Started(s) == \E j \in JobsOf(s) : j \in passed \cup log

-----------------------------------------------------------------------------
Init ==
  /\ log = {} /\ passed = {} /\ decision = Absent /\ state = Absent
  /\ child = [r \in Runs |-> [j \in Jobs |-> "none"]]
  /\ pc = [r \in Runs |-> "idle"]
  /\ stage = [r \in Runs |-> "canary"] /\ workers = [r \in Runs |-> 1]
  /\ next = [r \in Runs |-> 1] /\ procs = [r \in Runs |-> {}]

Goto(r, step) == pc' = [pc EXCEPT ![r] = step]

(* One invocation at a time.                                               *)
MayStart(r) == pc[r] = "idle" /\ \A q \in Runs : ~Live(q)

(* run_canary                                                              *)
StartCanary(r, w) ==
  /\ MayStart(r)
  /\ IF decision # Absent THEN Goto(r, "raised") ELSE Goto(r, "gpus")
  /\ stage' = [stage EXCEPT ![r] = "canary"]
  /\ workers' = [workers EXCEPT ![r] = w]
  /\ UNCHANGED <<files, child, next, procs>>

(* run_pipeline                                                            *)
StartRun(r) ==
  /\ MayStart(r)
  /\ Goto(r, "status")
  /\ UNCHANGED <<files, child, local>>

TodoUnstarted == {k \in 1..4 : ~Done(Stages[k]) /\ ~Started(Stages[k])}
Todo == {k \in 1..4 : ~Done(Stages[k])}

(* The next stage that is not done, unless it has been started before.     *)
Derive(r) ==
  /\ pc[r] = "status"
  /\ \/ Todo = {} /\ Goto(r, "done") /\ state' = "PASS" /\ UNCHANGED stage
     \/ \E k \in Todo :
          /\ \A n \in Todo : k <= n
          /\ IF Started(Stages[k])
             THEN Goto(r, "raised") /\ UNCHANGED <<state, stage>>
             ELSE /\ Goto(r, "gpus") /\ state' = "RUNNING"
                  /\ stage' = [stage EXCEPT ![r] = Stages[k]]
  /\ UNCHANGED <<log, passed, decision, child, workers, next, procs>>

(* _run_stage up to its first child: the canary's decision for collection, *)
(* and enough free GPUs.                                                   *)
TakeGpus(r) ==
  /\ pc[r] = "gpus"
  /\ \/ /\ Goto(r, "launch")
        /\ IF stage[r] = "collection"
           THEN decision # Absent /\ workers' = [workers EXCEPT ![r] = decision.selected]
           ELSE UNCHANGED workers
        /\ next' = [next EXCEPT ![r] = 1]
        /\ procs' = [procs EXCEPT ![r] = {}]
     \/ /\ Faults \/ (stage[r] = "collection" /\ decision = Absent)
        /\ Goto(r, "raised")
        /\ UNCHANGED <<workers, next, procs>>
  /\ UNCHANGED <<files, child, stage>>

BatchFull(r) ==
  \/ next[r] > Configs(stage[r])
  \/ Cardinality(procs[r]) = Capacity(stage[r], workers[r])

(* The log is opened before the child is started, which may fail.          *)
Launch(r) ==
  /\ pc[r] = "launch" /\ ~BatchFull(r)
  /\ LET j == <<stage[r], next[r]>>
     IN /\ log' = log \cup {j}
        /\ \/ /\ child' = [child EXCEPT ![r][j] = "running"]
              /\ procs' = [procs EXCEPT ![r] = @ \cup {j}]
              /\ next' = [next EXCEPT ![r] = @ + 1]
              /\ UNCHANGED pc
           \/ Faults /\ Goto(r, "raised") /\ UNCHANGED <<child, procs, next>>
  /\ UNCHANGED <<passed, decision, state, stage, workers>>

AllLaunched(r) ==
  /\ pc[r] = "launch" /\ BatchFull(r)
  /\ Goto(r, "wait")
  /\ UNCHANGED <<files, child, local>>

(* _launch_configs counts an exit code or a missing PASS; _run_logged only *)
(* the exit code.                                                          *)
FailedLast(r) == {j \in procs[r] : child[r][j] = "failed" /\ j[2] = Configs(stage[r])}
Failed(r) ==
  {j \in procs[r] :
     child[r][j] = "failed" \/ (stage[r] \in {"canary", "collection"} /\ j \notin passed)}

(* The batch has ended.  A failure ends the stage.                         *)
Collect(r) ==
  /\ pc[r] = "wait" /\ \A j \in procs[r] : ~Running(child[r][j])
  /\ procs' = [procs EXCEPT ![r] = {}]
  /\ \/ stage[r] = "canary" /\ (Failed(r) # {} \/ next[r] > Configs("canary")) /\ Goto(r, "decide")
     \/ stage[r] # "canary" /\ Failed(r) # {} /\ Goto(r, "raised")
     \/ stage[r] # "canary" /\ Failed(r) = {} /\ next[r] > Configs(stage[r]) /\ Goto(r, "status")
     \/ Failed(r) = {} /\ next[r] <= Configs(stage[r]) /\ Goto(r, "launch")
  /\ next' = [next EXCEPT ![r] = IF Failed(r) = {} THEN @ ELSE 0]
  /\ UNCHANGED <<files, child, stage, workers>>

(* next = 0 says that a batch failed.                                      *)
Decision(r) ==
  [attempted |-> workers[r],
   selected |-> IF next[r] = 0 THEN 1 ELSE workers[r],
   status |-> IF next[r] # 0 THEN "PASS" ELSE IF workers[r] = 2 THEN "FALLBACK" ELSE "FAIL"]

Decide(r) ==
  /\ pc[r] = "decide"
  /\ decision' = Decision(r)
  /\ Goto(r, "done")
  /\ UNCHANGED <<log, passed, state, child, local>>

Kill(r) ==
  /\ Faults /\ Live(r)
  /\ Goto(r, "killed")
  /\ UNCHANGED <<files, child, local>>

-----------------------------------------------------------------------------
(* A child: its summary is its last file, and it may still fail after it.  *)

Become(r, j, step) == child' = [child EXCEPT ![r][j] = step] /\ UNCHANGED <<pc, local>>

WriteSummary(r, j) ==
  /\ child[r][j] = "running"
  /\ passed' = passed \cup {j}
  /\ Become(r, j, "written")
  /\ UNCHANGED <<log, decision, state>>

Exit(r, j) ==
  /\ \/ child[r][j] = "written" /\ Become(r, j, "ok")
     \/ Faults /\ Running(child[r][j]) /\ Become(r, j, "failed")
  /\ UNCHANGED files

Child == \E r \in Runs : \E j \in Jobs : WriteSummary(r, j) \/ Exit(r, j)

Step(r) == Derive(r) \/ TakeGpus(r) \/ Launch(r) \/ AllLaunched(r) \/ Collect(r) \/ Decide(r)

Next ==
  \/ \E r \in Runs : StartRun(r) \/ Step(r) \/ Kill(r)
  \/ \E r \in Runs, w \in Attempts : StartCanary(r, w)
  \/ Child

Spec == Init /\ [][Next]_vars

(* A live invocation goes on and children end.                             *)
FairSpec ==
  /\ Spec
  /\ \A r \in Runs : WF_vars(Step(r))
  /\ \A r \in Runs : \A j \in Jobs : WF_vars(WriteSummary(r, j) \/ Exit(r, j))

-----------------------------------------------------------------------------
(* Properties                                                              *)

(* Type invariant of the controller.                                       *)
TypeOK ==
  /\ log \subseteq Jobs /\ passed \subseteq Jobs
  /\ decision = Absent \/ (decision.selected \in 1..2 /\ decision.attempted \in Attempts)
  /\ state \in {Absent, "RUNNING", "PASS"}
  /\ \A r \in Runs :
       /\ procs[r] \subseteq JobsOf(stage[r])
       /\ pc[r] \in {"launch", "wait"} => next[r] \in 1..(Configs(stage[r]) + 1)

Collected(counts) ==
  UNION {ShardRecords(counts, s) : s \in {n \in 1..Shards : <<"collection", n>> \in passed}}

Partitioned(counts) ==
  LET Bounds == SplitBounds(counts)
  IN /\ Collected(counts) = Bounds[1] \cup Bounds[2]
     /\ \A s, q \in 1..Shards :
          s # q => ShardRecords(counts, s) \cap ShardRecords(counts, q) = {}
     /\ \A k \in DOMAIN Roles :
          Bounds[k] = {i - 1 : i \in {n \in DOMAIN ExpectedRoles(counts) :
                                        ExpectedRoles(counts)[n] = Roles[k]}}

(* When an invocation goes on after a complete collection, its shards hold *)
(* every train and calibration record and no screening or held-out record, *)
(* no record is in two shards, and the bounds given to training and        *)
(* evaluation are the records with that role.                              *)
SplitsPartition ==
  Done("collection") /\ (\E r \in Runs : pc[r] = "status") =>
    \A counts \in Counts : Partitioned(counts)

(* No formal job is launched over the output of an earlier launch, however *)
(* invocations were killed and repeated.                                   *)
LaunchedOnce ==
  \A r \in Runs : \A j \in Jobs :
    (child[r][j] # "running" /\ child'[r][j] = "running" /\ j[1] # "canary") =>
      j \notin log \cup passed

(* A stage's command starts only when every earlier stage has passed.      *)
Earlier(s) == {Stages[k] : k \in {n \in 1..4 : \E m \in 1..4 : n < m /\ Stages[m] = s}}
StagesInOrder ==
  \A r \in Runs : \A j \in Jobs :
    (Running(child[r][j]) /\ j[1] # "canary") => \A s \in Earlier(j[1]) : Done(s)

(* A GPU never carries more formal collection workers than the canary      *)
(* chose, counting those that outlive their controller.                    *)
OnGpu(g) ==
  {w \in Runs \X JobsOf("collection") :
     Running(child[w[1]][w[2]]) /\ Gpu(w[2][2], "collection", workers[w[1]]) = g}
GpuBounded == decision # Absent => \A g \in 0..(Gpus - 1) : Cardinality(OnGpu(g)) <= decision.selected

(* A canary that passed with the manifest's worker count has had that many *)
(* workers on each GPU, and all of them passed.                            *)
ProbedPass ==
  (decision # Absent /\ decision.status = "PASS" /\ decision.attempted = Configured) =>
    /\ JobsOf("canary") \subseteq passed
    /\ \A g \in 0..(Gpus - 1) :
         Cardinality({j \in JobsOf("canary") : Gpu(j[2], "canary", decision.selected) = g}) = Configured

(* A worker count above one is chosen only when no probe failed.           *)
NoPassOverFailure ==
  decision # Absent /\ decision.selected = 2 => decision.status = "PASS"

(* What a canary decided is what carries the collection: a GPU has no more *)
(* workers than it chose, orphans of killed invocations counted, it chose  *)
(* two only when no probe failed, it passed the manifest's number only     *)
(* when all of them did, and no stage runs before its predecessors passed. *)
BudgetKept == TypeOK /\ StagesInOrder /\ GpuBounded /\ ProbedPass /\ NoPassOverFailure

(* What carries the collection and what it collects: a GPU never carries   *)
(* more workers than the canary chose and probed, and when the collection  *)
(* is complete its shards are a partition of the train and calibration     *)
(* records, with none of screening or held-out.                            *)
GpuBudgetProbed == BudgetKept /\ SplitsPartition

(* The ledger of stages: passed in order, never taken back, and PASS in    *)
(* pipeline_state.json only over all of them.                              *)
PassedStages == {k \in 1..4 : Done(Stages[k])}
Ledger == INSTANCE StageLedger WITH Last <- 4, passed <- PassedStages, published <- (state = "PASS")

(* The stages of a scaled run are passed in order and never taken back, and *)
(* no formal job of one is launched over the output of an earlier launch.   *)
StagesOnce == Ledger!Spec /\ [][LaunchedOnce]_vars

(* Every invocation ends.                                                  *)
Ends == \A r \in Runs : Live(r) ~> ~Live(r)

=============================================================================
