# WAM-OPD: TLA+ models of the success-path programs

WAM-OPD post-trains a robot policy. A *run* collects trajectories on several GPUs, trains LoRA
adapters on them ("success-path trajectory update"), screens the resulting epoch checkpoints,
evaluates the selected one on held-out units and writes a final summary. The steps are separate
processes that know of each other through files: lock files, logs, checkpoints, JSON receipts.
They run for hours on shared machines and are killed and restarted by hand. Inside an episode a
client, a physics worker, a planner and a Teacher exchange snapshots, plans and labels, and the
scientific value of an episode rests on which of them was conditioned on what. What the code has
to get right is therefore which files, answers and labels may be trusted after which interleaving
of processes, failures and restarts. That is what is modelled.

Source paths are relative to `experiments/` of the repository unless a directory is given. Short
names: `T` is `train_iterative_on_policy_flow_opd.py`, `P`
`run_qualified_success_path_pipeline.py`, `S` `run_scaled_qualified_success_path_pipeline.py`, `E`
`run_handover_mic_success_path_eval.py`, `W` `robotwin_persistent_physics_worker.py`, `N`
`waopd_native_closed_loop_runner.py`, `C` `prototype_fixed_instruction_robotwin_client_diag.py`.

## 1. Inventory

| component | state it keeps | operations | talks to | what is hard | what makes it correct |
|---|---|---|---|---|---|
| **success-path trajectory update** (`T`, `_run_trajectory_update` and below) | writer guard (flock), writer lock, temporaries, epoch checkpoints, final checkpoint, `summary.json`; generator, cursors and optimizer of the epochs | lock, hash, load, re-hash, guard or recover output, validate a resume, train epochs, publish | reads artifacts and model trees; read by controller and screening | several hosts on one directory, a kill between any two file operations, stale locks and reused pids, inputs replaced while read | one writer; checkpoints exact and one history; no committed file replaced; no crash wedges the directory; a resume continues the same sequence of batches |
| **distributed success-path context** (`success_path_distributed.py`) | rank, world size | strided indices, sums of gradients and scalars, gather by index | `torch.distributed` | a rank without samples, ranks out of step | the batches of one process; no rank waits alone |
| **other modes of the trainer** (`T`: collect, iterative, branch_update) | checkpoints, bundles, trajectory artifacts, forked simulator workers | collect rounds, update, save, resume, fork workers | each other through files; the worker | no lock: files replaced between two reads; partial rounds | data is on-policy; adapter, optimizer and counts belong together; readers get one collection |
| **qualified pipeline controller** (`P`) | `contract.json`, `state.json`, `final_summary.json`, stage logs | `validate`, `status`, `run`, `run --dry-run` | starts collection shards, update, screening, held-out, optional command; reads receipts | it dies while children run; two controllers; reports of an old status | stages in order, nothing launched twice, true reports, an undisturbed run completes |
| **scaled pipeline and canary** (`S`) | the same, `canary/decision.json` | `canary`, batched collection, stages | as above | GPU sharing with orphans; batches after a failing batch; three separate computations of the same split | probed concurrency only; nothing launched twice; shards partition the split |
| **screening and held-out** (`E`, `waopd_v0j_teacher_free_behavior.py`, `run_open_microwave_paired_multinoise.py`) | per unit `episode.json`, `unit_summary.json`; `selection.json`; held-out summary | `screen_epoch`, `screen`, `heldout` on several GPUs, reuse after a restart | reads checkpoints; read by controllers | two files per unit; shared slots; checkpoints replaced meanwhile; ties and NaN | every pair counts once and from the content it names; the frozen rule decides; held-out is about the selection |
| **task progress predicates** (`stage_h_task_progress.py`, trace and summary in `E`) | trace of an episode | stage, milestones, summary, pair | the simulator's scene | chains of conditions, separate counts | highest stage is the official predicate; every accepted task pairs |
| **persistent physics worker** (`W`) | forked process, two pipes, latched errors | step, snapshot, restore, render, close | client; planner service | late answers without request ids, full pipes, hangs | an answer belongs to its request; a closed handle leaves no process |
| **planner service** (`robotwin_planner_service.py`) | cache by request hash | plan, update, reset, exit | worker | stale or forgotten answers | the same request gives the same plan |
| **native closed-loop runner** (`N`) | caches and history of two models, arms' workers, results | episodes of SS, ST, TS, TT arms | models, worker, renderer | order of clearing, predicting, appending; horizon inside a chunk | what arms share is equal, nothing leaks from an earlier arm; a success the worker latched is kept |
| **event triggers** (`stage_o_event_trigger.py`) | detector history, cooldown, charged failures | observe | client | failures and stalls during a cooldown | budget and cooldown kept, nothing charged twice |
| **live treatments** (`C`, `stage_m_…`, `stage_n_…`, `prototype_real_obs_action_teacher_bridge.py`) | contexts, labels, treatment outputs, Teacher lock | pause, query, check, treat, publish | Teacher process, detectors | kill while the Teacher works; files of two attempts | a label comes from the context of its own attempt and boundary |
| **branch and snapshot oracles** (`C`, `robotwin_branch_planner_trace.py`, `robotwin_sim_snapshot.py`, `robotwin_fork_clone_oracle.py`, `robotwin_branch_oracle.py`) | planner trace, branch records, children's files | restore or fork, run, record, judge | simulator, planner | replays of another length, failing or early children, old files | a verdict that holds means one experiment repeated |
| LoRA adapters and scopes, manifests and task binding, earlier trainers, package, scripts | in memory or generated files | numeric, JSON | | not concurrent | see section 7 |

Hazards are listed at their lines in `PROJECT.json`, with the properties aimed at them.

## 2. Plan and how it went

1. `SuccessPathUpdate` over its abstract specification `UpdateCommit`: the only place where
   several processes write the same files, and the source of every checkpoint. Proved.
2. `QualifiedPipeline` over `StageLedger`: the controller, its children, their receipts. Proved.
3. `ScaledPipeline` over the same `StageLedger`. Proved.
4. `Evaluation` (who runs an episode with which weights) and `ScreenSelection` (what is counted
   and selected), both proved, with `TaskProgress` below them.
5. `PhysicsWorker`, the worker with the planner service it starts. Its safety is proved.
6. `TrainerRuns`, the other modes, whose safety is proved, and `UpdateEpochs`, the optimization
   loop on ranks.
7. `EventTrigger`, used by `StageOTrace` (passive) and `LiveTreatment` (live); `LiveEpisode`. The
   safety of all three is proved.
8. `PlannerTrace`, extended by `BranchOracle`. Proved.

Left for later: a composition in which the update child of `QualifiedPipeline` is
`SuccessPathUpdate` itself, rather than the part of it the controller reads.

## 3. Modules

Every module has its parameters as CONSTANTS, one action per operation or per step another process
can observe, and no RECURSIVE operator.

### `SuccessPathUpdate` (abstract: `UpdateCommit`; proofs: `SuccessPathUpdateProofs`)

A *writer* is one process lifetime with a configuration (host, pid, training contract, checkpoint
to resume from); restarting the update is launching another writer. `pc` names the next step:

| actions | code |
|---|---|
| `AcquireGuard`, `InspectLock`, `StageLock`, `PublishLock` | `_acquire_success_path_writer_lock`: non-blocking flock, examination of the record left behind (host, pid, contract), `_write_json` through a temporary. `PublishLock` may also go to `unlock`: the directory fsync after `os.replace` failed |
| `UnlinkLock`, `Unlock` | `_release_success_path_writer_lock`; the record is removed before the guard is released. After a failed acquisition `Unlock` alone, the `except` branch of the acquisition |
| `Leave` | the end of a process whose acquisition failed behind its own record: until then it lives without the guard, and the record still names it |
| `HashInputs`, `LoadArtifacts`, `RehashArtifacts` | exact identity, load, second hash of the artifacts |
| `ReviewOutput` | clean-up of temporaries, then `_guard_success_path_committed_output`: nothing committed, a summary to recover, or an error |
| `LoadResume`, `BuildRuntime` | `_validate_success_path_resume_checkpoint`, first without and later with the live base hashes; the epoch checkpoints on disk must be exactly the completed ones |
| `TrainEpoch`, `StageEpoch`, `PublishEpoch` | one epoch, its checkpoint; the last epoch has none |
| `StageFinal`, `PublishFinal`, `DigestFinal`, `StageSummary`, `PublishSummary` | final checkpoint with embedded finalization payload, digest of the file as read back, commit marker |
| `Raise`, `Crash` | an exception anywhere (the context manager releases), a SIGKILL anywhere (the kernel releases the flock, files stay) |
| `EditInputs` | someone replaces the artifacts or the Student tree |

A policy is the sequence of epochs applied to the released Student, each with the artifact and
base content it saw (`lineage`): enough to tell an exact update from one that skipped, repeated or
mixed anything. The guard is one lock for all hosts that mount the directory, which is what the
code assumes of flock. `os.kill(pid, 0)` answers for the caller's host only, and an unused pid may
have been taken by an unrelated process (`PidIsAlive` is then free), so a refusal may be spurious,
a takeover never. Edits give new content each time. Power loss is not modelled.

### `UpdateEpochs`

The loop of `_update_round_success_path_tt` that `TrainEpoch` above takes as one step. `counts`
are the labels of each train trajectory, `orders` the permutations a seeded generator will draw.
`StartEpoch` draws them and computes the batches (`here`): one label of each trajectory in turn,
through a cursor that wraps; `Backward` adds a sample's gradient; `Collective` is the step all
ranks take together (`Meet`: presence exchange, summed gradients, scalars, `gather_indexed_rows`);
`OptimizerStep` steps the adapter; `EndEpoch` saves generator state and cursors. `Fail` and
`Restart` lose everything but the last saved state. A gradient is the set of samples that
contributed to it, an adapter the sequence of gradients it was stepped with. Loss weights,
calibration numbers and AdamW's arithmetic are not modelled. Ranks are started and ended by
`torchrun`, which is why they fail together, and a distributed run has no epoch checkpoints: the
code refuses the combination.

### `TrainerRuns` (proofs: `TrainerRunsProofs`)

A run is one process in mode collect, iterative, branch or load (the reading of artifacts with
which `trajectory_update` starts). `Build` reads the adapter a second time, minutes after `Start`
read it and `Fork` forked one simulator worker per round and rollout; `Collect`/`NextSlot` run the
rollouts, `Update` takes one optimizer step per objective, `Save`, `SaveCheckpoint`,
`WriteBundle`, `WriteSummary` publish, `ReadArtifact`/`Compare` read a collection one file after
the other, `End` closes workers. A policy is the hash of an adapter state; each step makes a new
one. These modes take no lock, so any run may replace a file another has read. What follows from
the code and may surprise: a collection started with `initial_checkpoint` cannot be consumed by
`trajectory_update`, and a coherent iterative run that makes at most one step raises after
training. Not modelled: `summary.partial.json`, metrics, the pre-update solver closure, losses.

### `QualifiedPipeline` (abstract: `StageLedger`; proofs: `QualifiedPipelineProofs`)

A *controller* is one invocation of `main()`, a *unit* one child command (a collection shard or
the one command of a later stage).

| actions | code |
|---|---|
| `Start` | `validate_contract` passed, `contract.json` written (by `status` too, not by a dry run) |
| `Assess`, `Review`, with `Follow` | `_status_payload` (`_phase_status`, `_next_stage`) and what `main` does with it: before the loop, and after each stage with `state.json` written in between |
| `OpenLog`, `Spawn`, `Wait` | `_run_stage` and `_run_logged`: the log is opened, then the process is started; all shards are started before any is waited for |
| `Finalize`, `Report` | `_finalize` and the last write of `state.json` |
| `Abort` | no eligible GPU, a failing `open` or `Popen`, an interrupt, a kill |
| `SaveCheckpoint`, `PublishReceipt`, `Exit`, `Fail` | the children, as far as their files are read by the controller |

The children of the core stages publish their receipt atomically, only with status PASS, and exit
zero only after it; the update's receipt comes after its checkpoints (this is what
`SuccessPathUpdate` shows of the update). The optional argv comes from the manifest, so its
receipt may be anything, a truncated file included, and it may exit zero without one. The status
is read in one step: the flags of core stages only rise, so a status assembled over time is one
that held at some moment in between for each stage.

### `ScaledPipeline` (abstract: `StageLedger`; proofs: `ScaledPipelineProofs`)

`StartCanary`, `StartRun` (what is refused never starts), `Derive` (stages done and started, from
logs and summaries), `TakeGpus`, `Launch` until `BatchFull`, `Collect` waits for the batch and
stops after a failing one, `Decide` writes `decision.json`, `Kill` leaves children running, which
end by `WriteSummary` and `Exit`. The GPU of a job is its position in the batch modulo the GPUs.
The pure parts are operators: half-open split bounds, role blocks, and the records of a shard by
stride. A failed canary with one worker per GPU still leaves `selected_workers_per_gpu = 1`, and
collection reads only that.

### `Evaluation` (proofs: `EvaluationProofs`)

Who runs an episode, with what content, and what is later concluded from the files. An evaluator
is one invocation of `screen_epoch`, `screen` or `heldout` with one thread per GPU. A slot is a
unit directory and condition. `StartScreening`/`StartHeldout`, `Resolve` (paths and hashes of the
candidates), `Take` and `Check` (`_unit_complete`: reuse or launch), `LoadAdapter`, `OpenEpisode`,
`WriteEpisode` (the child; the adapter file is hashed at the end), `WriteReceipt`
(`unit_summary.json` after `episode.json`), `Wait`, `NextInQueue`, `Gather`, `Rehash`, `Commit`,
`Raise`, `Abort`, `Block`, `Kill`, `Edit` (a checkpoint file is replaced). A model is `<<epoch,
content>>`; an episode remembers what drove it (`ran`, in no file) and what it says (`hash`).
`_unit_complete` reads receipt and episode in one step, an abstraction: a slot has one child at a
time in every scenario but *race*, which the run `selection` has. The adapted
half of `PairsUnmixed` is claimed of checkpoints that have not been replaced.

### `ScreenSelection` and `TaskProgress` (proofs of the first: `QualifiedPipelineProofs`)

`ScreenSelection` draws the outcome of an episode when it is first run and follows the counts to
the selection: `RunEpisode`, `CommitEpoch`, `CommitSummary`, `CommitSelection`, `CommitHeldout`,
with the selection key (`SelectionKey`, `Greater`, `Best`: Python's tuple order, where a
comparison with NaN is false), while `PublishCheckpoint` and `PublishSummary` are the training
run. `selection.json` may be written again by a repeated screening; `SelectionKept` shows it is then
the same. `ScreenCounts` wraps one instance of the module and states what a run checks and a theorem
proves of it (`RuleFollowed`, `SelectionKept`). Scores include a success without the final stage,
which the simulator may report between key observations. Per-task diagnostics and video recording
are not modelled.

`TaskProgress` models a scene as the set of conjuncts of the official predicate that hold;
`Observe` and `ObserveStill` are key observations, `Finish` the summary (first step, streaks,
contact onset), `BuildPair` the pair, which raises for the tasks without a branch.

### `PhysicsWorker` (proofs: `PhysicsWorkerProofs`)

Client and worker move alternately over two pipes whose capacity is in chunks: `Call`, `Send`,
`Receive`, `GiveUp` (time limit), `AskToClose`, `HearClosed`, `ForceClose`, `Reap` on the client's
side; `Boot`, `TakeCommand`, `Serve`, `Reply`, `Close`, `Fail`, `Die` on the worker's;
`StartPlanner`, `AskPlanner`, `PlannerEnds` for the planner. `spoiled` remembers that a call of
the handle failed, after which the model promises nothing but a forced close. Two things the model
shows a caller to avoid: a worker whose constructor failed lives until the client exits, and a
restore longer than the command pipe may wait for ever after a failed call, since sending has no
time limit; hence ends are claimed for unspoiled handles and for forced closes.

### `EventTrigger`, `StageOTrace`, `LiveTreatment` (proofs: `LiveTreatmentProofs`)

`EventTrigger` holds both detectors as operators on a detector record; `ObservableEventDetector`
takes `terminal_success` although its docstring says it does not inspect it, and a phase
transition that happens in a cooldown is never reported. Images and robot state are reduced to
whether both stay below their thresholds. `StageOTrace` feeds them from a passive rollout.

`LiveTreatment` is the client's loop: `Chunk` (apply the pending treatment or the Student's
action, feed the detector, advance), `Pause` (save the context), `Query` (Teacher lock and
process), `Check`, `RecordTreatment`, `Publish`; the Teacher is `TeacherLoads`, `TeacherLabels`,
`TeacherFails`; `Kill` and `Rerun` use the same paths again, with a Teacher of the killed attempt
that still writes. A context is identified by client, attempt and boundary, a label by the context
the Teacher read and the one whose hash it wrote. The client's Teacher command has no
`--student-delta`, so the bridge's check of the policy delta is not part of it. File writes are
single steps.

`PassiveTrace` and, of the next component, `ArmEpisodes` have no definitions of their own: they
instantiate `StageOTrace` and `LiveEpisode` with the few parameters renamed that also belong to
other modules, so that the run `rollouts` and the proofs can hold them beside those.

### `LiveEpisode` (proofs: in `PhysicsWorkerProofs`)

One process, one episode per arm. `Begin` resets both models; `StudentPlan`,
`TeacherOnStudentPlan`, `TeacherPlan`, `TeacherAction`, `StudentActionOnTeacherPlan` by family of
the arm; `Compare` (first chunk, shared noise); `Step` lets the worker move, up to the horizon;
`Show`, `Observe` render and encode snapshots; `EndChunk` records, appends to the Student's cache
and checks success; `EndArm`, `Report`, `Fail`, `Close`. A cache holds executed records
(`update_cache=2`) and predictions (`update_cache=1`). `control_step` counts the plan's controls,
so after a success without stopping it may exceed `max_control_steps`; the break at `remaining <=
0` cannot be reached; fingerprints cover the list of the history and the length of the cache only.

### `PlannerTrace` and `BranchOracle` (proofs: `BranchOracleProofs`)

`PlannerTrace` is `BranchPlannerTrace`: `BeginRecord`, `BeginReplay`, `PlanCall`, `FinishBranch`;
a check that fails sets `raised`, after which the client makes no further call. `BranchOracle`
drives it in the three ways of `C`: `Restore`/`Rebuild`/`Begin`/`PlanLeft`/`PlanRight`/`Finish` in
one process, `ForkChild`/`Render` at the frame, `EarlyChild`/`Collect` for children that play the
episode themselves, and `Judge`. A simulator state is what a snapshot sees of it; whether a
restored state looks as it was saved is a constant. The random numbers in a snapshot are not
compared by the code and not modelled, and that `take_action` plans nothing after success is
external. An early child whose episode ends before the frame exits zero without a record.

## 4. Runs

Nine passing runs ask one question each of a group of modules, three more show disagreements. A
run that needs several instances does not repeat them in several configurations: its MC module has
a variable `part`, chosen in the initial state and never changed, which says which *scenario* a
behaviour belongs to. Each scenario is an `INSTANCE` of the component's module with its own
constants. Where theorems exist, one scenario runs on the constants of the module itself, so that
the run checks the very definition a theorem states; the others are instances, some on a second
set of variables. Otherwise scenarios of one component share its variables; components that do not
interact have their own, and those that are idle keep one initial state. Other properties of a run
are conjunctions, over the scenarios, of `part = "…" => Instance!Property`, where the named
property is defined and commented in the component's module; action properties are boxed in the MC
module, and fairness conditions are restated there for the scenario they belong to.

| run (module) | scenarios and bounds | properties |
|---|---|---|
| `update_safety` (`MCSuccessPathUpdate`) | two writers, two hosts, two pids, two contracts, three epochs, one edit | `LockHonoured`, `CheckpointsExact`, `EpochsAreOneHistory`, `LockLeftOnlyByDead`, `NotWedged`, `LiveTempsKept`; final checkpoint and summary implement `UpdateCommit` |
| `pipelines` (`MCPipelines`) | *qualified*: three controllers one after the other, two shards, optional stage; *scaled*: four shards in two batches on two GPUs; *canary*: two workers configured per GPU, two canaries with one or two | `LaunchedOnce`, `StagesInOrder`, `StateIsTrue`, `ImplementsLedger` of *qualified*; `GpuBudgetProbed` of the others |
| `ends` (`MCEnds`) | *scaled*: a canary, then two runs of two shards; *update*, *pipeline*, *evaluation*: two invocations each, the first of which may fail anywhere; *calm*: nothing fails | `GpuBudgetProbed`, `StagesOnce` of *scaled*; `LaunchesEnd`: writers and controllers end; `RunCompletes`, `RerunCompletes` |
| `evaluation` (`MCEvaluation`) | *chain*: screening and held-out, one checkpoint replaced; *evidence*: `screen_epoch` twice; *reruns*: three screenings in sequence; *queues*: three units on two GPUs | `EvidenceSound`, `PairsWhole`, `HeldoutIsOfSelected` |
| `selection` (`MCScreenSelection`) | *values*: every score of two epochs on two units, losses with NaN; *epochs*: screening while the run trains; *banks*: two banks of two seeds; *stages*: every scene of all sixteen tasks; *units*: two episodes of three observations of eleven tasks; *race*: two overlapping `screen_epoch` of `Evaluation`, of which one may be killed and leave orphans; the first checkpoint is replaced once (`FirstReplaced`) | `RuleFollowed` and `SelectionKept` of *epochs*; `CountsHonest`: the same of *values* and *banks*, `AttestedPairsRan` and `CountsEachUnitOnce` of *race*; `ProgressMeasured` |
| `trainer` (`MCTrainerRuns`) | *resume*: three two-round or resuming runs; *chain*: collect, branch, collect, branch; *load*: two collections in one directory and a reader; *rounds*: two rounds of two slots; *epochs*: two epochs with resumes; *ranks*: two ranks | `LineageKept`, `ReadsOneRun`; `ChainsWhole`: the same of *chain*, *load*, *rounds*; `EpochsSerial` |
| `rollouts` (`MCRollouts`) | *labels*: two treatments killed and rerun; *clients*: two clients; *records*; *dynamic*; *progress*, *observable*: passive traces; *arms*: four arms; *goOn*, *stop*: with and without stopping at success | `TreatmentsSound` (*labels*), `EventsJust` (*observable*), `ArmsComparable` and `SuccessKept` (*goOn*); `ScenariosSound`: the same of the other scenarios |
| `branch` (`MCBranchOracle`) | *bridge*: A/B twice in one process; *again*: A/A in one process after inexact restores; *fork*: children at the frame; *early*: children of the whole episode, old files there | `BranchesSound`, `ReplayExact`, `RecordsKept` of *bridge*; `ForksSound`: the first of *again*, *fork*, *early* |
| `processes` (`MCProcesses`) | *calls*: three calls with failures anywhere; *replay*: four calls on restored scenes; *faulty*, *sound*: training runs; *ranks*: three ranks; *arms*; *clients* | `WorkersFaithful`, `HandlesEnd`, `ProgramsEnd` |
| `pipeline_retry` (`QualifiedPipeline`) | two overlapping controllers | `LaunchedOnce` is **violated** |
| `eval_old_episode` (`Evaluation`) | two screenings in sequence, one edit | `PairsRan` is **violated** |
| `progress_generic` (`TaskProgress`) | one observation of every task | `AcceptedTasksPair` is **violated** |

Bounds and why they are enough.

* *Lifetimes.* Of two writers, one leaves something behind and one takes it over, or the two race;
  two hosts and two pids give the same pid on two hosts and a pid reused on one. For more writers
  the properties are proved. Three controllers allow two crashes before the last one.
  `CanariesOnly` keeps the canary scenario to two invocations, of which one that was killed has
  launched at most two children, and to no formal run: the decision is written before one may
  start. `CanaryThenRuns` in turn lets the first invocation of *scaled* in `ends` be the canary and
  the others runs: a killed run leaves children, and the next one finds their logs.
* *Epochs.* Three in the update: a resume from the first, from the second, and an epoch that is
  not last. Two in `UpdateEpochs`: a resume exists after every one but the last, and what a resume
  must restore is restored by one.
* *Edits.* `MaxEdits = 1`: one replacement can fall between any two reads; the properties compare
  two reads at a time.
* *Parallelism.* Two shards tell "some" from "all", four give two batches; three units on two GPUs
  give queues of different length; two ranks with a batch of three give ranks with different
  numbers of samples, three ranks with a batch of two one with none.
* *Policies and calls.* `MaxPolicy` ends a chain of training runs when it has made as many
  adapters as the scenario's runs need; `MaxCalls` gives a call that fails, one that gets its late
  answer, and one more; `InOrder` numbers runs by their start, since their order is otherwise
  free; `LoadsFirst` makes run 1 of *load* the reader, whose start reads nothing yet.
* *Data.* Three observations and a horizon of two in `TaskProgress` give streaks that are broken
  and an observation after the horizon; two labels for each of three trajectories give
  trajectories that run out at different times.
* *Symmetry* is used over writers, controllers and evaluators, and in `branch` over visible states
  and planner answers, only in runs without liveness.

Deadlock is not checked: in every instance all invocations end and nothing more happens. That they
end where they should is what the liveness properties say.

Fairness, and why the code justifies it.

* Update: a running process executes its next step. Nothing awaits another writer: flock is
  `LOCK_NB` and a stale record is refused, not polled. That a process is not killed is not
  assumed.
* Controllers: the same, and that every child ends one way or the other. They wait without a time
  limit, so a child that hangs does keep them. `RunCompletes` excludes failures (*calm*), as every
  failure is meant to end in a blocked run.
* Evaluation: an evaluator that is not interrupted proceeds, and so does its child.
  `RerunCompletes` is of an evaluator that is itself undisturbed, after one that failed anywhere.
* Trainer: a run takes its next step, and a simulator worker whose pipe was closed ends. Epochs:
  each rank computes, and the collective that all have entered completes; nothing is assumed of a
  rank that has not.
* Worker handle: client, worker and the end of an orphaned planner, each on its own. A client has
  time limits, a worker does not hang by itself unless it fails, which is an action without
  fairness.
* Episode: the one process proceeds (`WF(Next)`). Live treatment: a client takes its next step and
  a Teacher that was started answers or fails; kills and reruns are not fair.

## 5. Findings

* `pipeline_retry`: the pipeline document says that a started stage stops the run and is never
  retried automatically. Between the status (`P:973`) and the log that would announce the launch
  (`P:826`, `P:783`) nothing excludes a second invocation, and both start the stage. All other
  pipeline properties except `StagesInOrder` therefore assume controllers that do not overlap
  (`Overlap = FALSE`); the scaled controller has the same gap, and its model starts an invocation
  only when no other is live.
* `eval_old_episode`: `run_one` loads the adapter before the episode and hashes the file when it
  writes the result. An episode driven by the old content of a path is labelled with the new hash,
  and a later invocation pairs it. What does hold, `AttestedPairsRan` and `HeldoutRanSelected`, is
  of episodes whose evaluator had resolved the same content before and after.
* `progress_generic`: the tasks of `GENERIC_STAGE_DIAGNOSTIC_TASKS` are accepted by the protocol,
  the trace, its summary and the aggregates, and `_build_pair` raises for them after both episodes
  have run.

Noticed without a run:

* `P`: status is said to derive only from receipts and checkpoints; `_phase_status` also reads the
  logs, and a log alone blocks the run. An unreadable receipt is said to block; `_pass_json`
  raises instead, from `status` and `run` alike. `run --dry-run` on a complete run writes
  `final_summary.json`; `status` writes `contract.json`.
* `S`: the controller is called fail-closed (`README.md:227`); after a failed canary at one worker
  per GPU it still starts the collection.
* `T`: the Student tree is hashed once and read later, so in a fresh run the recorded identity may
  name another base than the one trained; only the base hashes beside it are certain.
* `C`: forked branches report `source_student_exact` as the literal `True` (`C:1857`, `C:2076`); a
  fork run exits zero whatever the verdict; the in-process loop writes its outputs before it
  raises.

## 6. Proofs

Eight modules hold theorems, one per component. They are proved for every value of the constants,
under assumptions named in the modules, which TLC evaluates on every run:

* update: at least one epoch, host, pid and contract, `Absent` none of the things it stands beside
  (`EpochsAssumption`, `EditsAssumption`, `WritersAssumption`, `NonEmptyAssumption`,
  `AbsentAssumption`);
* qualified pipeline: at least one shard, Boolean switches (`ShardsAssumption`,
  `SwitchAssumption`); planner trace and branches: `NoTrace` and `NoRecord` not records, a way to
  run the branches, at least one repeat (`NoTraceAssumption`, `BranchAssumption`);
* scaled pipeline: two or four GPUs that divide the shards, one or two workers per GPU, as its
  manifest check demands (`ScaledAssumption`);
* evaluation: at least one unit, epoch and GPU, known modes, distinct sentinels (`SizeAssumption`,
  `ModeAssumption`, `FileAssumption`);
* trainer: at least one slot, and configurations as the argument parser lets them through, such as
  one round outside of iterative mode (`TrainerAssumption`, `ConfigAssumption`);
* worker: pipes that hold something (`WorkerAssumption`);
* live treatments: a schedule of increasing positive even frames, limits on chunks, and distinct
  sentinels (`Schedule`, `Sentinels`), a window of at least two samples (`EventConfigValid`);
* episodes of arms and passive traces: `Configured` of their modules, a hypothesis of the theorem
  that TLC evaluates for every scenario of `rollouts`;
* counts and selection: at least one epoch, bank, seed and GPU, stages from 0 to 3, losses that are
  natural numbers (only their order matters) or `NaN`, which is no integer, and `Absent` no outcome
  (`ScreenConfigured`).

Three theorems of `EvaluationProofs` (`HeldoutBindsSelection`, `EvidenceIsSound`, `PairsAreWhole`)
and those of `QualifiedPipelineProofs` from `NoRetry` on assume in addition that invocations do not
overlap; section 5 has what happens when they do.

**`SuccessPathUpdateProofs`.** The properties are not inductive. `OneWriter` follows from
`GuardInv` (the guard names exactly the process that is between acquisition and release). That a
checkpoint is exact needs to be known before it is written, so `LocalInv` says for each step of
the guard holder what it has in memory: the artifacts that were hashed (`InputsInv`: content only
gets newer, so equal digests before and after the load enclose the load), a resume checkpoint that
is still the newest on disk (`ParentInv`), an exact lineage whose predecessors are the checkpoints
on disk (`TrainingInv`), and an uncommitted or just committed output (`CommittingInv`). Files
change only under the guard, so every other process's part is untouched. `FileInv` holds what is
on disk between lifetimes. `IInv` is the conjunction (`Invariance`); from it come `TypeCorrect`,
`MutualExclusion`, `ExactCheckpoints`, `OneHistory`, `NeverWedged`, `WriteOnce` and the step
simulation `CommitRefinement`. `LockInv`, proved on top of `IInv`, says that a lock record names the
process that published it (`RecordInv`), that whoever is past the examination has found no record
or one whose process has ended (`TakeoverInv`), and that a process has a temporary only while it
publishes (`TempInv`). The guard alone does not give the second part: a process whose acquisition
failed behind its own record is alive without it (`leave`), and what protects its record is that a
pid of this host is never found dead while its process lives. The three parts give
`StaleLockIsDead`, `LockIsHonoured` and `TempsKept`.

**`QualifiedPipelineProofs`.** For any number of controllers, overlapping or not: core receipts
are only ever replaced by PASS and checkpoints are never removed, so a core stage that is done
stays done; a controller that is about to launch has the earlier stages behind it (`OrderInv`).
This gives `TypeCorrect` and `StageOrder`. Under `ASSUME ~Overlap`, `PipeInv` adds that receipts
are made by children, children have logs, and the units still to be launched have neither
(`TracesInv`, `LaunchInv`); therefore a status that finds no trace cannot miss a child, which is
`NoRetry`, and with one writer per receipt the optional stage too stays done, which gives
`FinalIsComplete`, `StateTruthful` and the simulation `LedgerRefinement`.

Hosted there, as `Screen`, are the proofs about `ScreenSelection`, which depend on nothing else in
the module. An episode that has been run keeps its outcome, so `CountInv` can say of everything
else what it must be: each row is the pair of its unit's episodes (`RowsTrue`), a thread in the
middle of a unit has run the unit's released episode (`QueuesTrue`), an invocation past its start
is about the candidates that are still the ones to be screened or selected (`Wanted`), and each
file is the function of the episodes that its writer computes (`FilesTrue`). When all queues are
through and there are as many rows of an epoch as units, the rows are all its pairs (`WholeTruth`),
because a unit has one pair of an epoch: this is what the code's check of the number of rows is
worth. `FilesSayEpisodes` is the invariance. The rest is about what the files say. Sums over sets
are reasoned about by lemmas on `SumFunction` (parts add up, counting is adding ones), which give
the net gain, the banks and the baseline. `max` over the candidates returns the one above all
others because the keys of a screened run have no NaN (`Loadable`) and are ordered strictly and
totally, ending in different epochs (`LexOrder`, `ChosenBeats`), and that one is what the rule, four
maxima one inside the other, leaves (`ChosenByRule`). `RuleIsFollowed` and `SelectionIsKept`
follow. The library's induction theorems cannot be instantiated here; the induction over sets and
numbers that these lemmas need goes by the minimum of a well-founded set instead (`SetInduct`,
`NatInduct`).

**`BranchOracleProofs`.** The invariant of the trace (`TraceInvariant`) is that the calls a branch
has made are, arm by arm, the first ones of the record of its family, as many as its index says.
`FinishBranch` accepts only a branch whose indices have reached the end of the lists, so a replay
that finishes made exactly the recorded calls, and none beyond (`ReplayIsExact`); and of all
actions only those of a recording change a record, and only that of their family
(`RecordsAreKept`). This holds for chunks of every length and any interleaving of families, where
the run has chunks of two. The oracle's steps are steps of the trace (`OracleUsesTrace`), so its
branches inherit both. `BranchInv` then says where in its branch a run is and that every record
made so far tells the truth: it names the branch of its turn, its family's source and chunk, the
state it started from and the end that was shown. A positive verdict compares every branch with
the first of its family, so it is about one state and one chunk (`BranchesAreSound`).

**`ScaledPipelineProofs`.** `PipeInv` has three parts. The first is what a controller may conclude
from files: every child has opened its log (`Traces`), logs and work in progress lie over complete
earlier stages (`LogsInOrder`, `WorkInOrder`), what a controller has not yet launched of its stage
has no log and only one controller ever launched any of a stage (`StageIsOwn`, `OneLauncher`).
This gives the simulation of the ledger and that nothing is launched twice (`StagesRunOnce`). The
second is about batches: the children a controller waits for are a contiguous batch behind which
everything has ended (`Batches`), and the running collection workers of any invocation, dead ones
included, are of one batch dealt over the number of workers the canary chose (`CollectsABatch`,
`CollectsAsDecided`). A batch has at most that many jobs per residue of the number of GPUs, and
only one invocation has collection workers at all: hence the bound on each GPU. The third
is the canary's decision (`CanaryUndecided`, `DecisionTrue`). Together they are `BudgetIsKept`.

**`EvaluationProofs`.** `Typed` is the type invariant, strengthened by what queues and children may
rely on. `EpisodesBetween` places what drove an episode between two observations: content only
gets newer, the evaluator resolved some version before the child loaded one, and the file is
hashed after; if the version resolved is the version hashed, it is what was loaded. That gives
`AttestedRan` without any assumption on overlaps, orphans or kills. With `~Overlap`, held-out has
resolved exactly the selected model (`HeldoutBound`) and pairs are of candidates
(`PairsOfWanted`), which gives `HeldoutBindsSelection`. That evidence stays (`EvidenceIsSound`)
needs `~Orphans` too, and the longest argument: a live evaluator is alone with children that its
own queues wait for (`Alone`), queues never share a unit nor candidates an epoch (`OwnUnits`,
`OwnEpochs`), so that a unit its queue is past, a pair in its rows and a pair in a committed
receipt are settled: episode and receipt are there, complete and of the right hash
(`QueuesSettled`, `RowsSettled`, `CommittedSettled`), and `_unit_complete` reuses what is settled.

Counting is by position (`QueueCounted`): of every unit in its share a queue has one pair for each
candidate that is behind it and none for the others, and the shares of the queues are the units,
each once, because units of one queue are whole rounds of the GPUs apart. When every queue is done,
what is committed has each unit once for each candidate (`UnitsAreCounted`), with no assumption on
overlaps, orphans or kills. That the two halves of a pair are of one episode needs both: success
comes from `episode.json`, progress from the receipt read earlier, and each may be rewritten.
`WritersMatched` says that at most one evaluator has children (`OneAlive`), that a child's episode
is what it has written so far (`ChildWrote`), that a PASS receipt of a checkpoint which was never
replaced lies beside the episode of its own writer, with no child at work there (`SlotsMatched`),
and that a queue's readings are still those of the receipts (`QueueMatched`). Hence
`PairsAreWhole`.

**`PhysicsWorkerProofs`.** The answer carries no request id, so what matches answers to requests is
where they are. While no call has failed the handle is in exactly one of four situations
(`OneConversation`): before READY, between calls with both pipes empty, within a request, whose
chunks are all the command pipe holds, or within its answer, whose chunks are all the other holds.
Together with the types and the capacities this is inductive for pipes of every size. That a
repeated step repeats is separate, and holds after failures as well: the planner's memory is a
function of scene and action, and each motion was made by what it remembers (`OnePlanEach`).
`FaithfulWorkers` has the three promises of a handle.

Hosted there, as `Live`, are the proofs about `LiveEpisode`, which depend on nothing else in the
module. Its parameters are assumed to be as `main` accepts them (`Configured`). `EpisodeInv`
follows a chunk: what each cache holds (`Conditioned`: the executed records, then the predictions
of this chunk, nothing of another arm), which snapshots have been shown and where the parent
simulator is (`Shown`, `Told`), how far the world has moved (`Moved`), and that the noise of a
chunk is its family's (`NoiseKept`). `EpisodesComparable` and `SuccessIsKept` follow.

**`TrainerRunsProofs`.** `RunInv` follows data from file to file. Checkpoints and bundles on disk
are true of their policy (`FilesTrue`), so what was read is, whoever replaced the file meanwhile
(`ReadTrue`), hence the adapter, step count and optimizer of a live run (`LiveTrue`), the
trajectories it has collected so far (`Collected`), the steps it makes of them (`StepsWhole`) and
again what it writes. This is `LineageIsKept`. `LastIsLive` says that a live run is the last to
have started in its directory; what its rows and collected trajectories say is therefore in that
directory's files until it ends (`RowsTrue`, `DataTrue`), and stays so until another run starts
there (`SummariesTrue`). With what `trajectory_update` compares (`Loads`) that is
`ReadersGetOneRun`.

**`LiveTreatmentProofs`.** `LiveInv` looks at a client and its files as two values (`Good`), so
that what a step does to them is a lemma about constants and everything else is unchanged: how
many treatments are behind (`Counting`), that every label used is of this attempt and boundary
(`Labelled`), where the next boundary is (`Targeted`), the schedule or the event (`Scheduled`,
`Caused`), and what a finished episode has written (`Finished`). The crucial conjunct is small: in
`wait`, `query` and `check` the context file holds the context of this attempt. A Teacher of a
killed attempt may overwrite the label file, but a label names the context that was read and the
one whose hash was taken at the end, and the check compares both. The rest is the lock (a client
that queries holds it) and, without kills, one Teacher per client, which it awaits.
`TreatmentsAreSound` is about all of `TreatmentsSound`, for scheduled and dynamic treatments, with
and without kills.

`EventsAreJust` is about the passive trace, whose parameters are `TraceFrames` and the like there.
`TraceInv` says that the detector's history is the samples the recorder kept (`Sampled`), that
what a detector remembers (last frame, number of events, failures charged) is what its events say
(`Remembered`), that each event came of the samples at its frame (`Followed`), and that the live
detector and the passive one agree up to the first event (`Alike`). An event is judged by the
samples in its window, which are still there and never change; a failure is charged to one event
because the counter at an event's sample is the one the next event starts from.

Model-checked only, and why:

* all liveness (`LaunchesEnd`, `RunCompletes`, `RerunCompletes`, `HandlesEnd`, `ProgramsEnd`):
  fairness and ENABLED are beyond the prover;
* the pure operators: `EpochsSerial` (batches against a serial reference) and `ProgressMeasured`
  (scenes, streaks, summaries) are checked over bounded inputs;
* `CountsHonest`, `ScenariosSound`, `ChainsWhole`, `ForksSound`: instances of properties proved for
  all constants (`RuleFollowed` and, of *race*, `AttestedRan` and `UnitsAreCounted`; `TreatmentsSound`, `EventsJust` and
  `ArmsComparable`; `LineageKept` and `ReadsOneRun`; `BranchesSound`), run to see that the
  scenarios do occur;
* the three violations, which are behaviours.

## 7. Not modelled

* **LoRA adapters and scopes**: modes are switched by `with` statements around single forward
  passes; no state survives a call, and what the adapters compute is numeric.
* **Manifests and task binding**: pure functions of one JSON file, run once by an operator. What
  they reject never reaches the modelled programs, where it is a precondition.
* **Earlier trainers**: numeric loops in one process without resume, lock or second writer,
  started by nothing in the current pipeline.
* **Package, scripts, patches, configuration**: entry points and data.
* Parts of modelled components: losses, weights and optimizer arithmetic; per-task diagnostics and
  videos of an evaluation; tasks of other stages in the predicates; the render, replay and video
  stages of the client; the snapshot round-trip audit, the strict replay of snapshots across
  processes and the deferred planner stub of the branch oracle; manifest checks of the native
  runner; the planner service's `update_point_cloud`, `plan_grippers` and `reset`, which the
  worker's steps do not send.
* Merged or left out in modelled components: the file writes at the end of an episode are one step
  (`LiveTreatment.Publish`); `finalize_fork_manifest` runs after the children of its own manifest,
  not later over an older one (`BranchOracle.Collect`); a forked child that inherits another
  worker's command pipe keeps it from being seen closed, but every close is answered or ends in a
  kill (`PhysicsWorker.Close`); `--arms` with an arm named twice, where the second worker replaces
  the first in the client's table and its episode fails (`LiveEpisode.Begin` refuses it, no
  scenario names one twice). The agreement of a Bridge chunk with the Student's action is compared
  in one process only; forks report `source_student_exact` as a constant, so `BranchesSound` does
  not claim it of them.
* **Environment**: GPU state, flock on network file systems, power loss and hash collisions appear
  as failures or as the assumptions named above.
