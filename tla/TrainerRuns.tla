----------------------------- MODULE TrainerRuns -----------------------------
(***************************************************************************)
(* The collect, iterative and branch_update modes of the trainer           *)
(* (train_iterative_on_policy_flow_opd.py), and the reading of collected   *)
(* artifacts that trajectory_update begins with.                           *)
(*                                                                         *)
(* A run is one process.  Runs exchange checkpoints, bundles and           *)
(* trajectory artifacts as files; no lock keeps a run from replacing a     *)
(* file that another one has read.  A policy stands for the hash of an     *)
(* adapter state; every optimizer step makes a new one.                    *)
(***************************************************************************)
EXTENDS Integers, Sequences, FiniteSets

CONSTANTS
  Runs,        \* processes
  Configs,     \* normalized configurations
  Slots,       \* rollouts of a round: 1..n
  Dirs,        \* output directories
  MaxPolicy,   \* bound on the policies made
  Faults,      \* may steps fail and processes be killed?
  None,        \* no path
  Absent,      \* no file
  Torn         \* a file whose writing was cut off

ASSUME TrainerAssumption ==
  /\ Slots \in Nat \ {0} /\ MaxPolicy \in Nat /\ Faults \in BOOLEAN

VARIABLES
  file,      \* contents of paths
  conf,      \* the configuration of a run
  pc,        \* where a run is
  read,      \* the checkpoint or bundle it has read
  policy,    \* its live adapter, 0 - 1 before it is built
  opt,       \* the policy its optimizer state belongs to, 0 - 1 when fresh
  step,      \* global_optimizer_step
  round,     \* round_id, from 1
  slot,      \* the slot it is at
  got,       \* trajectories collected or loaded
  rows,      \* round_rows
  worker,    \* its simulator workers: of a slot, for a round
  \* -- what has happened --
  made,      \* the optimizer steps: policy |-> its parent, its data, its depth
  last       \* the run last started in a directory

process == <<conf, pc, read, policy, opt, step, round, slot, got, rows>>
history == <<made, last>>
vars == <<file, process, worker, history>>

-----------------------------------------------------------------------------
Fresh == -1
SlotSet == 1..Slots
Rounds == UNION {1..c.rounds : c \in Configs}
Policies == 0..MaxPolicy
Seeded == {c.seed : c \in Configs}    \* policies of fresh adapters

Artifact(d, k, s) == <<d, "artifact", k, s>>
Checkpoint(d, k) == <<d, "checkpoint", k>>
Bundle(d) == <<d, "bundle">>
SummaryPath(d) == <<d, "summary">>
Paths ==
  UNION {{Bundle(d), SummaryPath(d)} \cup {Checkpoint(d, k) : k \in Rounds}
           \cup {Artifact(d, k, s) : k \in Rounds, s \in SlotSet} : d \in Dirs}

(* What main accepts of a configuration.                                   *)
ASSUME ConfigAssumption ==
  /\ None \notin Configs /\ Configs # {}
  /\ \A c \in Configs :
       /\ c.mode \in {"collect", "iterative", "branch", "load"} /\ c.dir \in Dirs
       /\ c.rounds \in Nat \ {0} /\ (c.mode # "iterative" => c.rounds = 1)
       /\ {c.initial, c.bundle} \subseteq Paths \cup {None}
       /\ c.seed \in Nat /\ c.dual \in BOOLEAN /\ c.resume \in BOOLEAN
       /\ c.mode = "branch" => c.bundle # None
       /\ c.mode = "load" => c.artifacts \in Seq(Paths) \ {<<>>}
       /\ c.resume => c.initial # None /\ c.mode \notin {"collect", "branch"}

Is(kind, content) == content \notin {Absent, Torn} /\ content.kind = kind

Mode(r) == conf[r].mode
EndedOrderly == {"idle", "done", "raised"}
Ended == {"idle", "done", "raised", "killed"}
Live(r) == pc[r] \notin Ended

Goto(r, where) == pc' = [pc EXCEPT ![r] = where]
Raise(r) == Goto(r, "closing")

Init ==
  /\ file = [p \in Paths |-> Absent]
  /\ conf = [r \in Runs |-> None]
  /\ pc = [r \in Runs |-> "idle"]
  /\ read = [r \in Runs |-> Absent]
  /\ policy = [r \in Runs |-> Fresh] /\ opt = [r \in Runs |-> Fresh]
  /\ step = [r \in Runs |-> 0] /\ round = [r \in Runs |-> 1]
  /\ slot = [r \in Runs |-> 1]
  /\ got = [r \in Runs |-> {}] /\ rows = [r \in Runs |-> <<>>]
  /\ worker = [r \in Runs |-> [w \in SlotSet \X Rounds |-> "none"]]
  /\ made = [p \in Seeded |-> [parent |-> p, data |-> {}, depth |-> 0]]
  /\ last = [d \in Dirs |-> None]

-----------------------------------------------------------------------------
(* main reads the checkpoint it starts from before it forks a worker, and  *)
(* _run_branch_update its bundle, which must be of one policy and round.   *)

BundleValid(b) ==
  /\ Is("bundle", b)
  /\ \A t \in b.data : t.policy = b.policy /\ t.round = b.round

Source(c) == IF c.mode = "branch" THEN c.bundle ELSE c.initial
Accepts(c, content) ==
  IF c.mode = "branch" THEN BundleValid(content) ELSE Is("checkpoint", content)

Start(r, c) ==
  /\ pc[r] = "idle"
  /\ \A q \in Runs : Live(q) => conf[q].dir # c.dir
  /\ conf' = [conf EXCEPT ![r] = c]
  /\ last' = [last EXCEPT ![c.dir] = r]
  /\ IF c.mode = "load"
     THEN Goto(r, "read") /\ UNCHANGED read
     ELSE IF Source(c) = None
     THEN Goto(r, "fork") /\ UNCHANGED read
     ELSE IF Accepts(c, file[Source(c)])
     THEN /\ read' = [read EXCEPT ![r] = file[Source(c)]]
          /\ Goto(r, IF c.mode = "branch" THEN "build" ELSE "fork")
     ELSE Raise(r) /\ UNCHANGED read
  /\ UNCHANGED <<file, policy, opt, step, round, slot, got, rows, worker, made>>

(* One worker per round is forked for every slot, before the model exists. *)
Fork(r) ==
  /\ pc[r] = "fork"
  /\ worker' = [worker EXCEPT ![r] = [w \in SlotSet \X Rounds |->
                  IF w[1] = slot[r] /\ w[2] <= conf[r].rounds THEN "fresh" ELSE @[w]]]
  /\ \/ IF slot[r] = Slots
        THEN Goto(r, "build") /\ slot' = [slot EXCEPT ![r] = 1]
        ELSE slot' = [slot EXCEPT ![r] = @ + 1] /\ UNCHANGED pc
     \/ Faults /\ Raise(r) /\ UNCHANGED slot
  /\ UNCHANGED <<file, conf, read, policy, opt, step, round, got, rows, history>>

(* The runtime reads the checkpoint again; its policy must be the one read *)
(* first, from which optimizer state and step are taken.  A branch is      *)
(* restored from the bundle in memory.                                     *)
Restored(r) ==
  IF read[r] = Absent THEN conf[r].seed
  ELSE IF Mode(r) = "branch" THEN read[r].policy
  ELSE IF Is("checkpoint", file[Source(conf[r])]) THEN file[Source(conf[r])].policy
  ELSE Fresh
AnyPolicy(r) == Restored(r) # Fresh
SamePolicy(r) == IF read[r] = Absent THEN TRUE ELSE Restored(r) = read[r].policy

Build(r) ==
  /\ pc[r] = "build"
  /\ policy' = [policy EXCEPT ![r] = Restored(r)]
  /\ IF SamePolicy(r)
     THEN /\ opt' = [opt EXCEPT ![r] = IF conf[r].resume THEN read[r].opt ELSE Fresh]
          /\ step' = [step EXCEPT ![r] = IF read[r] = Absent THEN 0 ELSE read[r].step]
          /\ IF Mode(r) = "branch"
             THEN Goto(r, "update") /\ got' = [got EXCEPT ![r] = read[r].data]
             ELSE Goto(r, "collect") /\ got' = [got EXCEPT ![r] = {}]
     ELSE Raise(r) /\ UNCHANGED <<opt, step, got>>
  /\ UNCHANGED <<file, conf, read, round, slot, rows, worker, history>>

-----------------------------------------------------------------------------
(* A rollout of the round on a worker of its own, which is then closed,    *)
(* and its artifact.                                                       *)

(* branch_update takes its round from the bundle.                          *)
RoundId(r) == IF Mode(r) = "branch" THEN read[r].round ELSE round[r]
BundleStepZero(r) == 0
BundleStep(r) == step[r]

WorkerOf(r) == <<slot[r], round[r]>>
Trajectory(r) ==
  [kind |-> "artifact", slot |-> slot[r], round |-> round[r], policy |-> policy[r],
   group |-> conf[r].group, run |-> r]

Collect(r) ==
  /\ pc[r] = "collect"
  /\ \/ /\ worker[r][WorkerOf(r)] = "fresh"
        /\ worker' = [worker EXCEPT ![r][WorkerOf(r)] = "closed"]
        /\ got' = [got EXCEPT ![r] = @ \cup {Trajectory(r)}]
        /\ Goto(r, "save")
     \/ /\ Faults \/ worker[r][WorkerOf(r)] # "fresh"
        /\ Raise(r) /\ UNCHANGED <<worker, got>>
  /\ UNCHANGED <<file, conf, read, policy, opt, step, round, slot, rows, history>>

NextSlotKept(r) == IF slot[r] < Slots THEN slot[r] + 1 ELSE slot[r]
NextSlot(r) == IF slot[r] < Slots THEN slot[r] + 1 ELSE 1
Save(r) ==
  /\ pc[r] = "save"
  /\ file' = [file EXCEPT ![Artifact(conf[r].dir, round[r], slot[r])] = Trajectory(r)]
  /\ slot' = [slot EXCEPT ![r] = NextSlot(r)]
  /\ Goto(r, IF slot[r] < Slots THEN "collect"
             ELSE IF Mode(r) = "collect" THEN "bundle" ELSE "update")
  /\ UNCHANGED <<conf, read, policy, opt, step, round, got, rows, worker, history>>

(* _build_rollout_bundle, in dual_lora collections.                        *)
WriteBundle(r) ==
  /\ pc[r] = "bundle"
  /\ file' = [file EXCEPT ![Bundle(conf[r].dir)] =
       IF conf[r].dual
       THEN [kind |-> "bundle", policy |-> policy[r], round |-> round[r],
             step |-> BundleStep(r), data |-> got[r], opt |-> Fresh]
       ELSE @]
  /\ Goto(r, "summary")
  /\ UNCHANGED <<conf, read, policy, opt, step, round, slot, got, rows, worker, history>>

-----------------------------------------------------------------------------
(* _update_round takes data of this round and of the live policy only.     *)

Fits(r) == \A t \in got[r] : t.round = RoundId(r) /\ t.policy = policy[r]

Update(r) ==
  /\ pc[r] = "update"
  /\ \/ /\ Fits(r)
        /\ \E p \in Policies \ DOMAIN made :
             /\ \A q \in Policies \ DOMAIN made : p <= q
             /\ made' = [q \in DOMAIN made \cup {p} |->
                           IF q = p
                           THEN [parent |-> policy[r], data |-> got[r],
                                 depth |-> made[policy[r]].depth + 1]
                           ELSE made[q]]
             /\ policy' = [policy EXCEPT ![r] = p]
             /\ opt' = [opt EXCEPT ![r] = p]
             /\ step' = [step EXCEPT ![r] = @ + 1]
        /\ Goto(r, "checkpoint")
     \/ /\ Faults \/ ~Fits(r)
        /\ Raise(r) /\ UNCHANGED <<made, policy, opt, step>>
  /\ UNCHANGED <<file, conf, read, round, slot, got, rows, worker, last>>

RowFromStart(r) == [before |-> IF read[r] = Absent THEN conf[r].seed ELSE read[r].policy,
                    after |-> policy[r], step |-> step[r]]
Row(r) == [before |-> made[policy[r]].parent, after |-> policy[r], step |-> step[r]]

SaveCheckpoint(r) ==
  /\ pc[r] = "checkpoint"
  /\ file' = [file EXCEPT ![Checkpoint(conf[r].dir, round[r])] =
       [kind |-> "checkpoint", policy |-> policy[r], before |-> Row(r).before,
        step |-> step[r], opt |-> opt[r]]]
  /\ rows' = [rows EXCEPT ![r] = Append(@, Row(r))]
  /\ IF round[r] < conf[r].rounds
     THEN round' = [round EXCEPT ![r] = @ + 1] /\ Goto(r, "collect")
          /\ got' = [got EXCEPT ![r] = {}]
     ELSE Goto(r, "summary") /\ UNCHANGED <<round, got>>
  /\ UNCHANGED <<conf, read, policy, opt, step, slot, worker, history>>

WriteSummary(r) ==
  /\ pc[r] = "summary"
  /\ file' = [file EXCEPT ![SummaryPath(conf[r].dir)] =
       [kind |-> "summary", run |-> r, mode |-> Mode(r), rows |-> rows[r], data |-> got[r]]]
  /\ Goto(r, "finish")
  /\ UNCHANGED <<conf, read, policy, opt, step, round, slot, got, rows, worker, history>>
-----------------------------------------------------------------------------
(* _load_trajectory_artifacts reads one path after the other and then      *)
(* compares: every rollout once, one policy, one round, the group asked    *)
(* for.                                                                    *)

ReadArtifact(r) ==
  /\ pc[r] = "read"
  /\ LET content == file[conf[r].artifacts[slot[r]]]
     IN IF Is("artifact", content) /\ content \notin got[r]
        THEN /\ got' = [got EXCEPT ![r] = @ \cup {content}]
             /\ IF slot[r] = Len(conf[r].artifacts)
                THEN Goto(r, "compare") /\ UNCHANGED slot
                ELSE slot' = [slot EXCEPT ![r] = @ + 1] /\ UNCHANGED pc
        ELSE Raise(r) /\ UNCHANGED <<got, slot>>
  /\ UNCHANGED <<file, conf, read, policy, opt, step, round, rows, worker, history>>

Covered(r) ==
  /\ \A s \in SlotSet : \E t \in got[r] : t.slot = s
  /\ Cardinality(got[r]) = Slots
  /\ \A t \in got[r] : t.group = conf[r].group
ComparesRounds(r) == Covered(r) /\ \A t, u \in got[r] : t.round = u.round
Compares(r) == Covered(r) /\ \A t, u \in got[r] : t.policy = u.policy /\ t.round = u.round

Compare(r) ==
  /\ pc[r] = "compare"
  /\ IF Compares(r) THEN Goto(r, "loaded") ELSE Raise(r)
  /\ UNCHANGED <<file, conf, read, policy, opt, step, round, slot, got, rows, worker, history>>

-----------------------------------------------------------------------------
(* The finally of main closes the workers one by one; a failure leaves the *)
(* rest to the end of the process.                                         *)

End(r) ==
  /\ pc[r] \in {"finish", "closing", "loaded"}
  /\ \E closed \in SUBSET (SlotSet \X Rounds) :
       /\ Faults \/ closed = SlotSet \X Rounds
       /\ closed \in {{}, SlotSet \X Rounds}
       /\ worker' = [worker EXCEPT ![r] = [w \in SlotSet \X Rounds |->
                       IF w \in closed /\ @[w] = "fresh" THEN "closed" ELSE @[w]]]
       /\ Goto(r, IF pc[r] # "closing" /\ closed = SlotSet \X Rounds THEN "done" ELSE "raised")
  /\ UNCHANGED <<file, conf, read, policy, opt, step, round, slot, got, rows, history>>

(* A process that is killed while it writes an artifact or a bundle leaves *)
(* part of it; checkpoints and summaries are replaced atomically.          *)
Writing(r) ==
  CASE pc[r] = "save" -> {Artifact(conf[r].dir, round[r], slot[r])}
    [] pc[r] = "bundle" /\ conf[r].dual -> {Bundle(conf[r].dir)}
    [] OTHER -> {}
Kill(r) ==
  /\ Faults /\ Live(r)
  /\ \E part \in {{}, Writing(r)} :
       file' = [p \in Paths |-> IF p \in part THEN Torn ELSE file[p]]
  /\ Goto(r, "killed")
  /\ UNCHANGED <<conf, read, policy, opt, step, round, slot, got, rows, worker, history>>

(* A worker whose process has ended reads the end of its pipe.             *)
WorkerEnds(r, w) ==
  /\ ~Live(r) /\ worker[r][w] = "fresh"
  /\ worker' = [worker EXCEPT ![r][w] = "closed"]
  /\ UNCHANGED <<file, process, history>>

Step(r) ==
  \/ Fork(r) \/ Build(r) \/ Collect(r) \/ Save(r) \/ WriteBundle(r)
  \/ Update(r) \/ SaveCheckpoint(r) \/ WriteSummary(r)
  \/ ReadArtifact(r) \/ Compare(r) \/ End(r)

Next ==
  \E r \in Runs :
    \/ \E c \in Configs : Start(r, c)
    \/ Step(r)
    \/ Kill(r)
    \/ \E w \in SlotSet \X Rounds : WorkerEnds(r, w)

Spec == Init /\ [][Next]_vars

(* A run that is alive goes on, and an abandoned worker ends.              *)
FairSpec ==
  /\ Spec
  /\ \A r \in Runs : WF_vars(Step(r))
  /\ \A r \in Runs : \A w \in SlotSet \X Rounds : WF_vars(WorkerEnds(r, w))

-----------------------------------------------------------------------------
(* Properties                                                              *)

(* Type invariant of runs and their files.                                 *)
TypeOK ==
  /\ \A p \in Paths : Is("artifact", file[p]) => file[p].policy \in DOMAIN made
  /\ \A r \in Runs :
       /\ conf[r] \in Configs \cup {None} /\ policy[r] \in DOMAIN made \cup {Fresh}
       /\ step[r] \in Nat /\ round[r] \in Rounds
       /\ pc[r] \in {"fork", "collect", "save"} => slot[r] \in SlotSet
       /\ \A w \in SlotSet \X Rounds : worker[r][w] \in {"none", "fresh", "closed"}

(* However runs are chained - collected, branched, continued from a        *)
(* checkpoint - a checkpoint's global_optimizer_step is the number of      *)
(* steps between the fresh adapter and its policy, and its                 *)
(* policy_version_before the policy the last of them started from.         *)
LineageCounted ==
  \A p \in Paths : Is("checkpoint", file[p]) =>
    /\ file[p].step = made[file[p].policy].depth
    /\ file[p].before = made[file[p].policy].parent

(* Every optimizer step was taken on data that the policy it changed had   *)
(* collected itself, one trajectory of every rollout, all by one process.  *)
OnPolicy ==
  \A p \in DOMAIN made \ Seeded :
    /\ \A t, u \in made[p].data : t.policy = made[p].parent /\ t.run = u.run
    /\ \A s \in SlotSet : \E t \in made[p].data : t.slot = s
    /\ Cardinality(made[p].data) = Slots

(* A run that resumes its optimizer has adapter, optimizer state and step  *)
(* from one checkpoint, although it reads the file twice and the file may  *)
(* be replaced in between.                                                 *)
ResumeWhole ==
  \A r \in Runs : pc[r] = "collect" /\ conf[r].resume =>
    opt[r] = policy[r] /\ step[r] = made[policy[r]].depth

(* Artifacts that trajectory_update accepts are of one policy and round,   *)
(* one of every rollout, although collections may be killed and repeated   *)
(* in the same directory while they are read.                              *)
LoadedCoherent ==
  \A r \in Runs : pc[r] = "loaded" =>
    /\ \A t, u \in got[r] : t.policy = u.policy /\ t.round = u.round
    /\ {t.slot : t \in got[r]} = SlotSet

(* As long as no later run has used its directory, a summary tells what is *)
(* there: an update's checkpoints, each starting where the one before it   *)
(* ended, and a collection's trajectories.                                 *)
SummaryTrue ==
  \A d \in Dirs : LET summary == file[SummaryPath(d)] IN
    Is("summary", summary) /\ summary.run = last[d] =>
      IF summary.mode = "collect"
      THEN \A t \in summary.data : file[Artifact(d, t.round, t.slot)] = t
      ELSE \A k \in DOMAIN summary.rows :
             /\ file[Checkpoint(d, k)].policy = summary.rows[k].after
             /\ file[Checkpoint(d, k)].before = summary.rows[k].before
             /\ k > 1 => summary.rows[k].before = summary.rows[k - 1].after

(* What the checkpoints of chained, killed and repeated runs say of their  *)
(* policies is so: adapter, optimizer and step counts that are resumed or  *)
(* saved belong together, and every step was on-policy.                    *)
LineageKept == TypeOK /\ OnPolicy /\ LineageCounted /\ ResumeWhole

(* What a reader accepts is of one collection, and a summary tells what is *)
(* in its directory.                                                       *)
ReadsOneRun == LoadedCoherent /\ SummaryTrue

(* Every run ends and so does every simulator worker it forked.            *)
WorkersEnd ==
  \A r \in Runs : \A w \in SlotSet \X Rounds :
    worker[r][w] = "fresh" ~> worker[r][w] = "closed"

(* Where nothing fails, a run whose model has been built completes all its *)
(* rounds: no check of a worker, of labels or of policies stops it.        *)
BuiltRunsComplete ==
  \A r \in Runs : pc[r] \in {"collect", "update"} ~> pc[r] = "done"
=============================================================================
