-------------------------- MODULE TrainerRunsProofs --------------------------
(***************************************************************************)
(* Proofs about the runs of the trainer, for any number of processes,      *)
(* rollouts, rounds and directories: every optimizer step is on-policy,    *)
(* what checkpoints say of their policies is so, and summaries tell what   *)
(* is in their directories.                                                *)
(***************************************************************************)
EXTENDS TrainerRuns, FiniteSetTheorems, SequenceTheorems, TLAPS

-----------------------------------------------------------------------------
(* The parts of the inductive invariant.                                   *)

Places == {"idle", "fork", "build", "collect", "save", "bundle", "update", "checkpoint",
           "summary", "finish", "read", "compare", "loaded", "closing", "done", "raised",
           "killed"}
RowSet == [before : Int, after : Int, step : Nat]

Domains ==
  /\ DOMAIN file = Paths /\ DOMAIN last = Dirs
  /\ DOMAIN conf = Runs /\ DOMAIN pc = Runs /\ DOMAIN read = Runs /\ DOMAIN policy = Runs
  /\ DOMAIN opt = Runs /\ DOMAIN step = Runs /\ DOMAIN round = Runs /\ DOMAIN slot = Runs
  /\ DOMAIN got = Runs /\ DOMAIN rows = Runs
  /\ worker \in [Runs -> [SlotSet \X Rounds -> {"none", "fresh", "closed"}]]
Typed ==
  /\ Domains
  /\ \A r \in Runs :
       /\ conf[r] \in Configs \cup {None} /\ pc[r] \in Places
       /\ policy[r] \in Int /\ step[r] \in Nat
       /\ round[r] \in Nat \ {0} /\ slot[r] \in Nat \ {0}
       /\ rows[r] \in Seq(RowSet)

(* The optimizer steps start from the seeded policies and are never redone.*)
MadeTrue ==
  /\ Seeded \subseteq DOMAIN made /\ DOMAIN made \subseteq Nat
  /\ \A p \in Seeded : made[p].depth = 0
  /\ \A p \in DOMAIN made : made[p].depth \in Nat /\ made[p].parent \in Nat

(* What a run is, from where it is; before it starts nothing is known.     *)
Configured ==
  \A r \in Runs :
    /\ pc[r] = "idle" => /\ read[r] = Absent /\ round[r] = 1 /\ slot[r] = 1
                         /\ rows[r] = <<>> /\ got[r] = {}
    /\ pc[r] # "idle" => /\ conf[r] \in Configs /\ round[r] <= conf[r].rounds
                         /\ read[r] # Absent => Source(conf[r]) # None
    /\ pc[r] \in {"fork", "collect", "save"} =>
         Mode(r) \in {"collect", "iterative"} /\ slot[r] \in SlotSet
    /\ pc[r] \in {"update", "checkpoint"} => Mode(r) \in {"iterative", "branch"}
    /\ pc[r] = "bundle" => Mode(r) = "collect"
    /\ pc[r] \in {"build", "summary", "finish"} => Mode(r) # "load"
    /\ pc[r] \in {"read", "compare", "loaded"} => Mode(r) = "load"
    /\ pc[r] \in {"build", "update", "checkpoint"} => slot[r] = 1
    /\ pc[r] = "build" => /\ Mode(r) = "branch" => read[r] # Absent
                          /\ conf[r].resume => read[r] # Absent
                          /\ rows[r] = <<>> /\ round[r] = 1
    /\ pc[r] = "fork" => /\ rows[r] = <<>> /\ round[r] = 1
                         /\ conf[r].resume => read[r] # Absent

(* One trajectory of every rollout, all collected by one process with one  *)
(* policy.                                                                 *)
Whole(data, p) ==
  /\ \A t, u \in data : t.policy = p /\ t.run = u.run
  /\ \A s \in SlotSet : \E t \in data : t.slot = s
  /\ Cardinality(data) = Slots
StepsWhole == \A p \in DOMAIN made \ Seeded : Whole(made[p].data, made[p].parent)

CheckpointTrue(c) ==
  /\ c.policy \in DOMAIN made /\ c.opt = c.policy
  /\ c.step = made[c.policy].depth /\ c.before = made[c.policy].parent
BundleTrue(c) ==
  /\ c.policy \in DOMAIN made /\ c.step = made[c.policy].depth /\ Whole(c.data, c.policy)

(* What is in a file and what has been read of one.                        *)
FileTrue(c) ==
  /\ Is("artifact", c) => c.policy \in DOMAIN made /\ c.slot \in SlotSet
  /\ Is("checkpoint", c) => CheckpointTrue(c)
  /\ Is("bundle", c) => BundleTrue(c)
FilesTrue == \A p \in Paths : FileTrue(file[p])
ReadTrue ==
  \A r \in Runs : read[r] # Absent =>
    IF Mode(r) = "branch" THEN BundleTrue(read[r]) ELSE CheckpointTrue(read[r])

(* The adapter of a run, its step count and its optimizer state.           *)
Adapted(r) == pc[r] \in {"collect", "save", "bundle", "update", "checkpoint", "summary", "finish"}
LiveTrue ==
  \A r \in Runs :
    /\ policy[r] \in DOMAIN made \cup {Fresh}
    /\ Adapted(r) => policy[r] \in DOMAIN made /\ step[r] = made[policy[r]].depth
    /\ pc[r] \in {"collect", "save", "update"} /\ conf[r].resume => opt[r] = policy[r]
    /\ pc[r] = "checkpoint" => opt[r] = policy[r]

(* The trajectories of a round: its own policy's, up to its slot.          *)
Own(r, n) ==
  /\ got[r] = {[kind |-> "artifact", slot |-> s, round |-> round[r], policy |-> policy[r],
                group |-> conf[r].group, run |-> r] : s \in 1..n}
  /\ IsFiniteSet(got[r]) /\ Cardinality(got[r]) = n
Collected ==
  \A r \in Runs :
    /\ pc[r] = "collect" => Own(r, slot[r] - 1)
    /\ pc[r] = "save" => Own(r, slot[r])
    /\ pc[r] = "bundle" => Own(r, Slots)
    /\ pc[r] = "update" => Whole(got[r], policy[r])

(* What trajectory_update has read.                                        *)
Loads ==
  \A r \in Runs :
    /\ pc[r] \in {"read", "compare", "loaded"} => \A t \in got[r] : t.slot \in SlotSet
    /\ pc[r] = "read" => slot[r] \in 1..Len(conf[r].artifacts)
    /\ pc[r] = "loaded" => Compares(r)

(* A directory is written by the live run that has started in it last.     *)
LastIsLive == \A r \in Runs : Live(r) => last[conf[r].dir] = r

(* The rows of an update and the artifacts of a collection are in the      *)
(* files of the run's directory.                                           *)
RowsInFiles(rs, d) ==
  \A k \in DOMAIN rs :
    /\ k \in Rounds /\ file[Checkpoint(d, k)].policy = rs[k].after
    /\ file[Checkpoint(d, k)].before = rs[k].before
    /\ k > 1 => rs[k].before = rs[k - 1].after
RowsTrue ==
  \A r \in Runs :
    pc[r] \in {"collect", "save", "bundle", "update", "checkpoint", "summary"} =>
      /\ RowsInFiles(rows[r], conf[r].dir)
      /\ pc[r] # "summary" => Len(rows[r]) = round[r] - 1
      /\ Len(rows[r]) <= conf[r].rounds
      /\ Len(rows[r]) > 0 =>
           /\ pc[r] \in {"collect", "save", "update"} => rows[r][Len(rows[r])].after = policy[r]
           /\ pc[r] = "checkpoint" => rows[r][Len(rows[r])].after = made[policy[r]].parent
DataInFiles(data, d) ==
  \A t \in data : /\ t.round \in Rounds /\ t.slot \in SlotSet
                  /\ file[Artifact(d, t.round, t.slot)] = t
DataTrue ==
  \A r \in Runs :
    /\ pc[r] \in {"collect", "bundle", "summary"} /\ Mode(r) = "collect" =>
         DataInFiles(got[r], conf[r].dir)
    /\ pc[r] = "save" /\ Mode(r) = "collect" =>
         DataInFiles({t \in got[r] : t.slot # slot[r]}, conf[r].dir)

SummariesTrue ==
  \A d \in Dirs : LET summary == file[SummaryPath(d)] IN
    Is("summary", summary) =>
      /\ summary.run \in Runs /\ conf[summary.run].dir = d
      /\ pc[summary.run] \in {"finish", "closing", "done", "raised", "killed"}
      /\ summary.run = last[d] =>
           IF summary.mode = "collect" THEN DataInFiles(summary.data, d)
           ELSE RowsInFiles(summary.rows, d)

-----------------------------------------------------------------------------
(* Paths, places and rounds.                                               *)

LEMMA ConfigFacts ==
  /\ \A c \in Configs : c.seed \in Seeded /\ \A k \in 1..c.rounds : k \in Rounds
  /\ 1 \in Rounds /\ Rounds \subseteq Nat
BY ConfigAssumption DEF Seeded, Rounds

(* The files of a directory are among the paths.                           *)
LEMMA PathFacts ==
  ASSUME NEW d \in Dirs
  PROVE  /\ Bundle(d) \in Paths /\ SummaryPath(d) \in Paths
         /\ \A k \in Rounds : Checkpoint(d, k) \in Paths
         /\ \A k \in Rounds, s \in SlotSet : Artifact(d, k, s) \in Paths
BY DEF Paths

(* A path tells its directory, kind, round and slot.                       *)
LEMMA PathsDiffer ==
  ASSUME NEW d, NEW e, NEW k, NEW n, NEW s, NEW m
  PROVE  /\ Artifact(d, k, s) = Artifact(e, n, m) => d = e /\ k = n /\ s = m
         /\ Checkpoint(d, k) = Checkpoint(e, n) => d = e /\ k = n
         /\ Bundle(d) = Bundle(e) => d = e
         /\ SummaryPath(d) = SummaryPath(e) => d = e
         /\ Artifact(d, k, s) # Checkpoint(e, n) /\ Artifact(d, k, s) # Bundle(e)
         /\ Artifact(d, k, s) # SummaryPath(e) /\ Checkpoint(d, k) # Bundle(e)
         /\ Checkpoint(d, k) # SummaryPath(e) /\ Bundle(d) # SummaryPath(e)
BY DEF Artifact, Checkpoint, Bundle, SummaryPath

(* The types hold initially.                                               *)
LEMMA InitTyped == Init => Typed
<1> SUFFICES ASSUME Init PROVE Typed
  OBVIOUS
<1>2. worker \in [Runs -> [SlotSet \X Rounds -> {"none", "fresh", "closed"}]]
  BY DEF Init
<1>3. Domains
  BY <1>2 DEF Init, Domains
<1>4. ASSUME NEW r \in Runs PROVE rows[r] \in Seq(RowSet)
  BY DEF Init
<1>5. QED
  BY <1>3, <1>4 DEF Init, Typed, Places, Fresh

-----------------------------------------------------------------------------
(* What the steps do to each part of the state: to one run,                *)

StateKept(r) ==
  /\ policy'[r] = policy[r] /\ opt'[r] = opt[r] /\ step'[r] = step[r] /\ round'[r] = round[r]
  /\ got'[r] = got[r] /\ rows'[r] = rows[r]
Kept(r) == StateKept(r) /\ conf'[r] = conf[r] /\ read'[r] = read[r] /\ slot'[r] = slot[r]

Started(r) ==
  /\ pc[r] = "idle" /\ conf'[r] \in Configs /\ StateKept(r) /\ slot'[r] = slot[r]
  /\ \A q \in Runs : Live(q) => conf[q].dir # conf'[r].dir
  /\ last' = [last EXCEPT ![conf'[r].dir] = r]
  /\ \/ pc'[r] = "read" /\ conf'[r].mode = "load" /\ read'[r] = read[r]
     \/ /\ pc'[r] = "fork" /\ conf'[r].mode # "load" /\ Source(conf'[r]) = None
        /\ read'[r] = read[r]
     \/ /\ conf'[r].mode # "load" /\ Source(conf'[r]) # None
        /\ Accepts(conf'[r], file[Source(conf'[r])])
        /\ read'[r] = file[Source(conf'[r])]
        /\ pc'[r] = IF conf'[r].mode = "branch" THEN "build" ELSE "fork"
     \/ pc'[r] = "closing" /\ read'[r] = read[r]
Stopped(r) == Kept(r) /\ Live(r) /\ pc'[r] \in {"closing", "killed"}
Finished(r) ==
  /\ Kept(r) /\ pc[r] \in {"finish", "closing", "loaded"} /\ pc'[r] \in {"done", "raised"}
Forked(r) ==
  /\ StateKept(r) /\ conf'[r] = conf[r] /\ read'[r] = read[r] /\ pc[r] = "fork"
  /\ \/ slot[r] = Slots /\ pc'[r] = "build" /\ slot'[r] = 1
     \/ slot[r] # Slots /\ pc'[r] = "fork" /\ slot'[r] = slot[r] + 1
Rebuilt(r) ==
  /\ conf'[r] = conf[r] /\ read'[r] = read[r] /\ round'[r] = round[r] /\ slot'[r] = slot[r]
  /\ rows'[r] = rows[r] /\ pc[r] = "build" /\ policy'[r] = Restored(r)
  /\ \/ /\ SamePolicy(r) /\ opt'[r] = IF conf[r].resume THEN read[r].opt ELSE Fresh
        /\ step'[r] = IF read[r] = Absent THEN 0 ELSE read[r].step
        /\ \/ Mode(r) = "branch" /\ pc'[r] = "update" /\ got'[r] = read[r].data
           \/ Mode(r) # "branch" /\ pc'[r] = "collect" /\ got'[r] = {}
     \/ pc'[r] = "closing" /\ opt'[r] = opt[r] /\ step'[r] = step[r] /\ got'[r] = got[r]
Rolled(r) ==
  /\ pc[r] = "collect" /\ pc'[r] = "save" /\ got'[r] = got[r] \cup {Trajectory(r)}
  /\ conf'[r] = conf[r] /\ read'[r] = read[r] /\ policy'[r] = policy[r] /\ opt'[r] = opt[r]
  /\ step'[r] = step[r] /\ round'[r] = round[r] /\ slot'[r] = slot[r] /\ rows'[r] = rows[r]
Saved(r) ==
  /\ Save(r) /\ StateKept(r) /\ conf'[r] = conf[r] /\ read'[r] = read[r] /\ pc[r] = "save"
  /\ file' = [file EXCEPT ![Artifact(conf[r].dir, round[r], slot[r])] = Trajectory(r)]
  /\ \/ slot[r] < Slots /\ slot'[r] = slot[r] + 1 /\ pc'[r] = "collect"
     \/ ~(slot[r] < Slots) /\ slot'[r] = 1
        /\ pc'[r] = IF Mode(r) = "collect" THEN "bundle" ELSE "update"
Wrote(r) ==
  /\ Kept(r)
  /\ \/ pc[r] = "bundle" /\ pc'[r] = "summary" /\ WriteBundle(r)
     \/ pc[r] = "summary" /\ pc'[r] = "finish" /\ WriteSummary(r)
Updated(r) ==
  /\ pc[r] = "update" /\ pc'[r] = "checkpoint" /\ Fits(r) /\ step'[r] = step[r] + 1
  /\ conf'[r] = conf[r] /\ read'[r] = read[r] /\ round'[r] = round[r] /\ slot'[r] = slot[r]
  /\ got'[r] = got[r] /\ rows'[r] = rows[r] /\ opt'[r] = policy'[r]
  /\ policy'[r] \in Policies \ DOMAIN made
  /\ made' = [q \in DOMAIN made \cup {policy'[r]} |->
                IF q = policy'[r] THEN [parent |-> policy[r], data |-> got[r],
                                        depth |-> made[policy[r]].depth + 1]
                ELSE made[q]]
Checkpointed(r) ==
  /\ SaveCheckpoint(r) /\ pc[r] = "checkpoint" /\ rows'[r] = Append(rows[r], Row(r))
  /\ file' = [file EXCEPT ![Checkpoint(conf[r].dir, round[r])] =
       [kind |-> "checkpoint", policy |-> policy[r], before |-> Row(r).before,
        step |-> step[r], opt |-> opt[r]]]
  /\ conf'[r] = conf[r] /\ read'[r] = read[r] /\ policy'[r] = policy[r] /\ opt'[r] = opt[r]
  /\ step'[r] = step[r] /\ slot'[r] = slot[r]
  /\ \/ /\ round[r] < conf[r].rounds /\ round'[r] = round[r] + 1 /\ pc'[r] = "collect"
        /\ got'[r] = {}
     \/ ~(round[r] < conf[r].rounds) /\ round'[r] = round[r] /\ pc'[r] = "summary"
        /\ got'[r] = got[r]
Loaded(r) ==
  /\ conf'[r] = conf[r] /\ read'[r] = read[r] /\ policy'[r] = policy[r] /\ opt'[r] = opt[r]
  /\ step'[r] = step[r] /\ round'[r] = round[r] /\ rows'[r] = rows[r]
  /\ \/ /\ pc[r] = "read" /\ got'[r] = got[r] \cup {file[conf[r].artifacts[slot[r]]]}
        /\ Is("artifact", file[conf[r].artifacts[slot[r]]])
        /\ \/ slot[r] = Len(conf[r].artifacts) /\ slot'[r] = slot[r] /\ pc'[r] = "compare"
           \/ slot[r] # Len(conf[r].artifacts) /\ slot'[r] = slot[r] + 1 /\ pc'[r] = "read"
     \/ /\ pc[r] = "compare" /\ Compares(r) /\ pc'[r] = "loaded"
        /\ got'[r] = got[r] /\ slot'[r] = slot[r]
Moves(r) ==
  \/ Started(r) \/ Stopped(r) \/ Finished(r) \/ Forked(r) \/ Rebuilt(r) \/ Rolled(r) \/ Saved(r)
  \/ Wrote(r) \/ Updated(r) \/ Checkpointed(r) \/ Loaded(r)

(* What a step of a run may change, by where it is.                        *)
LEMMA StepMoves == ASSUME Domains, NEW r \in Runs, Step(r) PROVE Moves(r)
<1> USE DEF Domains
<1>1. CASE Fork(r)
  BY <1>1 DEF Fork, Moves, Forked, Stopped, Kept, StateKept, Goto, Raise, Live, Ended
<1>2. CASE Build(r)
  BY <1>2 DEF Build, Moves, Rebuilt, Goto, Raise
<1>3. CASE Collect(r)
  BY <1>3 DEF Collect, Moves, Rolled, Stopped, Kept, StateKept, Goto, Raise, Live, Ended
<1>4. CASE Save(r)
  BY <1>4 DEF Save, Moves, Saved, StateKept, Goto, NextSlot
<1>5. CASE WriteBundle(r)
  BY <1>5 DEF WriteBundle, Moves, Wrote, Kept, StateKept, Goto
<1>6. CASE Update(r)
  <2>1. CASE pc' = [pc EXCEPT ![r] = "checkpoint"]
    <3>1. PICK p \in Policies \ DOMAIN made :
            /\ made' = [q \in DOMAIN made \cup {p} |->
                          IF q = p THEN [parent |-> policy[r], data |-> got[r],
                                         depth |-> made[policy[r]].depth + 1]
                          ELSE made[q]]
            /\ policy' = [policy EXCEPT ![r] = p] /\ opt' = [opt EXCEPT ![r] = p]
            /\ step' = [step EXCEPT ![r] = @ + 1]
      BY <1>6, <2>1 DEF Update, Goto, Raise
    <3>2. policy'[r] = p /\ opt'[r] = p /\ step'[r] = step[r] + 1
      BY <3>1
    <3>3. pc[r] = "update" /\ pc'[r] = "checkpoint" /\ Fits(r)
      BY <1>6, <2>1 DEF Update, Goto, Raise
    <3>4. conf'[r] = conf[r] /\ read'[r] = read[r] /\ round'[r] = round[r]
      BY <1>6 DEF Update
    <3>5. slot'[r] = slot[r] /\ got'[r] = got[r] /\ rows'[r] = rows[r]
      BY <1>6 DEF Update
    <3>6. made' = [q \in DOMAIN made \cup {policy'[r]} |->
                IF q = policy'[r] THEN [parent |-> policy[r], data |-> got[r],
                                        depth |-> made[policy[r]].depth + 1]
                ELSE made[q]]
      BY <3>1, <3>2, Zenon
    <3>7. QED
      BY <3>1, <3>2, <3>3, <3>4, <3>5, <3>6 DEF Moves, Updated
  <2>2. CASE pc' # [pc EXCEPT ![r] = "checkpoint"]
    BY <1>6, <2>2 DEF Update, Moves, Stopped, Kept, StateKept, Goto, Raise, Live, Ended
  <2>3. QED
    BY <2>1, <2>2
<1>7. CASE SaveCheckpoint(r)
  BY <1>7 DEF SaveCheckpoint, Moves, Checkpointed, Goto
<1>8. CASE WriteSummary(r)
  BY <1>8 DEF WriteSummary, Moves, Wrote, Kept, StateKept, Goto
<1>9. CASE ReadArtifact(r)
  BY <1>9 DEF ReadArtifact, Moves, Loaded, Stopped, Kept, StateKept, Goto, Raise, Live, Ended
<1>10. CASE Compare(r)
  BY <1>10 DEF Compare, Moves, Loaded, Stopped, Kept, StateKept, Goto, Raise, Live, Ended
<1>11. CASE End(r)
  BY <1>11 DEF End, Moves, Finished, Kept, StateKept, Goto
<1>12. QED
  BY <1>1, <1>2, <1>3, <1>4, <1>5, <1>6, <1>7, <1>8, <1>9, <1>10, <1>11 DEF Step

(* A run moves by its own steps only.                                      *)
LEMMA RunMoves ==
  ASSUME Domains, [Next]_vars, NEW r \in Runs
  PROVE  (Kept(r) /\ pc'[r] = pc[r]) \/ Moves(r)
<1> USE DEF Domains
<1> DEFINE Same == Kept(r) /\ pc'[r] = pc[r]
<1>1. ASSUME NEW q \in Runs, NEW c \in Configs, Start(q, c) PROVE Same \/ Moves(r)
  <2>1. CASE q = r
    BY <1>1, <2>1, ConfigAssumption DEF Start, Goto, Raise, Moves, Started, StateKept
  <2>2. CASE q # r
    BY <1>1, <2>2 DEF Start, Goto, Raise, Kept, StateKept
  <2>3. QED
    BY <2>1, <2>2
<1>2. ASSUME Kill(r) PROVE Moves(r)
  BY <1>2 DEF Kill, Goto, Moves, Stopped, Kept, StateKept
<1>3. ASSUME NEW q \in Runs, q # r, Step(q) \/ Kill(q) PROVE Same
  <2> USE DEF Kept, StateKept
  <2>1. CASE Kill(q)
    BY <1>3, <2>1 DEF Kill, Goto
  <2>2. CASE Fork(q) \/ Collect(q)
    BY <1>3, <2>2 DEF Fork, Collect, Goto, Raise
  <2>3. CASE Build(q)
    BY <1>3, <2>3 DEF Build, Goto, Raise
  <2>4. CASE Save(q) \/ WriteBundle(q)
    BY <1>3, <2>4 DEF Save, WriteBundle, Goto, Raise
  <2>5. CASE Update(q)
    BY <1>3, <2>5 DEF Update, Goto, Raise
  <2>6. CASE SaveCheckpoint(q) \/ WriteSummary(q)
    BY <1>3, <2>6 DEF SaveCheckpoint, WriteSummary, Goto, Raise
  <2>7. CASE ReadArtifact(q) \/ Compare(q)
    BY <1>3, <2>7 DEF ReadArtifact, Compare, Goto, Raise
  <2>8. CASE End(q)
    BY <1>3, <2>8 DEF End, Goto
  <2>9. QED
    BY <1>3, <2>1, <2>2, <2>3, <2>4, <2>5, <2>6, <2>7, <2>8 DEF Step
<1>4. ASSUME NEW q \in Runs, NEW w \in SlotSet \X Rounds, WorkerEnds(q, w) PROVE Same
  BY <1>4 DEF WorkerEnds, process, Kept, StateKept
<1>5. CASE UNCHANGED vars
  BY <1>5 DEF vars, process, Kept, StateKept
<1>6. QED
  BY <1>1, <1>2, <1>3, <1>4, <1>5, StepMoves DEF Next

(* A file changes by the step that writes it, or is torn.                  *)
Written(r, p) ==
  \/ Save(r) /\ p = Artifact(conf[r].dir, round[r], slot[r]) /\ file'[p] = Trajectory(r)
  \/ /\ WriteBundle(r) /\ conf[r].dual /\ p = Bundle(conf[r].dir)
     /\ file'[p] = [kind |-> "bundle", policy |-> policy[r], round |-> round[r],
                    step |-> BundleStep(r), data |-> got[r], opt |-> Fresh]
  \/ /\ SaveCheckpoint(r) /\ p = Checkpoint(conf[r].dir, round[r])
     /\ file'[p] = [kind |-> "checkpoint", policy |-> policy[r], before |-> Row(r).before,
                    step |-> step[r], opt |-> opt[r]]
  \/ /\ WriteSummary(r) /\ p = SummaryPath(conf[r].dir)
     /\ file'[p] = [kind |-> "summary", run |-> r, mode |-> Mode(r), rows |-> rows[r],
                    data |-> got[r]]
  \/ Kill(r) /\ p \in Writing(r) /\ file'[p] = Torn

(* Files change only under a run that writes them.                         *)
LEMMA FileMoves ==
  ASSUME Domains, [Next]_vars, NEW p \in Paths
  PROVE  file'[p] = file[p] \/ \E r \in Runs : Written(r, p)
<1> USE DEF Domains
<1>1. ASSUME NEW r \in Runs, Save(r) PROVE file'[p] = file[p] \/ Written(r, p)
  BY <1>1 DEF Save, Written
<1>2. ASSUME NEW r \in Runs, WriteBundle(r) PROVE file'[p] = file[p] \/ Written(r, p)
  BY <1>2 DEF WriteBundle, Written
<1>3. ASSUME NEW r \in Runs, SaveCheckpoint(r) PROVE file'[p] = file[p] \/ Written(r, p)
  BY <1>3 DEF SaveCheckpoint, Written
<1>4. ASSUME NEW r \in Runs, WriteSummary(r) PROVE file'[p] = file[p] \/ Written(r, p)
  BY <1>4 DEF WriteSummary, Written
<1>5. ASSUME NEW r \in Runs, Kill(r) PROVE file'[p] = file[p] \/ Written(r, p)
  BY <1>5 DEF Kill, Written
<1>6. CASE UNCHANGED file
  BY <1>6
<1>7. QED
  BY <1>1, <1>2, <1>3, <1>4, <1>5, <1>6 DEF Next, Start, Step, Fork, Build, Collect, Update,
     ReadArtifact, Compare, End, WorkerEnds, vars

(* Optimizer steps are only added.                                         *)
LEMMA MadeMoves ==
  ASSUME [Next]_vars
  PROVE  \/ made' = made
         \/ \E r \in Runs : \E p \in Policies \ DOMAIN made :
              /\ pc[r] = "update" /\ Fits(r) /\ Update(r)
              /\ made' = [q \in DOMAIN made \cup {p} |->
                            IF q = p THEN [parent |-> policy[r], data |-> got[r],
                                           depth |-> made[policy[r]].depth + 1]
                            ELSE made[q]]
              /\ policy' = [policy EXCEPT ![r] = p] /\ opt' = [opt EXCEPT ![r] = p]
              /\ step' = [step EXCEPT ![r] = @ + 1]
              /\ pc' = [pc EXCEPT ![r] = "checkpoint"]
<1>1. CASE \E r \in Runs : Update(r)
  BY <1>1 DEF Update, Goto
<1>2. CASE ~\E r \in Runs : Update(r)
  BY <1>2 DEF Next, Start, Step, Fork, Build, Collect, Save, WriteBundle, SaveCheckpoint,
     WriteSummary, Kill, ReadArtifact, Compare, End, WorkerEnds, vars, history
<1>3. QED
  BY <1>1, <1>2

(* An optimizer step is never undone or redone.                            *)
LEMMA MadeStays ==
  ASSUME [Next]_vars, NEW p \in DOMAIN made
  PROVE  p \in DOMAIN made' /\ made'[p] = made[p]
BY MadeMoves

-----------------------------------------------------------------------------
(* Types.                                                                  *)

(* What the runtime restores is of a policy that has been made, or none.   *)
LEMMA RestoredFacts ==
  ASSUME Typed, MadeTrue, Configured, FilesTrue, ReadTrue, NEW r \in Runs, pc[r] = "build"
  PROVE  /\ Restored(r) \in DOMAIN made \cup {Fresh} /\ Restored(r) \in Int
         /\ SamePolicy(r) => /\ Restored(r) \in DOMAIN made
                             /\ IF read[r] = Absent THEN made[Restored(r)].depth = 0
                                ELSE read[r].step = made[Restored(r)].depth
<1> USE DEF Typed
<1>1. conf[r] \in Configs /\ (Mode(r) = "branch" => read[r] # Absent)
  BY DEF Configured
<1>2. CASE read[r] = Absent
  <2>1. Restored(r) = conf[r].seed /\ conf[r].seed \in Seeded
    BY <1>1, <1>2, ConfigFacts DEF Restored
  <2>2. QED
    BY <1>2, <2>1 DEF MadeTrue
<1>3. CASE read[r] # Absent /\ Mode(r) = "branch"
  <2>1. Restored(r) = read[r].policy /\ BundleTrue(read[r])
    BY <1>3 DEF Restored, ReadTrue
  <2>2. QED
    BY <1>3, <2>1 DEF MadeTrue, BundleTrue
<1>4. CASE read[r] # Absent /\ Mode(r) # "branch"
  <2>1. CheckpointTrue(read[r])
    BY <1>4 DEF ReadTrue
  <2>2. Restored(r) \in DOMAIN made \/ Restored(r) = Fresh
    <3>1. CASE Is("checkpoint", file[Source(conf[r])])
      <4>1. Source(conf[r]) \in Paths
        BY <1>1, <1>4, ConfigAssumption DEF Configured, Source
      <4>2. QED
        BY <1>4, <3>1, <4>1 DEF Restored, FilesTrue, FileTrue, CheckpointTrue
    <3>2. CASE ~Is("checkpoint", file[Source(conf[r])])
      BY <1>4, <3>2 DEF Restored
    <3>3. QED
      BY <3>1, <3>2
  <2>3. QED
    BY <1>4, <2>1, <2>2 DEF MadeTrue, CheckpointTrue, SamePolicy, Fresh
<1>5. QED
  BY <1>2, <1>3, <1>4

(* Every step keeps the domains.                                           *)
LEMMA DomainsNext == ASSUME Domains, [Next]_vars PROVE Domains'
<1> USE DEF Domains
<1> DEFINE States == {"none", "fresh", "closed"}
<1> DEFINE Rest == 
      /\ DOMAIN file' = Paths /\ DOMAIN last' = Dirs
      /\ DOMAIN conf' = Runs /\ DOMAIN pc' = Runs /\ DOMAIN read' = Runs /\ DOMAIN policy' = Runs
      /\ DOMAIN opt' = Runs /\ DOMAIN step' = Runs /\ DOMAIN round' = Runs /\ DOMAIN slot' = Runs
      /\ DOMAIN got' = Runs /\ DOMAIN rows' = Runs
<1>1. ASSUME NEW r \in Runs, NEW c \in Configs, Start(r, c) PROVE Domains'
  BY <1>1 DEF Start, Goto, Raise
<1>2. ASSUME NEW r \in Runs, Fork(r) PROVE Domains'
  <2> DEFINE new == [w \in SlotSet \X Rounds |->
                       IF w[1] = slot[r] /\ w[2] <= conf[r].rounds THEN "fresh" ELSE worker[r][w]]
  <2>1. worker' = [worker EXCEPT ![r] = new] /\ new \in [SlotSet \X Rounds -> States]
    BY <1>2 DEF Fork
  <2>2. Rest
    BY <1>2 DEF Fork, Goto, Raise, history
  <2> HIDE DEF new
  <2>3. QED
    BY <2>1, <2>2
<1>3. ASSUME NEW r \in Runs, Build(r) PROVE Domains'
  BY <1>3 DEF Build, Goto, Raise, history
<1>4. ASSUME NEW r \in Runs, Collect(r) PROVE Domains'
  <2>1. Rest
    BY <1>4 DEF Collect, Goto, Raise, history
  <2>2. CASE worker' = worker
    BY <2>1, <2>2
  <2>3. CASE worker' = [worker EXCEPT ![r][WorkerOf(r)] = "closed"]
    BY <2>1, <2>3
  <2>4. QED
    BY <1>4, <2>2, <2>3 DEF Collect
<1>5. ASSUME NEW r \in Runs, Save(r) \/ WriteBundle(r) PROVE Domains'
  BY <1>5 DEF Save, WriteBundle, Goto, history
<1>6. ASSUME NEW r \in Runs, Update(r) PROVE Domains'
  BY <1>6 DEF Update, Goto, Raise
<1>7. ASSUME NEW r \in Runs, SaveCheckpoint(r) \/ WriteSummary(r) PROVE Domains'
  BY <1>7 DEF SaveCheckpoint, WriteSummary, Goto, history
<1>8. ASSUME NEW r \in Runs, ReadArtifact(r) \/ Compare(r) PROVE Domains'
  BY <1>8 DEF ReadArtifact, Compare, Goto, Raise, history
<1>9. ASSUME NEW r \in Runs, End(r) PROVE Domains'
  <2>1. PICK closed \in SUBSET (SlotSet \X Rounds) :
          worker' = [worker EXCEPT ![r] = [w \in SlotSet \X Rounds |->
                       IF w \in closed /\ @[w] = "fresh" THEN "closed" ELSE @[w]]]
    BY <1>9 DEF End
  <2> DEFINE new == [w \in SlotSet \X Rounds |->
                       IF w \in closed /\ worker[r][w] = "fresh" THEN "closed" ELSE worker[r][w]]
  <2>2. worker' = [worker EXCEPT ![r] = new] /\ new \in [SlotSet \X Rounds -> States]
    BY <2>1
  <2>3. Rest
    BY <1>9 DEF End, Goto, history
  <2> HIDE DEF new
  <2>4. QED
    BY <2>2, <2>3
<1>10. ASSUME NEW r \in Runs, Kill(r) PROVE Domains'
  BY <1>10 DEF Kill, Goto, history
<1>11. ASSUME NEW r \in Runs, NEW w \in SlotSet \X Rounds, WorkerEnds(r, w) PROVE Domains'
  <2>1. Rest
    BY <1>11 DEF WorkerEnds, process, history
  <2>2. QED
    BY <1>11, <2>1 DEF WorkerEnds
<1>12. CASE UNCHANGED vars
  BY <1>12 DEF vars, process, history
<1>13. QED
  BY <1>1, <1>2, <1>3, <1>4, <1>5, <1>6, <1>7, <1>8, <1>9, <1>10, <1>11, <1>12 DEF Next, Step

(* Every step keeps the types.                                             *)
LEMMA TypedNext ==
  ASSUME Typed, MadeTrue, Configured, FilesTrue, ReadTrue, LiveTrue, [Next]_vars PROVE Typed'
<1> USE DEF Typed
<1>1. Domains'
  BY DomainsNext
<1>2. ASSUME NEW r \in Runs
      PROVE  /\ conf'[r] \in Configs \cup {None} /\ pc'[r] \in Places
             /\ policy'[r] \in Int /\ step'[r] \in Nat
             /\ round'[r] \in Nat \ {0} /\ slot'[r] \in Nat \ {0}
             /\ rows'[r] \in Seq(RowSet)
  <2> DEFINE Good == /\ conf'[r] \in Configs \cup {None} /\ pc'[r] \in Places
                     /\ policy'[r] \in Int /\ step'[r] \in Nat
                     /\ round'[r] \in Nat \ {0} /\ slot'[r] \in Nat \ {0}
                     /\ rows'[r] \in Seq(RowSet)
  <2>1. CASE (Kept(r) /\ pc'[r] = pc[r]) \/ Stopped(r) \/ Finished(r) \/ Wrote(r)
    BY <2>1 DEF Kept, StateKept, Stopped, Finished, Wrote, Places
  <2>2. CASE Started(r)
    BY <2>2 DEF Started, StateKept, Places
  <2>3. CASE Forked(r) \/ Saved(r)
    BY <2>3 DEF Forked, Saved, StateKept, Places
  <2>4. CASE Rebuilt(r)
    <3>1. Restored(r) \in Int /\ (SamePolicy(r) /\ read[r] # Absent => read[r].step \in Nat)
      BY <2>4, RestoredFacts DEF Rebuilt, MadeTrue
    <3>2. QED
      BY <2>4, <3>1 DEF Rebuilt, Places
  <2>5. CASE Rolled(r) \/ Loaded(r)
    BY <2>5 DEF Rolled, Loaded, Places
  <2>6. CASE Updated(r)
    BY <2>6 DEF Updated, Policies, Places
  <2>7. CASE Checkpointed(r)
    <3>1. policy[r] \in DOMAIN made
      BY <2>7 DEF Checkpointed, LiveTrue, Adapted
    <3>2. Row(r) \in RowSet
      BY <3>1 DEF MadeTrue, Row, RowSet
    <3>3. Append(rows[r], Row(r)) \in Seq(RowSet)
      BY <3>2
    <3>4. QED
      BY <2>7, <3>3 DEF Checkpointed, Places
  <2>8. QED
    BY <2>1, <2>2, <2>3, <2>4, <2>5, <2>6, <2>7, RunMoves DEF Moves
<1>3. QED
  BY <1>1, <1>2

(* A policy is made by one step from one that was there.                   *)
LEMMA MadeTrueNext == ASSUME Typed, MadeTrue, LiveTrue, [Next]_vars PROVE MadeTrue'
<1>1. CASE made' = made
  BY <1>1 DEF MadeTrue, Seeded
<1>2. CASE made' # made
  <2>1. PICK r \in Runs, p \in Policies \ DOMAIN made :
          /\ pc[r] = "update"
          /\ made' = [q \in DOMAIN made \cup {p} |->
                        IF q = p THEN [parent |-> policy[r], data |-> got[r],
                                       depth |-> made[policy[r]].depth + 1]
                        ELSE made[q]]
    BY <1>2, MadeMoves
  <2>2. policy[r] \in DOMAIN made
    BY <2>1 DEF LiveTrue, Adapted
  <2>3. DOMAIN made' = DOMAIN made \cup {p} /\ p \in Nat
    BY <2>1 DEF Policies
  <2>4. made'[p].depth \in Nat /\ made'[p].parent \in Nat
    BY <2>1, <2>2, <2>3 DEF MadeTrue
  <2>5. \A q \in DOMAIN made : made'[q] = made[q]
    BY <2>1
  <2>6. QED
    BY <2>3, <2>4, <2>5 DEF MadeTrue, Seeded
<1>3. QED
  BY <1>1, <1>2


-----------------------------------------------------------------------------
(* Places, configurations and directories.                                 *)

LEMMA ConfiguredNext ==
  ASSUME Typed, Configured, [Next]_vars PROVE Configured'
<1> USE DEF Typed
<1> DEFINE Good(r) ==
      /\ pc[r] = "idle" => /\ read[r] = Absent /\ round[r] = 1 /\ slot[r] = 1
                           /\ rows[r] = <<>> /\ got[r] = {}
      /\ pc[r] # "idle" => /\ conf[r] \in Configs /\ round[r] <= conf[r].rounds
                           /\ read[r] # Absent => Source(conf[r]) # None
      /\ pc[r] \in {"fork", "collect", "save"} =>
           Mode(r) \in {"collect", "iterative"} /\ slot[r] \in SlotSet
      /\ pc[r] \in {"update", "checkpoint"} => Mode(r) \in {"iterative", "branch"}
      /\ pc[r] = "bundle" => Mode(r) = "collect"
      /\ pc[r] \in {"build", "summary", "finish"} => Mode(r) # "load"
      /\ pc[r] \in {"read", "compare", "loaded"} => Mode(r) = "load"
      /\ pc[r] \in {"build", "update", "checkpoint"} => slot[r] = 1
      /\ pc[r] = "build" => /\ Mode(r) = "branch" => read[r] # Absent
                            /\ conf[r].resume => read[r] # Absent
                            /\ rows[r] = <<>> /\ round[r] = 1
      /\ pc[r] = "fork" => /\ rows[r] = <<>> /\ round[r] = 1
                           /\ conf[r].resume => read[r] # Absent
<1> SUFFICES ASSUME NEW r \in Runs PROVE Good(r)'
  BY DEF Configured
<1>1. Good(r)
  BY DEF Configured
<1>2. Slots \in Nat \ {0} /\ 1 \in SlotSet /\ \A c \in Configs : c.rounds \in Nat \ {0}
  BY TrainerAssumption, ConfigAssumption DEF SlotSet
<1>3. CASE Kept(r) /\ pc'[r] = pc[r]
  BY <1>1, <1>3 DEF Kept, StateKept, Mode
<1>4. CASE Started(r)
  <2> DEFINE c == conf'[r]
  <2>1. /\ c \in Configs /\ c.mode \in {"collect", "iterative", "branch", "load"}
        /\ c.rounds \in Nat \ {0}
        /\ c.mode = "branch" => c.bundle # None
        /\ c.resume => c.initial # None /\ c.mode \notin {"collect", "branch"}
    BY <1>4, ConfigAssumption DEF Started
  <2>2. /\ read[r] = Absent /\ round'[r] = 1 /\ slot'[r] = 1 /\ rows'[r] = <<>> /\ got'[r] = {}
    BY <1>1, <1>4 DEF Started, StateKept
  <2>3. c.mode # "load" /\ Accepts(c, file[Source(c)]) => file[Source(c)] # Absent
    BY DEF Accepts, BundleValid, Is
  <2>4. c.resume => Source(c) = c.initial
    BY <2>1 DEF Source
  <2>5. CASE pc'[r] = "read" \/ pc'[r] = "closing"
    <3>1. read'[r] = Absent /\ (pc'[r] = "read" => c.mode = "load")
      BY <1>4, <2>2, <2>5 DEF Started
    <3>2. round'[r] <= c.rounds
      BY <2>1, <2>2
    <3>3. conf'[r] \in Configs /\ conf'[r].mode = c.mode
      BY <2>1
    <3>4. QED
      BY <2>2, <2>5, <3>1, <3>2, <3>3 DEF Mode
  <2>6. CASE pc'[r] = "fork"
    <3>1. c.mode \in {"collect", "iterative"}
      BY <1>4, <2>1, <2>6 DEF Started, Source
    <3>2. Source(c) = None => read'[r] = Absent
      BY <1>4, <2>2, <2>6 DEF Started
    <3>3. Source(c) # None => read'[r] # Absent
      BY <1>4, <2>3, <2>6 DEF Started
    <3>4. c.resume => read'[r] # Absent
      BY <2>1, <2>4, <3>3
    <3>5. round'[r] <= c.rounds /\ slot'[r] \in SlotSet'
      BY <1>2, <2>1, <2>2 DEF SlotSet
    <3>6. conf'[r] \in Configs /\ conf'[r].mode = c.mode /\ (conf'[r].resume => c.resume)
      BY <2>1
    <3>7. QED
      BY <2>2, <2>6, <3>1, <3>2, <3>4, <3>5, <3>6 DEF Mode
  <2>7. CASE pc'[r] = "build"
    BY <1>4, <2>1, <2>2, <2>3, <2>7 DEF Started, Mode
  <2>8. QED
    BY <1>4, <2>5, <2>6, <2>7 DEF Started
<1>5. CASE Stopped(r) \/ Finished(r)
  BY <1>1, <1>5 DEF Stopped, Finished, Kept, StateKept, Live, Ended, Mode
<1>6. CASE Forked(r)
  BY <1>1, <1>2, <1>6 DEF Forked, StateKept, Mode, SlotSet
<1>7. CASE Rebuilt(r)
  BY <1>1, <1>2, <1>7, ConfigAssumption DEF Rebuilt, Mode
<1>8. CASE Rolled(r) \/ Wrote(r)
  BY <1>1, <1>8 DEF Rolled, Wrote, Kept, StateKept, Mode
<1>9. CASE Saved(r)
  BY <1>1, <1>2, <1>9 DEF Saved, StateKept, Mode, SlotSet
<1>10. CASE Updated(r)
  BY <1>1, <1>10 DEF Updated, Mode
<1>11. CASE Checkpointed(r)
  <2>1. Mode(r) = "branch" => conf[r].rounds = 1
    BY <1>1, <1>11, ConfigAssumption DEF Checkpointed, Mode
  <2>2. QED
    BY <1>1, <1>2, <1>11, <2>1 DEF Checkpointed, Mode
<1>12. CASE Loaded(r)
  BY <1>1, <1>12 DEF Loaded, Mode
<1>13. QED
  BY <1>3, <1>4, <1>5, <1>6, <1>7, <1>8, <1>9, <1>10, <1>11, <1>12, RunMoves DEF Moves

(* A directory passes to another run when that starts.                     *)
LEMMA LastMoves ==
  ASSUME [Next]_vars
  PROVE  last' = last \/ \E q \in Runs, c \in Configs : Start(q, c)
BY DEF Next, Step, Fork, Build, Collect, Save, WriteBundle, Update, SaveCheckpoint, WriteSummary,
   ReadArtifact, Compare, End, Kill, WorkerEnds, vars, history

(* Only a run that is alive goes on, with the configuration it had.        *)
LEMMA LiveMoves ==
  ASSUME Typed, Configured, [Next]_vars, NEW r \in Runs, Live(r)', ~Started(r)
  PROVE  Live(r) /\ conf'[r] = conf[r] /\ conf[r] \in Configs /\ conf[r].dir \in Dirs
<1>1. Live(r) /\ conf'[r] = conf[r]
  <2>1. CASE Kept(r) /\ pc'[r] = pc[r]
    BY <2>1 DEF Kept, Live
  <2>2. CASE Stopped(r) \/ Finished(r) \/ Forked(r)
    BY <2>2 DEF Stopped, Finished, Forked, Kept, Live, Ended
  <2>3. CASE Rebuilt(r) \/ Rolled(r) \/ Saved(r)
    BY <2>3 DEF Rebuilt, Rolled, Saved, Live, Ended
  <2>4. CASE Wrote(r) \/ Updated(r)
    BY <2>4 DEF Wrote, Updated, Kept, Live, Ended
  <2>5. CASE Checkpointed(r) \/ Loaded(r)
    BY <2>5 DEF Checkpointed, Loaded, Live, Ended
  <2>6. QED
    BY <2>1, <2>2, <2>3, <2>4, <2>5, RunMoves DEF Moves, Typed
<1>2. QED
  BY <1>1, ConfigAssumption DEF Configured, Live, Ended

(* A run starts in a directory that no live run uses.                      *)
LEMMA LastIsLiveNext == ASSUME Typed, Configured, LastIsLive, [Next]_vars PROVE LastIsLive'
<1> USE DEF Typed, Domains
<1> SUFFICES ASSUME NEW r \in Runs, Live(r)' PROVE last'[conf'[r].dir] = r
  BY DEF LastIsLive
<1>1. CASE Started(r)
  BY <1>1, ConfigAssumption DEF Started
<1>2. CASE ~Started(r)
  <2>1. Live(r) /\ conf'[r] = conf[r] /\ conf[r].dir \in Dirs /\ last[conf[r].dir] = r
    BY <1>2, LiveMoves DEF LastIsLive
  <2>2. ASSUME NEW q \in Runs, NEW c \in Configs, Start(q, c) PROVE last'[conf[r].dir] = r
    BY <2>1, <2>2 DEF Start
  <2>3. QED
    BY <2>1, <2>2, LastMoves
<1>3. QED
  BY <1>1, <1>2

-----------------------------------------------------------------------------
(* Optimizer steps, files and what has been read of them.                  *)

LEMMA StepsWholeNext ==
  ASSUME Typed, StepsWhole, Collected, [Next]_vars PROVE StepsWhole'
<1>1. CASE made' = made
  BY <1>1 DEF StepsWhole, Seeded, Whole, SlotSet
<1>2. ASSUME NEW r \in Runs, NEW p \in Policies \ DOMAIN made, pc[r] = "update",
             made' = [q \in DOMAIN made \cup {p} |->
                        IF q = p THEN [parent |-> policy[r], data |-> got[r],
                                       depth |-> made[policy[r]].depth + 1]
                        ELSE made[q]]
      PROVE  StepsWhole'
  <2>1. Whole(got[r], policy[r])
    BY <1>2 DEF Collected
  <2> SUFFICES ASSUME NEW q \in DOMAIN made' \ Seeded PROVE Whole(made'[q].data, made'[q].parent)
    BY DEF StepsWhole, Whole, SlotSet, Seeded
  <2>2. CASE q = p
    BY <1>2, <2>1, <2>2
  <2>3. CASE q # p
    BY <1>2, <2>3 DEF StepsWhole
  <2>4. QED
    BY <2>2, <2>3
<1>3. QED
  BY <1>1, <1>2, MadeMoves

(* What is true of a checkpoint or of a bundle stays true.                 *)
LEMMA TrueStays ==
  ASSUME [Next]_vars, NEW c
  PROVE  /\ CheckpointTrue(c) => CheckpointTrue(c)'
         /\ BundleTrue(c) => BundleTrue(c)'
BY MadeStays DEF CheckpointTrue, BundleTrue, Whole, SlotSet

(* A round that is collected has one trajectory of every rollout.          *)
LEMMA OwnIsWhole ==
  ASSUME NEW r \in Runs, Own(r, Slots) PROVE Whole(got[r], policy[r])
<1> DEFINE T(s) == [kind |-> "artifact", slot |-> s, round |-> round[r], policy |-> policy[r],
                    group |-> conf[r].group, run |-> r]
<1>1. got[r] = {T(s) : s \in SlotSet}
  BY DEF Own, SlotSet
<1>2. \A s \in SlotSet : T(s).slot = s /\ T(s).policy = policy[r] /\ T(s).run = r
  OBVIOUS
<1>3. \A s \in SlotSet : \E t \in got[r] : t.slot = s
  BY <1>1, <1>2
<1>4. \A t, u \in got[r] : t.policy = policy[r] /\ t.run = u.run
  BY <1>1, <1>2
<1>5. QED
  BY <1>3, <1>4 DEF Own, Whole

(* What a run writes is true of it, and what a kill leaves is torn.        *)
LEMMA FilesTrueNext ==
  ASSUME Typed, Configured, FilesTrue, LiveTrue, Collected, [Next]_vars PROVE FilesTrue'
<1> USE DEF Typed
<1>1. ASSUME NEW c, FileTrue(c) PROVE FileTrue(c)'
  <2>1. Is("artifact", c) => c.policy \in DOMAIN made' /\ c.slot \in SlotSet
    BY <1>1, MadeStays DEF FileTrue
  <2>2. QED
    BY <1>1, <2>1, TrueStays DEF FileTrue, Is, SlotSet
<1> SUFFICES ASSUME NEW p \in Paths PROVE FileTrue(file[p])'
  BY DEF FilesTrue, Paths, Rounds, SlotSet
<1>2. ASSUME file'[p] = file[p] PROVE FileTrue(file'[p])
  BY <1>2 DEF FilesTrue
<1>3. ASSUME NEW r \in Runs, Written(r, p) PROVE FileTrue(file'[p])
  <2>1. CASE Save(r) /\ file'[p] = Trajectory(r)
    <3>1. policy[r] \in DOMAIN made /\ slot[r] \in SlotSet
      BY <2>1 DEF Save, LiveTrue, Adapted, Configured
    <3>2. QED
      BY <2>1, <3>1 DEF Trajectory, Is, FileTrue
  <2>2. CASE /\ WriteBundle(r)
             /\ file'[p] = [kind |-> "bundle", policy |-> policy[r], round |-> round[r],
                            step |-> BundleStep(r), data |-> got[r], opt |-> Fresh]
    <3>1. policy[r] \in DOMAIN made /\ step[r] = made[policy[r]].depth /\ Whole(got[r], policy[r])
      BY <2>2, OwnIsWhole DEF WriteBundle, LiveTrue, Adapted, Collected
    <3>2. QED
      BY <2>2, <3>1 DEF FileTrue, Is, BundleTrue, BundleStep
  <2>3. CASE /\ SaveCheckpoint(r)
             /\ file'[p] = [kind |-> "checkpoint", policy |-> policy[r], before |-> Row(r).before,
                            step |-> step[r], opt |-> opt[r]]
    <3>1. policy[r] \in DOMAIN made /\ step[r] = made[policy[r]].depth /\ opt[r] = policy[r]
      BY <2>3 DEF SaveCheckpoint, LiveTrue, Adapted
    <3>2. QED
      BY <2>3, <3>1 DEF FileTrue, Is, CheckpointTrue, Row
  <2>4. CASE file'[p] = [kind |-> "summary", run |-> r, mode |-> Mode(r), rows |-> rows[r],
                         data |-> got[r]]
    BY <2>4 DEF FileTrue, Is
  <2>5. CASE file'[p] = Torn
    BY <2>5 DEF FileTrue, Is
  <2>6. QED
    BY <1>3, <2>1, <2>2, <2>3, <2>4, <2>5 DEF Written
<1>4. PICK c : c = file'[p]
  OBVIOUS
<1>5. FileTrue(c)
  BY <1>2, <1>3, <1>4, FileMoves
<1>6. FileTrue(c)'
  BY <1>1, <1>5
<1>7. QED
  BY <1>4, <1>6 DEF FileTrue, Is, CheckpointTrue, BundleTrue, Whole

(* What was read is what was in the file at that moment.                   *)
LEMMA ReadTrueNext ==
  ASSUME Typed, Configured, FilesTrue, ReadTrue, [Next]_vars PROVE ReadTrue'
<1> USE DEF Typed
<1>0. ASSUME NEW r \in Runs, read'[r] # Absent
      PROVE IF conf'[r].mode = "branch" THEN BundleTrue(read'[r]) ELSE CheckpointTrue(read'[r])
  <2>1. CASE Started(r)
    <3> DEFINE c == conf'[r]
    <3>1. read[r] = Absent
      BY <2>1 DEF Started, Configured
    <3>2. Source(c) # None /\ Accepts(c, file[Source(c)]) /\ read'[r] = file[Source(c)]
      BY <1>0, <2>1, <3>1 DEF Started
    <3>3. Source(c) \in Paths
      BY <2>1, <3>2, ConfigAssumption DEF Started, Source
    <3>4. QED
      BY <3>2, <3>3 DEF FilesTrue, FileTrue, Accepts, BundleValid
  <2>2. CASE read'[r] = read[r] /\ conf'[r] = conf[r]
    BY <1>0, <2>2 DEF ReadTrue, Mode
  <2>3. CASE Kept(r)
    BY <2>2, <2>3 DEF Kept
  <2>4. QED
    BY <2>1, <2>2, <2>3, RunMoves
    DEF Moves, Stopped, Finished, Wrote, Forked, Rebuilt, Rolled, Saved, Updated, Checkpointed, Loaded
<1>1. ASSUME NEW r \in Runs, read'[r] # Absent
      PROVE  IF conf'[r].mode = "branch" THEN BundleTrue(read[r])' ELSE CheckpointTrue(read[r])'
  <2>1. CASE conf'[r].mode = "branch"
    <3>1. BundleTrue(read'[r])
      BY <1>0, <1>1, <2>1
    <3>2. PICK c : c = read'[r]
      OBVIOUS
    <3>3. BundleTrue(c)'
      BY <3>1, <3>2, TrueStays
    <3>4. QED
      BY <2>1, <3>2, <3>3 DEF BundleTrue, Whole
  <2>2. CASE conf'[r].mode # "branch"
    <3>1. CheckpointTrue(read'[r])
      BY <1>0, <1>1, <2>2
    <3>2. PICK c : c = read'[r]
      OBVIOUS
    <3>3. CheckpointTrue(c)'
      BY <3>1, <3>2, TrueStays
    <3>4. QED
      BY <2>2, <3>2, <3>3 DEF CheckpointTrue
  <2>3. QED
    BY <2>1, <2>2
<1>2. QED
  BY <1>1 DEF ReadTrue, Mode

-----------------------------------------------------------------------------
(* The adapter of a run and the data of its round.                         *)

LEMMA LiveTrueNext ==
  ASSUME Typed, MadeTrue, Configured, FilesTrue, ReadTrue, LiveTrue, [Next]_vars
  PROVE  LiveTrue'
<1> USE DEF Typed
<1> DEFINE Good(r) ==
      /\ policy[r] \in DOMAIN made \cup {Fresh}
      /\ Adapted(r) => policy[r] \in DOMAIN made /\ step[r] = made[policy[r]].depth
      /\ pc[r] \in {"collect", "save", "update"} /\ conf[r].resume => opt[r] = policy[r]
      /\ pc[r] = "checkpoint" => opt[r] = policy[r]
<1> SUFFICES ASSUME NEW r \in Runs PROVE Good(r)'
  BY DEF LiveTrue
<1>1. Good(r)
  BY DEF LiveTrue
<1>2. ASSUME policy'[r] = policy[r], step'[r] = step[r], opt'[r] = opt[r], conf'[r] = conf[r],
             Adapted(r)' => Adapted(r),
             pc'[r] \in {"collect", "save", "update"} =>
               pc[r] \in {"collect", "save", "update", "checkpoint"},
             pc'[r] = "checkpoint" => pc[r] = "checkpoint"
      PROVE  Good(r)'
  <2>1. policy[r] \in DOMAIN made => policy[r] \in DOMAIN made' /\ made'[policy[r]] = made[policy[r]]
    BY MadeStays
  <2>2. policy'[r] \in DOMAIN made' \cup {Fresh}
    BY <1>1, <1>2, <2>1
  <2>3. Adapted(r)' => policy'[r] \in DOMAIN made' /\ step'[r] = made'[policy'[r]].depth
    BY <1>1, <1>2, <2>1
  <2>4. /\ pc'[r] \in {"collect", "save", "update"} /\ conf'[r].resume => opt'[r] = policy'[r]
        /\ pc'[r] = "checkpoint" => opt'[r] = policy'[r]
    BY <1>1, <1>2
  <2>5. QED
    BY <2>2, <2>3, <2>4 DEF Fresh
<1>3. CASE Kept(r) /\ pc'[r] = pc[r]
  BY <1>2, <1>3 DEF Kept, StateKept, Adapted
<1>4. CASE Stopped(r) \/ Finished(r) \/ Wrote(r)
  BY <1>2, <1>4 DEF Stopped, Finished, Wrote, Kept, StateKept, Adapted
<1>5. CASE Started(r)
  <2>1. policy'[r] \in DOMAIN made' \cup {Fresh}
    BY <1>1, <1>5, MadeStays DEF Started, StateKept
  <2>2. pc'[r] \in {"read", "fork", "build", "closing"}
    BY <1>5 DEF Started
  <2>3. QED
    BY <2>1, <2>2 DEF Adapted, Fresh
<1>6. CASE Forked(r) \/ Loaded(r) \/ Rolled(r)
  BY <1>2, <1>6 DEF Forked, Loaded, Rolled, StateKept, Adapted
<1>7. CASE Saved(r)
  BY <1>2, <1>7 DEF Saved, StateKept, Adapted
<1>8. CASE Rebuilt(r)
  <2> DEFINE q == Restored(r)
  <2>1. /\ q \in DOMAIN made \cup {Fresh}
        /\ SamePolicy(r) => /\ q \in DOMAIN made
                            /\ IF read[r] = Absent THEN made[q].depth = 0
                               ELSE read[r].step = made[q].depth
    BY <1>8, RestoredFacts DEF Rebuilt
  <2>2. q \in DOMAIN made => q \in DOMAIN made' /\ made'[q] = made[q]
    BY MadeStays
  <2>3. SamePolicy(r) /\ conf[r].resume => read[r].opt = q
    <3>1. conf[r].resume => Mode(r) # "branch" /\ read[r] # Absent
      BY <1>8, ConfigAssumption DEF Rebuilt, Configured, Mode
    <3>2. QED
      BY <3>1 DEF ReadTrue, CheckpointTrue, SamePolicy
  <2>4. policy'[r] = q /\ conf'[r] = conf[r]
    BY <1>8 DEF Rebuilt
  <2> HIDE DEF q
  <2>5. CASE pc'[r] = "closing"
    BY <2>1, <2>2, <2>4, <2>5 DEF Adapted, Fresh
  <2>6. CASE pc'[r] # "closing"
    <3>1. /\ SamePolicy(r) /\ opt'[r] = (IF conf[r].resume THEN read[r].opt ELSE Fresh)
          /\ step'[r] = IF read[r] = Absent THEN 0 ELSE read[r].step
          /\ pc'[r] \in {"update", "collect"}
      BY <1>8, <2>6 DEF Rebuilt
    <3>2. q \in DOMAIN made' /\ step'[r] = made'[q].depth
      BY <2>1, <2>2, <3>1
    <3>3. conf'[r].resume => opt'[r] = q
      BY <2>3, <2>4, <3>1
    <3>4. QED
      BY <2>4, <3>1, <3>2, <3>3 DEF Adapted, Fresh
  <2>7. QED
    BY <2>5, <2>6
<1>9. CASE Updated(r)
  <2> DEFINE p == policy'[r]
  <2>1. p \in DOMAIN made' /\ made'[p].depth = made[policy[r]].depth + 1
    BY <1>9 DEF Updated
  <2>2. step'[r] = made[policy[r]].depth + 1 /\ opt'[r] = p /\ pc'[r] = "checkpoint"
    BY <1>1, <1>9 DEF Updated, Adapted
  <2>3. QED
    BY <2>1, <2>2 DEF Adapted, Fresh
<1>10. CASE Checkpointed(r)
  BY <1>2, <1>10 DEF Checkpointed, Adapted
<1>11. QED
  BY <1>3, <1>4, <1>5, <1>6, <1>7, <1>8, <1>9, <1>10, RunMoves DEF Moves

(* A trajectory joins those of the slots before it.                        *)
LEMMA OwnJoined ==
  ASSUME NEW r \in Runs, Typed, Own(r, slot[r] - 1), Rolled(r)
  PROVE  Own(r, slot[r])'
<1> DEFINE T(s) == [kind |-> "artifact", slot |-> s, round |-> round[r], policy |-> policy[r],
                    group |-> conf[r].group, run |-> r]
<1> DEFINE n == slot[r]
<1>1. n \in Nat \ {0} /\ Trajectory(r) = T(n)
  BY DEF Typed, Trajectory
<1>2. got[r] = {T(s) : s \in 1..(n - 1)} /\ IsFiniteSet(got[r]) /\ Cardinality(got[r]) = n - 1
  BY DEF Own
<1>3. got'[r] = got[r] \cup {T(n)}
  BY <1>1 DEF Rolled
<1>4. \A s \in 1..(n - 1) : T(s).slot # T(n).slot
  BY <1>1
<1>5. T(n) \notin got[r]
  BY <1>2, <1>4
<1>6. IsFiniteSet(got'[r]) /\ Cardinality(got'[r]) = n
  <2>1. IsFiniteSet(got[r] \cup {T(n)}) /\ Cardinality(got[r] \cup {T(n)}) = Cardinality(got[r]) + 1
    BY <1>2, <1>5, FS_AddElement
  <2>2. Cardinality(got[r] \cup {T(n)}) = n
    <3>1. Cardinality(got[r]) = n - 1
      BY <1>2
    <3>2. QED
      BY <1>1, <2>1, <3>1
  <2>3. QED
    BY <1>3, <2>1, <2>2
<1>7. got'[r] = {T(s) : s \in 1..n}
  <2>1. 1..n = 1..(n - 1) \cup {n}
    BY <1>1
  <2>2. QED
    BY <1>2, <1>3, <2>1
<1>8. round'[r] = round[r] /\ policy'[r] = policy[r] /\ conf'[r] = conf[r] /\ slot'[r] = slot[r]
  BY DEF Rolled
<1>9. QED
  BY <1>6, <1>7, <1>8 DEF Own

(* A collected round stays as it is while its run does.                    *)
LEMMA OwnKept ==
  ASSUME NEW r, NEW n, Own(r, n), got'[r] = got[r], round'[r] = round[r],
         policy'[r] = policy[r], conf'[r] = conf[r]
  PROVE  Own(r, n)'
BY DEF Own

(* A rollout adds the trajectory of its slot.                              *)
LEMMA CollectedNext ==
  ASSUME Typed, Configured, ReadTrue, Collected, [Next]_vars PROVE Collected'
<1> USE DEF Typed
<1> DEFINE Good(r) ==
      /\ pc[r] = "collect" => Own(r, slot[r] - 1)
      /\ pc[r] = "save" => Own(r, slot[r])
      /\ pc[r] = "bundle" => Own(r, Slots)
      /\ pc[r] = "update" => Whole(got[r], policy[r])
<1> SUFFICES ASSUME NEW r \in Runs PROVE Good(r)'
  BY DEF Collected, Own, Whole
<1>1. Good(r)
  BY DEF Collected
<1>2. CASE Kept(r) /\ pc'[r] = pc[r]
  <2>1. /\ got'[r] = got[r] /\ round'[r] = round[r] /\ policy'[r] = policy[r] /\ conf'[r] = conf[r]
        /\ slot'[r] = slot[r]
    BY <1>2 DEF Kept, StateKept
  <2>2. ASSUME NEW n, Own(r, n) PROVE Own(r, n)'
    BY <2>1, <2>2, OwnKept
  <2>3. PICK m, n : m = slot[r] /\ n = slot[r] - 1
    OBVIOUS
  <2>4. /\ pc'[r] = "save" => Own(r, m)'
        /\ pc'[r] = "collect" => Own(r, n)'
        /\ pc'[r] = "bundle" => Own(r, Slots)'
    BY <1>1, <1>2, <2>2, <2>3
  <2>5. pc'[r] = "update" => Whole(got'[r], policy'[r])
    BY <1>1, <1>2, <2>1
  <2>6. m = slot'[r] /\ n = slot'[r] - 1
    BY <2>1, <2>3
  <2>7. QED
    BY <2>4, <2>5, <2>6 DEF Own, Whole
<1>3. CASE Started(r) \/ Stopped(r) \/ Finished(r) \/ Forked(r) \/ Wrote(r) \/ Updated(r) \/ Loaded(r)
  BY <1>3 DEF Started, Stopped, Finished, Forked, Wrote, Updated, Loaded
<1>4. CASE Rebuilt(r)
  <2>1. CASE pc'[r] = "collect"
    <3>1. got'[r] = {} /\ slot'[r] = 1
      BY <1>4, <2>1 DEF Rebuilt, Configured
    <3>2. got'[r] = {[kind |-> "artifact", slot |-> s, round |-> round'[r],
                      policy |-> policy'[r], group |-> conf'[r].group, run |-> r] : s \in 1..0}
      BY <3>1
    <3>3. Own(r, 0)'
      BY <3>1, <3>2, FS_EmptySet DEF Own
    <3>4. QED
      BY <2>1, <3>1, <3>3
  <2>2. CASE pc'[r] = "update"
    <3>1. Mode(r) = "branch" /\ got'[r] = read[r].data /\ policy'[r] = Restored(r)
      BY <1>4, <2>2 DEF Rebuilt
    <3>2. read[r] # Absent
      BY <1>4, <3>1 DEF Rebuilt, Configured
    <3>3. Whole(read[r].data, read[r].policy) /\ Restored(r) = read[r].policy
      BY <3>1, <3>2 DEF ReadTrue, BundleTrue, Restored
    <3>4. QED
      BY <2>2, <3>1, <3>3 DEF Whole
  <2>3. QED
    BY <1>4, <2>1, <2>2 DEF Rebuilt
<1>5. CASE Rolled(r)
  <2>1. Own(r, slot[r])'
    BY <1>1, <1>5, OwnJoined DEF Rolled
  <2>2. QED
    BY <1>5, <2>1 DEF Rolled
<1>6. CASE Saved(r)
  <2>1. Own(r, slot[r])
    BY <1>1, <1>6 DEF Saved
  <2>2. /\ got'[r] = got[r] /\ round'[r] = round[r] /\ policy'[r] = policy[r] /\ conf'[r] = conf[r]
    BY <1>6 DEF Saved, StateKept
  <2>3. CASE slot[r] < Slots
    <3>0. pc'[r] = "collect" /\ slot'[r] = slot[r] + 1
      BY <1>6, <2>3 DEF Saved
    <3>1. pc'[r] = "collect" /\ slot'[r] - 1 = slot[r]
      <4>1. slot[r] \in Nat
        OBVIOUS
      <4>2. QED
        BY <3>0, <4>1
    <3>2. PICK n : n = slot[r]
      OBVIOUS
    <3>3. Own(r, n)'
      BY <2>1, <2>2, <3>2, OwnKept
    <3>4. QED
      BY <3>1, <3>2, <3>3
  <2>4. CASE ~(slot[r] < Slots)
    <3>1. slot[r] = Slots
      BY <1>6, <2>4, TrainerAssumption DEF Saved, Configured, SlotSet
    <3>2. Own(r, Slots)'
      BY <2>1, <2>2, <3>1, OwnKept
    <3>3. Whole(got[r], policy[r])
      BY <2>1, <3>1, OwnIsWhole
    <3>4. pc'[r] \in {"bundle", "update"}
      BY <1>6, <2>4 DEF Saved
    <3>5. QED
      BY <2>2, <3>2, <3>3, <3>4 DEF Whole
  <2>5. QED
    BY <2>3, <2>4
<1>7. CASE Checkpointed(r)
  <2>1. CASE pc'[r] = "collect"
    <3>1. got'[r] = {} /\ slot'[r] = 1
      BY <1>7, <2>1 DEF Checkpointed, Configured
    <3>2. got'[r] = {[kind |-> "artifact", slot |-> s, round |-> round'[r],
                      policy |-> policy'[r], group |-> conf'[r].group, run |-> r] : s \in 1..0}
      BY <3>1
    <3>3. Own(r, 0)'
      BY <3>1, <3>2, FS_EmptySet DEF Own
    <3>4. QED
      BY <2>1, <3>1, <3>3
  <2>2. QED
    BY <1>7, <2>1 DEF Checkpointed
<1>8. QED
  BY <1>2, <1>3, <1>4, <1>5, <1>6, <1>7, RunMoves DEF Moves

-----------------------------------------------------------------------------
(* What trajectory_update loads.                                           *)

LEMMA LoadsNext ==
  ASSUME Typed, Configured, FilesTrue, Loads, [Next]_vars PROVE Loads'
<1> USE DEF Typed
<1> DEFINE Good(r) ==
      /\ pc[r] \in {"read", "compare", "loaded"} => \A t \in got[r] : t.slot \in SlotSet
      /\ pc[r] = "read" => slot[r] \in 1..Len(conf[r].artifacts)
      /\ pc[r] = "loaded" => Compares(r)
<1> SUFFICES ASSUME NEW r \in Runs PROVE Good(r)'
  BY DEF Loads, Compares, Covered
<1>1. Good(r)
  BY DEF Loads
<1>2. CASE Kept(r) /\ pc'[r] = pc[r]
  <2>1. got'[r] = got[r] /\ slot'[r] = slot[r] /\ conf'[r] = conf[r]
    BY <1>2 DEF Kept, StateKept
  <2>2. Compares(r) => Compares(r)'
    BY <2>1 DEF Compares, Covered
  <2>3. QED
    BY <1>1, <1>2, <2>1, <2>2
<1>3. CASE Started(r)
  <2>1. CASE pc'[r] = "read"
    <3>1. got'[r] = {} /\ slot'[r] = 1 /\ conf'[r] \in Configs /\ conf'[r].mode = "load"
      BY <1>3, <2>1 DEF Started, StateKept, Configured
    <3>2. conf'[r].artifacts \in Seq(Paths) \ {<<>>}
      BY <3>1, ConfigAssumption
    <3>3. Len(conf'[r].artifacts) \in Nat /\ Len(conf'[r].artifacts) # 0
      BY <3>2
    <3>4. slot'[r] \in 1..Len(conf'[r].artifacts)
      BY <3>1, <3>3
    <3>5. QED
      BY <2>1, <3>1, <3>4
  <2>2. QED
    BY <1>3, <2>1 DEF Started
<1>4. CASE Loaded(r)
  <2>1. CASE pc[r] = "read"
    <3> DEFINE content == file[conf[r].artifacts[slot[r]]]
    <3>1. conf[r].artifacts \in Seq(Paths) /\ slot[r] \in 1..Len(conf[r].artifacts)
      BY <1>1, <2>1, ConfigAssumption DEF Configured, Mode
    <3>2. conf[r].artifacts[slot[r]] \in Paths
      BY <3>1
    <3>3. got'[r] = got[r] \cup {content} /\ Is("artifact", content) /\ conf'[r] = conf[r]
      BY <1>4, <2>1 DEF Loaded
    <3>4. content.slot \in SlotSet
      BY <3>2, <3>3 DEF FilesTrue, FileTrue
    <3>5. \A t \in got'[r] : t.slot \in SlotSet
      BY <1>1, <2>1, <3>3, <3>4
    <3>6. pc'[r] = "read" => slot'[r] = slot[r] + 1 /\ slot[r] # Len(conf[r].artifacts)
      BY <1>4, <2>1 DEF Loaded
    <3>7. Len(conf[r].artifacts) \in Nat
      BY <3>1
    <3>8. pc'[r] = "read" => slot'[r] \in 1..Len(conf'[r].artifacts)
      BY <3>1, <3>3, <3>6, <3>7
    <3>9. pc'[r] \in {"read", "compare"}
      BY <1>4, <2>1 DEF Loaded
    <3>10. QED
      BY <3>5, <3>8, <3>9 DEF SlotSet
  <2>2. CASE pc[r] = "compare"
    <3>1. Compares(r) /\ got'[r] = got[r] /\ conf'[r] = conf[r] /\ pc'[r] = "loaded"
      BY <1>4, <2>2 DEF Loaded
    <3>2. Compares(r)'
      BY <3>1 DEF Compares, Covered
    <3>3. QED
      BY <1>1, <2>2, <3>1, <3>2
  <2>3. QED
    BY <1>4, <2>1, <2>2 DEF Loaded
<1>5. CASE Stopped(r) \/ Finished(r) \/ Forked(r) \/ Wrote(r) \/ Updated(r)
  BY <1>5 DEF Stopped, Finished, Forked, Wrote, Updated
<1>6. CASE Rebuilt(r) \/ Rolled(r) \/ Saved(r) \/ Checkpointed(r)
  BY <1>6 DEF Rebuilt, Rolled, Saved, Checkpointed
<1>7. QED
  BY <1>2, <1>3, <1>4, <1>5, <1>6, RunMoves DEF Moves

-----------------------------------------------------------------------------
(* A directory is written by the live run that started in it last.         *)

(* Where a run that writes is.                                             *)
LEMMA WriterFacts ==
  ASSUME Typed, Configured, LastIsLive, NEW q \in Runs, NEW p, Written(q, p)
  PROVE  Live(q) /\ last[conf[q].dir] = q
<1>1. pc[q] \notin Ended
  BY DEF Written, Save, WriteBundle, SaveCheckpoint, WriteSummary, Kill, Live, Ended
<1>2. QED
  BY <1>1 DEF LastIsLive, Live

(* The files a killed run may leave torn.                                  *)
LEMMA WritingFacts ==
  ASSUME NEW q \in Runs, NEW p \in Writing(q)
  PROVE  \/ pc[q] = "save" /\ p = Artifact(conf[q].dir, round[q], slot[q])
         \/ pc[q] = "bundle" /\ p = Bundle(conf[q].dir)
<1>1. CASE pc[q] = "save"
  BY <1>1 DEF Writing
<1>2. CASE pc[q] = "bundle"
  BY <1>2 DEF Writing
<1>3. CASE pc[q] # "save" /\ pc[q] # "bundle"
  BY <1>3 DEF Writing
<1>4. QED
  BY <1>1, <1>2, <1>3

(* A checkpoint changes only by the run its directory belongs to.          *)
LEMMA CheckpointKept ==
  ASSUME Typed, Configured, LastIsLive, [Next]_vars, NEW d \in Dirs, NEW k \in Rounds
  PROVE  \/ file'[Checkpoint(d, k)] = file[Checkpoint(d, k)]
         \/ \E q \in Runs : /\ SaveCheckpoint(q) /\ last[d] = q /\ conf[q].dir = d /\ k = round[q]
<1>1. ASSUME NEW q \in Runs, Written(q, Checkpoint(d, k))
      PROVE  SaveCheckpoint(q) /\ conf[q].dir = d /\ k = round[q]
  BY <1>1, PathsDiffer, WritingFacts DEF Written
<1>2. QED
  BY <1>1, PathFacts, FileMoves, WriterFacts DEF Typed

(* So does an artifact.                                                    *)
LEMMA ArtifactKept ==
  ASSUME Typed, Configured, LastIsLive, [Next]_vars,
         NEW d \in Dirs, NEW k \in Rounds, NEW s \in SlotSet
  PROVE  \/ file'[Artifact(d, k, s)] = file[Artifact(d, k, s)]
         \/ \E q \in Runs : /\ Save(q) \/ Kill(q)
                            /\ pc[q] = "save" /\ last[d] = q /\ conf[q].dir = d
                            /\ k = round[q] /\ s = slot[q]
<1>1. ASSUME NEW q \in Runs, Written(q, Artifact(d, k, s))
      PROVE  /\ Save(q) \/ Kill(q)
             /\ pc[q] = "save" /\ conf[q].dir = d /\ k = round[q] /\ s = slot[q]
  BY <1>1, PathsDiffer, WritingFacts DEF Written, Save
<1>2. QED
  BY <1>1, PathFacts, FileMoves, WriterFacts DEF Typed

(* So does a summary.                                                      *)
LEMMA SummaryKept ==
  ASSUME Typed, Configured, LastIsLive, [Next]_vars, NEW d \in Dirs
  PROVE  \/ file'[SummaryPath(d)] = file[SummaryPath(d)]
         \/ \E q \in Runs : /\ WriteSummary(q) /\ last[d] = q /\ conf[q].dir = d
                            /\ file'[SummaryPath(d)] =
                                 [kind |-> "summary", run |-> q, mode |-> Mode(q),
                                  rows |-> rows[q], data |-> got[q]]
<1>1. ASSUME NEW q \in Runs, Written(q, SummaryPath(d))
      PROVE  /\ WriteSummary(q) /\ conf[q].dir = d
             /\ file'[SummaryPath(d)] = [kind |-> "summary", run |-> q, mode |-> Mode(q),
                                         rows |-> rows[q], data |-> got[q]]
  BY <1>1, PathsDiffer, WritingFacts DEF Written
<1>2. QED
  BY <1>1, PathFacts, FileMoves, WriterFacts DEF Typed

(* The rows in a directory stay there between two checkpoints of its run.  *)
LEMMA RowsStay ==
  ASSUME Typed, Configured, LastIsLive, [Next]_vars, NEW d \in Dirs, NEW r \in Runs,
         last[d] = r, pc[r] # "checkpoint" \/ pc'[r] = pc[r], NEW rs, RowsInFiles(rs, d)
  PROVE  RowsInFiles(rs, d)'
<1>1. ~SaveCheckpoint(r)
  BY DEF SaveCheckpoint, Goto, Typed, Domains
<1>2. \A k \in Rounds : file'[Checkpoint(d, k)] = file[Checkpoint(d, k)]
  BY <1>1, CheckpointKept
<1>3. QED
  BY <1>2 DEF RowsInFiles, Rounds, Checkpoint

(* The trajectories in a directory stay there between two artifacts of its *)
(* run.                                                                    *)
LEMMA DataStays ==
  ASSUME Typed, Configured, LastIsLive, [Next]_vars, NEW d \in Dirs, NEW r \in Runs,
         last[d] = r, pc[r] # "save" \/ pc'[r] = pc[r], NEW data, DataInFiles(data, d)
  PROVE  DataInFiles(data, d)'
<1>1. Save(r) \/ Kill(r) => pc[r] # "save"
  BY DEF Save, Kill, Goto, Typed, Domains
<1>2. \A k \in Rounds, s \in SlotSet : file'[Artifact(d, k, s)] = file[Artifact(d, k, s)]
  BY <1>1, ArtifactKept
<1>3. QED
  BY <1>2 DEF DataInFiles, Rounds, SlotSet, Artifact

(* Every step keeps rows and checkpoints together.                         *)
LEMMA RowsTrueNext ==
  ASSUME Typed, MadeTrue, Configured, LastIsLive, LiveTrue, RowsTrue, [Next]_vars PROVE RowsTrue'
<1> USE DEF Typed
<1> DEFINE Rowing == {"collect", "save", "bundle", "update", "checkpoint", "summary"}
<1> DEFINE Newest(r) ==
      /\ pc[r] # "summary" => Len(rows[r]) = round[r] - 1
      /\ Len(rows[r]) <= conf[r].rounds
      /\ Len(rows[r]) > 0 =>
           /\ pc[r] \in {"collect", "save", "update"} => rows[r][Len(rows[r])].after = policy[r]
           /\ pc[r] = "checkpoint" => rows[r][Len(rows[r])].after = made[policy[r]].parent
<1> SUFFICES ASSUME NEW r \in Runs, pc'[r] \in Rowing
             PROVE  RowsInFiles(rows[r], conf[r].dir)' /\ Newest(r)'
  BY DEF RowsTrue, RowsInFiles
<1>1. pc[r] \in Rowing => RowsInFiles(rows[r], conf[r].dir) /\ Newest(r)
  BY DEF RowsTrue
<1>2. rows[r] \in Seq(RowSet) /\ Len(rows[r]) \in Nat /\ round[r] \in Nat \ {0}
  OBVIOUS
<1>3. Live(r)' /\ ~Started(r)
  BY DEF Live, Ended, Started
<1>4. conf'[r] = conf[r] /\ conf[r] \in Configs /\ conf[r].dir \in Dirs /\ last[conf[r].dir] = r
  BY <1>3, LiveMoves DEF LastIsLive
<1>5. ASSUME pc[r] \in Rowing, pc[r] # "checkpoint" \/ pc'[r] = pc[r], rows'[r] = rows[r]
      PROVE  RowsInFiles(rows[r], conf[r].dir)'
  <2>1. PICK rs, d : rs = rows[r] /\ d = conf[r].dir
    OBVIOUS
  <2>2. RowsInFiles(rs, d)'
    BY <1>1, <1>4, <1>5, <2>1, RowsStay
  <2>3. QED
    BY <1>4, <1>5, <2>1, <2>2 DEF RowsInFiles
<1>6. CASE Kept(r) /\ pc'[r] = pc[r]
  <2>1. RowsInFiles(rows[r], conf[r].dir)'
    BY <1>5, <1>6 DEF Kept, StateKept
  <2>2. pc[r] = "checkpoint" => made'[policy[r]] = made[policy[r]]
    BY MadeStays DEF LiveTrue, Adapted
  <2>3. rows'[r] = rows[r] /\ policy'[r] = policy[r] /\ round'[r] = round[r]
    BY <1>6 DEF Kept, StateKept
  <2>4. Newest(r)'
    BY <1>1, <1>4, <1>6, <2>2, <2>3
  <2>5. QED
    BY <2>1, <2>4
<1>7. CASE Rebuilt(r)
  <2>1. rows'[r] = <<>> /\ round'[r] = 1 /\ conf'[r].rounds \in Nat
    BY <1>4, <1>7, ConfigAssumption DEF Rebuilt, Configured
  <2>2. Len(rows'[r]) = 0 /\ DOMAIN rows'[r] = {}
    BY <2>1
  <2>3. QED
    BY <2>1, <2>2 DEF RowsInFiles
<1>8. CASE Rolled(r) \/ Saved(r)
  <2>1. /\ rows'[r] = rows[r] /\ policy'[r] = policy[r] /\ round'[r] = round[r]
        /\ pc[r] \in {"collect", "save"} /\ pc'[r] \in {"collect", "save", "bundle", "update"}
    BY <1>8 DEF Rolled, Saved, StateKept
  <2>2. QED
    BY <1>1, <1>4, <1>5, <2>1
<1>9. CASE Wrote(r)
  <2>1. rows'[r] = rows[r] /\ pc[r] = "bundle" /\ pc'[r] = "summary"
    BY <1>9 DEF Wrote, Kept, StateKept
  <2>2. QED
    BY <1>1, <1>4, <1>5, <2>1
<1>10. CASE Updated(r)
  <2>1. /\ rows'[r] = rows[r] /\ round'[r] = round[r] /\ pc[r] = "update" /\ pc'[r] = "checkpoint"
        /\ made'[policy'[r]].parent = policy[r]
    BY <1>10 DEF Updated
  <2>2. QED
    BY <1>1, <1>4, <1>5, <2>1
<1>11. CASE Checkpointed(r)
  <2> DEFINE d == conf[r].dir
  <2> DEFINE n == Len(rows[r])
  <2>1. pc[r] = "checkpoint" /\ rows'[r] = Append(rows[r], Row(r)) /\ policy'[r] = policy[r]
    BY <1>11 DEF Checkpointed
  <2>2. n = round[r] - 1 /\ n \in Nat /\ round[r] <= conf[r].rounds /\ conf[r].rounds \in Nat
    BY <1>1, <1>2, <1>4, <2>1, ConfigAssumption DEF Configured
  <2>3. /\ Len(rows'[r]) = n + 1 /\ DOMAIN rows'[r] = 1..(n + 1)
        /\ rows'[r][n + 1] = Row(r) /\ \A k \in 1..n : rows'[r][k] = rows[r][k]
    BY <1>2, <2>1
  <2>4. round[r] \in Rounds
    BY <1>4, <2>2, ConfigFacts
  <2>5. /\ file'[Checkpoint(d, n + 1)].policy = policy[r]
        /\ file'[Checkpoint(d, n + 1)].before = made[policy[r]].parent
    <3>1. Checkpoint(d, n + 1) = Checkpoint(d, round[r]) /\ Checkpoint(d, round[r]) \in Paths
      BY <1>4, <2>2, <2>4, PathFacts
    <3>2. file'[Checkpoint(d, round[r])] =
            [kind |-> "checkpoint", policy |-> policy[r], before |-> Row(r).before,
             step |-> step[r], opt |-> opt[r]]
      BY <1>11, <3>1 DEF Checkpointed, Domains
    <3>3. QED
      BY <3>1, <3>2 DEF Row
  <2>6. ASSUME NEW k \in 1..n PROVE file'[Checkpoint(d, k)] = file[Checkpoint(d, k)]
    <3>1. Checkpoint(d, k) # Checkpoint(d, round[r])
      BY <2>2, PathsDiffer
    <3>2. QED
      BY <1>11, <3>1 DEF Checkpointed
  <2>7. ASSUME NEW k \in 1..(n + 1)
        PROVE  /\ k \in Rounds /\ file'[Checkpoint(d, k)].policy = rows'[r][k].after
               /\ file'[Checkpoint(d, k)].before = rows'[r][k].before
               /\ k > 1 => rows'[r][k].before = rows'[r][k - 1].after
    <3>1. CASE k \in 1..n
      <4>1. k \in DOMAIN rows[r]
        BY <1>2, <3>1
      <4>2. /\ k \in Rounds /\ file[Checkpoint(d, k)].policy = rows[r][k].after
            /\ file[Checkpoint(d, k)].before = rows[r][k].before
            /\ k > 1 => rows[r][k].before = rows[r][k - 1].after
        BY <1>1, <2>1, <4>1 DEF RowsInFiles
      <4>3. k > 1 => k - 1 \in 1..n
        BY <2>2, <3>1
      <4>4. QED
        BY <2>3, <2>6, <3>1, <4>2, <4>3
    <3>2. CASE k = n + 1
      <4>1. k \in Rounds
        BY <2>2, <2>4, <3>2
      <4>2. rows'[r][k].after = policy[r] /\ rows'[r][k].before = made[policy[r]].parent
        BY <2>3, <3>2 DEF Row
      <4>3. k > 1 => rows'[r][k - 1].after = made[policy[r]].parent
        <5>1. k > 1 => n > 0 /\ k - 1 = n /\ n \in 1..n
          BY <2>2, <3>2
        <5>2. n > 0 => rows[r][n].after = made[policy[r]].parent
          BY <1>1, <2>1
        <5>3. QED
          BY <2>3, <5>1, <5>2
      <4>4. QED
        BY <2>5, <3>2, <4>1, <4>2, <4>3
    <3>3. QED
      BY <2>2, <3>1, <3>2
  <2>8. RowsInFiles(rows[r], conf[r].dir)'
    BY <1>4, <2>3, <2>7 DEF RowsInFiles
  <2>9. Newest(r)'
    <3>1. rows'[r][Len(rows'[r])].after = policy'[r]
      BY <2>1, <2>3 DEF Row
    <3>2. \/ pc'[r] = "collect" /\ round'[r] = round[r] + 1
          \/ pc'[r] = "summary"
      BY <1>11 DEF Checkpointed
    <3>3. Len(rows'[r]) <= conf'[r].rounds /\ Len(rows'[r]) = round[r]
      BY <1>4, <2>2, <2>3
    <3>4. QED
      BY <1>2, <3>1, <3>2, <3>3
  <2>10. QED
    BY <2>8, <2>9
<1>12. CASE Stopped(r) \/ Finished(r) \/ Forked(r) \/ Loaded(r)
  BY <1>12 DEF Stopped, Finished, Forked, Loaded
<1>13. QED
  BY <1>3, <1>6, <1>7, <1>8, <1>9, <1>10, <1>11, <1>12, RunMoves DEF Moves

(* Every step keeps trajectories and artifacts together.                   *)
LEMMA DataTrueNext ==
  ASSUME Typed, Configured, LastIsLive, Collected, DataTrue, [Next]_vars PROVE DataTrue'
<1> USE DEF Typed
<1> DEFINE Others(r) == {t \in got[r] : t.slot # slot[r]}
<1> DEFINE Here == {"collect", "bundle", "summary"}
<1> SUFFICES ASSUME NEW r \in Runs, conf'[r].mode = "collect"
             PROVE  /\ pc'[r] \in Here => DataInFiles(got[r], conf[r].dir)'
                    /\ pc'[r] = "save" => DataInFiles(Others(r), conf[r].dir)'
  BY DEF DataTrue, Mode, DataInFiles
<1> SUFFICES ASSUME pc'[r] \in Here \cup {"save"}
             PROVE  /\ pc'[r] \in Here => DataInFiles(got[r], conf[r].dir)'
                    /\ pc'[r] = "save" => DataInFiles(Others(r), conf[r].dir)'
  OBVIOUS
<1>1. conf'[r] = conf[r] /\ conf[r] \in Configs /\ conf[r].dir \in Dirs /\ last[conf[r].dir] = r
  <2>1. Live(r)' /\ ~Started(r)
    BY DEF Live, Ended, Started
  <2>2. QED
    BY <2>1, LiveMoves DEF LastIsLive
<1>2. /\ pc[r] \in Here => DataInFiles(got[r], conf[r].dir)
      /\ pc[r] = "save" => DataInFiles(Others(r), conf[r].dir)
  BY <1>1 DEF DataTrue, Mode
<1>3. ASSUME NEW data, DataInFiles(data, conf[r].dir), pc[r] # "save" \/ pc'[r] = pc[r],
             got'[r] \subseteq data \/ Others(r)' \subseteq data
      PROVE  /\ got'[r] \subseteq data => DataInFiles(got[r], conf[r].dir)'
             /\ Others(r)' \subseteq data => DataInFiles(Others(r), conf[r].dir)'
  <2>1. PICK d : d = conf[r].dir
    OBVIOUS
  <2>2. DataInFiles(data, d)'
    BY <1>1, <1>3, <2>1, DataStays
  <2>3. QED
    BY <1>1, <2>1, <2>2 DEF DataInFiles
<1>4. CASE Kept(r) /\ pc'[r] = pc[r]
  <2>1. got'[r] = got[r] /\ slot'[r] = slot[r]
    BY <1>4 DEF Kept, StateKept
  <2>2. PICK all, others : all = got[r] /\ others = Others(r)
    OBVIOUS
  <2>3. got'[r] = all /\ Others(r)' = others
    BY <2>1, <2>2
  <2>4. QED
    BY <1>2, <1>3, <1>4, <2>2, <2>3
<1>5. CASE Rebuilt(r)
  <2>1. got'[r] = {} /\ pc'[r] = "collect"
    BY <1>1, <1>5 DEF Rebuilt, Mode
  <2>2. QED
    BY <2>1 DEF DataInFiles
<1>6. CASE Rolled(r)
  <2>1. /\ got'[r] = got[r] \cup {Trajectory(r)} /\ slot'[r] = slot[r]
        /\ pc[r] = "collect" /\ pc'[r] = "save" /\ Trajectory(r).slot = slot[r]
    BY <1>6 DEF Rolled, Trajectory
  <2>2. PICK all : all = got[r]
    OBVIOUS
  <2>3. Others(r)' \subseteq all
    BY <2>1, <2>2
  <2>4. QED
    BY <1>2, <1>3, <2>1, <2>2, <2>3
<1>7. CASE Saved(r)
  <2> DEFINE d == conf[r].dir
  <2>1. /\ got'[r] = got[r] /\ pc[r] = "save" /\ pc'[r] # "save"
        /\ file' = [file EXCEPT ![Artifact(d, round[r], slot[r])] = Trajectory(r)]
    BY <1>7 DEF Saved, StateKept
  <2>2. round[r] \in Rounds /\ slot[r] \in SlotSet
    BY <1>1, <2>1, ConfigFacts, ConfigAssumption DEF Configured
  <2>3. \A t \in got[r] : t.slot = slot[r] => t = Trajectory(r)
    <3>1. Own(r, slot[r])
      BY <2>1 DEF Collected
    <3>2. QED
      BY <3>1 DEF Own, Trajectory
  <2>4. Trajectory(r).round = round[r] /\ Trajectory(r).slot = slot[r]
    BY DEF Trajectory
  <2>5. file'[Artifact(d, round[r], slot[r])] = Trajectory(r)
    BY <1>1, <2>1, <2>2, PathFacts DEF Domains
  <2>6. ASSUME NEW t \in got[r]
        PROVE  t.round \in Rounds /\ t.slot \in SlotSet /\ file'[Artifact(d, t.round, t.slot)] = t
    <3>1. CASE t.slot = slot[r]
      <4>1. t = Trajectory(r)
        BY <2>3, <3>1
      <4>2. QED
        BY <2>2, <2>4, <2>5, <4>1
    <3>2. CASE t.slot # slot[r]
      <4>1. t.round \in Rounds /\ t.slot \in SlotSet /\ file[Artifact(d, t.round, t.slot)] = t
        BY <1>2, <2>1, <3>2 DEF DataInFiles
      <4>2. Artifact(d, t.round, t.slot) # Artifact(d, round[r], slot[r])
        BY <3>2, PathsDiffer
      <4>3. QED
        BY <2>1, <4>1, <4>2
    <3>3. QED
      BY <3>1, <3>2
  <2>7. QED
    BY <1>1, <2>1, <2>6 DEF DataInFiles, SlotSet, Rounds
<1>8. CASE Wrote(r)
  <2>1. got'[r] = got[r] /\ pc[r] = "bundle" /\ pc'[r] = "summary"
    BY <1>8 DEF Wrote, Kept, StateKept
  <2>2. PICK all : all = got[r]
    OBVIOUS
  <2>3. QED
    BY <1>2, <1>3, <2>1, <2>2
<1>9. CASE Checkpointed(r)
  BY <1>1, <1>9 DEF Checkpointed, Configured, Mode
<1>10. CASE Started(r) \/ Stopped(r) \/ Finished(r) \/ Forked(r) \/ Updated(r) \/ Loaded(r)
  BY <1>10 DEF Started, Stopped, Finished, Forked, Updated, Loaded
<1>11. QED
  BY <1>4, <1>5, <1>6, <1>7, <1>8, <1>9, <1>10, RunMoves DEF Moves

(* A summary is of a run that writes no more; while its directory is its   *)
(* own, nobody else writes there either.                                   *)
LEMMA SummariesTrueNext ==
  ASSUME Typed, Configured, LastIsLive, RowsTrue, DataTrue, SummariesTrue, [Next]_vars
  PROVE  SummariesTrue'
<1> USE DEF Typed
<1> DEFINE Over == {"finish", "closing", "done", "raised", "killed"}
<1> DEFINE Tells(summary, d) == IF summary.mode = "collect" THEN DataInFiles(summary.data, d)
                                ELSE RowsInFiles(summary.rows, d)
<1> DEFINE Good(summary, d) ==
      /\ summary.run \in Runs /\ conf[summary.run].dir = d /\ pc[summary.run] \in Over
      /\ summary.run = last[d] => Tells(summary, d)
<1>0. SUFFICES ASSUME NEW d \in Dirs, NEW summary, summary = file'[SummaryPath(d)],
                    Is("summary", summary)
             PROVE  Good(summary, d)'
  BY <1>0 DEF SummariesTrue, Is, SummaryPath, DataInFiles, RowsInFiles
<1>1. ASSUME NEW r \in Runs, last[d] = r, Tells(summary, d), pc[r] \notin {"save", "checkpoint"}
      PROVE  Tells(summary, d)'
  <2>1. CASE summary.mode = "collect"
    <3>1. DataInFiles(summary.data, d)'
      BY <1>1, <2>1, DataStays
    <3>2. QED
      BY <2>1, <3>1
  <2>2. CASE summary.mode # "collect"
    <3>1. RowsInFiles(summary.rows, d)'
      BY <1>1, <2>2, RowsStay
    <3>2. QED
      BY <2>2, <3>1
  <2>3. QED
    BY <2>1, <2>2
<1>2. CASE file'[SummaryPath(d)] = file[SummaryPath(d)]
  <2>1. Good(summary, d)
    BY <1>0, <1>2 DEF SummariesTrue
  <2> DEFINE r == summary.run
  <2>2. r \in Runs /\ conf[r].dir = d /\ pc[r] \in Over
    BY <2>1
  <2>3. conf'[r] = conf[r] /\ pc'[r] \in Over /\ ~Started(r)
    <3>1. CASE Kept(r) /\ pc'[r] = pc[r]
      BY <2>2, <3>1 DEF Kept, Started
    <3>2. CASE Stopped(r) \/ Finished(r)
      BY <2>2, <3>2 DEF Stopped, Finished, Kept, Started, Live, Ended
    <3>3. ~Started(r) /\ ~Forked(r) /\ ~Rebuilt(r) /\ ~Rolled(r) /\ ~Saved(r) /\ ~Wrote(r)
      BY <2>2 DEF Started, Forked, Rebuilt, Rolled, Saved, Wrote
    <3>4. ~Updated(r) /\ ~Checkpointed(r) /\ ~Loaded(r)
      BY <2>2 DEF Updated, Checkpointed, Loaded
    <3>5. QED
      BY <2>2, <3>1, <3>2, <3>3, <3>4, RunMoves DEF Moves
  <2>4. last'[d] = r => last[d] = r
    <3>1. ASSUME NEW q \in Runs, NEW c \in Configs, Start(q, c), last'[d] = r PROVE last[d] = r
      <4>1. q # r
        BY <2>2, <3>1 DEF Start
      <4>2. QED
        BY <3>1, <4>1 DEF Start, Domains
    <3>2. QED
      BY <3>1, LastMoves
  <2>5. last'[d] = r => Tells(summary, d)'
    BY <1>1, <2>1, <2>2, <2>4
  <2>6. QED
    BY <2>2, <2>3, <2>5
<1>3. ASSUME NEW q \in Runs, WriteSummary(q), last[d] = q, conf[q].dir = d,
             summary = [kind |-> "summary", run |-> q, mode |-> Mode(q),
                        rows |-> rows[q], data |-> got[q]]
      PROVE  Good(summary, d)'
  <2>1. pc[q] = "summary" /\ pc'[q] = "finish" /\ conf'[q] = conf[q]
    BY <1>3 DEF WriteSummary, Goto, Domains
  <2>2. Tells(summary, d)
    <3>1. Mode(q) = "collect" => DataInFiles(got[q], d)
      BY <1>3, <2>1 DEF DataTrue
    <3>2. Mode(q) # "collect" => RowsInFiles(rows[q], d)
      BY <1>3, <2>1 DEF RowsTrue
    <3>3. summary.mode = Mode(q) /\ summary.rows = rows[q] /\ summary.data = got[q]
      BY <1>3
    <3>4. QED
      BY <3>1, <3>2, <3>3
  <2>3. Tells(summary, d)'
    BY <1>1, <1>3, <2>1, <2>2
  <2>4. summary.run = q
    BY <1>3
  <2>5. QED
    BY <1>3, <2>1, <2>3, <2>4
<1>4. QED
  BY <1>0, <1>2, <1>3, SummaryKept

-----------------------------------------------------------------------------
(* The inductive invariant.                                                *)

RunInv ==
  /\ Typed /\ MadeTrue /\ Configured /\ StepsWhole /\ FilesTrue /\ ReadTrue /\ LiveTrue
  /\ Collected /\ Loads /\ LastIsLive /\ RowsTrue /\ DataTrue /\ SummariesTrue

(* The invariant holds initially.                                          *)
LEMMA InitRunInv == Init => RunInv
<1> SUFFICES ASSUME Init PROVE RunInv
  OBVIOUS
<1>1. Typed
  BY InitTyped
<1>2. MadeTrue /\ StepsWhole
  BY ConfigAssumption DEF Init, MadeTrue, StepsWhole, Seeded
<1>3. \A r \in Runs : pc[r] = "idle"
  BY DEF Init
<1>4. Configured
  BY <1>3 DEF Init, Configured
<1>5. \A p \in Paths : file[p] = Absent
  BY DEF Init
<1>6. FilesTrue /\ SummariesTrue
  BY <1>5, PathFacts DEF FilesTrue, FileTrue, SummariesTrue, Is
<1>7. ReadTrue /\ Collected /\ Loads /\ LastIsLive /\ RowsTrue /\ DataTrue
  BY <1>3 DEF Init, ReadTrue, Collected, Loads, LastIsLive, Live, Ended, RowsTrue, DataTrue
<1>8. LiveTrue
  BY <1>3 DEF Init, LiveTrue, Adapted
<1>9. QED
  BY <1>1, <1>2, <1>4, <1>6, <1>7, <1>8 DEF RunInv

(* Every step keeps the invariant.                                         *)
LEMMA NextRunInv == RunInv /\ [Next]_vars => RunInv'
BY TypedNext, MadeTrueNext, ConfiguredNext, StepsWholeNext, FilesTrueNext, ReadTrueNext,
   LiveTrueNext, CollectedNext, LoadsNext, LastIsLiveNext, RowsTrueNext, DataTrueNext,
   SummariesTrueNext DEF RunInv

-----------------------------------------------------------------------------
(* The theorems.                                                           *)

(* In every reachable state the parts of the invariant hold.               *)
THEOREM RunInvariance == Spec => []RunInv
<1>1. Init => RunInv
  BY InitRunInv
<1>2. RunInv /\ [Next]_vars => RunInv'
  BY NextRunInv
<1>3. QED
  BY <1>1, <1>2, PTL DEF Spec

(* A checkpoint's step count and policy_version_before are those of its    *)
(* policy, every optimizer step is on-policy and of one process, and what  *)
(* a resumed run takes from a checkpoint belongs together.                 *)
LEMMA LineageFromInv == RunInv => LineageKept
<1> SUFFICES ASSUME RunInv PROVE LineageKept
  OBVIOUS
<1> USE DEF RunInv
<1>1. TypeOK
  <2>1. \A p \in Paths : Is("artifact", file[p]) => file[p].policy \in DOMAIN made
    BY DEF FilesTrue, FileTrue
  <2>2. ASSUME NEW r \in Runs
        PROVE  /\ conf[r] \in Configs \cup {None} /\ policy[r] \in DOMAIN made \cup {Fresh}
               /\ step[r] \in Nat
               /\ pc[r] \in {"fork", "collect", "save"} => slot[r] \in SlotSet
               /\ \A w \in SlotSet \X Rounds : worker[r][w] \in {"none", "fresh", "closed"}
    BY DEF Typed, Domains, LiveTrue, Configured
  <2>3. ASSUME NEW r \in Runs PROVE round[r] \in Rounds
    <3>1. CASE pc[r] = "idle"
      BY <3>1, ConfigFacts DEF Configured
    <3>2. CASE pc[r] # "idle"
      BY <3>2, ConfigFacts, ConfigAssumption DEF Configured, Typed
    <3>3. QED
      BY <3>1, <3>2
  <2>4. QED
    BY <2>1, <2>2, <2>3 DEF TypeOK
<1>2. OnPolicy
  BY DEF OnPolicy, StepsWhole, Whole
<1>3. LineageCounted
  BY DEF LineageCounted, FilesTrue, FileTrue, CheckpointTrue
<1>4. ResumeWhole
  BY DEF ResumeWhole, LiveTrue, Adapted
<1>5. QED
  BY <1>1, <1>2, <1>3, <1>4 DEF LineageKept

(* However runs are chained, killed and repeated over each other's files:  *)
(* every optimizer step is on-policy, checkpoints tell their lineage, and  *)
(* a resumed optimizer belongs to its adapter.                             *)
THEOREM LineageIsKept == Spec => []LineageKept
BY RunInvariance, LineageFromInv, PTL

(* What trajectory_update accepts is of one policy and round, one of every *)
(* rollout; a summary tells what is in its directory.                      *)
LEMMA OneRunFromInv == RunInv => ReadsOneRun
<1> SUFFICES ASSUME RunInv PROVE ReadsOneRun
  OBVIOUS
<1> USE DEF RunInv
<1>1. LoadedCoherent
  BY DEF LoadedCoherent, Loads, Compares, Covered
<1>2. SummaryTrue
  BY DEF SummaryTrue, SummariesTrue, RowsInFiles, DataInFiles
<1>3. QED
  BY <1>1, <1>2 DEF ReadsOneRun

(* The artifacts trajectory_update accepts are of one policy and round,    *)
(* and a summary tells what is in its directory.                           *)
THEOREM ReadersGetOneRun == Spec => []ReadsOneRun
BY RunInvariance, OneRunFromInv, PTL
=============================================================================
