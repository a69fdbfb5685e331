------------------------- MODULE SuccessPathUpdate --------------------------
(***************************************************************************)
(* The success-path trajectory update of                                   *)
(* experiments/train_iterative_on_policy_flow_opd.py, as the processes     *)
(* that run it see one output directory: the kernel guard and the writer   *)
(* lock file, the exact-identity hash of the inputs, the epoch             *)
(* checkpoints, the final checkpoint with its embedded finalization        *)
(* payload, and summary.json, the commit marker.                           *)
(*                                                                         *)
(* A writer is ONE process lifetime: it is launched once with a            *)
(* configuration (host, training contract, checkpoint to resume from), it  *)
(* may raise at any point, and it may be killed at any point.  Restarting  *)
(* the update is launching another writer.  Each file operation that       *)
(* another process can observe is an action: a temporary file appears,     *)
(* os.replace publishes it, unlink removes it.                             *)
(*                                                                         *)
(* A policy is identified by how it was made: the sequence of epochs       *)
(* applied to the released Student, each with the artifact and base-model  *)
(* contents it was trained on.                                             *)
(***************************************************************************)
EXTENDS Naturals, Sequences

CONSTANTS
    Writers,      \* process lifetimes
    Hosts,        \* machines that mount the output directory
    Pids,         \* process identifiers of a host
    Contracts,    \* training contracts (everything but initial_checkpoint)
    InnerEpochs,  \* config["inner_epochs"]
    MaxEdits,     \* bound: replacements of the inputs on disk
    Absent        \* no file, no process

ASSUME EpochsAssumption == InnerEpochs \in Nat \ {0}
ASSUME EditsAssumption == MaxEdits \in Nat
ASSUME WritersAssumption == Absent \notin Writers
ASSUME NonEmptyAssumption == Hosts # {} /\ Pids # {} /\ Contracts # {}

Epochs == 1 .. InnerEpochs
Contents == 0 .. MaxEdits

(* _success_path_exact_identity: content digests of the trajectory         *)
(* artifacts and of the Student tree.                                      *)
Identity == [artifacts: Contents, base: Contents]

(* Run configuration: resume = 0 is initial_checkpoint None, resume = k is *)
(* the path of this directory's epoch checkpoint k.                        *)
Config == [host: Hosts, contract: Contracts, resume: 0 .. InnerEpochs]

TrainedEpoch == [epoch: Epochs, artifacts: Contents, base: Contents]

Checkpoint ==
    [epoch: Epochs,               \* completed_inner_epochs
     lineage: Seq(TrainedEpoch),  \* adapter, optimizer and generator state
     identity: Identity,          \* success_path_exact_identity
     base: Contents,              \* base_parameter_hashes of the live model
     contract: Contracts,         \* success_path_resume_contract
     resume: 0 .. InnerEpochs]    \* parent_checkpoint

LockRecord == [token: Writers, pid: Pids, host: Hosts, contract: Contracts]

(* summary.json: the finalization payload, the digest of the final         *)
(* checkpoint as read back from disk, and the recovery audit flag.         *)
Summary == [payload: Checkpoint, digest: Checkpoint, recovered: BOOLEAN]

ASSUME AbsentAssumption ==
    /\ Absent \notin Checkpoint
    /\ Absent \notin LockRecord
    /\ Absent \notin Summary

(* The files that are published by an atomic replace.                      *)
LockPath == <<"lock", 0>>
FinalPath == <<"final", 0>>
SummaryPath == <<"summary", 0>>
EpochPath(e) == <<"epoch", e>>
CommittedPaths == {FinalPath, SummaryPath} \cup {EpochPath(e) : e \in Epochs}
Paths == CommittedPaths \cup {LockPath}

VARIABLES
    \* -- the output directory ------------------------------------------------
    guard,      \* writer whose descriptor holds flock on .success_path_writer.guard
    lock,       \* .success_path_writer.lock
    temps,      \* atomic-write temporaries: the target path and their writer
    epochs,     \* epoch_checkpoints/checkpoint_epoch_NN.pt
    final,      \* checkpoint_trajectory_update.pt
    summary,    \* summary.json
    \* -- the inputs on disk --------------------------------------------------
    disk,       \* current contents of the artifacts and of the Student tree
    \* -- the processes -------------------------------------------------------
    pc,         \* next step of each writer
    pid,        \* its process identifier
    config,     \* its configuration
    ident,      \* identity it hashed before loading
    loaded,     \* artifact contents it actually holds in memory
    parent,     \* resume checkpoint in memory
    live,       \* base-model contents of its runtime
    lineage,    \* epochs applied to its policy so far
    epoch,      \* loop variable epoch_id
    claim       \* summary it is about to publish

fileVars == <<epochs, final, summary>>
procVars == <<pid, config, ident, loaded, parent, live, lineage, epoch, claim>>
vars == <<guard, lock, temps, fileVars, disk, pc, procVars>>

Steps ==
    {"idle", "guard", "inspect", "stageLock", "lock", "hash", "load", "rehash", "review",
     "resume", "build", "train", "save", "saveEpoch", "finish", "saveFinal",
     "digest", "commit", "saveSummary", "unlink", "unlock", "leave", "done", "dead"}

(* The process exists; it holds the kernel guard; it is in the body of     *)
(* _success_path_output_lock, or about to leave it.  At "leave" the guard  *)
(* is released and the process has not ended yet.                          *)
Live(w) == pc[w] \notin {"idle", "done", "dead"}
Guarded(w) == Live(w) /\ pc[w] \notin {"guard", "leave"}
Inside(w) == Guarded(w) /\ pc[w] \notin {"inspect", "stageLock", "lock", "unlock"}

TypeOK ==
    /\ guard \in Writers \cup {Absent}
    /\ lock \in LockRecord \cup {Absent}
    /\ temps \subseteq [path: Paths, writer: Writers]
    /\ epochs \in [Epochs -> Checkpoint \cup {Absent}]
    /\ final \in Checkpoint \cup {Absent}
    /\ summary \in Summary \cup {Absent}
    /\ disk \in Identity
    /\ pc \in [Writers -> Steps]
    /\ pid \in [Writers -> Pids]
    /\ config \in [Writers -> Config]
    /\ ident \in [Writers -> Identity]
    /\ loaded \in [Writers -> Contents]
    /\ parent \in [Writers -> Checkpoint \cup {Absent}]
    /\ live \in [Writers -> Contents]
    /\ lineage \in [Writers -> Seq(TrainedEpoch)]
    /\ epoch \in [Writers -> 1 .. InnerEpochs + 1]
    /\ claim \in [Writers -> Summary \cup {Absent}]

Init ==
    /\ guard = Absent
    /\ lock = Absent
    /\ temps = {}
    /\ epochs = [e \in Epochs |-> Absent]
    /\ final = Absent
    /\ summary = Absent
    /\ disk = [artifacts |-> 0, base |-> 0]
    /\ pc = [w \in Writers |-> "idle"]
    /\ pid = [w \in Writers |-> CHOOSE p \in Pids : TRUE]
    /\ config = [w \in Writers |-> CHOOSE c \in Config : TRUE]
    /\ ident = [w \in Writers |-> [artifacts |-> 0, base |-> 0]]
    /\ loaded = [w \in Writers |-> 0]
    /\ parent = [w \in Writers |-> Absent]
    /\ live = [w \in Writers |-> 0]
    /\ lineage = [w \in Writers |-> <<>>]
    /\ epoch = [w \in Writers |-> 1]
    /\ claim = [w \in Writers |-> Absent]

-----------------------------------------------------------------------------
(* Process identifiers.  os.kill(pid, 0) answers for the caller's host: it *)
(* is certain that a running writer of that host is alive; any other       *)
(* identifier may have been reused by an unrelated process.                *)

PidInUse(h, p) ==
    \E v \in Writers : Live(v) /\ config[v].host = h /\ pid[v] = p

PidIsAlive(h, p, answer) ==
    /\ answer \in BOOLEAN
    /\ PidInUse(h, p) => answer

(* _cleanup_atomic_temps on a set of target paths: the file name carries   *)
(* the writer's pid but not its host.                                      *)
CleanupTemps(w, paths) ==
    \E kept \in SUBSET temps :
        /\ \A t \in temps : t.path \notin paths => t \in kept
        /\ \A t \in temps :
              PidInUse(config[w].host, pid[t.writer]) => t \in kept
        /\ temps' = kept

Goto(w, step) == pc' = [pc EXCEPT ![w] = step]

Temp(w, path) == [path |-> path, writer |-> w]

(***************************************************************************)
(* Launch and the writer lock.                                             *)
(***************************************************************************)

Launch(w) ==
    /\ pc[w] = "idle"
    /\ \E c \in Config, p \in Pids :
          /\ ~PidInUse(c.host, p)
          /\ config' = [config EXCEPT ![w] = c]
          /\ pid' = [pid EXCEPT ![w] = p]
    /\ Goto(w, "guard")
    /\ UNCHANGED <<guard, lock, temps, fileVars, disk, ident, loaded, parent,
                   live, lineage, epoch, claim>>

(* Mutant: the refusal of the kernel guard is not noticed.                 *)
AcquireGuardUnchecked(w) ==
    /\ pc[w] = "guard"
    /\ guard' = w
    /\ Goto(w, "inspect")
    /\ UNCHANGED <<lock, temps, fileVars, disk, procVars>>

(* flock(LOCK_EX | LOCK_NB): taken, or "output has a live writer".         *)
AcquireGuard(w) ==
    /\ pc[w] = "guard"
    /\ IF guard = Absent
       THEN guard' = w /\ Goto(w, "inspect")
       ELSE Goto(w, "done") /\ UNCHANGED guard
    /\ UNCHANGED <<lock, temps, fileVars, disk, procVars>>

(* Mutant: the pid of the record is looked up whatever host it names.      *)
MayTakeLockAnyHost(w, alive) ==
    lock = Absent \/ (~alive /\ lock.contract = config[w].contract)

(* A lock file left behind is taken over only when its owner ran on this   *)
(* host, is dead, and had the same contract.                               *)
MayTakeLock(w, alive) ==
    \/ lock = Absent
    \/ /\ lock.host = config[w].host
       /\ ~alive
       /\ lock.contract = config[w].contract

(* Mutant: a lock file that may not be taken is polled, not refused.       *)
InspectLockPolling(w) ==
    /\ pc[w] = "inspect"
    /\ CleanupTemps(w, {LockPath})
    /\ \E alive \in BOOLEAN :
          /\ lock # Absent => PidIsAlive(config[w].host, lock.pid, alive)
          /\ Goto(w, IF MayTakeLock(w, alive) THEN "stageLock" ELSE "inspect")
    /\ UNCHANGED <<guard, lock, fileVars, disk, procVars>>

(* Under the guard: clean the lock's temporaries, examine the lock file,   *)
(* and open the temporary of the new lock record; a refusal goes to the    *)
(* except branch that releases the guard.                                  *)
InspectLock(w) ==
    /\ pc[w] = "inspect"
    /\ CleanupTemps(w, {LockPath})
    /\ \E alive \in BOOLEAN :
          /\ lock # Absent => PidIsAlive(config[w].host, lock.pid, alive)
          /\ Goto(w, IF MayTakeLock(w, alive) THEN "stageLock" ELSE "unlock")
    /\ UNCHANGED <<guard, lock, fileVars, disk, procVars>>

StageLock(w) ==
    /\ pc[w] = "stageLock"
    /\ temps' = temps \cup {Temp(w, LockPath)}
    /\ Goto(w, "lock")
    /\ UNCHANGED <<guard, lock, fileVars, disk, procVars>>

(* os.replace publishes the record; the directory fsync after it may fail, *)
(* and then the guard is released with the record left in place.           *)
PublishLock(w) ==
    /\ pc[w] = "lock"
    /\ temps' = temps \ {Temp(w, LockPath)}
    /\ lock' = [token |-> w, pid |-> pid[w], host |-> config[w].host,
                contract |-> config[w].contract]
    /\ \E step \in {"hash", "unlock"} : Goto(w, step)
    /\ UNCHANGED <<guard, fileVars, disk, procVars>>

(* Mutant: the guard is given up first, and the record with it.            *)
UnlinkLockAfterGuard(w) ==
    /\ pc[w] = "unlink"
    /\ guard' = Absent
    /\ Goto(w, "unlock")
    /\ UNCHANGED <<lock, temps, fileVars, disk, procVars>>

(* _release_success_path_writer_lock: only the recorded owner unlinks; the *)
(* descriptor is unlocked and closed on every path.                        *)
UnlinkLock(w) ==
    /\ pc[w] = "unlink"
    /\ lock' = IF lock # Absent /\ lock.token = w THEN Absent ELSE lock
    /\ Goto(w, "unlock")
    /\ UNCHANGED <<guard, temps, fileVars, disk, procVars>>

(* The guard is released.  A process whose record stays behind (PublishLock *)
(* failed after the replace) is followed until it ends; whether one without *)
(* a record has ended makes no difference to any other process.            *)
Unlock(w) ==
    /\ pc[w] = "unlock"
    /\ guard' = Absent
    /\ Goto(w, IF lock # Absent /\ lock.token = w THEN "leave" ELSE "done")
    /\ UNCHANGED <<lock, temps, fileVars, disk, procVars>>

(* The exception ends the process some time later; until then the record   *)
(* names a process that is alive.                                          *)
Leave(w) ==
    /\ pc[w] = "leave"
    /\ Goto(w, "done")
    /\ UNCHANGED <<guard, lock, temps, fileVars, disk, procVars>>

(***************************************************************************)
(* Reading the inputs: hash everything, load the artifacts, hash the       *)
(* artifacts again.                                                        *)
(***************************************************************************)

HashInputs(w) ==
    /\ pc[w] = "hash"
    /\ ident' = [ident EXCEPT ![w] = disk]
    /\ Goto(w, "load")
    /\ UNCHANGED <<guard, lock, temps, fileVars, disk, pid, config, loaded,
                   parent, live, lineage, epoch, claim>>

LoadArtifacts(w) ==
    /\ pc[w] = "load"
    /\ loaded' = [loaded EXCEPT ![w] = disk.artifacts]
    /\ Goto(w, "rehash")
    /\ UNCHANGED <<guard, lock, temps, fileVars, disk, pid, config, ident,
                   parent, live, lineage, epoch, claim>>

(* Mutant: the second digest is taken and not compared.                    *)
RehashArtifactsIgnored(w) ==
    /\ pc[w] = "rehash"
    /\ Goto(w, "review")
    /\ UNCHANGED <<guard, lock, temps, fileVars, disk, procVars>>

RehashArtifacts(w) ==
    /\ pc[w] = "rehash"
    /\ Goto(w, IF disk.artifacts = ident[w].artifacts THEN "review" ELSE "unlink")
    /\ UNCHANGED <<guard, lock, temps, fileVars, disk, procVars>>

(***************************************************************************)
(* Committed output and resume.                                            *)
(***************************************************************************)

(* A final checkpoint without a summary is recoverable by the invocation   *)
(* that could have written it: same inputs, contract, and resume mode.     *)
Recoverable(ckpt, c, i) ==
    /\ ckpt.epoch = InnerEpochs
    /\ ckpt.identity = i
    /\ ckpt.contract = c.contract
    /\ ckpt.resume = c.resume

(* _guard_success_path_committed_output after cleaning the temporaries of  *)
(* every committed path: nothing committed, a summary to recover, or an    *)
(* error (a complete output is one too: it must not be trained again).     *)
ReviewOutput(w) ==
    /\ pc[w] = "review"
    /\ CleanupTemps(w, CommittedPaths)
    /\ \/ /\ final = Absent /\ summary = Absent
          /\ Goto(w, "resume")
          /\ UNCHANGED claim
       \/ /\ final # Absent /\ summary = Absent
          /\ Recoverable(final, config[w], ident[w])
          /\ claim' = [claim EXCEPT ![w] =
                [payload |-> final, digest |-> final, recovered |-> TRUE]]
          /\ Goto(w, "commit")
       \/ /\ \/ summary # Absent
             \/ final # Absent /\ ~Recoverable(final, config[w], ident[w])
          /\ Goto(w, "unlink")
          /\ UNCHANGED claim
    /\ UNCHANGED <<guard, lock, fileVars, disk, pid, config, ident, loaded,
                   parent, live, lineage, epoch>>

(* The resume checkpoint must be an unfinished epoch of this directory,    *)
(* made under the same contract from the same inputs.                      *)
ValidResume(ckpt, c, i) ==
    /\ ckpt # Absent
    /\ ckpt.epoch \in 1 .. InnerEpochs - 1
    /\ ckpt.epoch = c.resume
    /\ ckpt.identity = i
    /\ ckpt.contract = c.contract

(* Every completed epoch is present and no later epoch is.                 *)
EpochsMatch(completed) ==
    \A e \in Epochs : (e <= completed) <=> (epochs[e] # Absent)

CanStart(c, i) ==
    /\ c.resume > 0 => ValidResume(epochs[c.resume], c, i)
    /\ EpochsMatch(c.resume)

LoadResume(w) ==
    /\ pc[w] = "resume"
    /\ IF CanStart(config[w], ident[w])
       THEN /\ parent' = [parent EXCEPT ![w] =
                   IF config[w].resume = 0 THEN Absent ELSE epochs[config[w].resume]]
            /\ Goto(w, "build")
       ELSE Goto(w, "unlink") /\ UNCHANGED parent
    /\ UNCHANGED <<guard, lock, temps, fileVars, disk, pid, config, ident,
                   loaded, live, lineage, epoch, claim>>

(***************************************************************************)
(* Training.                                                               *)
(***************************************************************************)

(* Mutant: a resumed run continues the epoch count from a freshly released *)
(* policy.                                                                 *)
BuildRuntimeCold(w) ==
    /\ pc[w] = "build"
    /\ live' = [live EXCEPT ![w] = disk.base]
    /\ lineage' = [lineage EXCEPT ![w] = <<>>]
    /\ epoch' = [epoch EXCEPT ![w] =
          IF parent[w] = Absent THEN 1 ELSE parent[w].epoch + 1]
    /\ Goto(w, "train")
    /\ UNCHANGED <<guard, lock, temps, fileVars, disk, pid, config, ident,
                   loaded, parent, claim>>

(* The model is read from disk only now, after the identity was hashed;    *)
(* a resumed run compares it with the base the checkpoint was trained on.  *)
BuildRuntime(w) ==
    /\ pc[w] = "build"
    /\ live' = [live EXCEPT ![w] = disk.base]
    /\ IF parent[w] # Absent /\ parent[w].base # disk.base
       THEN Goto(w, "unlink") /\ UNCHANGED <<lineage, epoch>>
       ELSE /\ lineage' = [lineage EXCEPT ![w] =
                   IF parent[w] = Absent THEN <<>> ELSE parent[w].lineage]
            /\ epoch' = [epoch EXCEPT ![w] =
                   IF parent[w] = Absent THEN 1 ELSE parent[w].epoch + 1]
            /\ Goto(w, "train")
    /\ UNCHANGED <<guard, lock, temps, fileVars, disk, pid, config, ident,
                   loaded, parent, claim>>

(* Mutant: the last epoch is offered to the checkpoint callback too.       *)
TrainEpochSaveAll(w) ==
    /\ pc[w] = "train"
    /\ epoch[w] <= InnerEpochs
    /\ lineage' = [lineage EXCEPT ![w] =
          Append(@, [epoch |-> epoch[w], artifacts |-> loaded[w], base |-> live[w]])]
    /\ Goto(w, "save")
    /\ UNCHANGED <<guard, lock, temps, fileVars, disk, pid, config, ident,
                   loaded, parent, live, epoch, claim>>

(* One pass over the distinct batches; every epoch but the last is then    *)
(* offered to the checkpoint callback.                                     *)
TrainEpoch(w) ==
    /\ pc[w] = "train"
    /\ epoch[w] <= InnerEpochs
    /\ lineage' = [lineage EXCEPT ![w] =
          Append(@, [epoch |-> epoch[w], artifacts |-> loaded[w], base |-> live[w]])]
    /\ Goto(w, IF epoch[w] < InnerEpochs THEN "save" ELSE "finish")
    /\ UNCHANGED <<guard, lock, temps, fileVars, disk, pid, config, ident,
                   loaded, parent, live, epoch, claim>>

(* _save_checkpoint: what a checkpoint of this writer records.             *)
CheckpointOf(w, completed) ==
    [epoch |-> completed, lineage |-> lineage[w], identity |-> ident[w],
     base |-> live[w], contract |-> config[w].contract,
     resume |-> config[w].resume]

StageEpoch(w) ==
    /\ pc[w] = "save"
    /\ IF epochs[epoch[w]] = Absent
       THEN temps' = temps \cup {Temp(w, EpochPath(epoch[w]))} /\ Goto(w, "saveEpoch")
       ELSE Goto(w, "unlink") /\ UNCHANGED temps
    /\ UNCHANGED <<guard, lock, fileVars, disk, procVars>>

PublishEpoch(w) ==
    /\ pc[w] = "saveEpoch"
    /\ temps' = temps \ {Temp(w, EpochPath(epoch[w]))}
    /\ epochs' = [epochs EXCEPT ![epoch[w]] = CheckpointOf(w, epoch[w])]
    /\ epoch' = [epoch EXCEPT ![w] = @ + 1]
    /\ Goto(w, "train")
    /\ UNCHANGED <<guard, lock, final, summary, disk, pid, config, ident,
                   loaded, parent, live, lineage, claim>>

(***************************************************************************)
(* The commit: final checkpoint, its digest, then the summary.             *)
(***************************************************************************)

StageFinal(w) ==
    /\ pc[w] = "finish"
    /\ IF final = Absent /\ summary = Absent
       THEN temps' = temps \cup {Temp(w, FinalPath)} /\ Goto(w, "saveFinal")
       ELSE Goto(w, "unlink") /\ UNCHANGED temps
    /\ UNCHANGED <<guard, lock, fileVars, disk, procVars>>

PublishFinal(w) ==
    /\ pc[w] = "saveFinal"
    /\ temps' = temps \ {Temp(w, FinalPath)}
    /\ final' = CheckpointOf(w, InnerEpochs)
    /\ Goto(w, "digest")
    /\ UNCHANGED <<guard, lock, epochs, summary, disk, procVars>>

DigestFinal(w) ==
    /\ pc[w] = "digest"
    /\ claim' = [claim EXCEPT ![w] =
          [payload |-> CheckpointOf(w, InnerEpochs), digest |-> final,
           recovered |-> FALSE]]
    /\ Goto(w, "commit")
    /\ UNCHANGED <<guard, lock, temps, fileVars, disk, pid, config, ident,
                   loaded, parent, live, lineage, epoch>>

StageSummary(w) ==
    /\ pc[w] = "commit"
    /\ IF summary = Absent
       THEN temps' = temps \cup {Temp(w, SummaryPath)} /\ Goto(w, "saveSummary")
       ELSE Goto(w, "unlink") /\ UNCHANGED temps
    /\ UNCHANGED <<guard, lock, fileVars, disk, procVars>>

PublishSummary(w) ==
    /\ pc[w] = "saveSummary"
    /\ temps' = temps \ {Temp(w, SummaryPath)}
    /\ summary' = claim[w]
    /\ Goto(w, "unlink")
    /\ UNCHANGED <<guard, lock, epochs, final, disk, procVars>>

(***************************************************************************)
(* What the code does not choose: an exception, a kill, new input files.   *)
(***************************************************************************)

(* Any exception: an atomic write removes its temporary, the lock context  *)
(* manager (or the except branch of the acquisition) runs.                 *)
Raise(w) ==
    /\ Guarded(w) /\ pc[w] \notin {"unlink", "unlock"}
    /\ temps' = {t \in temps : t.writer # w}
    /\ Goto(w, IF Inside(w) THEN "unlink" ELSE "unlock")
    /\ UNCHANGED <<guard, lock, fileVars, disk, procVars>>

(* SIGKILL or a lost machine: the kernel drops the flock, files stay.      *)
Crash(w) ==
    /\ Live(w)
    /\ guard' = IF guard = w THEN Absent ELSE guard
    /\ Goto(w, "dead")
    /\ UNCHANGED <<lock, temps, fileVars, disk, procVars>>

(* Bound: each input is replaced at most MaxEdits times, always by content *)
(* that was never there before.                                            *)
EditInputs ==
    /\ \E f \in {"artifacts", "base"} :
          /\ disk[f] < MaxEdits
          /\ disk' = [disk EXCEPT ![f] = @ + 1]
    /\ UNCHANGED <<guard, lock, temps, fileVars, pc, procVars>>

Step(w) ==
    \/ AcquireGuard(w) \/ InspectLock(w) \/ StageLock(w) \/ PublishLock(w)
    \/ HashInputs(w) \/ LoadArtifacts(w) \/ RehashArtifacts(w)
    \/ ReviewOutput(w) \/ LoadResume(w) \/ BuildRuntime(w) \/ TrainEpoch(w)
    \/ StageEpoch(w) \/ PublishEpoch(w) \/ StageFinal(w) \/ PublishFinal(w)
    \/ DigestFinal(w) \/ StageSummary(w) \/ PublishSummary(w)
    \/ UnlinkLock(w) \/ Unlock(w) \/ Leave(w)

Next ==
    \/ \E w \in Writers : Launch(w) \/ Step(w) \/ Raise(w) \/ Crash(w)
    \/ EditInputs

Spec == Init /\ [][Next]_vars

(* A running process keeps executing: no step of a writer waits for        *)
(* another process (the guard is tried with LOCK_NB, never awaited).       *)
FairSpec == Spec /\ \A w \in Writers : WF_vars(Step(w))

(***************************************************************************)
(* Properties.                                                             *)
(***************************************************************************)

(* At most one process at a time is in the body of                         *)
(* _success_path_output_lock, whatever crashes and takeovers came before.  *)
OneWriter == \A v, w \in Writers : Inside(v) /\ Inside(w) => v = w

(* A checkpoint is an exact update of n epochs: epochs 1 .. n, each once   *)
(* and in order, all on the artifact contents of its recorded identity and *)
(* on one base model, however many crashes and resumes produced it.        *)
Exact(ckpt, n) ==
    /\ ckpt.epoch = n
    /\ Len(ckpt.lineage) = n
    /\ \A i \in 1 .. n :
          ckpt.lineage[i] = [epoch |-> i, artifacts |-> ckpt.identity.artifacts,
                             base |-> ckpt.base]

CheckpointsExact ==
    /\ \A e \in Epochs : epochs[e] # Absent => Exact(epochs[e], e)
    /\ final # Absent => Exact(final, InnerEpochs)

(* The epoch checkpoints on disk are one history: no gap, every checkpoint *)
(* extends the one before it under the same contract and inputs, and none  *)
(* stands for a complete update (there would be nothing to resume).        *)
EpochsAreOneHistory ==
    /\ epochs[InnerEpochs] = Absent
    /\ \A d, e \in Epochs : d < e /\ epochs[e] # Absent =>
          /\ epochs[d] # Absent
          /\ epochs[d].lineage = SubSeq(epochs[e].lineage, 1, d)
          /\ epochs[d].contract = epochs[e].contract
          /\ epochs[d].identity = epochs[e].identity

(* When no process holds the guard, a lock file left behind was left by a  *)
(* process that no longer exists or is on its way out: the takeover test   *)
(* can succeed, now or when it has ended.                                  *)
LockLeftOnlyByDead ==
    guard = Absent /\ lock # Absent => ~Live(lock.token) \/ pc[lock.token] = "leave"

(* No interruption wedges the output: while nothing runs and nothing is    *)
(* committed, some configuration and inputs are accepted, to recover the   *)
(* summary when the final checkpoint exists and to train when it does not. *)
NotWedged ==
    guard = Absent /\ summary = Absent =>
        \E c \in Config, i \in Identity :
            IF final = Absent THEN CanStart(c, i) ELSE Recoverable(final, c, i)

(* No step lets a second process into the body of the lock, and the record *)
(* of a live owner changes only when that owner unlinks it on its way out. *)
(* After an acquisition that failed behind its own record (the except      *)
(* branch of _acquire_success_path_writer_lock) the owner no longer holds  *)
(* the guard, and only the test of host and pid protects the record.       *)
RecordKept ==
    lock # Absent /\ lock' # lock /\ Live(lock.token) =>
        pc[lock.token] = "unlink" /\ lock' = Absent
LockHonoured == [][OneWriter' /\ RecordKept]_vars

(* The temporary of a process that keeps running disappears only by a step *)
(* of that process: a cleanup never pulls the file from under os.replace.  *)
LiveTempsKept ==
    [][\A t \in temps \ temps' :
          Live(t.writer) => pc'[t.writer] # pc[t.writer]]_vars

(* A published epoch checkpoint is never replaced or removed.              *)
EpochsWriteOnce ==
    [][\A e \in Epochs : epochs[e] # Absent => epochs'[e] = epochs[e]]_vars

(* The two committed files behave as the abstract commit: an exact, whole  *)
(* update appears once, then a receipt whose payload and digest are both   *)
(* that checkpoint.                                                        *)
Receipt ==
    IF summary = Absent THEN Absent
    ELSE IF summary.payload = summary.digest THEN summary.digest
    ELSE summary
Commit == INSTANCE UpdateCommit WITH
    Finished <- {c \in Checkpoint : Exact(c, InnerEpochs)},
    checkpoint <- final,
    receipt <- Receipt
ImplementsCommit == Commit!Spec

(* A launched process never waits for another: unless it is killed it      *)
(* reaches its end, and then it does not hold the guard.                   *)
WritersFinish ==
    \A w \in Writers : Live(w) ~> (~Live(w) /\ guard # w)

(***************************************************************************)
(* The inductive invariant behind the safety properties: who holds the     *)
(* guard, and what the guard holder knows about the files at each step.    *)
(***************************************************************************)

Training == {"train", "save", "saveEpoch", "finish", "saveFinal"}
Committing == {"digest", "commit", "saveSummary"}

(* Number of epochs the policy of a training writer has behind it.         *)
Trained(w) == IF pc[w] = "train" THEN epoch[w] - 1 ELSE epoch[w]

(* Content only gets newer, so an artifact that hashes the same before and *)
(* after the load was not replaced in between: from the second hash on,    *)
(* memory holds the artifacts that were hashed.                            *)
InputsInv(w) ==
    /\ pc[w] = "load" => ident[w].artifacts <= disk.artifacts
    /\ pc[w] = "rehash" =>
          ident[w].artifacts <= loaded[w] /\ loaded[w] <= disk.artifacts
    /\ pc[w] \in {"review", "resume", "build"} \cup Training =>
          loaded[w] = ident[w].artifacts

(* The resume checkpoint in memory is still the newest one on disk.        *)
ParentInv(w) ==
    pc[w] = "build" =>
        /\ EpochsMatch(config[w].resume)
        /\ IF config[w].resume = 0 THEN parent[w] = Absent
           ELSE /\ parent[w] = epochs[config[w].resume]
                /\ ValidResume(parent[w], config[w], ident[w])

(* The policy in memory is an exact update, and the checkpoints on disk    *)
(* are those of the writer's own history.                                  *)
TrainingInv(w) ==
    pc[w] \in Training =>
        /\ epoch[w] \in Epochs
        /\ pc[w] \in {"save", "saveEpoch"} => epoch[w] < InnerEpochs
        /\ pc[w] \in {"finish", "saveFinal"} => epoch[w] = InnerEpochs
        /\ Exact(CheckpointOf(w, Trained(w)), Trained(w))
        /\ EpochsMatch(epoch[w] - 1)
        /\ \A d \in 1 .. epoch[w] - 1 :
              /\ epochs[d].contract = config[w].contract
              /\ epochs[d].identity = ident[w]
              /\ epochs[d].base = live[w]

CommittingInv(w) ==
    /\ pc[w] \in {"resume", "build"} \cup Training =>
          final = Absent /\ summary = Absent
    /\ pc[w] \in Committing => summary = Absent /\ final # Absent
    /\ pc[w] = "digest" => final = CheckpointOf(w, InnerEpochs)
    /\ pc[w] \in {"commit", "saveSummary"} =>
          claim[w] # Absent /\ claim[w].payload = final /\ claim[w].digest = final

LocalInv(w) == InputsInv(w) /\ ParentInv(w) /\ TrainingInv(w) /\ CommittingInv(w)

GuardInv == \A w \in Writers : guard = w <=> Guarded(w)

(* Epoch checkpoints form one history: the completed epochs are an initial *)
(* segment, all from the same inputs; all checkpoints being exact, the     *)
(* prefix relation between their lineages follows.                         *)
HistoryInv ==
    /\ \E completed \in 0 .. InnerEpochs - 1 : EpochsMatch(completed)
    /\ \A d, e \in Epochs : d < e /\ epochs[e] # Absent =>
          /\ epochs[d].contract = epochs[e].contract
          /\ epochs[d].identity = epochs[e].identity
          /\ epochs[d].base = epochs[e].base

SummaryInv ==
    summary # Absent =>
        final # Absent /\ summary.payload = final /\ summary.digest = final

FileInv == HistoryInv /\ CheckpointsExact /\ SummaryInv

IInv == TypeOK /\ GuardInv /\ FileInv /\ \A w \in Writers : LocalInv(w)

(* The lock record is that of the process it names, which published it.    *)
BeforeRecord == {"idle", "guard", "inspect", "stageLock", "lock"}
RecordInv ==
    lock # Absent =>
        /\ pc[lock.token] \notin BeforeRecord
        /\ lock.pid = pid[lock.token]
        /\ lock.host = config[lock.token].host

(* A process that got past the inspection replaces no live owner's record. *)
TakeoverInv ==
    \A w \in Writers :
        pc[w] \in {"stageLock", "lock"} /\ lock # Absent => ~Live(lock.token)

(* A temporary is the one its writer is about to publish, or its writer    *)
(* was killed.                                                             *)
Opened(t) ==
    \/ pc[t.writer] = "lock" /\ t.path = LockPath
    \/ pc[t.writer] = "saveEpoch" /\ t.path = EpochPath(epoch[t.writer])
    \/ pc[t.writer] = "saveFinal" /\ t.path = FinalPath
    \/ pc[t.writer] = "saveSummary" /\ t.path = SummaryPath
TempInv == \A t \in temps : Opened(t) \/ pc[t.writer] = "dead"

LockInv == RecordInv /\ TakeoverInv /\ TempInv
=============================================================================
