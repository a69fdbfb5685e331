---------------------- MODULE SuccessPathUpdateProofs -----------------------
(***************************************************************************)
(* Safety of SuccessPathUpdate for every number of writers, hosts, pids,   *)
(* contracts and epochs, and every bound on the edits of the inputs.       *)
(***************************************************************************)
EXTENDS SuccessPathUpdate, SequenceTheorems, TLAPS

(* The initial values have their types: the choices of Init exist.         *)
LEMMA InitTypeOK == Init => TypeOK
<1> SUFFICES ASSUME Init PROVE TypeOK
  OBVIOUS
<1>1. (CHOOSE p \in Pids : TRUE) \in Pids
  BY NonEmptyAssumption
<1>2. PICK h \in Hosts, c \in Contracts : TRUE
  BY NonEmptyAssumption
<1>3. [host |-> h, contract |-> c, resume |-> 0] \in Config
  BY EpochsAssumption DEF Config
<1>4. (CHOOSE c0 \in Config : TRUE) \in Config
  BY <1>3
<1>5. <<>> \in Seq(TrainedEpoch)
  OBVIOUS
<1>6. 0 \in Contents /\ 1 \in 1 .. InnerEpochs + 1
  BY EpochsAssumption, EditsAssumption DEF Contents
<1>7. QED
  BY <1>1, <1>4, <1>5, <1>6 DEF Init, TypeOK, Identity, Steps

-----------------------------------------------------------------------------
(* What a step of writer v leaves alone.                                   *)

SameLocals(w) ==
    /\ pc'[w] = pc[w]
    /\ config'[w] = config[w]
    /\ ident'[w] = ident[w]
    /\ loaded'[w] = loaded[w]
    /\ parent'[w] = parent[w]
    /\ live'[w] = live[w]
    /\ lineage'[w] = lineage[w]
    /\ epoch'[w] = epoch[w]
    /\ claim'[w] = claim[w]

(* A writer outside the guard knows nothing about the files.               *)
LEMMA OutsideKnowsNothing ==
    ASSUME NEW w, ~Guarded(w) PROVE LocalInv(w)
BY DEF Guarded, Live, LocalInv, InputsInv, ParentInv, TrainingInv, CommittingInv,
       Training, Committing

(* The knowledge of a writer survives whatever keeps its memory and the    *)
(* files as they are; the inputs on disk may get newer.                    *)
LEMMA KnowledgeKept ==
    ASSUME NEW w \in Writers, TypeOK, LocalInv(w), SameLocals(w), UNCHANGED fileVars,
           disk' \in Identity, disk.artifacts <= disk'.artifacts
    PROVE  LocalInv(w)'
<1>1. InputsInv(w)'
  <2>1. /\ ident[w].artifacts \in Nat /\ loaded[w] \in Nat
        /\ disk.artifacts \in Nat /\ disk'.artifacts \in Nat
    BY EditsAssumption DEF TypeOK, Identity, Contents
  <2>2. QED
    BY <2>1 DEF LocalInv, InputsInv, SameLocals, Training
<1>2. CommittingInv(w)'
  BY DEF LocalInv, CommittingInv, SameLocals, fileVars, Training, Committing,
     CheckpointOf
<1>3. ParentInv(w)'
  BY DEF LocalInv, ParentInv, SameLocals, fileVars, EpochsMatch, ValidResume
<1>4. TrainingInv(w)'
  BY DEF LocalInv, TrainingInv, SameLocals, fileVars, EpochsMatch, Training,
         CheckpointOf, Trained, Exact
<1>5. QED
  BY <1>1, <1>2, <1>3, <1>4 DEF LocalInv

(* What is known of the committed files depends on those files only.       *)
LEMMA FilesKept ==
    ASSUME FileInv, UNCHANGED fileVars PROVE FileInv'
BY DEF FileInv, HistoryInv, EpochsMatch, CheckpointsExact, Exact, SummaryInv, fileVars

(* A step of v preserves the invariant once it does so for v itself: by    *)
(* the guard, another writer that knows something about the files excludes *)
(* that v may change them.                                                 *)
LEMMA StepOfOneWriter ==
    ASSUME IInv, NEW v \in Writers,
           TypeOK', GuardInv', FileInv', LocalInv(v)',
           \A w \in Writers \ {v} : SameLocals(w), UNCHANGED disk,
           Guarded(v) \/ UNCHANGED fileVars
    PROVE  IInv'
<1> SUFFICES ASSUME NEW w \in Writers, w # v PROVE LocalInv(w)'
  BY DEF IInv
<1>1. CASE UNCHANGED fileVars
  <2>1. disk' \in Identity /\ disk.artifacts \in Nat
    BY EditsAssumption DEF IInv, TypeOK, Identity, Contents
  <2>2. QED
    BY <1>1, <2>1, KnowledgeKept DEF IInv
<1>2. CASE Guarded(v)
  <2>1. ~Guarded(w)
    BY <1>2 DEF IInv, GuardInv
  <2>2. ~Guarded(w)'
    BY <2>1 DEF Guarded, Live, SameLocals
  <2>3. QED
    BY <2>2 DEF Guarded, Live, LocalInv, InputsInv, ParentInv, TrainingInv,
       CommittingInv, Training, Committing
<1>3. QED
  BY <1>1, <1>2

(* A writer that holds the guard and does not leave keeps it.              *)
LEMMA GuardKept ==
    ASSUME IInv, NEW v \in Writers, Guarded(v), UNCHANGED guard,
           NEW step, step \notin {"idle", "guard", "leave", "done", "dead"}, Goto(v, step)
    PROVE  GuardInv'
BY DEF IInv, TypeOK, GuardInv, Goto, Guarded, Live

(* Steps that change no file of the update and no memory but pc.           *)
LEMMA QuietStep ==
    ASSUME IInv, NEW v \in Writers, NEW step \in Steps, Goto(v, step),
           UNCHANGED <<fileVars, disk, procVars>>,
           guard' \in Writers \cup {Absent},
           lock' \in LockRecord \cup {Absent},
           temps' \subseteq [path: Paths, writer: Writers],
           GuardInv', LocalInv(v)'
    PROVE  IInv'
<1>1. TypeOK'
  BY DEF IInv, TypeOK, Goto, fileVars, procVars
<1>2. FileInv'
  BY FilesKept DEF IInv
<1>3. \A w \in Writers \ {v} : SameLocals(w)
  BY DEF IInv, TypeOK, Goto, procVars, SameLocals
<1>4. QED
  BY <1>1, <1>2, <1>3, StepOfOneWriter

-----------------------------------------------------------------------------
(* The writer lock.                                                        *)

(* A process starts, outside the guard.                                    *)
LEMMA LaunchPreserves ==
    ASSUME IInv, NEW v \in Writers, Launch(v) PROVE IInv'
<1>1. TypeOK'
  BY DEF IInv, TypeOK, Launch, Goto, Steps, fileVars
<1>2. GuardInv'
  BY DEF IInv, TypeOK, GuardInv, Launch, Goto, Guarded, Live
<1>3. FileInv'
  BY FilesKept DEF IInv, Launch
<1>4. ~Guarded(v)'
  BY DEF IInv, TypeOK, Launch, Goto, Guarded, Live
<1>5. LocalInv(v)'
  BY <1>4 DEF Guarded, Live, LocalInv, InputsInv, ParentInv, TrainingInv,
     CommittingInv, Training, Committing
<1>6. \A w \in Writers \ {v} : SameLocals(w)
  BY DEF IInv, TypeOK, Launch, Goto, SameLocals
<1>7. QED
  BY <1>1, <1>2, <1>3, <1>5, <1>6, StepOfOneWriter DEF Launch

(* flock gives the guard to one process, or the process gives up.          *)
LEMMA AcquireGuardPreserves ==
    ASSUME IInv, NEW v \in Writers, AcquireGuard(v) PROVE IInv'
<1>1. PICK step \in {"inspect", "done"} : Goto(v, step)
  BY DEF AcquireGuard
<1>2. GuardInv'
  BY WritersAssumption DEF IInv, TypeOK, GuardInv, AcquireGuard, Goto, Guarded, Live
<1>3. LocalInv(v)'
  BY <1>1 DEF IInv, TypeOK, Goto, LocalInv, InputsInv, ParentInv, TrainingInv,
     CommittingInv, Training, Committing
<1>4. /\ step \in Steps
      /\ guard' \in Writers \cup {Absent}
      /\ lock' \in LockRecord \cup {Absent}
      /\ temps' \subseteq [path: Paths, writer: Writers]
      /\ UNCHANGED <<fileVars, disk, procVars>>
  BY DEF IInv, TypeOK, AcquireGuard, Steps
<1>5. QED
  BY <1>1, <1>2, <1>3, <1>4, QuietStep

(* The steps of the acquisition and of the release: whatever they do to    *)
(* the lock file and the temporaries, they know nothing about the update.  *)
LEMMA LockStepPreserves ==
    ASSUME IInv, NEW v \in Writers, Guarded(v), UNCHANGED guard,
           NEW step \in {"stageLock", "lock", "hash", "unlink", "unlock"},
           Goto(v, step), UNCHANGED <<fileVars, disk, procVars>>,
           lock' \in LockRecord \cup {Absent},
           temps' \subseteq [path: Paths, writer: Writers]
    PROVE  IInv'
<1>1. GuardInv'
  BY GuardKept
<1>2. LocalInv(v)'
  BY DEF IInv, TypeOK, Goto, LocalInv, InputsInv, ParentInv, TrainingInv,
     CommittingInv, Training, Committing
<1>3. QED
  BY <1>1, <1>2, QuietStep DEF IInv, TypeOK, Steps

(* Inspecting, staging, publishing and unlinking the lock record.          *)
LEMMA LockingPreserves ==
    ASSUME IInv, NEW v \in Writers,
           InspectLock(v) \/ StageLock(v) \/ PublishLock(v) \/ UnlinkLock(v)
    PROVE  IInv'
<1>1. CASE InspectLock(v)
  BY <1>1, LockStepPreserves
     DEF InspectLock, CleanupTemps, Guarded, Live, IInv, TypeOK
<1>2. CASE StageLock(v)
  <2>1. temps' \subseteq [path: Paths, writer: Writers]
    BY <1>2 DEF StageLock, Temp, Paths, IInv, TypeOK
  <2>2. QED
    BY <1>2, <2>1, LockStepPreserves DEF StageLock, Guarded, Live, IInv, TypeOK
<1>3. CASE PublishLock(v)
  <2>1. lock' \in LockRecord
    BY <1>3 DEF PublishLock, LockRecord, IInv, TypeOK, Config
  <2>2. QED
    BY <1>3, <2>1, LockStepPreserves DEF PublishLock, Guarded, Live, IInv, TypeOK
<1>4. CASE UnlinkLock(v)
  BY <1>4, LockStepPreserves DEF UnlinkLock, Guarded, Live, IInv, TypeOK
<1>5. QED
  BY <1>1, <1>2, <1>3, <1>4

(* Closing the guard descriptor, and the end of a process that left its    *)
(* record behind.                                                          *)
LEMMA UnlockPreserves ==
    ASSUME IInv, NEW v \in Writers, Unlock(v) \/ Leave(v) PROVE IInv'
<1>1. PICK step \in {"leave", "done"} : Goto(v, step)
  BY DEF Unlock, Leave
<1>2. GuardInv'
  BY <1>1, WritersAssumption
     DEF IInv, TypeOK, GuardInv, Unlock, Leave, Goto, Guarded, Live
<1>3. LocalInv(v)'
  BY <1>1 DEF IInv, TypeOK, Goto, LocalInv, InputsInv, ParentInv, TrainingInv,
     CommittingInv, Training, Committing
<1>4. QED
  BY <1>1, <1>2, <1>3, QuietStep DEF IInv, TypeOK, Unlock, Leave, Steps

(* An exception, handled by the lock context manager.                      *)
LEMMA RaisePreserves ==
    ASSUME IInv, NEW v \in Writers, Raise(v) PROVE IInv'
BY LockStepPreserves DEF Raise, IInv, TypeOK

(* A killed process: the kernel drops its guard.                           *)
LEMMA CrashPreserves ==
    ASSUME IInv, NEW v \in Writers, Crash(v) PROVE IInv'
<1>1. GuardInv'
  BY WritersAssumption DEF IInv, TypeOK, GuardInv, Crash, Goto, Guarded, Live
<1>2. LocalInv(v)'
  BY DEF IInv, TypeOK, Crash, Goto, LocalInv, InputsInv, ParentInv, TrainingInv,
     CommittingInv, Training, Committing
<1>3. QED
  BY <1>1, <1>2, QuietStep DEF IInv, TypeOK, Crash, Steps

-----------------------------------------------------------------------------
(* The inputs.                                                             *)

(* The first digest of the inputs.                                         *)
LEMMA HashInputsPreserves ==
    ASSUME IInv, NEW v \in Writers, HashInputs(v) PROVE IInv'
<1>1. TypeOK'
  BY DEF IInv, TypeOK, HashInputs, Goto, Steps, fileVars
<1>2. GuardInv'
  BY GuardKept DEF HashInputs, Guarded, Live
<1>3. FileInv'
  BY FilesKept DEF IInv, HashInputs
<1>4. LocalInv(v)'
  BY EditsAssumption
   DEF IInv, TypeOK, Identity, Contents, HashInputs, Goto, LocalInv, InputsInv, ParentInv,
     TrainingInv, CommittingInv, Training, Committing
<1>5. \A w \in Writers \ {v} : SameLocals(w)
  BY DEF IInv, TypeOK, HashInputs, Goto, SameLocals
<1>6. QED
  BY <1>1, <1>2, <1>3, <1>4, <1>5, StepOfOneWriter DEF HashInputs

(* Artifacts loaded after the digest are at least as new.                  *)
LEMMA LoadArtifactsPreserves ==
    ASSUME IInv, NEW v \in Writers, LoadArtifacts(v) PROVE IInv'
<1>1. TypeOK'
  BY DEF IInv, TypeOK, LoadArtifacts, Goto, Steps, fileVars, Identity
<1>2. GuardInv'
  BY GuardKept DEF LoadArtifacts, Guarded, Live
<1>3. FileInv'
  BY FilesKept DEF IInv, LoadArtifacts
<1>4. LocalInv(v)'
  BY EditsAssumption
   DEF IInv, TypeOK, Identity, Contents, LoadArtifacts, Goto, LocalInv, InputsInv, ParentInv,
     TrainingInv, CommittingInv, Training, Committing
<1>5. \A w \in Writers \ {v} : SameLocals(w)
  BY DEF IInv, TypeOK, LoadArtifacts, Goto, SameLocals
<1>6. QED
  BY <1>1, <1>2, <1>3, <1>4, <1>5, StepOfOneWriter DEF LoadArtifacts

(* An equal second digest pins the loaded artifacts between the two.       *)
LEMMA RehashArtifactsPreserves ==
    ASSUME IInv, NEW v \in Writers, RehashArtifacts(v) PROVE IInv'
<1>1. CASE Goto(v, "unlink")
  BY <1>1, LockStepPreserves DEF RehashArtifacts, Guarded, Live, IInv, TypeOK
<1>2. CASE Goto(v, "review") /\ disk.artifacts = ident[v].artifacts
  <2>1. GuardInv'
    BY <1>2, GuardKept DEF RehashArtifacts, Guarded, Live
  <2>2. loaded[v] \in Nat /\ disk.artifacts \in Nat
    BY EditsAssumption DEF IInv, TypeOK, Identity, Contents
  <2>3. loaded[v] = ident[v].artifacts
    BY <1>2, <2>2 DEF RehashArtifacts, IInv, LocalInv, InputsInv
  <2>4. LocalInv(v)'
    BY <1>2, <2>3 DEF IInv, TypeOK, RehashArtifacts, Goto, procVars, LocalInv,
       InputsInv, ParentInv, TrainingInv, CommittingInv, Training, Committing
  <2>5. QED
    BY <1>2, <2>1, <2>4, QuietStep DEF RehashArtifacts, IInv, TypeOK, Steps
<1>3. QED
  BY <1>1, <1>2 DEF RehashArtifacts

-----------------------------------------------------------------------------
(* Committed output and resume.                                            *)

(* An output without committed files, or a claim to the final checkpoint.  *)
LEMMA ReviewOutputPreserves ==
    ASSUME IInv, NEW v \in Writers, ReviewOutput(v) PROVE IInv'
<1>1. PICK step \in {"resume", "commit", "unlink"} :
        /\ Goto(v, step)
        /\ step = "resume" => final = Absent /\ summary = Absent
        /\ step = "commit" =>
              /\ final # Absent /\ summary = Absent
              /\ claim' = [claim EXCEPT ![v] =
                    [payload |-> final, digest |-> final, recovered |-> TRUE]]
        /\ step # "commit" => UNCHANGED claim
  BY DEF ReviewOutput
<1>0. final # Absent =>
        /\ [payload |-> final, digest |-> final, recovered |-> TRUE] \in Summary
        /\ [payload |-> final, digest |-> final, recovered |-> TRUE] # Absent
  <2>1. final # Absent =>
          [payload |-> final, digest |-> final, recovered |-> TRUE] \in Summary
    BY DEF IInv, TypeOK, Summary
  <2>2. QED
    BY <2>1, AbsentAssumption
<1>2. TypeOK'
  <2>1. temps' \subseteq [path: Paths, writer: Writers]
    BY DEF ReviewOutput, CleanupTemps, IInv, TypeOK
  <2>2. claim' \in [Writers -> Summary \cup {Absent}]
    BY <1>0, <1>1 DEF IInv, TypeOK
  <2>3. QED
    BY <1>1, <2>1, <2>2 DEF ReviewOutput, IInv, TypeOK, Goto, Steps, fileVars
<1>3. GuardInv'
  BY <1>1, GuardKept DEF ReviewOutput, Guarded, Live
<1>4. FileInv'
  BY FilesKept DEF IInv, ReviewOutput
<1>5. LocalInv(v)'
  <2>1. InputsInv(v)' /\ ParentInv(v)' /\ TrainingInv(v)'
    BY <1>1 DEF IInv, TypeOK, ReviewOutput, Goto, LocalInv, InputsInv, ParentInv,
       TrainingInv, Training
  <2>2. CommittingInv(v)'
    BY <1>0, <1>1 DEF IInv, TypeOK, ReviewOutput, Goto, fileVars,
       CommittingInv, Training, Committing
  <2>3. QED
    BY <2>1, <2>2 DEF LocalInv
<1>6. \A w \in Writers \ {v} : SameLocals(w)
  BY <1>1 DEF IInv, TypeOK, ReviewOutput, Goto, SameLocals
<1>7. QED
  BY <1>2, <1>3, <1>4, <1>5, <1>6, StepOfOneWriter DEF ReviewOutput

(* The resume checkpoint held in memory is the newest one on disk.         *)
LEMMA LoadResumePreserves ==
    ASSUME IInv, NEW v \in Writers, LoadResume(v) PROVE IInv'
<1>1. CASE Goto(v, "unlink") /\ UNCHANGED parent
  BY <1>1, LockStepPreserves DEF LoadResume, Guarded, Live, IInv, TypeOK, procVars
<1>2. CASE /\ Goto(v, "build")
           /\ CanStart(config[v], ident[v])
           /\ parent' = [parent EXCEPT ![v] =
                 IF config[v].resume = 0 THEN Absent ELSE epochs[config[v].resume]]
  <2>1. config[v].resume \in 0 .. InnerEpochs
    BY DEF IInv, TypeOK, Config
  <2>2. config[v].resume # 0 => epochs[config[v].resume] \in Checkpoint \cup {Absent}
    BY <2>1, EpochsAssumption DEF IInv, TypeOK, Epochs
  <2>3. TypeOK'
    BY <1>2, <2>2 DEF LoadResume, IInv, TypeOK, Goto, Steps, fileVars
  <2>4. GuardInv'
    BY <1>2, GuardKept DEF LoadResume, Guarded, Live
  <2>5. FileInv'
    BY FilesKept DEF IInv, LoadResume
  <2>6. LocalInv(v)'
    <3>1. InputsInv(v)' /\ TrainingInv(v)' /\ CommittingInv(v)'
      BY <1>2 DEF IInv, TypeOK, LoadResume, Goto, LocalInv, InputsInv, fileVars,
         TrainingInv, CommittingInv, Training, Committing
    <3>2. ParentInv(v)'
      BY <1>2, <2>1 DEF IInv, TypeOK, LoadResume, Goto, fileVars, ParentInv,
         CanStart, EpochsMatch, ValidResume
    <3>3. QED
      BY <3>1, <3>2 DEF LocalInv
  <2>7. \A w \in Writers \ {v} : SameLocals(w)
    BY <1>2 DEF IInv, TypeOK, LoadResume, Goto, SameLocals
  <2>8. QED
    BY <2>3, <2>4, <2>5, <2>6, <2>7, StepOfOneWriter DEF LoadResume
<1>3. QED
  BY <1>1, <1>2 DEF LoadResume

-----------------------------------------------------------------------------
(* Training.                                                               *)

(* What a writer saves is a checkpoint, and so is what it read back.       *)
LEMMA CheckpointOfType ==
    ASSUME TypeOK, NEW v \in Writers, NEW n \in Epochs
    PROVE  CheckpointOf(v, n) \in Checkpoint
BY DEF TypeOK, CheckpointOf, Checkpoint, Config

(* The policy a writer starts from is exact for the epochs completed.      *)
LEMMA BuildRuntimePreserves ==
    ASSUME IInv, NEW v \in Writers, BuildRuntime(v) PROVE IInv'
<1>1. disk.base \in Contents
  BY DEF IInv, TypeOK, Identity
<1>2. \A w \in Writers \ {v} : SameLocals(w)
  BY DEF IInv, TypeOK, BuildRuntime, Goto, SameLocals
<1>3. FileInv'
  BY FilesKept DEF IInv, BuildRuntime
<1>4. CASE Goto(v, "unlink") /\ UNCHANGED <<lineage, epoch>>
  <2>1. TypeOK'
    BY <1>1, <1>4 DEF BuildRuntime, IInv, TypeOK, Goto, Steps, fileVars
  <2>2. GuardInv'
    BY <1>4, GuardKept DEF BuildRuntime, Guarded, Live
  <2>3. LocalInv(v)'
    BY <1>4 DEF IInv, TypeOK, Goto, LocalInv, InputsInv, ParentInv, TrainingInv,
       CommittingInv, Training, Committing
  <2>4. QED
    BY <2>1, <2>2, <1>3, <2>3, <1>2, StepOfOneWriter DEF BuildRuntime
<1>5. CASE /\ Goto(v, "train")
           /\ parent[v] # Absent => parent[v].base = disk.base
           /\ lineage' = [lineage EXCEPT ![v] =
                 IF parent[v] = Absent THEN <<>> ELSE parent[v].lineage]
           /\ epoch' = [epoch EXCEPT ![v] =
                 IF parent[v] = Absent THEN 1 ELSE parent[v].epoch + 1]
  <2>1. /\ EpochsMatch(config[v].resume)
        /\ config[v].resume \in 0 .. InnerEpochs
        /\ InnerEpochs \in Nat /\ InnerEpochs > 0
    BY EpochsAssumption DEF IInv, TypeOK, Config, LocalInv, ParentInv, BuildRuntime
  <2>2. /\ config[v].resume = 0 => parent[v] = Absent
        /\ config[v].resume # 0 =>
              /\ parent[v] = epochs[config[v].resume]
              /\ ValidResume(parent[v], config[v], ident[v])
    BY DEF IInv, LocalInv, ParentInv, BuildRuntime
  <2>3. parent[v] # Absent =>
          /\ config[v].resume \in 1 .. InnerEpochs - 1
          /\ parent[v].epoch = config[v].resume
          /\ parent[v] \in Checkpoint
          /\ Exact(parent[v], parent[v].epoch)
    BY <2>1, <2>2 DEF IInv, TypeOK, ValidResume, FileInv, CheckpointsExact, Epochs
  <2>4. /\ epoch'[v] = config[v].resume + 1
        /\ epoch'[v] \in Epochs
    BY <1>5, <2>1, <2>2, <2>3 DEF IInv, TypeOK, Epochs, ValidResume
  <2>5. lineage'[v] \in Seq(TrainedEpoch)
    BY <1>5, <2>3 DEF IInv, TypeOK, Checkpoint
  <2>6. TypeOK'
    <3>1. /\ epoch' \in [Writers -> 1 .. InnerEpochs + 1]
          /\ lineage' \in [Writers -> Seq(TrainedEpoch)]
      BY <1>5, <2>1, <2>4, <2>5 DEF IInv, TypeOK, Epochs
    <3>2. QED
      BY <1>1, <1>5, <3>1 DEF BuildRuntime, IInv, TypeOK, Goto, Steps, fileVars
  <2>7. GuardInv'
    BY <1>5, GuardKept DEF BuildRuntime, Guarded, Live
  <2>8. InputsInv(v)' /\ ParentInv(v)' /\ CommittingInv(v)'
    BY <1>5 DEF IInv, TypeOK, BuildRuntime, Goto, fileVars, LocalInv, InputsInv,
       ParentInv, CommittingInv, Training, Committing
  <2>9. TrainingInv(v)'
    <3>1. /\ pc'[v] = "train" /\ live'[v] = disk.base
          /\ UNCHANGED <<epochs, config, ident>>
      BY <1>5 DEF IInv, TypeOK, BuildRuntime, Goto, fileVars
    <3>2. Trained(v)' = config[v].resume /\ (epoch[v] - 1)' = config[v].resume
      BY <2>1, <2>4, <3>1 DEF Trained
    <3>3. Exact(CheckpointOf(v, Trained(v)), Trained(v))'
      <4>1. CASE parent[v] = Absent
        <5>1. config[v].resume = 0 /\ lineage'[v] = <<>>
          BY <1>5, <2>2, <4>1 DEF IInv, TypeOK, ValidResume
        <5>2. QED
          BY <3>2, <5>1 DEF Exact, CheckpointOf
      <4>2. CASE parent[v] # Absent
        <5>1. /\ lineage'[v] = parent[v].lineage
              /\ parent[v].identity = ident[v] /\ parent[v].base = disk.base
          BY <1>5, <2>2, <4>2 DEF IInv, TypeOK, ValidResume
        <5>2. QED
          BY <2>3, <3>1, <3>2, <4>2, <5>1 DEF Exact, CheckpointOf
      <4>3. QED
        BY <4>1, <4>2
    <3>4. EpochsMatch(epoch[v] - 1)'
      BY <2>1, <3>1, <3>2 DEF EpochsMatch
    <3>5. ASSUME NEW d \in 1 .. config[v].resume
          PROVE  /\ epochs[d].contract = config[v].contract
                 /\ epochs[d].identity = ident[v]
                 /\ epochs[d].base = disk.base
      <4>1. parent[v] # Absent /\ parent[v] = epochs[config[v].resume]
        BY <2>1, <2>2, <3>5 DEF ValidResume
      <4>2. /\ parent[v].contract = config[v].contract
            /\ parent[v].identity = ident[v] /\ parent[v].base = disk.base
        BY <1>5, <2>2, <4>1
           DEF ValidResume
      <4>3. d \in Epochs /\ config[v].resume \in Epochs
        BY <2>1, <3>5 DEF Epochs
      <4>4. CASE d = config[v].resume
        BY <4>1, <4>2, <4>4
      <4>5. CASE d < config[v].resume
        <5>1. \A e \in Epochs : d < e /\ epochs[e] # Absent =>
                /\ epochs[d].contract = epochs[e].contract
                /\ epochs[d].identity = epochs[e].identity
                /\ epochs[d].base = epochs[e].base
          BY <4>3 DEF IInv, FileInv, HistoryInv
        <5>2. QED
          BY <4>1, <4>2, <4>3, <4>5, <5>1
      <4>6. QED
        BY <2>1, <3>5, <4>4, <4>5
    <3>6. \A d \in 1 .. epoch'[v] - 1 :
             /\ epochs'[d].contract = config'[v].contract
             /\ epochs'[d].identity = ident'[v]
             /\ epochs'[d].base = live'[v]
      BY <3>1, <3>2, <3>5
    <3>7. QED
      BY <2>4, <3>1, <3>3, <3>4, <3>6 DEF TrainingInv
  <2>10. QED
    BY <2>6, <2>7, <1>3, <2>8, <2>9, <1>2, StepOfOneWriter DEF BuildRuntime, LocalInv
<1>6. QED
  BY <1>4, <1>5 DEF BuildRuntime

(* One more epoch keeps the policy exact.                                  *)
LEMMA TrainEpochPreserves ==
    ASSUME IInv, NEW v \in Writers, TrainEpoch(v) PROVE IInv'
<1> DEFINE trained == [epoch |-> epoch[v], artifacts |-> loaded[v], base |-> live[v]]
<1>1. PICK step \in {"save", "finish"} :
        /\ Goto(v, step)
        /\ step = "save" => epoch[v] < InnerEpochs
        /\ step = "finish" => epoch[v] = InnerEpochs
  BY EpochsAssumption DEF TrainEpoch, IInv, TypeOK
<1>2. /\ lineage' = [lineage EXCEPT ![v] = Append(@, trained)]
      /\ UNCHANGED <<epochs, epoch, config, ident, loaded, live>>
      /\ pc[v] = "train" /\ pc'[v] = step
  BY <1>1 DEF TrainEpoch, IInv, TypeOK, Goto, fileVars
<1>3. /\ epoch[v] \in Epochs /\ epoch[v] \in Nat
      /\ loaded[v] = ident[v].artifacts
      /\ lineage[v] \in Seq(TrainedEpoch)
  BY <1>2 DEF IInv, TypeOK, LocalInv, InputsInv, TrainingInv, Training, Epochs
<1>4. trained \in TrainedEpoch
  BY <1>3 DEF IInv, TypeOK, TrainedEpoch
<1>5. lineage'[v] = Append(lineage[v], trained) /\ lineage'[v] \in Seq(TrainedEpoch)
  BY <1>2, <1>3, <1>4 DEF IInv, TypeOK
<1>6. TypeOK'
  <2>1. lineage' \in [Writers -> Seq(TrainedEpoch)]
    BY <1>2, <1>5 DEF IInv, TypeOK
  <2>2. QED
    BY <1>1, <2>1 DEF TrainEpoch, IInv, TypeOK, Goto, Steps, fileVars
<1>7. GuardInv'
  BY <1>1, GuardKept DEF TrainEpoch, Guarded, Live
<1>8. FileInv'
  BY FilesKept DEF IInv, TrainEpoch
<1>9. InputsInv(v)' /\ ParentInv(v)' /\ CommittingInv(v)'
  BY <1>1 DEF IInv, TypeOK, TrainEpoch, Goto, fileVars, LocalInv, InputsInv,
     ParentInv, CommittingInv, Training, Committing
<1>10. TrainingInv(v)'
  <2>1. Exact(CheckpointOf(v, Trained(v)), Trained(v))'
    <3>1. /\ Len(lineage[v]) = epoch[v] - 1
          /\ \A i \in 1 .. epoch[v] - 1 :
                lineage[v][i] = [epoch |-> i, artifacts |-> ident[v].artifacts,
                                 base |-> live[v]]
      BY <1>2 DEF IInv, LocalInv, TrainingInv, Training, Trained, Exact, CheckpointOf
    <3>2. Len(lineage'[v]) = epoch[v]
      BY <1>3, <1>5, <3>1
    <3>3. ASSUME NEW i \in 1 .. epoch[v]
          PROVE  lineage'[v][i] = [epoch |-> i, artifacts |-> ident[v].artifacts,
                                   base |-> live[v]]
      BY <1>3, <1>5, <3>1
    <3>4. Trained(v)' = epoch[v]
      BY <1>2 DEF Trained
    <3>5. QED
      BY <1>2, <3>2, <3>3, <3>4 DEF Exact, CheckpointOf
  <2>2. EpochsMatch(epoch[v] - 1)'
    BY <1>2 DEF IInv, LocalInv, TrainingInv, Training, EpochsMatch
  <2>3. QED
    BY <1>1, <1>2, <1>3, <2>1, <2>2 DEF IInv, LocalInv, TrainingInv, Training
<1>11. \A w \in Writers \ {v} : SameLocals(w)
  BY <1>1, <1>2 DEF IInv, TypeOK, TrainEpoch, Goto, SameLocals
<1>12. QED
  BY <1>6, <1>7, <1>8, <1>9, <1>10, <1>11, StepOfOneWriter DEF TrainEpoch, LocalInv

(* Opening a temporary: what a guarded writer knows does not depend on it. *)
LEMMA StagingPreserves ==
    ASSUME IInv, NEW v \in Writers,
           StageEpoch(v) \/ StageFinal(v) \/ StageSummary(v)
    PROVE  IInv'
<1>1. CASE Goto(v, "unlink") /\ UNCHANGED temps
  BY <1>1, LockStepPreserves
     DEF StageEpoch, StageFinal, StageSummary, Guarded, Live, IInv, TypeOK
<1>2. ASSUME NEW path \in Paths, temps' = temps \cup {Temp(v, path)}
      PROVE  temps' \subseteq [path: Paths, writer: Writers]
  BY <1>2 DEF IInv, TypeOK, Temp
<1>3. CASE StageEpoch(v) /\ Goto(v, "saveEpoch")
  <2>1. EpochPath(epoch[v]) \in Paths
    BY <1>3 DEF StageEpoch, IInv, LocalInv, TrainingInv, Training, Paths, CommittedPaths
  <2>2. LocalInv(v)'
    BY <1>3 DEF StageEpoch, IInv, TypeOK, Goto, procVars, fileVars, LocalInv,
       InputsInv, ParentInv, TrainingInv, CommittingInv, Training, Committing,
       Trained, CheckpointOf, Exact, EpochsMatch
  <2>3. GuardInv'
    BY <1>3, GuardKept DEF StageEpoch, Guarded, Live
  <2>4. QED
    BY <1>2, <1>3, <2>1, <2>2, <2>3, QuietStep
       DEF StageEpoch, IInv, TypeOK, Steps, Goto
<1>4. CASE StageFinal(v) /\ Goto(v, "saveFinal")
  <2>1. FinalPath \in Paths
    BY DEF Paths, CommittedPaths
  <2>2. LocalInv(v)'
    BY <1>4 DEF StageFinal, IInv, TypeOK, Goto, procVars, fileVars, LocalInv,
       InputsInv, ParentInv, TrainingInv, CommittingInv, Training, Committing,
       Trained, CheckpointOf, Exact, EpochsMatch
  <2>3. GuardInv'
    BY <1>4, GuardKept DEF StageFinal, Guarded, Live
  <2>4. QED
    BY <1>2, <1>4, <2>1, <2>2, <2>3, QuietStep
       DEF StageFinal, IInv, TypeOK, Steps, Goto
<1>5. CASE StageSummary(v) /\ Goto(v, "saveSummary")
  <2>1. SummaryPath \in Paths
    BY DEF Paths, CommittedPaths
  <2>2. LocalInv(v)'
    BY <1>5 DEF StageSummary, IInv, TypeOK, Goto, procVars, fileVars, LocalInv,
       InputsInv, ParentInv, TrainingInv, CommittingInv, Training, Committing
  <2>3. GuardInv'
    BY <1>5, GuardKept DEF StageSummary, Guarded, Live
  <2>4. QED
    BY <1>2, <1>5, <2>1, <2>2, <2>3, QuietStep
       DEF StageSummary, IInv, TypeOK, Steps, Goto
<1>6. QED
  BY <1>1, <1>3, <1>4, <1>5 DEF StageEpoch, StageFinal, StageSummary

(* A published epoch checkpoint extends the history by one.                *)
LEMMA PublishEpochPreserves ==
    ASSUME IInv, NEW v \in Writers, PublishEpoch(v) PROVE IInv'
<1> DEFINE n == epoch[v]
           saved == CheckpointOf(v, n)
<1>1. /\ n \in Epochs /\ n < InnerEpochs /\ n \in Nat /\ InnerEpochs \in Nat
      /\ pc[v] = "saveEpoch" /\ pc'[v] = "train" /\ Goto(v, "train")
      /\ epochs' = [epochs EXCEPT ![n] = saved]
      /\ epoch' = [epoch EXCEPT ![v] = n + 1]
      /\ UNCHANGED <<config, ident, loaded, live, lineage, final, summary, disk>>
  BY EpochsAssumption DEF PublishEpoch, IInv, TypeOK, LocalInv, TrainingInv, Training,
     Epochs, Goto
<1>2. /\ Exact(saved, n)
      /\ EpochsMatch(n - 1)
      /\ \A d \in 1 .. n - 1 :
            /\ epochs[d].contract = config[v].contract
            /\ epochs[d].identity = ident[v]
            /\ epochs[d].base = live[v]
  BY <1>1 DEF IInv, LocalInv, TrainingInv, Training, Trained
<1>3. saved \in Checkpoint /\ saved # Absent
  BY <1>1, CheckpointOfType, AbsentAssumption DEF IInv
<1>4. /\ saved.contract = config[v].contract
      /\ saved.identity = ident[v] /\ saved.base = live[v]
  BY DEF CheckpointOf
<1>5. \A e \in Epochs : epochs'[e] = IF e = n THEN saved ELSE epochs[e]
  BY <1>1 DEF IInv, TypeOK
<1>6. \A e \in Epochs : (e <= n) <=> (epochs'[e] # Absent)
  BY <1>1, <1>2, <1>3, <1>5 DEF EpochsMatch, Epochs
<1>7. \A d \in 1 .. n : /\ epochs'[d].contract = config[v].contract
                       /\ epochs'[d].identity = ident[v]
                       /\ epochs'[d].base = live[v]
  BY <1>1, <1>2, <1>4, <1>5 DEF Epochs
<1>8. TypeOK'
  <2>1. temps' \subseteq [path: Paths, writer: Writers]
    BY DEF PublishEpoch, IInv, TypeOK
  <2>2. epochs' \in [Epochs -> Checkpoint \cup {Absent}]
    BY <1>1, <1>3 DEF IInv, TypeOK
  <2>3. epoch' \in [Writers -> 1 .. InnerEpochs + 1]
    BY <1>1 DEF IInv, TypeOK
  <2>4. QED
    BY <1>1, <2>1, <2>2, <2>3 DEF PublishEpoch, IInv, TypeOK, Goto, Steps
<1>9. GuardInv'
  BY <1>1, GuardKept DEF PublishEpoch, Guarded, Live
<1>10. FileInv'
  <2>1. HistoryInv'
    <3>1. \E completed \in 0 .. InnerEpochs - 1 :
              \A e \in Epochs : (e <= completed) <=> (epochs'[e] # Absent)
      <4>1. n \in 0 .. InnerEpochs - 1
        BY <1>1 DEF Epochs
      <4>2. QED
        BY <1>6, <4>1
    <3>2. ASSUME NEW d \in Epochs, NEW e \in Epochs, d < e, epochs'[e] # Absent
          PROVE  /\ epochs'[d].contract = epochs'[e].contract
                 /\ epochs'[d].identity = epochs'[e].identity
                 /\ epochs'[d].base = epochs'[e].base
      <4>1. e <= n /\ d <= n /\ d \in 1 .. n /\ e \in 1 .. n
        BY <1>1, <1>6, <3>2 DEF Epochs
      <4>2. QED
        BY <1>7, <4>1
    <3>3. QED
      BY <3>1, <3>2 DEF HistoryInv, EpochsMatch
  <2>2. CheckpointsExact'
    BY <1>1, <1>2, <1>5 DEF IInv, FileInv, CheckpointsExact, Exact
  <2>3. SummaryInv'
    BY <1>1 DEF IInv, FileInv, SummaryInv
  <2>4. QED
    BY <2>1, <2>2, <2>3 DEF FileInv
<1>11. InputsInv(v)' /\ ParentInv(v)' /\ CommittingInv(v)'
  BY <1>1 DEF IInv, LocalInv, InputsInv, ParentInv, CommittingInv, Training, Committing
<1>12. TrainingInv(v)'
  <2>1. epoch'[v] = n + 1 /\ epoch'[v] \in Epochs /\ Trained(v)' = n
    BY <1>1 DEF IInv, TypeOK, Trained, Epochs
  <2>2. Exact(CheckpointOf(v, Trained(v)), Trained(v))'
    BY <1>1, <1>2, <2>1 DEF Exact, CheckpointOf
  <2>3. EpochsMatch(epoch[v] - 1)'
    BY <1>1, <1>6, <2>1 DEF EpochsMatch
  <2>4. QED
    BY <1>1, <1>7, <2>1, <2>2, <2>3 DEF TrainingInv
<1>13. \A w \in Writers \ {v} : SameLocals(w)
  BY <1>1 DEF IInv, TypeOK, PublishEpoch, Goto, SameLocals
<1>14. QED
  BY <1>1, <1>8, <1>9, <1>10, <1>11, <1>12, <1>13, StepOfOneWriter
     DEF LocalInv, Guarded, Live

-----------------------------------------------------------------------------
(* The commit.                                                             *)

(* The final checkpoint is the exact policy of the guard holder.           *)
LEMMA PublishFinalPreserves ==
    ASSUME IInv, NEW v \in Writers, PublishFinal(v) PROVE IInv'
<1> DEFINE saved == CheckpointOf(v, InnerEpochs)
<1>1. /\ pc[v] = "saveFinal" /\ pc'[v] = "digest" /\ Goto(v, "digest")
      /\ epoch[v] = InnerEpochs /\ summary = Absent
      /\ final' = saved
      /\ UNCHANGED <<guard, lock, epochs, summary, disk, procVars>>
  BY DEF PublishFinal, IInv, TypeOK, LocalInv, TrainingInv, CommittingInv, Training, Goto
<1>2. Exact(saved, InnerEpochs)
  BY <1>1 DEF IInv, LocalInv, TrainingInv, Training, Trained
<1>3. saved \in Checkpoint /\ saved # Absent
  <2>1. InnerEpochs \in Epochs
    BY EpochsAssumption DEF Epochs
  <2>2. QED
    BY <2>1, CheckpointOfType, AbsentAssumption DEF IInv
<1>4. TypeOK'
  <2>1. temps' \subseteq [path: Paths, writer: Writers]
    BY DEF PublishFinal, IInv, TypeOK
  <2>2. QED
    BY <1>1, <1>3, <2>1 DEF IInv, TypeOK, Steps, procVars, Goto
<1>5. GuardInv'
  BY <1>1, GuardKept DEF Guarded, Live
<1>6. FileInv'
  BY <1>1, <1>2 
   DEF IInv, FileInv, HistoryInv, EpochsMatch, CheckpointsExact, SummaryInv, Exact
<1>7. LocalInv(v)'
  <2>1. InputsInv(v)' /\ ParentInv(v)' /\ TrainingInv(v)'
    BY <1>1 DEF LocalInv, InputsInv, ParentInv, TrainingInv, Training
  <2>2. final' = CheckpointOf(v, InnerEpochs)'
    BY <1>1 DEF CheckpointOf, procVars
  <2>3. CommittingInv(v)'
    BY <1>1, <1>3, <2>2 DEF CommittingInv, Training, Committing
  <2>4. QED
    BY <2>1, <2>3 DEF LocalInv
<1>8. \A w \in Writers \ {v} : SameLocals(w)
  BY <1>1 DEF IInv, TypeOK, Goto, SameLocals, procVars
<1>9. QED
  BY <1>1, <1>4, <1>5, <1>6, <1>7, <1>8, StepOfOneWriter DEF Guarded, Live

(* The payload and the digest of a fresh commit agree.                     *)
LEMMA DigestFinalPreserves ==
    ASSUME IInv, NEW v \in Writers, DigestFinal(v) PROVE IInv'
<1> DEFINE made == [payload |-> CheckpointOf(v, InnerEpochs), digest |-> final,
                    recovered |-> FALSE]
<1>1. /\ pc[v] = "digest" /\ pc'[v] = "commit" /\ Goto(v, "commit")
      /\ claim' = [claim EXCEPT ![v] = made] /\ claim'[v] = made
      /\ final # Absent /\ summary = Absent /\ final = CheckpointOf(v, InnerEpochs)
      /\ UNCHANGED <<guard, fileVars, disk>>
  BY DEF DigestFinal, IInv, TypeOK, LocalInv, CommittingInv, Committing, Goto
<1>2. made \in Summary
  BY <1>1 DEF IInv, TypeOK, Summary
<1>3. made # Absent
  BY <1>2, AbsentAssumption
<1>4. TypeOK'
  <2>1. claim' \in [Writers -> Summary \cup {Absent}]
    BY <1>1, <1>2 DEF IInv, TypeOK
  <2>2. QED
    BY <1>1, <2>1 DEF DigestFinal, IInv, TypeOK, Steps, Goto, fileVars
<1>5. GuardInv'
  BY <1>1, GuardKept DEF Guarded, Live
<1>6. FileInv'
  BY <1>1, FilesKept DEF IInv
<1>7. LocalInv(v)'
  BY <1>1, <1>3 DEF LocalInv, InputsInv, ParentInv, TrainingInv, CommittingInv,
     Training, Committing, fileVars
<1>8. \A w \in Writers \ {v} : SameLocals(w)
  BY DEF DigestFinal, IInv, TypeOK, Goto, SameLocals
<1>9. QED
  BY <1>1, <1>4, <1>5, <1>6, <1>7, <1>8, StepOfOneWriter

(* summary.json vouches for the final checkpoint on disk.                  *)
LEMMA PublishSummaryPreserves ==
    ASSUME IInv, NEW v \in Writers, PublishSummary(v) PROVE IInv'
<1>1. /\ pc[v] = "saveSummary" /\ pc'[v] = "unlink" /\ Goto(v, "unlink")
      /\ final # Absent
      /\ summary' = claim[v] /\ claim[v] # Absent
      /\ claim[v].payload = final /\ claim[v].digest = final
      /\ UNCHANGED <<guard, lock, epochs, final, disk, procVars>>
  BY DEF PublishSummary, IInv, TypeOK, LocalInv, CommittingInv, Committing, Goto
<1>2. TypeOK'
  <2>1. temps' \subseteq [path: Paths, writer: Writers]
    BY DEF PublishSummary, IInv, TypeOK
  <2>2. QED
    BY <1>1, <2>1 DEF IInv, TypeOK, Steps, Goto, procVars
<1>3. GuardInv'
  BY <1>1, GuardKept DEF Guarded, Live
<1>4. FileInv'
  BY <1>1 DEF IInv, FileInv, HistoryInv, EpochsMatch, CheckpointsExact, SummaryInv, Exact
<1>5. LocalInv(v)'
  BY <1>1 DEF LocalInv, InputsInv, ParentInv, TrainingInv, CommittingInv, Training,
     Committing
<1>6. \A w \in Writers \ {v} : SameLocals(w)
  BY <1>1 DEF IInv, TypeOK, Goto, SameLocals, procVars
<1>7. QED
  BY <1>1, <1>2, <1>3, <1>4, <1>5, <1>6, StepOfOneWriter DEF Guarded, Live

(* New input files disturb no writer: what was hashed stays hashed.        *)
LEMMA EditInputsPreserves ==
    ASSUME IInv, EditInputs PROVE IInv'
<1>1. /\ disk \in Identity /\ disk' \in Identity
      /\ disk.artifacts <= disk'.artifacts
  BY EditsAssumption DEF EditInputs, IInv, TypeOK, Identity, Contents
<1>2. TypeOK'
  BY <1>1 DEF EditInputs, IInv, TypeOK, fileVars, procVars
<1>3. GuardInv'
  BY DEF EditInputs, IInv, GuardInv, Guarded, Live
<1>4. FileInv'
  BY FilesKept DEF IInv, EditInputs
<1>5. ASSUME NEW w \in Writers PROVE LocalInv(w)'
  BY <1>1, KnowledgeKept DEF EditInputs, IInv, SameLocals, procVars
<1>6. QED
  BY <1>2, <1>3, <1>4, <1>5 DEF IInv

-----------------------------------------------------------------------------
(* An empty output directory satisfies the inductive invariant.            *)
LEMMA InitIInv == Init => IInv
<1> SUFFICES ASSUME Init PROVE IInv
  OBVIOUS
<1>1. TypeOK
  BY InitTypeOK
<1>2. GuardInv
  BY WritersAssumption DEF Init, GuardInv, Guarded, Live
<1>3. FileInv
  <2>1. 0 \in 0 .. InnerEpochs - 1 /\ EpochsMatch(0)
    BY EpochsAssumption DEF Init, EpochsMatch, Epochs
  <2>2. QED
    BY <2>1 DEF Init, FileInv, HistoryInv, CheckpointsExact, SummaryInv
<1>4. ASSUME NEW w \in Writers PROVE LocalInv(w)
  BY OutsideKnowsNothing DEF Init, Guarded, Live
<1>5. QED
  BY <1>1, <1>2, <1>3, <1>4 DEF IInv

(* Every step of the update preserves the inductive invariant.             *)
LEMMA NextPreservesIInv == IInv /\ [Next]_vars => IInv'
<1> SUFFICES ASSUME IInv, [Next]_vars PROVE IInv'
  OBVIOUS
<1>1. ASSUME NEW v \in Writers, Step(v) PROVE IInv'
  BY <1>1, AcquireGuardPreserves, LockingPreserves, HashInputsPreserves,
     LoadArtifactsPreserves, RehashArtifactsPreserves, ReviewOutputPreserves,
     LoadResumePreserves, BuildRuntimePreserves, TrainEpochPreserves,
     StagingPreserves, PublishEpochPreserves, PublishFinalPreserves,
     DigestFinalPreserves, PublishSummaryPreserves, UnlockPreserves
     DEF Step
<1>2. CASE UNCHANGED vars
  <2>1. UNCHANGED <<fileVars, disk>> /\ \A w \in Writers : SameLocals(w)
    BY <1>2 DEF vars, SameLocals, procVars
  <2>2. TypeOK' /\ GuardInv'
    BY <1>2 DEF vars, fileVars, procVars, IInv, TypeOK, GuardInv, Guarded, Live
  <2>3. FileInv'
    BY <2>1, FilesKept DEF IInv
  <2>4. disk' \in Identity /\ disk.artifacts <= disk'.artifacts
    BY <2>1, EditsAssumption DEF IInv, TypeOK, Identity, Contents
  <2>5. \A w \in Writers : LocalInv(w)'
    BY <2>1, <2>4, KnowledgeKept DEF IInv
  <2>6. QED
    BY <2>2, <2>3, <2>5 DEF IInv
<1>3. QED
  BY <1>1, <1>2, LaunchPreserves, RaisePreserves, CrashPreserves, EditInputsPreserves
     DEF Next

(* The inductive invariant holds in every reachable state.                 *)
THEOREM Invariance == Spec => []IInv
BY InitIInv, NextPreservesIInv, PTL DEF Spec

(* Every variable keeps its type, for every value of the constants.        *)
THEOREM TypeCorrect == Spec => []TypeOK
<1>1. IInv => TypeOK
  BY DEF IInv
<1>2. QED
  BY <1>1, Invariance, PTL

(* At most one process is in the body of _success_path_output_lock.        *)
THEOREM MutualExclusion == Spec => []OneWriter
<1>1. IInv => OneWriter
  BY DEF IInv, GuardInv, OneWriter, Inside
<1>2. QED
  BY <1>1, Invariance, PTL

(* Every checkpoint on disk is an exact update: each epoch once, in order, *)
(* all on one content of the artifacts and of the base model.              *)
THEOREM ExactCheckpoints == Spec => []CheckpointsExact
<1>1. IInv => CheckpointsExact
  BY DEF IInv, FileInv
<1>2. QED
  BY <1>1, Invariance, PTL

(* The epoch checkpoints on disk are one history without gaps, each an     *)
(* extension of the one before it.                                         *)
THEOREM OneHistory == Spec => []EpochsAreOneHistory
<1>1. IInv => EpochsAreOneHistory
  <2> SUFFICES ASSUME IInv PROVE EpochsAreOneHistory
    OBVIOUS
  <2>1. PICK completed \in 0 .. InnerEpochs - 1 : EpochsMatch(completed)
    BY DEF IInv, FileInv, HistoryInv
  <2>2. epochs[InnerEpochs] = Absent
    BY <2>1, EpochsAssumption DEF EpochsMatch, Epochs
  <2>3. ASSUME NEW d \in Epochs, NEW e \in Epochs, d < e, epochs[e] # Absent
        PROVE  /\ epochs[d] # Absent
               /\ epochs[d].lineage = SubSeq(epochs[e].lineage, 1, d)
               /\ epochs[d].contract = epochs[e].contract
               /\ epochs[d].identity = epochs[e].identity
    <3>1. epochs[d] # Absent /\ d \in Nat /\ e \in Nat /\ d >= 1
      BY <2>1, <2>3, EpochsAssumption DEF EpochsMatch, Epochs
    <3>2. /\ epochs[d].contract = epochs[e].contract
          /\ epochs[d].identity = epochs[e].identity
          /\ epochs[d].base = epochs[e].base
      BY <2>3 DEF IInv, FileInv, HistoryInv
    <3>3. epochs[d] \in Checkpoint /\ epochs[e] \in Checkpoint
      BY <2>3, <3>1 DEF IInv, TypeOK
    <3>4. Exact(epochs[d], d) /\ Exact(epochs[e], e)
      BY <2>3, <3>1 DEF IInv, FileInv, CheckpointsExact
    <3>5. epochs[d].lineage = SubSeq(epochs[e].lineage, 1, d)
      <4> DEFINE short == epochs[d].lineage
                 long == epochs[e].lineage
      <4>1. short \in Seq(TrainedEpoch) /\ long \in Seq(TrainedEpoch)
        BY <3>3 DEF Checkpoint
      <4>2. Len(short) = d /\ Len(long) = e
        BY <3>4 DEF Exact
      <4>3. ASSUME NEW i \in 1 .. d PROVE short[i] = long[i]
        <5>1. i \in 1 .. e
          BY <2>3, <3>1
        <5>2. /\ short[i] = [epoch |-> i, base |-> epochs[d].base,
                             artifacts |-> epochs[d].identity.artifacts]
              /\ long[i] = [epoch |-> i, base |-> epochs[e].base,
                            artifacts |-> epochs[e].identity.artifacts]
          BY <3>4, <5>1 DEF Exact
        <5>3. QED
          BY <3>2, <5>2
      <4>4. \A i \in 1 .. d : long[i] \in TrainedEpoch
        BY <2>3, <3>1, <4>1, <4>2, ElementOfSeq
      <4>5. /\ SubSeq(long, 1, d) \in Seq(TrainedEpoch)
            /\ Len(SubSeq(long, 1, d)) = d
            /\ \A i \in 1 .. d : SubSeq(long, 1, d)[i] = long[i]
        BY <3>1, <4>4, SubSeqProperties
      <4>6. QED
        BY <4>1, <4>2, <4>3, <4>5, SeqEqual
    <3>6. QED
      BY <3>1, <3>2, <3>5
  <2>4. QED
    BY <2>2, <2>3 DEF EpochsAreOneHistory
<1>2. QED
  BY <1>1, Invariance, PTL

(* However the processes were interrupted, some configuration can go on    *)
(* from what they left.                                                    *)
THEOREM NeverWedged == Spec => []NotWedged
<1>1. IInv => NotWedged
  <2> SUFFICES ASSUME IInv, guard = Absent, summary = Absent
               PROVE  \E c \in Config, i \in Identity :
                        IF final = Absent THEN CanStart(c, i) ELSE Recoverable(final, c, i)
    BY DEF NotWedged
  <2>1. PICK h \in Hosts, any \in Contracts : TRUE
    BY NonEmptyAssumption
  <2>2. CASE final # Absent
    <3> DEFINE c == [host |-> h, contract |-> final.contract, resume |-> final.resume]
    <3>1. final \in Checkpoint /\ final.epoch = InnerEpochs
      BY <2>2 DEF IInv, TypeOK, FileInv, CheckpointsExact, Exact
    <3>2. c \in Config /\ final.identity \in Identity
      BY <3>1 DEF Config, Checkpoint
    <3>3. Recoverable(final, c, final.identity)
      BY <3>1 DEF Recoverable
    <3>4. QED
      BY <2>2, <3>2, <3>3
  <2>3. CASE final = Absent
    <3>1. PICK completed \in 0 .. InnerEpochs - 1 : EpochsMatch(completed)
      BY DEF IInv, FileInv, HistoryInv
    <3>2. CASE completed = 0
      <4> DEFINE c == [host |-> h, contract |-> any, resume |-> 0]
      <4>1. c \in Config
        BY EpochsAssumption DEF Config
      <4>2. CanStart(c, disk)
        BY <3>1, <3>2 DEF CanStart
      <4>3. QED
        BY <2>3, <4>1, <4>2 DEF IInv, TypeOK
    <3>3. CASE completed > 0
      <4> DEFINE last == epochs[completed]
                 c == [host |-> h, contract |-> last.contract, resume |-> completed]
      <4>1. completed \in Epochs /\ completed \in 1 .. InnerEpochs - 1
        BY <3>3, EpochsAssumption DEF Epochs
      <4>2. last # Absent
        BY <3>1, <4>1 DEF EpochsMatch, Epochs
      <4>3. last \in Checkpoint /\ last.epoch = completed
        BY <4>1, <4>2 DEF IInv, TypeOK, FileInv, CheckpointsExact, Exact
      <4>4. c \in Config /\ last.identity \in Identity
        BY <4>1, <4>3 DEF Config, Checkpoint, Epochs
      <4>5. CanStart(c, last.identity)
        BY <3>1, <4>1, <4>2, <4>3 DEF CanStart, ValidResume
      <4>6. QED
        BY <2>3, <4>4, <4>5
    <3>4. QED
      BY <3>2, <3>3
  <2>4. QED
    BY <2>2, <2>3
<1>2. QED
  BY <1>1, Invariance, PTL

(* No step replaces or removes a published epoch checkpoint.               *)
THEOREM WriteOnce == Spec => EpochsWriteOnce
<1>1. IInv /\ [Next]_vars =>
        [\A e \in Epochs : epochs[e] # Absent => epochs'[e] = epochs[e]]_vars
  <2> SUFFICES ASSUME IInv, Next, NEW e \in Epochs, epochs[e] # Absent
               PROVE  epochs'[e] = epochs[e]
    OBVIOUS
  <2>1. ASSUME NEW v \in Writers, PublishEpoch(v) PROVE epochs'[e] = epochs[e]
    <3>1. EpochsMatch(epoch[v] - 1) /\ epoch[v] \in Epochs
      BY <2>1 DEF PublishEpoch, IInv, LocalInv, TrainingInv, Training
    <3>2. epochs[epoch[v]] = Absent
      BY <3>1 DEF EpochsMatch, Epochs
    <3>3. QED
      BY <2>1, <3>2 DEF PublishEpoch, IInv, TypeOK
  <2>2. ASSUME NEW v \in Writers, Step(v), ~PublishEpoch(v) PROVE UNCHANGED epochs
    BY <2>2 DEF Step, fileVars, AcquireGuard, InspectLock, StageLock, PublishLock,
       HashInputs, LoadArtifacts, RehashArtifacts, ReviewOutput, LoadResume,
       BuildRuntime, TrainEpoch, StageEpoch, StageFinal, PublishFinal, DigestFinal,
       StageSummary, PublishSummary, UnlinkLock, Unlock, Leave
  <2>3. QED
    BY <2>1, <2>2 DEF Next, Launch, Raise, Crash, EditInputs, fileVars
<1>2. QED
  BY <1>1, Invariance, PTL DEF Spec, EpochsWriteOnce

-----------------------------------------------------------------------------
(* The two committed files implement the abstract commit.                  *)

(* The update implements UpdateCommit: one whole update appears, then a    *)
(* receipt for exactly that update.                                        *)
THEOREM CommitRefinement == Spec => ImplementsCommit
<1>1. Init => Commit!Init
  BY DEF Init, Commit!Init, Receipt
<1>2. IInv /\ [Next]_vars => [Commit!Next]_(Commit!vars)
  <2> SUFFICES ASSUME IInv, [Next]_vars PROVE Commit!Next \/ UNCHANGED Commit!vars
    OBVIOUS
  <2>1. CASE UNCHANGED <<final, summary>>
    BY <2>1 DEF Commit!vars, Receipt
  <2>2. ASSUME NEW v \in Writers, PublishFinal(v) PROVE Commit!PublishCheckpoint
    <3>1. /\ final = Absent /\ UNCHANGED summary
          /\ final' = CheckpointOf(v, InnerEpochs)
      BY <2>2 DEF PublishFinal, IInv, LocalInv, CommittingInv, Training
    <3>2. Exact(final', InnerEpochs)
      BY <2>2, <3>1 DEF PublishFinal, IInv, LocalInv, TrainingInv, Training, Trained
    <3>3. final' \in Checkpoint
      <4>1. InnerEpochs \in Epochs
        BY EpochsAssumption DEF Epochs
      <4>2. QED
        BY <3>1, <4>1, CheckpointOfType DEF IInv
    <3>4. QED
      BY <3>1, <3>2, <3>3 DEF Commit!PublishCheckpoint, Receipt
  <2>3. ASSUME NEW v \in Writers, PublishSummary(v) PROVE Commit!Commit
    <3>1. /\ summary = Absent /\ final # Absent /\ UNCHANGED final
          /\ summary' # Absent /\ summary'.payload = final /\ summary'.digest = final
      BY <2>3 DEF PublishSummary, IInv, LocalInv, CommittingInv, Committing
    <3>2. QED
      BY <3>1 DEF Commit!Commit, Receipt
  <2>4. ASSUME NEW v \in Writers, Step(v), ~PublishFinal(v), ~PublishSummary(v)
        PROVE  UNCHANGED <<final, summary>>
    BY <2>4 DEF Step, fileVars, AcquireGuard, InspectLock, StageLock, PublishLock,
       HashInputs, LoadArtifacts, RehashArtifacts, ReviewOutput, LoadResume,
       BuildRuntime, TrainEpoch, StageEpoch, PublishEpoch, StageFinal, DigestFinal,
       StageSummary, UnlinkLock, Unlock, Leave
  <2>5. QED
    BY <2>1, <2>2, <2>3, <2>4
       DEF Next, Launch, Raise, Crash, EditInputs, fileVars, vars, Commit!Next
<1>3. QED
  BY <1>1, <1>2, Invariance, PTL DEF Spec, ImplementsCommit, Commit!Spec

-----------------------------------------------------------------------------
(* The lock record and the temporaries.                                    *)

(* A step of v that leaves the record alone, closes or opens only its own  *)
(* temporary, does not come from an end, and gets past the inspection only *)
(* with no live owner's record.                                            *)
LEMMA LockRecordKept ==
    ASSUME TypeOK, LockInv, NEW v \in Writers, NEW step, Goto(v, step),
           UNCHANGED lock,
           \A w \in Writers \ {v} :
              pid'[w] = pid[w] /\ config'[w] = config[w] /\ epoch'[w] = epoch[w],
           pc[v] = "idle" \/ (pid'[v] = pid[v] /\ config'[v] = config[v]),
           pc[v] \notin {"done", "dead"},
           pc[v] \in BeforeRecord \/ step \notin BeforeRecord,
           step \in {"stageLock", "lock"} /\ lock # Absent => ~Live(lock.token),
           \A t \in temps' :
              IF t.writer = v THEN Opened(t)' \/ step = "dead" ELSE t \in temps
    PROVE  LockInv'
<1>1. \A w \in Writers : pc'[w] = IF w = v THEN step ELSE pc[w]
  BY DEF TypeOK, Goto
<1>2. lock # Absent => lock.token \in Writers
  BY DEF TypeOK, LockRecord
<1>3. RecordInv'
  <2> SUFFICES ASSUME lock # Absent
               PROVE  /\ pc'[lock.token] \notin BeforeRecord
                      /\ lock.pid = pid'[lock.token]
                      /\ lock.host = config'[lock.token].host
    BY DEF RecordInv
  <2>1. lock.token = v => pc[v] \notin BeforeRecord
    BY DEF LockInv, RecordInv
  <2>2. QED
    BY <1>1, <1>2, <2>1 DEF LockInv, RecordInv, BeforeRecord
<1>4. TakeoverInv'
  <2> SUFFICES ASSUME NEW w \in Writers, pc'[w] \in {"stageLock", "lock"}, lock # Absent
               PROVE  ~Live(lock.token)'
    BY DEF TakeoverInv
  <2>1. ~Live(lock.token)
    BY <1>1 DEF LockInv, TakeoverInv
  <2>2. pc[lock.token] \in {"done", "dead"}
    BY <2>1 DEF LockInv, RecordInv, BeforeRecord, Live
  <2>3. QED
    BY <1>1, <1>2, <2>2 DEF Live
<1>5. TempInv'
  <2> SUFFICES ASSUME NEW t \in temps' PROVE (Opened(t) \/ pc[t.writer] = "dead")'
    BY DEF TempInv
  <2>1. CASE t.writer = v
    BY <1>1, <2>1
  <2>2. CASE t.writer # v
    <3>1. t \in temps /\ t.writer \in Writers \ {v}
      BY <2>2 DEF TypeOK
    <3>2. QED
      BY <1>1, <3>1 DEF LockInv, TempInv, Opened
  <2>3. QED
    BY <2>1, <2>2
<1>6. QED
  BY <1>3, <1>4, <1>5 DEF LockInv

(* A writer has a temporary only between opening and publishing it.        *)
LEMMA NoTemporary ==
    ASSUME TypeOK, LockInv, NEW v \in Writers,
           pc[v] \notin {"lock", "saveEpoch", "saveFinal", "saveSummary", "dead"},
           NEW t \in temps
    PROVE  t.writer # v
BY DEF LockInv, TempInv, Opened

(* The inspection lets no record of a live owner pass: its pid is in use   *)
(* on the host it names.                                                   *)
LEMMA InspectLockPreserves ==
    ASSUME TypeOK, LockInv, NEW v \in Writers, InspectLock(v) PROVE LockInv'
<1>1. PICK alive \in BOOLEAN :
          /\ lock # Absent => PidIsAlive(config[v].host, lock.pid, alive)
          /\ Goto(v, IF MayTakeLock(v, alive) THEN "stageLock" ELSE "unlock")
  BY DEF InspectLock
<1>2. MayTakeLock(v, alive) /\ lock # Absent => ~Live(lock.token)
  <2> SUFFICES ASSUME MayTakeLock(v, alive), lock # Absent, Live(lock.token)
               PROVE  FALSE
    OBVIOUS
  <2>1. lock.host = config[v].host /\ ~alive
    BY DEF MayTakeLock
  <2>2. ~PidInUse(config[v].host, lock.pid)
    BY <1>1, <2>1 DEF PidIsAlive
  <2>3. /\ lock.token \in Writers
        /\ lock.pid = pid[lock.token] /\ lock.host = config[lock.token].host
    BY DEF TypeOK, LockRecord, LockInv, RecordInv
  <2>4. QED
    BY <2>1, <2>2, <2>3 DEF PidInUse
<1>3. \A t \in temps' : t \in temps /\ t.writer # v
  BY NoTemporary DEF InspectLock, CleanupTemps
<1>4. CASE MayTakeLock(v, alive)
  <2>1. Goto(v, "stageLock") /\ (lock # Absent => ~Live(lock.token))
    BY <1>1, <1>2, <1>4
  <2>2. QED
    BY <1>3, <2>1, LockRecordKept DEF InspectLock, BeforeRecord, procVars
<1>5. CASE ~MayTakeLock(v, alive)
  <2>1. Goto(v, "unlock")
    BY <1>1, <1>5
  <2>2. QED
    BY <1>3, <2>1, LockRecordKept DEF InspectLock, BeforeRecord, procVars
<1>6. QED
  BY <1>4, <1>5

(* The record names the process that publishes it, the only one under the  *)
(* guard, and the temporary is gone.                                       *)
LEMMA PublishLockPreserves ==
    ASSUME IInv, LockInv, NEW v \in Writers, PublishLock(v) PROVE LockInv'
<1>1. PICK step \in {"hash", "unlock"} :
        \A w \in Writers : pc'[w] = IF w = v THEN step ELSE pc[w]
  BY DEF PublishLock, IInv, TypeOK, Goto
<1>2. RecordInv'
  BY <1>1 DEF PublishLock, RecordInv, BeforeRecord, procVars
<1>3. TakeoverInv'
  <2>1. \A w \in Writers \ {v} : ~Guarded(w)
    BY DEF PublishLock, IInv, GuardInv, Guarded, Live
  <2>2. QED
    BY <1>1, <2>1 DEF TakeoverInv, Guarded, Live
<1>4. TempInv'
  <2> SUFFICES ASSUME NEW t \in temps' PROVE (Opened(t) \/ pc[t.writer] = "dead")'
    BY DEF TempInv
  <2>1. t \in temps /\ t # Temp(v, LockPath)
    BY DEF PublishLock
  <2>2. t.writer \in Writers /\ t = [path |-> t.path, writer |-> t.writer]
    BY <2>1 DEF IInv, TypeOK
  <2>3. t.writer # v
    BY <2>1, <2>2 DEF PublishLock, LockInv, TempInv, Opened, Temp
  <2>4. QED
    BY <1>1, <2>1, <2>2, <2>3 DEF PublishLock, LockInv, TempInv, Opened, procVars
<1>5. QED
  BY <1>2, <1>3, <1>4 DEF LockInv

(* Unlinking leaves no record, or the record of another process.           *)
LEMMA UnlinkLockPreserves ==
    ASSUME TypeOK, LockInv, NEW v \in Writers, UnlinkLock(v) PROVE LockInv'
<1>1. CASE UNCHANGED lock
  <2>1. Goto(v, "unlock") /\ \A t \in temps' : t \in temps /\ t.writer # v
    BY NoTemporary DEF UnlinkLock
  <2>2. QED
    BY <1>1, <2>1, LockRecordKept DEF UnlinkLock, BeforeRecord, procVars
<1>2. CASE lock' = Absent
  <2>1. \A w \in Writers : pc'[w] = IF w = v THEN "unlock" ELSE pc[w]
    BY DEF UnlinkLock, TypeOK, Goto
  <2>2. ASSUME NEW t \in temps PROVE (Opened(t) \/ pc[t.writer] = "dead")'
    <3>1. t.writer \in Writers \ {v}
      BY NoTemporary DEF UnlinkLock, TypeOK
    <3>2. QED
      BY <2>1, <3>1 DEF UnlinkLock, LockInv, TempInv, Opened, procVars
  <2>3. QED
    BY <1>2, <2>2 DEF UnlinkLock, LockInv, RecordInv, TakeoverInv, TempInv
<1>3. QED
  BY <1>1, <1>2 DEF UnlinkLock

(* Steps after the record that open no temporary and close none.           *)
LEMMA LaterStepsPreserve ==
    ASSUME TypeOK, LockInv, NEW v \in Writers,
           \/ HashInputs(v) \/ LoadArtifacts(v) \/ RehashArtifacts(v) \/ ReviewOutput(v)
           \/ LoadResume(v) \/ BuildRuntime(v) \/ TrainEpoch(v) \/ DigestFinal(v)
           \/ Unlock(v) \/ Leave(v)
    PROVE  LockInv'
<1>1. PICK step \in Steps \ BeforeRecord : Goto(v, step)
  BY DEF HashInputs, LoadArtifacts, RehashArtifacts, ReviewOutput, LoadResume,
     BuildRuntime, TrainEpoch, DigestFinal, Unlock, Leave, Steps, BeforeRecord
<1>2. /\ pc[v] \notin {"lock", "saveEpoch", "saveFinal", "saveSummary", "done", "dead"}
      /\ UNCHANGED <<lock, pid, config>> /\ temps' \subseteq temps
      /\ \A w \in Writers \ {v} : epoch'[w] = epoch[w]
  BY DEF HashInputs, LoadArtifacts, RehashArtifacts, ReviewOutput, CleanupTemps,
     LoadResume, BuildRuntime, TrainEpoch, DigestFinal, Unlock, Leave, procVars, TypeOK
<1>3. \A t \in temps' : t \in temps /\ t.writer # v
  BY <1>2, NoTemporary
<1>4. QED
  BY <1>1, <1>2, <1>3, LockRecordKept DEF BeforeRecord

(* Opening the temporary of the file to publish, or finding that file      *)
(* there.                                                                  *)
LEMMA StagesPreserve ==
    ASSUME TypeOK, LockInv, NEW v \in Writers,
           StageLock(v) \/ StageEpoch(v) \/ StageFinal(v) \/ StageSummary(v)
    PROVE  LockInv'
<1>1. /\ pc[v] \in {"stageLock", "save", "finish", "commit"}
      /\ UNCHANGED <<lock, procVars>>
  BY DEF StageLock, StageEpoch, StageFinal, StageSummary
<1>2. PICK step \in {"lock", "saveEpoch", "saveFinal", "saveSummary", "unlink"} :
        /\ Goto(v, step)
        /\ step = "lock" <=> pc[v] = "stageLock"
  BY DEF StageLock, StageEpoch, StageFinal, StageSummary
<1>3. step = "lock" /\ lock # Absent => ~Live(lock.token)
  BY <1>2 DEF LockInv, TakeoverInv
<1>4. pc'[v] = step
  BY <1>2 DEF Goto, TypeOK
<1>5. \A t \in temps' : IF t.writer = v THEN Opened(t)' \/ step = "dead" ELSE t \in temps
  <2> SUFFICES ASSUME NEW t \in temps'
               PROVE  IF t.writer = v THEN Opened(t)' ELSE t \in temps
    OBVIOUS
  <2>1. CASE t \in temps
    BY <1>1, <2>1, NoTemporary
  <2>2. CASE t \notin temps
    BY <1>1, <1>4, <2>2
       DEF StageLock, StageEpoch, StageFinal, StageSummary, Temp, Opened, Goto, TypeOK,
           procVars
  <2>3. QED
    BY <2>1, <2>2
<1>6. QED
  BY <1>1, <1>2, <1>3, <1>5, LockRecordKept DEF BeforeRecord, procVars

(* Publishing closes the temporary of the writer; an exception and a kill  *)
(* leave none behind that is still to be published.                        *)
LEMMA PublishesPreserve ==
    ASSUME TypeOK, LockInv, NEW v \in Writers,
           \/ PublishEpoch(v) \/ PublishFinal(v) \/ PublishSummary(v)
           \/ Raise(v) \/ Crash(v)
    PROVE  LockInv'
<1>1. /\ pc[v] \notin {"idle", "done", "dead"} /\ UNCHANGED <<lock, pid, config>>
      /\ \A w \in Writers \ {v} : epoch'[w] = epoch[w]
  BY DEF PublishEpoch, PublishFinal, PublishSummary, Raise, Crash, Guarded, Live,
     procVars, TypeOK
<1>2. PICK step \in {"train", "digest", "unlink", "unlock", "dead"} :
        Goto(v, step) /\ (Crash(v) => step = "dead")
  <2>1. CASE Crash(v)
    BY <2>1 DEF Crash
  <2>2. CASE ~Crash(v)
    BY <2>2 DEF PublishEpoch, PublishFinal, PublishSummary, Raise
  <2>3. QED
    BY <2>1, <2>2
<1>3. ASSUME NEW t \in temps'
      PROVE  t \in temps /\ (t.writer = v => Crash(v))
  <2>1. t \in temps
    BY DEF PublishEpoch, PublishFinal, PublishSummary, Raise, Crash
  <2>2. t = [path |-> t.path, writer |-> t.writer]
    BY <2>1 DEF TypeOK
  <2>3. QED
    BY <2>1, <2>2 DEF PublishEpoch, PublishFinal, PublishSummary, Raise, Temp, LockInv,
       TempInv, Opened
<1>4. QED
  BY <1>1, <1>2, <1>3, LockRecordKept DEF BeforeRecord

(* Every step keeps the record with the process it names, lets no live     *)
(* owner's record be replaced, and no temporary be left.                   *)
LEMMA NextPreservesLockInv == IInv /\ LockInv /\ [Next]_vars => LockInv'
<1> SUFFICES ASSUME IInv, LockInv, [Next]_vars PROVE LockInv'
  OBVIOUS
<1>0. TypeOK
  BY DEF IInv
<1>1. ASSUME NEW v \in Writers, Launch(v) PROVE LockInv'
  <2>1. \A t \in temps : t.writer # v
    BY <1>0, <1>1, NoTemporary DEF Launch
  <2>2. QED
    BY <1>0, <1>1, <2>1, LockRecordKept DEF Launch, BeforeRecord, TypeOK
<1>2. ASSUME NEW v \in Writers, AcquireGuard(v) PROVE LockInv'
  <2>1. PICK step \in {"inspect", "done"} : Goto(v, step)
    BY <1>2 DEF AcquireGuard
  <2>2. \A t \in temps : t.writer # v
    BY <1>0, <1>2, NoTemporary DEF AcquireGuard
  <2>3. QED
    BY <1>0, <1>2, <2>1, <2>2, LockRecordKept DEF AcquireGuard, BeforeRecord, procVars
<1>3. CASE UNCHANGED <<lock, temps, pc, pid, config, epoch>>
  BY <1>3 DEF LockInv, RecordInv, TakeoverInv, TempInv, Opened, Live
<1>4. ASSUME NEW v \in Writers, Step(v) PROVE LockInv'
  BY <1>0, <1>2, <1>4, InspectLockPreserves, PublishLockPreserves, UnlinkLockPreserves,
     LaterStepsPreserve, StagesPreserve, PublishesPreserve DEF Step
<1>5. QED
  BY <1>0, <1>1, <1>3, <1>4, PublishesPreserve DEF Next, EditInputs, vars, procVars

(* A lock record is that of the process it names, and a temporary the one  *)
(* its writer is about to publish.                                         *)
THEOREM LockInvariance == Spec => []LockInv
<1>1. Init => LockInv
  BY DEF Init, LockInv, RecordInv, TakeoverInv, TempInv
<1>2. QED
  BY <1>1, NextPreservesLockInv, Invariance, PTL DEF Spec

(* A lock record without a guard holder is that of a process that is gone  *)
(* or on its way out.                                                      *)
THEOREM StaleLockIsDead == Spec => []LockLeftOnlyByDead
<1>1. IInv /\ LockInv => LockLeftOnlyByDead
  <2> SUFFICES ASSUME IInv, LockInv, guard = Absent, lock # Absent
               PROVE  ~Live(lock.token) \/ pc[lock.token] = "leave"
    BY DEF LockLeftOnlyByDead
  <2>1. lock.token \in Writers
    BY DEF IInv, TypeOK, LockRecord
  <2>2. ~Guarded(lock.token)
    BY <2>1, WritersAssumption DEF IInv, GuardInv
  <2>3. QED
    BY <2>2 DEF LockInv, RecordInv, BeforeRecord, Guarded
<1>2. QED
  BY <1>1, Invariance, LockInvariance, PTL

(* No step lets a second process in, and the lock record of a live process *)
(* is removed by that process only.                                        *)
THEOREM LockIsHonoured == Spec => LockHonoured
<1>1. IInv /\ LockInv /\ [Next]_vars => [RecordKept]_vars
  <2> SUFFICES ASSUME IInv, LockInv, Next, lock # Absent, lock' # lock, Live(lock.token)
               PROVE  pc[lock.token] = "unlink" /\ lock' = Absent
    BY DEF RecordKept
  <2>1. ASSUME NEW v \in Writers, PublishLock(v) PROVE FALSE
    BY <2>1 DEF PublishLock, LockInv, TakeoverInv
  <2>2. ASSUME NEW v \in Writers, Step(v), ~PublishLock(v), ~UnlinkLock(v)
        PROVE  UNCHANGED lock
    BY <2>2 DEF Step, AcquireGuard, InspectLock, StageLock, HashInputs, LoadArtifacts,
       RehashArtifacts, ReviewOutput, LoadResume, BuildRuntime, TrainEpoch, StageEpoch,
       PublishEpoch, StageFinal, PublishFinal, DigestFinal, StageSummary,
       PublishSummary, Unlock, Leave
  <2>3. PICK v \in Writers : UnlinkLock(v)
    BY <2>1, <2>2 DEF Next, Launch, Raise, Crash, EditInputs
  <2>4. QED
    BY <2>3 DEF UnlinkLock
<1>2. [RecordKept]_vars /\ OneWriter' => [OneWriter' /\ RecordKept]_vars
  OBVIOUS
<1>3. QED
  BY <1>1, <1>2, Invariance, LockInvariance, MutualExclusion, PTL DEF Spec, LockHonoured

(* A temporary of a live process disappears only by its own step.          *)
THEOREM TempsKept == Spec => LiveTempsKept
<1>1. IInv /\ LockInv /\ [Next]_vars =>
        [\A t \in temps \ temps' :
            Live(t.writer) => pc'[t.writer] # pc[t.writer]]_vars
  <2> SUFFICES ASSUME IInv, LockInv, Next, NEW t \in temps \ temps', Live(t.writer)
               PROVE  pc'[t.writer] # pc[t.writer]
    OBVIOUS
  <2>1. t.writer \in Writers /\ guard = t.writer
    <3>1. t.writer \in Writers
      BY DEF IInv, TypeOK
    <3>2. Guarded(t.writer)
      BY DEF LockInv, TempInv, Opened, Live, Guarded
    <3>3. QED
      BY <3>1, <3>2 DEF IInv, GuardInv
  <2>2. ASSUME NEW v \in Writers, Guarded(v), pc'[v] # pc[v]
        PROVE  pc'[t.writer] # pc[t.writer]
    BY <2>1, <2>2 DEF IInv, GuardInv
  <2>3. ASSUME NEW v \in Writers,
               \/ InspectLock(v) \/ PublishLock(v) \/ ReviewOutput(v)
               \/ PublishEpoch(v) \/ PublishFinal(v) \/ PublishSummary(v) \/ Raise(v)
        PROVE  Guarded(v) /\ pc'[v] # pc[v]
    BY <2>3 DEF InspectLock, PublishLock, ReviewOutput, PublishEpoch, PublishFinal,
       PublishSummary, Raise, Guarded, Live, Inside, Goto, IInv, TypeOK
  <2>4. ASSUME NEW v \in Writers,
               \/ AcquireGuard(v) \/ StageLock(v) \/ HashInputs(v)
               \/ LoadArtifacts(v) \/ RehashArtifacts(v) \/ LoadResume(v)
               \/ BuildRuntime(v) \/ TrainEpoch(v) \/ StageEpoch(v) \/ StageFinal(v)
               \/ DigestFinal(v) \/ StageSummary(v) \/ UnlinkLock(v) \/ Unlock(v)
               \/ Leave(v)
        PROVE  temps \subseteq temps'
    BY <2>4 DEF AcquireGuard, StageLock, HashInputs, LoadArtifacts, RehashArtifacts,
       LoadResume, BuildRuntime, TrainEpoch, StageEpoch, StageFinal, DigestFinal,
       StageSummary, UnlinkLock, Unlock, Leave
  <2>5. QED
    BY <2>2, <2>3, <2>4 DEF Next, Step, Launch, Crash, EditInputs
<1>2. QED
  BY <1>1, Invariance, LockInvariance, PTL DEF Spec, LiveTempsKept

=============================================================================
