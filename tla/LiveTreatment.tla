---------------------------- MODULE LiveTreatment ----------------------------
(***************************************************************************)
(* The Stage-M/N/O live treatment of one rollout in                        *)
(* prototype_fixed_instruction_robotwin_client_diag.py.  A client runs a   *)
(* frozen Student chunk by chunk.  At a scheduled frame, or at the frame   *)
(* an observable event fires (Dynamic), it pauses, saves its live context, *)
(* has a Teacher process label it under a lock shared by all clients, and  *)
(* checks the label; the next chunk then applies the treatment.  Outputs   *)
(* are written as the episode goes and completed at its end.               *)
(*                                                                         *)
(* A client may be killed and run again on the same paths; the Teacher it  *)
(* had started does not die with it and does not hold the lock.            *)
(***************************************************************************)
EXTENDS EventTrigger

CONSTANTS Clients,
          Frames,       \* ROBOTWIN_STAGE_N_INTERVENTION_FRAMES, increasing
          Dynamic,      \* ROBOTWIN_STAGE_O_DYNAMIC_TREATMENT
          StepLimits,   \* chunks until a task's step limit
          Failures,     \* planner calls that may fail in one chunk
          Quiets,       \* whether a chunk may leave cameras and state unmoved
          MaxAttempts,  \* bound: attempts of one client
          Kills,        \* whether clients may be killed
          NoClient, NoContext, NoLabel, NoEvent, NoFile

ChunkFrames == 2        \* TREATMENT_SHAPE: every chunk is two frames
Never == 1000000000     \* the target when no treatment is due
Expected == Len(Frames)

\* a context by whose it is, and a label by the contexts it was made from
ContextIds == [client : Clients, attempt : 1..MaxAttempts, index : 1..Expected]
Labels == [semantic : ContextIds, file : ContextIds]

ASSUME Schedule ==
    /\ Frames \in Seq(Nat) \ {<< >>} /\ \A i \in DOMAIN Frames : Frames[i] > 0 /\ Frames[i] % 2 = 0
    /\ \A i, j \in DOMAIN Frames : i < j => Frames[i] < Frames[j]
    /\ \A i \in DOMAIN Frames : Frames[i] < Never
    /\ Dynamic \in BOOLEAN /\ Kills \in BOOLEAN
    /\ StepLimits \subseteq Nat \ {0} /\ \A limit \in StepLimits : ChunkFrames * limit < Never
    /\ MaxAttempts \in Nat \ {0}
    /\ Failures \subseteq Nat /\ Quiets \subseteq BOOLEAN

ASSUME Sentinels ==
    /\ NoClient \notin Clients /\ NoFrame \notin Nat
    /\ NoContext \notin ContextIds /\ NoFile \notin ContextIds
    /\ NoLabel \notin Labels /\ NoFile \notin Labels

VARIABLES client,    \* the process of each client
          files,     \* what each client's paths hold
          teachers,  \* the running Teacher processes
          lock       \* holder of the Teacher lock

vars == <<client, files, teachers, lock>>

-----------------------------------------------------------------------------
NewClient(attempt, limit) ==
    [ phase |-> "infer", attempt |-> attempt, limit |-> limit, frame |-> 0, success |-> FALSE,
      target |-> IF Dynamic THEN Never ELSE Frames[1],
      pending |-> NoLabel, records |-> << >>, applied |-> 0,
      calls |-> 0, prefix |-> 0, continuation |-> 0, traced |-> "prefix",
      detector |-> NewDetector, event |-> NoEvent ]

Init ==
    /\ \E limit \in StepLimits : client = [c \in Clients |-> NewClient(1, limit)]
    /\ files = [c \in Clients |-> [ context |-> [i \in 1..Expected |-> NoFile],
                                    label |-> [i \in 1..Expected |-> NoFile],
                                    output |-> NoFile, event |-> NoFile, trace |-> NoFile ]]
    /\ teachers = {} /\ lock = NoClient

MoreChunks(r) == r.frame < ChunkFrames * r.limit

\* _stage_n_suffix: every query of a schedule has paths of its own
QueryPath(i) == i

\* which treatment the client is at, and the context it saves for it
Index(r) == Len(r.records) + 1
ContextId(c, r) == [client |-> c, attempt |-> r.attempt, index |-> Index(r)]

TreatmentOutput(r, kind) ==
    [ attempt |-> r.attempt, kind |-> kind, records |-> r.records, success |-> r.success,
      applied |-> r.applied, calls |-> r.prefix + r.continuation ]

-----------------------------------------------------------------------------
(* One chunk *)

\* the pending treatment replaces the action the Student has just produced,
\* provided that is the action the label was made for
Treat(c) ==
    LET r == client[c]
        treated == [r EXCEPT !.phase = "act", !.pending = NoLabel, !.applied = @ + 1,
                             !.records[Len(r.records)].applied = TRUE]
    IN  /\ r.phase = "infer" /\ MoreChunks(r) /\ r.pending # NoLabel
        /\ r.applied < Expected
        /\ client' = [client EXCEPT ![c] = treated]
        /\ files' = [files EXCEPT ![c].output = TreatmentOutput(treated, "partial")]
        /\ UNCHANGED <<teachers, lock>>

Sampled(r) == Dynamic /\ r.applied = 0 /\ r.pending = NoLabel

\* a change that treats one chunk after the event
TargetAfter(frame) == frame + ChunkFrames

EventTarget(frame) == frame

\* the chunk's planner calls are seen by whichever trace is installed
Counted(r, failed) ==
    [r EXCEPT !.calls = @ + failed,
              !.prefix = IF r.traced = "prefix" THEN @ + failed ELSE @,
              !.continuation = IF r.traced = "continuation" THEN @ + failed ELSE @]

NextPhase(r) ==
    CASE r.frame > r.target -> "failed"
      [] r.frame = r.target -> "pause"
      [] r.frame < r.target -> IF r.success THEN "end" ELSE "infer"

\* controls, KV update, and with Dynamic the observable detector
Chunk(c) ==
    LET r == client[c]
    IN  /\ \/ r.phase = "act"
           \/ r.phase = "infer" /\ MoreChunks(r) /\ r.pending = NoLabel
        /\ \E success \in BOOLEAN, failed \in Failures, quiet \in Quiets :
             LET moved == Counted([r EXCEPT !.frame = @ + ChunkFrames, !.success = @ \/ success],
                                  IF r.success THEN 0 ELSE failed)
                 sample == [ frame |-> moved.frame, failures |-> moved.prefix, quiet |-> quiet,
                             terminal |-> moved.success, ordinal |-> 0, scalar |-> NoScalar ]
                 seen == ObserveObservable(r.detector, sample, 1)
                 fired == Sampled(r) /\ seen.events # << >>
                 next == IF ~Sampled(r) THEN moved
                         ELSE [moved EXCEPT !.detector = seen.detector,
                                            !.event = IF fired THEN seen.events[1] ELSE @,
                                            !.target = IF fired THEN EventTarget(moved.frame) ELSE @]
             IN  /\ client' = [client EXCEPT ![c] = [next EXCEPT !.phase = NextPhase(next)]]
                 /\ files' = IF ~Sampled(r) THEN files
                             ELSE [files EXCEPT
                               ![c].trace = [attempt |-> r.attempt,
                                             status |-> IF fired THEN "event_triggered" ELSE "pending"],
                               ![c].event = IF fired THEN [attempt |-> r.attempt, frame |-> next.frame]
                                            ELSE @]
        /\ UNCHANGED <<teachers, lock>>

-----------------------------------------------------------------------------
(* The pause at a boundary *)

\* a change that installs a new continuation trace at every treatment
Retraced(r) == [r EXCEPT !.traced = "continuation", !.continuation = 0]

\* the prefix trace ends at the first treatment and the continuation trace begins
Traced(r) == IF r.applied = 0 THEN [r EXCEPT !.traced = "continuation"] ELSE r

Pause(c) ==
    LET r == client[c]
    IN  /\ r.phase = "pause"
        /\ client' = [client EXCEPT ![c] = [Traced(r) EXCEPT !.phase = "wait"]]
        /\ files' = [files EXCEPT ![c].context[QueryPath(Index(r))] = ContextId(c, r)]
        /\ UNCHANGED <<teachers, lock>>

\* a change without the shared lock
LockIgnored == TRUE

LockFree == lock = NoClient

\* flock, then subprocess.run
Query(c) ==
    LET r == client[c]
    IN  /\ r.phase = "wait" /\ LockFree
        /\ lock' = c
        /\ teachers' = teachers \union { [id |-> ContextId(c, r), loaded |-> NoContext] }
        /\ client' = [client EXCEPT ![c].phase = "query"]
        /\ UNCHANGED files

\* a change that keeps the lock when the Teacher fails
LockKeptOnFailure(c, phase) == IF phase = "failed" THEN c ELSE NoClient

LockAfter(c, phase) == NoClient

\* the Teacher t has exited: its client, if it still waits, unlocks and goes on
Exit(t, phase) ==
    LET c == t.id.client
        r == client[c]
        awaited == r.phase = "query" /\ ContextId(c, r) = t.id
    IN  /\ teachers' = teachers \ {t}
        /\ client' = IF awaited THEN [client EXCEPT ![c].phase = phase] ELSE client
        /\ lock' = IF awaited THEN LockAfter(c, phase) ELSE lock

TeacherLoads(t) ==
    /\ t.loaded = NoContext
    /\ teachers' = (teachers \ {t}) \union
           { [t EXCEPT !.loaded = files[t.id.client].context[QueryPath(t.id.index)]] }
    /\ UNCHANGED <<client, files, lock>>

\* the label names the context by what was loaded and by the hash the file has now
TeacherLabels(t) ==
    /\ t.loaded # NoContext
    /\ LET path == QueryPath(t.id.index)
           file == files[t.id.client]
       IN  files' = [files EXCEPT ![t.id.client].label[path] =
                        [semantic |-> t.loaded, file |-> file.context[path]]]
    /\ Exit(t, "check")

TeacherFails(t) == UNCHANGED files /\ Exit(t, "failed")

\* a change that compares only the hash of the context file
LabelMatchesFile(context, file, label) == label.file = file

\* validate_live_bridge_label
LabelMatches(context, file, label) == label.file = file /\ label.semantic = context

\* the label is loaded and held against the context in memory and on disk
Check(c) ==
    LET r == client[c]
        path == QueryPath(Index(r))
        label == files[c].label[path]
    IN  /\ r.phase = "check"
        /\ client' = [client EXCEPT ![c] =
              IF LabelMatches(ContextId(c, r), files[c].context[path], label)
              THEN [r EXCEPT !.phase = "record", !.pending = label]
              ELSE [r EXCEPT !.phase = "failed"]]
        /\ UNCHANGED <<files, teachers, lock>>

NextTarget(i) == IF i <= Expected THEN Frames[i] ELSE Never

\* the treatment record, its provenance and the pending output; then `continue`
RecordTreatment(c) ==
    LET r == client[c]
        row == [ frame |-> r.frame, label |-> r.pending, applied |-> FALSE, event |-> r.event ]
        next == [r EXCEPT !.phase = "infer", !.records = Append(@, row),
                          !.target = NextTarget(Len(r.records) + 2)]
    IN  /\ r.phase = "record"
        /\ Dynamic => r.event # NoEvent
        /\ client' = [client EXCEPT ![c] = next]
        /\ files' = [files EXCEPT ![c].output = TreatmentOutput(next, "pending")]
        /\ UNCHANGED <<teachers, lock>>

-----------------------------------------------------------------------------
(* The end of an episode *)

NoEventTerminal(r) ==
    Dynamic /\ r.applied = 0 /\ r.records = << >> /\ r.pending = NoLabel

\* a change that lets an unsuccessful episode miss scheduled treatments
ScheduleLax(r) == r.pending = NoLabel /\ r.applied \in 1..Expected

\* validate_completed_schedule
ScheduleCompleted(r) ==
    /\ r.pending = NoLabel
    /\ r.applied = Len(r.records)
    /\ r.applied \in 1..Expected
    /\ r.applied < Expected => r.success

\* a change that does not tell an episode without an event apart
StatusCompleted(r) == "completed_event_treatment"

TraceStatus(r) == IF NoEventTerminal(r) THEN "no_event_terminal" ELSE "completed_event_treatment"

Ended(r) == r.phase = "end" \/ (r.phase = "infer" /\ ~MoreChunks(r))

\* the schedule is judged; a dynamic treatment completes its trace and event files
End(c) ==
    LET r == client[c]
    IN  /\ Ended(r)
        /\ IF NoEventTerminal(r) \/ ScheduleCompleted(r)
           THEN /\ client' = [client EXCEPT ![c].phase = "publish"]
                /\ files' = IF ~Dynamic THEN files
                            ELSE [files EXCEPT
                              ![c].trace = [attempt |-> r.attempt, status |-> TraceStatus(r)],
                              ![c].event = IF NoEventTerminal(r)
                                           THEN [attempt |-> r.attempt, frame |-> NoFrame] ELSE @]
           ELSE client' = [client EXCEPT ![c].phase = "failed"] /\ UNCHANGED files
        /\ UNCHANGED <<teachers, lock>>

Publish(c) ==
    LET r == client[c]
    IN  /\ r.phase = "publish"
        /\ client' = [client EXCEPT ![c].phase = "done"]
        /\ files' = [files EXCEPT ![c].output =
              TreatmentOutput(r, IF NoEventTerminal(r) THEN "no_event" ELSE "completed")]
        /\ UNCHANGED <<teachers, lock>>

\* whatever else raises: a planner call, a Student action that is not the
\* label's, a runtime state or a snapshot that differs after the pause
Raise(c) ==
    /\ client[c].phase \in {"infer", "act", "check", "record"}
    /\ client' = [client EXCEPT ![c].phase = "failed"]
    /\ UNCHANGED <<files, teachers, lock>>

\* SIGKILL: the lock is freed with the process, the Teacher goes on
Kill(c) ==
    /\ Kills /\ client[c].phase \notin {"done", "failed", "killed"}
    /\ client' = [client EXCEPT ![c].phase = "killed"]
    /\ lock' = IF lock = c THEN NoClient ELSE lock
    /\ UNCHANGED <<files, teachers>>

Rerun(c) ==
    /\ client[c].phase \in {"failed", "killed"} /\ client[c].attempt < MaxAttempts
    /\ client' = [client EXCEPT ![c] = NewClient(client[c].attempt + 1, client[c].limit)]
    /\ UNCHANGED <<files, teachers, lock>>

ClientStep(c) ==
    \/ Treat(c) \/ Chunk(c) \/ Pause(c) \/ Query(c) \/ Check(c)
    \/ RecordTreatment(c) \/ End(c) \/ Publish(c)

TeacherStep(t) == TeacherLoads(t) \/ TeacherLabels(t) \/ TeacherFails(t)

Next ==
    \/ \E c \in Clients : ClientStep(c) \/ Raise(c) \/ Kill(c) \/ Rerun(c)
    \/ \E t \in teachers : TeacherStep(t)

Spec == Init /\ [][Next]_vars

\* a client takes its next step, and a Teacher that was started answers
FairSpec ==
    /\ Spec
    /\ \A c \in Clients : WF_vars(ClientStep(c))
    /\ WF_vars(\E t \in teachers : TeacherStep(t))

-----------------------------------------------------------------------------
Phases == { "infer", "act", "pause", "wait", "query", "check", "record", "end", "publish",
            "done", "failed", "killed" }

TypeOK ==
    /\ \A c \in Clients :
         LET r == client[c]
         IN  /\ r.phase \in Phases /\ r.attempt \in 1..MaxAttempts
             /\ r.frame \in 0..(ChunkFrames * r.limit) /\ r.target \in Nat
             /\ r.applied \in 0..Expected /\ Len(r.records) \in r.applied..(r.applied + 1)
             /\ r.traced \in {"prefix", "continuation"}
             /\ \A i \in 1..Expected : files[c].context[i] \in ContextIds \union {NoFile}
    /\ \A t \in teachers : t.id \in ContextIds /\ t.loaded \in ContextIds \union {NoContext}
    /\ lock \in Clients \union {NoClient}

\* The label of every treatment was made, from the first byte read to the hash
\* written, from the context this attempt saved at this very boundary, even
\* when a Teacher of a killed attempt still writes to the same paths.
LabelFresh ==
    \A c \in Clients : \A i \in DOMAIN client[c].records :
        LET own == [client |-> c, attempt |-> client[c].attempt, index |-> i]
        IN  client[c].records[i].label = [semantic |-> own, file |-> own]

\* An episode never runs past a scheduled frame it has not treated, treats the
\* frames in the order of the schedule, each once, and calls its output
\* completed only with every treatment applied or the task solved.
NoBoundaryMissed ==
    \A c \in Clients :
        LET r == client[c]
        IN  /\ \A i \in DOMAIN r.records : r.records[i].frame = Frames[i]
            /\ r.phase # "failed" =>
                 \A i \in DOMAIN Frames : r.frame > Frames[i] =>
                     i \in DOMAIN r.records /\ r.records[i].applied
            /\ r.phase = "done" => \/ r.success
                                   \/ \A i \in DOMAIN Frames :
                                         i \in DOMAIN r.records /\ r.records[i].applied

\* However clients are killed, no two Teachers work at once for clients that
\* wait for them: the shared lock serialises the queries.
OneTeacher ==
    \A c, d \in Clients : client[c].phase = "query" /\ client[d].phase = "query" => c = d

\* A completed output accounts for every planner call of the episode: the
\* prefix up to the first treatment and the continuation after it add up.
CallsCounted ==
    \A c \in Clients : client[c].phase = "done" =>
        files[c].output.calls = client[c].calls

\* Without kills, the label file a record names still holds the label that was
\* applied when the episode ends, whatever later queries of it wrote.
LabelsOnDisk ==
    \A c \in Clients : client[c].phase = "done" =>
        \A i \in DOMAIN client[c].records :
            files[c].label[i] = client[c].records[i].label

\* A dynamic treatment is applied at the frame at which its event fired, an
\* event of this attempt that is already on disk, fired before the task was
\* solved, and only the first treatment of an episode can be one.
EventCausal ==
    \A c \in Clients :
        LET r == client[c]
        IN  r.records # << >> =>
              /\ r.event # NoEvent
              /\ r.records[1].frame = r.event.frame
              /\ files[c].event = [attempt |-> r.attempt, frame |-> r.event.frame]
              /\ ~Latest(r.detector.history).terminal
              /\ Latest(r.detector.history).frame = r.event.frame

\* When an attempt has completed its treatment output, trace and event files
\* are those of the same attempt and tell the same story, wherever earlier
\* attempts were killed.
CompletedTogether ==
    \A c \in Clients :
        LET f == files[c]
        IN  client[c].phase = "done" =>
              /\ f.output.attempt = client[c].attempt /\ f.trace.attempt = client[c].attempt
              /\ f.event.attempt = client[c].attempt
              /\ f.output.kind = "no_event" <=> f.trace.status = "no_event_terminal"
              /\ f.output.kind = "no_event" <=> f.event.frame = NoFrame
              /\ f.output.kind = "completed" <=> f.trace.status = "completed_event_treatment"

\* A treatment is applied with the label made from the context that this
\* attempt saved at this boundary, on schedule or at its event, by one Teacher
\* at a time, even when the Teacher of a killed attempt still writes; and the
\* files of a finished episode tell what happened in it.
TreatmentsSound ==
    /\ TypeOK /\ LabelFresh /\ OneTeacher /\ CallsCounted
    /\ ~Dynamic => NoBoundaryMissed
    /\ Dynamic => EventCausal /\ CompletedTogether
    /\ ~Kills => LabelsOnDisk

\* Every episode ends: no client waits for the Teacher lock for ever.
EpisodesEnd == \A c \in Clients : <>[](client[c].phase \in {"done", "failed", "killed"})
=============================================================================
