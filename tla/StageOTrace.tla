----------------------------- MODULE StageOTrace -----------------------------
(***************************************************************************)
(* The passive Stage-O trace of one rollout.  After every chunk the client *)
(* (prototype_fixed_instruction_robotwin_client_diag.py) hands a sample to *)
(* StageOTraceRecorder, which keeps it and asks both detectors; the trace  *)
(* is written when the episode is recorded.  The live detector of a        *)
(* dynamic treatment, which may emit one event, is run on the same samples *)
(* to compare what a passive trace predicts with what a treatment does.    *)
(***************************************************************************)
EXTENDS EventTrigger

CONSTANTS ChunkFrames,   \* frames of a chunk (action.shape[1])
          StepLimit,     \* chunks until the step limit
          MaxEvents,     \* events of the passive detectors
          Ordinals, Scalars, Failures, Quiets   \* what one chunk may show

\* what the dataclasses of the detectors, the chunk's shape and the counters require
Configured ==
    /\ EventConfigValid /\ NoFrame \notin Nat /\ NoScalar \notin Nat
    /\ ChunkFrames \in Nat \ {0} /\ StepLimit \in Nat /\ MaxEvents \in Nat \ {0}
    /\ Ordinals \subseteq Nat /\ Scalars \subseteq Nat /\ Failures \subseteq Nat
    /\ Quiets \subseteq BOOLEAN

VARIABLES phase,        \* "running", "written" or "failed"
          continuous,   \* whether the task has a continuous statistic
          calls,        \* planner calls that did not succeed
          samples,      \* StageOTraceRecorder.samples
          progress,     \* the recorder's EventDetector
          observable,   \* the recorder's ObservableEventDetector
          events, observableEvents,
          live, liveEvents   \* the detector of a dynamic treatment on the same rollout

vars == <<phase, continuous, calls, samples, progress, observable, events,
          observableEvents, live, liveEvents>>

Init ==
    /\ phase = "running" /\ continuous \in BOOLEAN /\ calls = 0
    /\ samples = << >> /\ events = << >> /\ observableEvents = << >> /\ liveEvents = << >>
    /\ progress = NewDetector /\ observable = NewDetector /\ live = NewDetector

Succeeded == samples # << >> /\ Latest(samples).terminal

\* the loop is entered again only below the step limit and without success
MoreChunks == Len(samples) < StepLimit /\ ~Succeeded

\* StageOTraceRecorder.observe on the sample of a finished chunk
Observe(sample) ==
    /\ InOrder(progress.history, sample) /\ InOrder(observable.history, sample)
    /\ samples' = Append(samples, sample)
    /\ LET seen == ObserveObservable(observable, sample, MaxEvents)
       IN  /\ observable' = seen.detector
           /\ observableEvents' = observableEvents \o seen.events
    /\ LET seen == ObserveProgress(progress, sample, MaxEvents)
       IN  /\ progress' = IF sample.terminal THEN progress ELSE seen.detector
           /\ events' = IF sample.terminal THEN events ELSE events \o seen.events
    /\ LET seen == ObserveObservable(live, sample, 1)
       IN  /\ live' = IF liveEvents = << >> THEN seen.detector ELSE live
           /\ liveEvents' = IF liveEvents = << >> THEN seen.events ELSE liveEvents

\* one chunk: its actions, the planner calls they make, the KV update and the sample
Chunk ==
    /\ phase = "running" /\ MoreChunks
    /\ \E ordinal \in Ordinals, scalar \in Scalars, failed \in Failures,
          quiet \in Quiets, terminal \in BOOLEAN :
         /\ calls' = calls + failed
         /\ Observe([ frame |-> ChunkFrames * (Len(samples) + 1), ordinal |-> ordinal,
                      scalar |-> IF continuous THEN scalar ELSE NoScalar,
                      failures |-> calls + failed, quiet |-> quiet, terminal |-> terminal ])
    /\ UNCHANGED <<phase, continuous>>

\* a planner call raises: the trace is never written
Raise ==
    /\ phase = "running" /\ MoreChunks
    /\ phase' = "failed"
    /\ UNCHANGED <<continuous, calls, samples, progress, observable, events,
                   observableEvents, live, liveEvents>>

\* the episode record: PlannerEventTrace.finish, finalize, write
Finalize ==
    /\ phase = "running" /\ ~MoreChunks
    /\ samples # << >>
    /\ phase' = "written"
    /\ UNCHANGED <<continuous, calls, samples, progress, observable, events,
                   observableEvents, live, liveEvents>>

Next == Chunk \/ Raise \/ Finalize

Spec == Init /\ [][Next]_vars

-----------------------------------------------------------------------------
Sample == [ frame : Nat, ordinal : Nat, scalar : Nat \union {NoScalar}, failures : Nat,
            quiet : BOOLEAN, terminal : BOOLEAN ]

TypeOK ==
    /\ phase \in {"running", "written", "failed"} /\ continuous \in BOOLEAN /\ calls \in Nat
    /\ \A i \in DOMAIN samples : samples[i] \in Sample
    /\ \A d \in {progress, observable, live} :
          /\ d.emitted \in Nat /\ d.charged \in Nat /\ d.last \in Nat \union {NoFrame}
          /\ \A i \in DOMAIN d.history : d.history[i] \in Sample
    /\ \A list \in {events, observableEvents, liveEvents} : \A i \in DOMAIN list :
          list[i].index \in Nat /\ list[i].frame \in Nat

SampleAt(frame) == CHOOSE i \in DOMAIN samples : samples[i].frame = frame

\* Each list of events stays within its budget, numbers its events in order,
\* starts no earlier than min_frame, keeps the cooldown between any two and
\* names the boundary of a sample at which the task had not succeeded.
EventsPaced ==
    \A list \in {events, observableEvents} :
        /\ Len(list) <= MaxEvents
        /\ \A i \in DOMAIN list :
              /\ list[i].index = i - 1
              /\ list[i].frame >= MinFrame
              /\ \E k \in DOMAIN samples :
                    samples[k].frame = list[i].frame /\ ~samples[k].terminal
              /\ \A j \in 1..(i - 1) : list[i].frame - list[j].frame >= Cooldown

\* A reported stall is a stall of the rollout: over the last samples the
\* recorder itself kept (not the ones the detector chose to remember) the
\* stage never moved, and there was no continuous gain, or planner calls failed.
StallsSustained ==
    \A e \in DOMAIN events : events[e].kind = "stalled_progress" =>
        LET last == SampleAt(events[e].frame)
            first == last - Window + 1
        IN  /\ first >= 1
            /\ \A i \in first..last : samples[i].ordinal = samples[last].ordinal
            /\ IF continuous THEN samples[last].scalar <= samples[first].scalar + Epsilon
               ELSE samples[last].failures > samples[first].failures

FailuresAt(i) == IF i = 0 THEN 0 ELSE samples[SampleAt(observableEvents[i].frame)].failures

\* Every planner failure is charged to at most one observable event: what an
\* event reports are the failures since the event before it, whatever their number.
FailuresChargedOnce ==
    \A i \in DOMAIN observableEvents :
        observableEvents[i].since = FailuresAt(i) - FailuresAt(i - 1)

\* A planner failure is not lost in a cooldown or before min_frame: once an
\* event may fire again, the next sample reports every failure left over.
FailuresNotLost ==
    LET last == IF observableEvents = << >> THEN 0
                ELSE SampleAt(Latest(observableEvents).frame)
    IN  \A i \in DOMAIN samples :
            ( /\ i > last /\ i >= Window /\ ~samples[i].terminal
              /\ Len(observableEvents) < MaxEvents
              /\ samples[i].frame >= MinFrame
              /\ (last = 0 \/ samples[i].frame - samples[last].frame >= Cooldown) )
            => samples[i].failures = IF last = 0 THEN 0 ELSE samples[last].failures

\* What the passive trace reports first is what a live treatment, limited to
\* one event, would have been triggered by on the same rollout.
LiveAgrees ==
    liveEvents = IF observableEvents = << >> THEN << >> ELSE << Head(observableEvents) >>

\* The events of a trace keep budget and cooldown, a stall is one of the
\* rollout, and no planner failure is charged twice or lost.
EventsJust ==
    /\ TypeOK
    /\ EventsPaced /\ StallsSustained
    /\ FailuresChargedOnce /\ FailuresNotLost
    /\ LiveAgrees

-----------------------------------------------------------------------------
(* The inductive invariant behind them.  Frames are multiples of a chunk,  *)
(* so a sample's place can be told from its frame.                         *)

Detector == [history : Seq(Sample), last : Nat \union {NoFrame}, emitted : Nat, charged : Nat]
Kinds == {"phase_transition", "stalled_progress", "planner_non_success", "observable_stall"}
Event == [index : Nat, kind : Kinds, frame : Nat, since : Int]

Typed ==
    /\ phase \in {"running", "written", "failed"} /\ continuous \in BOOLEAN /\ calls \in Nat
    /\ samples \in Seq(Sample)
    /\ progress \in Detector /\ observable \in Detector /\ live \in Detector
    /\ events \in Seq(Event) /\ observableEvents \in Seq(Event) /\ liveEvents \in Seq(Event)

\* a sample for every chunk, up to the first one that shows success
Sampled ==
    /\ \A i \in 1..Len(samples) :
          /\ samples[i].frame = ChunkFrames * i
          /\ samples[i].failures <= calls
          /\ (samples[i].scalar = NoScalar) <=> ~continuous
          /\ samples[i].terminal => i = Len(samples)
    /\ \A i, j \in 1..Len(samples) : i <= j => samples[i].failures <= samples[j].failures

\* the events a detector has emitted are those it remembers it emitted
Remembered(d, list, trace) ==
    /\ d.emitted = Len(list) /\ Len(list) <= MaxEvents
    /\ d.last = IF list = << >> THEN NoFrame ELSE list[Len(list)].frame
    /\ \A i \in 1..Len(list) :
          /\ list[i].index = i - 1 /\ list[i].frame >= MinFrame
          /\ \E k \in 1..Len(trace) : list[i].frame = ChunkFrames * k /\ ~trace[k].terminal
          /\ \A j \in 1..(i - 1) : list[i].frame - list[j].frame >= Cooldown

\* the detectors see the trace's samples, the progress one up to a success
Followed ==
    /\ observable.history = samples
    /\ ~Succeeded => progress.history = samples
    /\ Remembered(progress, events, samples)
    /\ Remembered(observable, observableEvents, samples)
    /\ observable.charged = FailuresAt(Len(observableEvents))

\* until it has fired, the live detector is the passive one
Alike ==
    IF observableEvents = << >> THEN live = observable /\ liveEvents = << >>
    ELSE liveEvents = << observableEvents[1] >>

TraceInv ==
    /\ Typed /\ Sampled /\ Followed /\ Alike
    /\ StallsSustained /\ FailuresChargedOnce /\ FailuresNotLost
=============================================================================
