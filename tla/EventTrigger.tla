---------------------------- MODULE EventTrigger ----------------------------
(***************************************************************************)
(* The two event detectors of stage_o_event_trigger.py.  EventDetector     *)
(* looks at a task's progress, ObservableEventDetector only at cameras,    *)
(* robot state and planner outcomes.  Both are operators on a detector     *)
(* record, so that the passive trace recorder (StageOTrace) and the live   *)
(* treatment client (LiveTreatment) drive the same definitions.            *)
(*                                                                         *)
(* A sample is what one action boundary shows: its frame, the ordinal      *)
(* stage, a continuous progress value or NoScalar, the cumulative number   *)
(* of planner calls that did not succeed, whether cameras and state moved  *)
(* less than both thresholds, and whether the task had succeeded.          *)
(***************************************************************************)
EXTENDS Integers, Sequences

CONSTANTS MinFrame,    \* no event before this frame
          Window,      \* samples a stall is judged on
          Cooldown,    \* frames between two events
          Epsilon,     \* continuous progress that still counts as a stall
          NoFrame,     \* no event has been emitted yet
          NoScalar     \* the task has no continuous statistic

ASSUME EventConfigValid ==
    /\ MinFrame \in Nat /\ Window \in Nat \ {0, 1}
    /\ Cooldown \in Nat /\ Epsilon \in Nat

-----------------------------------------------------------------------------
NewDetector == [history |-> << >>, last |-> NoFrame, emitted |-> 0, charged |-> 0]

Latest(history) == history[Len(history)]

\* observe raises unless frames increase strictly and failures are cumulative
InOrder(history, sample) ==
    history # << >> => /\ Latest(history).frame < sample.frame
                       /\ Latest(history).failures <= sample.failures

CooldownElapsed(d, frame) == d.last = NoFrame \/ frame - d.last >= Cooldown

MayFire(d, frame, max) ==
    /\ d.emitted < max
    /\ frame >= MinFrame
    /\ CooldownElapsed(d, frame)

Recent(history) == SubSeq(history, Len(history) - Window + 1, Len(history))

Record(d, sample) == [d EXCEPT !.history = Append(@, sample)]

Boundary(history) == Latest(history).frame

\* a change that does not note when the event was emitted
EmitUndated(d, sample, charged) == [d EXCEPT !.emitted = @ + 1, !.charged = charged]

Emit(d, sample, charged) ==
    [d EXCEPT !.emitted = @ + 1, !.last = sample.frame, !.charged = charged]

-----------------------------------------------------------------------------
(* EventDetector *)

Advanced(history) ==
    /\ Len(history) > 1
    /\ Latest(history).ordinal > history[Len(history) - 1].ordinal

\* a change that compares only the two ends of the window
SameEnds(w) == w[Len(w)].ordinal = w[1].ordinal

SameStage(w) == \A i \in DOMAIN w : w[i].ordinal = w[1].ordinal

Stalled(w) ==
    /\ SameStage(w)
    /\ \/ /\ \A i \in DOMAIN w : w[i].scalar = NoScalar
          /\ w[Len(w)].failures > w[1].failures
       \/ /\ \A i \in DOMAIN w : w[i].scalar # NoScalar
          /\ w[Len(w)].scalar - w[1].scalar <= Epsilon

ProgressTrigger(d, history, frame, max) ==
    CASE ~MayFire(d, frame, max) -> "none"
      [] MayFire(d, frame, max) /\ Advanced(history) -> "phase_transition"
      [] OTHER -> IF Len(history) >= Window /\ Stalled(Recent(history))
                  THEN "stalled_progress" ELSE "none"

\* what EventDetector.observe returns and leaves behind
ObserveProgress(d, sample, max) ==
    LET seen == Record(d, sample)
        kind == ProgressTrigger(d, seen.history, sample.frame, max)
    IN  [ detector |-> IF kind = "none" THEN seen ELSE Emit(seen, sample, 0),
          events |-> IF kind = "none" THEN << >>
                     ELSE << [index |-> d.emitted, kind |-> kind, frame |-> Boundary(seen.history),
                              since |-> 0] >> ]

-----------------------------------------------------------------------------
(* ObservableEventDetector *)

AllQuiet(w) == \A i \in DOMAIN w : w[i].quiet

FailedSince(d, history) == Latest(history).failures > d.charged

ObservableTrigger(d, history, sample, max) ==
    CASE sample.terminal \/ ~MayFire(d, sample.frame, max) \/ Len(history) < Window -> "none"
      [] ~sample.terminal /\ MayFire(d, sample.frame, max) /\ Len(history) >= Window ->
            IF FailedSince(d, history) THEN "planner_non_success"
            ELSE IF AllQuiet(Recent(history)) THEN "observable_stall" ELSE "none"

\* changes that charge only one failure, and that forget to charge any
ChargeOne(d, sample) == d.charged + 1

\* the planner failures that are accounted for once an event is emitted
Charge(d, sample) == sample.failures

ObserveObservable(d, sample, max) ==
    LET seen == Record(d, sample)
        kind == ObservableTrigger(d, seen.history, sample, max)
    IN  [ detector |-> IF kind = "none" THEN seen ELSE Emit(seen, sample, Charge(d, sample)),
          events |-> IF kind = "none" THEN << >>
                     ELSE << [index |-> d.emitted, kind |-> kind, frame |-> Boundary(seen.history),
                              since |-> sample.failures - d.charged] >> ]
=============================================================================
