---------------------------- MODULE PassiveTrace ----------------------------
(***************************************************************************)
(* StageOTrace beside the live treatment that uses the same detectors: the *)
(* parameters of the trace have names of their own.                        *)
(***************************************************************************)
EXTENDS EventTrigger

CONSTANTS TraceFrames, StepLimit, MaxEvents, Ordinals, Scalars, TraceFailures, TraceQuiets

VARIABLES phase, continuous, calls, samples, progress, observable, events, observableEvents,
          live, liveEvents

passiveVars == <<phase, continuous, calls, samples, progress, observable, events,
                 observableEvents, live, liveEvents>>

Trace == INSTANCE StageOTrace WITH
  ChunkFrames <- TraceFrames, Failures <- TraceFailures, Quiets <- TraceQuiets

(* The events of a passive trace keep budget and cooldown, a stall is one  *)
(* of the rollout, and no planner failure is charged twice or lost.        *)
EventsJust == Trace!EventsJust
=============================================================================
