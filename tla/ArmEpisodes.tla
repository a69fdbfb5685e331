---------------------------- MODULE ArmEpisodes -----------------------------
(***************************************************************************)
(* LiveEpisode beside another component: its parameters and variables, of  *)
(* which the frames of a plan have a name of their own.                    *)
(***************************************************************************)
CONSTANTS Arms, Chunks, PlanFrames, KeyFrames, Quarter, MaxControls, StopOnSuccess, Shared,
          Progress

VARIABLES turn, at, chunk, student, teacher, frameSt, encoded, history, plan, conds, world,
          parent, reply, shown, total, success, episodes, workers, outcome

armVars == <<turn, at, chunk, student, teacher, frameSt, encoded, history, plan, conds, world,
             parent, reply, shown, total, success, episodes, workers, outcome>>

Live == INSTANCE LiveEpisode WITH Frames <- PlanFrames

(* Whatever two owners share is the same for both, nothing is left of the  *)
(* chunk, the arm or the comparison before, and controls and observations  *)
(* are numbered by what the worker has done.                               *)
ArmsComparable == Live!ArmsComparable

(* A success the worker latched is never reported as a failure at a later  *)
(* chunk, although each chunk's result overwrites the one before it.       *)
SuccessKept == Live!SuccessKept
=============================================================================
