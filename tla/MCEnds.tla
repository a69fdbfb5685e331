------------------------------- MODULE MCEnds -------------------------------
(***************************************************************************)
(* Does everything that is launched come to an end?  Liveness of the four  *)
(* programs that work over a shared directory: the scaled controller (the  *)
(* module extended here), the trajectory update, the qualified controller  *)
(* and the evaluator.  They share nothing in this instance: a behaviour is *)
(* one of them, chosen in the initial state, and the others stay idle.     *)
(***************************************************************************)
EXTENDS ScaledPipeline

CONSTANTS w1, w2, h1, h2, c1, c2, v1, v2, Truncated, NoPass

VARIABLES
  part,   \* the program that runs
  guard, lock, temps, epochs, final, summary, disk, updatePc, pid, config, ident,
  loaded, parent, live, lineage, epoch, claim,
  contract, runLog, runReceipt, checkpoints, runState, runFinal, runChild, runPc,
  command, runStage, shard, view,
  content, episode, unitReceipt, epochReceipt, selection, heldout, unitChild, evalPc,
  mode, todo, want, thread, rows

OneOrTwo == {1, 2}

Update == INSTANCE SuccessPathUpdate WITH
  Writers <- {w1, w2}, Hosts <- {h1, h2}, Pids <- {"pid"}, Contracts <- {"contract"},
  InnerEpochs <- 2, MaxEdits <- 0, pc <- updatePc

Run == INSTANCE QualifiedPipeline WITH
  Controllers <- {c1, c2}, Shards <- 2, OptionalEnabled <- TRUE, Overlap <- FALSE,
  log <- runLog, receipt <- runReceipt, state <- runState, final <- runFinal,
  child <- runChild, pc <- runPc, stage <- runStage

\* The same without the optional stage, whose receipt may be truncated.
Calm == INSTANCE QualifiedPipeline WITH
  Controllers <- {c1, c2}, Shards <- 2, OptionalEnabled <- FALSE, Overlap <- FALSE,
  log <- runLog, receipt <- runReceipt, state <- runState, final <- runFinal,
  child <- runChild, pc <- runPc, stage <- runStage

\* One evaluator fails anywhere, the next one does not.
Eval == INSTANCE Evaluation WITH
  Evaluators <- {v1, v2}, Reliable <- {v2}, Units <- 1, Epochs <- 2, Gpus <- 1,
  Modes <- {"screen"}, MaxEdits <- 0, Overlap <- FALSE, Orphans <- FALSE,
  Blocked <- NoPass, receipt <- unitReceipt, child <- unitChild, pc <- evalPc

updateVars == <<guard, lock, temps, epochs, final, summary, disk, updatePc, pid, config,
                ident, loaded, parent, live, lineage, epoch, claim>>
runVars == <<contract, runLog, runReceipt, checkpoints, runState, runFinal, runChild,
             runPc, command, runStage, shard, view>>
evalVars == <<content, episode, unitReceipt, epochReceipt, selection, heldout, unitChild,
              evalPc, mode, todo, want, thread, rows>>
allVars == <<part, vars, updateVars, runVars, evalVars>>

EndsInit ==
  /\ part \in {"scaled", "update", "pipeline", "calm", "evaluation"}
  /\ Init /\ Update!Init /\ Eval!Init
  /\ IF part = "calm" THEN Calm!Init ELSE Run!Init

\* bound of the scaled controller: a canary, then two runs one after the other
CanaryThenRuns ==
  \A r \in Runs :
    /\ pc[r] # "idle" => \A q \in 1..(r - 1) : pc[q] # "idle"
    /\ pc[r] = "gpus" => (stage[r] = "canary" <=> r = 1)

EndsNext ==
  /\ UNCHANGED part
  /\ \/ part = "scaled" /\ Next /\ CanaryThenRuns' /\ UNCHANGED <<updateVars, runVars, evalVars>>
     \/ part = "update" /\ Update!Next /\ UNCHANGED <<vars, runVars, evalVars>>
     \/ part = "pipeline" /\ Run!Next /\ UNCHANGED <<vars, updateVars, evalVars>>
     \/ part = "calm" /\ Calm!Calm /\ UNCHANGED <<vars, updateVars, evalVars>>
     \/ part = "evaluation" /\ Eval!Next /\ UNCHANGED <<vars, updateVars, runVars>>

\* the fairness of each module, for the behaviours of its program
Fairness ==
  /\ \A r \in Runs : WF_vars(part = "scaled" /\ Step(r))
  /\ \A r \in Runs : \A j \in Jobs :
       WF_vars(part = "scaled" /\ (WriteSummary(r, j) \/ Exit(r, j)))
  /\ \A w \in {w1, w2} : WF_updateVars(part = "update" /\ Update!Step(w))
  /\ \A c \in {c1, c2} :
       /\ WF_runVars(part = "pipeline" /\ Run!Control(c))
       /\ WF_runVars(part = "calm" /\ Calm!Control(c))
  /\ \A c \in {c1, c2}, u \in Run!Units :
       WF_runVars(part = "pipeline" /\ (Run!Work(c, u) \/ Run!Fail(c, u)))
  /\ \A c \in {c1, c2}, u \in Calm!Units : WF_runVars(part = "calm" /\ Calm!Work(c, u))
  /\ \A v \in {v1, v2} : WF_evalVars(part = "evaluation" /\ Eval!Proceed(v))
  /\ \A v \in {v1, v2}, s \in Eval!Slots : WF_evalVars(part = "evaluation" /\ Eval!Work(v, s))

EndsSpec == EndsInit /\ [][EndsNext]_allVars /\ Fairness

-----------------------------------------------------------------------------
(* Whatever is launched comes to an end: an update never waits for another *)
(* and, unless it is killed, lets go of the guard; an invocation of the    *)
(* qualified or the scaled controller returns or raises.                   *)
LaunchesEnd == Update!WritersFinish /\ Run!ControllersEnd /\ Ends

(* If nothing fails, one invocation takes a qualified run from wherever it *)
(* is to the final summary: its own traces never block it.                 *)
RunCompletes ==
  \A c \in {c1, c2} :
    part = "calm" /\ Run!Live(c) /\ command[c] = "run" ~> part = "calm" /\ runFinal

(* An evaluation that is not disturbed itself completes, whatever killed   *)
(* evaluators and children have left in its slots.                         *)
RerunCompletes == Eval!RerunCompletes
=============================================================================
