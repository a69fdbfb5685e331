-------------------------- MODULE QualifiedPipeline -------------------------
(***************************************************************************)
(* The controller of experiments/run_qualified_success_path_pipeline.py    *)
(* and the child processes it starts.  All controllers of one manifest     *)
(* share the formal run directory; what one controller knows of another is *)
(* what it finds there: logs, receipts, epoch checkpoints.                 *)
(*                                                                         *)
(* A controller is ONE invocation of main(); it may raise or be killed at  *)
(* any point, and then its children go on without it.  A unit is one child *)
(* command: a collection shard, or the single command of a later stage.    *)
(***************************************************************************)
EXTENDS Naturals

CONSTANTS
    Controllers,      \* invocations of the controller
    Shards,           \* number of collection configs (four in V1)
    OptionalEnabled,  \* manifest["optional_eval"]["enabled"]
    Overlap           \* may two controllers run at the same time?

ASSUME ShardsAssumption == Shards \in Nat \ {0}
ASSUME SwitchAssumption == OptionalEnabled \in BOOLEAN /\ Overlap \in BOOLEAN

(* CORE_STAGES collection, update, screening, heldout; then optional_eval, *)
(* which a disabled manifest counts as done.                               *)
Collection == 1
Update == 2
Optional == 5
LastStage == IF OptionalEnabled THEN 5 ELSE 4
Stages == 1 .. LastStage

UnitsOf(s) == {<<s, i>> : i \in 1 .. IF s = Collection THEN Shards ELSE 1}
Units == UNION {UnitsOf(s) : s \in Stages}

(* Two epoch checkpoints and the final one.                                *)
Checkpoints == 3

Commands == {"run", "dry", "status"}
Receipts == {"none", "PASS", "FAIL", "unreadable"}
View == [done: SUBSET Stages, blocked: BOOLEAN]

(* The view of a fresh run; in state it stands for a state.json that does  *)
(* not exist, because a status written there has a stage done or blocked.  *)
NoView == [done |-> {}, blocked |-> FALSE]

VARIABLES
    \* -- the formal run directory ---------------------------------------------
    contract,     \* pipeline/contract.json exists
    log,          \* units whose log file exists
    receipt,      \* receipt of each unit
    checkpoints,  \* number of update checkpoints published
    state,        \* the view in pipeline/state.json
    final,        \* pipeline/final_summary.json exists
    \* -- the processes --------------------------------------------------------
    child,        \* child process of a controller for a unit
    pc,           \* next step of each controller
    command,      \* its command line
    stage,        \* stage it is running
    shard,        \* next unit of that stage to start
    view          \* phases it derived last

files == <<contract, log, receipt, checkpoints, state, final>>
local == <<command, stage, shard, view>>
vars == <<files, child, pc, local>>

Steps == {"idle", "assess", "launch", "spawn", "wait", "review", "finalize",
          "report", "ended", "blocked", "failed", "undecodable"}
ChildSteps == {"none", "running", "published", "zero", "nonzero"}

Live(c) == pc[c] \in {"assess", "launch", "spawn", "wait", "review", "finalize", "report"}
Alive(c, u) == child[c][u] \in {"running", "published"}

TypeOK ==
    /\ contract \in BOOLEAN
    /\ log \subseteq Units
    /\ receipt \in [Units -> Receipts]
    /\ checkpoints \in 0 .. Checkpoints
    /\ state \in View
    /\ final \in BOOLEAN
    /\ child \in [Controllers -> [Units -> ChildSteps]]
    /\ pc \in [Controllers -> Steps]
    /\ command \in [Controllers -> Commands]
    /\ stage \in [Controllers -> Stages]
    /\ shard \in [Controllers -> 1 .. Shards]
    /\ view \in [Controllers -> View]

Init ==
    /\ contract = FALSE
    /\ log = {}
    /\ receipt = [u \in Units |-> "none"]
    /\ checkpoints = 0
    /\ state = NoView
    /\ final = FALSE
    /\ child = [c \in Controllers |-> [u \in Units |-> "none"]]
    /\ pc = [c \in Controllers |-> "idle"]
    /\ command = [c \in Controllers |-> "run"]
    /\ stage = [c \in Controllers |-> Collection]
    /\ shard = [c \in Controllers |-> 1]
    /\ view = [c \in Controllers |-> NoView]

(* The unit a controller is about to start.                                *)
NextUnit(c) == <<stage[c], shard[c]>>

Goto(c, step) == pc' = [pc EXCEPT ![c] = step]

-----------------------------------------------------------------------------
(* _phase_status and _next_stage.                                          *)

(* A stage is done on the PASS receipts of all its units; the update also  *)
(* needs its three checkpoints.                                            *)
Done(s) ==
    /\ \A u \in UnitsOf(s) : receipt[u] = "PASS"
    /\ s = Update => checkpoints = Checkpoints

(* It has started once it left any trace: a receipt, a log, a checkpoint.  *)
Started(s) ==
    \/ \E u \in UnitsOf(s) : receipt[u] # "none" \/ u \in log
    \/ s = Update /\ checkpoints > 0

DoneStages == {s \in Stages : Done(s)}

AllDone == \A s \in Stages : Done(s)

(* Mutant: a started stage is passed over like a done one.                 *)
FirstUnstarted(s) == ~Done(s) /\ \A t \in 1 .. s - 1 : Done(t) \/ Started(t)

(* The first stage that is not done, and whether it may be launched.       *)
FirstUndone(s) == ~Done(s) /\ \A t \in 1 .. s - 1 : Done(t)

(* Mutant: whether a stage started is asked before whether it is done.     *)
BlockedWhenStarted(s) == Started(s) /\ \A t \in 1 .. s - 1 : Done(t)

Blocked(s) == FirstUndone(s) /\ Started(s)
Launchable(s) == FirstUndone(s) /\ ~Started(s)

(* _pass_json decodes every receipt it finds.                              *)
Unreadable == \E u \in Units : receipt[u] = "unreadable"

CurrentView == [done |-> DoneStages, blocked |-> \E s \in Stages : Blocked(s)]

-----------------------------------------------------------------------------
(* The controller.                                                         *)

(* validate_contract passed; contract.json is written before the status is *)
(* looked at, by every invocation but a dry run.                           *)
Start(c) ==
    /\ pc[c] = "idle"
    /\ Overlap \/ \A d \in Controllers : ~Live(d)
    /\ \E cmd \in Commands :
          /\ command' = [command EXCEPT ![c] = cmd]
          /\ contract' = (contract \/ cmd # "dry")
    /\ Goto(c, "assess")
    /\ UNCHANGED <<log, receipt, checkpoints, state, final, child, stage, shard, view>>

(* What main() does with a fresh status: an undecodable receipt escapes as *)
(* an exception, a blocked stage is an error, the next stage is launched,  *)
(* and with nothing left (in a dry run too) the run is finalized.          *)
Follow(c) ==
    \/ /\ AllDone
       /\ Goto(c, "finalize")
       /\ UNCHANGED <<stage, shard>>
    \/ /\ \E s \in Stages : Blocked(s)
       /\ Goto(c, "blocked")
       /\ UNCHANGED <<stage, shard>>
    \/ \E s \in Stages :
          /\ Launchable(s)
          /\ stage' = [stage EXCEPT ![c] = s]
          /\ shard' = [shard EXCEPT ![c] = 1]
          /\ Goto(c, "launch")

Assess(c) ==
    /\ pc[c] = "assess"
    /\ \/ Unreadable /\ Goto(c, "undecodable") /\ UNCHANGED <<stage, shard, view>>
       \/ /\ ~Unreadable
          /\ view' = [view EXCEPT ![c] = CurrentView]
          /\ \/ command[c] = "status" /\ Goto(c, "ended") /\ UNCHANGED <<stage, shard>>
             \/ command[c] = "run" /\ Follow(c)
             \/ /\ command[c] = "dry"
                /\ IF \E s \in Stages : Launchable(s)
                   THEN Goto(c, "ended") /\ UNCHANGED <<stage, shard>>
                   ELSE Follow(c)
    /\ UNCHANGED <<files, child, command>>

(* Mutant: the child opens its own log, later.                             *)
OpenNoLog(c) ==
    /\ pc[c] = "launch"
    /\ Goto(c, "spawn")
    /\ UNCHANGED <<files, child, local>>

(* The log of a unit is opened before its process exists.                  *)
OpenLog(c) ==
    /\ pc[c] = "launch"
    /\ log' = log \cup {NextUnit(c)}
    /\ Goto(c, "spawn")
    /\ UNCHANGED <<contract, receipt, checkpoints, state, final, child, local>>

(* All shards of the collection are started before any is waited for.      *)
Spawn(c) ==
    /\ pc[c] = "spawn"
    /\ child' = [child EXCEPT ![c][NextUnit(c)] = "running"]
    /\ IF stage[c] = Collection /\ shard[c] < Shards
       THEN shard' = [shard EXCEPT ![c] = @ + 1] /\ Goto(c, "launch")
       ELSE Goto(c, "wait") /\ UNCHANGED shard
    /\ UNCHANGED <<files, command, stage, view>>

(* Mutant: the receipts are awaited instead of the processes.              *)
WaitForReceipts(c) ==
    /\ pc[c] = "wait"
    /\ \A u \in UnitsOf(stage[c]) : receipt[u] = "PASS"
    /\ Goto(c, "review")
    /\ UNCHANGED <<files, child, local>>

(* Every child is waited for, then any non-zero exit is an error.          *)
Wait(c) ==
    /\ pc[c] = "wait"
    /\ \A u \in UnitsOf(stage[c]) : ~Alive(c, u)
    /\ Goto(c, IF \E u \in UnitsOf(stage[c]) : child[c][u] = "nonzero"
               THEN "failed" ELSE "review")
    /\ UNCHANGED <<files, child, local>>

(* Mutant: a stage whose commands exited zero is reported done.            *)
ReviewTrusting(c) ==
    /\ pc[c] = "review"
    /\ ~Unreadable
    /\ view' = [view EXCEPT ![c] = CurrentView]
    /\ state' = [CurrentView EXCEPT !.done = @ \cup {stage[c]}]
    /\ Follow(c)
    /\ UNCHANGED <<contract, log, receipt, checkpoints, final, child, command>>

(* The fresh status is written to state.json before it is acted on.  That  *)
(* the same stage comes back is impossible: its log exists.                *)
Review(c) ==
    /\ pc[c] = "review"
    /\ \/ /\ Unreadable
          /\ Goto(c, "undecodable")
          /\ UNCHANGED <<state, stage, shard, view>>
       \/ /\ ~Unreadable
          /\ view' = [view EXCEPT ![c] = CurrentView]
          /\ state' = CurrentView
          /\ Follow(c)
    /\ UNCHANGED <<contract, log, receipt, checkpoints, final, child, command>>

(* _finalize reads the receipts again and writes final_summary.json; then  *)
(* the status derived earlier goes to state.json.                          *)
Finalize(c) ==
    /\ pc[c] = "finalize"
    /\ final' = TRUE
    /\ Goto(c, "report")
    /\ UNCHANGED <<contract, log, receipt, checkpoints, state, child, local>>

Report(c) ==
    /\ pc[c] = "report"
    /\ state' = view[c]
    /\ Goto(c, "ended")
    /\ UNCHANGED <<contract, log, receipt, checkpoints, final, child, local>>

(* No eligible GPUs, a log or a process that cannot be opened, an          *)
(* interrupt, a kill: the controller is gone, its children are not.        *)
Abort(c) ==
    /\ Live(c)
    /\ Goto(c, "failed")
    /\ UNCHANGED <<files, child, local>>

Control(c) == Assess(c) \/ OpenLog(c) \/ Spawn(c) \/ Wait(c) \/ Review(c)
                 \/ Finalize(c) \/ Report(c)

-----------------------------------------------------------------------------
(* The children.  The commands of the core stages publish a receipt only   *)
(* with status PASS and exit zero only after it; of the optional argv the  *)
(* pipeline knows nothing but its exit code and its receipt.               *)

(* The update publishes its checkpoints one by one before its summary.     *)
SaveCheckpoint(c, u) ==
    /\ u[1] = Update /\ child[c][u] = "running"
    /\ checkpoints < Checkpoints
    /\ checkpoints' = checkpoints + 1
    /\ UNCHANGED <<contract, log, receipt, state, final, child, pc, local>>

PublishReceipt(c, u) ==
    /\ child[c][u] = "running"
    /\ u[1] = Update => checkpoints = Checkpoints
    /\ \E value \in IF u[1] = Optional THEN Receipts \ {"none"} ELSE {"PASS"} :
          receipt' = [receipt EXCEPT ![u] = value]
    /\ child' = [child EXCEPT ![c][u] = "published"]
    /\ UNCHANGED <<contract, log, checkpoints, state, final, pc, local>>

Exit(c, u) ==
    /\ \/ child[c][u] = "published"
       \/ child[c][u] = "running" /\ u[1] = Optional
    /\ child' = [child EXCEPT ![c][u] = "zero"]
    /\ UNCHANGED <<files, pc, local>>

(* An exception or a kill, before or after the receipt.                    *)
Fail(c, u) ==
    /\ Alive(c, u)
    /\ child' = [child EXCEPT ![c][u] = "nonzero"]
    /\ UNCHANGED <<files, pc, local>>

Work(c, u) == SaveCheckpoint(c, u) \/ PublishReceipt(c, u) \/ Exit(c, u)

-----------------------------------------------------------------------------
Calm ==
    \/ \E c \in Controllers : Start(c) \/ Control(c)
    \/ \E c \in Controllers, u \in Units : Work(c, u)

Next ==
    \/ Calm
    \/ \E c \in Controllers : Abort(c)
    \/ \E c \in Controllers, u \in Units : Fail(c, u)

Spec == Init /\ [][Next]_vars

(* A running controller executes its next step, and every child command    *)
(* ends at some time: the controller waits for it without a timeout.       *)
Fairness ==
    /\ \A c \in Controllers : WF_vars(Control(c))
    /\ \A c \in Controllers, u \in Units : WF_vars(Work(c, u) \/ Fail(c, u))

FairSpec == Spec /\ Fairness

-----------------------------------------------------------------------------
(* Properties.                                                             *)

(* No unit is ever launched a second time: not by the controller that      *)
(* launched it, not by one that finds what a crashed one left behind.      *)
LaunchedOnce ==
    \A u \in Units, c, d \in Controllers :
        child[c][u] # "none" /\ child[d][u] # "none" => c = d

(* A process of a stage exists only above a complete ledger of the stages  *)
(* before it, whoever launched them and however their controller ended.    *)
StagesInOrder ==
    \A c \in Controllers, u \in Units :
        child[c][u] # "none" => \A t \in 1 .. u[1] - 1 : Done(t)

(* The final summary, once it exists, describes a run whose every stage    *)
(* passed, under a recorded contract: it embeds both by path.              *)
FinalMeansDone == final => AllDone /\ contract

(* state.json, even one written by a controller that derived it before     *)
(* other processes went on, reports no stage that has not passed.          *)
StateIsTrue == state.done \subseteq DoneStages

(* The receipts of a run directory are an ordered ledger of passed stages, *)
(* never retracted, with the final summary on top.                         *)
Ledger == INSTANCE StageLedger WITH
    Last <- LastStage, passed <- DoneStages, published <- final
ImplementsLedger == Ledger!Spec

(* No controller hangs: a launched invocation returns or raises.           *)
ControllersEnd == \A c \in Controllers : Live(c) ~> ~Live(c)

(* If nothing fails, one invocation takes the run from wherever it is to   *)
(* the final summary: its own traces never block it.                       *)
RunCompletes ==
    \A c \in Controllers : Live(c) /\ command[c] = "run" ~> final

-----------------------------------------------------------------------------
(* The inductive invariants behind the safety properties.                  *)

(* Whatever runs at the same time: the update's receipt comes after its    *)
(* checkpoints, and a controller that launches a stage has the earlier     *)
(* ones behind it.                                                         *)
OrderInv ==
    /\ \A u \in UnitsOf(Update) : receipt[u] = "PASS" => checkpoints = Checkpoints
    /\ \A c \in Controllers : pc[c] \in {"launch", "spawn"} =>
          NextUnit(c) \in Units /\ \A t \in 1 .. stage[c] - 1 : Done(t)
    /\ StagesInOrder

(* One controller at a time: a receipt is the work of a child, a child has *)
(* a log, and the units still to be launched have neither.                 *)
OneController == \A c, d \in Controllers : Live(c) /\ Live(d) => c = d

TracesInv ==
    \A u \in Units :
        /\ receipt[u] # "none" =>
              \E c \in Controllers : child[c][u] \in {"published", "zero", "nonzero"}
        /\ \A c \in Controllers : child[c][u] # "none" => u \in log /\ contract

CommandInv ==
    \A c \in Controllers :
        /\ Live(c) /\ command[c] # "dry" => contract
        /\ pc[c] \in {"launch", "spawn", "wait", "review"} => command[c] = "run"

LaunchInv ==
    \A c \in Controllers : pc[c] \in {"launch", "spawn"} =>
        /\ NextUnit(c) \in log <=> pc[c] = "spawn"
        /\ \A d \in Controllers : child[d][NextUnit(c)] = "none"
        /\ \A u \in UnitsOf(stage[c]) : u[2] > shard[c] => u \notin log

(* What is concluded from a status stays true until it is written down.    *)
ReportInv ==
    /\ \A c \in Controllers : pc[c] \in {"finalize", "report"} =>
          AllDone /\ view[c].done \subseteq DoneStages
    /\ FinalMeansDone
    /\ StateIsTrue

PipeInv ==
    /\ TypeOK /\ OrderInv /\ OneController /\ TracesInv /\ CommandInv /\ LaunchInv
    /\ LaunchedOnce /\ ReportInv
=============================================================================
