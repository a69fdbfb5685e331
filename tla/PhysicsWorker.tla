---------------------------- MODULE PhysicsWorker ----------------------------
(***************************************************************************)
(* The persistent physics worker,                                          *)
(* experiments/robotwin_persistent_physics_worker.py, with the planner     *)
(* service it starts, experiments/robotwin_planner_service.py.             *)
(*                                                                         *)
(* A client forks one worker and talks to it over two pipes; a message is  *)
(* a sequence of chunks that a pipe of limited size delivers one by        *)
(* one, so that either side can be stopped half-way.  Replies carry no     *)
(* request ids.  The worker owns the physics scene, and a planner process  *)
(* once a step needs one.                                                  *)
(*                                                                         *)
(* A scene is the sequence of <<action, plan>> that led to it.  A plan is  *)
(* numbered: planning the same request twice gives two numbers unless the  *)
(* planner remembers the first.                                            *)
(***************************************************************************)
EXTENDS Naturals, Sequences

CONSTANTS
    Actions,      \* action chunks a client steps with
    MaxCalls,     \* bound: calls of the client
    PipeSize,     \* chunks of a reply that the response pipe holds
    CommandRoom,  \* short requests that the command pipe holds
    Failures      \* may worker and planner fail, and answers be late?

ASSUME WorkerAssumption ==
    /\ MaxCalls \in Nat /\ Failures \in BOOLEAN
    /\ PipeSize \in Nat \ {0} /\ CommandRoom \in Nat \ {0}

NoRequest == [id |-> 0, op |-> "none"]
(* What carries a snapshot is longer than the pipe it goes through.        *)
ReplySize(op) == IF op \in {"step", "snapshot"} THEN PipeSize + 1 ELSE 1
RequestSize(op) == IF op = "restore" THEN CommandRoom + 1 ELSE 1

VARIABLES
    commands,     \* command pipe, client to worker
    replies,      \* response pipe, worker to client
    client,       \* step of the client and the chunks it has still to move
    request,      \* its current request
    calls,        \* requests made so far; also their last id
    spoiled,      \* has a call of this handle failed?
    accepted,     \* <<request, answered>> of every call that returned
    saved,        \* snapshots the client holds
    worker,       \* step of the worker and the chunks it has still to move
    serving,      \* the request it works on
    scene,        \* its physics scene
    planner,      \* its planner process
    plans,        \* the planner's cache: request -> plan
    planned,      \* plans made so far
    moves         \* history: <<scene, action, scene>> of every step

pipes == <<commands, replies>>
clientVars == <<client, request, calls, spoiled, accepted, saved>>
workerVars == <<worker, serving, scene, planner, plans, planned, moves>>
vars == <<pipes, clientVars, workerVars>>

TypeOK ==
    /\ Len(commands) <= CommandRoom /\ Len(replies) <= PipeSize
    /\ client.step \in {"ready?", "idle", "sending", "waiting", "closing?", "reaping",
                        "killing", "closed", "raised"}
    /\ client.left \in 0 .. CommandRoom + 1 /\ client.got \in Nat
    /\ calls \in 0 .. MaxCalls /\ spoiled \in BOOLEAN
    /\ worker.step \in {"boot", "idle", "reading", "working", "replying", "failing",
                        "hung", "shutdown", "zombie", "gone"}
    /\ planner \in {"none", "idle", "planning", "dead"}
    /\ planned \in Nat
    /\ \A m \in moves : Len(m[3]) = Len(m[1]) + 1

Init ==
    /\ commands = <<>> /\ replies = <<>>
    /\ client = [step |-> "ready?", left |-> 0, got |-> 0]
    /\ request = NoRequest
    /\ calls = 0 /\ spoiled = FALSE /\ accepted = {} /\ saved = {}
    /\ worker = [step |-> "boot", left |-> 0]
    /\ serving = NoRequest
    /\ scene = <<>>
    /\ planner = "none" /\ plans = {} /\ planned = 0
    /\ moves = {}

(* The client still holds its ends of the pipes.                           *)
Open == client.step \notin {"reaping", "killing", "closed"}
Running == worker.step \notin {"zombie", "gone"}

-----------------------------------------------------------------------------
(* The client.                                                             *)

ClientAt(step) == client' = [step |-> step, left |-> 0, got |-> 0]
(* A call ends in an exception; the handle stays usable.                   *)
Fails == ClientAt("idle") /\ spoiled' = TRUE /\ UNCHANGED <<request, accepted, saved>>

(* __init__: READY, or the constructor raises and leaves the worker to     *)
(* itself; its pipes stay open as long as the client process lives.        *)
BecomeReady ==
    /\ client.step = "ready?"
    /\ \/ /\ replies # <<>>
          /\ replies' = Tail(replies)
          /\ ClientAt(IF Head(replies).answer.op = "READY" THEN "idle" ELSE "raised")
       \/ /\ replies = <<>> /\ (Failures \/ ~Running)
          /\ ClientAt("raised") /\ UNCHANGED replies
    /\ UNCHANGED <<commands, request, calls, spoiled, accepted, saved, workerVars>>

(* step, snapshot and restore: what the client asks.                       *)
Requests(id) ==
    [id : {id}, op : {"step"}, action : Actions] \cup [id : {id}, op : {"snapshot"}]
    \cup [id : {id}, op : {"restore"}, scene : saved]

Call ==
    /\ client.step = "idle" /\ calls < MaxCalls
    /\ calls' = calls + 1
    /\ request' \in Requests(calls + 1)
    /\ client' = [step |-> "sending", left |-> RequestSize(request'.op), got |-> 0]
    /\ UNCHANGED <<pipes, spoiled, accepted, saved, workerVars>>

(* _write_all waits for room without a time limit.                         *)
Send ==
    /\ client.step \in {"sending", "closing?"} /\ client.left > 0
    /\ \/ /\ Running /\ Len(commands) < CommandRoom
          /\ commands' = Append(commands, [of |-> request, last |-> client.left = 1])
          /\ client' = IF client.left > 1 \/ client.step = "closing?"
                       THEN [client EXCEPT !.left = @ - 1]
                       ELSE [step |-> "waiting", left |-> 0, got |-> 0]
          /\ UNCHANGED <<request, spoiled, accepted, saved>>
       \/ /\ ~Running /\ UNCHANGED commands
          /\ IF client.step = "sending" THEN Fails
             ELSE ClientAt("killing") /\ UNCHANGED <<request, spoiled, accepted, saved>>
    /\ UNCHANGED <<replies, calls, workerVars>>

(* _receive: header and payload, chunk by chunk.  A payload where a header *)
(* is expected cannot be decoded; a late answer that is whole can.         *)
Receive ==
    /\ client.step = "waiting" /\ replies # <<>>
    /\ replies' = Tail(replies)
    /\ LET chunk == Head(replies) IN
       IF (client.got = 0 /\ ~chunk.first) \/ chunk.answer.op = "ERROR" THEN Fails
       ELSE IF ~chunk.last
       THEN client' = [client EXCEPT !.got = @ + 1] /\ UNCHANGED <<request, spoiled, accepted, saved>>
       ELSE /\ ClientAt("idle")
            /\ accepted' = accepted \cup {<<request, chunk.answer.id>>}
            /\ saved' = saved \cup chunk.answer.scenes
            /\ UNCHANGED <<request, spoiled>>
    /\ UNCHANGED <<commands, calls, workerVars>>

(* Mutant: the request is sent again.                                      *)
GiveUpRetry ==
    /\ client.step = "waiting" /\ replies = <<>> /\ (Failures \/ ~Running)
    /\ client' = [step |-> "sending", left |-> RequestSize(request.op), got |-> 0]
    /\ UNCHANGED <<pipes, request, calls, spoiled, accepted, saved, workerVars>>

(* Nothing to read within the time limit, or the end of the pipe.          *)
GiveUp ==
    /\ client.step = "waiting" /\ replies = <<>> /\ (Failures \/ ~Running)
    /\ Fails
    /\ UNCHANGED <<pipes, calls, workerVars>>

(* close(force=False) asks first.                                          *)
AskToClose ==
    /\ client.step = "idle"
    /\ client' = [step |-> "closing?", left |-> 1, got |-> 0]
    /\ request' = [id |-> 0, op |-> "close"]
    /\ UNCHANGED <<pipes, calls, spoiled, accepted, saved, workerVars>>

(* Any answer will do, for it is not looked at; none forces the close.     *)
HearClosed ==
    /\ client.step = "closing?" /\ client.left = 0
    /\ \/ /\ replies # <<>>
          /\ replies' = Tail(replies)
          /\ LET chunk == Head(replies) IN
             IF (client.got = 0 /\ ~chunk.first) \/ chunk.answer.op = "ERROR"
             THEN ClientAt("killing")
             ELSE IF chunk.last THEN ClientAt("reaping") ELSE client' = [client EXCEPT !.got = @ + 1]
       \/ /\ replies = <<>> /\ (Failures \/ ~Running)
          /\ ClientAt("killing") /\ UNCHANGED replies
    /\ UNCHANGED <<commands, request, calls, spoiled, accepted, saved, workerVars>>

(* __exit__ after an exception: close(force=True).                         *)
ForceClose ==
    /\ client.step = "idle" /\ spoiled
    /\ ClientAt("killing")
    /\ UNCHANGED <<pipes, request, calls, spoiled, accepted, saved, workerVars>>

(* Mutant: the forced close only polls.                                    *)
ReapWithoutKill ==
    /\ \/ client.step = "reaping" /\ worker.step = "zombie"
       \/ client.step = "killing"
    /\ ClientAt("closed")
    /\ worker' = IF worker.step = "zombie" THEN [step |-> "gone", left |-> 0] ELSE worker
    /\ UNCHANGED <<pipes, request, calls, spoiled, accepted, saved,
                   serving, scene, planner, plans, planned, moves>>

(* Mutant: waitpid waits for the worker in every case.                     *)
ReapWaiting ==
    /\ client.step \in {"reaping", "killing"} /\ worker.step = "zombie"
    /\ ClientAt("closed")
    /\ worker' = [step |-> "gone", left |-> 0]
    /\ UNCHANGED <<pipes, request, calls, spoiled, accepted, saved,
                   serving, scene, planner, plans, planned, moves>>

(* waitpid: the worker has exited, or it is killed and waited for.  A bad  *)
(* exit status raises once the handle is closed, which changes nothing.    *)
Reap ==
    /\ \/ client.step = "reaping" /\ worker.step = "zombie"
       \/ client.step = "killing"
    /\ ClientAt("closed")
    /\ worker' = [step |-> "gone", left |-> 0]
    /\ UNCHANGED <<pipes, request, calls, spoiled, accepted, saved,
                   serving, scene, planner, plans, planned, moves>>

-----------------------------------------------------------------------------
(* The worker.                                                             *)

WorkerAt(step, left) == worker' = [step |-> step, left |-> left]
Answer(op, scenes) == [id |-> serving.id, op |-> op, scenes |-> scenes]

(* READY is sent before the first command is read.                         *)
Boot ==
    /\ worker.step = "boot"
    /\ \/ replies' = Append(replies, [answer |-> Answer("READY", {}), first |-> TRUE, last |-> TRUE])
          /\ WorkerAt("idle", 0)
       \/ Failures /\ WorkerAt("failing", 0) /\ UNCHANGED replies
    /\ UNCHANGED <<commands, clientVars, serving, scene, planner, plans, planned, moves>>

(* A command is read to its end; the closed pipe ends the worker.          *)
TakeCommand ==
    /\ worker.step = "idle"
    /\ \/ /\ commands # <<>>
          /\ commands' = Tail(commands)
          /\ serving' = Head(commands).of
          /\ IF Head(commands).last THEN WorkerAt("working", 0) ELSE UNCHANGED worker
       \/ /\ commands = <<>> /\ ~Open
          /\ WorkerAt("failing", 0) /\ UNCHANGED <<commands, serving>>
    /\ UNCHANGED <<replies, clientVars, scene, planner, plans, planned, moves>>

(* The step starts the planner service if there is none yet.               *)
StartPlanner ==
    /\ worker.step = "working" /\ serving.op = "step" /\ planner = "none"
    /\ \/ planner' = "idle" /\ UNCHANGED worker
       \/ Failures /\ WorkerAt("failing", 0) /\ UNCHANGED planner
    /\ UNCHANGED <<pipes, clientVars, serving, scene, plans, planned, moves>>

AskPlanner ==
    /\ worker.step = "working" /\ serving.op = "step" /\ planner = "idle"
    /\ planner' = "planning"
    /\ UNCHANGED <<pipes, clientVars, worker, serving, scene, plans, planned, moves>>

(* The planner's memory: every plan so far, by live joint position (the    *)
(* scene) and target (the action).                                         *)
Remembered(s, a) == {p \in plans : p.scene = s /\ p.action = a}

PlanOf(s, a) == IF Remembered(s, a) = {} THEN planned + 1
                ELSE (CHOOSE p \in Remembered(s, a) : TRUE).plan

(* The planner answers and the physics of the chunk is executed.  A broken *)
(* planner, or an exception under way, fails the request; the native code  *)
(* may also never return.                                                  *)
Step ==
    /\ worker.step = "working" /\ serving.op = "step" /\ planner = "planning"
    /\ LET plan == PlanOf(scene, serving.action)
           after == Append(scene, <<serving.action, plan>>)
       IN \/ /\ planner' = "idle"
             /\ IF plan > planned
                THEN /\ planned' = plan
                     /\ plans' = plans \cup {[scene |-> scene, action |-> serving.action,
                                              plan |-> plan]}
                ELSE UNCHANGED <<plans, planned>>
             /\ scene' = after
             /\ moves' = moves \cup {<<scene, serving.action, after>>}
             /\ WorkerAt("replying", ReplySize("step"))
          \/ /\ Failures
             /\ planner' \in {"idle", "dead"}
             /\ \/ WorkerAt("failing", 0)
                \/ planner' = "idle" /\ WorkerAt("hung", 0)
             /\ UNCHANGED <<scene, plans, planned, moves>>
    /\ UNCHANGED <<pipes, clientVars, serving>>

(* Mutant: the scene is restored and the planner reset.                    *)
ServeReset ==
    /\ worker.step = "working" /\ serving.op \in {"snapshot", "restore"}
    /\ scene' = IF serving.op = "restore" THEN serving.scene ELSE scene
    /\ plans' = IF serving.op = "restore" THEN {} ELSE plans
    /\ WorkerAt("replying", ReplySize(serving.op))
    /\ UNCHANGED <<pipes, clientVars, serving, planner, planned, moves>>

(* snapshot reads, restore replaces the scene; the planner keeps its cache. *)
Serve ==
    /\ worker.step = "working" /\ serving.op \in {"snapshot", "restore"}
    /\ scene' = IF serving.op = "restore" THEN serving.scene ELSE scene
    /\ WorkerAt("replying", ReplySize(serving.op))
    /\ UNCHANGED <<pipes, clientVars, serving, planner, plans, planned, moves>>

Reply ==
    /\ worker.step = "replying"
    /\ \/ /\ Open /\ Len(replies) < PipeSize
          /\ replies' = Append(replies,
                [answer |-> Answer("PASS", IF serving.op = "restore" THEN {} ELSE {scene}),
                 first |-> worker.left = ReplySize(serving.op), last |-> worker.left = 1])
          /\ IF worker.left = 1 THEN WorkerAt("idle", 0) ELSE WorkerAt("replying", worker.left - 1)
       \/ ~Open /\ WorkerAt("failing", 0) /\ UNCHANGED replies
    /\ UNCHANGED <<commands, clientVars, serving, scene, planner, plans, planned, moves>>

(* CLOSED is sent first; then the planner is told to exit and joined.      *)
Close ==
    /\ worker.step = "working" /\ serving.op = "close"
    /\ \/ /\ Open /\ Len(replies) < PipeSize
          /\ replies' = Append(replies, [answer |-> Answer("CLOSED", {}), first |-> TRUE, last |-> TRUE])
          /\ WorkerAt("shutdown", 0)
       \/ ~Open /\ WorkerAt("failing", 0) /\ UNCHANGED replies
    /\ UNCHANGED <<commands, clientVars, serving, scene, planner, plans, planned, moves>>

Shutdown ==
    /\ worker.step = "shutdown"
    /\ planner' = IF planner = "none" THEN "none" ELSE "dead"
    /\ WorkerAt("zombie", 0)
    /\ UNCHANGED <<pipes, clientVars, serving, scene, plans, planned, moves>>

(* Any exception: ERROR if it can still be sent, then os._exit(1).         *)
Fail ==
    /\ worker.step = "failing"
    /\ IF Open
       THEN /\ Len(replies) < PipeSize
            /\ replies' = Append(replies, [answer |-> Answer("ERROR", {}), first |-> TRUE, last |-> TRUE])
       ELSE UNCHANGED replies
    /\ WorkerAt("zombie", 0)
    /\ UNCHANGED <<commands, clientVars, serving, scene, planner, plans, planned, moves>>

(* A native crash of the worker.                                           *)
Die ==
    /\ Failures /\ Running
    /\ WorkerAt("zombie", 0)
    /\ UNCHANGED <<pipes, clientVars, serving, scene, planner, plans, planned, moves>>

(* Mutant: a planner at work does not notice.                              *)
PlannerEndsIdle ==
    /\ ~Running /\ planner = "idle"
    /\ planner' = "dead"
    /\ UNCHANGED <<pipes, clientVars, worker, serving, scene, plans, planned, moves>>

(* A planner whose worker is gone meets the end of its pipe.               *)
PlannerEnds ==
    /\ ~Running /\ planner \in {"idle", "planning"}
    /\ planner' = "dead"
    /\ UNCHANGED <<pipes, clientVars, worker, serving, scene, plans, planned, moves>>

-----------------------------------------------------------------------------
(* The handle is closed for good.                                          *)
Done == client.step \in {"closed", "raised"} /\ UNCHANGED vars

ClientMoves ==
    BecomeReady \/ Send \/ Receive \/ GiveUp \/ HearClosed \/ Reap
WorkerMoves ==
    \/ Boot \/ TakeCommand \/ StartPlanner \/ AskPlanner \/ Step \/ Serve \/ Reply
    \/ Close \/ Shutdown \/ Fail
Next ==
    \/ ClientMoves \/ Call \/ AskToClose \/ ForceClose
    \/ WorkerMoves \/ Die \/ PlannerEnds \/ Done

Spec == Init /\ [][Next]_vars

(* Both processes run on; a call that was made goes on; a native step and  *)
(* a plan end.  Nobody has to call, to close, or to fail.                  *)
Fairness == WF_vars(ClientMoves) /\ WF_vars(WorkerMoves) /\ WF_vars(PlannerEnds)
FairSpec == Spec /\ Fairness

-----------------------------------------------------------------------------
(* Properties.                                                             *)

(* Without request ids: as long as no call of the handle has failed, every *)
(* answer it returned is the answer to the request it made.                *)
AnswersMatch == ~spoiled => \A a \in accepted : a[1].id = a[2]

(* Restoring a scene and repeating an action repeats the motion exactly,   *)
(* whatever was done in between: paired arms share one worker.             *)
StepsRepeat ==
    \A m, n \in moves : m[1] = n[1] /\ m[2] = n[2] => m[3] = n[3]

(* A handle that is closed has left no worker process behind.              *)
ClosedIsGone == client.step = "closed" => worker.step = "gone"

(* What a handle returns is the answer to what it asked, a closed one has  *)
(* left no worker behind, and a step repeated from a snapshot repeats.     *)
WorkersFaithful == TypeOK /\ AnswersMatch /\ ClosedIsGone /\ StepsRepeat

(* A close ends, stuck or dead worker or not: a forced one always, an      *)
(* ordinary one if no call of the handle has failed before it.             *)
CloseEnds ==
    /\ client.step = "killing" ~> client.step = "closed"
    /\ client.step \in {"closing?", "reaping"} /\ ~spoiled ~> client.step = "closed"

(* On a handle none of whose calls failed, every call returns.             *)
CallsReturn == client.step \in {"sending", "waiting"} /\ ~spoiled ~> client.step = "idle"

(* Planner processes do not outlive the worker they serve.                 *)
PlannersEnd == planner # "none" /\ ~Running ~> planner = "dead"
=============================================================================
