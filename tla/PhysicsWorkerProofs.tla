------------------------- MODULE PhysicsWorkerProofs -------------------------
(***************************************************************************)
(* Safety of PhysicsWorker for every number of calls, every size of the    *)
(* two pipes, and every set of actions, with and without failures; and,    *)
(* further down, safety of LiveEpisode, the runner that drives a worker    *)
(* for every arm, for every list of arms, every number of chunks, frames   *)
(* and controls, and with every option.                                    *)
(***************************************************************************)
EXTENDS PhysicsWorker, ArmEpisodes, TLAPS

-----------------------------------------------------------------------------
(* The inductive invariant.                                                *)

Scenes == Seq(Actions \X Nat)
Asked ==
    [id : Nat, op : {"step"}, action : Actions] \cup [id : Nat, op : {"snapshot"}]
    \cup [id : Nat, op : {"restore"}, scene : Scenes]
Served == Asked \cup [id : Nat, op : {"none", "close"}]
Commands == [of : Served, last : BOOLEAN]
Replies ==
    [answer : [id : Nat, op : {"READY", "PASS", "CLOSED", "ERROR"}, scenes : SUBSET Scenes],
     first : BOOLEAN, last : BOOLEAN]
ClientSteps ==
    {"ready?", "idle", "sending", "waiting", "closing?", "reaping", "killing", "closed",
     "raised"}
WorkerSteps ==
    {"boot", "idle", "reading", "working", "replying", "failing", "hung", "shutdown",
     "zombie", "gone"}

(* Types, as far as the steps of both processes keep them.                 *)
PipesTyped == commands \in Seq(Commands) /\ replies \in Seq(Replies)
ClientTyped ==
    /\ client \in [step : ClientSteps, left : 0 .. CommandRoom + 1, got : Nat]
    /\ request \in Served
    /\ client.step \in {"sending", "waiting"} => request \in Asked
    /\ calls \in 0 .. MaxCalls /\ spoiled \in BOOLEAN
    /\ saved \subseteq Scenes
WorkerTyped ==
    /\ worker \in [step : WorkerSteps, left : Nat]
    /\ worker.step = "replying" => worker.left > 0
    /\ serving \in Served /\ scene \in Scenes
    /\ planner \in {"none", "idle", "planning", "dead"}
    /\ planned \in Nat
    /\ plans \subseteq [scene : Scenes, action : Actions, plan : Nat]
    /\ moves \subseteq Scenes \X Actions \X Scenes
Typed == PipesTyped /\ ClientTyped /\ WorkerTyped

(* Neither pipe holds more than it has room for: nothing is in the         *)
(* response pipe before the worker has written to it.                      *)
PipesInRoom ==
    /\ Len(commands) <= CommandRoom /\ Len(replies) <= PipeSize
    /\ worker.step = "boot" => replies = <<>>

(* The planner's memory is a function of scene and action, and every       *)
(* motion was made by the plan it remembers for its scene and action.      *)
OnePlanEach ==
    /\ \A p \in plans : p.plan <= planned
    /\ \A p, q \in plans : p.scene = q.scene /\ p.action = q.action => p = q
    /\ \A m \in moves : \E p \in plans :
          p.scene = m[1] /\ p.action = m[2] /\ m[3] = Append(m[1], <<m[2], p.plan>>)

(* While no call of the handle has failed, the pipes hold nothing but the  *)
(* current request and its answer, one or the other:                       *)
(* before READY the worker has not been asked anything;                    *)
BeforeReady ==
    /\ commands = <<>> /\ Len(replies) <= 1
    /\ worker.step \in {"boot", "idle", "failing", "zombie"}
    /\ worker.step \in {"boot", "failing"} => replies = <<>>
(* between two calls both pipes are empty;                                 *)
BetweenCalls ==
    /\ commands = <<>> /\ replies = <<>>
    /\ worker.step \in {"idle", "zombie"}
(* a request is sent to a worker that waits for it;                        *)
InRequest ==
    /\ replies = <<>> /\ client.left > 0
    /\ worker.step \in {"idle", "zombie"}
    /\ \A i \in DOMAIN commands : commands[i].of = request /\ ~commands[i].last
(* and it is answered once it has been read to its end.                    *)
InAnswer ==
    /\ \A i \in DOMAIN commands :
          commands[i].of = request /\ (commands[i].last => i = Len(commands))
    /\ worker.step \in {"idle", "working", "replying", "failing", "hung", "zombie"}
    /\ worker.step \notin {"idle", "zombie"} => serving = request /\ commands = <<>>
    /\ replies # <<>> => commands = <<>>
    /\ \A i \in DOMAIN replies :
          /\ replies[i].answer.id = request.id
          /\ replies[i].last => i = Len(replies) /\ worker.step \in {"idle", "zombie"}

OneConversation ==
    ~spoiled =>
       /\ client.step = "ready?" => BeforeReady
       /\ client.step = "idle" => BetweenCalls
       /\ client.step = "sending" => InRequest
       /\ client.step = "waiting" => InAnswer

HandleInv ==
    /\ Typed /\ PipesInRoom /\ OnePlanEach
    /\ OneConversation /\ AnswersMatch /\ ClosedIsGone

-----------------------------------------------------------------------------
(* Types.                                                                  *)

(* Requests by their operation.                                            *)
LEMMA RequestFacts ==
    /\ Asked \subseteq Served
    /\ \A r \in Served : r.id \in Nat
    /\ \A r \in Served : r.op = "step" => r.action \in Actions
    /\ \A r \in Served : r.op = "restore" => r.scene \in Scenes
    /\ \A r \in Asked : r.op \in {"step", "snapshot", "restore"}
BY DEF Asked, Served

(* Sizes of requests and answers are positive and fit what counts them.    *)
LEMMA SizeFacts ==
    /\ \A op : ReplySize(op) \in Nat /\ ReplySize(op) > 0
    /\ \A op : RequestSize(op) \in 1 .. CommandRoom + 1
BY WorkerAssumption DEF ReplySize, RequestSize

(* Taking the head of a sequence leaves one of the same kind.              *)
LEMMA TailFacts ==
    ASSUME NEW S, NEW s \in Seq(S), s # <<>>
    PROVE  /\ Head(s) \in S /\ Head(s) = s[1] /\ 1 \in DOMAIN s
           /\ Tail(s) \in Seq(S) /\ Len(Tail(s)) = Len(s) - 1
           /\ \A i \in DOMAIN Tail(s) : i + 1 \in DOMAIN s /\ Tail(s)[i] = s[i + 1]
OBVIOUS

(* Appending to a sequence adds one element at its end.                    *)
LEMMA AppendFacts ==
    ASSUME NEW S, NEW s \in Seq(S), NEW e \in S
    PROVE  /\ Append(s, e) \in Seq(S) /\ Len(Append(s, e)) = Len(s) + 1
           /\ Append(s, e) # <<>>
           /\ Append(s, e)[Len(s) + 1] = e
           /\ \A i \in DOMAIN Append(s, e) :
                 \/ i \in DOMAIN s /\ Append(s, e)[i] = s[i]
                 \/ i = Len(s) + 1
OBVIOUS

(* A fresh handle has the right types.                                     *)
LEMMA InitTyped == Init => Typed
<1> SUFFICES ASSUME Init PROVE Typed
  OBVIOUS
<1>1. NoRequest \in Served
  BY DEF NoRequest, Served
<1>2. PipesTyped
  BY DEF Init, PipesTyped
<1>3. ClientTyped
  <2>1. client \in [step : ClientSteps, left : 0 .. CommandRoom + 1, got : Nat]
    BY WorkerAssumption DEF Init, ClientSteps
  <2>2. client.step = "ready?" /\ calls \in 0 .. MaxCalls
    BY WorkerAssumption DEF Init
  <2>3. QED
    BY <1>1, <2>1, <2>2 DEF Init, ClientTyped
<1>4. WorkerTyped
  <2>1. worker \in [step : WorkerSteps, left : Nat] /\ worker.step = "boot"
    BY DEF Init, WorkerSteps
  <2>2. scene \in Scenes
    BY DEF Init, Scenes
  <2>3. QED
    BY <1>1, <2>1, <2>2 DEF Init, WorkerTyped
<1>5. QED
  BY <1>2, <1>3, <1>4 DEF Typed

(* What ClientAt and WorkerAt set.                                         *)
LEMMA ClientAtTyped ==
    ASSUME NEW step \in ClientSteps, ClientAt(step)
    PROVE  /\ client' \in [step : ClientSteps, left : 0 .. CommandRoom + 1, got : Nat]
           /\ client'.step = step
BY WorkerAssumption DEF ClientAt

(* Where a step of the worker leaves it.                                   *)
LEMMA WorkerAtTyped ==
    ASSUME NEW step \in WorkerSteps, NEW left \in Nat, WorkerAt(step, left)
    PROVE  /\ worker' \in [step : WorkerSteps, left : Nat]
           /\ worker'.step = step /\ worker'.left = left
BY DEF WorkerAt

(* A failed call leaves the client with the types it had.                  *)
LEMMA FailsTyped ==
    ASSUME ClientTyped, Fails, calls' = calls
    PROVE  ClientTyped' /\ client'.step = "idle" /\ spoiled' = TRUE
<1>1. "idle" \in ClientSteps
  BY DEF ClientSteps
<1>2. QED
  BY <1>1, ClientAtTyped DEF Fails, ClientTyped

(* A chunk the worker adds to the response pipe.                           *)
LEMMA ReplyTyped ==
    ASSUME WorkerTyped, PipesTyped,
           NEW op \in {"READY", "PASS", "CLOSED", "ERROR"}, NEW scenes \in SUBSET Scenes,
           NEW f \in BOOLEAN, NEW l \in BOOLEAN
    PROVE  /\ [answer |-> Answer(op, scenes), first |-> f, last |-> l] \in Replies
           /\ Append(replies, [answer |-> Answer(op, scenes), first |-> f, last |-> l])
                 \in Seq(Replies)
<1>1. serving.id \in Nat
  BY RequestFacts DEF WorkerTyped
<1>2. [answer |-> Answer(op, scenes), first |-> f, last |-> l] \in Replies
  BY <1>1 DEF Replies, Answer
<1>3. QED
  BY <1>2, AppendFacts DEF PipesTyped

(* Types are preserved: the client's steps.                                *)
LEMMA ClientMoveTyped ==
    ASSUME Typed, ClientMoves \/ Call \/ AskToClose \/ ForceClose
    PROVE  Typed'
<1> USE DEF Typed
<1>1. CASE BecomeReady
  <2>1. PipesTyped'
    BY <1>1, TailFacts DEF BecomeReady, PipesTyped
  <2>2. ClientTyped'
    <3>1. PICK step \in {"idle", "raised"} : ClientAt(step)
      BY <1>1 DEF BecomeReady
    <3>2. step \in ClientSteps
      BY DEF ClientSteps
    <3>3. QED
      BY <1>1, <3>1, <3>2, ClientAtTyped DEF BecomeReady, ClientTyped
  <2>3. WorkerTyped'
    BY <1>1 DEF BecomeReady, workerVars, WorkerTyped
  <2>4. QED
    BY <2>1, <2>2, <2>3
<1>2. CASE Send
  <2>1. PipesTyped'
    <3>1. [of |-> request, last |-> client.left = 1] \in Commands
      BY DEF ClientTyped, Commands
    <3>2. QED
      BY <1>2, <3>1, AppendFacts DEF Send, PipesTyped
  <2>2. ClientTyped'
    <3>1. CASE Running
      <4>1. client' \in [step : ClientSteps, left : 0 .. CommandRoom + 1, got : Nat]
        BY <1>2, <3>1, WorkerAssumption DEF Send, ClientTyped, ClientSteps
      <4>2. client'.step \in {"sending", "waiting"} => client.step = "sending"
        BY <1>2, <3>1 DEF Send, ClientTyped
      <4>3. QED
        BY <1>2, <3>1, <4>1, <4>2 DEF Send, ClientTyped
    <3>2. CASE ~Running /\ client.step = "sending"
      BY <1>2, <3>2, FailsTyped DEF Send
    <3>3. CASE ~Running /\ client.step # "sending"
      <4>1. "killing" \in ClientSteps
        BY DEF ClientSteps
      <4>2. QED
        BY <1>2, <3>3, <4>1, ClientAtTyped DEF Send, ClientTyped
    <3>4. QED
      BY <3>1, <3>2, <3>3
  <2>3. WorkerTyped'
    BY <1>2 DEF Send, workerVars, WorkerTyped
  <2>4. QED
    BY <2>1, <2>2, <2>3
<1>3. CASE Receive
  <2> DEFINE piece == Head(replies)
  <2>1. PipesTyped'
    BY <1>3, TailFacts DEF Receive, PipesTyped
  <2>2. ClientTyped'
    <3>1. CASE Fails
      BY <1>3, <3>1, FailsTyped DEF Receive
    <3>2. CASE /\ client' = [client EXCEPT !.got = @ + 1]
               /\ UNCHANGED <<request, spoiled, accepted, saved>>
      BY <1>3, <3>2 DEF Receive, ClientTyped
    <3>3. CASE /\ ClientAt("idle") /\ saved' = saved \cup piece.answer.scenes
               /\ UNCHANGED <<request, spoiled>>
      <4>1. piece.answer.scenes \subseteq Scenes
        <5>1. piece \in Replies
          BY <1>3, TailFacts DEF Receive, PipesTyped
        <5>2. QED
          BY <5>1 DEF Replies
      <4>2. "idle" \in ClientSteps
        BY DEF ClientSteps
      <4>3. QED
        BY <1>3, <3>3, <4>1, <4>2, ClientAtTyped DEF Receive, ClientTyped
    <3>4. QED
      BY <1>3, <3>1, <3>2, <3>3 DEF Receive
  <2>3. WorkerTyped'
    BY <1>3 DEF Receive, workerVars, WorkerTyped
  <2>4. QED
    BY <2>1, <2>2, <2>3
<1>4. CASE GiveUp
  <2>1. ClientTyped'
    BY <1>4, FailsTyped DEF GiveUp
  <2>2. QED
    BY <1>4, <2>1 DEF GiveUp, pipes, workerVars, PipesTyped, WorkerTyped
<1>5. CASE HearClosed
  <2>1. PipesTyped'
    BY <1>5, TailFacts DEF HearClosed, PipesTyped
  <2>2. client' \in [step : ClientSteps, left : 0 .. CommandRoom + 1, got : Nat]
        /\ client'.step \notin {"sending", "waiting"}
    <3>1. CASE client' = [client EXCEPT !.got = @ + 1]
      BY <1>5, <3>1 DEF HearClosed, ClientTyped
    <3>2. CASE \E step \in {"killing", "reaping"} : ClientAt(step)
      <4>1. "killing" \in ClientSteps /\ "reaping" \in ClientSteps
        BY DEF ClientSteps
      <4>2. QED
        BY <3>2, <4>1, ClientAtTyped
    <3>3. QED
      BY <1>5, <3>1, <3>2 DEF HearClosed
  <2>3. ClientTyped'
    BY <1>5, <2>2 DEF HearClosed, ClientTyped
  <2>4. WorkerTyped'
    BY <1>5 DEF HearClosed, workerVars, WorkerTyped
  <2>5. QED
    BY <2>1, <2>3, <2>4
<1>6. CASE Reap
  <2>1. "closed" \in ClientSteps /\ "gone" \in WorkerSteps
    BY DEF ClientSteps, WorkerSteps
  <2>2. ClientTyped'
    BY <1>6, <2>1, ClientAtTyped DEF Reap, ClientTyped
  <2>3. WorkerTyped'
    BY <1>6, <2>1 DEF Reap, WorkerTyped
  <2>4. QED
    BY <1>6, <2>2, <2>3 DEF Reap, pipes, PipesTyped
<1>7. CASE Call
  <2>1. request' \in Asked
    <3>1. calls + 1 \in Nat /\ saved \subseteq Scenes
      BY WorkerAssumption DEF ClientTyped
    <3>2. QED
      BY <1>7, <3>1 DEF Call, Requests, Asked
  <2>2. client' \in [step : ClientSteps, left : 0 .. CommandRoom + 1, got : Nat]
    BY <1>7, SizeFacts, WorkerAssumption DEF Call, ClientSteps
  <2>3. ClientTyped'
    BY <1>7, <2>1, <2>2, RequestFacts, WorkerAssumption DEF Call, ClientTyped
  <2>4. QED
    BY <1>7, <2>3 DEF Call, pipes, workerVars, PipesTyped, WorkerTyped
<1>8. CASE AskToClose
  <2>1. request' \in Served
    BY <1>8 DEF AskToClose, Served
  <2>2. /\ client' \in [step : ClientSteps, left : 0 .. CommandRoom + 1, got : Nat]
        /\ client'.step = "closing?"
    BY <1>8, WorkerAssumption DEF AskToClose, ClientSteps
  <2>3. ClientTyped'
    BY <1>8, <2>1, <2>2 DEF AskToClose, ClientTyped
  <2>4. QED
    BY <1>8, <2>3 DEF AskToClose, pipes, workerVars, PipesTyped, WorkerTyped
<1>9. CASE ForceClose
  <2>1. "killing" \in ClientSteps
    BY DEF ClientSteps
  <2>2. ClientTyped'
    BY <1>9, <2>1, ClientAtTyped DEF ForceClose, ClientTyped
  <2>3. QED
    BY <1>9, <2>2 DEF ForceClose, pipes, workerVars, PipesTyped, WorkerTyped
<1>10. QED
  BY <1>1, <1>2, <1>3, <1>4, <1>5, <1>6, <1>7, <1>8, <1>9 DEF ClientMoves

(* Types are preserved: the worker's and the planner's steps.              *)
LEMMA WorkerMoveTyped ==
    ASSUME Typed, WorkerMoves \/ Die \/ PlannerEnds
    PROVE  Typed'
<1> USE DEF Typed
<1> WorkerSteps = {"boot", "idle", "reading", "working", "replying", "failing", "hung",
                   "shutdown", "zombie", "gone"}
  BY DEF WorkerSteps
<1>0. ASSUME UNCHANGED clientVars PROVE ClientTyped'
  BY <1>0 DEF clientVars, ClientTyped
<1>1. CASE Boot
  <2>1. PipesTyped'
    BY <1>1, ReplyTyped DEF Boot, PipesTyped
  <2>2. WorkerTyped'
    <3>1. WorkerAt("idle", 0) \/ WorkerAt("failing", 0)
      BY <1>1 DEF Boot
    <3>2. QED
      BY <1>1, <3>1, WorkerAtTyped DEF Boot, WorkerTyped
  <2>3. QED
    BY <1>0, <1>1, <2>1, <2>2 DEF Boot
<1>2. CASE TakeCommand
  <2>1. PipesTyped'
    BY <1>2, TailFacts DEF TakeCommand, PipesTyped
  <2>2. serving' \in Served
    <3>1. CASE commands # <<>>
      <4>1. Head(commands) \in Commands
        BY <3>1, TailFacts DEF PipesTyped
      <4>2. QED
        BY <1>2, <3>1, <4>1 DEF TakeCommand, Commands
    <3>2. CASE commands = <<>>
      BY <1>2, <3>2 DEF TakeCommand, WorkerTyped
    <3>3. QED
      BY <3>1, <3>2
  <2>3. /\ worker' \in [step : WorkerSteps, left : Nat]
        /\ worker'.step # "replying"
    <3>1. WorkerAt("working", 0) \/ WorkerAt("failing", 0) \/ UNCHANGED worker
      BY <1>2 DEF TakeCommand
    <3>2. QED
      BY <1>2, <3>1, WorkerAtTyped DEF TakeCommand, WorkerTyped
  <2>4. WorkerTyped'
    BY <1>2, <2>2, <2>3 DEF TakeCommand, WorkerTyped
  <2>5. QED
    BY <1>0, <1>2, <2>1, <2>4 DEF TakeCommand
<1>3. CASE StartPlanner
  <2>1. WorkerTyped'
    <3>1. WorkerAt("failing", 0) \/ UNCHANGED worker
      BY <1>3 DEF StartPlanner
    <3>2. QED
      BY <1>3, <3>1, WorkerAtTyped DEF StartPlanner, WorkerTyped
  <2>2. QED
    BY <1>0, <1>3, <2>1 DEF StartPlanner, pipes, PipesTyped
<1>4. CASE AskPlanner
  BY <1>0, <1>4 DEF AskPlanner, pipes, PipesTyped, WorkerTyped
<1>5. CASE Step
  <2> DEFINE made == PlanOf(scene, serving.action)
             after == Append(scene, <<serving.action, made>>)
  <2>1. serving.action \in Actions
    BY <1>5, RequestFacts DEF Step, WorkerTyped
  <2>2. made \in Nat
    <3>1. CASE Remembered(scene, serving.action) = {}
      BY <3>1 DEF PlanOf, WorkerTyped
    <3>2. CASE Remembered(scene, serving.action) # {}
      BY <3>2 DEF PlanOf, Remembered, WorkerTyped
    <3>3. QED
      BY <3>1, <3>2
  <2>3. after \in Scenes
    BY <2>1, <2>2 DEF WorkerTyped, Scenes
  <2>4. /\ plans' \subseteq [scene : Scenes, action : Actions, plan : Nat]
        /\ planned' \in Nat
        /\ scene' \in Scenes /\ moves' \subseteq Scenes \X Actions \X Scenes
    <3> HIDE DEF made, after
    <3>1. CASE scene' = after
      <4>1. moves' = moves \cup {<<scene, serving.action, after>>}
        BY <1>5, <3>1 DEF Step, made, after
      <4>2. \/ /\ planned' = made
               /\ plans' = plans \cup {[scene |-> scene, action |-> serving.action,
                                        plan |-> made]}
            \/ UNCHANGED <<plans, planned>>
        BY <1>5 DEF Step, made, after
      <4>3. QED
        BY <2>1, <2>2, <2>3, <3>1, <4>1, <4>2 DEF WorkerTyped
    <3>2. CASE UNCHANGED <<scene, plans, planned, moves>>
      BY <3>2 DEF WorkerTyped
    <3>3. QED
      BY <1>5, <3>1, <3>2 DEF Step, made, after
  <2>5. /\ worker' \in [step : WorkerSteps, left : Nat]
        /\ worker'.step = "replying" => worker'.left > 0
    <3>1. \/ WorkerAt("replying", ReplySize("step")) \/ WorkerAt("failing", 0)
          \/ WorkerAt("hung", 0)
      BY <1>5 DEF Step
    <3>2. QED
      BY <3>1, WorkerAtTyped, SizeFacts
  <2>6. planner' \in {"none", "idle", "planning", "dead"}
    BY <1>5 DEF Step
  <2>7. WorkerTyped'
    BY <1>5, <2>4, <2>5, <2>6 DEF Step, WorkerTyped
  <2>8. QED
    BY <1>0, <1>5, <2>7 DEF Step, pipes, PipesTyped
<1>6. CASE Serve
  <2>1. scene' \in Scenes
    BY <1>6, RequestFacts DEF Serve, WorkerTyped
  <2>2. /\ worker' \in [step : WorkerSteps, left : Nat]
        /\ worker'.left > 0
    BY <1>6, WorkerAtTyped, SizeFacts DEF Serve
  <2>3. WorkerTyped'
    BY <1>6, <2>1, <2>2 DEF Serve, WorkerTyped
  <2>4. QED
    BY <1>0, <1>6, <2>3 DEF Serve, pipes, PipesTyped
<1>7. CASE Reply
  <2>1. PipesTyped'
    <3>1. {} \in SUBSET Scenes /\ {scene} \in SUBSET Scenes
      BY DEF WorkerTyped
    <3>2. QED
      BY <1>7, <3>1, ReplyTyped DEF Reply, PipesTyped
  <2>2. /\ worker' \in [step : WorkerSteps, left : Nat]
        /\ worker'.step = "replying" => worker'.left > 0
    <3>1. worker.left \in Nat /\ worker.left > 0
      BY <1>7 DEF Reply, WorkerTyped
    <3>2. \/ WorkerAt("idle", 0) \/ WorkerAt("failing", 0)
          \/ worker.left # 1 /\ WorkerAt("replying", worker.left - 1)
      BY <1>7 DEF Reply
    <3>3. QED
      BY <3>1, <3>2, WorkerAtTyped
  <2>3. WorkerTyped'
    BY <1>7, <2>2 DEF Reply, WorkerTyped
  <2>4. QED
    BY <1>0, <1>7, <2>1, <2>3 DEF Reply
<1>8. CASE Close
  <2>1. PipesTyped'
    BY <1>8, ReplyTyped DEF Close, PipesTyped
  <2>2. WorkerTyped'
    <3>1. WorkerAt("shutdown", 0) \/ WorkerAt("failing", 0)
      BY <1>8 DEF Close
    <3>2. QED
      BY <1>8, <3>1, WorkerAtTyped DEF Close, WorkerTyped
  <2>3. QED
    BY <1>0, <1>8, <2>1, <2>2 DEF Close
<1>9. CASE Shutdown
  <2>1. WorkerTyped'
    BY <1>9, WorkerAtTyped DEF Shutdown, WorkerTyped
  <2>2. QED
    BY <1>0, <1>9, <2>1 DEF Shutdown, pipes, PipesTyped
<1>10. CASE Fail
  <2>1. PipesTyped'
    BY <1>10, ReplyTyped DEF Fail, PipesTyped
  <2>2. WorkerTyped'
    BY <1>10, WorkerAtTyped DEF Fail, WorkerTyped
  <2>3. QED
    BY <1>0, <1>10, <2>1, <2>2 DEF Fail
<1>11. CASE Die
  <2>1. WorkerTyped'
    BY <1>11, WorkerAtTyped DEF Die, WorkerTyped
  <2>2. QED
    BY <1>0, <1>11, <2>1 DEF Die, pipes, PipesTyped
<1>12. CASE PlannerEnds
  BY <1>0, <1>12 DEF PlannerEnds, pipes, PipesTyped, WorkerTyped
<1>13. QED
  BY <1>1, <1>2, <1>3, <1>4, <1>5, <1>6, <1>7, <1>8, <1>9, <1>10, <1>11, <1>12 DEF WorkerMoves

(* Every step keeps the types.                                             *)
LEMMA NextTyped == Typed /\ [Next]_vars => Typed'
<1> SUFFICES ASSUME Typed, [Next]_vars PROVE Typed'
  OBVIOUS
<1>1. CASE UNCHANGED vars
  BY <1>1 DEF vars, pipes, clientVars, workerVars, Typed, PipesTyped, ClientTyped, WorkerTyped
<1>2. QED
  BY <1>1, ClientMoveTyped, WorkerMoveTyped DEF Next, Done

-----------------------------------------------------------------------------
(* The pipes.                                                              *)

(* The steps that add to a pipe find room in it; all others leave it or    *)
(* take its head.                                                          *)
LEMMA NextPipesInRoom == Typed /\ PipesInRoom /\ [Next]_vars => PipesInRoom'
<1> SUFFICES ASSUME Typed, PipesInRoom, [Next]_vars PROVE PipesInRoom'
  OBVIOUS
<1> USE DEF Typed, PipesTyped, PipesInRoom
<1>1. Len(commands') <= CommandRoom
  <2>1. CASE commands' = commands
    BY <2>1
  <2>2. CASE Send /\ Len(commands) < CommandRoom
    <3>1. [of |-> request, last |-> client.left = 1] \in Commands
      BY DEF ClientTyped, Commands
    <3>2. Len(Append(commands, [of |-> request, last |-> client.left = 1])) = Len(commands) + 1
      BY <3>1, AppendFacts
    <3>3. QED
      BY <2>2, <3>2, WorkerAssumption DEF Send
  <2>3. CASE commands # <<>> /\ commands' = Tail(commands)
    BY <2>3, TailFacts, WorkerAssumption
  <2>4. QED
    BY <2>1, <2>2, <2>3 DEF Next, ClientMoves, WorkerMoves, vars, pipes, BecomeReady, Send, Receive,
       GiveUp, HearClosed, Reap, Call, AskToClose, ForceClose, Boot, TakeCommand, StartPlanner,
       AskPlanner, Step, Serve, Reply, Close, Shutdown, Fail, Die, PlannerEnds, Done
<1>2. Len(replies') <= PipeSize
  <2>1. CASE replies' = replies
    BY <2>1
  <2>2. CASE replies # <<>> /\ replies' = Tail(replies)
    BY <2>2, TailFacts, WorkerAssumption
  <2>3. CASE \E e \in Replies : Len(replies) < PipeSize /\ replies' = Append(replies, e)
    BY <2>3, AppendFacts, WorkerAssumption
  <2>4. CASE Boot
    <3>1. replies = <<>> /\ Len(replies) = 0
      BY <2>4 DEF Boot
    <3>2. 0 < PipeSize
      BY WorkerAssumption
    <3>3. replies' = replies \/ \E e \in Replies : replies' = Append(replies, e)
      BY <2>4, ReplyTyped DEF Boot
    <3>4. QED
      BY <2>1, <2>3, <3>1, <3>2, <3>3
  <2>5. CASE Reply \/ Close \/ Fail
    <3>1. {} \in SUBSET Scenes /\ {scene} \in SUBSET Scenes
      BY DEF WorkerTyped
    <3>2. \/ replies' = replies
          \/ \E e \in Replies : Len(replies) < PipeSize /\ replies' = Append(replies, e)
      <4>1. CASE Reply
        BY <3>1, <4>1, ReplyTyped DEF Reply
      <4>2. CASE Close
        BY <3>1, <4>2, ReplyTyped DEF Close
      <4>3. CASE Fail
        BY <3>1, <4>3, ReplyTyped DEF Fail
      <4>4. QED
        BY <2>5, <4>1, <4>2, <4>3
    <3>3. QED
      BY <2>1, <2>3, <3>2
  <2>6. QED
    BY <2>1, <2>2, <2>4, <2>5 DEF Next, ClientMoves, WorkerMoves, vars, pipes, BecomeReady, Send,
       Receive, GiveUp, HearClosed, Reap, Call, AskToClose, ForceClose, TakeCommand, StartPlanner,
       AskPlanner, Step, Serve, Shutdown, Die, PlannerEnds, Done
<1>3. worker'.step = "boot" => replies' = <<>>
  <2>1. worker'.step = "boot" => worker.step = "boot"
    BY DEF Next, ClientMoves, WorkerMoves, vars, workerVars, BecomeReady, Send, Receive,
       GiveUp, HearClosed, Reap, Call, AskToClose, ForceClose, Boot, TakeCommand, StartPlanner,
       AskPlanner, Step, Serve, Reply, Close, Shutdown, Fail, Die, PlannerEnds, Done, WorkerAt
  <2>2. worker.step = "boot" /\ worker'.step = "boot" /\ replies = <<>> => replies' = replies
    BY DEF Next, ClientMoves, WorkerMoves, vars, pipes, workerVars, BecomeReady, Send, Receive,
       GiveUp, HearClosed, Reap, Call, AskToClose, ForceClose, Boot, TakeCommand, StartPlanner,
       AskPlanner, Step, Serve, Reply, Close, Shutdown, Fail, Die, PlannerEnds, Done, WorkerAt
  <2>3. QED
    BY <2>1, <2>2
<1>4. QED
  BY <1>1, <1>2, <1>3

(* A fresh handle.                                                         *)
LEMMA InitPipesInRoom == Init => PipesInRoom
BY WorkerAssumption DEF Init, PipesInRoom

-----------------------------------------------------------------------------
(* The planner's memory.                                                   *)

LEMMA InitOnePlanEach == Init => OnePlanEach
BY DEF Init, OnePlanEach

(* Only Step changes what it speaks of: it makes a plan where none is      *)
(* remembered, and follows the one that is.                                *)
LEMMA StepOnePlanEach ==
    ASSUME Typed, OnePlanEach, Step
    PROVE  OnePlanEach'
<1> DEFINE action == serving.action
           made == PlanOf(scene, action)
           new == [scene |-> scene, action |-> action, plan |-> made]
           move == <<scene, action, Append(scene, <<action, made>>)>>
<1> planned \in Nat /\ plans \subseteq [scene : Scenes, action : Actions, plan : Nat]
  BY DEF Typed, WorkerTyped
<1>1. CASE UNCHANGED <<plans, planned, moves>>
  BY <1>1 DEF OnePlanEach
<1>2. CASE ~UNCHANGED <<plans, planned, moves>>
  <2>1. /\ moves' = moves \cup {move}
        /\ IF made > planned THEN planned' = made /\ plans' = plans \cup {new}
           ELSE UNCHANGED <<plans, planned>>
    BY <1>2 DEF Step
  <2>2. CASE Remembered(scene, action) = {}
    <3>1. made = planned + 1
      BY <2>2 DEF PlanOf
    <3>2. planned' = planned + 1 /\ plans' = plans \cup {new}
      BY <2>1, <3>1
    <3>3. \A p \in plans : ~(p.scene = scene /\ p.action = action)
      BY <2>2 DEF Remembered
    <3>4. new.scene = scene /\ new.action = action /\ new.plan = planned + 1
      BY <3>1
    <3>5. \A p \in plans' : p.plan <= planned'
      BY <3>2, <3>4 DEF OnePlanEach
    <3>6. \A p, q \in plans' : p.scene = q.scene /\ p.action = q.action => p = q
      BY <3>2, <3>3, <3>4 DEF OnePlanEach
    <3>7. \A m \in moves' : \E p \in plans' :
            p.scene = m[1] /\ p.action = m[2] /\ m[3] = Append(m[1], <<m[2], p.plan>>)
      <4>1. /\ move[1] = scene /\ move[2] = action
            /\ move[3] = Append(scene, <<action, new.plan>>)
        OBVIOUS
      <4>2. \A m \in moves : \E p \in plans' :
              p.scene = m[1] /\ p.action = m[2] /\ m[3] = Append(m[1], <<m[2], p.plan>>)
        BY <3>2 DEF OnePlanEach
      <4>3. QED
        BY <2>1, <3>2, <3>4, <4>1, <4>2
    <3>8. QED
      BY <3>5, <3>6, <3>7 DEF OnePlanEach
  <2>3. CASE Remembered(scene, action) # {}
    <3> DEFINE old == CHOOSE p \in Remembered(scene, action) : TRUE
    <3>1. old \in Remembered(scene, action)
      BY <2>3
    <3>2. old \in plans /\ old.scene = scene /\ old.action = action /\ made = old.plan
      BY <2>3, <3>1 DEF Remembered, PlanOf
    <3> HIDE DEF old
    <3>3. made \in Nat /\ made <= planned
      BY <3>2 DEF OnePlanEach
    <3>4. UNCHANGED <<plans, planned>>
      BY <2>1, <3>3
    <3>5. /\ move[1] = scene /\ move[2] = action
          /\ move[3] = Append(scene, <<action, old.plan>>)
      BY <3>2
    <3>6. \A m \in moves' : \E p \in plans' :
            p.scene = m[1] /\ p.action = m[2] /\ m[3] = Append(m[1], <<m[2], p.plan>>)
      BY <2>1, <3>2, <3>4, <3>5 DEF OnePlanEach
    <3>7. QED
      BY <3>4, <3>6 DEF OnePlanEach
  <2>4. QED
    BY <2>2, <2>3
<1>3. QED
  BY <1>1, <1>2

(* The planner is asked anew only for what it does not remember.           *)
LEMMA NextOnePlanEach == Typed /\ OnePlanEach /\ [Next]_vars => OnePlanEach'
<1> SUFFICES ASSUME Typed, OnePlanEach, [Next]_vars, ~Step PROVE OnePlanEach'
  BY StepOnePlanEach
<1>1. UNCHANGED <<plans, planned, moves>>
  BY DEF Next, ClientMoves, WorkerMoves, vars, workerVars, BecomeReady, Send, Receive, GiveUp,
     HearClosed, Reap, Call, AskToClose, ForceClose, Boot, TakeCommand, StartPlanner, AskPlanner,
     Serve, Reply, Close, Shutdown, Fail, Die, PlannerEnds, Done
<1>2. QED
  BY <1>1 DEF OnePlanEach

-----------------------------------------------------------------------------
(* The conversation.                                                       *)

LEMMA InitConversation == Init => OneConversation /\ AnswersMatch
BY DEF Init, OneConversation, AnswersMatch, BeforeReady

(* Asked, sent and heard by the client.                                    *)
LEMMA ClientMoveConversation ==
    ASSUME Typed, OneConversation, AnswersMatch, ~spoiled',
           ClientMoves \/ Call \/ AskToClose \/ ForceClose
    PROVE  OneConversation' /\ AnswersMatch'
<1> USE DEF Typed
<1>0. ~spoiled
  BY DEF ClientMoves, BecomeReady, Send, Receive, GiveUp, HearClosed, Reap, Call, AskToClose,
     ForceClose, Fails
<1>1. CASE BecomeReady
  <2>1. AnswersMatch'
    BY <1>0, <1>1 DEF BecomeReady, AnswersMatch
  <2>2. BeforeReady
    BY <1>0, <1>1 DEF BecomeReady, OneConversation
  <2>3. CASE client'.step = "idle"
    <3>1. replies # <<>> /\ replies' = Tail(replies)
      BY <1>1, <2>3 DEF BecomeReady, ClientAt
    <3>2. replies' = <<>>
      BY <2>2, <3>1, TailFacts DEF PipesTyped, BeforeReady
    <3>3. BetweenCalls'
      BY <1>1, <2>2, <3>1, <3>2 DEF BecomeReady, workerVars, BeforeReady, BetweenCalls
    <3>4. QED
      BY <2>1, <2>3, <3>3 DEF OneConversation
  <2>4. CASE client'.step = "raised"
    BY <2>1, <2>4 DEF OneConversation
  <2>5. QED
    BY <1>1, <2>1, <2>3, <2>4 DEF BecomeReady, ClientAt, OneConversation
<1>2. CASE Send
  <2>1. AnswersMatch'
    BY <1>0, <1>2 DEF Send, Fails, AnswersMatch
  <2>2. CASE client.step = "sending"
    <3>1. InRequest
      BY <1>0, <2>2 DEF OneConversation
    <3>2. Running /\ commands' = Append(commands, [of |-> request, last |-> client.left = 1])
      BY <1>2, <2>2 DEF Send, Fails
    <3>3. [of |-> request, last |-> client.left = 1] \in Commands
      BY DEF ClientTyped, Commands
    <3>4. /\ Len(commands') = Len(commands) + 1
          /\ \A i \in DOMAIN commands' :
                \/ i \in DOMAIN commands /\ commands'[i] = commands[i]
                \/ i = Len(commands') /\ commands'[i] = [of |-> request, last |-> client.left = 1]
      BY <3>2, <3>3, AppendFacts DEF PipesTyped
    <3>5. \A i \in DOMAIN commands' :
            commands'[i].of = request /\ (commands'[i].last => i = Len(commands') /\ client.left = 1)
      <4>1. ASSUME NEW i \in DOMAIN commands', i \in DOMAIN commands, commands'[i] = commands[i]
            PROVE  commands'[i].of = request /\ ~commands'[i].last
        BY <3>1, <4>1 DEF InRequest
      <4>2. ASSUME NEW c, c = [of |-> request, last |-> client.left = 1]
            PROVE  c.of = request /\ (c.last => client.left = 1)
        BY <4>2
      <4>3. QED
        BY <3>4, <4>1, <4>2
    <3>6. /\ UNCHANGED <<request, replies, worker, serving>>
          /\ replies = <<>> /\ worker.step = "idle"
      BY <1>2, <2>2, <3>1, <3>2 DEF Send, Fails, InRequest, Running, workerVars
    <3>7. CASE client.left > 1
      <4>1. client'.step = "sending" /\ client'.left = client.left - 1 /\ client'.left > 0
        BY <1>2, <2>2, <3>2, <3>7 DEF Send, ClientTyped
      <4>2. InRequest'
        BY <3>5, <3>6, <3>7, <4>1 DEF InRequest
      <4>3. QED
        BY <2>1, <4>1, <4>2 DEF OneConversation
    <3>8. CASE client.left = 1
      <4>1. client'.step = "waiting"
        BY <1>2, <2>2, <3>2, <3>8 DEF Send
      <4>2. InAnswer'
        BY <3>5, <3>6 DEF InAnswer
      <4>3. QED
        BY <2>1, <4>1, <4>2 DEF OneConversation
    <3>9. QED
      BY <1>2, <3>7, <3>8 DEF Send, ClientTyped
  <2>3. CASE client.step = "closing?"
    <3>1. client'.step \in {"closing?", "killing"}
      BY <1>2, <2>3 DEF Send, ClientAt, ClientTyped
    <3>2. QED
      BY <2>1, <3>1 DEF OneConversation
  <2>4. QED
    BY <1>2, <2>2, <2>3 DEF Send
<1>3. CASE Receive
  <2> DEFINE piece == Head(replies)
  <2>1. InAnswer
    BY <1>0, <1>3 DEF Receive, OneConversation
  <2>2. /\ piece = replies[1] /\ 1 \in DOMAIN replies
        /\ Len(replies') = Len(replies) - 1
        /\ \A i \in DOMAIN replies' : i + 1 \in DOMAIN replies /\ replies'[i] = replies[i + 1]
        /\ replies' \in Seq(Replies)
    BY <1>3, TailFacts DEF Receive, PipesTyped
  <2>3. piece.answer.id = request.id /\ commands = <<>>
    BY <1>3, <2>1, <2>2 DEF Receive, InAnswer
  <2>4. ~Fails
    BY DEF Fails
  <2>5. UNCHANGED <<commands, worker, serving, request>>
    BY <1>3, <2>4 DEF Receive, workerVars
  <2>6. CASE piece.last
    <3>1. /\ client'.step = "idle"
          /\ accepted' = accepted \cup {<<request, piece.answer.id>>}
      BY <1>3, <2>4, <2>6 DEF Receive, ClientAt
    <3>2. AnswersMatch'
      BY <1>0, <2>3, <3>1 DEF AnswersMatch
    <3>3. Len(replies) = 1 /\ worker.step \in {"idle", "zombie"}
      BY <2>1, <2>2, <2>6 DEF InAnswer
    <3>4. replies' = <<>>
      BY <2>2, <3>3
    <3>5. BetweenCalls'
      BY <2>3, <2>5, <3>3, <3>4 DEF BetweenCalls
    <3>6. QED
      BY <3>1, <3>2, <3>5 DEF OneConversation
  <2>7. CASE ~piece.last
    <3>1. client'.step = "waiting" /\ accepted' = accepted
      BY <1>3, <2>4, <2>7 DEF Receive, ClientTyped
    <3>2. AnswersMatch'
      BY <1>0, <3>1 DEF AnswersMatch
    <3>3. \A i \in DOMAIN replies' :
            /\ replies'[i].answer.id = request.id
            /\ replies'[i].last => i = Len(replies') /\ worker.step \in {"idle", "zombie"}
      <4> SUFFICES ASSUME NEW i \in DOMAIN replies'
                   PROVE  /\ replies'[i].answer.id = request.id
                          /\ replies'[i].last =>
                                i = Len(replies') /\ worker.step \in {"idle", "zombie"}
        OBVIOUS
      <4>1. i \in Nat /\ Len(replies) \in Nat
        BY <2>2 DEF PipesTyped
      <4>2. QED
        BY <2>1, <2>2, <4>1 DEF InAnswer
    <3>4. InAnswer'
      BY <2>1, <2>3, <2>5, <3>3 DEF InAnswer
    <3>5. QED
      BY <3>1, <3>2, <3>4 DEF OneConversation
  <2>8. QED
    BY <2>6, <2>7
<1>4. CASE GiveUp
  BY <1>4 DEF GiveUp, Fails
<1>5. CASE HearClosed
  <2>1. client'.step \in {"closing?", "killing", "reaping"} /\ accepted' = accepted
    BY <1>5 DEF HearClosed, ClientAt, ClientTyped
  <2>2. QED
    BY <1>0, <2>1 DEF OneConversation, AnswersMatch
<1>6. CASE Reap \/ ForceClose \/ AskToClose
  <2>1. client'.step \in {"closed", "killing", "closing?"} /\ accepted' = accepted
    BY <1>6 DEF Reap, ForceClose, AskToClose, ClientAt
  <2>2. QED
    BY <1>0, <2>1 DEF OneConversation, AnswersMatch
<1>7. CASE Call
  <2>1. BetweenCalls
    BY <1>0, <1>7 DEF Call, OneConversation
  <2>2. client'.step = "sending" /\ client'.left > 0 /\ accepted' = accepted
    BY <1>7, SizeFacts, WorkerAssumption DEF Call
  <2>3. InRequest'
    BY <1>7, <2>1, <2>2 DEF Call, pipes, workerVars, BetweenCalls, InRequest
  <2>4. QED
    BY <1>0, <2>2, <2>3 DEF OneConversation, AnswersMatch
<1>8. QED
  BY <1>1, <1>2, <1>3, <1>4, <1>5, <1>6, <1>7 DEF ClientMoves

(* Booted, read, worked on and answered by the worker, with the client at  *)
(* each of the places the conversation speaks of.                          *)
LEMMA WorkerMoveBeforeReady ==
    ASSUME Typed, BeforeReady, Open, WorkerMoves \/ Die \/ PlannerEnds
    PROVE  BeforeReady'
<1> USE DEF Typed, BeforeReady, WorkerAt
<1>1. CASE Boot \/ Fail
  <2>1. replies = <<>> /\ commands' = commands
    BY <1>1 DEF Boot, Fail
  <2>2. worker'.step \in {"idle", "failing", "zombie"}
    BY <1>1 DEF Boot, Fail
  <2>3. \/ replies' = replies
        \/ \E e \in Replies : replies' = Append(replies, e)
    BY <1>1, ReplyTyped DEF Boot, Fail
  <2>4. replies' = replies \/ worker'.step \in {"idle", "zombie"}
    BY <1>1 DEF Boot, Fail
  <2>5. Len(replies') <= 1
    <3>1. Len(replies) = 0 /\ replies \in Seq(Replies)
      BY <2>1 DEF PipesTyped
    <3>2. CASE replies' = replies
      BY <3>1, <3>2
    <3>3. CASE \E e \in Replies : replies' = Append(replies, e)
      <4>1. PICK e \in Replies : replies' = Append(replies, e)
        BY <3>3
      <4>2. Len(Append(replies, e)) = Len(replies) + 1
        BY <3>1, AppendFacts
      <4>3. QED
        BY <3>1, <4>1, <4>2
    <3>4. QED
      BY <2>3, <3>2, <3>3
  <2>6. QED
    BY <2>1, <2>2, <2>4, <2>5
<1>2. CASE Die \/ PlannerEnds
  BY <1>2 DEF Die, PlannerEnds, pipes
<1>3. QED
  BY <1>1, <1>2 DEF WorkerMoves, TakeCommand, StartPlanner, AskPlanner, Step, Serve, Reply,
     Close, Shutdown

(* Between calls the worker waits, or dies.                                *)
LEMMA WorkerMoveBetweenCalls ==
    ASSUME Typed, BetweenCalls, Open, WorkerMoves \/ Die \/ PlannerEnds
    PROVE  BetweenCalls'
<1> USE DEF BetweenCalls, WorkerAt
<1>1. Die \/ PlannerEnds
  BY DEF WorkerMoves, Boot, TakeCommand, StartPlanner, AskPlanner, Step, Serve, Reply,
     Close, Shutdown, Fail
<1>2. QED
  BY <1>1 DEF Die, PlannerEnds, pipes

(* While a request is sent, the worker reads at most up to the chunk       *)
(* before its last.                                                        *)
LEMMA WorkerMoveInRequest ==
    ASSUME Typed, InRequest, Open, UNCHANGED clientVars, WorkerMoves \/ Die \/ PlannerEnds
    PROVE  InRequest'
<1> USE DEF Typed, InRequest, WorkerAt
<1>0. UNCHANGED <<client, request>>
  BY DEF clientVars
<1>1. CASE TakeCommand
  <2>1. commands # <<>> /\ commands' = Tail(commands) /\ replies' = replies
    BY <1>1 DEF TakeCommand
  <2>2. /\ Head(commands) = commands[1] /\ 1 \in DOMAIN commands
        /\ \A i \in DOMAIN commands' : i + 1 \in DOMAIN commands /\ commands'[i] = commands[i + 1]
    BY <2>1, TailFacts DEF PipesTyped
  <2>3. UNCHANGED worker
    BY <1>1, <2>1, <2>2 DEF TakeCommand
  <2>4. \A i \in DOMAIN commands' : commands'[i].of = request /\ ~commands'[i].last
    BY <2>2
  <2>5. QED
    BY <1>0, <2>1, <2>3, <2>4
<1>2. CASE Die \/ PlannerEnds
  BY <1>0, <1>2 DEF Die, PlannerEnds, pipes
<1>3. QED
  BY <1>1, <1>2 DEF WorkerMoves, Boot, StartPlanner, AskPlanner, Step, Serve, Reply,
     Close, Shutdown, Fail

(* An answer is added to those that are not the last of it.                *)
LEMMA AnswerAdded ==
    ASSUME Typed, InAnswer, UNCHANGED <<commands, request, serving>>,
           worker.step \in {"working", "replying", "failing", "hung"},
           worker'.step \in {"idle", "replying", "zombie"},
           NEW e \in Replies, e.answer.id = serving.id,
           e.last => worker'.step \in {"idle", "zombie"},
           replies' = Append(replies, e)
    PROVE  InAnswer'
<1>1. serving = request /\ commands = <<>>
  BY DEF InAnswer
<1>2. \A i \in DOMAIN replies : replies[i].answer.id = request.id /\ ~replies[i].last
  BY DEF InAnswer
<1>3. /\ Len(replies') = Len(replies) + 1 /\ replies' # <<>>
      /\ \A i \in DOMAIN replies' :
            \/ i \in DOMAIN replies /\ replies'[i] = replies[i]
            \/ i = Len(replies') /\ replies'[i] = e
  <2>1. replies \in Seq(Replies)
    BY DEF Typed, PipesTyped
  <2>2. QED
    BY <2>1, AppendFacts
<1>4. \A i \in DOMAIN replies' :
        /\ replies'[i].answer.id = request.id
        /\ replies'[i].last => i = Len(replies') /\ worker'.step \in {"idle", "zombie"}
  BY <1>1, <1>2, <1>3
<1>5. QED
  BY <1>1, <1>4 DEF InAnswer

(* Once it has read the request to its end, the worker answers that one,   *)
(* from the first chunk to the last.                                       *)
LEMMA WorkerMoveInAnswer ==
    ASSUME Typed, InAnswer, Open, request \in Asked, UNCHANGED clientVars,
           WorkerMoves \/ Die \/ PlannerEnds
    PROVE  InAnswer'
<1> USE DEF Typed
<1>0. UNCHANGED <<client, request>>
  BY DEF clientVars
<1>1. CASE TakeCommand
  <2>1. /\ commands # <<>> /\ commands' = Tail(commands) /\ replies' = replies
        /\ replies = <<>> /\ serving' = Head(commands).of /\ worker.step = "idle"
    BY <1>1 DEF TakeCommand, InAnswer
  <2>2. /\ Head(commands) = commands[1] /\ 1 \in DOMAIN commands
        /\ Len(commands') = Len(commands) - 1 /\ commands' \in Seq(Commands)
        /\ \A i \in DOMAIN commands' : i + 1 \in DOMAIN commands /\ commands'[i] = commands[i + 1]
    BY <2>1, TailFacts DEF PipesTyped
  <2>3. serving' = request
    BY <2>1, <2>2 DEF InAnswer
  <2>4. \A i \in DOMAIN commands' :
          commands'[i].of = request /\ (commands'[i].last => i = Len(commands'))
    <3> SUFFICES ASSUME NEW i \in DOMAIN commands'
                 PROVE  commands'[i].of = request /\ (commands'[i].last => i = Len(commands'))
      OBVIOUS
    <3>1. i \in Nat /\ Len(commands) \in Nat
      BY <2>2 DEF PipesTyped
    <3>2. QED
      BY <2>2, <3>1 DEF InAnswer
  <2>5. CASE Head(commands).last
    <3>1. Len(commands) = 1
      BY <2>2, <2>5 DEF InAnswer
    <3>2. commands' = <<>>
      BY <2>2, <3>1
    <3>3. worker'.step = "working"
      BY <1>1, <2>1, <2>5 DEF TakeCommand, WorkerAt
    <3>4. QED
      BY <1>0, <2>1, <2>3, <3>2, <3>3 DEF InAnswer
  <2>6. CASE ~Head(commands).last
    <3>1. worker' = worker
      BY <1>1, <2>1, <2>6 DEF TakeCommand
    <3>2. QED
      BY <1>0, <2>1, <2>4, <3>1 DEF InAnswer
  <2>7. QED
    BY <2>5, <2>6
<1>2. CASE StartPlanner \/ AskPlanner \/ Step \/ Serve
  <2>1. /\ UNCHANGED <<commands, replies, serving>>
        /\ worker.step = "working"
    BY <1>2 DEF StartPlanner, AskPlanner, Step, Serve, pipes
  <2>2. worker'.step \in {"working", "replying", "failing", "hung"}
    BY <1>2, <2>1 DEF StartPlanner, AskPlanner, Step, Serve, WorkerAt
  <2>3. QED
    BY <1>0, <2>1, <2>2 DEF InAnswer
<1>3. CASE Reply
  <2> DEFINE e == [answer |-> Answer("PASS", IF serving.op = "restore" THEN {} ELSE {scene}),
                   first |-> worker.left = ReplySize(serving.op), last |-> worker.left = 1]
  <2>1. /\ worker.step = "replying" /\ UNCHANGED <<commands, serving>>
        /\ replies' = Append(replies, e)
    BY <1>3 DEF Reply
  <2>2. /\ worker'.step \in {"idle", "replying"}
        /\ worker.left = 1 => worker'.step = "idle"
    BY <1>3 DEF Reply, WorkerAt
  <2>3. e \in Replies
    <3>1. {} \in SUBSET Scenes /\ {scene} \in SUBSET Scenes
      BY DEF WorkerTyped
    <3>2. QED
      BY <3>1, ReplyTyped
  <2>4. e.answer.id = serving.id /\ (e.last => worker.left = 1)
    BY DEF Answer
  <2> HIDE DEF e
  <2>5. QED
    BY <1>0, <2>1, <2>2, <2>3, <2>4, AnswerAdded
<1>4. CASE Fail
  <2> DEFINE e == [answer |-> Answer("ERROR", {}), first |-> TRUE, last |-> TRUE]
  <2>1. /\ worker.step = "failing" /\ UNCHANGED <<commands, serving>>
        /\ replies' = Append(replies, e) /\ worker'.step = "zombie"
    BY <1>4 DEF Fail, WorkerAt
  <2>2. e \in Replies
    BY ReplyTyped
  <2>3. e.answer.id = serving.id
    BY DEF Answer
  <2> HIDE DEF e
  <2>4. QED
    BY <1>0, <2>1, <2>2, <2>3, AnswerAdded
<1>5. CASE Close
  <2>1. serving = request /\ serving.op = "close"
    BY <1>5 DEF Close, InAnswer
  <2>2. QED
    BY <2>1, RequestFacts
<1>6. CASE Die \/ PlannerEnds
  <2>1. UNCHANGED <<commands, replies, serving>> /\ (worker' = worker \/ worker'.step = "zombie")
    BY <1>6 DEF Die, PlannerEnds, pipes, WorkerAt
  <2>2. QED
    BY <1>0, <2>1 DEF InAnswer
<1>7. CASE Boot \/ Shutdown
  BY <1>7 DEF Boot, Shutdown, InAnswer
<1>8. QED
  BY <1>1, <1>2, <1>3, <1>4, <1>5, <1>6, <1>7 DEF WorkerMoves

(* Every step keeps the conversation, and what it accepts is the answer to *)
(* its request.                                                            *)
LEMMA NextConversation ==
    Typed /\ OneConversation /\ AnswersMatch /\ [Next]_vars => OneConversation' /\ AnswersMatch'
<1> SUFFICES ASSUME Typed, OneConversation, AnswersMatch, [Next]_vars
             PROVE  OneConversation' /\ AnswersMatch'
  OBVIOUS
<1>1. CASE spoiled'
  BY <1>1 DEF OneConversation, AnswersMatch
<1>2. CASE ~spoiled' /\ (ClientMoves \/ Call \/ AskToClose \/ ForceClose)
  BY <1>2, ClientMoveConversation
<1>3. CASE ~spoiled' /\ (WorkerMoves \/ Die \/ PlannerEnds)
  <2>1. UNCHANGED clientVars
    BY <1>3 DEF WorkerMoves, Boot, TakeCommand, StartPlanner, AskPlanner, Step, Serve, Reply,
       Close, Shutdown, Fail, Die, PlannerEnds
  <2>2. UNCHANGED <<client, request, spoiled, accepted>> /\ ~spoiled
    BY <1>3, <2>1 DEF clientVars
  <2>3. client.step = "ready?" => BeforeReady'
    BY <1>3, <2>2, WorkerMoveBeforeReady DEF OneConversation, Open
  <2>4. client.step = "idle" => BetweenCalls'
    BY <1>3, <2>2, WorkerMoveBetweenCalls DEF OneConversation, Open
  <2>5. client.step = "sending" => InRequest'
    BY <1>3, <2>1, <2>2, WorkerMoveInRequest DEF OneConversation, Open
  <2>6. client.step = "waiting" => InAnswer'
    <3>1. client.step = "waiting" => request \in Asked
      BY DEF Typed, ClientTyped
    <3>2. QED
      BY <1>3, <2>1, <2>2, <3>1, WorkerMoveInAnswer DEF OneConversation, Open
  <2>7. QED
    BY <2>2, <2>3, <2>4, <2>5, <2>6 DEF OneConversation, AnswersMatch
<1>4. CASE UNCHANGED vars
  BY <1>4 DEF vars, pipes, clientVars, workerVars, OneConversation, AnswersMatch, BeforeReady,
     BetweenCalls, InRequest, InAnswer
<1>5. QED
  BY <1>1, <1>2, <1>3, <1>4 DEF Next, Done

-----------------------------------------------------------------------------
(* The worker of a closed handle.                                          *)

(* Closing is waiting for the worker, and a worker that is gone does not   *)
(* come back.                                                              *)
LEMMA NextClosedIsGone == Typed /\ ClosedIsGone /\ [Next]_vars => ClosedIsGone'
<1> SUFFICES ASSUME Typed, ClosedIsGone, [Next]_vars, client'.step = "closed"
             PROVE  worker'.step = "gone"
  BY DEF ClosedIsGone
<1>1. CASE Reap
  BY <1>1 DEF Reap
<1>2. CASE ~Reap
  <2>1. client.step = "closed"
    BY <1>2 DEF Typed, ClientTyped, Next, ClientMoves, WorkerMoves, vars, clientVars, BecomeReady,
       Send, Receive, GiveUp, HearClosed, Call, AskToClose, ForceClose, Boot, TakeCommand,
       StartPlanner, AskPlanner, Step, Serve, Reply, Close, Shutdown, Fail, Die, PlannerEnds, Done,
       ClientAt, Fails
  <2>2. worker.step = "gone"
    BY <2>1 DEF ClosedIsGone
  <2>3. worker' = worker
    BY <1>2, <2>1, <2>2 DEF Next, ClientMoves, WorkerMoves, vars, workerVars, BecomeReady,
       Send, Receive, GiveUp, HearClosed, Call, AskToClose, ForceClose, Boot, TakeCommand,
       StartPlanner, AskPlanner, Step, Serve, Reply, Close, Shutdown, Fail, Die, PlannerEnds, Done,
       Running
  <2>4. QED
    BY <2>2, <2>3
<1>3. QED
  BY <1>1, <1>2

-----------------------------------------------------------------------------
(* The theorems.                                                           *)

(* The inductive invariant holds at every step of client, worker and       *)
(* planner, whatever fails, dies or hangs.                                 *)
THEOREM HandleInvariance == Spec => []HandleInv
<1>1. Init => HandleInv
  BY InitTyped, InitPipesInRoom, InitOnePlanEach, InitConversation DEF HandleInv, Init, ClosedIsGone
<1>2. HandleInv /\ [Next]_vars => HandleInv'
  BY NextTyped, NextPipesInRoom, NextOnePlanEach, NextConversation, NextClosedIsGone DEF HandleInv
<1>3. QED
  BY <1>1, <1>2, PTL DEF Spec

(* Two motions of one scene and action follow the one plan remembered for  *)
(* them.                                                                   *)
LEMMA PlansRepeat == OnePlanEach => StepsRepeat
<1> SUFFICES ASSUME OnePlanEach, NEW m \in moves, NEW n \in moves, m[1] = n[1], m[2] = n[2]
             PROVE  m[3] = n[3]
  BY DEF StepsRepeat
<1>1. PICK p \in plans : p.scene = m[1] /\ p.action = m[2] /\ m[3] = Append(m[1], <<m[2], p.plan>>)
  BY DEF OnePlanEach
<1>2. PICK q \in plans : q.scene = n[1] /\ q.action = n[2] /\ n[3] = Append(n[1], <<n[2], q.plan>>)
  BY DEF OnePlanEach
<1>3. p = q
  BY <1>1, <1>2 DEF OnePlanEach
<1>4. QED
  BY <1>1, <1>2, <1>3

(* The type invariant.                                                     *)
LEMMA InvTypeOK == HandleInv => TypeOK
<1> SUFFICES ASSUME HandleInv PROVE TypeOK
  OBVIOUS
<1>1. /\ client.step \in ClientSteps
      /\ client.left \in 0 .. CommandRoom + 1 /\ client.got \in Nat
      /\ worker.step \in WorkerSteps
  BY DEF HandleInv, Typed, ClientTyped, WorkerTyped
<1>2. \A m \in moves : Len(m[3]) = Len(m[1]) + 1
  <2> SUFFICES ASSUME NEW m \in moves PROVE Len(m[3]) = Len(m[1]) + 1
    OBVIOUS
  <2>1. PICK p \in plans : m[3] = Append(m[1], <<m[2], p.plan>>)
    BY DEF HandleInv, OnePlanEach
  <2>2. m[1] \in Scenes /\ m[2] \in Actions /\ p.plan \in Nat
    BY DEF HandleInv, Typed, WorkerTyped
  <2>3. m[1] \in Seq(Actions \X Nat) /\ <<m[2], p.plan>> \in Actions \X Nat
    BY <2>2 DEF Scenes
  <2>4. QED
    BY <2>1, <2>3, AppendFacts
<1>3. QED
  BY <1>1, <1>2 DEF HandleInv, Typed, ClientTyped, WorkerTyped, PipesInRoom, ClientSteps,
     WorkerSteps, TypeOK

(* Without request ids every answer a handle returned, while none of its   *)
(* calls had failed, is the answer to its question; a closed handle has    *)
(* left no worker; and an action repeated in a restored scene moves it as  *)
(* before.                                                                 *)
THEOREM FaithfulWorkers == Spec => []WorkersFaithful
<1>1. HandleInv => WorkersFaithful
  BY InvTypeOK, PlansRepeat DEF HandleInv, WorkersFaithful
<1>2. QED
  BY <1>1, HandleInvariance, PTL
-----------------------------------------------------------------------------
(* LiveEpisode: the closed-loop runner that drives such workers, arm after *)
(* arm.  EpisodeInv, at the end of LiveEpisode, is what every step keeps:  *)
(* what each cache was told, how far the worker, its answer and the        *)
(* observations are from each other, and the noise of the arms that are    *)
(* done.                                                                   *)
\* the snapshots of one chunk
Shots == (PlanFrames - Live!StartFrame) * KeyFrames

\* Products of what is counted by chunk, frame, snapshot and control.
LEMMA Products ==
    ASSUME NEW f \in Nat, NEW k \in Nat, NEW q \in Nat
    PROVE  /\ f * k \in Nat /\ f * (k * q) = (f * k) * q
           /\ f > 0 /\ k > 0 => f * k > 0
           /\ \A n \in Nat : (n + 1) * (f * k) = n * (f * k) + f * k
<1>1. f * k \in Nat OBVIOUS
<1>2. f * (k * q) = (f * k) * q OBVIOUS
<1>3. f > 0 /\ k > 0 => f * k > 0 OBVIOUS
<1>4. ASSUME NEW p \in Nat, NEW n \in Nat PROVE (n + 1) * p = n * p + p OBVIOUS
<1> QED BY <1>1, <1>2, <1>3, <1>4

\* A chunk gives a snapshot for every Quarter of its controls, and the next starts after them.
LEMMA Grid ==
    ASSUME Live!Configured, chunk \in Nat
    PROVE  /\ Shots \in Nat /\ Shots > 0 /\ Quarter \in Nat /\ Quarter > 0
           /\ Live!Available \in Nat /\ Live!Available = Shots * Quarter
           /\ Live!BeforeChunk(chunk) \in Nat
           /\ Live!BeforeChunk(chunk + 1) = Live!BeforeChunk(chunk) + Shots
<1>1. PICK f \in Nat : f = PlanFrames - Live!StartFrame /\ f > 0
  BY DEF Live!Configured, Live!StartFrame
<1>2. PICK k \in Nat : k = KeyFrames /\ k > 0 BY DEF Live!Configured
<1>3. PICK q \in Nat : q = Quarter /\ q > 0 BY DEF Live!Configured
<1>4. Shots = f * k /\ Shots \in Nat /\ Shots > 0 BY <1>1, <1>2, Products DEF Shots
<1>5. Live!Available = f * (k * q) BY <1>1, <1>2, <1>3 DEF Live!Available, Live!PerFrame
<1>6. Live!Available = Shots * Quarter /\ Live!Available \in Nat
  <2>1. f * (k * q) = (f * k) * q BY <1>1, <1>2, <1>3, Products
  <2>2. (f * k) * q \in Nat BY <1>3, <1>4, Products
  <2> QED BY <1>3, <1>4, <1>5, <2>1, <2>2
<1>7. PICK m \in Nat : m = (PlanFrames - 1) * KeyFrames BY <1>2, Products DEF Live!Configured
<1>8. PICK p \in Nat : p = PlanFrames * KeyFrames BY <1>2, Products DEF Live!Configured
<1>9. /\ Live!BeforeChunk(chunk) \in Nat
      /\ Live!BeforeChunk(chunk + 1) = Live!BeforeChunk(chunk) + Shots
  <2>1. CASE chunk = 0
    <3>1. Live!BeforeChunk(chunk) = 0 /\ Shots = m
      BY <1>7, <2>1 DEF Live!BeforeChunk, Shots, Live!StartFrame
    <3>2. Live!BeforeChunk(1) = m + (1 - 1) * p BY <1>7, <1>8 DEF Live!BeforeChunk
    <3>3. (1 - 1) * p = 0 BY <1>8
    <3> QED BY <2>1, <3>1, <3>2, <3>3
  <2>2. CASE chunk # 0
    <3>1. PICK n \in Nat : chunk = n + 1 BY <2>2
    <3>2. Shots = p
      <4>1. PlanFrames - 0 = PlanFrames BY DEF Live!Configured
      <4> QED BY <1>8, <2>2, <4>1 DEF Shots, Live!StartFrame
    <3>3. Live!BeforeChunk(chunk) = m + n * p
      <4>1. chunk - 1 = n BY <3>1
      <4> QED BY <1>7, <1>8, <2>2, <4>1 DEF Live!BeforeChunk
    <3>4. Live!BeforeChunk(chunk + 1) = m + (n + 1) * p
      <4>1. (chunk + 1) - 1 = n + 1 /\ chunk + 1 # 0 BY <3>1
      <4> QED BY <1>7, <1>8, <4>1 DEF Live!BeforeChunk
    <3>5. (n + 1) * p = n * p + p /\ n * p \in Nat BY <1>8, <3>1
    <3>6. PICK np \in Nat : np = n * p BY <3>5
    <3> QED BY <1>7, <1>8, <3>2, <3>3, <3>4, <3>5, <3>6
  <2> QED BY <2>1, <2>2
<1> QED BY <1>3, <1>4, <1>6, <1>9

\* Of a list that is one longer: its length and its elements.
LEMMA Appended ==
    ASSUME NEW S, NEW list \in Seq(S), NEW x \in S
    PROVE  /\ Append(list, x) \in Seq(S) /\ Len(Append(list, x)) = Len(list) + 1
           /\ Append(list, x)[Len(list) + 1] = x
           /\ \A i \in 1..Len(list) : Append(list, x)[i] = list[i]
OBVIOUS

\* The arm under way is one of the four, and of those to run.
LEMMA ArmFacts ==
    ASSUME Live!Configured, turn \in 1..Len(Arms)
    PROVE  Live!Arm \in {"SS", "ST", "TS", "TT"} /\ Live!Arm \in Live!ToSet(Arms)
BY DEF Live!Configured, Live!Arm, Live!ToSet

\* The runner starts with nothing shown, rendered or run.
LEMMA EpisodeInitInv == Live!Configured /\ Live!Init => Live!EpisodeInv
<1> SUFFICES ASSUME Live!Configured, Live!Init PROVE Live!EpisodeInv OBVIOUS
<1> USE DEF Live!Init
<1>1. turn \in 1..Len(Arms) /\ MaxControls \in Nat /\ Chunks \in Nat BY DEF Live!Configured
<1>2. DOMAIN teacher = {} BY DEF Live!Init
<1>4. Live!TypeOK
  BY <1>1, <1>2 DEF Live!TypeOK, Live!Cache, Live!EmptyCache, Live!Initial
<1>5. Live!Typed
  <2>1. world \in Live!Scene /\ reply \in [steps : Nat, terminal : BOOLEAN, snapshots : Seq(Live!Scene)]
    BY DEF Live!Scene, Live!Start, Live!NoReply
  <2>2. shown = <<>> /\ history = <<>> /\ encoded = <<>> /\ success \in BOOLEAN OBVIOUS
  <2>3. ~Live!Thinking /\ ~Live!Rendering /\ at = "start" /\ chunk = 0
    BY DEF Live!Thinking, Live!Rendering
  <2> QED BY <1>4, <2>1, <2>2, <2>3 DEF Live!Typed
<1>6. Live!Shown BY <1>2 DEF Live!Shown, Live!InEpisode
<1>7. Live!Conditioned BY DEF Live!Conditioned, Live!NoConds
<1>8. Live!Moved BY DEF Live!Moved, Live!InEpisode, Live!Thinking, Live!Rendering
<1>9. Live!NoiseKept BY <1>1 DEF Live!NoiseKept
<1>10. Live!ArmsApart /\ Live!ParentAtRest /\ Live!StepsShown
  BY DEF Live!ArmsApart, Live!ParentAtRest, Live!StepsShown
<1> QED BY <1>4, <1>5, <1>6, <1>7, <1>8, <1>9, <1>10 DEF Live!EpisodeInv

\* While the models plan and solve, nothing moves, nothing is shown and nothing is recorded.
LEMMA ThinkOn ==
    ASSUME Live!EpisodeInv, Live!Thinking, Live!Thinking',
           UNCHANGED <<turn, chunk, frameSt, encoded, history, Live!scenes, total, success,
                       episodes>>
    PROVE  Live!Moved' /\ Live!StepsShown' /\ Live!ParentAtRest' /\ Live!NoiseKept' /\ Live!ArmsApart'
<1> USE DEF Live!EpisodeInv, Live!scenes
<1>1. Live!Moved'
  BY DEF Live!Moved, Live!Thinking, Live!Rendering, Live!InEpisode, Live!Rendered,
         Live!BeforeChunk, Live!Latest
<1>2. Live!StepsShown' /\ Live!ParentAtRest' /\ Live!ArmsApart'
  BY DEF Live!StepsShown, Live!ParentAtRest, Live!ArmsApart, Live!Thinking, Live!Arm
<1>3. Live!NoiseKept' BY DEF Live!NoiseKept, Live!Thinking
<1> QED BY <1>1, <1>2, <1>3

\* While the models plan and solve, the types are those of the two owners' caches.
LEMMA ThinkTyped ==
    ASSUME Live!EpisodeInv, Live!Thinking, Live!Thinking', Live!Cache(student)',
           \A name \in DOMAIN teacher' : Live!Cache(teacher'[name]),
           UNCHANGED <<turn, chunk, frameSt, encoded, history, Live!scenes, total, success,
                       workers, outcome>>
    PROVE  Live!Typed'
<1> USE DEF Live!EpisodeInv, Live!scenes
<1>1. Live!TypeOK' BY DEF Live!Typed, Live!TypeOK, Live!Cache, Live!Thinking
<1> QED BY <1>1 DEF Live!Typed, Live!Thinking, Live!Rendering, Live!Scene

\* The Teacher's one cache of the chunk, made new or told more.
LEMMA OneCache ==
    ASSUME NEW cache, DOMAIN teacher \subseteq {Live!CacheName}, UNCHANGED <<turn, chunk>>,
           teacher' = Live!WithCache(Live!CacheName, cache)
    PROVE  /\ DOMAIN teacher' \subseteq {Live!CacheName'}
           /\ Live!CacheAt(Live!CacheName)' = cache
           /\ \A name \in DOMAIN teacher' : teacher'[name] = cache
<1>1. Live!CacheName' = Live!CacheName BY DEF Live!CacheName, Live!Arm
<1>2. DOMAIN teacher' = {Live!CacheName} /\ teacher'[Live!CacheName] = cache
  BY DEF Live!WithCache
<1>3. Live!CacheAt(Live!CacheName)' = cache BY <1>1, <1>2 DEF Live!CacheAt
<1> QED BY <1>1, <1>2, <1>3

\* A cache that is told a plan after the records holds just these.
LEMMA ToldFacts ==
    ASSUME NEW records, NEW what
    PROVE Live!Predict([seen |-> records, guess |-> <<>>], what) = [seen |-> records, guess |-> <<what>>]
<1>1. Append(<<>>, what) = <<what>> OBVIOUS
<1> QED BY <1>1 DEF Live!Predict

\* The Student plans on what it has been shown.
LEMMA StudentPlanInv ==
    ASSUME Live!Configured, Live!EpisodeInv, Live!StudentPlan PROVE Live!EpisodeInv'
<1> USE DEF Live!EpisodeInv
<1>1. /\ Live!Thinking /\ Live!Thinking' /\ Live!Arm \in {"SS", "ST"} /\ at = "video"
      /\ Live!InEpisode
      /\ at' = IF Live!Arm = "SS" THEN "step" ELSE "teacher"
  BY DEF Live!StudentPlan, Live!Thinking, Live!InEpisode
<1>2. UNCHANGED <<turn, chunk, teacher, frameSt, encoded, history, Live!scenes, total, success,
                  episodes, workers, outcome>>
  BY DEF Live!StudentPlan
<1>3. student = [seen |-> history, guess |-> <<>>] BY <1>1 DEF Live!Shown
<1>4. Live!Predict(student, Live!Video("student")) = [seen |-> history, guess |-> <<plan'>>]
  BY <1>3, ToldFacts DEF Live!StudentPlan
<1>5. conds' = [student |-> [seen |-> history, guess |-> <<plan'>>], teacher |-> Live!EmptyCache]
  BY <1>4 DEF Live!StudentPlan, Live!NoConds
<1>6. student'.seen = history
  BY <1>4 DEF Live!StudentPlan, Live!Predict
<1>7. Live!Typed'
  BY <1>1, <1>2, <1>6, ThinkTyped DEF Live!Typed, Live!TypeOK, Live!Cache, Live!HistoryRecord
<1>8. Live!Shown'
  BY <1>1, <1>2, <1>6 DEF Live!Shown, Live!InEpisode, Live!Thinking, Live!CacheName, Live!Arm
<1>9. Live!Conditioned'
  BY <1>1, <1>2, <1>5 DEF Live!Conditioned, Live!Told, Live!Arm
<1> QED BY <1>1, <1>2, <1>7, <1>8, <1>9, ThinkOn

\* The Teacher takes the Student's plan on the same records.
LEMMA TeacherOnStudentPlanInv ==
    ASSUME Live!Configured, Live!EpisodeInv, Live!TeacherOnStudentPlan PROVE Live!EpisodeInv'
<1> USE DEF Live!EpisodeInv
<1>1. /\ Live!Thinking /\ Live!Thinking' /\ Live!Arm = "ST" /\ at = "teacher" /\ Live!InEpisode
      /\ at' = "act"
  BY DEF Live!TeacherOnStudentPlan, Live!Thinking, Live!InEpisode, Live!Conditioned
<1>2. UNCHANGED <<turn, chunk, student, frameSt, encoded, history, plan, conds, Live!scenes,
                  total, success, episodes, workers, outcome>>
  BY DEF Live!TeacherOnStudentPlan
<1>3. teacher' = Live!WithCache(Live!CacheName, Live!Told)
  BY ToldFacts DEF Live!TeacherOnStudentPlan, Live!Replayed, Live!Told
<1>4. /\ DOMAIN teacher' \subseteq {Live!CacheName'}
      /\ Live!CacheAt(Live!CacheName)' = Live!Told
      /\ \A name \in DOMAIN teacher' : teacher'[name] = Live!Told
  BY <1>2, <1>3, OneCache DEF Live!Shown
<1>5. Live!Typed'
  <2>1. \A name \in DOMAIN teacher' : teacher'[name].seen = history BY <1>2, <1>4 DEF Live!Told
  <2> QED
    BY <1>1, <1>2, <2>1, ThinkTyped DEF Live!Typed, Live!TypeOK, Live!Cache, Live!HistoryRecord
<1>6. Live!Shown'
  BY <1>1, <1>2, <1>4 DEF Live!Shown, Live!InEpisode, Live!Thinking, Live!Arm
<1>7. Live!Conditioned'
  BY <1>1, <1>2, <1>4 DEF Live!Conditioned, Live!Told, Live!Arm
<1> QED BY <1>1, <1>2, <1>5, <1>6, <1>7, ThinkOn

\* The Teacher plans on the records of the episode.
LEMMA TeacherPlanInv ==
    ASSUME Live!Configured, Live!EpisodeInv, Live!TeacherPlan PROVE Live!EpisodeInv'
<1> USE DEF Live!EpisodeInv
<1>1. /\ Live!Thinking /\ Live!Thinking' /\ Live!Arm \in {"TS", "TT"} /\ at = "video"
      /\ Live!InEpisode /\ at' = "act"
  BY DEF Live!TeacherPlan, Live!Thinking, Live!InEpisode
<1>2. UNCHANGED <<turn, chunk, student, frameSt, encoded, history, Live!scenes, total, success,
                  episodes, workers, outcome>>
  BY DEF Live!TeacherPlan
<1>3. teacher' = Live!WithCache(Live!CacheName, Live!Told') /\ conds' = Live!NoConds
  BY <1>2, ToldFacts DEF Live!TeacherPlan, Live!Replayed, Live!Told
<1>4. /\ DOMAIN teacher' \subseteq {Live!CacheName'}
      /\ Live!CacheAt(Live!CacheName)' = Live!Told'
      /\ \A name \in DOMAIN teacher' : teacher'[name] = Live!Told'
  BY <1>2, <1>3, OneCache DEF Live!Shown
<1>5. Live!Typed'
  <2>1. \A name \in DOMAIN teacher' : teacher'[name].seen = history BY <1>2, <1>4 DEF Live!Told
  <2> QED
    BY <1>1, <1>2, <2>1, ThinkTyped DEF Live!Typed, Live!TypeOK, Live!Cache, Live!HistoryRecord
<1>6. Live!Shown'
  BY <1>1, <1>2, <1>4 DEF Live!Shown, Live!InEpisode, Live!Thinking, Live!Arm
<1>7. Live!Conditioned'
  BY <1>1, <1>2, <1>3, <1>4 DEF Live!Conditioned, Live!Arm, Live!NoConds
<1> QED BY <1>1, <1>2, <1>5, <1>6, <1>7, ThinkOn

\* The Teacher's solve is conditioned on what its cache was told.
LEMMA TeacherActionInv ==
    ASSUME Live!Configured, Live!EpisodeInv, Live!TeacherAction PROVE Live!EpisodeInv'
<1> USE DEF Live!EpisodeInv
<1>1. /\ Live!Thinking /\ Live!Thinking' /\ Live!Arm \in {"ST", "TT"} /\ at = "act"
      /\ Live!InEpisode
      /\ at' = IF Live!Arm = "ST" THEN "compare" ELSE "step"
  BY DEF Live!TeacherAction, Live!Thinking, Live!InEpisode
<1>2. UNCHANGED <<turn, chunk, student, frameSt, encoded, history, plan, Live!scenes, total,
                  success, episodes, workers, outcome>>
  BY DEF Live!TeacherAction
<1>3. Live!CacheAt(Live!CacheName) = Live!Told /\ (Live!Arm = "ST" => conds.student = Live!Told)
  BY <1>1 DEF Live!Conditioned
<1>4. teacher' = Live!WithCache(Live!CacheName, Live!Predict(Live!Told, Live!Action("teacher")))
  BY <1>3 DEF Live!TeacherAction
<1>5. DOMAIN teacher' \subseteq {Live!CacheName'} /\ \A name \in DOMAIN teacher' : teacher'[name].seen = history
  <2>1. Live!Predict(Live!Told, Live!Action("teacher")).seen = history
    BY DEF Live!Predict, Live!Told
  <2> QED BY <1>2, <1>4, <2>1, OneCache DEF Live!Shown
<1>6. conds' = [student |-> conds.student, teacher |-> Live!Told]
  BY <1>3 DEF Live!TeacherAction, Live!Conditioned
<1>7. Live!Typed'
  BY <1>1, <1>2, <1>5, ThinkTyped DEF Live!Typed, Live!TypeOK, Live!Cache, Live!HistoryRecord
<1>8. Live!Shown'
  BY <1>1, <1>2, <1>5 DEF Live!Shown, Live!InEpisode, Live!Thinking, Live!Arm
<1>9. Live!Conditioned'
  BY <1>1, <1>2, <1>3, <1>6 DEF Live!Conditioned, Live!Told, Live!Arm
<1> QED BY <1>1, <1>2, <1>7, <1>8, <1>9, ThinkOn

\* The Student's cache is rebuilt from the history for the Teacher's plan.
LEMMA StudentActionInv ==
    ASSUME Live!Configured, Live!EpisodeInv, Live!StudentActionOnTeacherPlan
    PROVE Live!EpisodeInv'
<1> USE DEF Live!EpisodeInv
<1>1. /\ Live!Thinking /\ Live!Thinking' /\ Live!Arm = "TS" /\ at = "act" /\ Live!InEpisode
      /\ at' = "compare"
  BY DEF Live!StudentActionOnTeacherPlan, Live!Thinking, Live!InEpisode
<1>2. UNCHANGED <<turn, chunk, teacher, frameSt, encoded, history, plan, Live!scenes, total,
                  success, episodes, workers, outcome>>
  BY DEF Live!StudentActionOnTeacherPlan
<1>3. Live!CacheAt(Live!CacheName) = Live!Told BY <1>1 DEF Live!Conditioned
<1>4. Live!Predict(Live!Replayed(student, history), plan) = Live!Told
  BY ToldFacts DEF Live!Replayed, Live!Told
<1>5. /\ conds' = [student |-> Live!Told, teacher |-> Live!Told]
      /\ student' = Live!Predict(Live!Told, Live!Action("student"))
  BY <1>3, <1>4 DEF Live!StudentActionOnTeacherPlan
<1>6. student'.seen = history BY <1>5 DEF Live!Predict, Live!Told
<1>7. Live!Typed'
  BY <1>1, <1>2, <1>6, ThinkTyped DEF Live!Typed, Live!TypeOK, Live!Cache, Live!HistoryRecord
<1>8. Live!Shown'
  BY <1>1, <1>2, <1>6 DEF Live!Shown, Live!InEpisode, Live!Thinking, Live!CacheName, Live!Arm
<1>9. Live!Conditioned'
  BY <1>1, <1>2, <1>5 DEF Live!Conditioned, Live!Told, Live!Arm
<1> QED BY <1>1, <1>2, <1>7, <1>8, <1>9, ThinkOn

\* What ends the process leaves the parent at rest.
LEMMA BlockInv ==
    ASSUME Live!EpisodeInv, Live!Block,
           UNCHANGED <<turn, chunk, Live!models, world, reply, shown, total, success, episodes>>
    PROVE  Live!EpisodeInv'
<1> USE DEF Live!EpisodeInv, Live!models
<1>1. /\ at' = "close" /\ parent' = Live!Initial /\ workers' \subseteq workers
      /\ outcome' = "BLOCKED"
  BY DEF Live!Block
<1>2. Live!TypeOK' BY <1>1 DEF Live!Typed, Live!TypeOK, Live!Cache, Live!Initial
<1>3. Live!Typed' BY <1>1, <1>2 DEF Live!Typed, Live!Thinking, Live!Rendering, Live!Scene
<1>4. Live!Shown' /\ Live!Conditioned' /\ Live!Moved' /\ Live!NoiseKept'
  BY <1>1
  DEF Live!Shown, Live!InEpisode, Live!CacheName, Live!Arm, Live!Conditioned, Live!Moved,
      Live!Thinking, Live!Rendering, Live!NoiseKept
<1>5. Live!ArmsApart' /\ Live!ParentAtRest' /\ Live!StepsShown'
  BY <1>1 DEF Live!ArmsApart, Live!ParentAtRest, Live!StepsShown
<1> QED BY <1>2, <1>3, <1>4, <1>5

\* Two fingerprints that differ end the process.
LEMMA CompareInv ==
    ASSUME Live!Configured, Live!EpisodeInv, Live!Compare PROVE Live!EpisodeInv'
<1>1. CASE Live!Block BY <1>1, BlockInv DEF Live!Compare
<1>2. CASE at' = "step" /\ UNCHANGED <<parent, workers, outcome>>
  <2> USE DEF Live!EpisodeInv
  <2>1. Live!Thinking /\ Live!Thinking' /\ Live!InEpisode /\ at' = "step"
    BY <1>2 DEF Live!Compare, Live!Thinking, Live!InEpisode
  <2>2. UNCHANGED <<turn, chunk, Live!models, Live!scenes, total, success, episodes, workers,
                    outcome>>
    BY <1>2 DEF Live!Compare, Live!scenes
  <2>3. Live!Typed'
    BY <2>1, <2>2, ThinkTyped DEF Live!Typed, Live!TypeOK, Live!Cache, Live!models
  <2>4. Live!Shown' /\ Live!Conditioned'
    BY <2>1, <2>2
    DEF Live!Shown, Live!InEpisode, Live!Thinking, Live!CacheName, Live!Arm, Live!Conditioned,
        Live!models
  <2> QED BY <2>1, <2>2, <2>3, <2>4, ThinkOn DEF Live!models
<1> QED BY <1>1, <1>2 DEF Live!Compare

\* reset: the caches, the chronology and the observations are those of this arm only.
LEMMA EpisodeBeginInv ==
    ASSUME Live!Configured, Live!EpisodeInv, Live!Begin PROVE Live!EpisodeInv'
<1> USE DEF Live!EpisodeInv
<1>1. /\ at = "start" /\ at' = "video" /\ chunk = 0 /\ chunk' = 0 /\ turn' = turn
      /\ DOMAIN teacher = {}
  BY DEF Live!Begin, Live!Typed, Live!Shown
<1>2. /\ Live!Arm \in {"SS", "ST", "TS", "TT"} /\ Live!Arm \in Live!ToSet(Arms)
      /\ Live!Arm' = Live!Arm
  BY <1>1, ArmFacts DEF Live!Typed, Live!TypeOK, Live!Arm
<1>3. /\ shown' = <<[step |-> 0, scene |-> Live!Start]>> /\ Live!Start \in Live!Scene
      /\ Live!Start.done = 0 /\ Live!Start.latched = FALSE
  BY DEF Live!Begin, Live!Start, Live!Scene
<1>4. /\ shown' \in Seq([step : Nat, scene : Live!Scene]) /\ Len(shown') = 1 /\ shown' # <<>>
      /\ shown'[1] = [step |-> 0, scene |-> Live!Start]
  BY <1>3
<1>5. /\ encoded' \in Seq(Live!ToSet(Arms) \X Nat)
      /\ encoded' = [k \in 1..(chunk' + 1) |-> <<Live!Arm, k - 1>>]
  BY <1>1, <1>2 DEF Live!Begin, Live!Reset, Live!CacheName
<1>6. 0 < Chunks /\ 0 <= MaxControls /\ MaxControls \in Nat BY DEF Live!Configured
<1>7. Live!TypeOK'
  <2>1. student' = Live!EmptyCache /\ teacher' = teacher /\ frameSt' = 0 /\ total' = 0
    BY DEF Live!Begin, Live!Reset
  <2> QED
    BY <1>1, <1>6, <2>1 DEF Live!Begin, Live!Typed, Live!TypeOK, Live!Cache, Live!EmptyCache
<1>8. Live!Typed'
  <2>1. reply' \in [steps : Nat, terminal : BOOLEAN, snapshots : Seq(Live!Scene)]
    BY DEF Live!Begin, Live!NoReply
  <2>2. history' = <<>> /\ world' \in Live!Scene /\ success' \in BOOLEAN BY <1>3 DEF Live!Begin
  <2> QED
    BY <1>1, <1>4, <1>5, <1>6, <1>7, <2>1, <2>2 DEF Live!Typed, Live!Thinking, Live!Rendering
<1>9. Live!Shown'
  <2>1. frameSt' = PlanFrames * chunk' BY <1>1 DEF Live!Begin, Live!Reset, Live!Configured
  <2>2. student' = [seen |-> history', guess |-> <<>>] /\ Len(history') = 0
    BY DEF Live!Begin, Live!Reset, Live!EmptyCache
  <2> QED BY <1>1, <1>2, <1>5, <2>1, <2>2 DEF Live!Begin, Live!Shown, Live!InEpisode
<1>10. Live!Conditioned'
  BY <1>1 DEF Live!Begin, Live!Conditioned, Live!NoConds
<1>11. Live!Moved'
  <2>1. Live!Rendered' = 0 BY <1>1, <1>4 DEF Live!Rendered, Live!BeforeChunk
  <2>2. Live!Latest' = [step |-> 0, scene |-> Live!Start] BY <1>4 DEF Live!Latest
  <2> QED
    BY <1>1, <1>3, <1>4, <2>1, <2>2
    DEF Live!Begin, Live!Moved, Live!Thinking, Live!Rendering, Live!InEpisode
<1>12. Live!NoiseKept' BY <1>1 DEF Live!Begin, Live!NoiseKept
<1>13. Live!ArmsApart' /\ Live!ParentAtRest'
  BY <1>1 DEF Live!Begin, Live!ArmsApart, Live!ParentAtRest
<1>14. Live!StepsShown'
  BY <1>3, <1>4 DEF Live!StepsShown
<1> QED BY <1>7, <1>8, <1>9, <1>10, <1>11, <1>12, <1>13, <1>14

\* A scene some controls on.
LEMMA SceneFacts ==
    ASSUME world \in Live!Scene, NEW local \in Nat, NEW steps \in Nat, NEW hit \in Nat
    PROVE  /\ Live!SceneAfter(local, steps, hit) \in Live!Scene
           /\ Live!SceneAfter(local, steps, hit).done = world.done + Live!Smaller(local, steps)
           /\ Live!SceneAfter(local, steps, hit).latched <=> world.latched \/ (hit > 0 /\ local >= hit)
<1> DEFINE late == world.latched \/ (hit > 0 /\ local >= hit)
<1>1. Live!Smaller(local, steps) \in Nat BY DEF Live!Smaller
<1>2. world.done + Live!Smaller(local, steps) \in Nat BY <1>1 DEF Live!Scene
<1>3. late \in BOOLEAN BY DEF Live!Scene
<1>4. Live!SceneAfter(local, steps, hit) = [done |-> world.done + Live!Smaller(local, steps), latched |-> late]
  BY DEF Live!SceneAfter
<1> HIDE DEF late
<1>5. /\ Live!SceneAfter(local, steps, hit) \in Live!Scene
      /\ Live!SceneAfter(local, steps, hit).done = world.done + Live!Smaller(local, steps)
      /\ Live!SceneAfter(local, steps, hit).latched = late
  BY <1>2, <1>3, <1>4 DEF Live!Scene
<1> QED BY <1>3, <1>5 DEF late

\* A step of the worker stays within the horizon, and a success or the horizon cuts it short.
LEMMA StepInv ==
    ASSUME Live!Configured, Live!EpisodeInv, Live!Step PROVE Live!EpisodeInv'
<1> USE DEF Live!EpisodeInv
<1>1. /\ at = "step" /\ at' = "render" /\ chunk \in Nat /\ total \in Nat /\ MaxControls \in Nat
      /\ world \in Live!Scene
      /\ total = world.done /\ total <= MaxControls
  BY DEF Live!Step, Live!Typed, Live!TypeOK, Live!Moved, Live!Thinking, Live!Configured
<1>2. /\ Shots \in Nat /\ Shots > 0 /\ Quarter \in Nat /\ Quarter > 0
      /\ Live!Available \in Nat /\ Live!Available = Shots * Quarter
  BY <1>1, Grid
<1>3. /\ Live!Limit \in Nat /\ Live!Limit <= Live!Available /\ Live!Limit <= MaxControls - total
      /\ Live!Limit = Live!Available \/ Live!Limit = MaxControls - total
  BY <1>1, <1>2 DEF Live!Limit, Live!Smaller
<1>4. PICK hit \in Nat, steps \in Nat :
        /\ hit <= Live!Limit /\ (world.latched => hit = 0)
        /\ steps = IF world.latched THEN 0 ELSE IF hit > 0 THEN hit ELSE Live!Limit
        /\ world' = Live!SceneAfter(Live!Available, steps, hit)
        /\ reply' = [steps |-> steps, terminal |-> world'.latched,
                     snapshots |-> [k \in 1..((PlanFrames - Live!StartFrame) * KeyFrames) |->
                                      Live!SceneAfter(k * Quarter, steps, hit)]]
  <2>1. PICK hit \in 0..(IF world.latched THEN 0 ELSE Live!Limit) :
          LET steps == IF world.latched THEN 0 ELSE IF hit > 0 THEN hit ELSE Live!Limit
          IN /\ world' = Live!SceneAfter(Live!Available, steps, hit)
             /\ reply' = [steps |-> steps, terminal |-> world'.latched,
                          snapshots |-> [k \in 1..((PlanFrames - Live!StartFrame) * KeyFrames) |->
                                           Live!SceneAfter(k * Quarter, steps, hit)]]
    BY DEF Live!Step
  <2> DEFINE steps == IF world.latched THEN 0 ELSE IF hit > 0 THEN hit ELSE Live!Limit
  <2>2. hit \in Nat /\ hit <= Live!Limit /\ (world.latched => hit = 0) BY <1>3, <2>1
  <2>3. steps \in Nat BY <1>3, <2>2
  <2> QED BY <2>1, <2>2, <2>3
<1>5. steps <= Live!Limit /\ steps <= Live!Available BY <1>2, <1>3, <1>4
<1>6. /\ world' \in Live!Scene /\ world'.done = total + steps
      /\ world'.latched <=> world.latched \/ hit > 0
  <2>1. /\ world' \in Live!Scene
        /\ world'.done = world.done + Live!Smaller(Live!Available, steps)
        /\ world'.latched <=> world.latched \/ (hit > 0 /\ Live!Available >= hit)
    BY <1>1, <1>2, <1>4, SceneFacts
  <2>2. Live!Smaller(Live!Available, steps) = steps BY <1>2, <1>5 DEF Live!Smaller
  <2>3. Live!Available >= hit BY <1>2, <1>3, <1>4
  <2> QED BY <1>1, <2>1, <2>2, <2>3
<1>7. /\ reply'.steps = steps /\ reply'.terminal = world'.latched
      /\ reply'.snapshots = [k \in 1..Shots |-> Live!SceneAfter(k * Quarter, steps, hit)]
  BY <1>4 DEF Shots
<1>8. ASSUME NEW k \in 1..Shots
      PROVE  /\ Live!SceneAfter(k * Quarter, steps, hit) \in Live!Scene
             /\ Live!SceneAfter(k * Quarter, steps, hit).done = total + Live!Smaller(k * Quarter, steps)
  <2>1. k \in Nat /\ k * Quarter \in Nat BY <1>2, Products
  <2> QED BY <1>1, <2>1, SceneFacts
<1>9. reply'.snapshots \in Seq(Live!Scene) /\ Len(reply'.snapshots) = Shots
  <2>1. reply'.snapshots \in [1..Shots -> Live!Scene] BY <1>7, <1>8
  <2> QED BY <1>2, <2>1
<1>10. reply' \in [steps : Nat, terminal : BOOLEAN, snapshots : Seq(Live!Scene)]
  <2>1. world'.latched \in BOOLEAN BY <1>6 DEF Live!Scene
  <2> QED BY <1>4, <1>7, <1>9, <2>1
<1>11. UNCHANGED <<turn, chunk, Live!models, parent, shown, total, success, episodes, workers,
                   outcome>>
  BY DEF Live!Step
<1>12. Live!Typed'
  <2>1. Live!TypeOK' BY <1>1, <1>11 DEF Live!Typed, Live!TypeOK, Live!Cache, Live!models
  <2> QED
    BY <1>1, <1>6, <1>10, <1>11, <2>1 DEF Live!Typed, Live!Thinking, Live!Rendering, Live!models
<1>13. Live!Shown' /\ Live!Conditioned'
  BY <1>1, <1>11
  DEF Live!Shown, Live!InEpisode, Live!CacheName, Live!Arm, Live!Conditioned, Live!models
<1>14. Live!Moved'
  <2>1. /\ shown # <<>> /\ Live!Rendered = 0 /\ Live!Latest.scene.done = total
        /\ StopOnSuccess => ~world.latched /\ Live!Latest.step = total
    BY <1>1 DEF Live!Moved, Live!Thinking, Live!InEpisode
  <2>2. Live!Rendered' = 0 /\ Live!Latest' = Live!Latest
    BY <1>11, <2>1 DEF Live!Rendered, Live!Latest, Live!BeforeChunk
  <2>3. 0 * Quarter = 0 /\ Live!Smaller(0, steps) = 0 /\ total + 0 = total
    BY <1>1, <1>2, <1>4 DEF Live!Smaller
  <2>4. Live!Available' = Live!Available /\ Shots' = Shots
    BY <1>11 DEF Live!Available, Live!StartFrame, Shots
  <2>5. StopOnSuccess => world'.latched \/ steps = Live!Available \/ world'.done = MaxControls
    <3> SUFFICES ASSUME StopOnSuccess, ~world'.latched, steps # Live!Available
          PROVE world'.done = MaxControls
      OBVIOUS
    <3>1. ~world.latched /\ ~(hit > 0) BY <1>6
    <3>2. steps = Live!Limit BY <1>4, <3>1
    <3>3. steps = MaxControls - total BY <1>3, <3>2
    <3> QED BY <1>1, <1>6, <3>3
  <2>6. world'.done <= MaxControls BY <1>1, <1>3, <1>5, <1>6
  <2>7. /\ Len(reply'.snapshots) = Shots'
        /\ 0 \in 0..Len(reply'.snapshots)
        /\ 0 # Len(reply'.snapshots)
    BY <1>2, <1>9, <2>4
  <2>8. \A k \in 1..Len(reply'.snapshots) :
          reply'.snapshots[k].done = total + Live!Smaller(k * Quarter, steps)
    BY <1>7, <1>8, <1>9
  <2> HIDE DEF Live!EpisodeInv
  <2> QED BY <1>1, <1>5, <1>6, <1>7, <1>11, <2>1, <2>2, <2>3, <2>4, <2>5, <2>6, <2>7, <2>8
       DEF Live!Moved, Live!Thinking, Live!Rendering, Live!InEpisode, Shots
<1>15. Live!NoiseKept' /\ Live!ArmsApart' /\ Live!ParentAtRest' /\ Live!StepsShown'
  BY <1>1, <1>11
  DEF Live!NoiseKept, Live!ArmsApart, Live!Arm, Live!ParentAtRest, Live!StepsShown, Live!models
<1> QED BY <1>12, <1>13, <1>14, <1>15

\* What the renderer may rely on between the worker's answer and the record of the chunk.
LEMMA RenderFacts ==
    ASSUME Live!Configured, Live!EpisodeInv, Live!Rendering
    PROVE  /\ chunk \in Nat /\ total \in Nat /\ world \in Live!Scene /\ reply.steps \in Nat
           /\ Shots \in Nat /\ Shots > 0 /\ Quarter \in Nat /\ Quarter > 0
           /\ Live!Rendered \in Nat
           /\ reply.snapshots \in Seq(Live!Scene) /\ Len(reply.snapshots) = Shots
           /\ Live!Rendered <= Shots
           /\ at # "record" => Live!Rendered + 1 \in 1..Len(reply.snapshots)
           /\ shown # <<>> /\ shown \in Seq([step : Nat, scene : Live!Scene])
<1> USE DEF Live!EpisodeInv
<1>1. chunk \in Nat /\ total \in Nat /\ MaxControls \in Nat
  BY DEF Live!Typed, Live!TypeOK, Live!Configured
<1>2. Shots \in Nat /\ Shots > 0 /\ Quarter \in Nat /\ Quarter > 0 BY <1>1, Grid
<1>3. Len(reply.snapshots) = Shots /\ Live!Rendered \in 0..Len(reply.snapshots)
      /\ (at = "record" <=> Live!Rendered = Len(reply.snapshots))
  BY DEF Live!Moved, Shots
<1>4. shown # <<>> BY DEF Live!Moved, Live!InEpisode, Live!Rendering
<1> QED BY <1>1, <1>2, <1>3, <1>4 DEF Live!Typed

\* The snapshot put in the parent is the next one.
LEMMA ShowInv ==
    ASSUME Live!Configured, Live!EpisodeInv, Live!Show PROVE Live!EpisodeInv'
<1> USE DEF Live!EpisodeInv
<1>1. at = "render" /\ at' = "observe" /\ Live!Rendering /\ Live!Rendered < Len(reply.snapshots)
  BY DEF Live!Show, Live!Rendering
<1>2. UNCHANGED <<turn, chunk, Live!models, world, reply, shown, total, success, episodes,
                  workers, outcome>>
  BY DEF Live!Show
<1>3. parent' = [arm |-> Live!Arm, scene |-> reply.snapshots[Live!Rendered + 1]]
  BY DEF Live!Show
<1>4. Live!Typed'
  <2>1. Live!Arm \in Live!ToSet(Arms) BY ArmFacts DEF Live!Typed, Live!TypeOK
  <2>2. Live!TypeOK'
    BY <1>1, <1>2, <1>3, <2>1 DEF Live!Typed, Live!TypeOK, Live!Cache, Live!models
  <2> QED BY <1>1, <1>2, <2>2 DEF Live!Typed, Live!Thinking, Live!Rendering, Live!models
<1>5. Live!Shown' /\ Live!Conditioned'
  BY <1>1, <1>2
  DEF Live!Shown, Live!InEpisode, Live!CacheName, Live!Arm, Live!Conditioned, Live!models
<1>6. Live!Moved'
  <2>1. Live!Rendered' = Live!Rendered /\ Live!Latest' = Live!Latest
    BY <1>2 DEF Live!Rendered, Live!Latest, Live!BeforeChunk
  <2>2. parent'.scene = reply'.snapshots[Live!Rendered' + 1] BY <1>2, <1>3, <2>1
  <2>3. Live!Rendered' # Len(reply'.snapshots) BY <1>1, <1>2, <2>1, RenderFacts
  <2>4. Live!Available' = Live!Available /\ Live!StartFrame' = Live!StartFrame
    BY <1>2 DEF Live!Available, Live!StartFrame
  <2> QED
    BY <1>1, <1>2, <2>1, <2>2, <2>3, <2>4
    DEF Live!Moved, Live!Thinking, Live!Rendering, Live!InEpisode
<1>7. Live!NoiseKept' /\ Live!ArmsApart' /\ Live!ParentAtRest' /\ Live!StepsShown'
  BY <1>1, <1>2
  DEF Live!NoiseKept, Live!ArmsApart, Live!Arm, Live!ParentAtRest, Live!StepsShown, Live!models
<1> QED BY <1>4, <1>5, <1>6, <1>7

\* One more Quarter of controls, of which "steps" are acted on.
LEMMA QuarterOn ==
    ASSUME NEW r \in Nat, NEW q \in Nat, q > 0, NEW steps \in Nat
    PROVE  /\ r * q \in Nat /\ (r + 1) * q \in Nat /\ (r + 1) * q = r * q + q
           /\ Live!Smaller(r * q, steps) \in Nat /\ Live!Smaller((r + 1) * q, steps) \in Nat
           /\ Live!Smaller((r + 1) * q, steps) <= (r + 1) * q
           /\ Live!Smaller((r + 1) * q, steps) # Live!Smaller(r * q, steps) =>
                (r + 1) * q - Live!Smaller((r + 1) * q, steps) < q
<1>1. r * q \in Nat /\ (r + 1) * q = r * q + q OBVIOUS
<1>2. PICK a \in Nat : a = r * q BY <1>1
<1>3. PICK b \in Nat : b = (r + 1) * q /\ b = a + q BY <1>1, <1>2
<1>4. /\ Live!Smaller(a, steps) \in Nat /\ Live!Smaller(b, steps) \in Nat
      /\ Live!Smaller(b, steps) <= b
      /\ Live!Smaller(b, steps) # Live!Smaller(a, steps) => b - Live!Smaller(b, steps) < q
  BY <1>3 DEF Live!Smaller
<1> QED BY <1>2, <1>3, <1>4

\* Of one more observation: its number and what it shows.
LEMMA ObservationFacts ==
    ASSUME Live!Configured, Live!EpisodeInv, Live!Observe
    PROVE  \E new \in [step : Nat, scene : Live!Scene] :
             /\ shown' = Append(shown, new) /\ new.scene = reply.snapshots[Live!Rendered + 1]
             /\ new.step = total + (Live!Rendered + 1) * Quarter
             /\ new.scene.done = total + Live!Smaller((Live!Rendered + 1) * Quarter, reply.steps)
<1> USE DEF Live!EpisodeInv
<1>1. at = "observe" /\ Live!Rendering BY DEF Live!Observe, Live!Rendering
<1>2. parent.scene = reply.snapshots[Live!Rendered + 1] BY <1>1 DEF Live!Moved
<1>3. /\ total \in Nat /\ Live!Rendered \in Nat /\ Quarter \in Nat /\ Quarter > 0
      /\ reply.steps \in Nat
      /\ Live!Rendered + 1 \in 1..Len(reply.snapshots) /\ reply.snapshots \in Seq(Live!Scene)
  BY <1>1, RenderFacts
<1>4. (Live!Rendered + 1) * Quarter \in Nat BY <1>3, QuarterOn
<1>5. reply.snapshots[Live!Rendered + 1] \in Live!Scene BY <1>3
<1>6. reply.snapshots[Live!Rendered + 1].done = total + Live!Smaller((Live!Rendered + 1) * Quarter, reply.steps)
  BY <1>1, <1>3 DEF Live!Moved
<1>7. PICK n \in Nat : n = total + (Live!Rendered + 1) * Quarter BY <1>3, <1>4
<1>8. PICK s \in Live!Scene : s = reply.snapshots[Live!Rendered + 1] BY <1>5
<1>9. shown' = Append(shown, [step |-> n, scene |-> s]) BY <1>2, <1>7, <1>8 DEF Live!Observe
<1> QED BY <1>6, <1>7, <1>8, <1>9

\* The parent is put back, and the observation says what the worker had done.
LEMMA ObserveInv ==
    ASSUME Live!Configured, Live!EpisodeInv, Live!Observe PROVE Live!EpisodeInv'
<1> USE DEF Live!EpisodeInv
<1>1. /\ at = "observe" /\ Live!Rendering /\ Live!Rendering' /\ parent' = Live!Initial
      /\ at' = IF Live!Rendered + 1 = Len(reply.snapshots) THEN "record" ELSE "render"
  BY DEF Live!Observe, Live!Rendering
<1>2. UNCHANGED <<turn, chunk, Live!models, world, reply, total, success, episodes, workers,
                  outcome>>
  BY DEF Live!Observe
<1>3. /\ total \in Nat /\ Live!Rendered \in Nat /\ Quarter \in Nat /\ Quarter > 0
      /\ reply.steps \in Nat
      /\ Live!Rendered + 1 \in 1..Len(reply.snapshots) /\ shown \in Seq([step : Nat, scene : Live!Scene])
      /\ shown # <<>> /\ chunk \in Nat
  BY <1>1, RenderFacts
<1>4. PICK new \in [step : Nat, scene : Live!Scene] :
        /\ shown' = Append(shown, new) /\ new.scene = reply.snapshots[Live!Rendered + 1]
        /\ new.step = total + (Live!Rendered + 1) * Quarter
        /\ new.scene.done = total + Live!Smaller((Live!Rendered + 1) * Quarter, reply.steps)
  BY ObservationFacts
<1>5. /\ shown' \in Seq([step : Nat, scene : Live!Scene]) /\ Len(shown') = Len(shown) + 1
      /\ shown'[Len(shown) + 1] = new /\ \A i \in 1..Len(shown) : shown'[i] = shown[i]
  BY <1>3, <1>4, Appended
<1>6. Live!Rendered' = Live!Rendered + 1 /\ Live!Latest' = new /\ shown' # <<>>
  <2>1. Live!BeforeChunk(chunk) \in Nat /\ Live!BeforeChunk(chunk)' = Live!BeforeChunk(chunk)
    BY <1>2, <1>3, Grid DEF Live!BeforeChunk
  <2>2. Len(shown) \in Nat BY <1>3
  <2>3. PICK b \in Nat : b = Live!BeforeChunk(chunk) BY <2>1
  <2>4. Live!Rendered' = Len(shown') - 1 - b /\ Live!Rendered = Len(shown) - 1 - b
    BY <1>2, <2>1, <2>3 DEF Live!Rendered, Live!BeforeChunk
  <2>5. Live!Rendered' = Live!Rendered + 1 BY <1>5, <2>2, <2>4
  <2>6. shown' # <<>> BY <1>5, <2>2
  <2> QED BY <1>5, <2>5, <2>6 DEF Live!Latest
<1>7. Live!Typed'
  <2>1. Live!TypeOK'
    BY <1>1, <1>2 DEF Live!Typed, Live!TypeOK, Live!Cache, Live!Initial, Live!models
  <2> QED BY <1>1, <1>2, <1>5, <2>1 DEF Live!Typed, Live!Thinking, Live!Rendering, Live!models
<1>8. Live!Shown' /\ Live!Conditioned'
  BY <1>1, <1>2
  DEF Live!Shown, Live!InEpisode, Live!CacheName, Live!Arm, Live!Conditioned, Live!models
<1>9. Live!Moved'
  <2>1. Live!Available' = Live!Available /\ Live!StartFrame' = Live!StartFrame
    BY <1>2 DEF Live!Available, Live!StartFrame
  <2>2. /\ Live!Rendered' \in 0..Len(reply'.snapshots)
        /\ at' = "record" <=> Live!Rendered' = Len(reply'.snapshots)
    BY <1>1, <1>2, <1>3, <1>6
  <2>3. Live!Latest'.scene.done = total' + Live!Smaller(Live!Rendered' * Quarter, reply'.steps)
        /\ Live!Latest'.step = total' + Live!Rendered' * Quarter
    BY <1>2, <1>4, <1>6
  <2>4. /\ world'.done = total' + reply'.steps /\ world'.done <= MaxControls
        /\ reply'.terminal = world'.latched /\ reply'.steps <= Live!Available'
        /\ Len(reply'.snapshots) = ((PlanFrames - Live!StartFrame) * KeyFrames)'
        /\ \A k \in 1..Len(reply'.snapshots) :
             reply'.snapshots[k].done = total' + Live!Smaller(k * Quarter, reply'.steps)
        /\ StopOnSuccess => world'.latched \/ reply'.steps = Live!Available' \/ world'.done = MaxControls
    BY <1>1, <1>2, <2>1 DEF Live!Moved
  <2> QED
    BY <1>1, <1>6, <2>2, <2>3, <2>4
    DEF Live!Moved, Live!Thinking, Live!Rendering, Live!InEpisode
<1>10. Live!StepsShown'
  <2> DEFINE was == Live!Smaller(Live!Rendered * Quarter, reply.steps)
             now == Live!Smaller((Live!Rendered + 1) * Quarter, reply.steps)
             mark == (Live!Rendered + 1) * Quarter
  <2>1. /\ was \in Nat /\ now \in Nat /\ mark \in Nat /\ now <= mark
        /\ Live!Rendered * Quarter \in Nat /\ mark = Live!Rendered * Quarter + Quarter
        /\ now # was => mark - now < Quarter
    BY <1>3, QuarterOn
  <2>2. shown[Len(shown)].scene.done = total + was
        /\ (StopOnSuccess => shown[Len(shown)].step = total + Live!Rendered * Quarter)
    BY <1>1 DEF Live!Moved, Live!Latest
  <2>3. new.scene.done = total + now /\ new.step = total + mark BY <1>4
  <2> HIDE DEF was, now, mark
  <2>4. new.step >= new.scene.done BY <1>3, <2>1, <2>3
  <2>5. new.scene.done # shown[Len(shown)].scene.done => new.step - new.scene.done < Quarter
    BY <1>3, <2>1, <2>2, <2>3
  <2>6. StopOnSuccess => shown[Len(shown)].step < new.step BY <1>3, <2>1, <2>2, <2>3
  <2>7. Len(shown) \in Nat /\ Len(shown) > 0 BY <1>3
  <2>8. ASSUME NEW i \in 1..Len(shown')
        PROVE  /\ shown'[i].step >= shown'[i].scene.done
               /\ i > 1 /\ shown'[i].scene.done # shown'[i - 1].scene.done =>
                    shown'[i].step - shown'[i].scene.done < Quarter
    <3>1. CASE i = Len(shown) + 1
      <4>1. i - 1 = Len(shown) /\ Len(shown) \in 1..Len(shown) BY <2>7, <3>1
      <4>2. shown'[i] = new /\ shown'[i - 1] = shown[Len(shown)] BY <1>5, <3>1, <4>1
      <4> QED BY <2>4, <2>5, <4>2
    <3>2. CASE i # Len(shown) + 1
      <4>1. i \in 1..Len(shown) /\ (i > 1 => i - 1 \in 1..Len(shown)) BY <1>5, <2>7, <3>2
      <4>2. shown'[i] = shown[i] /\ (i > 1 => shown'[i - 1] = shown[i - 1]) BY <1>5, <4>1
      <4> QED BY <4>1, <4>2 DEF Live!StepsShown
    <3> QED BY <3>1, <3>2
  <2>9. ASSUME StopOnSuccess, NEW i \in 2..Len(shown') PROVE shown'[i - 1].step < shown'[i].step
    <3>1. CASE i = Len(shown) + 1
      <4>1. i - 1 = Len(shown) /\ Len(shown) \in 1..Len(shown) BY <2>7, <3>1
      <4>2. shown'[i] = new /\ shown'[i - 1] = shown[Len(shown)] BY <1>5, <3>1, <4>1
      <4> QED BY <2>6, <2>9, <4>2
    <3>2. CASE i # Len(shown) + 1
      <4>1. i \in 2..Len(shown) /\ i \in 1..Len(shown) /\ i - 1 \in 1..Len(shown)
        BY <1>5, <2>7, <3>2
      <4>2. shown'[i] = shown[i] /\ shown'[i - 1] = shown[i - 1] BY <1>5, <4>1
      <4> QED BY <2>9, <4>1, <4>2 DEF Live!StepsShown
    <3> QED BY <3>1, <3>2
  <2> QED BY <2>8, <2>9 DEF Live!StepsShown
<1>11. Live!NoiseKept' /\ Live!ArmsApart' /\ Live!ParentAtRest'
  BY <1>1, <1>2 DEF Live!NoiseKept, Live!ArmsApart, Live!Arm, Live!ParentAtRest, Live!models
<1> QED BY <1>7, <1>8, <1>9, <1>10, <1>11

\* The batch a record is encoded after: those of the arm's chunks in order.
LEMMA RecordFacts ==
    ASSUME Live!Configured, Live!EpisodeInv, at = "record"
    PROVE  /\ Live!Record \in Live!HistoryRecord
           /\ Live!Record.latent = [k \in 1..(chunk + 2) |-> <<Live!Arm, k - 1>>]
           /\ Live!Record.latent \in Seq(Live!ToSet(Arms) \X Nat)
           /\ Live!Record = [arm |-> Live!Arm, chunk |-> chunk, latent |-> Live!Record.latent]
           /\ chunk \in Nat /\ chunk < Chunks /\ Len(history) = chunk
<1> USE DEF Live!EpisodeInv
<1>1. chunk \in Nat /\ chunk < Chunks /\ chunk \in 0..Chunks
  BY DEF Live!Typed, Live!TypeOK, Live!Rendering
<1>2. Live!Arm \in Live!ToSet(Arms) BY ArmFacts DEF Live!Typed, Live!TypeOK
<1>3. encoded = [k \in 1..(chunk + 1) |-> <<Live!Arm, k - 1>>] /\ Len(history) = chunk
      /\ encoded \in Seq(Live!ToSet(Arms) \X Nat)
  BY DEF Live!Shown, Live!InEpisode, Live!Typed
<1>4. <<Live!Arm, chunk + 1>> \in Live!ToSet(Arms) \X Nat BY <1>1, <1>2
<1>5. /\ Live!Record.latent = Append(encoded, <<Live!Arm, chunk + 1>>)
      /\ Live!Record = [arm |-> Live!Arm, chunk |-> chunk, latent |-> Live!Record.latent]
  BY DEF Live!Record
<1>6. /\ Live!Record.latent \in Seq(Live!ToSet(Arms) \X Nat) /\ Len(encoded) = chunk + 1
      /\ Len(Live!Record.latent) = chunk + 2
      /\ Live!Record.latent[chunk + 2] = <<Live!Arm, chunk + 1>>
      /\ \A i \in 1..(chunk + 1) : Live!Record.latent[i] = encoded[i]
  <2>1. Len(encoded) = chunk + 1 BY <1>1, <1>3
  <2>2. (chunk + 1) + 1 = chunk + 2 BY <1>1
  <2> QED BY <1>3, <1>4, <1>5, <2>1, <2>2, Appended
<1>7. Live!Record.latent = [k \in 1..(chunk + 2) |-> <<Live!Arm, k - 1>>]
  <2>1. ASSUME NEW k \in 1..(chunk + 2) PROVE Live!Record.latent[k] = <<Live!Arm, k - 1>>
    <3>1. CASE k = chunk + 2
      <4>1. k - 1 = chunk + 1 BY <1>1, <3>1
      <4> QED BY <1>6, <3>1, <4>1
    <3>2. CASE k # chunk + 2
      <4>1. k \in 1..(chunk + 1) BY <1>1, <3>2
      <4> QED BY <1>3, <1>6, <4>1
    <3> QED BY <3>1, <3>2
  <2>2. /\ DOMAIN Live!Record.latent = 1..(chunk + 2)
        /\ Live!Record.latent = [k \in DOMAIN Live!Record.latent |-> Live!Record.latent[k]]
    BY <1>6
  <2> QED BY <2>1, <2>2
<1>8. Live!Record \in Live!HistoryRecord
  <2>1. PICK l \in Seq(Live!ToSet(Arms) \X Nat) : l = Live!Record.latent BY <1>6
  <2>2. Live!Record = [arm |-> Live!Arm, chunk |-> chunk, latent |-> l] BY <1>5, <2>1
  <2> QED BY <1>1, <1>2, <2>2 DEF Live!HistoryRecord
<1> QED BY <1>1, <1>3, <1>5, <1>6, <1>7, <1>8

\* A chunk that ends: its steps are counted, its record is heard, the next one renders from nothing.
LEMMA EndChunkFacts ==
    ASSUME Live!Configured, Live!EpisodeInv, Live!EndChunk
    PROVE  /\ at = "record" /\ at' \in {"video", "ended"} /\ chunk' = chunk + 1
           /\ chunk' \in 1..Chunks
           /\ UNCHANGED <<turn, plan, conds, world, parent, reply, shown, episodes, workers, outcome>>
           /\ total' = world.done /\ total' \in 0..MaxControls /\ success' \in BOOLEAN
           /\ world.latched => success'
           /\ at' = "video" => chunk' < Chunks /\ total' < MaxControls /\ (StopOnSuccess => ~success')
<1> USE DEF Live!EpisodeInv
<1>1. /\ at = "record" /\ Live!Rendering /\ total' = total + reply.steps
      /\ UNCHANGED <<turn, plan, conds, world, parent, reply, shown, episodes, workers, outcome>>
  BY DEF Live!EndChunk, Live!Rendering, Live!scenes
<1>2. chunk \in Nat /\ chunk < Chunks /\ Chunks \in Nat /\ MaxControls \in Nat /\ total \in Nat
  BY <1>1 DEF Live!Typed, Live!TypeOK, Live!Configured
<1>3. /\ total' = world.done /\ world.done <= MaxControls /\ world.done \in Nat
      /\ reply.terminal = world.latched
  BY <1>1 DEF Live!Moved, Live!Typed, Live!Scene
<1>4. PICK seenDone \in BOOLEAN :
        /\ success' = Live!Succeeds(seenDone)
        /\ IF Live!EpisodeOver(success', total')
           THEN at' = "ended" /\ chunk' = chunk + 1
           ELSE at' = "video" /\ chunk' = chunk + 1
  BY DEF Live!EndChunk
<1>5. success' \in BOOLEAN /\ (world.latched => success')
  <2>1. reply.terminal \in BOOLEAN BY DEF Live!Typed
  <2> QED BY <1>3, <1>4, <2>1 DEF Live!Succeeds
<1>6. at' \in {"video", "ended"} /\ chunk' = chunk + 1 /\ chunk' \in 1..Chunks BY <1>2, <1>4
<1>7. ASSUME at' = "video"
      PROVE  chunk' < Chunks /\ total' < MaxControls /\ (StopOnSuccess => ~success')
  <2>1. ~Live!EpisodeOver(success', total') BY <1>4, <1>7
  <2> QED BY <1>2, <1>3, <1>6, <2>1 DEF Live!EpisodeOver
<1> QED BY <1>1, <1>2, <1>3, <1>5, <1>6, <1>7

\* The chunk's record closes it: caches, history and counters agree for the next one.
LEMMA EndChunkInv ==
    ASSUME Live!Configured, Live!EpisodeInv, Live!EndChunk PROVE Live!EpisodeInv'
<1> USE DEF Live!EpisodeInv
<1>1. /\ at = "record" /\ at' \in {"video", "ended"} /\ chunk' = chunk + 1
      /\ chunk' \in 1..Chunks
      /\ UNCHANGED <<turn, plan, conds, world, parent, reply, shown, episodes, workers, outcome>>
      /\ total' = world.done /\ total' \in 0..MaxControls /\ success' \in BOOLEAN
      /\ world.latched => success'
      /\ at' = "video" => chunk' < Chunks /\ total' < MaxControls /\ (StopOnSuccess => ~success')
  BY EndChunkFacts
<1>2. /\ Live!Record \in Live!HistoryRecord
      /\ Live!Record.latent = [k \in 1..(chunk + 2) |-> <<Live!Arm, k - 1>>]
      /\ Live!Record.latent \in Seq(Live!ToSet(Arms) \X Nat)
      /\ Live!Record = [arm |-> Live!Arm, chunk |-> chunk, latent |-> Live!Record.latent]
      /\ chunk \in Nat /\ chunk < Chunks /\ Len(history) = chunk
  BY <1>1, RecordFacts
<1>3. /\ encoded' = Live!Record.latent /\ history' = Append(history, Live!Record)
      /\ IF Live!Arm # "TT" THEN Live!AppendStudent(Live!Record) ELSE UNCHANGED <<student, frameSt>>
      /\ teacher' = IF Live!Arm # "SS" THEN Live!Cleared(Live!CacheName) ELSE teacher
  BY DEF Live!EndChunk
<1>4. Live!Arm' = Live!Arm /\ Live!InEpisode /\ Live!Rendering
  BY <1>1 DEF Live!Arm, Live!InEpisode, Live!Rendering
<1>5. /\ history' \in Seq(Live!HistoryRecord) /\ Len(history') = chunk + 1
      /\ history'[chunk + 1] = Live!Record
      /\ \A i \in 1..chunk : history'[i] = history[i]
  <2>1. history \in Seq(Live!HistoryRecord) BY DEF Live!Typed
  <2> QED BY <1>2, <1>3, <2>1, Appended
<1>6. DOMAIN teacher' = {}
  <2>1. CASE Live!Arm = "SS"
    <3>1. DOMAIN teacher = {} BY <1>4, <2>1 DEF Live!Shown
    <3> QED BY <1>3, <2>1, <3>1
  <2>2. CASE Live!Arm # "SS"
    <3>1. DOMAIN teacher \subseteq {Live!CacheName} BY DEF Live!Shown
    <3>2. DOMAIN teacher' = DOMAIN teacher \ {Live!CacheName} BY <1>3, <2>2 DEF Live!Cleared
    <3> QED BY <3>1, <3>2
  <2> QED BY <2>1, <2>2
<1>7. ASSUME Live!Arm # "TT"
      PROVE  student' = [seen |-> history', guess |-> <<>>] /\ frameSt' = PlanFrames * (chunk + 1)
  <2>1. student.seen = history /\ frameSt = PlanFrames * chunk BY <1>4, <1>7 DEF Live!Shown
  <2>2. student' = [seen |-> history', guess |-> <<>>]
    BY <1>3, <1>7, <2>1 DEF Live!AppendStudent
  <2>3. frameSt' = PlanFrames * chunk + PlanFrames BY <1>3, <1>7, <2>1 DEF Live!AppendStudent
  <2>4. PlanFrames * chunk + PlanFrames = PlanFrames * (chunk + 1) BY <1>2 DEF Live!Configured
  <2> QED BY <2>2, <2>3, <2>4
<1>8. Live!Cache(student') /\ frameSt' \in Nat
  <2>1. CASE Live!Arm = "TT" BY <1>3, <2>1 DEF Live!Typed, Live!TypeOK
  <2>2. CASE Live!Arm # "TT"
    <3>1. PlanFrames * (chunk + 1) \in Nat BY <1>2 DEF Live!Configured
    <3> QED BY <1>5, <1>7, <2>2, <3>1 DEF Live!Cache, Live!HistoryRecord
  <2> QED BY <2>1, <2>2
<1>9. Live!Typed'
  <2>1. Live!TypeOK' BY <1>1, <1>6, <1>8 DEF Live!Typed, Live!TypeOK, Live!Cache
  <2> QED BY <1>1, <1>2, <1>3, <1>5, <2>1 DEF Live!Typed, Live!Thinking, Live!Rendering
<1>10. Live!Shown'
  <2>1. encoded' = [k \in 1..(chunk' + 1) |-> <<Live!Arm', k - 1>>]
    <3>1. chunk' + 1 = chunk + 2 BY <1>1, <1>2
    <3> QED BY <1>2, <1>3, <1>4, <3>1
  <2> QED BY <1>1, <1>4, <1>5, <1>6, <1>7, <2>1 DEF Live!Shown
<1>11. Live!Conditioned' BY <1>1 DEF Live!Conditioned
<1>12. Live!Rendered' = 0 /\ Live!Latest.scene.done = world.done /\ shown # <<>>
  <2>1. /\ Shots \in Nat /\ Quarter \in Nat /\ Live!Available = Shots * Quarter
        /\ Live!Available \in Nat
        /\ Live!BeforeChunk(chunk) \in Nat
        /\ Live!BeforeChunk(chunk + 1) = Live!BeforeChunk(chunk) + Shots
    BY <1>2, Grid
  <2>2. Live!Rendered = Shots /\ shown \in Seq([step : Nat, scene : Live!Scene]) /\ shown # <<>>
    BY <1>1, <1>4, RenderFacts DEF Live!Moved, Shots
  <2>3. Live!Rendered' = Len(shown) - 1 - Live!BeforeChunk(chunk + 1)
    BY <1>1 DEF Live!Rendered, Live!BeforeChunk
  <2>4. Live!Rendered = Len(shown) - 1 - Live!BeforeChunk(chunk) BY DEF Live!Rendered
  <2>5. Len(shown) \in Nat BY <2>2
  <2>6. PICK b \in Nat : b = Live!BeforeChunk(chunk) BY <2>1
  <2>7. Live!Rendered' = Len(shown) - 1 - (b + Shots) /\ Shots = Len(shown) - 1 - b
    BY <2>1, <2>2, <2>3, <2>4, <2>6
  <2>8. Live!Rendered' = 0 BY <2>1, <2>5, <2>7
  <2>9. Live!Latest.scene.done = total + Live!Smaller(Live!Available, reply.steps)
    BY <1>4, <2>1, <2>2 DEF Live!Moved
  <2>10. /\ reply.steps <= Live!Available /\ world.done = total + reply.steps
         /\ reply.steps \in Nat
    BY <1>4 DEF Live!Moved, Live!Typed
  <2>11. Live!Smaller(Live!Available, reply.steps) = reply.steps BY <2>1, <2>10 DEF Live!Smaller
  <2> QED BY <2>2, <2>8, <2>9, <2>10, <2>11
<1>13. ASSUME StopOnSuccess, at' = "video" PROVE ~world.latched /\ Live!Latest.step = world.done
  <2>1. ~world.latched BY <1>1, <1>13
  <2>2. Live!Latest.step = total + Live!Rendered * Quarter
        /\ (reply.steps = Live!Available \/ world.done = MaxControls)
    BY <1>4, <1>13, <2>1 DEF Live!Moved
  <2>3. world.done # MaxControls BY <1>1, <1>13 DEF Live!Configured
  <2>4. Live!Rendered = Shots /\ Live!Available = Shots * Quarter
    <3>1. Live!Available = Shots * Quarter BY <1>2, Grid
    <3> QED BY <1>1, <1>4, <3>1 DEF Live!Moved, Shots
  <2>5. world.done = total + reply.steps BY <1>4 DEF Live!Moved
  <2> QED BY <2>1, <2>2, <2>3, <2>4, <2>5
<1>14. Live!Moved'
  <2>1. Live!Latest' = Live!Latest /\ shown' = shown /\ world' = world BY <1>1 DEF Live!Latest
  <2>2. ~Live!Rendering' /\ (Live!Thinking' => at' = "video")
    BY <1>1 DEF Live!Rendering, Live!Thinking
  <2> QED BY <1>1, <1>12, <1>13, <2>1, <2>2 DEF Live!Moved
<1>15. Live!ArmsApart'
  <2>1. ASSUME NEW i \in 1..(chunk + 1)
        PROVE  history'[i] = [arm |-> Live!Arm, chunk |-> i - 1, latent |-> [k \in 1..i + 1 |-> <<Live!Arm, k - 1>>]]
    <3>1. CASE i = chunk + 1
      <4>1. i - 1 = chunk /\ i + 1 = chunk + 2 BY <1>2, <3>1
      <4> QED BY <1>2, <1>5, <3>1, <4>1
    <3>2. CASE i # chunk + 1
      <4>1. i \in 1..chunk BY <1>2, <3>2
      <4> QED BY <1>2, <1>4, <1>5, <4>1 DEF Live!ArmsApart, Live!InEpisode
    <3> QED BY <3>1, <3>2
  <2> QED BY <1>4, <1>5, <2>1 DEF Live!ArmsApart
<1>16. Live!NoiseKept' /\ Live!ParentAtRest' /\ Live!StepsShown'
  BY <1>1 DEF Live!NoiseKept, Live!ParentAtRest, Live!StepsShown
<1> QED BY <1>9, <1>10, <1>11, <1>14, <1>15, <1>16

\* The worker's last scene is measured in the parent.
LEMMA ShowProgressInv ==
    ASSUME Live!Configured, Live!EpisodeInv, Live!ShowProgress PROVE Live!EpisodeInv'
<1> USE DEF Live!EpisodeInv
<1>1. at = "ended" /\ at' = "measure" /\ parent' = [arm |-> Live!Arm, scene |-> world]
      /\ UNCHANGED <<turn, chunk, Live!models, world, reply, shown, total, success, episodes, workers, outcome>>
  BY DEF Live!ShowProgress
<1>2. Live!Arm \in Live!ToSet(Arms) BY ArmFacts DEF Live!Typed, Live!TypeOK
<1>3. Live!TypeOK' BY <1>1, <1>2 DEF Live!Typed, Live!TypeOK, Live!Cache, Live!models
<1>4. Live!Typed' BY <1>1, <1>3 DEF Live!Typed, Live!Thinking, Live!Rendering, Live!models
<1>5. Live!Shown' /\ Live!Conditioned'
  BY <1>1
  DEF Live!Shown, Live!InEpisode, Live!CacheName, Live!Arm, Live!Conditioned, Live!models
<1>6. Live!Moved' BY <1>1 DEF Live!Moved, Live!InEpisode, Live!Thinking, Live!Rendering
<1>7. Live!NoiseKept' /\ Live!ArmsApart' /\ Live!ParentAtRest' /\ Live!StepsShown'
  BY <1>1
  DEF Live!NoiseKept, Live!ArmsApart, Live!InEpisode, Live!Arm, Live!ParentAtRest,
      Live!StepsShown, Live!models
<1> QED BY <1>4, <1>5, <1>6, <1>7

\* An arm's row keeps the noise of each of its chunks, in order.
LEMMA RowFacts ==
    ASSUME Live!Configured, Live!Typed, chunk > 0
    PROVE  /\ [c \in 1..chunk |-> Live!Noise(Live!Arm, c - 1)] \in Seq({"student", "teacher"} \X Nat)
           /\ Len([c \in 1..chunk |-> Live!Noise(Live!Arm, c - 1)]) = chunk
           /\ Shared => \A c \in 1..chunk : Live!Noise(Live!Arm, c - 1) = <<"student", c - 1>>
<1>1. chunk \in Nat BY DEF Live!Typed, Live!TypeOK, Live!Configured
<1>2. ASSUME NEW c \in 1..chunk
      PROVE Live!Noise(Live!Arm, c - 1) \in {"student", "teacher"} \X Nat
  BY <1>1, <1>2 DEF Live!Noise, Live!Family
<1>3. [c \in 1..chunk |-> Live!Noise(Live!Arm, c - 1)] \in [1..chunk -> {"student", "teacher"} \X Nat]
  BY <1>2
<1>4. Shared => \A c \in 1..chunk : Live!Noise(Live!Arm, c - 1) = <<"student", c - 1>>
  BY DEF Live!Noise, Live!Family
<1> QED BY <1>1, <1>3, <1>4

\* The next arm starts where the first one did.
LEMMA EndArmInv ==
    ASSUME Live!Configured, Live!EpisodeInv, Live!EndArm PROVE Live!EpisodeInv'
<1> USE DEF Live!EpisodeInv
<1> DEFINE row == [c \in 1..chunk |-> Live!Noise(Live!Arm, c - 1)]
<1>1. /\ at \in {"ended", "measure"} /\ parent' = Live!Initial
      /\ episodes' = Append(episodes, row)
      /\ workers' \subseteq workers /\ chunk' = 0
      /\ UNCHANGED <<Live!models, world, reply, shown, total, success, outcome>>
      /\ \/ turn = Len(Arms) /\ at' = "report" /\ turn' = turn
         \/ turn # Len(Arms) /\ at' = "start" /\ turn' = turn + 1
  BY DEF Live!EndArm
<1>2. turn \in 1..Len(Arms) /\ turn' \in 1..Len(Arms) /\ Len(Arms) \in Nat /\ Chunks \in Nat
  BY <1>1 DEF Live!Typed, Live!TypeOK, Live!Configured
<1>3. chunk > 0 BY <1>1 DEF Live!Typed
<1>4. /\ DOMAIN teacher = {}
      /\ UNCHANGED <<student, teacher, frameSt, encoded, history, plan, conds>>
  BY <1>1 DEF Live!Shown, Live!models
<1>5. Live!TypeOK' BY <1>1, <1>2, <1>4 DEF Live!Typed, Live!TypeOK, Live!Cache, Live!Initial
<1>6. Live!Typed'
  <2>1. at' \in {"start", "report"} /\ chunk' = 0 BY <1>1
  <2> QED BY <1>1, <1>4, <1>5, <2>1 DEF Live!Typed, Live!Thinking, Live!Rendering
<1>7. Live!Shown' /\ Live!Conditioned' /\ Live!Moved'
  BY <1>1, <1>4
  DEF Live!Shown, Live!InEpisode, Live!Conditioned, Live!Moved, Live!Thinking, Live!Rendering
<1>8. Live!ArmsApart' /\ Live!ParentAtRest' /\ Live!StepsShown'
  BY <1>1 DEF Live!ArmsApart, Live!ParentAtRest, Live!StepsShown
<1>9. /\ row \in Seq({"student", "teacher"} \X Nat) /\ Len(row) = chunk
      /\ Shared => \A c \in 1..Len(row) : row[c] = <<"student", c - 1>>
  BY <1>3, RowFacts
<1> HIDE DEF row
<1>10. Live!NoiseKept'
  <2>1. episodes \in Seq(Seq({"student", "teacher"} \X Nat)) /\ Len(episodes) = turn - 1
    BY <1>1 DEF Live!NoiseKept
  <2>2. /\ episodes' \in Seq(Seq({"student", "teacher"} \X Nat)) /\ Len(episodes') = turn
        /\ episodes'[turn] = row /\ \A i \in 1..(turn - 1) : episodes'[i] = episodes[i]
    <3>1. Len(episodes) + 1 = turn BY <1>2, <2>1
    <3> QED BY <1>1, <1>9, <2>1, <3>1, Appended
  <2>3. ASSUME NEW i \in 1..Len(episodes')
        PROVE  /\ Len(episodes'[i]) > 0
               /\ Shared => \A c \in 1..Len(episodes'[i]) : episodes'[i][c] = <<"student", c - 1>>
    <3>1. CASE i = turn BY <1>3, <1>9, <2>2, <3>1
    <3>2. CASE i # turn
      <4>1. i \in 1..(turn - 1) BY <1>2, <2>2, <3>2
      <4>2. i \in 1..Len(episodes) /\ episodes'[i] = episodes[i] BY <2>1, <2>2, <4>1
      <4> QED BY <4>2 DEF Live!NoiseKept
    <3> QED BY <3>1, <3>2
  <2>4. at' \notin {"close", "closed"} =>
          Len(episodes') = IF at' = "report" THEN Len(Arms) ELSE turn' - 1
    BY <1>1, <1>2, <2>2
  <2> QED BY <2>2, <2>3, <2>4 DEF Live!NoiseKept
<1> QED BY <1>6, <1>7, <1>8, <1>10

\* What is left after the last arm keeps no model busy.
LEMMA EpisodeClosingInv ==
    ASSUME Live!Configured, Live!EpisodeInv, Live!Report \/ Live!Close PROVE Live!EpisodeInv'
<1> USE DEF Live!EpisodeInv
<1>1. /\ at \in {"report", "close"} /\ at' \in {"close", "closed"}
      /\ UNCHANGED <<turn, chunk, Live!models, Live!scenes, total, success, episodes>>
      /\ workers' \subseteq workers /\ outcome' \in {outcome, "PASS", "BLOCKED"}
  BY DEF Live!Report, Live!Close
<1>2. Live!TypeOK' BY <1>1 DEF Live!Typed, Live!TypeOK, Live!Cache, Live!models, Live!scenes
<1>3. Live!Typed'
  BY <1>1, <1>2 DEF Live!Typed, Live!Thinking, Live!Rendering, Live!models, Live!scenes
<1>4. Live!Shown' /\ Live!Conditioned' /\ Live!Moved'
  BY <1>1
  DEF Live!Shown, Live!InEpisode, Live!CacheName, Live!Arm, Live!Conditioned, Live!Moved,
      Live!Thinking, Live!Rendering, Live!models, Live!scenes
<1>5. Live!NoiseKept' /\ Live!ArmsApart' /\ Live!ParentAtRest' /\ Live!StepsShown'
  BY <1>1
  DEF Live!NoiseKept, Live!ArmsApart, Live!ParentAtRest, Live!StepsShown, Live!models,
      Live!scenes
<1> QED BY <1>3, <1>4, <1>5

\* Every step of the runner keeps the inductive invariant.
LEMMA EpisodeNextInv ==
    ASSUME Live!Configured, Live!EpisodeInv, [Live!Next]_(Live!vars) PROVE Live!EpisodeInv'
<1>1. CASE Live!Begin BY <1>1, EpisodeBeginInv
<1>2. CASE Live!StudentPlan BY <1>2, StudentPlanInv
<1>3. CASE Live!TeacherOnStudentPlan BY <1>3, TeacherOnStudentPlanInv
<1>4. CASE Live!TeacherPlan BY <1>4, TeacherPlanInv
<1>5. CASE Live!TeacherAction BY <1>5, TeacherActionInv
<1>6. CASE Live!StudentActionOnTeacherPlan BY <1>6, StudentActionInv
<1>7. CASE Live!Compare BY <1>7, CompareInv
<1>8. CASE Live!Step BY <1>8, StepInv
<1>9. CASE Live!Show BY <1>9, ShowInv
<1>10. CASE Live!Observe BY <1>10, ObserveInv
<1>11. CASE Live!EndChunk BY <1>11, EndChunkInv
<1>12. CASE Live!ShowProgress BY <1>12, ShowProgressInv
<1>13. CASE Live!EndArm BY <1>13, EndArmInv
<1>14. CASE Live!Report \/ Live!Close BY <1>14, EpisodeClosingInv
<1>15. CASE Live!Fail BY <1>15, BlockInv DEF Live!Fail
<1>16. CASE UNCHANGED Live!vars
  <2> USE DEF Live!EpisodeInv
  <2>1. UNCHANGED <<turn, at, chunk, Live!models, Live!scenes, total, success, episodes,
                    workers, outcome>>
    BY <1>16 DEF Live!vars
  <2>2. Live!Typed'
    BY <2>1
    DEF Live!Typed, Live!TypeOK, Live!Cache, Live!Thinking, Live!Rendering, Live!models,
        Live!scenes
  <2>3. Live!Shown' /\ Live!Conditioned'
    BY <2>1
    DEF Live!Shown, Live!InEpisode, Live!CacheName, Live!CacheAt, Live!Arm, Live!Conditioned,
        Live!Told, Live!models, Live!scenes
  <2>4. Live!Moved'
    BY <2>1
    DEF Live!Moved, Live!InEpisode, Live!Thinking, Live!Rendering, Live!Rendered,
        Live!BeforeChunk, Live!Latest, Live!Available, Live!StartFrame,
         Live!models, Live!scenes
  <2>5. Live!NoiseKept' /\ Live!ArmsApart' /\ Live!ParentAtRest' /\ Live!StepsShown'
    BY <2>1
    DEF Live!NoiseKept, Live!ArmsApart, Live!Arm, Live!ParentAtRest, Live!StepsShown,
        Live!models, Live!scenes
  <2> QED BY <2>2, <2>3, <2>4, <2>5
<1> QED
  BY <1>1, <1>2, <1>3, <1>4, <1>5, <1>6, <1>7, <1>8, <1>9, <1>10, <1>11, <1>12, <1>13, <1>14,
     <1>15, <1>16
  DEF Live!Next, Live!Done

\* In any state of the inductive invariant the arms can be compared.
LEMMA InvComparable ==
    ASSUME Live!Configured, Live!EpisodeInv PROVE Live!ArmsComparable
<1> USE DEF Live!EpisodeInv
<1>1. Live!TypeOK BY DEF Live!Typed
<1>2. Live!StudentHears
  <2>1. at = "video" => Live!InEpisode BY DEF Live!InEpisode
  <2>2. "SS" # "TT" /\ "ST" # "TT" OBVIOUS
  <2> QED BY <2>1, <2>2 DEF Live!StudentHears, Live!Shown
<1>3. Live!ArmsApart /\ Live!ParentAtRest /\ Live!StepsShown OBVIOUS
<1>4. Live!SameCondition BY DEF Live!SameCondition, Live!Conditioned, Live!Told
<1>5. Live!TeacherForgets
  <2>1. DOMAIN teacher \subseteq {Live!CacheName} BY DEF Live!Shown
  <2> QED BY <2>1 DEF Live!TeacherForgets, Live!Shown
<1>6. Live!NoiseAgrees
  <2> SUFFICES ASSUME at = "report", Shared, Len(Arms) > 1 PROVE Live!NoiseShared
    BY DEF Live!NoiseAgrees
  <2>1. /\ episodes \in Seq(Seq({"student", "teacher"} \X Nat)) /\ Len(episodes) = Len(Arms)
        /\ \A i \in 1..Len(episodes) :
             Len(episodes[i]) > 0 /\ \A c \in 1..Len(episodes[i]) : episodes[i][c] = <<"student", c - 1>>
    BY DEF Live!NoiseKept
  <2>2. ASSUME NEW e \in Live!ToSet(episodes)
        PROVE  /\ e \in Seq({"student", "teacher"} \X Nat) /\ Len(e) > 0 /\ Len(e) \in Nat
               /\ \A c \in 1..Len(e) : e[c] = <<"student", c - 1>>
    <3>1. DOMAIN episodes = 1..Len(episodes) BY <2>1
    <3>2. PICK i \in 1..Len(episodes) : e = episodes[i] BY <3>1 DEF Live!ToSet
    <3> QED BY <2>1, <3>2
  <2>3. Live!Common(1)
    BY <2>2 DEF Live!Common
  <2>4. 1 \in 1..Len(episodes) /\ episodes[1] \in Live!ToSet(episodes)
    <3>1. Len(Arms) \in Nat /\ 1 \in 1..Len(episodes) BY <2>1 DEF Live!Configured
    <3> QED BY <2>1, <3>1 DEF Live!ToSet
  <2>5. ASSUME NEW e \in Live!ToSet(episodes), NEW c \in 1..Chunks, Live!Common(c)
        PROVE  e[c] = episodes[1][c]
    <3>1. c <= Len(e) /\ c <= Len(episodes[1]) BY <2>4, <2>5 DEF Live!Common
    <3>2. c \in 1..Len(e) /\ c \in 1..Len(episodes[1]) BY <2>2, <2>4, <3>1 DEF Live!Configured
    <3>3. e[c] = <<"student", c - 1>> BY <2>2, <3>2
    <3>4. episodes[1][c] = <<"student", c - 1>> BY <2>2, <2>4, <3>2
    <3> QED BY <3>3, <3>4
  <2> QED BY <2>1, <2>3, <2>5 DEF Live!NoiseShared
<1>7. Live!HorizonKept
  <2>1. at \in {"video", "step", "ended"} => total = world.done BY DEF Live!Moved, Live!Thinking
  <2>2. total <= MaxControls BY DEF Live!Typed, Live!TypeOK, Live!Configured
  <2> QED BY <2>1, <2>2 DEF Live!HorizonKept
<1> QED BY <1>1, <1>2, <1>3, <1>4, <1>5, <1>6, <1>7 DEF Live!ArmsComparable

\* A chunk that is recorded reports the success that the worker latched.
LEMMA InvSuccess ==
    ASSUME Live!Configured, Live!EpisodeInv, [Live!Next]_(Live!vars)
    PROVE [Live!SuccessStays]_(Live!vars)
<1> SUFFICES ASSUME at = "record", at' # "close", world.latched, Live!vars' # Live!vars
      PROVE success'
  BY DEF Live!SuccessStays
<1>1. CASE Live!EndChunk BY <1>1, EndChunkFacts
<1>2. CASE Live!Fail BY <1>2 DEF Live!Fail, Live!Block
<1>3. ~(Live!Begin \/ Live!StudentPlan \/ Live!TeacherOnStudentPlan \/ Live!TeacherPlan \/ Live!TeacherAction
        \/ Live!StudentActionOnTeacherPlan \/ Live!Compare \/ Live!Step \/ Live!Show \/ Live!Observe
        \/ Live!ShowProgress \/ Live!EndArm \/ Live!Report \/ Live!Close \/ Live!Done)
  BY DEF Live!Begin, Live!StudentPlan, Live!TeacherOnStudentPlan, Live!TeacherPlan,
         Live!TeacherAction,
    Live!StudentActionOnTeacherPlan, Live!Compare, Live!Step, Live!Show, Live!Observe, Live!ShowProgress, Live!EndArm, Live!Report, Live!Close, Live!Done
<1> QED BY <1>1, <1>2, <1>3 DEF Live!Next

\* The arms of a comparison can be compared, for any of the runner's arguments.
THEOREM EpisodesComparable == Live!Configured => (Live!Spec => []ArmsComparable)
<1> SUFFICES ASSUME Live!Configured PROVE Live!Spec => []ArmsComparable OBVIOUS
<1>1. Live!Init => Live!EpisodeInv BY EpisodeInitInv
<1>2. Live!EpisodeInv /\ [Live!Next]_(Live!vars) => Live!EpisodeInv' BY EpisodeNextInv
<1>3. Live!EpisodeInv => ArmsComparable BY InvComparable DEF ArmsComparable
<1> QED BY <1>1, <1>2, <1>3, PTL DEF Live!Spec

\* A success stays reported.
THEOREM SuccessIsKept == Live!Configured => (Live!Spec => SuccessKept)
<1> SUFFICES ASSUME Live!Configured PROVE Live!Spec => SuccessKept OBVIOUS
<1>1. Live!Init => Live!EpisodeInv BY EpisodeInitInv
<1>2. Live!EpisodeInv /\ [Live!Next]_(Live!vars) => Live!EpisodeInv' BY EpisodeNextInv
<1>3. Live!EpisodeInv /\ [Live!Next]_(Live!vars) => [Live!SuccessStays]_(Live!vars)
  BY InvSuccess
<1> QED BY <1>1, <1>2, <1>3, PTL DEF Live!Spec, Live!SuccessKept, SuccessKept

=============================================================================
