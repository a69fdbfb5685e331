------------------------ MODULE ScaledPipelineProofs ------------------------
(***************************************************************************)
(* Proofs about the scaled controller, for any number of invocations and   *)
(* shards: the stages are passed in order and launched once, and no GPU    *)
(* carries more collection workers than the canary chose.                  *)
(***************************************************************************)
EXTENDS ScaledPipeline, FiniteSetTheorems, TLAPS

-----------------------------------------------------------------------------
(* The parts of the inductive invariant.                                   *)

StageNames == {"canary", "collection", "update", "screening", "heldout"}
Formal == {"collection", "update", "screening", "heldout"}
Places == {"idle", "status", "gpus", "launch", "wait", "decide", "done", "raised", "killed"}
Working(r) == pc[r] \in {"gpus", "launch", "wait"}
InBatch(r) == pc[r] \in {"launch", "wait"}

Typed ==
  /\ log \subseteq Jobs /\ passed \subseteq log
  /\ child \in [Runs -> [Jobs -> {"none", "running", "written", "ok", "failed"}]]
  /\ pc \in [Runs -> Places]
  /\ stage \in [Runs -> StageNames] /\ workers \in [Runs -> 1..2]
  /\ next \in [Runs -> Nat] /\ procs \in [Runs -> SUBSET Jobs]
  /\ state \in {Absent, "RUNNING", "PASS"}

(* One invocation is live; one that has not started has no children, and   *)
(* every child has opened its log.                                         *)
OneLive == \A r, q \in Runs : Live(r) /\ Live(q) => r = q
Traces ==
  \A r \in Runs : \A j \in Jobs :
    child[r][j] # "none" => j \in log /\ pc[r] # "idle"

(* A stage has logs, or is worked on, over complete earlier stages.        *)
LogsInOrder == \A j \in log : j[1] \in Formal => \A s \in Earlier(j[1]) : Done(s)
WorkInOrder ==
  \A r \in Runs : Working(r) /\ stage[r] \in Formal => \A s \in Earlier(stage[r]) : Done(s)

(* What a controller has not launched of its stage has no log, and nobody  *)
(* else has launched any of it.                                            *)
StageIsOwn ==
  \A r \in Runs : Working(r) /\ stage[r] \in Formal =>
    \A j \in JobsOf(stage[r]) :
      /\ j \in log => InBatch(r) /\ j[2] < next[r]
      /\ \A q \in Runs : child[q][j] # "none" => q = r
OneLauncher ==
  \A r, q \in Runs : \A j, k \in Jobs :
    j[1] = k[1] /\ j[1] \in Formal /\ child[r][j] # "none" /\ child[q][k] # "none" => r = q

(* The batch of a controller: b configs are behind it, all of them ended.  *)
BatchAfter(r, b) ==
  /\ b % Capacity(stage[r], workers[r]) = 0
  /\ b < next[r] /\ next[r] <= b + Capacity(stage[r], workers[r]) + 1
  /\ next[r] <= Configs(stage[r]) + 1
  /\ procs[r] = {<<stage[r], i>> : i \in (b + 1)..(next[r] - 1)}
  /\ IsFiniteSet(procs[r]) /\ Cardinality(procs[r]) = next[r] - 1 - b
  /\ \A i \in 1..b :
       /\ ~Running(child[r][<<stage[r], i>>])
       /\ stage[r] \in {"canary", "collection"} => <<stage[r], i>> \in passed
  /\ pc[r] = "wait" =>
       next[r] = b + Capacity(stage[r], workers[r]) + 1 \/ next[r] > Configs(stage[r])
Batches ==
  \A r \in Runs :
    /\ InBatch(r) => \E b \in Nat : BatchAfter(r, b)
    /\ pc[r] \in {"idle", "status", "gpus", "decide"} => procs[r] = {}
    /\ procs[r] \subseteq JobsOf(stage[r])

(* The running collection workers of an invocation are of one batch, dealt *)
(* over as many workers per GPU as the canary chose.                       *)
CollectsABatch ==
  \A r \in Runs : \E b \in Nat :
    /\ b % Capacity("collection", workers[r]) = 0
    /\ \A j \in JobsOf("collection") :
         Running(child[r][j]) => b < j[2] /\ j[2] <= b + Capacity("collection", workers[r])
CollectsAsDecided ==
  \A r \in Runs :
    ((\E j \in JobsOf("collection") : child[r][j] # "none")
       \/ (InBatch(r) /\ stage[r] = "collection")) =>
      decision # Absent /\ workers[r] = decision.selected

(* The canary and its decision.                                            *)
CanaryUndecided ==
  \A r \in Runs :
    /\ pc[r] = "decide" =>
         stage[r] = "canary" /\ (next[r] # 0 => JobsOf("canary") \subseteq passed)
    /\ (Working(r) \/ pc[r] = "decide") /\ stage[r] = "canary" =>
         decision = Absent /\ workers[r] \in Attempts
DecisionTrue ==
  decision # Absent =>
    /\ decision.attempted \in Attempts /\ decision.selected \in 1..2
    /\ decision.selected = 2 => decision.status = "PASS"
    /\ decision.status = "PASS" =>
         JobsOf("canary") \subseteq passed /\ decision.selected = decision.attempted

PublishedComplete == state = "PASS" => \A k \in 1..4 : Done(Stages[k])

-----------------------------------------------------------------------------
(* The operators of the controller.                                        *)

LEMMA StageFacts ==
  /\ SX!ToSet(Stages) = Formal
  /\ StageNames = Formal \cup {"canary"}
  /\ \A k \in 1..4 : Stages[k] \in Formal
<1>1. Stages \in Seq(Formal) /\ Len(Stages) = 4 /\ DOMAIN Stages = 1..4
  BY DEF Stages, Formal
<1>2. Stages[1] = "collection" /\ Stages[2] = "update" /\ Stages[3] = "screening"
        /\ Stages[4] = "heldout"
  BY DEF Stages
<1>3. SX!ToSet(Stages) = Formal
  BY <1>1, <1>2 DEF SX!ToSet, Formal
<1>4. QED
  BY <1>1, <1>2, <1>3 DEF StageNames, Formal

(* Every stage has configurations.                                         *)
LEMMA ConfigFacts ==
  /\ \A s \in StageNames : Configs(s) \in Nat \ {0}
  /\ Configs("canary") = Gpus * Configured /\ Configs("collection") = Shards
BY ScaledAssumption DEF Configs, StageNames

(* A job is a stage and the number of one of its configurations.           *)
LEMMA JobFacts ==
  /\ \A s \in StageNames : \A i \in 1..Configs(s) : <<s, i>> \in JobsOf(s) /\ <<s, i>> \in Jobs
  /\ \A s \in StageNames : \A j \in JobsOf(s) :
       j \in Jobs /\ j[1] = s /\ j[2] \in 1..Configs(s) /\ j = <<s, j[2]>>
  /\ \A j \in Jobs : j[1] \in StageNames /\ j \in JobsOf(j[1])
  /\ \A s \in StageNames : JobsOf(s) \subseteq Jobs
<1>1. Jobs = UNION {JobsOf(s) : s \in StageNames}
  BY StageFacts DEF Jobs
<1>2. QED
  BY <1>1 DEF JobsOf

(* Half open ranges of whole batches.                                      *)
LEMMA CapacityFacts ==
  ASSUME NEW s \in StageNames, NEW w \in 1..2
  PROVE  /\ Capacity(s, w) \in {1, 2, 4, 8}
         /\ s \in {"canary", "collection"} => Capacity(s, w) = Gpus * w
<1>1. Gpus * w \in {2, 4, 8}
  BY ScaledAssumption
<1>2. QED
  BY <1>1 DEF Capacity

(* The batch after a whole number of batches.                              *)
LEMMA WholeBatches ==
  ASSUME NEW C \in {1, 2, 4, 8}, NEW b \in Nat, b % C = 0
  PROVE  0 % C = 0 /\ (b + C) % C = 0
<1>1. CASE C = 1
  BY <1>1
<1>2. CASE C = 2
  BY <1>2
<1>3. CASE C = 4
  BY <1>3
<1>4. CASE C = 8
  BY <1>4
<1>5. QED
  BY <1>1, <1>2, <1>3, <1>4

-----------------------------------------------------------------------------
(* Types.                                                                  *)

LEMMA InitTyped == Init => Typed
BY DEF Init, Typed, Places, StageNames

(* What a controller launches is a job of its stage.                       *)
LEMMA NextJob ==
  ASSUME Typed, Batches, NEW r \in Runs, pc[r] = "launch", ~BatchFull(r)
  PROVE  /\ next[r] \in 1..Configs(stage[r])
         /\ <<stage[r], next[r]>> \in JobsOf(stage[r])
         /\ <<stage[r], next[r]>> \in Jobs
<1>1. stage[r] \in StageNames /\ next[r] \in Nat /\ Configs(stage[r]) \in Nat
  BY ConfigFacts DEF Typed
<1>2. PICK b \in Nat : BatchAfter(r, b)
  BY DEF Batches, InBatch
<1>3. next[r] \in 1..Configs(stage[r])
  BY <1>1, <1>2 DEF BatchAfter, BatchFull
<1>4. QED
  BY <1>1, <1>3, JobFacts

(* Every step keeps the types.                                             *)
LEMMA TypedNext == ASSUME Typed, Batches, Traces, DecisionTrue, [Next]_vars PROVE Typed'
<1> USE DEF Typed
<1>1. CASE UNCHANGED vars
  BY <1>1 DEF vars, files, local
<1>2. ASSUME NEW r \in Runs, StartRun(r) PROVE Typed'
  BY <1>2 DEF StartRun, Goto, files, local, Places
<1>3. ASSUME NEW r \in Runs, NEW w \in Attempts, StartCanary(r, w) PROVE Typed'
  BY <1>3, ScaledAssumption DEF StartCanary, Goto, files, Places, StageNames
<1>4. ASSUME NEW r \in Runs, Derive(r) PROVE Typed'
  <2>1. state' \in {Absent, "RUNNING", "PASS"} /\ pc' \in [Runs -> Places]
    BY <1>4 DEF Derive, Goto, Places
  <2>2. stage' \in [Runs -> StageNames]
    BY <1>4, StageFacts DEF Derive, Todo
  <2>3. QED
    BY <1>4, <2>1, <2>2 DEF Derive
<1>5. ASSUME NEW r \in Runs, TakeGpus(r) PROVE Typed'
  <2>1. workers' \in [Runs -> 1..2]
    BY <1>5 DEF TakeGpus, DecisionTrue
  <2>2. pc' \in [Runs -> Places]
    BY <1>5 DEF TakeGpus, Goto, Places
  <2>3. next' \in [Runs -> Nat]
    BY <1>5 DEF TakeGpus
  <2>4. procs' \in [Runs -> SUBSET Jobs]
    BY <1>5 DEF TakeGpus
  <2>5. QED
    BY <1>5, <2>1, <2>2, <2>3, <2>4 DEF TakeGpus, files
<1>6. ASSUME NEW r \in Runs, Launch(r) PROVE Typed'
  <2> DEFINE j == <<stage[r], next[r]>>
  <2>1. j \in Jobs
    BY <1>6, NextJob DEF Launch
  <2> HIDE DEF j
  <2>2. log' = log \cup {j} /\ UNCHANGED <<passed, decision, state, stage, workers>>
    BY <1>6 DEF Launch, j
  <2>3. CASE /\ child' = [child EXCEPT ![r][j] = "running"]
             /\ procs' = [procs EXCEPT ![r] = @ \cup {j}]
             /\ next' = [next EXCEPT ![r] = @ + 1]
             /\ UNCHANGED pc
    BY <2>1, <2>2, <2>3
  <2>4. CASE Goto(r, "raised") /\ UNCHANGED <<child, procs, next>>
    BY <2>1, <2>2, <2>4 DEF Goto, Places
  <2>5. QED
    BY <1>6, <2>3, <2>4 DEF Launch, j
<1>7. ASSUME NEW r \in Runs, AllLaunched(r) PROVE Typed'
  BY <1>7 DEF AllLaunched, Goto, files, local, Places
<1>8. ASSUME NEW r \in Runs, Collect(r) PROVE Typed'
  BY <1>8 DEF Collect, Goto, files, Places
<1>9. ASSUME NEW r \in Runs, Decide(r) PROVE Typed'
  BY <1>9 DEF Decide, Goto, local, Places
<1>10. ASSUME NEW r \in Runs, Kill(r) PROVE Typed'
  BY <1>10 DEF Kill, Goto, files, local, Places
<1>11. ASSUME NEW r \in Runs, NEW j \in Jobs, WriteSummary(r, j) PROVE Typed'
  BY <1>11 DEF WriteSummary, Become, local, Traces
<1>12. ASSUME NEW r \in Runs, NEW j \in Jobs, Exit(r, j) PROVE Typed'
  <2>1. UNCHANGED <<files, pc, local>> /\ \E step \in {"ok", "failed"} : Become(r, j, step)
    BY <1>12 DEF Exit, Become
  <2>2. child' \in [Runs -> [Jobs -> {"none", "running", "written", "ok", "failed"}]]
    BY <2>1 DEF Become
  <2>3. QED
    BY <2>1, <2>2 DEF files, local
<1>13. QED
  BY <1>1, <1>2, <1>3, <1>4, <1>5, <1>6, <1>7, <1>8, <1>9, <1>10, <1>11, <1>12 DEF Next, Step, Child

-----------------------------------------------------------------------------
(* What the steps do to each part of the state.                            *)

(* A child is started by its controller, and otherwise only goes on.       *)
LEMMA ChildMoves ==
  ASSUME Typed, [Next]_vars, NEW r \in Runs, NEW j \in Jobs
  PROVE  \/ child'[r][j] = child[r][j]
         \/ /\ Launch(r) /\ ~BatchFull(r) /\ j = <<stage[r], next[r]>> /\ child'[r][j] = "running"
            /\ next' = [next EXCEPT ![r] = @ + 1] /\ UNCHANGED pc
         \/ /\ child[r][j] \in {"running", "written"}
            /\ child'[r][j] \in {"written", "ok", "failed"}
            /\ UNCHANGED <<log, decision, state, pc, local>>
            /\ passed' = passed \/ (passed' = passed \cup {j} /\ child[r][j] = "running")
<1> USE DEF Typed
<1>1. ASSUME NEW q \in Runs, Launch(q)
      PROVE  \/ child' = child
             \/ /\ child' = [child EXCEPT ![q][<<stage[q], next[q]>>] = "running"]
                /\ next' = [next EXCEPT ![q] = @ + 1] /\ UNCHANGED pc
  BY <1>1 DEF Launch
<1>2. ASSUME NEW q \in Runs, Launch(q), child' # child
      PROVE  \/ child'[r][j] = child[r][j]
             \/ /\ q = r /\ ~BatchFull(r) /\ j = <<stage[r], next[r]>> /\ child'[r][j] = "running"
                /\ next' = [next EXCEPT ![r] = @ + 1] /\ UNCHANGED pc
  <2> DEFINE k == <<stage[q], next[q]>>
  <2>1. child' = [child EXCEPT ![q][k] = "running"]
    BY <1>1, <1>2
  <2>2. child'[r][j] # child[r][j] => r = q /\ j = k /\ child'[r][j] = "running"
    <3> HIDE DEF k
    <3>1. QED
      BY <2>1
  <2>3. QED
    BY <1>1, <1>2, <2>2 DEF Launch
<1>3. ASSUME NEW q \in Runs, NEW k \in Jobs, WriteSummary(q, k) \/ Exit(q, k)
      PROVE  \/ child'[r][j] = child[r][j]
             \/ /\ child[r][j] \in {"running", "written"}
                /\ child'[r][j] \in {"written", "ok", "failed"}
                /\ UNCHANGED <<log, decision, state, pc, local>>
                /\ passed' = passed \/ (passed' = passed \cup {j} /\ child[r][j] = "running")
  <2>1. CASE WriteSummary(q, k)
    BY <2>1 DEF WriteSummary, Become
  <2>2. CASE Exit(q, k)
    <3>1. PICK step \in {"ok", "failed"} : Become(q, k, step)
      BY <2>2 DEF Exit
    <3>2. Running(child[q][k]) /\ UNCHANGED files
      BY <2>2 DEF Exit, Running
    <3>3. QED
      BY <3>1, <3>2 DEF Become, files, Running
  <2>3. QED
    BY <1>3, <2>1, <2>2
<1>4. CASE \E q \in Runs : Launch(q)
  BY <1>1, <1>2, <1>4
<1>5. CASE \E q \in Runs, k \in Jobs : WriteSummary(q, k) \/ Exit(q, k)
  BY <1>3, <1>5
<1>6. CASE child' = child
  BY <1>6
<1>7. QED
  BY <1>4, <1>5, <1>6 DEF Next, Step, Child, StartRun, StartCanary, Derive, TakeGpus,
     AllLaunched, Collect, Decide, Kill, vars

(* Only a launch opens a log.                                              *)
LEMMA LogMoves ==
  ASSUME [Next]_vars
  PROVE  \/ log' = log
         \/ \E r \in Runs : /\ Launch(r) /\ ~BatchFull(r)
                            /\ log' = log \cup {<<stage[r], next[r]>>}
<1>1. ASSUME NEW r \in Runs, Launch(r) PROVE ~BatchFull(r) /\ log' = log \cup {<<stage[r], next[r]>>}
  BY <1>1 DEF Launch
<1>2. CASE \E r \in Runs : Launch(r)
  BY <1>1, <1>2
<1>3. CASE ~\E r \in Runs : Launch(r)
  BY <1>3 DEF Next, Step, Child, StartRun, StartCanary, Derive, TakeGpus, WriteSummary, Exit,
     AllLaunched, Collect, Decide, Kill, vars, files
<1>4. QED
  BY <1>2, <1>3

(* A summary is written by the running child of its job.                   *)
LEMMA PassedMoves ==
  ASSUME [Next]_vars
  PROVE  \/ passed' = passed
         \/ \E r \in Runs, j \in Jobs : /\ child[r][j] = "running" /\ passed' = passed \cup {j}
                                        /\ UNCHANGED <<log, decision, state, pc, local>>
<1>1. CASE \E r \in Runs, j \in Jobs : WriteSummary(r, j)
  BY <1>1 DEF WriteSummary, Become
<1>2. CASE ~\E r \in Runs, j \in Jobs : WriteSummary(r, j)
  BY <1>2 DEF Next, Step, Child, StartRun, StartCanary, Derive, TakeGpus, Launch, Exit,
     AllLaunched, Collect, Decide, Kill, vars, files
<1>3. QED
  BY <1>1, <1>2

(* What has passed stays passed.                                           *)
LEMMA DoneStable == ASSUME [Next]_vars, NEW s, Done(s) PROVE Done(s)' /\ passed \subseteq passed'
BY PassedMoves DEF Done

(* The invocation whose place, stage or counters change.                   *)
LEMMA ControlMoves ==
  ASSUME Typed, [Next]_vars, NEW r \in Runs
  PROVE  \/ /\ pc'[r] = pc[r] /\ stage'[r] = stage[r] /\ workers'[r] = workers[r]
            /\ next'[r] = next[r] /\ procs'[r] = procs[r]
         \/ StartRun(r) \/ Step(r) \/ Kill(r) \/ \E w \in Attempts : StartCanary(r, w)
<1> USE DEF Typed
<1>1. ASSUME NEW q \in Runs, q # r,
             StartRun(q) \/ Step(q) \/ Kill(q) \/ \E w \in Attempts : StartCanary(q, w)
      PROVE  /\ pc'[r] = pc[r] /\ stage'[r] = stage[r] /\ workers'[r] = workers[r]
             /\ next'[r] = next[r] /\ procs'[r] = procs[r]
  <2>1. CASE StartRun(q) \/ Kill(q) \/ AllLaunched(q) \/ Decide(q)
    BY <1>1, <2>1 DEF StartRun, Kill, AllLaunched, Decide, Goto, local
  <2>2. CASE Derive(q)
    BY <1>1, <2>2 DEF Derive, Goto
  <2>3. CASE TakeGpus(q)
    BY <1>1, <2>3 DEF TakeGpus, Goto
  <2>4. CASE Launch(q)
    BY <1>1, <2>4 DEF Launch, Goto
  <2>5. CASE Collect(q)
    BY <1>1, <2>5 DEF Collect, Goto
  <2>6. CASE \E w \in Attempts : StartCanary(q, w)
    BY <1>1, <2>6 DEF StartCanary, Goto
  <2>7. QED
    BY <1>1, <2>1, <2>2, <2>3, <2>4, <2>5, <2>6 DEF Step
<1>2. CASE Child
  BY <1>2 DEF Child, WriteSummary, Exit, Become, local
<1>3. CASE UNCHANGED vars
  BY <1>3 DEF vars, local
<1>4. QED
  BY <1>1, <1>2, <1>3 DEF Next

-----------------------------------------------------------------------------
(* One invocation, its traces and the order of its stages.                 *)

(* A step of an invocation is one of a live one; a start finds none live.  *)
LEMMA LiveMoves ==
  ASSUME Typed, [Next]_vars, NEW r \in Runs, Live(r)'
  PROVE  Live(r) \/ \A q \in Runs : ~Live(q) /\ (Live(q)' => q = r)
<1> USE DEF Typed
<1>1. CASE StartRun(r) \/ \E w \in Attempts : StartCanary(r, w)
  BY <1>1 DEF StartRun, StartCanary, MayStart, Goto, Live
<1>2. CASE Step(r) \/ Kill(r)
  BY <1>2 DEF Step, Kill, Derive, TakeGpus, Launch, AllLaunched, Collect, Decide, Live
<1>3. CASE pc'[r] = pc[r]
  BY <1>3 DEF Live
<1>4. QED
  BY <1>1, <1>2, <1>3, ControlMoves

(* An invocation starts only when no other is live.                        *)
LEMMA OneLiveNext == ASSUME Typed, OneLive, [Next]_vars PROVE OneLive'
<1> SUFFICES ASSUME NEW r \in Runs, NEW q \in Runs, Live(r)', Live(q)' PROVE r = q
  BY DEF OneLive
<1> QED
  BY LiveMoves DEF OneLive

(* An invocation that is not live never is again.                          *)
LEMMA NeverIdle == ASSUME Typed, [Next]_vars, NEW r \in Runs, pc'[r] = "idle" PROVE pc[r] = "idle"
<1> USE DEF Typed
<1>1. CASE StartRun(r) \/ \E w \in Attempts : StartCanary(r, w)
  BY <1>1 DEF StartRun, StartCanary, MayStart
<1>2. CASE Kill(r) \/ AllLaunched(r) \/ Decide(r)
  BY <1>2 DEF Kill, AllLaunched, Decide, Goto
<1>3. CASE Derive(r)
  BY <1>3 DEF Derive, Goto
<1>4. CASE TakeGpus(r)
  BY <1>4 DEF TakeGpus, Goto
<1>5. CASE Launch(r)
  BY <1>5 DEF Launch, Goto
<1>6. CASE Collect(r)
  BY <1>6 DEF Collect, Goto
<1>7. QED
  BY <1>1, <1>2, <1>3, <1>4, <1>5, <1>6, ControlMoves DEF Step

(* A child is started after its log was opened, and outlives its           *)
(* controller.                                                             *)
LEMMA TracesNext == ASSUME Typed, Traces, [Next]_vars PROVE Traces'
<1> SUFFICES ASSUME NEW r \in Runs, NEW j \in Jobs, child'[r][j] # "none"
             PROVE  j \in log' /\ pc'[r] # "idle"
  BY DEF Traces
<1>1. child[r][j] # "none" => j \in log' /\ pc'[r] # "idle"
  BY LogMoves, NeverIdle DEF Traces
<1>2. ASSUME child[r][j] = "none" PROVE j \in log' /\ pc'[r] # "idle"
  <2>1. Launch(r) /\ j = <<stage[r], next[r]>> /\ UNCHANGED pc
    BY <1>2, ChildMoves
  <2>2. QED
    BY <2>1 DEF Launch
<1>3. QED
  BY <1>1, <1>2

(* The stage that is derived is the first one that is not done.            *)
LEMMA DeriveStage ==
  ASSUME Typed, NEW r \in Runs, Derive(r), pc'[r] = "gpus"
  PROVE  /\ stage'[r] \in Formal
         /\ \A s \in Earlier(stage'[r]) : Done(s)
         /\ JobsOf(stage'[r]) \cap log = {}
         /\ state' = "RUNNING" /\ \E k \in 1..4 : ~Done(Stages[k])
<1> USE DEF Typed
<1>1. PICK k \in Todo : /\ \A n \in Todo : k <= n
                        /\ ~Started(Stages[k]) /\ stage' = [stage EXCEPT ![r] = Stages[k]]
                        /\ state' = "RUNNING"
  BY DEF Derive, Goto
<1>2. stage'[r] = Stages[k] /\ k \in 1..4 /\ ~Done(Stages[k])
  BY <1>1 DEF Todo
<1>3. \A n, m \in 1..4 : Stages[n] = Stages[m] => n = m
  BY DEF Stages
<1>4. \A s \in Earlier(Stages[k]) : Done(s)
  BY <1>1, <1>2, <1>3 DEF Earlier, Todo
<1>5. JobsOf(Stages[k]) \cap log = {}
  BY <1>1 DEF Started
<1>6. QED
  BY <1>1, <1>2, <1>4, <1>5, StageFacts

(* A working invocation goes on with its stage, or has derived it.         *)
LEMMA WorkMoves ==
  ASSUME Typed, [Next]_vars, NEW r \in Runs, Working(r)', stage'[r] \in Formal
  PROVE  \/ Derive(r) /\ pc'[r] = "gpus"
         \/ /\ Working(r) /\ stage'[r] = stage[r]
            /\ pc'[r] = "gpus" => pc[r] = "gpus"
            /\ \/ next'[r] = next[r] /\ (InBatch(r) => InBatch(r)')
               \/ pc[r] = "gpus" /\ InBatch(r)'
               \/ Launch(r) /\ ~BatchFull(r) /\ next'[r] = next[r] + 1 /\ InBatch(r)'
<1> USE DEF Typed, Working, InBatch
<1>1. CASE StartRun(r) \/ Kill(r) \/ AllLaunched(r) \/ Decide(r)
  BY <1>1 DEF StartRun, Kill, AllLaunched, Decide, Goto, local
<1>2. CASE \E w \in Attempts : StartCanary(r, w)
  BY <1>2 DEF StartCanary, Formal
<1>3. CASE Derive(r)
  BY <1>3 DEF Derive, Goto
<1>4. CASE TakeGpus(r)
  BY <1>4 DEF TakeGpus, Goto
<1>5. CASE Launch(r)
  BY <1>5 DEF Launch, Goto
<1>6. CASE Collect(r)
  <2>1. stage' = stage /\ pc[r] = "wait" /\ next'[r] = IF Failed(r) = {} THEN next[r] ELSE 0
    BY <1>6 DEF Collect
  <2>2. pc'[r] = "launch" /\ Failed(r) = {}
    BY <1>6 DEF Collect, Goto
  <2>3. QED
    BY <2>1, <2>2
<1>7. CASE pc'[r] = pc[r] /\ stage'[r] = stage[r] /\ next'[r] = next[r]
  BY <1>7
<1>8. QED
  BY <1>1, <1>2, <1>3, <1>4, <1>5, <1>6, <1>7, ControlMoves DEF Step

(* A controller takes the first stage that is not complete.                *)
LEMMA WorkInOrderNext == ASSUME Typed, WorkInOrder, [Next]_vars PROVE WorkInOrder'
<1> SUFFICES ASSUME NEW r \in Runs, Working(r)', stage'[r] \in Formal,
                    NEW s \in Earlier(stage'[r])
             PROVE  Done(s)'
  BY DEF WorkInOrder, Earlier
<1>1. Done(s)
  BY WorkMoves, DeriveStage DEF WorkInOrder
<1>2. QED
  BY <1>1, DoneStable

(* A log is opened for the stage being worked on.                          *)
LEMMA LogsInOrderNext ==
  ASSUME Typed, Batches, WorkInOrder, LogsInOrder, [Next]_vars PROVE LogsInOrder'
<1> SUFFICES ASSUME NEW j \in log', j[1] \in Formal, NEW s \in Earlier(j[1]) PROVE Done(s)'
  BY DEF LogsInOrder, Earlier
<1>1. CASE j \in log
  BY <1>1, DoneStable DEF LogsInOrder
<1>2. CASE j \notin log
  <2>1. PICK r \in Runs : Launch(r) /\ j = <<stage[r], next[r]>>
    BY <1>2, LogMoves
  <2>2. Working(r) /\ stage[r] = j[1]
    BY <2>1 DEF Launch, Working
  <2>3. Done(s)
    BY <2>2 DEF WorkInOrder
  <2>4. QED
    BY <2>3, DoneStable
<1>3. QED
  BY <1>1, <1>2

(* What is logged or launched of a stage is so by who works on it.         *)
LEMMA StageIsOwnNext ==
  ASSUME Typed, Batches, OneLive, Traces, StageIsOwn, [Next]_vars PROVE StageIsOwn'
<1> USE DEF Typed
<1> SUFFICES ASSUME NEW r \in Runs, Working(r)', stage'[r] \in Formal,
                    NEW j \in JobsOf(stage'[r])
             PROVE  /\ j \in log' => InBatch(r)' /\ j[2] < next'[r]
                    /\ \A q \in Runs : child'[q][j] # "none" => q = r
  BY DEF StageIsOwn, JobsOf, Configs
<1>1. Live(r) /\ j \in Jobs /\ j[1] = stage'[r] /\ j[2] \in Nat /\ next[r] \in Nat
  <2>1. Live(r)
    BY WorkMoves DEF Derive, Working, Live
  <2>2. stage'[r] \in StageNames
    BY StageFacts
  <2>3. QED
    BY <2>1, <2>2, JobFacts, ConfigFacts
<1>2. ASSUME j \in log => InBatch(r)' /\ j[2] < next'[r],
             \A q \in Runs : child[q][j] # "none" => q = r
      PROVE  /\ j \in log' => InBatch(r)' /\ j[2] < next'[r]
             /\ \A q \in Runs : child'[q][j] # "none" => q = r
  <2>1. ASSUME NEW q \in Runs, Launch(q), j = <<stage[q], next[q]>>
        PROVE  q = r /\ InBatch(r)'
    <3>1. q = r
      BY <1>1, <2>1 DEF Launch, Live, OneLive
    <3>2. pc[r] = "launch"
      BY <2>1, <3>1 DEF Launch
    <3>3. QED
      BY <3>1, <3>2, WorkMoves DEF Derive, InBatch
  <2>2. ASSUME j \in log' PROVE InBatch(r)' /\ j[2] < next'[r]
    <3>1. CASE j \in log
      BY <3>1, <1>2
    <3>2. CASE j \notin log
      <4>1. PICK q \in Runs : Launch(q) /\ j = <<stage[q], next[q]>>
        BY <3>2, <2>2, LogMoves
      <4>2. q = r /\ InBatch(r)' /\ j[2] = next[r]
        BY <4>1, <2>1
      <4>3. next'[r] = next[r] + 1
        BY <4>1, <4>2 DEF Launch, Goto, InBatch
      <4>4. QED
        BY <4>2, <4>3, <1>1
    <3>3. QED
      BY <3>1, <3>2
  <2>3. ASSUME NEW q \in Runs, child'[q][j] # "none" PROVE q = r
    <3>1. child[q][j] # "none" \/ (Launch(q) /\ j = <<stage[q], next[q]>>)
      BY <2>3, <1>1, ChildMoves
    <3>2. QED
      BY <3>1, <2>1, <1>2
  <2>4. QED
    BY <2>2, <2>3
<1>3. CASE Derive(r) /\ pc'[r] = "gpus"
  <2>1. j \notin log
    BY <1>3, DeriveStage
  <2>2. \A q \in Runs : child[q][j] = "none"
    BY <2>1, <1>1 DEF Traces
  <2>3. QED
    BY <2>1, <2>2, <1>2
<1>4. CASE ~(Derive(r) /\ pc'[r] = "gpus")
  <2>1. /\ Working(r) /\ stage'[r] = stage[r]
        /\ \/ next'[r] = next[r] /\ (InBatch(r) => InBatch(r)')
           \/ pc[r] = "gpus" /\ InBatch(r)'
           \/ next'[r] = next[r] + 1 /\ InBatch(r)'
    BY <1>4, WorkMoves
  <2>2. /\ j \in log => InBatch(r) /\ j[2] < next[r]
        /\ \A q \in Runs : child[q][j] # "none" => q = r
    BY <2>1 DEF StageIsOwn
  <2>3. j \in log => InBatch(r)' /\ j[2] < next'[r]
    BY <2>1, <2>2, <1>1 DEF InBatch
  <2>4. QED
    BY <2>2, <2>3, <1>2
<1>5. QED
  BY <1>3, <1>4

(* Who works on a stage has found no log of it, so that nobody else has    *)
(* launched any of it.                                                     *)
LEMMA OneLauncherNext ==
  ASSUME Typed, Batches, StageIsOwn, OneLauncher, [Next]_vars PROVE OneLauncher'
<1> SUFFICES ASSUME NEW r \in Runs, NEW q \in Runs, NEW j \in Jobs, NEW k \in Jobs,
                    j[1] = k[1], j[1] \in Formal,
                    child'[r][j] # "none", child'[q][k] # "none"
             PROVE  r = q
  BY DEF OneLauncher
<1>1. ASSUME NEW a \in Runs, NEW b \in Runs, NEW m \in Jobs, NEW n \in Jobs,
             m[1] = n[1], m[1] \in Formal, child[a][m] = "none", child'[a][m] # "none",
             child'[b][n] # "none"
      PROVE  a = b
  <2>1. Launch(a) /\ m = <<stage[a], next[a]>>
    BY <1>1, ChildMoves
  <2>2. Working(a) /\ stage[a] = m[1] /\ n \in JobsOf(stage[a])
    BY <1>1, <2>1, JobFacts DEF Launch, Working
  <2>3. CASE child[b][n] # "none"
    BY <1>1, <2>2, <2>3 DEF StageIsOwn
  <2>4. CASE child[b][n] = "none"
    <3>1. Launch(b) /\ n = <<stage[b], next[b]>>
      BY <1>1, <2>4, ChildMoves
    <3>2. b # a => child'[b][n] = "none"
      BY <1>1, <2>1, <2>4 DEF Launch, Typed
    <3>3. QED
      BY <1>1, <3>2
  <2>5. QED
    BY <2>3, <2>4
<1>2. CASE child[r][j] # "none" /\ child[q][k] # "none"
  BY <1>2 DEF OneLauncher
<1>3. CASE child[r][j] = "none" \/ child[q][k] = "none"
  BY <1>1, <1>3
<1>4. QED
  BY <1>2, <1>3

-----------------------------------------------------------------------------
(* The batches of a controller.                                            *)

(* Children only stop running behind the batch of their controller.        *)
LEMMA BatchFrame ==
  ASSUME Typed, Batches, [Next]_vars, NEW r \in Runs, InBatch(r), NEW b \in Nat, BatchAfter(r, b),
         InBatch(r)' => pc'[r] = pc[r],
         stage'[r] = stage[r], workers'[r] = workers[r], next'[r] = next[r], procs'[r] = procs[r]
  PROVE  InBatch(r)' => BatchAfter(r, b)'
<1> USE DEF Typed
<1>1. next[r] \in Nat /\ stage[r] \in StageNames /\ Configs(stage[r]) \in Nat
  BY ConfigFacts
<1>2. ASSUME NEW i \in 1..b
      PROVE  /\ ~Running(child'[r][<<stage[r], i>>])
             /\ stage[r] \in {"canary", "collection"} => <<stage[r], i>> \in passed'
  <2>1. <<stage[r], i>> \in Jobs
    BY <1>1, JobFacts DEF BatchAfter
  <2>2. ~Running(child'[r][<<stage[r], i>>])
    BY <2>1, ChildMoves DEF BatchAfter, Running
  <2>3. QED
    BY <2>2, PassedMoves DEF BatchAfter
<1>3. QED
  BY <1>2 DEF BatchAfter, Capacity, Configs

(* A stage begins with the batch after none.                               *)
LEMMA FirstBatch ==
  ASSUME Typed, NEW r \in Runs, TakeGpus(r), InBatch(r)', Typed'
  PROVE  BatchAfter(r, 0)'
<1> USE DEF Typed
<1>1. pc'[r] = "launch" /\ next'[r] = 1 /\ procs'[r] = {} /\ stage' = stage
  BY DEF TakeGpus, Goto, InBatch
<1>2. /\ Capacity(stage'[r], workers'[r]) \in {1, 2, 4, 8}
      /\ Configs(stage'[r]) \in Nat \ {0}
  BY <1>1, CapacityFacts, ConfigFacts
<1>3. 0 % Capacity(stage'[r], workers'[r]) = 0
  BY <1>2
<1>4. IsFiniteSet(procs'[r]) /\ Cardinality(procs'[r]) = 0
  BY <1>1, FS_EmptySet
<1>5. procs'[r] = {<<stage'[r], i>> : i \in 1..0}
  BY <1>1
<1>6. QED
  BY <1>1, <1>2, <1>3, <1>4, <1>5 DEF BatchAfter, Configs, Capacity

(* Launching fills the batch.                                              *)
LEMMA LaunchBatch ==
  ASSUME Typed, Batches, NEW r \in Runs, Launch(r), InBatch(r)', NEW b \in Nat, BatchAfter(r, b)
  PROVE  BatchAfter(r, b)'
<1> USE DEF Typed
<1> DEFINE j == <<stage[r], next[r]>>
           C == Capacity(stage[r], workers[r])
<1>1. /\ pc[r] = "launch" /\ UNCHANGED <<pc, passed, stage, workers>>
      /\ child' = [child EXCEPT ![r][j] = "running"]
      /\ procs'[r] = procs[r] \cup {j} /\ next'[r] = next[r] + 1
  BY DEF Launch, Goto, InBatch
<1>2. ~BatchFull(r) /\ next[r] \in 1..Configs(stage[r]) /\ j \in Jobs
  BY NextJob DEF Launch
<1>3. C \in {1, 2, 4, 8} /\ Configs(stage[r]) \in Nat
  BY CapacityFacts, ConfigFacts
<1>4. /\ b < next[r] /\ procs[r] = {<<stage[r], i>> : i \in (b + 1)..(next[r] - 1)}
      /\ IsFiniteSet(procs[r]) /\ Cardinality(procs[r]) = next[r] - 1 - b
      /\ next[r] <= b + C + 1 /\ b % C = 0
      /\ \A i \in 1..b :
           /\ ~Running(child[r][<<stage[r], i>>])
           /\ stage[r] \in {"canary", "collection"} => <<stage[r], i>> \in passed
  BY DEF BatchAfter
<1>5. next[r] < b + C + 1
  BY <1>2, <1>3, <1>4 DEF BatchFull
<1>6. IsFiniteSet(procs'[r]) /\ Cardinality(procs'[r]) = next'[r] - 1 - b
  <2>1. j \notin procs[r]
    BY <1>2, <1>4
  <2>2. IsFiniteSet(procs[r] \cup {j}) /\ Cardinality(procs[r] \cup {j}) = Cardinality(procs[r]) + 1
    BY <2>1, <1>4, FS_AddElement
  <2>3. QED
    BY <2>2, <1>1, <1>2, <1>4
<1>7. procs'[r] = {<<stage[r], i>> : i \in (b + 1)..(next'[r] - 1)}
  BY <1>1, <1>2, <1>4
<1>8. ASSUME NEW i \in 1..b PROVE ~Running(child'[r][<<stage[r], i>>])
  <2> DEFINE k == <<stage[r], i>>
  <2>1. k # j
    BY <1>2, <1>4
  <2>2. child'[r][k] = child[r][k]
    <3> HIDE DEF k, j
    <3>1. QED
      BY <1>1, <2>1
  <2>3. QED
    BY <2>2, <1>4
<1>9. QED
  <2> HIDE DEF j
  <2>1. QED
    BY <1>1, <1>2, <1>3, <1>4, <1>5, <1>6, <1>7, <1>8 DEF BatchAfter, Capacity, Configs

(* Collecting a batch that has passed begins the next.                     *)
LEMMA NextBatch ==
  ASSUME Typed, Batches, NEW r \in Runs, Collect(r), InBatch(r)', NEW b \in Nat, BatchAfter(r, b)
  PROVE  \E c \in Nat : BatchAfter(r, c)'
<1> USE DEF Typed
<1> DEFINE C == Capacity(stage[r], workers[r])
<1>1. /\ pc[r] = "wait" /\ pc'[r] = "launch" /\ UNCHANGED <<passed, child, stage, workers>>
      /\ Failed(r) = {} /\ next[r] <= Configs(stage[r])
      /\ procs'[r] = {} /\ next'[r] = next[r]
      /\ \A j \in procs[r] : ~Running(child[r][j])
  BY DEF Collect, Goto, InBatch, files
<1>2. C \in {1, 2, 4, 8} /\ Configs(stage[r]) \in Nat /\ next[r] \in Nat
  BY CapacityFacts, ConfigFacts
<1>3. /\ b < next[r] /\ procs[r] = {<<stage[r], i>> : i \in (b + 1)..(next[r] - 1)}
      /\ b % C = 0
      /\ \A i \in 1..b :
           /\ ~Running(child[r][<<stage[r], i>>])
           /\ stage[r] \in {"canary", "collection"} => <<stage[r], i>> \in passed
  BY DEF BatchAfter
<1> HIDE DEF C
<1>4. next[r] = b + C + 1
  <2>1. next[r] = b + C + 1 \/ next[r] > Configs(stage[r])
    BY <1>1 DEF BatchAfter, C
  <2>2. QED
    BY <2>1, <1>1, <1>2
<1>5. PICK c \in Nat : c = next[r] - 1
  BY <1>2, <1>3
<1>6. ASSUME NEW i \in 1..c
      PROVE  /\ ~Running(child[r][<<stage[r], i>>])
             /\ stage[r] \in {"canary", "collection"} => <<stage[r], i>> \in passed
  <2>1. CASE i \in 1..b
    BY <1>3, <2>1
  <2>2. CASE i \in (b + 1)..(next[r] - 1)
    <3>1. <<stage[r], i>> \in procs[r]
      BY <1>3, <2>2
    <3>2. QED
      BY <3>1, <1>1 DEF Failed
  <2>3. QED
    BY <1>2, <1>5, <2>1, <2>2
<1>7. c % C = 0
  <2>1. c = b + C
    BY <1>2, <1>4, <1>5
  <2>2. (b + C) % C = 0
    BY <1>2, <1>3, WholeBatches
  <2>3. QED
    BY <2>1, <2>2, Zenon
<1>8. IsFiniteSet(procs'[r]) /\ Cardinality(procs'[r]) = next'[r] - 1 - c
  BY <1>1, <1>2, <1>5, FS_EmptySet
<1>9. procs'[r] = {<<stage[r], i>> : i \in (c + 1)..(next'[r] - 1)}
  BY <1>1, <1>2, <1>5
<1>10. QED
  <2>1. C' = C
    BY <1>1 DEF C, Capacity
  <2>2. BatchAfter(r, c)'
    BY <2>1, <1>1, <1>2, <1>3, <1>6, <1>7, <1>8, <1>9, <1>5 DEF BatchAfter, C, Configs
  <2>3. QED
    BY <2>2

(* Whatever happens, a controller that launches or waits has a batch.      *)
LEMMA BatchExists ==
  ASSUME Typed, Typed', Batches, [Next]_vars, NEW r \in Runs, InBatch(r)'
  PROVE  \E b \in Nat : BatchAfter(r, b)'
<1> USE DEF Typed
<1>1. CASE StartRun(r) \/ (\E w \in Attempts : StartCanary(r, w)) \/ Derive(r) \/ Decide(r) \/ Kill(r)
  <2>1. CASE StartRun(r) \/ Decide(r) \/ Kill(r) \/ \E w \in Attempts : StartCanary(r, w)
    BY <2>1 DEF StartRun, StartCanary, Decide, Kill, Goto, InBatch
  <2>2. CASE Derive(r)
    BY <2>2 DEF Derive, Goto, InBatch
  <2>3. QED
    BY <1>1, <2>1, <2>2
<1>2. CASE TakeGpus(r)
  BY <1>2, FirstBatch
<1>3. CASE Launch(r)
  <2>1. PICK b \in Nat : BatchAfter(r, b)
    BY <1>3 DEF Launch, Batches, InBatch
  <2>2. QED
    BY <1>3, <2>1, LaunchBatch
<1>4. CASE Collect(r)
  <2>1. PICK b \in Nat : BatchAfter(r, b)
    BY <1>4 DEF Collect, Batches, InBatch
  <2>2. QED
    BY <1>4, <2>1, NextBatch
<1>5. CASE AllLaunched(r)
  <2>1. PICK b \in Nat : BatchAfter(r, b)
    BY <1>5 DEF AllLaunched, Batches, InBatch
  <2>2. pc[r] = "launch" /\ BatchFull(r) /\ UNCHANGED <<files, child, local>>
    BY <1>5 DEF AllLaunched
  <2>3. Capacity(stage[r], workers[r]) \in {1, 2, 4, 8} /\ next[r] \in Nat
    BY CapacityFacts
  <2>4. \/ next[r] = b + Capacity(stage[r], workers[r]) + 1
        \/ next[r] > Configs(stage[r])
    BY <2>1, <2>2, <2>3 DEF BatchAfter, BatchFull
  <2>5. BatchAfter(r, b)'
    BY <2>1, <2>2, <2>4 DEF BatchAfter, files, local, Capacity, Configs
  <2>6. QED
    BY <2>5
<1>6. CASE /\ pc'[r] = pc[r] /\ stage'[r] = stage[r] /\ workers'[r] = workers[r]
           /\ next'[r] = next[r] /\ procs'[r] = procs[r]
  <2>1. InBatch(r)
    BY <1>6 DEF InBatch
  <2>2. PICK b \in Nat : BatchAfter(r, b)
    BY <2>1 DEF Batches
  <2>3. QED
    BY <1>6, <2>1, <2>2, BatchFrame
<1>7. QED
  BY <1>1, <1>2, <1>3, <1>4, <1>5, <1>6, ControlMoves DEF Step

(* Every step keeps the batches.                                           *)
LEMMA BatchesNext == ASSUME Typed, Typed', Batches, [Next]_vars PROVE Batches'
<1> USE DEF Typed
<1> SUFFICES ASSUME NEW r \in Runs
             PROVE  /\ pc'[r] \in {"idle", "status", "gpus", "decide"} => procs'[r] = {}
                    /\ procs'[r] \subseteq JobsOf(stage'[r])
  BY BatchExists DEF Batches, JobsOf, Configs
<1>1. /\ pc[r] \in {"idle", "status", "gpus", "decide"} => procs[r] = {}
      /\ procs[r] \subseteq JobsOf(stage[r])
  BY DEF Batches
<1>2. CASE StartRun(r) \/ Decide(r) \/ Kill(r) \/ AllLaunched(r) \/ \E w \in Attempts : StartCanary(r, w)
  BY <1>1, <1>2 DEF StartRun, StartCanary, MayStart, Decide, Kill, AllLaunched, Goto, local
<1>3. CASE Derive(r)
  BY <1>1, <1>3 DEF Derive, Goto
<1>4. CASE TakeGpus(r)
  BY <1>1, <1>4 DEF TakeGpus, Goto
<1>5. CASE Launch(r)
  <2>1. <<stage[r], next[r]>> \in JobsOf(stage[r])
    BY <1>5, NextJob DEF Launch
  <2>2. stage' = stage /\ pc[r] = "launch" /\ pc'[r] \in {"launch", "raised"}
    BY <1>5 DEF Launch, Goto
  <2>3. procs'[r] \subseteq procs[r] \cup {<<stage[r], next[r]>>}
    BY <1>5 DEF Launch
  <2>4. QED
    BY <1>1, <2>1, <2>2, <2>3
<1>6. CASE Collect(r)
  BY <1>6 DEF Collect
<1>7. CASE pc'[r] = pc[r] /\ stage'[r] = stage[r] /\ procs'[r] = procs[r]
  BY <1>1, <1>7
<1>8. QED
  BY <1>2, <1>3, <1>4, <1>5, <1>6, <1>7, ControlMoves DEF Step

-----------------------------------------------------------------------------
(* The canary's decision and what is collected by it.                      *)

(* A decision is taken once, by the canary that is live.                   *)
LEMMA DecisionMoves ==
  ASSUME CanaryUndecided, [Next]_vars
  PROVE  \/ decision' = decision
         \/ \E r \in Runs : /\ Decide(r) /\ pc[r] = "decide" /\ stage[r] = "canary"
                            /\ decision = Absent /\ workers[r] \in Attempts
                            /\ decision' = Decision(r) /\ UNCHANGED <<passed, child, stage, workers>>
<1>1. CASE \E r \in Runs : Decide(r)
  BY <1>1 DEF Decide, CanaryUndecided, local
<1>2. CASE ~\E r \in Runs : Decide(r)
  BY <1>2 DEF Next, Step, Child, StartRun, StartCanary, Derive, TakeGpus, Launch, Exit,
     WriteSummary, AllLaunched, Collect, Kill, vars, files
<1>3. QED
  BY <1>1, <1>2

(* A canary that ends with no failure has passed all its jobs.             *)
LEMMA CanaryCollects ==
  ASSUME Typed, Batches, NEW r \in Runs, Collect(r), pc'[r] = "decide"
  PROVE  /\ stage[r] = "canary" /\ stage' = stage
         /\ next'[r] # 0 => JobsOf("canary") \subseteq passed
<1> USE DEF Typed
<1>1. /\ pc[r] = "wait" /\ stage[r] = "canary" /\ stage' = stage
      /\ next'[r] = IF Failed(r) = {} THEN next[r] ELSE 0
      /\ Failed(r) # {} \/ next[r] > Configs("canary")
  BY DEF Collect, Goto
<1>2. ASSUME Failed(r) = {}, NEW j \in JobsOf("canary") PROVE j \in passed
  <2>1. PICK b \in Nat : BatchAfter(r, b)
    BY <1>1 DEF Batches, InBatch
  <2>2. PICK i \in 1..Configs("canary") : j = <<"canary", i>>
    BY DEF JobsOf
  <2>3. CASE i \in 1..b
    BY <1>1, <2>1, <2>2, <2>3 DEF BatchAfter
  <2>4. CASE i \notin 1..b
    <3>1. i \in (b + 1)..(next[r] - 1)
      BY <1>1, <1>2, <2>4, ConfigFacts DEF StageNames
    <3>2. j \in procs[r]
      BY <3>1, <1>1, <2>1, <2>2 DEF BatchAfter
    <3>3. QED
      BY <3>2, <1>1, <1>2 DEF Failed
  <2>5. QED
    BY <2>3, <2>4
<1>3. QED
  BY <1>1, <1>2

(* A canary is worked on before there is a decision.                       *)
LEMMA CanaryUndecidedNext ==
  ASSUME Typed, Batches, OneLive, CanaryUndecided, [Next]_vars PROVE CanaryUndecided'
<1> USE DEF Typed
<1> SUFFICES ASSUME NEW r \in Runs
             PROVE  /\ pc'[r] = "decide" =>
                         /\ stage'[r] = "canary"
                         /\ next'[r] # 0 => JobsOf("canary") \subseteq passed'
                    /\ (Working(r)' \/ pc'[r] = "decide") /\ stage'[r] = "canary" =>
                         decision' = Absent /\ workers'[r] \in Attempts
  BY DEF CanaryUndecided, JobsOf, Configs
<1>1. passed \subseteq passed'
  BY PassedMoves
<1>2. (Working(r) \/ pc[r] = "decide") /\ (Working(r)' \/ pc'[r] = "decide") => decision' = decision
  <2>1. ASSUME NEW q \in Runs, Decide(q), Working(r) \/ pc[r] = "decide"
        PROVE  ~(Working(r)' \/ pc'[r] = "decide")
    <3>1. q = r
      BY <2>1 DEF Decide, OneLive, Live, Working
    <3>2. QED
      BY <2>1, <3>1 DEF Decide, Goto, Working
  <2>2. QED
    BY <2>1, DecisionMoves
<1>3. ASSUME (Working(r) \/ pc[r] = "decide") /\ stage[r] = "canary"
      PROVE  decision = Absent /\ workers[r] \in Attempts
  BY <1>3 DEF CanaryUndecided
<1>4. pc[r] = "decide" => stage[r] = "canary" /\ (next[r] # 0 => JobsOf("canary") \subseteq passed)
  BY DEF CanaryUndecided
<1>5. CASE StartRun(r) \/ Decide(r) \/ Kill(r) \/ Derive(r)
  <2>1. CASE StartRun(r) \/ Decide(r) \/ Kill(r)
    BY <2>1 DEF StartRun, Decide, Kill, Goto, Working
  <2>2. CASE Derive(r)
    <3>1. pc'[r] = "gpus" => stage'[r] # "canary"
      BY <2>2, DeriveStage DEF Formal
    <3>2. pc'[r] \in {"gpus", "raised", "done"}
      BY <2>2 DEF Derive, Goto
    <3>3. QED
      BY <3>1, <3>2 DEF Working
  <2>3. QED
    BY <1>5, <2>1, <2>2
<1>6. ASSUME NEW w \in Attempts, StartCanary(r, w)
      PROVE  /\ pc'[r] # "decide"
             /\ Working(r)' => decision' = Absent /\ workers'[r] \in Attempts
  BY <1>6 DEF StartCanary, Goto, Working, files
<1>7. CASE TakeGpus(r)
  <2>1. /\ pc[r] = "gpus" /\ stage'[r] = stage[r] /\ pc'[r] # "decide"
        /\ stage[r] = "canary" => workers'[r] = workers[r]
        /\ decision' = decision
    BY <1>7 DEF TakeGpus, Goto, files
  <2>2. QED
    BY <2>1, <1>3 DEF Working
<1>8. CASE Launch(r) \/ AllLaunched(r)
  <2>1. /\ pc[r] = "launch" /\ stage'[r] = stage[r] /\ pc'[r] # "decide"
        /\ workers'[r] = workers[r] /\ decision' = decision
    BY <1>8 DEF Launch, AllLaunched, Goto, files, local
  <2>2. QED
    BY <2>1, <1>3 DEF Working
<1>9. CASE Collect(r)
  <2>1. /\ pc[r] = "wait" /\ stage'[r] = stage[r] /\ workers'[r] = workers[r]
        /\ decision' = decision /\ passed' = passed
    BY <1>9 DEF Collect, files
  <2>2. QED
    BY <2>1, <1>3, <1>9, CanaryCollects DEF Working
<1>10. CASE pc'[r] = pc[r] /\ stage'[r] = stage[r] /\ workers'[r] = workers[r] /\ next'[r] = next[r]
  <2>1. Working(r)' <=> Working(r)
    BY <1>10 DEF Working
  <2>2. QED
    BY <1>1, <1>2, <1>3, <1>4, <1>10, <2>1
<1>11. QED
  BY <1>5, <1>6, <1>7, <1>8, <1>9, <1>10, ControlMoves DEF Step

(* The decision tells what the canary's jobs did.                          *)
LEMMA DecisionTrueNext ==
  ASSUME Typed, CanaryUndecided, DecisionTrue, [Next]_vars PROVE DecisionTrue'
<1>1. CASE decision' = decision
  <2>1. passed \subseteq passed'
    BY PassedMoves
  <2>2. QED
    BY <1>1, <2>1 DEF DecisionTrue, JobsOf, Configs
<1>2. ASSUME NEW r \in Runs, pc[r] = "decide", workers[r] \in Attempts, decision' = Decision(r),
             UNCHANGED passed
      PROVE  DecisionTrue'
  <2>1. workers[r] \in 1..2
    BY DEF Typed
  <2>2. next[r] # 0 => JobsOf("canary") \subseteq passed
    BY <1>2 DEF CanaryUndecided
  <2>3. /\ decision'.attempted = workers[r]
        /\ decision'.selected = IF next[r] = 0 THEN 1 ELSE workers[r]
        /\ decision'.status = IF next[r] # 0 THEN "PASS" ELSE IF workers[r] = 2 THEN "FALLBACK" ELSE "FAIL"
    BY <1>2 DEF Decision
  <2>4. QED
    BY <1>2, <2>1, <2>2, <2>3 DEF DecisionTrue, JobsOf, Configs
<1>3. QED
  BY <1>1, <1>2, DecisionMoves

(* The workers per GPU of an invocation change before its first child of   *)
(* the collection only.                                                    *)
LEMMA WorkersMove ==
  ASSUME Typed, Traces, StageIsOwn, [Next]_vars, NEW r \in Runs
  PROVE  \/ workers'[r] = workers[r]
         \/ \A j \in JobsOf("collection") : child[r][j] = "none" /\ child'[r][j] = "none"
<1> USE DEF Typed
<1>1. "collection" \in StageNames /\ "collection" \in Formal
  BY DEF StageNames, Formal
<1>2. ASSUME NEW w \in Attempts, StartCanary(r, w), NEW j \in JobsOf("collection")
      PROVE  child[r][j] = "none" /\ child'[r][j] = "none"
  <2>1. pc[r] = "idle" /\ child' = child /\ j \in Jobs
    BY <1>1, <1>2, JobFacts DEF StartCanary, MayStart
  <2>2. QED
    BY <2>1 DEF Traces
<1>3. ASSUME TakeGpus(r), workers'[r] # workers[r], NEW j \in JobsOf("collection")
      PROVE  child[r][j] = "none" /\ child'[r][j] = "none"
  <2>1. pc[r] = "gpus" /\ stage[r] = "collection" /\ child' = child /\ j \in Jobs
    BY <1>1, <1>3, JobFacts DEF TakeGpus
  <2>2. j \notin log
    BY <2>1, <1>1 DEF StageIsOwn, Working, InBatch
  <2>3. QED
    BY <2>1, <2>2 DEF Traces
<1>4. CASE StartRun(r) \/ Kill(r) \/ Derive(r) \/ Launch(r) \/ AllLaunched(r) \/ Collect(r) \/ Decide(r)
  BY <1>4 DEF StartRun, Kill, Derive, Launch, AllLaunched, Collect, Decide, local
<1>5. QED
  BY <1>2, <1>3, <1>4, ControlMoves DEF Step

(* A collection starts over a decision and with the number of workers it   *)
(* names.                                                                  *)
LEMMA CollectsAsDecidedNext ==
  ASSUME Typed, Traces, StageIsOwn, CanaryUndecided, CollectsAsDecided, [Next]_vars
  PROVE  CollectsAsDecided'
<1> USE DEF Typed
<1> DEFINE Collects(r) == \/ \E j \in JobsOf("collection") : child[r][j] # "none"
                          \/ InBatch(r) /\ stage[r] = "collection"
<1>1. ASSUME NEW r \in Runs, Collects(r)', ~Collects(r)
      PROVE  decision' # Absent /\ workers'[r] = decision'.selected
  <2>1. InBatch(r)' /\ stage'[r] = "collection"
    <3>1. ASSUME NEW j \in JobsOf("collection"), child'[r][j] # "none" PROVE FALSE
      <4>1. j \in Jobs /\ j[1] = "collection"
        BY JobFacts DEF StageNames
      <4>2. Launch(r) /\ j = <<stage[r], next[r]>>
        BY <1>1, <3>1, <4>1, ChildMoves
      <4>3. InBatch(r) /\ stage[r] = "collection"
        BY <4>1, <4>2 DEF Launch, InBatch
      <4>4. QED
        BY <1>1, <4>3
    <3>2. QED
      BY <1>1, <3>1 DEF JobsOf, Configs
  <2>2. Working(r)' /\ stage'[r] \in Formal
    BY <2>1 DEF Working, InBatch, Formal
  <2>3. TakeGpus(r) /\ stage[r] = "collection"
    <3>1. ~InBatch(r) \/ stage[r] # "collection"
      BY <1>1
    <3>2. Working(r) /\ stage'[r] = stage[r] /\ pc[r] = "gpus"
      BY <2>1, <2>2, <3>1, WorkMoves DEF InBatch, Working
    <3>3. pc'[r] # pc[r]
      BY <2>1, <3>2 DEF InBatch
    <3>4. QED
      BY <2>1, <3>2, <3>3, ControlMoves DEF Step, StartRun, StartCanary, Kill, Derive, Launch,
         AllLaunched, Collect, Decide, MayStart, Goto, InBatch
  <2>4. QED
    BY <2>1, <2>3 DEF TakeGpus, Goto, InBatch, files
<1>2. ASSUME NEW r \in Runs, Collects(r)', Collects(r)
      PROVE  decision' # Absent /\ workers'[r] = decision'.selected
  <2>1. decision # Absent /\ workers[r] = decision.selected
    BY <1>2 DEF CollectsAsDecided
  <2>2. decision' = decision
    BY <2>1, DecisionMoves
  <2>3. CASE workers'[r] = workers[r]
    BY <2>1, <2>2, <2>3
  <2>4. CASE \A j \in JobsOf("collection") : child[r][j] = "none" /\ child'[r][j] = "none"
    <3>1. InBatch(r) /\ stage[r] = "collection" /\ stage'[r] = "collection"
      BY <1>2, <2>4 DEF JobsOf, Configs
    <3>2. workers'[r] = workers[r]
      BY <3>1, ControlMoves DEF Step, StartRun, StartCanary, Kill, Derive, TakeGpus, Launch,
         AllLaunched, Collect, Decide, MayStart, InBatch, local
    <3>3. QED
      BY <2>1, <2>2, <3>2
  <2>5. QED
    BY <2>3, <2>4, WorkersMove
<1>3. QED
  BY <1>1, <1>2 DEF CollectsAsDecided, JobsOf, Configs

(* A controller launches the next batch when nothing of the last one runs. *)
LEMMA CollectsABatchNext ==
  ASSUME Typed, Typed', Traces, Batches, StageIsOwn, CollectsABatch, [Next]_vars
  PROVE  CollectsABatch'
<1> USE DEF Typed
<1> DEFINE OneBatch(r) ==
             \E b \in Nat :
               /\ b % Capacity("collection", workers'[r]) = 0
               /\ \A j \in JobsOf("collection") :
                    Running(child'[r][j]) =>
                      b < j[2] /\ j[2] <= b + Capacity("collection", workers'[r])
<1> SUFFICES ASSUME NEW r \in Runs PROVE OneBatch(r)
  BY DEF CollectsABatch, JobsOf, Configs, Capacity
<1>1. "collection" \in StageNames /\ "collection" \in Formal
  BY DEF StageNames, Formal
<1>2. \A j \in JobsOf("collection") : j \in Jobs
  BY <1>1, JobFacts
<1>3. CASE \A j \in JobsOf("collection") : child'[r][j] = "none"
  <2>1. Capacity("collection", workers'[r]) \in {1, 2, 4, 8}
    BY <1>1, CapacityFacts
  <2>2. 0 % Capacity("collection", workers'[r]) = 0
    BY <2>1
  <2>3. QED
    BY <1>3, <2>2 DEF Running
<1>4. ASSUME workers'[r] = workers[r],
             \A j \in JobsOf("collection") : Running(child'[r][j]) => Running(child[r][j])
      PROVE  OneBatch(r)
  BY <1>4 DEF CollectsABatch
<1>5. ASSUME workers'[r] = workers[r], NEW k \in JobsOf("collection"),
             Running(child'[r][k]), ~Running(child[r][k])
      PROVE  OneBatch(r)
  <2>1. Launch(r) /\ ~BatchFull(r) /\ k = <<stage[r], next[r]>>
    BY <1>2, <1>5, ChildMoves DEF Running
  <2>2. pc[r] = "launch" /\ stage[r] = "collection"
    BY <1>1, <2>1, JobFacts DEF Launch
  <2>3. PICK b \in Nat : BatchAfter(r, b)
    BY <2>2 DEF Batches, InBatch
  <2>4. Capacity("collection", workers[r]) \in {1, 2, 4, 8}
    BY <1>1, CapacityFacts
  <2>5. next[r] <= b + Capacity("collection", workers[r]) /\ b < next[r]
    BY <2>1, <2>2, <2>3, <2>4 DEF BatchAfter, BatchFull
  <2>6. ASSUME NEW j \in JobsOf("collection"), Running(child'[r][j])
        PROVE  b < j[2] /\ j[2] <= b + Capacity("collection", workers[r])
    <3>1. j \in Jobs /\ j[2] \in 1..Configs("collection") /\ j = <<"collection", j[2]>>
      BY <1>1, JobFacts
    <3>2. CASE Running(child[r][j])
      <4>1. j[2] < next[r]
        BY <1>1, <2>2, <3>1, <3>2 DEF Running, Traces, StageIsOwn, Working
      <4>2. ~(j[2] \in 1..b)
        BY <2>2, <2>3, <3>1, <3>2 DEF BatchAfter
      <4>3. QED
        BY <2>4, <2>5, <3>1, <4>1, <4>2, ConfigFacts, <1>1
    <3>3. CASE ~Running(child[r][j])
      <4>1. j = <<stage[r], next[r]>>
        BY <2>6, <3>1, <3>3, ChildMoves DEF Running
      <4>2. QED
        BY <2>5, <4>1
    <3>4. QED
      BY <3>2, <3>3
  <2>7. QED
    BY <1>5, <2>2, <2>3, <2>6 DEF BatchAfter
<1>6. QED
  BY <1>3, <1>4, <1>5, WorkersMove

(* PASS is written over complete stages only.                              *)
LEMMA PublishedCompleteNext ==
  ASSUME Typed, PublishedComplete, [Next]_vars PROVE PublishedComplete'
<1> SUFFICES ASSUME state' = "PASS", NEW k \in 1..4 PROVE Done(Stages[k])'
  BY DEF PublishedComplete
<1>1. CASE state = "PASS"
  BY <1>1, DoneStable DEF PublishedComplete
<1>2. CASE state # "PASS"
  <2>1. PICK r \in Runs : Derive(r)
    BY <1>2 DEF Next, Step, Child, StartRun, StartCanary, TakeGpus, Launch, Exit,
       WriteSummary, AllLaunched, Collect, Decide, Kill, vars, files
  <2>2. Todo = {}
    BY <1>2, <2>1 DEF Derive
  <2>3. Done(Stages[k])
    BY <2>2 DEF Todo
  <2>4. QED
    BY <2>3, DoneStable
<1>3. QED
  BY <1>1, <1>2

-----------------------------------------------------------------------------
(* The invariant.                                                          *)

PipeInv ==
  /\ Typed /\ OneLive /\ Traces /\ LogsInOrder /\ WorkInOrder /\ StageIsOwn /\ OneLauncher
  /\ Batches /\ CollectsABatch /\ CollectsAsDecided /\ CanaryUndecided /\ DecisionTrue
  /\ PublishedComplete

(* The invariant holds initially.                                          *)
LEMMA PipeInit == Init => PipeInv
<1> SUFFICES ASSUME Init PROVE PipeInv
  OBVIOUS
<1>1. Typed
  BY InitTyped
<1>2. \A r \in Runs : ~Live(r) /\ ~Working(r) /\ ~InBatch(r) /\ pc[r] = "idle"
  BY DEF Init, Live, Working, InBatch
<1>3. \A r \in Runs : \A j \in Jobs : child[r][j] = "none"
  BY DEF Init
<1>4. OneLive /\ Traces /\ LogsInOrder /\ WorkInOrder /\ StageIsOwn /\ OneLauncher
  BY <1>2, <1>3 DEF Init, OneLive, Traces, LogsInOrder, WorkInOrder, StageIsOwn, OneLauncher
<1>5. Batches
  BY <1>2 DEF Init, Batches
<1>6. "collection" \in StageNames
  BY DEF StageNames
<1>7. CollectsABatch
  <2> SUFFICES ASSUME NEW r \in Runs
               PROVE  0 % Capacity("collection", workers[r]) = 0
    BY <1>3, <1>6, JobFacts DEF CollectsABatch, Running
  <2>1. Capacity("collection", workers[r]) \in {1, 2, 4, 8}
    BY <1>1, <1>6, CapacityFacts DEF Typed
  <2>2. QED
    BY <2>1
<1>8. CollectsAsDecided
  BY <1>2, <1>3, <1>6, JobFacts DEF CollectsAsDecided
<1>9. CanaryUndecided /\ DecisionTrue /\ PublishedComplete
  BY <1>2, ScaledAssumption DEF Init, CanaryUndecided, DecisionTrue, PublishedComplete
<1>10. QED
  BY <1>1, <1>4, <1>5, <1>7, <1>8, <1>9 DEF PipeInv

(* Every step keeps the invariant.                                         *)
LEMMA PipeNext == PipeInv /\ [Next]_vars => PipeInv'
<1> SUFFICES ASSUME PipeInv, [Next]_vars PROVE PipeInv'
  OBVIOUS
<1>1. Typed'
  BY TypedNext DEF PipeInv
<1>2. OneLive' /\ Traces' /\ LogsInOrder' /\ WorkInOrder' /\ StageIsOwn' /\ OneLauncher'
  BY OneLiveNext, TracesNext, LogsInOrderNext, WorkInOrderNext, StageIsOwnNext, OneLauncherNext
  DEF PipeInv
<1>3. Batches' /\ CollectsABatch'
  BY <1>1, BatchesNext, CollectsABatchNext DEF PipeInv
<1>4. CollectsAsDecided' /\ CanaryUndecided' /\ DecisionTrue' /\ PublishedComplete'
  BY CollectsAsDecidedNext, CanaryUndecidedNext, DecisionTrueNext, PublishedCompleteNext
  DEF PipeInv
<1>5. QED
  BY <1>1, <1>2, <1>3, <1>4 DEF PipeInv

(* The invariant holds in every run of canaries and pipelines.             *)
THEOREM PipeInvariance == Spec => []PipeInv
BY PipeInit, PipeNext, PTL DEF Spec

-----------------------------------------------------------------------------
(* Workers per GPU.                                                        *)

(* Of one batch two configs at most are dealt to a GPU.                    *)
LEMMA Dealt ==
  ASSUME NEW w \in 1..2, NEW g \in 0..(Gpus - 1), NEW b \in Nat, b % (Gpus * w) = 0,
         NEW i \in Nat, b < i, i <= b + Gpus * w
  PROVE  (((i - 1) % (Gpus * w)) % Gpus = g) <=> (i = b + 1 + g \/ (w = 2 /\ i = b + 1 + g + Gpus))
<1>1. (i - 1) % (Gpus * w) = i - 1 - b
  <2>1. CASE Gpus * w = 2
    BY <2>1
  <2>2. CASE Gpus * w = 4
    BY <2>2
  <2>3. CASE Gpus * w = 8
    BY <2>3
  <2>4. QED
    BY <2>1, <2>2, <2>3, ScaledAssumption
<1>2. PICK p \in Nat : p = i - 1 - b
  OBVIOUS
<1>3. p < Gpus * w
  BY <1>2, ScaledAssumption
<1>4. p % Gpus = g <=> (p = g \/ (w = 2 /\ p = g + Gpus))
  <2>1. CASE Gpus = 2 /\ w = 1
    BY <2>1, <1>3
  <2>2. CASE Gpus = 2 /\ w = 2
    BY <2>2, <1>3
  <2>3. CASE Gpus = 4 /\ w = 1
    BY <2>3, <1>3
  <2>4. CASE Gpus = 4 /\ w = 2
    BY <2>4, <1>3
  <2>5. QED
    BY <2>1, <2>2, <2>3, <2>4, ScaledAssumption
<1>5. QED
  BY <1>1, <1>2, <1>4, ScaledAssumption

(* Sets of one and of two elements.                                        *)
LEMMA Pairs ==
  /\ \A x : Cardinality({x}) = 1
  /\ \A x, y : x # y => Cardinality({x, y}) = 2
  /\ \A S, x : S \subseteq {x} => Cardinality(S) <= 1
  /\ \A S, x, y : S \subseteq {x, y} => Cardinality(S) <= 2
<1>1. \A x : IsFiniteSet({x}) /\ Cardinality({x}) = 1
  BY FS_Singleton
<1>2. \A x, y : IsFiniteSet({x, y}) /\ Cardinality({x, y}) \in 1..2
                /\ (x # y => Cardinality({x, y}) = 2)
  <2> TAKE x, y
  <2>1. {x, y} = {x} \cup {y}
    OBVIOUS
  <2>2. /\ IsFiniteSet({x} \cup {y})
        /\ Cardinality({x} \cup {y}) = IF y \in {x} THEN Cardinality({x}) ELSE Cardinality({x}) + 1
    BY <1>1, FS_AddElement
  <2>3. QED
    BY <1>1, <2>1, <2>2
<1>3. \A S, x : S \subseteq {x} => Cardinality(S) <= 1
  <2> SUFFICES ASSUME NEW S, NEW x, S \subseteq {x} PROVE Cardinality(S) <= 1
    OBVIOUS
  <2>1. IsFiniteSet({x}) /\ S \in SUBSET {x}
    BY <1>1
  <2>2. IsFiniteSet(S) /\ Cardinality(S) <= Cardinality({x})
    BY <2>1, FS_Subset
  <2>3. QED
    BY <1>1, <2>2
<1>4. \A S, x, y : S \subseteq {x, y} => Cardinality(S) <= 2
  <2> SUFFICES ASSUME NEW S, NEW x, NEW y, S \subseteq {x, y} PROVE Cardinality(S) <= 2
    OBVIOUS
  <2>1. IsFiniteSet({x, y}) /\ S \in SUBSET {x, y}
    BY <1>2
  <2>2. IsFiniteSet(S) /\ Cardinality(S) <= Cardinality({x, y})
    BY <2>1, FS_Subset
  <2>3. Cardinality(S) \in Nat /\ Cardinality({x, y}) \in 1..2
    BY <1>2, <2>2, FS_CardinalityType
  <2>4. QED
    BY <2>2, <2>3
<1>5. QED
  BY <1>1, <1>2, <1>3, <1>4

(* The type invariant.                                                     *)
LEMMA InvTypeOK == PipeInv => TypeOK
<1> SUFFICES ASSUME PipeInv PROVE TypeOK
  OBVIOUS
<1>1. Typed /\ Batches /\ DecisionTrue
  BY DEF PipeInv
<1>2. ASSUME NEW r \in Runs, InBatch(r) PROVE next[r] \in 1..(Configs(stage[r]) + 1)
  <2>1. PICK b \in Nat : BatchAfter(r, b)
    BY <1>1, <1>2 DEF Batches
  <2>2. next[r] \in Nat /\ Configs(stage[r]) \in Nat
    BY <1>1, ConfigFacts DEF Typed
  <2>3. QED
    BY <2>1, <2>2 DEF BatchAfter
<1>3. QED
  BY <1>1, <1>2 DEF TypeOK, Typed, Batches, DecisionTrue, InBatch

(* A running job has logs, which lie over complete earlier stages.         *)
LEMMA InvStages == PipeInv => StagesInOrder
<1> SUFFICES ASSUME PipeInv, NEW r \in Runs, NEW j \in Jobs, Running(child[r][j]), j[1] # "canary",
                    NEW s \in Earlier(j[1])
             PROVE  Done(s)
  BY DEF StagesInOrder
<1>1. j \in log
  BY DEF PipeInv, Traces, Running
<1>2. j[1] \in Formal
  BY JobFacts DEF StageNames, Formal
<1>3. QED
  BY <1>1, <1>2 DEF PipeInv, LogsInOrder

(* One invocation has collection workers, of one batch, in which a GPU     *)
(* occurs as often as it has workers.                                      *)
LEMMA InvGpus == PipeInv => GpuBounded
<1> SUFFICES ASSUME PipeInv, decision # Absent, NEW g \in 0..(Gpus - 1)
             PROVE  Cardinality(OnGpu(g)) <= decision.selected
  BY DEF GpuBounded
<1>1. Typed /\ Traces /\ OneLauncher /\ CollectsABatch /\ CollectsAsDecided /\ DecisionTrue
  BY DEF PipeInv
<1>2. decision.selected \in 1..2
  BY <1>1 DEF DecisionTrue
<1>3. \A x \in OnGpu(g) :
        /\ x[1] \in Runs /\ x[2] \in JobsOf("collection") /\ x = <<x[1], x[2]>>
        /\ Running(child[x[1]][x[2]]) /\ Gpu(x[2][2], "collection", workers[x[1]]) = g
  BY DEF OnGpu
<1>4. \A j \in JobsOf("collection") :
        j \in Jobs /\ j[1] = "collection" /\ j[1] \in Formal /\ j[2] \in Nat /\ j = <<"collection", j[2]>>
  <2>1. "collection" \in StageNames
    BY DEF StageNames
  <2>2. Configs("collection") \in Nat
    BY <2>1, ConfigFacts
  <2>3. QED
    BY <2>1, <2>2, JobFacts DEF Formal
<1>5. CASE OnGpu(g) = {}
  BY <1>2, <1>5, FS_EmptySet
<1>6. CASE OnGpu(g) # {}
  <2>1. PICK x \in OnGpu(g) : TRUE
    BY <1>6
  <2>2. PICK r \in Runs : r = x[1]
    BY <1>3
  <2>3. \A y \in OnGpu(g) : y[1] = r
    BY <1>1, <1>3, <1>4, <2>2 DEF OneLauncher, Running
  <2>4. workers[r] = decision.selected
    BY <1>1, <1>3, <2>2 DEF CollectsAsDecided, Running
  <2>5. PICK w \in 1..2 : w = workers[r]
    BY <1>2, <2>4
  <2>6. Capacity("collection", w) = Gpus * w
    BY DEF Capacity
  <2>7. PICK b \in Nat : /\ b % (Gpus * w) = 0
                         /\ \A j \in JobsOf("collection") :
                              Running(child[r][j]) => b < j[2] /\ j[2] <= b + Gpus * w
    BY <1>1, <2>5, <2>6 DEF CollectsABatch
  <2>8. ASSUME NEW y \in OnGpu(g)
        PROVE  \/ y = <<r, <<"collection", b + 1 + g>>>>
               \/ w = 2 /\ y = <<r, <<"collection", b + 1 + g + Gpus>>>>
    <3>1. PICK i \in Nat : i = y[2][2]
      BY <1>3, <1>4
    <3>2. y = <<r, <<"collection", i>>>>
      BY <1>3, <1>4, <2>3, <3>1
    <3>3. b < i /\ i <= b + Gpus * w
      BY <1>3, <2>3, <2>7, <3>1
    <3>4. ((i - 1) % (Gpus * w)) % Gpus = g
      BY <1>3, <2>3, <2>5, <2>6, <3>1 DEF Gpu, Position
    <3>5. i = b + 1 + g \/ (w = 2 /\ i = b + 1 + g + Gpus)
      BY <2>7, <3>3, <3>4, Dealt
    <3>6. QED
      BY <3>2, <3>5
  <2>9. CASE w = 1
    <3>1. OnGpu(g) \subseteq {<<r, <<"collection", b + 1 + g>>>>}
      BY <2>8, <2>9
    <3>2. QED
      BY <3>1, <2>4, <2>5, <2>9, Pairs
  <2>10. CASE w = 2
    <3>1. OnGpu(g) \subseteq {<<r, <<"collection", b + 1 + g>>>>,
                              <<r, <<"collection", b + 1 + g + Gpus>>>>}
      BY <2>8
    <3>2. QED
      BY <3>1, <2>4, <2>5, <2>10, Pairs
  <2>11. QED
    BY <2>9, <2>10
<1>7. QED
  BY <1>5, <1>6

(* What a passing canary has shown.                                        *)
LEMMA InvProbe == PipeInv => ProbedPass /\ NoPassOverFailure
<1> SUFFICES ASSUME PipeInv PROVE ProbedPass /\ NoPassOverFailure
  OBVIOUS
<1>1. DecisionTrue
  BY DEF PipeInv
<1>2. ASSUME decision # Absent, decision.status = "PASS", decision.attempted = Configured,
             NEW g \in 0..(Gpus - 1)
      PROVE  Cardinality({j \in JobsOf("canary") : Gpu(j[2], "canary", decision.selected) = g}) = Configured
  <2> DEFINE On == {j \in JobsOf("canary") : Gpu(j[2], "canary", decision.selected) = g}
  <2>1. PICK w \in 1..2 : w = Configured /\ decision.selected = w
    BY <1>1, <1>2, ScaledAssumption DEF DecisionTrue
  <2>2. JobsOf("canary") = {<<"canary", i>> : i \in 1..(Gpus * w)}
    BY <2>1, ConfigFacts DEF JobsOf
  <2>3. ASSUME NEW i \in 1..(Gpus * w)
        PROVE  Gpu(i, "canary", w) = g <=> (i = 1 + g \/ (w = 2 /\ i = 1 + g + Gpus))
    <3>1. 0 % (Gpus * w) = 0 /\ Gpus * w \in {2, 4, 8}
      BY ScaledAssumption
    <3>2. 0 < i /\ i <= 0 + Gpus * w /\ i \in Nat
      BY <3>1
    <3>3. (((i - 1) % (Gpus * w)) % Gpus = g) <=> (i = 0 + 1 + g \/ (w = 2 /\ i = 0 + 1 + g + Gpus))
      BY <3>1, <3>2, Dealt
    <3>4. QED
      BY <3>3, ScaledAssumption DEF Gpu, Position, Capacity
  <2>4. CASE w = 1
    <3>1. 1 + g \in 1..(Gpus * w)
      BY <2>4, ScaledAssumption
    <3>2. On = {<<"canary", 1 + g>>}
      BY <2>1, <2>2, <2>3, <2>4, <3>1
    <3>3. QED
      BY <3>2, <2>1, <2>4, Pairs
  <2>5. CASE w = 2
    <3>1. 1 + g \in 1..(Gpus * w) /\ 1 + g + Gpus \in 1..(Gpus * w)
      BY <2>5, ScaledAssumption
    <3>2. On = {<<"canary", 1 + g>>, <<"canary", 1 + g + Gpus>>}
      BY <2>1, <2>2, <2>3, <2>5, <3>1
    <3>3. <<"canary", 1 + g>> # <<"canary", 1 + g + Gpus>>
      BY ScaledAssumption
    <3>4. Cardinality({<<"canary", 1 + g>>, <<"canary", 1 + g + Gpus>>}) = 2
      BY <3>3, Pairs, Zenon
    <3>5. QED
      BY <3>2, <3>4, <2>1, <2>5
  <2>6. QED
    BY <2>4, <2>5
<1>3. ProbedPass
  BY <1>1, <1>2 DEF ProbedPass, DecisionTrue
<1>4. NoPassOverFailure
  BY <1>1 DEF NoPassOverFailure, DecisionTrue
<1>5. QED
  BY <1>3, <1>4

-----------------------------------------------------------------------------
(* The records of a split and the shards that collect them.                *)

RoleNames == {"train", "calibration", "screening", "heldout"}

(* The counts of a split, and the roles by name.                           *)
LEMMA CountFacts ==
  /\ DOMAIN Roles = 1..4
  /\ Roles[1] = "train" /\ Roles[2] = "calibration"
  /\ Roles[3] = "screening" /\ Roles[4] = "heldout"
  /\ \A counts \in Counts : \A role \in RoleNames : counts[role] \in Nat /\ counts[role] > 0
<1>1. Roles \in Seq(RoleNames) /\ Len(Roles) = 4 /\ DOMAIN Roles = 1..4
  BY DEF Roles, RoleNames
<1>2. Roles[1] = "train" /\ Roles[2] = "calibration"
        /\ Roles[3] = "screening" /\ Roles[4] = "heldout"
  BY DEF Roles
<1>3. SX!ToSet(Roles) = RoleNames
  BY <1>1, <1>2 DEF SX!ToSet, RoleNames
<1>4. \A n \in 1..MaxCount : n \in Nat /\ n > 0
  BY ScaledAssumption
<1> QED
  BY <1>1, <1>2, <1>3, <1>4 DEF Counts

(* Where the records of a role end, and so where the next one's begin.     *)
LEMMA CursorFacts ==
  ASSUME NEW counts \in Counts
  PROVE  /\ Before(counts, 0) = 0 /\ Before(counts, 1) = counts.train
         /\ Before(counts, 2) = Before(counts, 1) + counts.calibration
         /\ Before(counts, 3) = Before(counts, 2) + counts.screening
         /\ Before(counts, 4) = Before(counts, 3) + counts.heldout
         /\ \A k \in 0..4 : Before(counts, k) \in Nat
<1>0. counts.train \in Nat /\ counts.calibration \in Nat /\ counts.screening \in Nat
        /\ counts.heldout \in Nat
  BY CountFacts DEF RoleNames
<1>1. Before(counts, 0) = 0
  BY DEF Before
<1>2. Before(counts, 1) = counts.train
  BY DEF Before
<1>3. Before(counts, 2) = counts.train + counts.calibration
  BY DEF Before
<1>4. Before(counts, 3) = counts.train + counts.calibration + counts.screening
  BY DEF Before
<1>5. Before(counts, 4) = counts.train + counts.calibration + counts.screening + counts.heldout
  BY DEF Before
<1>6. \A k \in 0..4 : k = 0 \/ k = 1 \/ k = 2 \/ k = 3 \/ k = 4
  OBVIOUS
<1> QED
  BY <1>0, <1>1, <1>2, <1>3, <1>4, <1>5, <1>6

(* The bounds of a role run from the end of the role before it.            *)
LEMMA BoundFacts ==
  ASSUME NEW counts \in Counts
  PROVE  /\ \A i : i \in SplitBounds(counts)[1] <=>
                     i \in Int /\ 0 <= i /\ i < Before(counts, 1)
         /\ \A i : i \in SplitBounds(counts)[2] <=>
                     i \in Int /\ Before(counts, 1) <= i /\ i < Before(counts, 2)
         /\ \A i : i \in SplitBounds(counts)[3] <=>
                     i \in Int /\ Before(counts, 2) <= i /\ i < Before(counts, 3)
         /\ \A i : i \in SplitBounds(counts)[4] <=>
                     i \in Int /\ Before(counts, 3) <= i /\ i < Before(counts, 4)
<1>1. \A k \in 1..4 :
        SplitBounds(counts)[k] = Before(counts, k - 1)..(Before(counts, k) - 1)
  BY CountFacts DEF SplitBounds
<1>2. \A k \in 0..4 : Before(counts, k) \in Nat
  BY CursorFacts
<1>3. SplitBounds(counts)[1] = Before(counts, 0)..(Before(counts, 1) - 1)
  BY <1>1
<1>4. SplitBounds(counts)[2] = Before(counts, 1)..(Before(counts, 2) - 1)
  BY <1>1
<1>5. SplitBounds(counts)[3] = Before(counts, 2)..(Before(counts, 3) - 1)
  BY <1>1
<1>6. SplitBounds(counts)[4] = Before(counts, 3)..(Before(counts, 4) - 1)
  BY <1>1
<1>7. Before(counts, 0) = 0
  BY CursorFacts
<1> QED
  BY <1>2, <1>3, <1>4, <1>5, <1>6, <1>7

(* A block of one role.                                                    *)
LEMMA BlockFacts ==
  ASSUME NEW role \in RoleNames, NEW n \in Nat
  PROVE  /\ [i \in 1..n |-> role] \in Seq(RoleNames) /\ Len([i \in 1..n |-> role]) = n
         /\ \A m \in 1..n : [i \in 1..n |-> role][m] = role
OBVIOUS

(* The list of roles is one block per role, in the order of the bounds.    *)
LEMMA RoleFacts ==
  ASSUME NEW counts \in Counts
  PROVE  /\ DOMAIN ExpectedRoles(counts) = 1..Before(counts, 4)
         /\ \A n \in 1..Before(counts, 4) :
              /\ n <= Before(counts, 1) => ExpectedRoles(counts)[n] = "train"
              /\ Before(counts, 1) < n /\ n <= Before(counts, 2) =>
                   ExpectedRoles(counts)[n] = "calibration"
              /\ Before(counts, 2) < n /\ n <= Before(counts, 3) =>
                   ExpectedRoles(counts)[n] = "screening"
              /\ Before(counts, 3) < n => ExpectedRoles(counts)[n] = "heldout"
<1>1. PICK a \in Nat, b \in Nat, c \in Nat, d \in Nat :
        a = counts.train /\ b = counts.calibration /\ c = counts.screening /\ d = counts.heldout
  BY CountFacts DEF RoleNames
<1>2. Before(counts, 1) = a /\ Before(counts, 2) = a + b /\ Before(counts, 3) = a + b + c
        /\ Before(counts, 4) = a + b + c + d
  BY <1>1, CursorFacts
<1>3. \E p, q, u, v \in Seq(RoleNames) :
        /\ ExpectedRoles(counts) = p \o q \o u \o v
        /\ Len(p) = a /\ \A m \in 1..a : p[m] = "train"
        /\ Len(q) = b /\ \A m \in 1..b : q[m] = "calibration"
        /\ Len(u) = c /\ \A m \in 1..c : u[m] = "screening"
        /\ Len(v) = d /\ \A m \in 1..d : v[m] = "heldout"
  <2> DEFINE Block(role, n) == [i \in 1..n |-> role]
  <2>1. "train" \in RoleNames /\ "calibration" \in RoleNames /\ "screening" \in RoleNames
          /\ "heldout" \in RoleNames
    BY DEF RoleNames
  <2>2. ExpectedRoles(counts) =
          Block("train", a) \o Block("calibration", b) \o Block("screening", c) \o Block("heldout", d)
    BY <1>1 DEF ExpectedRoles
  <2>3. \A role \in RoleNames, n \in Nat :
          /\ Block(role, n) \in Seq(RoleNames) /\ Len(Block(role, n)) = n
          /\ \A m \in 1..n : Block(role, n)[m] = role
    BY BlockFacts
  <2> HIDE DEF Block
  <2>4. /\ Block("train", a) \in Seq(RoleNames) /\ Block("calibration", b) \in Seq(RoleNames)
        /\ Block("screening", c) \in Seq(RoleNames) /\ Block("heldout", d) \in Seq(RoleNames)
    BY <2>1, <2>3
  <2>5. /\ Len(Block("train", a)) = a /\ \A m \in 1..a : Block("train", a)[m] = "train"
        /\ Len(Block("calibration", b)) = b
        /\ \A m \in 1..b : Block("calibration", b)[m] = "calibration"
        /\ Len(Block("screening", c)) = c
        /\ \A m \in 1..c : Block("screening", c)[m] = "screening"
        /\ Len(Block("heldout", d)) = d /\ \A m \in 1..d : Block("heldout", d)[m] = "heldout"
    BY <2>1, <2>3
  <2> QED
    BY <2>2, <2>4, <2>5, Zenon
<1>4. PICK p \in Seq(RoleNames), q \in Seq(RoleNames), u \in Seq(RoleNames), v \in Seq(RoleNames) :
        /\ ExpectedRoles(counts) = p \o q \o u \o v
        /\ Len(p) = a /\ \A m \in 1..a : p[m] = "train"
        /\ Len(q) = b /\ \A m \in 1..b : q[m] = "calibration"
        /\ Len(u) = c /\ \A m \in 1..c : u[m] = "screening"
        /\ Len(v) = d /\ \A m \in 1..d : v[m] = "heldout"
  BY <1>3
<1>5. PICK two \in Seq(RoleNames) :
        /\ two = p \o q /\ Len(two) = a + b
        /\ \A m \in 1..a : two[m] = p[m]
        /\ \A m \in (a + 1)..(a + b) : m - a \in 1..b /\ two[m] = q[m - a]
  <2>1. Len(p) = a /\ Len(q) = b
    BY <1>4
  <2>2. p \o q \in Seq(RoleNames)
    OBVIOUS
  <2>3. Len(p \o q) = a + b
    BY <2>1
  <2>4. \A m \in 1..a : (p \o q)[m] = p[m]
    BY <2>1
  <2>5. \A m \in (a + 1)..(a + b) :
          m - a \in 1..b /\ (p \o q)[m] = q[m - a]
    BY <2>1
  <2> QED
    BY <2>2, <2>3, <2>4, <2>5, Zenon
<1>6. PICK three \in Seq(RoleNames) :
        /\ three = two \o u /\ Len(three) = a + b + c
        /\ \A m \in 1..(a + b) : three[m] = two[m]
        /\ \A m \in (a + b + 1)..(a + b + c) : m - (a + b) \in 1..c /\ three[m] = u[m - (a + b)]
  <2>1. Len(two) = a + b /\ Len(u) = c
    BY <1>4, <1>5
  <2>2. two \o u \in Seq(RoleNames)
    OBVIOUS
  <2>3. Len(two \o u) = a + b + c
    <3>1. Len(two \o u) = Len(two) + Len(u)
      OBVIOUS
    <3> QED
      BY <2>1, <3>1, Zenon
  <2>4. \A m \in 1..(a + b) : (two \o u)[m] = two[m]
    BY <2>1
  <2>5. \A m \in (a + b + 1)..(a + b + c) :
          m - (a + b) \in 1..c /\ (two \o u)[m] = u[m - (a + b)]
    BY <2>1
  <2> QED
    BY <2>2, <2>3, <2>4, <2>5, Zenon
<1>7. PICK four \in Seq(RoleNames) :
        /\ four = three \o v /\ Len(four) = a + b + c + d
        /\ \A m \in 1..(a + b + c) : four[m] = three[m]
        /\ \A m \in (a + b + c + 1)..(a + b + c + d) :
             m - (a + b + c) \in 1..d /\ four[m] = v[m - (a + b + c)]
  <2>1. Len(three) = a + b + c /\ Len(v) = d
    BY <1>4, <1>6
  <2>2. three \o v \in Seq(RoleNames)
    OBVIOUS
  <2>3. Len(three \o v) = a + b + c + d
    <3>1. Len(three \o v) = Len(three) + Len(v)
      OBVIOUS
    <3> QED
      BY <2>1, <3>1, Zenon
  <2>4. \A m \in 1..(a + b + c) : (three \o v)[m] = three[m]
    BY <2>1
  <2>5. \A m \in (a + b + c + 1)..(a + b + c + d) :
          m - (a + b + c) \in 1..d /\ (three \o v)[m] = v[m - (a + b + c)]
    BY <2>1
  <2> QED
    BY <2>2, <2>3, <2>4, <2>5, Zenon
<1>8. ExpectedRoles(counts) = four
  BY <1>4, <1>5, <1>6, <1>7
<1>9. DOMAIN four = 1..(a + b + c + d)
  BY <1>7
<1>10. ASSUME NEW n \in 1..(a + b + c + d)
       PROVE  /\ n <= a => four[n] = "train"
              /\ a < n /\ n <= a + b => four[n] = "calibration"
              /\ a + b < n /\ n <= a + b + c => four[n] = "screening"
              /\ a + b + c < n => four[n] = "heldout"
  <2>1. n <= a + b + c => four[n] = three[n]
    BY <1>7
  <2>2. n <= a + b => three[n] = two[n]
    BY <1>6
  <2>3. n <= a => two[n] = p[n] /\ p[n] = "train"
    BY <1>4, <1>5
  <2>4. a < n /\ n <= a + b => two[n] = "calibration"
    BY <1>4, <1>5
  <2>5. a + b < n /\ n <= a + b + c => three[n] = "screening"
    BY <1>4, <1>6
  <2>6. a + b + c < n => four[n] = "heldout"
    BY <1>4, <1>7
  <2> QED
    BY <2>1, <2>2, <2>3, <2>4, <2>5, <2>6
<1> QED
  BY <1>2, <1>8, <1>9, <1>10

(* The records that have a role are those within its bounds.               *)
LEMMA BoundsAreRoles ==
  ASSUME NEW counts \in Counts, NEW k \in DOMAIN Roles
  PROVE  SplitBounds(counts)[k] =
           {i - 1 : i \in {n \in DOMAIN ExpectedRoles(counts) : ExpectedRoles(counts)[n] = Roles[k]}}
<1> DEFINE Of == {n \in DOMAIN ExpectedRoles(counts) : ExpectedRoles(counts)[n] = Roles[k]}
<1>0. counts["calibration"] \in Nat /\ counts["screening"] \in Nat /\ counts["heldout"] \in Nat
         /\ counts["train"] \in Nat
  BY CountFacts DEF RoleNames
<1>1. k = 1 \/ k = 2 \/ k = 3 \/ k = 4
  BY CountFacts
<1>2. \A m \in 0..4 : Before(counts, m) \in Nat
  BY CursorFacts
<1>3. Before(counts, 1) <= Before(counts, 2) /\ Before(counts, 2) <= Before(counts, 3)
        /\ Before(counts, 3) <= Before(counts, 4)
  BY <1>0, <1>2, CursorFacts
<1>4. ASSUME NEW i \in SplitBounds(counts)[k] PROVE i + 1 \in Of /\ i = (i + 1) - 1
  <2>1. i \in Nat /\ i + 1 \in 1..Before(counts, 4)
    BY <1>1, <1>2, <1>3, BoundFacts
  <2>2. ExpectedRoles(counts)[i + 1] = Roles[k]
    <3>1. CASE k = 1
      BY <1>2, <2>1, <3>1, CountFacts, BoundFacts, RoleFacts
    <3>2. CASE k = 2
      BY <1>2, <2>1, <3>2, CountFacts, BoundFacts, RoleFacts
    <3>3. CASE k = 3
      BY <1>2, <2>1, <3>3, CountFacts, BoundFacts, RoleFacts
    <3>4. CASE k = 4
      BY <1>2, <2>1, <3>4, CountFacts, BoundFacts, RoleFacts
    <3> QED
      BY <1>1, <3>1, <3>2, <3>3, <3>4
  <2>3. i + 1 \in DOMAIN ExpectedRoles(counts)
    BY <2>1, RoleFacts
  <2> QED
    BY <2>1, <2>2, <2>3
<1>5. ASSUME NEW n \in Of PROVE n - 1 \in SplitBounds(counts)[k]
  <2>1. n \in 1..Before(counts, 4) /\ ExpectedRoles(counts)[n] = Roles[k]
    BY RoleFacts
  <2>2. n \in Nat
    BY <1>2, <2>1
  <2>3. CASE n <= Before(counts, 1)
    BY <1>1, <1>2, <2>1, <2>2, <2>3, CountFacts, BoundFacts, RoleFacts
  <2>4. CASE Before(counts, 1) < n /\ n <= Before(counts, 2)
    BY <1>1, <1>2, <2>1, <2>2, <2>4, CountFacts, BoundFacts, RoleFacts
  <2>5. CASE Before(counts, 2) < n /\ n <= Before(counts, 3)
    BY <1>1, <1>2, <2>1, <2>2, <2>5, CountFacts, BoundFacts, RoleFacts
  <2>6. CASE Before(counts, 3) < n
    BY <1>1, <1>2, <2>1, <2>2, <2>6, CountFacts, BoundFacts, RoleFacts
  <2> QED
    BY <1>2, <2>2, <2>3, <2>4, <2>5, <2>6
<1> QED
  BY <1>4, <1>5

(* Every record has one shard, and a complete collection has all shards.   *)
LEMMA ShardsPartition ==
  ASSUME NEW counts \in Counts
  PROVE  /\ \A s, q \in 1..Shards : s # q => ShardRecords(counts, s) \cap ShardRecords(counts, q) = {}
         /\ Done("collection") =>
              Collected(counts) = SplitBounds(counts)[1] \cup SplitBounds(counts)[2]
<1> DEFINE all == 0..(CollectionCount(counts) - 1)
<1>0. counts.train \in Nat /\ counts.calibration \in Nat
  BY CountFacts DEF RoleNames
<1>1. Shards \in Nat \ {0} /\ CollectionCount(counts) = counts.train + counts.calibration
  BY ScaledAssumption DEF CollectionCount
<1>2. \A s, q \in 1..Shards : s # q => ShardRecords(counts, s) \cap ShardRecords(counts, q) = {}
  BY <1>1 DEF ShardRecords
<1>3. ASSUME Done("collection") PROVE Collected(counts) = all
  <2>1. \A s \in 1..Shards : <<"collection", s>> \in passed
    BY <1>3, ConfigFacts DEF Done, JobsOf
  <2>2. Collected(counts) \subseteq all
    BY DEF Collected, ShardRecords
  <2>3. ASSUME NEW i \in all PROVE i \in Collected(counts)
    <3>1. i \in Nat
      BY <1>0, <1>1
    <3>2. i % Shards \in 0..(Shards - 1)
      BY <1>1, <3>1
    <3>3. (i % Shards) + 1 \in 1..Shards /\ ((i % Shards) + 1) - 1 = i % Shards
      BY <1>1, <3>2
    <3>4. i \in ShardRecords(counts, (i % Shards) + 1)
      BY <3>3 DEF ShardRecords
    <3> QED
      BY <2>1, <3>3, <3>4 DEF Collected
  <2> QED
    BY <2>2, <2>3
<1>4. all = SplitBounds(counts)[1] \cup SplitBounds(counts)[2]
  BY <1>0, <1>1, CursorFacts, BoundFacts
<1> QED
  BY <1>2, <1>3, <1>4

(* A complete collection is a partition of what it is to collect.          *)
LEMMA InvSplits == SplitsPartition
BY BoundsAreRoles, ShardsPartition DEF SplitsPartition, Partitioned

(* No GPU carries more collection workers than the canary chose, children  *)
(* of killed invocations counted, the canary chose by what it probed, and  *)
(* a complete collection holds each train and calibration record once and  *)
(* no record of screening or held-out.                                     *)
THEOREM BudgetIsKept == Spec => []GpuBudgetProbed
<1>1. PipeInv => GpuBudgetProbed
  BY InvTypeOK, InvStages, InvGpus, InvProbe, InvSplits DEF BudgetKept, GpuBudgetProbed
<1>2. QED
  BY <1>1, PipeInvariance, PTL

-----------------------------------------------------------------------------
(* The ledger.                                                             *)

LEMMA LaunchStep == PipeInv /\ [Next]_vars => LaunchedOnce
<1> SUFFICES ASSUME PipeInv, [Next]_vars, NEW r \in Runs, NEW j \in Jobs,
                    child[r][j] # "running", child'[r][j] = "running", j[1] # "canary"
             PROVE  j \notin log \cup passed
  BY DEF LaunchedOnce
<1>1. Typed /\ StageIsOwn
  BY DEF PipeInv
<1>2. Launch(r) /\ j = <<stage[r], next[r]>>
  BY <1>1, ChildMoves
<1>3. Working(r) /\ stage[r] = j[1] /\ j[1] \in Formal /\ j \in JobsOf(stage[r])
  BY <1>2, JobFacts DEF Launch, Working, StageNames, Formal
<1>4. ~(j[2] < next[r])
  BY <1>1, <1>2 DEF Typed
<1>5. QED
  BY <1>1, <1>3, <1>4 DEF StageIsOwn, Typed

(* A step that completes a stage is a step of the ledger.                  *)
LEMMA PassStep ==
  ASSUME PipeInv, [Next]_vars, PassedStages' # PassedStages
  PROVE  Ledger!Pass
<1>1. Typed /\ Traces /\ LogsInOrder
  BY DEF PipeInv
<1>2. PICK r \in Runs, j \in Jobs : /\ child[r][j] = "running" /\ passed' = passed \cup {j}
                                    /\ UNCHANGED state
  BY PassedMoves DEF PassedStages, Done, JobsOf, Configs
<1>3. PICK k \in 1..4 : ~Done(Stages[k]) /\ Done(Stages[k])'
  BY DoneStable DEF PassedStages
<1>4. j[1] = Stages[k] /\ j \in log
  <2>1. j \in JobsOf(Stages[k])
    BY <1>2, <1>3 DEF Done, JobsOf, Configs
  <2>2. Stages[k] \in StageNames
    BY StageFacts
  <2>3. QED
    BY <1>1, <1>2, <2>1, <2>2, JobFacts DEF Traces
<1>5. \A n, m \in 1..4 : Stages[n] = Stages[m] => n = m
  BY DEF Stages
<1>6. \A n \in 1..4 : n < k => Done(Stages[n])
  BY <1>1, <1>4, StageFacts DEF LogsInOrder, Earlier
<1>7. ASSUME NEW n \in 1..4, k < n PROVE ~Done(Stages[n]) /\ ~Done(Stages[n])'
  <2>1. SUFFICES ASSUME Done(Stages[n])' PROVE FALSE
    BY DoneStable
  <2>2. Stages[n] \in StageNames /\ Stages[n] \in Formal /\ Stages[n] # Stages[k]
    BY <1>5, <1>7, StageFacts
  <2>3. <<Stages[n], 1>> \in JobsOf(Stages[n]) /\ <<Stages[n], 1>>[1] = Stages[n]
    BY <2>2, ConfigFacts, JobFacts
  <2>4. <<Stages[n], 1>> \in passed
    BY <2>1, <2>2, <2>3, <1>2, <1>4 DEF Done, JobsOf, Configs
  <2>5. Stages[k] \in Earlier(Stages[n])
    BY <1>7 DEF Earlier
  <2>6. Done(Stages[k])
    BY <1>1, <2>2, <2>3, <2>4, <2>5 DEF LogsInOrder, Typed
  <2>7. QED
    BY <1>3, <2>6
<1>8. PassedStages = 1..(k - 1) /\ PassedStages' = 1..k
  BY <1>3, <1>6, <1>7, DoneStable DEF PassedStages
<1>9. QED
  BY <1>2, <1>8 DEF Ledger!Pass

(* The stages of a scaled run are passed in order, never taken back, and   *)
(* none of their jobs is launched over an earlier launch.                  *)
THEOREM StagesRunOnce == Spec => StagesOnce
<1>1. Init => Ledger!Init
  <2> SUFFICES ASSUME Init PROVE PassedStages = {} /\ (state = "PASS") = FALSE
    BY DEF Ledger!Init
  <2>1. ASSUME NEW k \in 1..4 PROVE ~Done(Stages[k])
    <3>1. Stages[k] \in StageNames
      BY StageFacts
    <3>2. <<Stages[k], 1>> \in JobsOf(Stages[k])
      BY <3>1, ConfigFacts, JobFacts
    <3>3. QED
      BY <3>2 DEF Init, Done
  <2>2. QED
    BY <2>1, ScaledAssumption DEF Init, PassedStages
<1>2. PipeInv /\ [Next]_vars => [Ledger!Next]_Ledger!vars
  <2> SUFFICES ASSUME PipeInv, [Next]_vars PROVE [Ledger!Next]_Ledger!vars
    OBVIOUS
  <2>1. CASE PassedStages' # PassedStages
    BY <2>1, PassStep DEF Ledger!Next
  <2>2. CASE PassedStages' = PassedStages /\ (state = "PASS")' # (state = "PASS")
    <3>1. PICK r \in Runs : Derive(r)
      BY <2>2 DEF Next, Step, Child, StartRun, StartCanary, TakeGpus, Launch, Exit,
         WriteSummary, AllLaunched, Collect, Decide, Kill, vars, files
    <3>2. ASSUME state = "PASS" PROVE FALSE
      <4>1. Todo = {}
        BY <3>2 DEF PipeInv, PublishedComplete, Todo
      <4>2. QED
        BY <2>2, <3>1, <3>2, <4>1 DEF Derive
    <3>3. state' = "PASS" /\ Todo = {}
      BY <2>2, <3>1, <3>2 DEF Derive
    <3>4. PassedStages = 1..4
      BY <3>3 DEF Todo, PassedStages
    <3>5. QED
      BY <2>2, <3>3, <3>4 DEF Ledger!Next, Ledger!Publish
  <2>3. QED
    BY <2>1, <2>2 DEF Ledger!vars
<1>3. QED
  BY <1>1, <1>2, LaunchStep, PipeInvariance, PTL DEF Spec, StagesOnce, Ledger!Spec

=============================================================================
