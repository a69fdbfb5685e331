---------------------- MODULE QualifiedPipelineProofs -----------------------
(***************************************************************************)
(* Safety of QualifiedPipeline for every number of controllers and shards, *)
(* with and without the optional stage; and, in the second part, what the  *)
(* screening counts and selects (ScreenSelection, through ScreenCounts),   *)
(* for every number of epochs, banks, seeds and GPUs and every set of      *)
(* outcomes and losses.                                                    *)
(*                                                                         *)
(* The second part has its own inductive invariant, CountInv: every        *)
(* receipt, summary and selection on disk, and every row that a thread has *)
(* built, is what the episodes on disk say.  Beside it stands HeldoutAfter.*)
(* From CountInv the counts follow by the lemmas about sums, and the       *)
(* selected epoch by those about the order of the keys.                    *)
(***************************************************************************)
EXTENDS QualifiedPipeline, ScreenCounts, Integers, Sequences, Functions, FiniteSets,
        FiniteSetTheorems, WellFoundedInduction, TLAPS

(* Units and their stages, after which their definitions are not needed.   *)
LEMMA UnitFacts ==
    /\ \A s \in Stages : UnitsOf(s) # {} /\ UnitsOf(s) \subseteq Units
    /\ \A s \in Stages : \A u \in UnitsOf(s) : u = <<s, u[2]>> /\ u[1] = s
    /\ \A u \in Units : u[1] \in Stages /\ u \in UnitsOf(u[1])
    /\ \A u \in Units : u = <<u[1], u[2]>> /\ u[2] \in 1 .. Shards
<1>1. \A s \in Stages : <<s, 1>> \in UnitsOf(s)
  BY ShardsAssumption DEF UnitsOf
<1>2. \A s, u : u \in UnitsOf(s) => u = <<s, u[2]>> /\ u[1] = s /\ u[2] \in 1 .. Shards
  BY ShardsAssumption DEF UnitsOf
<1>3. \A u : u \in Units <=> \E s \in Stages : u \in UnitsOf(s)
  BY DEF Units
<1>4. \A s \in Stages : UnitsOf(s) # {} /\ UnitsOf(s) \subseteq Units
  BY <1>1, <1>3
<1>5. \A u \in Units :
        u[1] \in Stages /\ u \in UnitsOf(u[1]) /\ u = <<u[1], u[2]>> /\ u[2] \in 1 .. Shards
  BY <1>2, <1>3
<1>6. QED
  BY <1>2, <1>4, <1>5

(* Stages are ordered numbers, and nothing comes before a stage but        *)
(* stages of the core.                                                     *)
LEMMA StageFacts ==
    /\ Stages \subseteq Nat /\ Collection \in Stages /\ Update \in Stages
    /\ \A s \in Stages : 1 .. s - 1 \subseteq Stages /\ Optional \notin 1 .. s - 1
    /\ \A s, t \in Stages : s < t \/ s = t \/ t < s
BY DEF Stages, LastStage, Collection, Update, Optional

(* One unit is started after the other.                                    *)
(* Every stage has a first unit, with which its launch begins.             *)
LEMMA FirstUnit ==
    \A s \in Stages : <<s, 1>> \in Units /\ <<s, 1>> \in UnitsOf(s)
BY ShardsAssumption, UnitFacts DEF UnitsOf

(* After a shard that is not the last one comes another unit of the        *)
(* collection.                                                             *)
LEMMA NextShard ==
    ASSUME NEW n \in 1 .. Shards, n < Shards
    PROVE  n + 1 \in 1 .. Shards /\ <<Collection, n + 1>> \in Units
BY ShardsAssumption, UnitFacts, StageFacts DEF UnitsOf

-----------------------------------------------------------------------------
(* Types.                                                                  *)

(* A fresh run directory has the right types.                              *)
LEMMA InitTypeOK == Init => TypeOK
<1> SUFFICES ASSUME Init PROVE TypeOK
  OBVIOUS
<1>1. NoView \in View
  BY DEF NoView, View
<1>2. 1 \in 1 .. Shards /\ 0 \in 0 .. Checkpoints
  BY ShardsAssumption DEF Checkpoints
<1>3. child \in [Controllers -> [Units -> ChildSteps]]
  BY DEF Init, ChildSteps
<1>4. pc \in [Controllers -> Steps] /\ command \in [Controllers -> Commands]
  BY DEF Init, Steps, Commands
<1>5. receipt \in [Units -> Receipts]
  BY DEF Init, Receipts
<1>6. QED
  BY <1>1, <1>2, <1>3, <1>4, <1>5, StageFacts DEF Init, TypeOK

(* A status derived from the run directory is a view.                      *)
LEMMA CurrentViewType == CurrentView \in View
BY DEF CurrentView, View, DoneStages

(* What Follow does to the controller's own variables.                     *)
LEMMA FollowType ==
    ASSUME TypeOK, NEW c \in Controllers, Follow(c)
    PROVE  /\ pc' \in [Controllers -> Steps]
           /\ stage' \in [Controllers -> Stages]
           /\ shard' \in [Controllers -> 1 .. Shards]
<1>1. pc' \in [Controllers -> Steps]
  BY DEF TypeOK, Follow, Goto, Steps
<1>2. stage' \in [Controllers -> Stages]
  BY DEF TypeOK, Follow
<1>3. shard' \in [Controllers -> 1 .. Shards]
  BY ShardsAssumption DEF TypeOK, Follow
<1>4. QED
  BY <1>1, <1>2, <1>3

(* Types are preserved; that the unit about to be launched is a unit       *)
(* comes from OrderInv.                                                    *)
LEMMA NextTypeOK == TypeOK /\ OrderInv /\ [Next]_vars => TypeOK'
<1> SUFFICES ASSUME TypeOK, OrderInv, [Next]_vars PROVE TypeOK'
  OBVIOUS
<1> USE DEF TypeOK
<1>1. ASSUME NEW c \in Controllers, Start(c) PROVE TypeOK'
  BY <1>1 DEF Start, Goto, Steps
<1>2. ASSUME NEW c \in Controllers, Assess(c) PROVE TypeOK'
  <2>1. /\ pc' \in [Controllers -> Steps]
        /\ stage' \in [Controllers -> Stages]
        /\ shard' \in [Controllers -> 1 .. Shards]
    BY <1>2, FollowType DEF Assess, Goto, Steps
  <2>2. view' \in [Controllers -> View]
    BY <1>2, CurrentViewType DEF Assess
  <2>3. QED
    BY <1>2, <2>1, <2>2 DEF Assess, files
<1>3. ASSUME NEW c \in Controllers, OpenLog(c) PROVE TypeOK'
  <2>1. NextUnit(c) \in Units
    BY <1>3 DEF OpenLog, OrderInv
  <2>2. QED
    BY <1>3, <2>1 DEF OpenLog, Goto, Steps, local
<1>4. ASSUME NEW c \in Controllers, Spawn(c) PROVE TypeOK'
  <2>1. NextUnit(c) \in Units
    BY <1>4 DEF Spawn, OrderInv
  <2>2. child' \in [Controllers -> [Units -> ChildSteps]]
    BY <1>4, <2>1 DEF Spawn, ChildSteps
  <2>3. pc' \in [Controllers -> Steps]
    BY <1>4 DEF Spawn, Goto, Steps
  <2>4. shard' \in [Controllers -> 1 .. Shards]
    <3>1. shard[c] \in 1 .. Shards
      OBVIOUS
    <3>2. CASE stage[c] = Collection /\ shard[c] < Shards
      BY <1>4, <3>1, <3>2, NextShard DEF Spawn
    <3>3. CASE ~(stage[c] = Collection /\ shard[c] < Shards)
      BY <1>4, <3>3 DEF Spawn
    <3>4. QED
      BY <3>2, <3>3
  <2>5. QED
    BY <1>4, <2>2, <2>3, <2>4 DEF Spawn, files
<1>5. ASSUME NEW c \in Controllers, Wait(c) \/ Abort(c) PROVE TypeOK'
  <2>1. pc' \in [Controllers -> Steps]
    BY <1>5 DEF Wait, Abort, Goto, Steps
  <2>2. QED
    BY <1>5, <2>1 DEF Wait, Abort, files, local
<1>6. ASSUME NEW c \in Controllers, Review(c) PROVE TypeOK'
  <2>1. /\ pc' \in [Controllers -> Steps]
        /\ stage' \in [Controllers -> Stages]
        /\ shard' \in [Controllers -> 1 .. Shards]
    BY <1>6, FollowType DEF Review, Goto, Steps
  <2>2. view' \in [Controllers -> View] /\ state' \in View
    BY <1>6, CurrentViewType DEF Review
  <2>3. QED
    BY <1>6, <2>1, <2>2 DEF Review
<1>7. ASSUME NEW c \in Controllers, Finalize(c) \/ Report(c) PROVE TypeOK'
  <2>1. pc' \in [Controllers -> Steps]
    BY <1>7 DEF Finalize, Report, Goto, Steps
  <2>2. CASE Finalize(c)
    BY <2>1, <2>2 DEF Finalize, local
  <2>3. CASE Report(c)
    BY <2>1, <2>3 DEF Report, local
  <2>4. QED
    BY <1>7, <2>2, <2>3
<1>8. ASSUME NEW c \in Controllers, NEW u \in Units, SaveCheckpoint(c, u) PROVE TypeOK'
  BY <1>8 DEF SaveCheckpoint, Checkpoints, local
<1>9. ASSUME NEW c \in Controllers, NEW u \in Units, PublishReceipt(c, u) PROVE TypeOK'
  <2>1. child' \in [Controllers -> [Units -> ChildSteps]]
    BY <1>9 DEF PublishReceipt, ChildSteps
  <2>2. receipt' \in [Units -> Receipts]
    BY <1>9 DEF PublishReceipt, Receipts
  <2>3. QED
    BY <1>9, <2>1, <2>2 DEF PublishReceipt, local
<1>10. ASSUME NEW c \in Controllers, NEW u \in Units, Exit(c, u) \/ Fail(c, u)
       PROVE  TypeOK'
  <2>1. child' \in [Controllers -> [Units -> ChildSteps]]
    <3>1. CASE Exit(c, u)
      BY <3>1 DEF Exit, ChildSteps
    <3>2. CASE Fail(c, u)
      BY <3>2 DEF Fail, ChildSteps
    <3>3. QED
      BY <1>10, <3>1, <3>2
  <2>2. QED
    BY <1>10, <2>1 DEF Exit, Fail, local, files
<1>11. CASE UNCHANGED vars
  BY <1>11 DEF vars, files, local
<1>12. QED
  BY <1>1, <1>2, <1>3, <1>4, <1>5, <1>6, <1>7, <1>8, <1>9, <1>10, <1>11
  DEF Next, Calm, Control, Work

-----------------------------------------------------------------------------
(* The order of the stages.                                                *)

(* Core receipts are only ever replaced by PASS, and no checkpoint is      *)
(* removed, so a core stage that is done stays done.                       *)
LEMMA DoneStable ==
    ASSUME TypeOK, [Next]_vars, NEW s \in Stages, s # Optional, Done(s)
    PROVE  Done(s)'
<1>1. ASSUME UNCHANGED <<receipt, checkpoints>> PROVE Done(s)'
  BY <1>1 DEF Done
<1>2. ASSUME NEW c \in Controllers, NEW u \in Units, SaveCheckpoint(c, u)
      PROVE  Done(s)'
  BY <1>2 DEF SaveCheckpoint, Done, Checkpoints, TypeOK
<1>3. ASSUME NEW c \in Controllers, NEW u \in Units, PublishReceipt(c, u)
      PROVE  Done(s)'
  <2>1. ASSUME NEW v \in UnitsOf(s) PROVE receipt'[v] = "PASS"
    <3>1. v \in Units /\ v[1] # Optional /\ receipt[v] = "PASS"
      BY UnitFacts DEF Done
    <3>2. QED
      BY <1>3, <3>1 DEF PublishReceipt, TypeOK
  <2>2. QED
    BY <1>3, <2>1 DEF PublishReceipt, Done
<1>4. QED
  BY <1>1, <1>2, <1>3
  DEF Next, Calm, Control, Work, Start, Assess, OpenLog, Spawn, Wait, Review, Finalize,
      Report, Abort, Exit, Fail, files, local, vars

(* The stage that Follow launches has the earlier ones behind it.          *)
LEMMA FollowOrder ==
    ASSUME TypeOK, NEW c \in Controllers, Follow(c), pc'[c] \in {"launch", "spawn"}
    PROVE  /\ pc'[c] = "launch"
           /\ stage'[c] \in Stages /\ Launchable(stage'[c])
           /\ shard'[c] = 1
           /\ NextUnit(c)' \in Units
BY FirstUnit DEF Follow, Goto, TypeOK, NextUnit

(* What one controller does with its status leaves the others alone.       *)
LEMMA FollowFrame ==
    ASSUME TypeOK, NEW c \in Controllers, NEW d \in Controllers, c # d,
           Follow(c)
    PROVE  pc'[d] = pc[d] /\ stage'[d] = stage[d] /\ shard'[d] = shard[d]
BY DEF Follow, Goto, TypeOK

(* A child is left alone by every step but its launch and its own.         *)
LEMMA ChildStep ==
    ASSUME TypeOK, [Next]_vars, NEW c \in Controllers, NEW u \in Units,
           child'[c][u] # child[c][u]
    PROVE  \/ Spawn(c) /\ u = NextUnit(c) /\ child'[c][u] = "running"
           \/ PublishReceipt(c, u) \/ Exit(c, u) \/ Fail(c, u)
<1>1. ASSUME NEW d \in Controllers, Spawn(d)
      PROVE  d = c /\ u = NextUnit(c) /\ child'[c][u] = "running"
  BY <1>1 DEF Spawn, TypeOK
<1>2. ASSUME NEW d \in Controllers, NEW v \in Units,
             PublishReceipt(d, v) \/ Exit(d, v) \/ Fail(d, v)
      PROVE  d = c /\ v = u
  BY <1>2 DEF PublishReceipt, Exit, Fail, TypeOK
<1>3. QED
  BY <1>1, <1>2
  DEF Next, Calm, Control, Work, Start, Assess, OpenLog, Wait, Review, Finalize,
      Report, Abort, SaveCheckpoint, local, vars

(* A controller comes to launch a stage by Follow, and goes from one shard *)
(* of the collection to the next.                                          *)
LEMMA LaunchStep ==
    ASSUME TypeOK, OrderInv, [Next]_vars, NEW c \in Controllers,
           pc'[c] \in {"launch", "spawn"}
    PROVE  \/ /\ Assess(c) \/ Review(c)
              /\ pc'[c] = "launch" /\ Launchable(stage'[c]) /\ shard'[c] = 1
              /\ stage'[c] \in Stages /\ UNCHANGED <<receipt, checkpoints, log, child>>
           \/ /\ Spawn(c) /\ pc[c] = "spawn" /\ pc'[c] = "launch"
              /\ stage[c] = Collection /\ stage'[c] = Collection
              /\ shard[c] < Shards /\ shard'[c] = shard[c] + 1
           \/ /\ OpenLog(c) /\ pc[c] = "launch" /\ pc'[c] = "spawn"
              /\ stage'[c] = stage[c] /\ shard'[c] = shard[c]
           \/ /\ pc'[c] = pc[c] /\ stage'[c] = stage[c] /\ shard'[c] = shard[c]
              /\ ~Assess(c) /\ ~Review(c)
<1>1. CASE Assess(c) \/ Review(c)
  <2>1. Follow(c)
    BY <1>1 DEF Assess, Review, Goto, TypeOK
  <2>2. QED
    BY <1>1, <2>1, FollowOrder DEF Assess, Review, files
<1>2. CASE Spawn(c)
  BY <1>2 DEF Spawn, Goto, TypeOK
<1>3. CASE OpenLog(c)
  BY <1>3 DEF OpenLog, Goto, TypeOK, local
<1>4. CASE ~Assess(c) /\ ~Review(c) /\ ~Spawn(c) /\ ~OpenLog(c)
  <2>1. ASSUME NEW d \in Controllers, d # c, Assess(d) \/ Review(d)
        PROVE  pc'[c] = pc[c] /\ stage'[c] = stage[c] /\ shard'[c] = shard[c]
    BY <2>1, FollowFrame DEF Assess, Review, Goto, TypeOK
  <2>2. ASSUME NEW d \in Controllers, d # c,
               \/ Start(d) \/ OpenLog(d) \/ Spawn(d) \/ Wait(d) \/ Finalize(d)
               \/ Report(d) \/ Abort(d)
        PROVE  pc'[c] = pc[c] /\ stage'[c] = stage[c] /\ shard'[c] = shard[c]
    BY <2>2 DEF Start, OpenLog, Spawn, Wait, Finalize, Report, Abort, Goto, TypeOK, local
  <2>3. ASSUME Start(c) \/ Wait(c) \/ Finalize(c) \/ Report(c) \/ Abort(c) PROVE FALSE
    BY <2>3 DEF Start, Wait, Finalize, Report, Abort, Goto, TypeOK
  <2>4. ASSUME NEW d \in Controllers, NEW u \in Units, Work(d, u) \/ Fail(d, u)
        PROVE  pc'[c] = pc[c] /\ stage'[c] = stage[c] /\ shard'[c] = shard[c]
    BY <2>4 DEF Work, SaveCheckpoint, PublishReceipt, Exit, Fail, local
  <2>5. ASSUME UNCHANGED vars
        PROVE  pc'[c] = pc[c] /\ stage'[c] = stage[c] /\ shard'[c] = shard[c]
    BY <2>5 DEF vars, local
  <2>6. ASSUME NEW d \in Controllers, Start(d) \/ Control(d) \/ Abort(d)
        PROVE  pc'[c] = pc[c] /\ stage'[c] = stage[c] /\ shard'[c] = shard[c]
    <3>1. CASE d = c
      BY <1>4, <2>3, <2>6, <3>1 DEF Control
    <3>2. CASE d # c
      BY <2>1, <2>2, <2>6, <3>2 DEF Control
    <3>3. QED
      BY <3>1, <3>2
  <2>7. pc'[c] = pc[c] /\ stage'[c] = stage[c] /\ shard'[c] = shard[c]
    BY <2>4, <2>5, <2>6 DEF Next, Calm
  <2>8. QED
    BY <1>4, <2>7
<1>5. QED
  BY <1>1, <1>2, <1>3, <1>4

(* Nothing has started in a fresh run directory.                           *)
LEMMA OrderInit == Init => OrderInv
<1>1. Update \in Stages
  BY StageFacts
<1>2. QED
  BY <1>1, UnitFacts DEF Init, OrderInv, StagesInOrder

(* Every step, of any controller at any time, keeps the order of the       *)
(* stages: what lies below a launched stage is core, and core stages stay  *)
(* done.                                                                   *)
LEMMA OrderNext == TypeOK /\ OrderInv /\ [Next]_vars => OrderInv'
<1> SUFFICES ASSUME TypeOK, OrderInv, [Next]_vars PROVE OrderInv'
  OBVIOUS
<1>1. ASSUME NEW s \in Stages, NEW t \in 1 .. s - 1, Done(t) PROVE Done(t)'
  BY <1>1, DoneStable, StageFacts
<1>2. \A u \in UnitsOf(Update) : receipt'[u] = "PASS" => checkpoints' = Checkpoints
  <2> SUFFICES ASSUME NEW u \in UnitsOf(Update), receipt'[u] = "PASS"
               PROVE  checkpoints' = Checkpoints
    OBVIOUS
  <2>1. u \in Units /\ u[1] = Update
    BY StageFacts, UnitFacts
  <2>2. ASSUME NEW c \in Controllers, NEW v \in Units, SaveCheckpoint(c, v)
        PROVE  FALSE
    BY <2>2 DEF SaveCheckpoint, OrderInv, PublishReceipt, Checkpoints
  <2>3. ASSUME NEW c \in Controllers, NEW v \in Units, PublishReceipt(c, v)
        PROVE  checkpoints' = Checkpoints
    BY <2>1, <2>3 DEF PublishReceipt, OrderInv, TypeOK
  <2>4. QED
    BY <2>2, <2>3
    DEF OrderInv, Next, Calm, Control, Work, Start, Assess, OpenLog, Spawn, Wait, Review,
        Finalize, Report, Abort, Exit, Fail, files, local, vars
<1>3. ASSUME NEW c \in Controllers, pc'[c] \in {"launch", "spawn"}
      PROVE  NextUnit(c)' \in Units /\ \A t \in 1 .. stage'[c] - 1 : Done(t)'
  <2>1. CASE /\ Launchable(stage'[c]) /\ shard'[c] = 1 /\ stage'[c] \in Stages
             /\ UNCHANGED <<receipt, checkpoints, log, child>>
    <3>1. NextUnit(c)' \in Units
      BY <2>1, FirstUnit DEF NextUnit
    <3>2. \A t \in 1 .. stage'[c] - 1 : Done(t)
      BY <2>1 DEF Launchable, FirstUndone
    <3>3. QED
      BY <2>1, <3>1, <3>2, <1>1
  <2>2. CASE /\ Spawn(c) /\ pc[c] = "spawn" /\ pc'[c] = "launch"
             /\ stage[c] = Collection /\ stage'[c] = Collection
             /\ shard[c] < Shards /\ shard'[c] = shard[c] + 1
    <3>1. shard[c] \in 1 .. Shards
      BY DEF TypeOK
    <3>2. NextUnit(c)' \in Units
      BY <2>2, <3>1, NextShard DEF NextUnit
    <3>3. 1 .. stage'[c] - 1 = {}
      BY <2>2 DEF Collection
    <3>4. QED
      BY <3>2, <3>3
  <2>3. CASE /\ pc[c] \in {"launch", "spawn"}
             /\ stage'[c] = stage[c] /\ shard'[c] = shard[c]
    <3>1. NextUnit(c)' \in Units
      BY <2>3 DEF OrderInv, NextUnit
    <3>2. stage[c] \in Stages
      BY DEF TypeOK
    <3>3. \A t \in 1 .. stage[c] - 1 : Done(t)
      BY <2>3 DEF OrderInv
    <3>4. QED
      BY <2>3, <3>1, <3>2, <3>3, <1>1
  <2>4. QED
    BY <1>3, <2>1, <2>2, <2>3, LaunchStep
<1>4. StagesInOrder'
  <2> SUFFICES ASSUME NEW c \in Controllers, NEW u \in Units, child'[c][u] # "none",
                      NEW t \in 1 .. u[1] - 1
               PROVE  Done(t)'
    BY DEF StagesInOrder
  <2>1. u[1] \in Stages
    BY UnitFacts
  <2>2. CASE child[c][u] # "none"
    BY <2>1, <2>2, <1>1 DEF OrderInv, StagesInOrder
  <2>3. CASE child[c][u] = "none"
    <3>1. Spawn(c) /\ u = NextUnit(c)
      BY <2>3, ChildStep DEF PublishReceipt, Exit, Fail, Alive
    <3>2. u[1] = stage[c] /\ pc[c] = "spawn"
      BY <3>1 DEF NextUnit, Spawn
    <3>3. Done(t)
      BY <3>2 DEF OrderInv
    <3>4. QED
      BY <2>1, <3>3, <1>1
  <2>4. QED
    BY <2>2, <2>3
<1>5. QED
  BY <1>2, <1>3, <1>4 DEF OrderInv

(* The types and the order of the stages, for any number of controllers,   *)
(* overlapping or not.                                                     *)
THEOREM Order == Spec => [](TypeOK /\ OrderInv)
<1>1. Init => TypeOK /\ OrderInv
  BY InitTypeOK, OrderInit
<1>2. TypeOK /\ OrderInv /\ [Next]_vars => (TypeOK /\ OrderInv)'
  BY NextTypeOK, OrderNext
<1>3. QED
  BY <1>1, <1>2, PTL DEF Spec

(* Type correctness of the pipeline.                                       *)
THEOREM TypeCorrect == Spec => []TypeOK
BY Order, PTL

(* No stage is started before the ones below it passed, however many       *)
(* controllers run and however they end.                                   *)
THEOREM StageOrder == Spec => []StagesInOrder
BY Order, PTL DEF OrderInv

-----------------------------------------------------------------------------
(* One controller at a time.                                               *)

(* The inductive invariant holds of a fresh run directory.                 *)
LEMMA PipeInit == Init => PipeInv
<1> SUFFICES ASSUME Init PROVE PipeInv
  OBVIOUS
<1>1. \A c \in Controllers : pc[c] = "idle"
  BY DEF Init
<1>2. \A u \in Units : receipt[u] = "none" /\ \A c \in Controllers : child[c][u] = "none"
  BY DEF Init
<1>3. ReportInv
  BY <1>1 DEF Init, ReportInv, FinalMeansDone, StateIsTrue, NoView
<1>4. OneController /\ CommandInv /\ LaunchInv
  BY <1>1 DEF OneController, Live, CommandInv, LaunchInv
<1>5. TracesInv
  BY <1>2 DEF TracesInv
<1>6. LaunchedOnce
  BY <1>2 DEF LaunchedOnce
<1>7. QED
  BY <1>3, <1>4, <1>5, <1>6, InitTypeOK, OrderInit DEF PipeInv

(* A controller comes to life only by Start.                               *)
LEMMA LiveStep ==
    ASSUME TypeOK, [Next]_vars, NEW c \in Controllers, Live(c)', ~Live(c) PROVE Start(c)
<1>1. ASSUME NEW d \in Controllers, Control(d) \/ Abort(d) PROVE FALSE
  <2>1. (Live(d) /\ pc'[c] = pc[c]) \/ d = c
    BY <1>1, FollowFrame
    DEF Control, Abort, Assess, OpenLog, Spawn, Wait, Review, Finalize, Report, Live,
        Goto, TypeOK
  <2>2. d = c => Live(c)
    BY <1>1 DEF Control, Abort, Assess, OpenLog, Spawn, Wait, Review, Finalize, Report, Live
  <2>3. QED
    BY <2>1, <2>2 DEF Live
<1>2. ASSUME NEW d \in Controllers, Start(d), d # c PROVE FALSE
  BY <1>2 DEF Start, Goto, TypeOK, Live
<1>3. ASSUME NEW d \in Controllers, NEW u \in Units, Work(d, u) \/ Fail(d, u) PROVE FALSE
  BY <1>3 DEF Work, SaveCheckpoint, PublishReceipt, Exit, Fail, Live
<1>4. ASSUME UNCHANGED vars PROVE FALSE
  BY <1>4 DEF vars, Live
<1>5. QED
  BY <1>1, <1>2, <1>3, <1>4 DEF Next, Calm

(* Without overlap a controller starts only when no other is alive.        *)
LEMMA OneControllerNext ==
    ASSUME ~Overlap, TypeOK, OneController, [Next]_vars PROVE OneController'
<1> SUFFICES ASSUME NEW c \in Controllers, NEW d \in Controllers, Live(c)', Live(d)'
             PROVE  c = d
  BY DEF OneController
<1>1. ASSUME NEW a \in Controllers, NEW b \in Controllers, Start(a), Live(b)' PROVE a = b
  BY <1>1 DEF Start, Live, Goto, TypeOK
<1>2. QED
  BY <1>1, LiveStep DEF OneController

(* Receipts and children keep what they say about the past.                *)
LEMMA TracesNext ==
    ASSUME PipeInv, [Next]_vars PROVE TracesInv'
<1> USE DEF PipeInv
<1>1. contract => contract'
  BY DEF Next, Calm, Control, Work, Start, Assess, OpenLog, Spawn, Wait, Review, Finalize,
     Report, Abort, SaveCheckpoint, PublishReceipt, Exit, Fail, files, local, vars
<1>2. log \subseteq log'
  BY DEF Next, Calm, Control, Work, Start, Assess, OpenLog, Spawn, Wait, Review, Finalize,
     Report, Abort, SaveCheckpoint, PublishReceipt, Exit, Fail, files, local, vars
<1>3. ASSUME NEW u \in Units, receipt'[u] # "none"
      PROVE  \E c \in Controllers : child'[c][u] \in {"published", "zero", "nonzero"}
  <2>1. CASE receipt[u] # "none"
    <3>1. PICK c \in Controllers : child[c][u] \in {"published", "zero", "nonzero"}
      BY <2>1 DEF TracesInv
    <3>2. ~(Spawn(c) /\ u = NextUnit(c))
      BY <3>1 DEF Spawn, LaunchInv
    <3>3. CASE child'[c][u] # child[c][u]
      <4>1. PublishReceipt(c, u) \/ Exit(c, u) \/ Fail(c, u)
        BY <3>2, <3>3, ChildStep
      <4>2. child'[c][u] \in {"published", "zero", "nonzero"}
        BY <4>1 DEF PublishReceipt, Exit, Fail, TypeOK
      <4>3. QED
        BY <4>2
    <3>4. QED
      BY <3>1, <3>3
  <2>2. CASE receipt[u] = "none"
    <3>1. PICK c \in Controllers : PublishReceipt(c, u)
      BY <1>3, <2>2
      DEF PublishReceipt, Next, Calm, Control, Work, Start, Assess, OpenLog, Spawn, Wait,
          Review, Finalize, Report, Abort, SaveCheckpoint, Exit, Fail, files, local, vars,
          TypeOK
    <3>2. QED
      BY <3>1 DEF PublishReceipt, TypeOK
  <2>3. QED
    BY <2>1, <2>2
<1>4. ASSUME NEW c \in Controllers, NEW u \in Units, child'[c][u] # "none"
      PROVE  u \in log' /\ contract'
  <2>1. CASE child[c][u] # "none"
    BY <1>1, <1>2, <2>1 DEF TracesInv
  <2>2. CASE child[c][u] = "none"
    <3>1. Spawn(c) /\ u = NextUnit(c)
      BY <1>4, <2>2, ChildStep DEF PublishReceipt, Exit, Fail, Alive
    <3>2. pc[c] = "spawn" /\ Live(c) /\ command[c] # "dry"
      BY <3>1 DEF Spawn, Live, CommandInv
    <3>3. QED
      BY <1>1, <1>2, <3>1, <3>2 DEF LaunchInv, CommandInv
  <2>3. QED
    BY <2>1, <2>2
<1>5. QED
  BY <1>3, <1>4 DEF TracesInv

(* Only a run launches and reviews, and every invocation but a dry run     *)
(* has recorded its contract.                                              *)
LEMMA CommandNext == ASSUME TypeOK, CommandInv, [Next]_vars PROVE CommandInv'
<1> SUFFICES ASSUME NEW c \in Controllers
             PROVE  /\ Live(c)' /\ command'[c] # "dry" => contract'
                    /\ pc'[c] \in {"launch", "spawn", "wait", "review"} =>
                          command'[c] = "run"
  BY DEF CommandInv
<1>1. CASE Start(c)
  BY <1>1 DEF Start, Goto, TypeOK
<1>2. ASSUME ~Start(c)
      PROVE  (Live(c)' => Live(c)) /\ command'[c] = command[c] /\ (contract => contract')
  <2>1. Live(c)' => Live(c)
    BY <1>2, LiveStep
  <2>2. command'[c] = command[c] /\ (contract => contract')
    BY <1>2
    DEF Next, Calm, Control, Work, Start, Assess, OpenLog, Spawn, Wait, Review, Finalize,
        Report, Abort, SaveCheckpoint, PublishReceipt, Exit, Fail, files, local, vars,
        TypeOK
  <2>3. QED
    BY <2>1, <2>2
<1>3. ASSUME ~Start(c), pc'[c] \in {"launch", "spawn", "wait", "review"}
      PROVE  command[c] = "run"
  <2>1. ASSUME Assess(c) PROVE command[c] = "run"
    <3>1. ASSUME command[c] = "dry", Follow(c), ~(\E s \in Stages : Launchable(s))
          PROVE  FALSE
      BY <1>3, <3>1 DEF Follow, Goto, TypeOK
    <3>2. QED
      BY <1>3, <2>1, <3>1 DEF Assess, Goto, TypeOK
  <2>2. ASSUME Control(c), ~Assess(c)
        PROVE  pc[c] \in {"launch", "spawn", "wait", "review"}
    BY <1>3, <2>2 DEF Control, OpenLog, Spawn, Wait, Review, Finalize, Report, Goto, TypeOK
  <2>3. ASSUME ~Control(c) PROVE pc'[c] = pc[c]
    <3>1. ASSUME NEW d \in Controllers, d # c, Start(d) \/ Control(d) \/ Abort(d)
          PROVE  pc'[c] = pc[c]
      BY <3>1, FollowFrame
      DEF Start, Control, Abort, Assess, OpenLog, Spawn, Wait, Review, Finalize, Report,
          Goto, TypeOK
    <3>2. ASSUME Abort(c) PROVE FALSE
      BY <1>3, <3>2 DEF Abort, Goto, TypeOK
    <3>3. ASSUME NEW d \in Controllers, NEW u \in Units, Work(d, u) \/ Fail(d, u)
          PROVE  pc'[c] = pc[c]
      BY <3>3 DEF Work, SaveCheckpoint, PublishReceipt, Exit, Fail
    <3>4. ASSUME UNCHANGED vars PROVE pc'[c] = pc[c]
      BY <3>4 DEF vars
    <3>5. QED
      BY <1>3, <2>3, <3>1, <3>2, <3>3, <3>4 DEF Next, Calm
  <2>4. QED
    BY <1>3, <2>1, <2>2, <2>3 DEF CommandInv
<1>4. QED
  BY <1>1, <1>2, <1>3 DEF CommandInv

(* A unit that is yet to be launched stays without a trace until then.     *)
LEMMA LaunchNext ==
    ASSUME PipeInv, OneController', TracesInv', [Next]_vars PROVE LaunchInv'
<1> USE DEF PipeInv
<1> SUFFICES ASSUME NEW c \in Controllers, pc'[c] \in {"launch", "spawn"}
             PROVE  /\ NextUnit(c)' \in log' <=> pc'[c] = "spawn"
                    /\ \A d \in Controllers : child'[d][NextUnit(c)'] = "none"
                    /\ \A u \in UnitsOf(stage'[c]) : u[2] > shard'[c] => u \notin log'
  BY DEF LaunchInv
<1>1. NextUnit(c)' \in Units
  BY OrderNext DEF OrderInv
<1>2. ASSUME NextUnit(c)' \notin log'
      PROVE  \A d \in Controllers : child'[d][NextUnit(c)'] = "none"
  BY <1>1, <1>2 DEF TracesInv
<1>3. CASE /\ Launchable(stage'[c]) /\ shard'[c] = 1 /\ stage'[c] \in Stages
           /\ pc'[c] = "launch" /\ UNCHANGED <<receipt, checkpoints, log, child>>
  <2>1. \A u \in UnitsOf(stage'[c]) : u \notin log
    BY <1>3 DEF Launchable, Started
  <2>2. NextUnit(c)' \in UnitsOf(stage'[c])
    BY <1>3, FirstUnit DEF NextUnit
  <2>3. QED
    BY <1>2, <1>3, <2>1, <2>2
<1>4. CASE /\ Spawn(c) /\ pc[c] = "spawn" /\ pc'[c] = "launch"
           /\ stage[c] = Collection /\ stage'[c] = Collection
           /\ shard[c] < Shards /\ shard'[c] = shard[c] + 1
  <2>1. shard[c] \in Nat /\ log' = log
    BY <1>4 DEF Spawn, files, TypeOK
  <2>2. NextUnit(c)' \in UnitsOf(Collection) /\ NextUnit(c)'[2] = shard[c] + 1
    BY <1>1, <1>4, UnitFacts DEF NextUnit
  <2>3. NextUnit(c)' \notin log
    BY <1>4, <2>1, <2>2 DEF LaunchInv
  <2>4. ASSUME NEW u \in UnitsOf(Collection), u[2] > shard[c] + 1 PROVE u \notin log
    <3>1. u[2] \in Nat
      BY StageFacts, UnitFacts
    <3>2. QED
      BY <1>4, <2>1, <2>4, <3>1 DEF LaunchInv
  <2>5. QED
    BY <1>2, <1>4, <2>1, <2>3, <2>4
<1>5. CASE /\ OpenLog(c) /\ pc[c] = "launch" /\ pc'[c] = "spawn"
           /\ stage'[c] = stage[c] /\ shard'[c] = shard[c]
  <2>1. log' = log \cup {NextUnit(c)} /\ child' = child /\ NextUnit(c)' = NextUnit(c)
    BY <1>5 DEF OpenLog, NextUnit
  <2>2. ASSUME NEW u \in UnitsOf(stage[c]), u[2] > shard[c] PROVE u \notin log'
    <3>1. shard[c] \in Nat /\ stage[c] \in Stages
      BY DEF TypeOK
    <3>2. u # NextUnit(c)
      BY <2>2, <3>1 DEF NextUnit
    <3>3. QED
      BY <1>5, <2>1, <2>2, <3>2 DEF LaunchInv
  <2>3. QED
    BY <1>5, <2>1, <2>2 DEF LaunchInv
<1>6. CASE /\ pc'[c] = pc[c] /\ stage'[c] = stage[c] /\ shard'[c] = shard[c]
           /\ ~Assess(c) /\ ~Review(c)
  <2>1. Live(c)
    BY <1>6 DEF Live
  <2>2. NextUnit(c)' = NextUnit(c)
    BY <1>6 DEF NextUnit
  <2>3. log' = log
    <3>1. ASSUME NEW d \in Controllers, OpenLog(d) PROVE FALSE
      BY <1>6, <2>1, <3>1 DEF OpenLog, Live, OneController, Goto, TypeOK
    <3>2. QED
      BY <3>1
      DEF Next, Calm, Control, Work, Start, Assess, Spawn, Wait, Review, Finalize, Report,
          Abort, SaveCheckpoint, PublishReceipt, Exit, Fail, files, local, vars
  <2>4. ASSUME NEW d \in Controllers PROVE child'[d][NextUnit(c)] = "none"
    <3>1. child[d][NextUnit(c)] = "none"
      BY <1>6 DEF LaunchInv
    <3>2. ~Spawn(d)
      BY <1>6, <2>1 DEF Spawn, Live, OneController, Goto, TypeOK
    <3>3. QED
      BY <1>1, <2>2, <3>1, <3>2, ChildStep DEF PublishReceipt, Exit, Fail, Alive
  <2>5. QED
    BY <1>6, <2>2, <2>3, <2>4 DEF LaunchInv
<1>7. QED
  BY <1>3, <1>4, <1>5, <1>6, LaunchStep

(* Only one controller launches, and what it launches was not launched     *)
(* before.                                                                 *)
LEMMA LaunchedOnceNext ==
    ASSUME PipeInv, [Next]_vars PROVE LaunchedOnce'
<1> USE DEF PipeInv
<1> SUFFICES ASSUME NEW u \in Units, NEW c \in Controllers, NEW d \in Controllers,
                    child'[c][u] # "none", child'[d][u] # "none"
             PROVE  c = d
  BY DEF LaunchedOnce
<1>1. ASSUME NEW a \in Controllers, NEW b \in Controllers,
             child[a][u] = "none", child'[a][u] # "none", child'[b][u] # "none"
      PROVE  a = b
  <2>1. Spawn(a) /\ u = NextUnit(a) /\ pc[a] = "spawn"
    BY <1>1, ChildStep DEF PublishReceipt, Exit, Fail, Alive, Spawn
  <2>2. child[b][u] = "none"
    BY <2>1 DEF LaunchInv
  <2>3. Spawn(b) /\ pc[b] = "spawn"
    BY <1>1, <2>2, ChildStep DEF PublishReceipt, Exit, Fail, Alive, Spawn
  <2>4. QED
    BY <2>1, <2>3 DEF OneController, Live
<1>2. QED
  BY <1>1 DEF LaunchedOnce

(* The optional receipt too stays: its only writer is done with it.        *)
LEMMA AllStable ==
    ASSUME PipeInv, [Next]_vars, NEW s \in Stages, Done(s) PROVE Done(s)'
<1> USE DEF PipeInv
<1>1. CASE s # Optional
  BY <1>1, DoneStable
<1>2. CASE s = Optional
  <2>1. ASSUME NEW u \in UnitsOf(s) PROVE receipt'[u] = "PASS"
    <3>1. u \in Units /\ receipt[u] = "PASS"
      BY UnitFacts DEF Done
    <3>2. PICK d \in Controllers : child[d][u] \in {"published", "zero", "nonzero"}
      BY <3>1 DEF TracesInv
    <3>3. ASSUME NEW c \in Controllers, PublishReceipt(c, u) PROVE FALSE
      BY <3>1, <3>2, <3>3 DEF PublishReceipt, LaunchedOnce
    <3>4. QED
      BY <3>1, <3>3
      DEF PublishReceipt, TypeOK, Next, Calm, Control, Work, Start, Assess, OpenLog, Spawn,
          Wait, Review, Finalize, Report, Abort, SaveCheckpoint, Exit, Fail, files, local,
          vars
  <2>2. QED
    BY <1>2, <2>1 DEF Done, Optional, Update
<1>3. QED
  BY <1>1, <1>2

(* A complete ledger was made under a recorded contract.                   *)
LEMMA AllDoneContract == ASSUME TracesInv, AllDone PROVE contract
<1>1. PICK u \in Units : receipt[u] = "PASS"
  BY FirstUnit, StageFacts DEF AllDone, Done
<1>2. PICK c \in Controllers : child[c][u] # "none"
  BY <1>1 DEF TracesInv
<1>3. QED
  BY <1>2 DEF TracesInv

(* What a controller concluded stays true until it is written: no stage    *)
(* that is done is undone.                                                 *)
LEMMA ReportNext ==
    ASSUME PipeInv, TracesInv', [Next]_vars PROVE ReportInv'
<1> USE DEF PipeInv
<1>1. AllDone => AllDone'
  BY AllStable DEF AllDone
<1>2. DoneStages \subseteq DoneStages'
  BY AllStable DEF DoneStages
<1>3. contract => contract'
  BY DEF Next, Calm, Control, Work, Start, Assess, OpenLog, Spawn, Wait, Review, Finalize,
     Report, Abort, SaveCheckpoint, PublishReceipt, Exit, Fail, files, local, vars
<1>4. ASSUME NEW c \in Controllers, pc'[c] \in {"finalize", "report"}
      PROVE  AllDone' /\ view'[c].done \subseteq DoneStages'
  <2>1. CASE Assess(c) \/ Review(c)
    <3>1. Follow(c) /\ view'[c] = CurrentView
      BY <1>4, <2>1 DEF Assess, Review, Goto, TypeOK
    <3>2. AllDone
      BY <1>4, <3>1 DEF Follow, Goto, TypeOK
    <3>3. CurrentView.done = DoneStages
      BY DEF CurrentView
    <3>4. QED
      BY <1>1, <1>2, <3>1, <3>2, <3>3
  <2>2. CASE ~Assess(c) /\ ~Review(c)
    <3>1. pc[c] \in {"finalize", "report"} /\ view'[c] = view[c]
      <4>1. ASSUME NEW d \in Controllers, d # c, Start(d) \/ Control(d) \/ Abort(d)
            PROVE  pc'[c] = pc[c] /\ view'[c] = view[c]
        BY <4>1, FollowFrame
        DEF Start, Control, Abort, Assess, OpenLog, Spawn, Wait, Review, Finalize, Report,
            Goto, local, TypeOK
      <4>2. ASSUME Start(c) \/ Control(c) \/ Abort(c)
            PROVE  pc[c] \in {"finalize", "report"} /\ view'[c] = view[c]
        BY <1>4, <2>2, <4>2
        DEF Start, Control, Abort, OpenLog, Spawn, Wait, Finalize, Report, Goto, local,
            TypeOK
      <4>3. ASSUME NEW d \in Controllers, NEW u \in Units, Work(d, u) \/ Fail(d, u)
            PROVE  pc'[c] = pc[c] /\ view'[c] = view[c]
        BY <4>3 DEF Work, SaveCheckpoint, PublishReceipt, Exit, Fail, local
      <4>4. ASSUME UNCHANGED vars PROVE pc'[c] = pc[c] /\ view'[c] = view[c]
        BY <4>4 DEF vars, local
      <4>5. QED
        BY <1>4, <4>1, <4>2, <4>3, <4>4 DEF Next, Calm
    <3>2. QED
      BY <1>1, <1>2, <3>1 DEF ReportInv
  <2>3. QED
    BY <2>1, <2>2
<1>5. FinalMeansDone'
  <2>1. CASE final
    BY <1>1, <1>3, <2>1 DEF ReportInv, FinalMeansDone
  <2>2. CASE final' /\ ~final
    <3>1. PICK c \in Controllers : Finalize(c)
      BY <2>2
      DEF Next, Calm, Control, Work, Start, Assess, OpenLog, Spawn, Wait, Review, Report,
          Abort, SaveCheckpoint, PublishReceipt, Exit, Fail, files, local, vars
    <3>2. AllDone
      BY <3>1 DEF Finalize, ReportInv
    <3>3. QED
      BY <1>1, <1>3, <3>2, AllDoneContract DEF FinalMeansDone
  <2>3. QED
    BY <2>1, <2>2 DEF FinalMeansDone
<1>6. StateIsTrue'
  <2>1. CASE state' = state
    BY <1>2, <2>1 DEF ReportInv, StateIsTrue
  <2>2. ASSUME NEW c \in Controllers, Report(c) PROVE StateIsTrue'
    BY <1>2, <2>2 DEF Report, ReportInv, StateIsTrue
  <2>3. ASSUME NEW c \in Controllers, Review(c), state' # state PROVE StateIsTrue'
    BY <1>2, <2>3 DEF Review, StateIsTrue, CurrentView
  <2>4. QED
    BY <2>1, <2>2, <2>3
    DEF Next, Calm, Control, Work, Start, Assess, OpenLog, Spawn, Wait, Finalize, Abort,
        SaveCheckpoint, PublishReceipt, Exit, Fail, files, local, vars
<1>7. QED
  BY <1>4, <1>5, <1>6 DEF ReportInv

(* Every step preserves the inductive invariant while controllers do not   *)
(* overlap.                                                                *)
LEMMA PipeNext == ASSUME ~Overlap, PipeInv, [Next]_vars PROVE PipeInv'
<1>1. TypeOK' /\ OrderInv'
  BY NextTypeOK, OrderNext DEF PipeInv
<1>2. OneController' /\ TracesInv' /\ CommandInv'
  BY OneControllerNext, TracesNext, CommandNext DEF PipeInv
<1>3. LaunchInv' /\ LaunchedOnce' /\ ReportInv'
  BY <1>2, LaunchNext, LaunchedOnceNext, ReportNext
<1>4. QED
  BY <1>1, <1>2, <1>3 DEF PipeInv

(* While controllers do not overlap, PipeInv is an invariant.              *)
THEOREM PipeInvariance == ASSUME ~Overlap PROVE Spec => []PipeInv
BY PipeInit, PipeNext, PTL DEF Spec

(* No unit is launched twice, whatever an earlier controller left behind.  *)
THEOREM NoRetry == ASSUME ~Overlap PROVE Spec => []LaunchedOnce
BY PipeInvariance, PTL DEF PipeInv

(* The final summary describes a complete run under a recorded contract.   *)
THEOREM FinalIsComplete == ASSUME ~Overlap PROVE Spec => []FinalMeansDone
BY PipeInvariance, PTL DEF PipeInv, ReportInv

(* state.json never reports a stage that has not passed.                   *)
THEOREM StateTruthful == ASSUME ~Overlap PROVE Spec => []StateIsTrue
BY PipeInvariance, PTL DEF PipeInv, ReportInv

-----------------------------------------------------------------------------
(* The refinement.                                                         *)

(* A stage passes only on top of the ones before it.                       *)
LEMMA PassStep ==
    ASSUME PipeInv, [Next]_vars, DoneStages' # DoneStages
    PROVE  /\ \E s \in 1 .. LastStage : DoneStages = 1 .. s - 1 /\ DoneStages' = 1 .. s
           /\ UNCHANGED final
<1> USE DEF PipeInv
<1>1. ASSUME UNCHANGED <<receipt, checkpoints>> PROVE FALSE
  BY <1>1 DEF DoneStages, Done
<1>2. ASSUME NEW c \in Controllers, NEW u \in Units, SaveCheckpoint(c, u) PROVE FALSE
  <2>1. checkpoints # Checkpoints /\ receipt' = receipt
    BY <1>2 DEF SaveCheckpoint, Checkpoints
  <2>2. <<Update, 1>> \in UnitsOf(Update) /\ receipt[<<Update, 1>>] # "PASS"
    BY <2>1, FirstUnit, StageFacts DEF OrderInv
  <2>3. \A s \in Stages : Done(s)' <=> Done(s)
    BY <2>1, <2>2 DEF Done
  <2>4. QED
    BY <2>3 DEF DoneStages
<1>3. PICK c \in Controllers, u \in Units : PublishReceipt(c, u)
  BY <1>1, <1>2
  DEF Next, Calm, Control, Work, Start, Assess, OpenLog, Spawn, Wait, Review, Finalize,
      Report, Abort, Exit, Fail, files, local, vars
<1> DEFINE s == u[1]
<1>4. s \in Stages /\ u \in UnitsOf(s)
  BY UnitFacts
<1>5. ASSUME NEW t \in Stages, t # s PROVE Done(t)' <=> Done(t)
  <2>1. \A v \in UnitsOf(t) : v \in Units /\ v # u
    BY <1>5, UnitFacts
  <2>2. QED
    BY <1>3, <2>1 DEF PublishReceipt, Done, TypeOK
<1>6. \A t \in 1 .. s - 1 : Done(t)
  BY <1>3 DEF PublishReceipt, OrderInv, StagesInOrder
<1>7. ~Done(s) /\ Done(s)'
  <2>1. Done(s) => Done(s)'
    BY <1>4, AllStable
  <2>2. QED
    BY <1>4, <1>5, <2>1 DEF DoneStages
<1>8. ASSUME NEW t \in Stages, s < t PROVE ~Done(t)
  <2>1. SUFFICES ASSUME Done(t) PROVE Done(s)
    BY <1>7
  <2>2. <<t, 1>> \in Units /\ receipt[<<t, 1>>] = "PASS"
    BY <2>1, FirstUnit DEF Done
  <2>3. PICK d \in Controllers : child[d][<<t, 1>>] # "none"
    BY <2>2 DEF TracesInv
  <2>4. s \in 1 .. t - 1
    BY <1>4, <1>8 DEF Stages, LastStage
  <2>5. QED
    BY <2>2, <2>3, <2>4 DEF OrderInv, StagesInOrder
<1>9. s \in 1 .. LastStage /\ \A t \in Stages : t < s \/ t = s \/ s < t
  BY <1>4, StageFacts DEF Stages
<1>10. DoneStages = 1 .. s - 1
  BY <1>6, <1>7, <1>8, <1>9 DEF DoneStages, Stages, LastStage
<1>11. DoneStages' = 1 .. s
  BY <1>5, <1>6, <1>7, <1>8, <1>9 DEF DoneStages, Stages, LastStage
<1>12. QED
  BY <1>3, <1>9, <1>10, <1>11 DEF PublishReceipt

(* The run directory implements the ledger of its receipts.                *)
THEOREM LedgerRefinement == ASSUME ~Overlap PROVE Spec => ImplementsLedger
<1>1. Init => Ledger!Init
  <2> SUFFICES ASSUME Init PROVE DoneStages = {} /\ final = FALSE
    BY DEF Ledger!Init
  <2>1. \A s \in Stages : ~Done(s)
    BY FirstUnit DEF Init, Done
  <2>2. QED
    BY <2>1 DEF Init, DoneStages
<1>2. PipeInv /\ [Next]_vars => [Ledger!Next]_Ledger!vars
  <2> SUFFICES ASSUME PipeInv, [Next]_vars PROVE [Ledger!Next]_Ledger!vars
    OBVIOUS
  <2>1. CASE DoneStages' # DoneStages
    BY <2>1, PassStep DEF Ledger!Next, Ledger!Pass
  <2>2. CASE DoneStages' = DoneStages /\ final' # final
    <3>1. PICK c \in Controllers : Finalize(c)
      BY <2>2
      DEF Next, Calm, Control, Work, Start, Assess, OpenLog, Spawn, Wait, Review, Report,
          Abort, SaveCheckpoint, PublishReceipt, Exit, Fail, files, local, vars
    <3>2. AllDone /\ final' = TRUE
      BY <3>1 DEF Finalize, PipeInv, ReportInv
    <3>3. DoneStages = 1 .. LastStage
      BY <3>2 DEF AllDone, DoneStages, Stages
    <3>4. QED
      BY <2>2, <3>2, <3>3 DEF Ledger!Next, Ledger!Publish
  <2>3. CASE DoneStages' = DoneStages /\ final' = final
    BY <2>3 DEF Ledger!vars
  <2>4. QED
    BY <2>1, <2>2, <2>3
<1>3. QED
  BY <1>1, <1>2, PipeInvariance, PTL DEF Spec, ImplementsLedger, Ledger!Spec


-----------------------------------------------------------------------------
(* Sums over finite sets, by induction over the set: the theorems of the   *)
(* library that take a predicate cannot be used, well-founded minima can.  *)

First(s) == CHOOSE x \in s : TRUE
Step(f, iter, s) == IF s = {} THEN 0 ELSE f[First(s)] + iter[s \ {First(s)}]
Iter(f, S) == CHOOSE iter : iter = [s \in SUBSET S |-> Step(f, iter, s)]
IsIter(g, f, S) == g = [s \in SUBSET S |-> Step(f, g, s)]

(* The library adds up a function by taking one element of a set after the *)
(* other.                                                                  *)
LEMMA SumDef == \A f, S : SumFunctionOnSet(f, S) = Iter(f, S)[S]
BY DEF SumFunctionOnSet, FoldFunctionOnSet, MapThenFoldSet, Iter, Step, First

(* The sums and cardinalities of the instance are those of the library.    *)
LEMMA ScreenSumDef == \A f, S : Screen!SumFunctionOnSet(f, S) = Iter(f, S)[S]
BY DEF Screen!SumFunctionOnSet, Screen!FoldFunctionOnSet, Screen!MapThenFoldSet, Iter, Step,
       First

(* And so are sums ...                                                     *)
LEMMA ScreenSum == \A f : Screen!SumFunction(f) = SumFunction(f)
BY SumDef, ScreenSumDef DEF Screen!SumFunction, SumFunction

(* ... and cardinalities.                                                  *)
LEMMA ScreenCardinality == \A S : Screen!Cardinality(S) = Cardinality(S)
BY DEF Screen!Cardinality, Cardinality

(* Induction over the natural numbers, about a set of them.                *)
LEMMA NatInduct ==
  ASSUME NEW Good, 0 \in Good, \A n \in Nat : n \in Good => n + 1 \in Good
  PROVE  \A n \in Nat : n \in Good
<1> DEFINE Bad == {n \in Nat : n \notin Good}
<1> SUFFICES ASSUME Bad # {} PROVE FALSE
  OBVIOUS
<1>1. PICK x \in Bad : \A y \in Bad : ~(<<y, x>> \in OpToRel(<, Nat))
  BY NatLessThanWellFounded, WFMin, Bad \subseteq Nat
<1>2. \A y \in Bad : ~(y < x)
  BY <1>1 DEF OpToRel
<1>3. x \in Nat \ {0}
  OBVIOUS
<1>4. x - 1 \in Nat /\ x - 1 < x /\ (x - 1) + 1 = x
  BY <1>3
<1>5. x - 1 \in Good
  BY <1>2, <1>4
<1> QED
  BY <1>4, <1>5

(* Induction over the subsets of a finite set.                             *)
LEMMA SetInduct ==
  ASSUME NEW S, IsFiniteSet(S), NEW Good, {} \in Good,
         \A T \in SUBSET S : \A x \in S \ T : T \in Good => T \cup {x} \in Good
  PROVE  \A T \in SUBSET S : T \in Good
<1> DEFINE Sized == {n \in Nat : \A T \in SUBSET S : Cardinality(T) = n => T \in Good}
<1>1. \A T \in SUBSET S : IsFiniteSet(T) /\ Cardinality(T) \in Nat
  BY FS_Subset, FS_CardinalityType
<1>2. 0 \in Sized
  BY <1>1, FS_EmptySet
<1>3. ASSUME NEW n \in Nat, n \in Sized PROVE n + 1 \in Sized
  <2> SUFFICES ASSUME NEW T \in SUBSET S, Cardinality(T) = n + 1 PROVE T \in Good
    OBVIOUS
  <2>0. Cardinality(T) # 0
    OBVIOUS
  <2>1. T # {}
    BY <2>0, FS_EmptySet
  <2>2. PICK x \in T : TRUE
    BY <2>1
  <2>3. Cardinality(T \ {x}) = n
    <3>1. Cardinality(T \ {x}) = Cardinality(T) - 1
      BY <1>1, <2>2, FS_RemoveElement
    <3> QED
      BY <3>1
  <2>4. T \ {x} \in Good
    BY <1>3, <2>3
  <2>5. (T \ {x}) \cup {x} = T /\ T \ {x} \in SUBSET S /\ x \in S \ (T \ {x})
    OBVIOUS
  <2> QED
    BY <2>4, <2>5
<1> HIDE DEF Sized
<1>4. \A n \in Nat : n \in Sized
  BY <1>2, <1>3, NatInduct
<1> QED
  BY <1>1, <1>4 DEF Sized

(* The recursion that adds up a function is well founded.                  *)
LEMMA IterExists ==
  ASSUME NEW S, IsFiniteSet(S), NEW f \in [S -> Int]
  PROVE  \E g \in [SUBSET S -> Int] : IsIter(g, f, S)
<1> DEFINE D(n) == {s \in SUBSET S : Cardinality(s) <= n}
           Good == {n \in Nat : \E g \in [D(n) -> Int] : \A s \in D(n) : g[s] = Step(f, g, s)}
<1>1. \A s \in SUBSET S : IsFiniteSet(s) /\ Cardinality(s) \in Nat
      /\ Cardinality(s) <= Cardinality(S)
  BY FS_Subset, FS_CardinalityType
<1>2. \A s \in SUBSET S : s # {} =>
        /\ First(s) \in s /\ f[First(s)] \in Int
        /\ s \ {First(s)} \in SUBSET S
        /\ Cardinality(s \ {First(s)}) = Cardinality(s) - 1
  <2> SUFFICES ASSUME NEW s \in SUBSET S, s # {}
        PROVE /\ First(s) \in s /\ f[First(s)] \in Int
              /\ s \ {First(s)} \in SUBSET S
              /\ Cardinality(s \ {First(s)}) = Cardinality(s) - 1
    OBVIOUS
  <2>1. First(s) \in s
    BY DEF First
  <2> QED
    BY <1>1, <2>1, FS_RemoveElement
<1>3. 0 \in Good
  <2>1. D(0) = {{}}
    BY <1>1, FS_EmptySet
  <2>2. [s \in {{}} |-> 0] \in [D(0) -> Int]
        /\ \A s \in D(0) : [t \in {{}} |-> 0][s] = Step(f, [t \in {{}} |-> 0], s)
    BY <2>1 DEF Step
  <2> QED
    BY <2>2
<1>4. ASSUME NEW n \in Nat, n \in Good PROVE n + 1 \in Good
  <2>1. PICK g \in [D(n) -> Int] : \A s \in D(n) : g[s] = Step(f, g, s)
    BY <1>4
  <2> DEFINE h == [s \in D(n + 1) |-> IF s \in D(n) THEN g[s] ELSE Step(f, g, s)]
  <2>2. \A s \in D(n + 1) : s # {} => s \ {First(s)} \in D(n)
    BY <1>1, <1>2
  <2>3. D(n) \subseteq D(n + 1)
    BY <1>1
  <2>4. {} \in D(n)
    BY FS_EmptySet
  <2>5. \A s \in D(n + 1) : Step(f, g, s) \in Int
    BY <1>2, <2>2 DEF Step
  <2>6. h \in [D(n + 1) -> Int]
    BY <2>5
  <2>7. \A s \in D(n) : h[s] = g[s]
    BY <2>3
  <2>10. \A s \in D(n + 1) : h[s] = Step(f, g, s)
    BY <2>1
  <2> HIDE DEF h
  <2>8. \A s \in D(n + 1) : Step(f, h, s) = Step(f, g, s)
    <3> SUFFICES ASSUME NEW s \in D(n + 1), s # {} PROVE h[s \ {First(s)}] = g[s \ {First(s)}]
      BY DEF Step
    <3> QED
      BY <2>2, <2>7
  <2>9. \A s \in D(n + 1) : h[s] = Step(f, h, s)
    BY <2>8, <2>10
  <2>11. \E k \in [D(n + 1) -> Int] : \A s \in D(n + 1) : k[s] = Step(f, k, s)
    BY <2>6, <2>9
  <2>12. n + 1 \in Nat
    OBVIOUS
  <2> QED
    BY <2>11, <2>12, Zenon
<1> HIDE DEF Good
<1>5. Cardinality(S) \in Good
  BY <1>1, <1>3, <1>4, NatInduct
<1>6. D(Cardinality(S)) = SUBSET S
  BY <1>1
<1>7. PICK g \in [D(Cardinality(S)) -> Int] : \A s \in D(Cardinality(S)) : g[s] = Step(f, g, s)
  BY <1>5 DEF Good
<1>8. g \in [SUBSET S -> Int] /\ \A s \in SUBSET S : g[s] = Step(f, g, s)
  BY <1>6, <1>7
<1>9. IsIter(g, f, S)
  BY <1>8 DEF IsIter
<1> QED
  BY <1>8, <1>9, Zenon

(* So it is one: the partial sums of a finite set are what they should be. *)
LEMMA IterIs ==
  ASSUME NEW S, IsFiniteSet(S), NEW f \in [S -> Int]
  PROVE  /\ Iter(f, S) \in [SUBSET S -> Int]
         /\ \A s \in SUBSET S : Iter(f, S)[s] = Step(f, Iter(f, S), s)
<1>0. PICK g \in [SUBSET S -> Int] : IsIter(g, f, S)
  BY IterExists
<1>1. g = [s \in SUBSET S |-> Step(f, g, s)]
  BY <1>0 DEF IsIter
<1> DEFINE i == Iter(f, S)
<1>2. i = [s \in SUBSET S |-> Step(f, i, s)]
  BY <1>1 DEF Iter
<1> HIDE DEF i
<1>3. \A s \in SUBSET S : i[s] = Step(f, i, s) /\ g[s] = Step(f, g, s)
  BY <1>1, <1>2
<1> DEFINE Good == {n \in Nat : \A s \in SUBSET S : Cardinality(s) = n => i[s] = g[s]}
<1>4. \A s \in SUBSET S : IsFiniteSet(s) /\ Cardinality(s) \in Nat
  BY FS_Subset, FS_CardinalityType
<1>5. 0 \in Good
  <2> SUFFICES ASSUME NEW s \in SUBSET S, Cardinality(s) = 0 PROVE i[s] = g[s]
    OBVIOUS
  <2>1. s = {}
    BY <1>4, FS_EmptySet
  <2> QED
    BY <1>3, <2>1 DEF Step
<1>6. ASSUME NEW n \in Nat, n \in Good PROVE n + 1 \in Good
  <2> SUFFICES ASSUME NEW s \in SUBSET S, Cardinality(s) = n + 1 PROVE i[s] = g[s]
    OBVIOUS
  <2>1. Cardinality(s) # 0
    OBVIOUS
  <2>2. s # {}
    BY <2>1, FS_EmptySet
  <2>3. First(s) \in s
    BY <2>2 DEF First
  <2>4. Cardinality(s \ {First(s)}) = Cardinality(s) - 1
    BY <1>4, <2>3, FS_RemoveElement
  <2>5. Cardinality(s \ {First(s)}) = n /\ s \ {First(s)} \in SUBSET S
    BY <2>4
  <2>6. i[s \ {First(s)}] = g[s \ {First(s)}]
    BY <1>6, <2>5
  <2> QED
    BY <1>3, <2>2, <2>6 DEF Step
<1> HIDE DEF Good
<1>7. \A n \in Nat : n \in Good
  BY <1>5, <1>6, NatInduct
<1>8. \A s \in SUBSET S : i[s] = g[s]
  BY <1>4, <1>7 DEF Good
<1>9. i = g
  BY <1>1, <1>2, <1>8
<1> QED
  BY <1>1, <1>3, <1>9 DEF i

(* A sum does not depend on what its function is outside the set.          *)
LEMMA SumOn ==
  ASSUME NEW S, IsFiniteSet(S), NEW f \in [S -> Int], NEW T \in SUBSET S, NEW g \in [T -> Int],
         \A x \in T : g[x] = f[x]
  PROVE  /\ Iter(g, T)[T] = Iter(f, S)[T]
         /\ SumFunctionOnSet(g, T) = Iter(f, S)[T]
         /\ SumFunctionOnSet(g, T) \in Int
<1> DEFINE i == Iter(f, S)  j == Iter(g, T)
           Good == {n \in Nat : \A s \in SUBSET T : Cardinality(s) = n => i[s] = j[s]}
<1>0. IsFiniteSet(T)
  BY FS_Subset
<1>3. /\ \A s \in SUBSET S : i[s] = Step(f, i, s) /\ i[s] \in Int
      /\ \A s \in SUBSET T : j[s] = Step(g, j, s)
  BY <1>0, IterIs
<1> HIDE DEF i, j
<1>4. \A s \in SUBSET T : IsFiniteSet(s) /\ Cardinality(s) \in Nat
  BY <1>0, FS_Subset, FS_CardinalityType
<1>5. 0 \in Good
  <2> SUFFICES ASSUME NEW s \in SUBSET T, Cardinality(s) = 0 PROVE i[s] = j[s]
    OBVIOUS
  <2>1. s = {}
    BY <1>4, FS_EmptySet
  <2> QED
    BY <1>3, <2>1 DEF Step
<1>6. ASSUME NEW n \in Nat, n \in Good PROVE n + 1 \in Good
  <2> SUFFICES ASSUME NEW s \in SUBSET T, Cardinality(s) = n + 1 PROVE i[s] = j[s]
    OBVIOUS
  <2>1. Cardinality(s) # 0
    OBVIOUS
  <2>2. s # {}
    BY <2>1, FS_EmptySet
  <2>3. First(s) \in s
    BY <2>2 DEF First
  <2>4. Cardinality(s \ {First(s)}) = Cardinality(s) - 1
    BY <1>4, <2>3, FS_RemoveElement
  <2>5. Cardinality(s \ {First(s)}) = n /\ s \ {First(s)} \in SUBSET T
    BY <2>4
  <2>6. i[s \ {First(s)}] = j[s \ {First(s)}]
    BY <1>6, <2>5
  <2>7. g[First(s)] = f[First(s)] /\ s \in SUBSET S
    BY <2>3
  <2> QED
    BY <1>3, <2>2, <2>6, <2>7 DEF Step
<1> HIDE DEF Good
<1>7. \A n \in Nat : n \in Good
  BY <1>5, <1>6, NatInduct
<1>8. i[T] = j[T]
  BY <1>4, <1>7 DEF Good
<1>9. SumFunctionOnSet(g, T) = j[T]
  BY SumDef DEF j
<1> QED
  BY <1>3, <1>8, <1>9 DEF i, j

(* The sum over a set with one more element, whichever it is.              *)
LEMMA IterAdd ==
  ASSUME NEW S, IsFiniteSet(S), NEW f \in [S -> Int], NEW T \in SUBSET S, NEW x \in S \ T
  PROVE  Iter(f, S)[T \cup {x}] = f[x] + Iter(f, S)[T]
<1> DEFINE i == Iter(f, S)
           Good == {n \in Nat : \A s \in SUBSET S : \A y \in S \ s :
                                  Cardinality(s) = n => i[s \cup {y}] = f[y] + i[s]}
<1>1. /\ \A s \in SUBSET S : i[s] = Step(f, i, s) /\ i[s] \in Int
      /\ \A y \in S : f[y] \in Int
  <2>1. i \in [SUBSET S -> Int] /\ \A s \in SUBSET S : i[s] = Step(f, i, s)
    BY IterIs
  <2> HIDE DEF i
  <2> QED
    BY <2>1
<1> HIDE DEF i
<1>2. \A s \in SUBSET S : IsFiniteSet(s) /\ Cardinality(s) \in Nat
  BY FS_Subset, FS_CardinalityType
<1>3. \A s \in SUBSET S : s # {} => First(s) \in s
  BY DEF First
<1>4. 0 \in Good
  <2> SUFFICES ASSUME NEW s \in SUBSET S, NEW y \in S \ s, Cardinality(s) = 0
               PROVE  i[s \cup {y}] = f[y] + i[s]
    OBVIOUS
  <2>1. s = {}
    BY <1>2, FS_EmptySet
  <2>2. First({y}) = y /\ {y} \ {y} = {} /\ {y} # {} /\ s \cup {y} = {y} /\ {y} \in SUBSET S
    BY <2>1 DEF First
  <2> QED
    BY <1>1, <2>1, <2>2 DEF Step
<1>5. ASSUME NEW n \in Nat, n \in Good PROVE n + 1 \in Good
  <2> SUFFICES ASSUME NEW s \in SUBSET S, NEW y \in S \ s, Cardinality(s) = n + 1
               PROVE  i[s \cup {y}] = f[y] + i[s]
    OBVIOUS
  <2> DEFINE t == s \cup {y}  z == First(t)
  <2>1. z \in t /\ t # {} /\ t \in SUBSET S
    BY <1>3
  <2>2. i[t] = f[z] + i[t \ {z}]
    BY <1>1, <2>1 DEF Step
  <2>3. CASE z = y
    <3>1. t \ {z} = s
      BY <2>3
    <3> QED
      BY <2>2, <2>3, <3>1
  <2>4. CASE z # y
    <3> DEFINE u == s \ {z}
    <3>1. z \in s /\ u \in SUBSET S /\ y \in S \ u /\ z \in S \ u
      BY <2>1, <2>4
    <3>2. Cardinality(u) = Cardinality(s) - 1
      <4>1. IsFiniteSet(s) /\ First(t) \in s
        BY <1>2, <3>1
      <4> QED
        BY <4>1, FS_RemoveElement
    <3>3. Cardinality(u) = n
      BY <3>2
    <3>4. i[u \cup {y}] = f[y] + i[u] /\ i[u \cup {z}] = f[z] + i[u]
      BY <1>5, <3>1, <3>3
    <3>5. u \cup {y} = t \ {z} /\ u \cup {z} = s
      BY <2>4, <3>1
    <3>6. i[t \ {z}] = f[y] + i[u] /\ i[s] = f[z] + i[u]
      BY <3>4, <3>5
    <3>7. f[y] \in Int /\ f[z] \in Int /\ i[u] \in Int
      BY <1>1, <3>1
    <3> QED
      BY <2>2, <3>6, <3>7
  <2> QED
    BY <2>3, <2>4
<1> HIDE DEF Good
<1>6. Cardinality(T) \in Good
  BY <1>2, <1>4, <1>5, NatInduct
<1> QED
  BY <1>6 DEF Good, i

-----------------------------------------------------------------------------
(* What the episodes on disk say.                                          *)

Phases == {"screening", "heldout"}
All == [e \in 1..Epochs |-> e]

(* An episode of a unit, by its epoch (0: released); whether it has been   *)
(* run; the pair.                                                          *)
Place(phase, u, e) == <<phase, u, IF phase = "heldout" /\ e # 0 THEN 1 ELSE e>>
Disk(phase, u, e) == episode[Place(phase, u, e)]
HasRun(phase, u, e) == Disk(phase, u, 0) # Absent /\ Disk(phase, u, e) # Absent
TruePair(phase, u, e) == Screen!Pair(u, e, Disk(phase, u, 0), Disk(phase, u, e))

(* All pairs of an epoch, when they are there, and what follows from them. *)
Complete(phase, e) == \A u \in Screen!PhaseUnits(phase) : HasRun(phase, u, e)
Truth(phase, e) == {TruePair(phase, u, e) : u \in Screen!PhaseUnits(phase)}
Buckets == [e \in 1..Epochs |-> Screen!Bucket(Truth("screening", e))]
Chosen == Screen!Best(All, Buckets, losses)
Screened == Screen!Loadable /\ \A e \in 1..Epochs : Complete("screening", e)
SummaryTrue == Screened /\ summary = [bucket |-> Buckets, epoch |-> Chosen]
SelectionTrue ==
    /\ Screened
    /\ selection = [epoch |-> Chosen,
                    key |-> Screen!SelectionKey(Chosen, Buckets[Chosen], losses[Chosen])]
HeldoutTrue ==
    /\ SelectionTrue /\ Complete("heldout", Chosen)
    /\ heldout = [epoch |-> Chosen, all |-> Screen!Bucket(Truth("heldout", Chosen)),
                  byBank |-> [b \in 1..Banks["heldout"] |->
                              Screen!Bucket({r \in Truth("heldout", Chosen) :
                                               Screen!Bank("heldout", r.unit) = b})]]

(* Types; what an invocation is about; a thread in the middle of a unit    *)
(* has run the unit's released episode; and every row a thread has built   *)
(* is the pair of a unit's episodes.                                       *)
Typed ==
    /\ published \in 0..Epochs
    /\ losses # Absent => losses \in [1..Epochs -> Losses]
    /\ episode \in [Screen!Slots -> Outcomes \cup {Absent}]
    /\ mode \in {"idle", "screen_epoch", "screen", "screened", "heldout"}
    /\ wanted \in Seq(1..Epochs)
    /\ queue \in [1..Gpus -> [unit : Nat \ {0}, next : 0..Len(wanted)]]
    /\ DOMAIN rows = 1..Gpus
    /\ DOMAIN epochReceipt = 1..Epochs
Wanted ==
    /\ mode = "screen_epoch" => Len(wanted) = 1
    /\ mode \in {"screen", "screened"} => wanted = All /\ Screen!Loadable
    /\ mode = "screened" => SummaryTrue
    /\ mode = "heldout" => SelectionTrue /\ wanted = <<Chosen>>
QueuesTrue ==
    \A g \in 1..Gpus : queue[g].next > 0 =>
        queue[g].unit \in Screen!PhaseUnits(Screen!Phase)
        /\ Disk(Screen!Phase, queue[g].unit, 0) # Absent
IsTrue(phase, r, S) ==
    \E u \in Screen!PhaseUnits(phase) :
        \E e \in S : HasRun(phase, u, e) /\ r = TruePair(phase, u, e)
RowsTrue ==
    \A g \in 1..Gpus : \A r \in rows[g] :
        IsTrue(Screen!Phase, r, {wanted[i] : i \in DOMAIN wanted})

(* Every receipt, summary and selection on disk is what the episodes that  *)
(* are on disk now, and can only become more, say.                         *)
FilesTrue ==
    /\ \A e \in 1..Epochs : epochReceipt[e] # Absent =>
          Complete("screening", e) /\ epochReceipt[e] = Screen!Bucket(Truth("screening", e))
    /\ summary # Absent => SummaryTrue
    /\ selection # Absent => SelectionTrue
    /\ heldout # Absent => HeldoutTrue

(* The inductive invariant.                                                *)
CountInv == Typed /\ Wanted /\ QueuesTrue /\ RowsTrue /\ FilesTrue

BestStep(epochs, bucket, loss, best, n) ==
  IF n = 1 THEN epochs[1]
  ELSE IF Screen!Greater(Screen!SelectionKey(epochs[n], bucket[epochs[n]], loss[epochs[n]]),
                  Screen!SelectionKey(best[n - 1], bucket[best[n - 1]], loss[best[n - 1]]))
       THEN epochs[n] ELSE best[n - 1]
IsBest(best, epochs, bucket, loss) ==
  best = [n \in DOMAIN epochs |-> BestStep(epochs, bucket, loss, best, n)]
Bests(epochs, bucket, loss) == CHOOSE best : IsBest(best, epochs, bucket, loss)

(* The recursion of _candidate_aggregate's caller over the candidates,     *)
(* named.                                                                  *)
LEMMA BestDef == \A epochs, bucket, loss :
                 Screen!Best(epochs, bucket, loss) = Bests(epochs, bucket, loss)[Len(epochs)]
BY DEF Screen!Best, Bests, IsBest, BestStep

(* The recursion over the candidates is well founded.                      *)
LEMMA BestExists ==
  ASSUME NEW S, NEW epochs \in Seq(S), NEW bucket, NEW loss
  PROVE  /\ IsBest(Bests(epochs, bucket, loss), epochs, bucket, loss)
         /\ Bests(epochs, bucket, loss) \in [DOMAIN epochs -> S]
<1> DEFINE Step2(g, n) == BestStep(epochs, bucket, loss, g, n)
           Good == {m \in Nat : m <= Len(epochs) =>
                      \E g \in [1..m -> S] : \A n \in 1..m : g[n] = Step2(g, n)}
<1>0. Len(epochs) \in Nat /\ DOMAIN epochs = 1..Len(epochs)
      /\ \A n \in 1..Len(epochs) : epochs[n] \in S
  OBVIOUS
<1>1. 0 \in Good
  <2>1. 1..0 = {} OBVIOUS
  <2>2. [n \in {} |-> 0] \in [1..0 -> S]
        /\ \A n \in 1..0 : [k \in {} |-> 0][n] = Step2([k \in {} |-> 0], n)
    BY <2>1
  <2>3. \E g \in [1..0 -> S] : \A n \in 1..0 : g[n] = Step2(g, n)
    BY <2>2, Zenon
  <2> QED BY <2>3
<1>2. ASSUME NEW m \in Nat, m \in Good PROVE m + 1 \in Good
  <2>0. m + 1 \in Nat OBVIOUS
  <2>1. CASE m + 1 <= Len(epochs)
    <3>1. PICK g \in [1..m -> S] : \A n \in 1..m : g[n] = Step2(g, n)
      BY <1>2, <1>0, <2>1
    <3> DEFINE h == [n \in 1..(m + 1) |-> IF n = m + 1 THEN Step2(g, n) ELSE g[n]]
    <3>2. Step2(g, m + 1) \in S
      <4>1. epochs[1] \in S /\ epochs[m + 1] \in S BY <1>0, <2>1
      <4>2. m # 0 => g[m] \in S /\ (m + 1) - 1 = m OBVIOUS
      <4> QED BY <4>1, <4>2 DEF BestStep
    <3>3. h \in [1..(m + 1) -> S] BY <3>2
    <3>4. \A n \in 1..m : h[n] = g[n] OBVIOUS
    <3>5. h[m + 1] = Step2(g, m + 1) OBVIOUS
    <3> HIDE DEF h
    <3>6. \A n \in 1..(m + 1) : Step2(h, n) = Step2(g, n)
      <4> SUFFICES ASSUME NEW n \in 1..(m + 1), n # 1 PROVE h[n - 1] = g[n - 1] BY DEF BestStep
      <4> QED BY <3>4
    <3>7. \A n \in 1..(m + 1) : h[n] = Step2(h, n)
      BY <3>1, <3>4, <3>5, <3>6
    <3>8. \E k \in [1..(m + 1) -> S] : \A n \in 1..(m + 1) : k[n] = Step2(k, n)
      BY <3>3, <3>7
    <3> QED BY <2>0, <3>8, Zenon
  <2> QED BY <2>0, <2>1
<1> HIDE DEF Good
<1>3. \A m \in Nat : m \in Good BY <1>1, <1>2, NatInduct
<1>4. PICK g \in [1..Len(epochs) -> S] : \A n \in 1..Len(epochs) : g[n] = Step2(g, n)
  <2>1. Len(epochs) \in Good /\ Len(epochs) <= Len(epochs) BY <1>0, <1>3
  <2>2. \E g \in [1..Len(epochs) -> S] : \A n \in 1..Len(epochs) : g[n] = Step2(g, n)
    BY <2>1, Zenon DEF Good
  <2> QED BY <2>2
<1> DEFINE i == Bests(epochs, bucket, loss)
<1>5. IsBest(g, epochs, bucket, loss) BY <1>0, <1>4 DEF IsBest
<1>6. IsBest(i, epochs, bucket, loss) BY <1>5 DEF Bests
<1> HIDE DEF i
<1>7. \A n \in 1..Len(epochs) : i[n] = Step2(i, n) BY <1>0, <1>6 DEF IsBest
<1> DEFINE Same == {m \in Nat : m \in 1..Len(epochs) => i[m] = g[m]}
<1>8. 0 \in Same OBVIOUS
<1>9. ASSUME NEW m \in Nat, m \in Same PROVE m + 1 \in Same
  <2> SUFFICES ASSUME m + 1 \in 1..Len(epochs) PROVE i[m + 1] = g[m + 1] OBVIOUS
  <2>1. i[m + 1] = Step2(i, m + 1) /\ g[m + 1] = Step2(g, m + 1) BY <1>4, <1>7
  <2>2. m + 1 # 1 => i[(m + 1) - 1] = g[(m + 1) - 1] BY <1>0, <1>9
  <2>3. Step2(i, m + 1) = Step2(g, m + 1) BY <2>2 DEF BestStep
  <2> QED BY <2>1, <2>3
<1> HIDE DEF Same
<1>10. \A m \in Nat : m \in Same BY <1>8, <1>9, NatInduct
<1>11. \A n \in 1..Len(epochs) : i[n] = g[n] BY <1>0, <1>10 DEF Same
<1>12. DOMAIN i = 1..Len(epochs) BY <1>0, <1>6 DEF IsBest
<1>13. i \in [1..Len(epochs) -> S]
  <2>1. i = [n \in DOMAIN epochs |-> BestStep(epochs, bucket, loss, i, n)] BY <1>6 DEF IsBest
  <2>2. \A n \in 1..Len(epochs) : i[n] \in S BY <1>4, <1>11
  <2> QED BY <1>0, <2>1, <2>2
<1> QED BY <1>0, <1>6, <1>13 DEF i

(* An episode that has been run is never run again.                        *)
EpisodesKept ==
    /\ episode' \in [Screen!Slots -> Outcomes \cup {Absent}]
    /\ \A s \in Screen!Slots : episode[s] # Absent => episode'[s] = episode[s]

(* Units are positive numbers, and there is at least one of everything.    *)
LEMMA ScreenFacts ==
    /\ \A phase \in Phases : Banks[phase] \in Nat \ {0} /\ Seeds[phase] \in Nat \ {0}
    /\ \A phase \in Phases : Banks[phase] * Seeds[phase] \in Nat
    /\ \A phase \in Phases : Screen!PhaseUnits(phase) \subseteq Nat \ {0}
    /\ Epochs \in Nat \ {0} /\ Gpus \in Nat \ {0}
    /\ Screen!Phase \in Phases
<1>1. \A phase \in Phases : Banks[phase] \in Nat \ {0} /\ Seeds[phase] \in Nat \ {0}
  BY ScreenConfigured DEF Phases, Screen!Configured
<1>2. \A m, n \in Nat : m * n \in Nat OBVIOUS
<1>3. \A phase \in Phases : Banks[phase] * Seeds[phase] \in Nat BY <1>1, <1>2
<1>4. \A phase \in Phases : Screen!PhaseUnits(phase) \subseteq Nat \ {0}
  BY <1>3 DEF Screen!PhaseUnits
<1> QED
  BY <1>1, <1>3, <1>4, ScreenConfigured
  DEF Screen!Configured, Screen!Phase, Screen!PhaseOf, Phases

(* An episode that an invocation asks for is one of the episodes.          *)
LEMMA PlaceIn ==
    ASSUME NEW phase \in Phases, NEW u \in Screen!PhaseUnits(phase), NEW e \in 0..Epochs
    PROVE  Place(phase, u, e) \in Screen!Slots
<1>1. (IF phase = "heldout" /\ e # 0 THEN 1 ELSE e) \in 0..Epochs BY ScreenFacts
<1>2. Place(phase, u, e) \in {phase} \X Screen!PhaseUnits(phase) \X (0..Epochs)
  BY <1>1 DEF Place
<1> QED BY <1>2 DEF Screen!Slots, Phases

(* An episode that is there stays, and with it what was paired of it.      *)
LEMMA DiskKept ==
    ASSUME EpisodesKept, NEW phase \in Phases, NEW u \in Screen!PhaseUnits(phase),
           NEW e \in 0..Epochs,
           Disk(phase, u, e) # Absent
    PROVE  Disk(phase, u, e)' = Disk(phase, u, e)
BY PlaceIn DEF EpisodesKept, Disk, Place

(* A pair whose episodes have been run stays the pair it is ...            *)
LEMMA PairKept ==
    ASSUME EpisodesKept, NEW phase \in Phases, NEW u \in Screen!PhaseUnits(phase),
           NEW e \in 0..Epochs,
           HasRun(phase, u, e)
    PROVE  HasRun(phase, u, e)' /\ TruePair(phase, u, e)' = TruePair(phase, u, e)
<1>1. 0 \in 0..Epochs BY ScreenFacts
<1>2. Disk(phase, u, 0)' = Disk(phase, u, 0) BY <1>1, DiskKept DEF HasRun
<1>3. Disk(phase, u, e)' = Disk(phase, u, e) BY DiskKept DEF HasRun
<1> QED BY <1>2, <1>3 DEF HasRun, TruePair

(* ... and so do all pairs of an epoch.                                    *)
LEMMA CompleteKept ==
    ASSUME EpisodesKept, NEW phase \in Phases, NEW e \in 0..Epochs, Complete(phase, e)
    PROVE  Complete(phase, e)' /\ Truth(phase, e)' = Truth(phase, e)
<1>1. \A u \in Screen!PhaseUnits(phase) :
        HasRun(phase, u, e)' /\ TruePair(phase, u, e)' = TruePair(phase, u, e)
  BY PairKept DEF Complete
<1> QED BY <1>1 DEF Complete, Truth

(* Once there is a result to choose from, the choice stays.                *)
LEMMA ScreenedKept ==
    ASSUME EpisodesKept, losses' = losses, Screened
    PROVE  Screened' /\ Buckets' = Buckets /\ Chosen' = Chosen
<1>1. \A e \in 1..Epochs : e \in 0..Epochs /\ Complete("screening", e)
  BY ScreenFacts DEF Screened
<1>2. \A e \in 1..Epochs : Complete("screening", e)'
      /\ Truth("screening", e)' = Truth("screening", e)
  BY <1>1, CompleteKept DEF Phases
<1>3. Buckets' = Buckets BY <1>2 DEF Buckets
<1> QED BY <1>2, <1>3 DEF Screened, Screen!Loadable, Chosen

(* The candidates of a screening are all the epochs.                       *)
LEMMA AllFacts == All \in Seq(1..Epochs) /\ Len(All) = Epochs /\ DOMAIN All = 1..Epochs
BY ScreenFacts DEF All

(* The candidate that is chosen is one of them.                            *)
LEMMA ChosenIn == Chosen \in 1..Epochs
<1>1. Bests(All, Buckets, losses) \in [1..Epochs -> 1..Epochs] BY AllFacts, BestExists
<1>2. Chosen = Bests(All, Buckets, losses)[Epochs] BY AllFacts, BestDef DEF Chosen
<1> QED BY <1>1, <1>2, ScreenFacts

(* What is committed stays true as long as nothing is committed.           *)
LEMMA FilesKept ==
    ASSUME Typed, EpisodesKept, Screen!Loadable => losses' = losses,
           UNCHANGED <<epochReceipt, summary, selection, heldout>>
    PROVE  /\ Screen!Loadable => Screen!Loadable'
           /\ SummaryTrue => SummaryTrue'
           /\ SelectionTrue => SelectionTrue' /\ Chosen' = Chosen
           /\ FilesTrue => FilesTrue'
<1>1. Screened => Screened' /\ Buckets' = Buckets /\ Chosen' = Chosen /\ losses' = losses
  BY ScreenedKept DEF Screened
<1>2. SummaryTrue => SummaryTrue' BY <1>1 DEF SummaryTrue
<1>3. SelectionTrue => SelectionTrue' /\ Chosen' = Chosen BY <1>1 DEF SelectionTrue
<1>4. HeldoutTrue => HeldoutTrue'
  <2> SUFFICES ASSUME HeldoutTrue PROVE HeldoutTrue' OBVIOUS
  <2>1. SelectionTrue' /\ Chosen' = Chosen BY <1>3 DEF HeldoutTrue
  <2>2. Chosen \in 0..Epochs BY ChosenIn, ScreenFacts
  <2>3. "heldout" \in Phases BY DEF Phases
  <2>4. Complete("heldout", Chosen) BY DEF HeldoutTrue
  <2> DEFINE e == Chosen
  <2>5. e' = e /\ e \in 0..Epochs BY <2>1, <2>2
  <2>6. PICK c \in 0..Epochs : c = Chosen BY <2>2
  <2>7. Complete("heldout", c)' /\ Truth("heldout", c)' = Truth("heldout", c)
    BY <2>3, <2>4, <2>6, CompleteKept
  <2>8. Complete("heldout", Chosen)' /\ Truth("heldout", Chosen)' = Truth("heldout", Chosen)
    BY <2>1, <2>6, <2>7 DEF Complete, HasRun, Truth, TruePair, Disk
  <2> QED BY <2>1, <2>8 DEF HeldoutTrue
<1>5. ASSUME FilesTrue PROVE FilesTrue'
  <2>1. ASSUME NEW e \in 1..Epochs, epochReceipt'[e] # Absent
        PROVE  Complete("screening", e)'
               /\ epochReceipt'[e] = Screen!Bucket(Truth("screening", e))'
    <3>1. e \in 0..Epochs /\ "screening" \in Phases BY ScreenFacts DEF Phases
    <3>2. Complete("screening", e) /\ epochReceipt[e] = Screen!Bucket(Truth("screening", e))
      BY <1>5, <2>1 DEF FilesTrue
    <3> QED BY <3>1, <3>2, CompleteKept
  <2> QED BY <1>2, <1>3, <1>4, <1>5, <2>1 DEF FilesTrue
<1>6. Screen!Loadable => Screen!Loadable' BY DEF Screen!Loadable
<1> QED BY <1>2, <1>3, <1>5, <1>6

(* A fresh run directory has nothing to count.                             *)
LEMMA CountStarts == Screen!Init => CountInv
<1> SUFFICES ASSUME Screen!Init PROVE CountInv OBVIOUS
<1>1. Typed
  <2>1. episode \in [Screen!Slots -> Outcomes \cup {Absent}] BY DEF Screen!Init
  <2>2. queue \in [1..Gpus -> [unit : Nat \ {0}, next : 0..Len(wanted)]]
    BY ScreenFacts DEF Screen!Init, Screen!Queues
  <2>3. wanted \in Seq(1..Epochs) BY DEF Screen!Init
  <2> QED BY <2>1, <2>2, <2>3, ScreenFacts DEF Screen!Init, Typed
<1>2. QueuesTrue BY DEF Screen!Init, QueuesTrue, Screen!Queues
<1>3. RowsTrue BY DEF Screen!Init, RowsTrue
<1> QED BY <1>1, <1>2, <1>3 DEF CountInv, Screen!Init, Wanted, FilesTrue

(* What an invocation has counted stays true while episodes are only       *)
(* added.                                                                  *)
LEMMA CountedKept ==
    ASSUME Typed, QueuesTrue, RowsTrue, EpisodesKept, UNCHANGED <<wanted, queue, rows>>,
           Screen!Phase' = Screen!Phase
    PROVE  QueuesTrue' /\ RowsTrue'
<1>0. Typed /\ QueuesTrue /\ RowsTrue OBVIOUS
<1>3. wanted' = wanted /\ Screen!Phase' = Screen!Phase /\ queue' = queue /\ rows' = rows
  OBVIOUS
<1>5. QueuesTrue'
  <2> SUFFICES ASSUME NEW g \in 1..Gpus, queue[g].next > 0
      PROVE queue[g].unit \in Screen!PhaseUnits(Screen!Phase)
      /\ (Disk(Screen!Phase, queue[g].unit, 0))' # Absent
    BY <1>3 DEF QueuesTrue
  <2>1. queue[g].unit \in Screen!PhaseUnits(Screen!Phase)
        /\ Disk(Screen!Phase, queue[g].unit, 0) # Absent
    BY <1>0 DEF QueuesTrue
  <2>2. PICK u \in Screen!PhaseUnits(Screen!Phase) : u = queue[g].unit BY <2>1
  <2>3. PICK phase \in Phases : phase = Screen!Phase BY ScreenFacts
  <2>4. Disk(phase, u, 0)' = Disk(phase, u, 0)
    BY <2>1, <2>2, <2>3, DiskKept, ScreenFacts
  <2> QED BY <1>3, <2>1, <2>2, <2>3, <2>4 DEF Disk
<1>6. RowsTrue'
  <2> SUFFICES ASSUME NEW g \in 1..Gpus, NEW r \in rows[g],
                      IsTrue(Screen!Phase, r, {wanted[i] : i \in DOMAIN wanted})
      PROVE (IsTrue(Screen!Phase, r, {wanted[i] : i \in DOMAIN wanted}))'
    BY <1>0, <1>3 DEF RowsTrue
  <2>1. PICK phase \in Phases : phase = Screen!Phase BY ScreenFacts
  <2>2. PICK u \in Screen!PhaseUnits(phase), e \in {wanted[i] : i \in DOMAIN wanted} :
          HasRun(phase, u, e) /\ r = TruePair(phase, u, e)
    BY <2>1 DEF IsTrue
  <2>3. e \in 0..Epochs BY <1>0, ScreenFacts DEF Typed
  <2>4. HasRun(phase, u, e)' /\ TruePair(phase, u, e)' = TruePair(phase, u, e)
    BY <2>2, <2>3, PairKept
  <2> QED BY <1>3, <2>1, <2>2, <2>4 DEF IsTrue
<1> QED BY <1>5, <1>6

(* A step that leaves the evaluation alone, and no loss of a screening     *)
(* under way, keeps it true.                                               *)
LEMMA Stutters ==
    ASSUME CountInv, EpisodesKept, Screen!Loadable =>
           losses' = losses, published' \in 0..Epochs,
           losses' # Absent => losses' \in [1..Epochs -> Losses],
           UNCHANGED <<epochReceipt, summary, selection, heldout, Screen!invocation>>
    PROVE  CountInv'
<1>0. Typed /\ FilesTrue /\ Wanted /\ QueuesTrue /\ RowsTrue BY DEF CountInv
<1>1. Typed' BY <1>0 DEF Typed, EpisodesKept, Screen!invocation
<1>2. /\ Screen!Loadable => Screen!Loadable' /\ (SummaryTrue => SummaryTrue')
      /\ SelectionTrue => SelectionTrue' /\ Chosen' = Chosen
      /\ FilesTrue'
  BY <1>0, FilesKept
<1>3. mode' = mode /\ wanted' = wanted /\ Screen!Phase' = Screen!Phase /\ queue' = queue
      /\ rows' = rows
  BY DEF Screen!invocation, Screen!Phase
<1>4. Wanted' BY <1>0, <1>2, <1>3 DEF Wanted
<1>5. QueuesTrue' /\ RowsTrue' BY <1>0, <1>3, CountedKept
<1> QED BY <1>1, <1>2, <1>4, <1>5 DEF CountInv

(* An element of a sequence is in the set the sequence is over.            *)
LEMMA InSeq == ASSUME NEW S, NEW s \in Seq(S), NEW i \in DOMAIN s PROVE s[i] \in S
OBVIOUS

(* The training run may publish at any time.                               *)
LEMMA PublishKeeps == CountInv /\ (Screen!PublishCheckpoint \/ Screen!PublishSummary) =>
                      CountInv'
<1> SUFFICES ASSUME CountInv, Screen!PublishCheckpoint \/ Screen!PublishSummary
    PROVE CountInv'
  OBVIOUS
<1>1. UNCHANGED <<episode, epochReceipt, summary, selection, heldout, Screen!invocation>>
  BY DEF Screen!PublishCheckpoint, Screen!PublishSummary, Screen!files
<1>2. EpisodesKept BY <1>1 DEF EpisodesKept, CountInv, Typed
<1>3. Screen!Loadable => losses' = losses
  BY DEF Screen!PublishCheckpoint, Screen!PublishSummary, Screen!Loadable
<1>4. published' \in 0..Epochs /\ (losses' # Absent => losses' \in [1..Epochs -> Losses])
  BY ScreenFacts DEF Screen!PublishCheckpoint, Screen!PublishSummary, CountInv, Typed
<1> QED BY <1>1, <1>2, <1>3, <1>4, Stutters

(* An invocation starts with nothing counted.                              *)
LEMMA StartKeeps ==
    ASSUME CountInv, NEW subcommand, NEW epochs \in Seq(1..Epochs),
           Screen!Start(subcommand, epochs),
           subcommand \in {"screen_epoch", "screen", "heldout"},
           subcommand = "screen_epoch" => Len(epochs) = 1,
           subcommand = "screen" => Screen!Loadable /\ epochs = All,
           subcommand = "heldout" => SelectionTrue /\ epochs = <<Chosen>>
    PROVE  CountInv'
<1>0. Typed /\ FilesTrue BY DEF CountInv
<1>1. /\ UNCHANGED <<published, losses, episode, epochReceipt, summary, selection, heldout>>
      /\ mode' = subcommand /\ wanted' = epochs /\ queue' = Screen!Queues
      /\ rows' = [g \in 1..Gpus |-> {}]
  BY DEF Screen!Start, Screen!training, Screen!files
<1>2. EpisodesKept BY <1>0, <1>1 DEF EpisodesKept, Typed
<1>3. /\ Screen!Loadable => Screen!Loadable' /\ (SummaryTrue => SummaryTrue')
      /\ SelectionTrue => SelectionTrue' /\ Chosen' = Chosen
      /\ FilesTrue'
  BY <1>0, <1>1, <1>2, FilesKept
<1>4. queue' \in [1..Gpus -> [unit : Nat \ {0}, next : 0..Len(wanted')]]
  BY <1>1, ScreenFacts DEF Screen!Queues
<1>5. Typed' BY <1>0, <1>1, <1>4 DEF Typed
<1>6. Wanted' BY <1>1, <1>3 DEF Wanted, All
<1>7. QueuesTrue' BY <1>1 DEF QueuesTrue, Screen!Queues
<1>8. RowsTrue' BY <1>1 DEF RowsTrue
<1> QED BY <1>3, <1>5, <1>6, <1>7, <1>8 DEF CountInv

(* Every subcommand starts with empty rows and queues at their beginnings. *)
LEMMA StartsKeep ==
    ASSUME CountInv,
           (\E e \in 1..Epochs : Screen!StartScreenEpoch(e))
           \/ Screen!StartScreen \/ Screen!StartHeldout
    PROVE  CountInv'
<1>1. ASSUME NEW e \in 1..Epochs, Screen!StartScreenEpoch(e) PROVE CountInv'
  <2>0. <<e>> \in Seq(1..Epochs) /\ Len(<<e>>) = 1 OBVIOUS
  <2>1. PICK epochs \in Seq(1..Epochs) : epochs = <<e>> /\ Len(epochs) = 1 BY <2>0, Zenon
  <2>2. Screen!Start("screen_epoch", epochs) BY <1>1, <2>1 DEF Screen!StartScreenEpoch
  <2> QED BY <2>1, <2>2, StartKeeps
<1>2. CASE Screen!StartScreen
  <2>1. Screen!Loadable /\ Screen!Start("screen", All) BY <1>2 DEF Screen!StartScreen, All
  <2>2. PICK epochs \in Seq(1..Epochs) : epochs = All BY AllFacts
  <2>3. Screen!Start("screen", epochs) BY <2>1, <2>2
  <2> QED BY <2>1, <2>2, <2>3, StartKeeps
<1>3. CASE Screen!StartHeldout
  <2>1. SelectionTrue /\ selection.epoch = Chosen
    BY <1>3 DEF Screen!StartHeldout, CountInv, FilesTrue, SelectionTrue
  <2>2. Screen!Start("heldout", <<Chosen>>) BY <1>3, <2>1 DEF Screen!StartHeldout
  <2>3. <<Chosen>> \in Seq(1..Epochs) BY ChosenIn
  <2> QED BY <2>1, <2>2, <2>3, StartKeeps
<1> QED BY <1>1, <1>2, <1>3

(* An invocation that ends leaves nothing to the next one.                 *)
LEMMA IdleKeeps ==
    ASSUME CountInv, EpisodesKept, UNCHANGED <<published, losses>>, Screen!Idle, FilesTrue',
           DOMAIN epochReceipt' = 1..Epochs
    PROVE  CountInv'
<1>1. /\ mode' = "idle" /\ wanted' = <<>> /\ queue' = Screen!Queues
      /\ rows' = [g \in 1..Gpus |-> {}]
  BY DEF Screen!Idle
<1>2. queue' \in [1..Gpus -> [unit : Nat \ {0}, next : 0..Len(wanted')]]
  BY <1>1, ScreenFacts DEF Screen!Queues
<1>3. Typed' BY <1>1, <1>2 DEF CountInv, Typed, EpisodesKept
<1>4. Wanted' /\ RowsTrue' BY <1>1 DEF Wanted, RowsTrue
<1>5. QueuesTrue' BY <1>1 DEF QueuesTrue, Screen!Queues
<1> QED BY <1>3, <1>4, <1>5 DEF CountInv

(* A killed invocation leaves the files as they are.                       *)
LEMMA AbortKeeps == CountInv /\ Screen!Abort => CountInv'
<1> SUFFICES ASSUME CountInv, Screen!Abort PROVE CountInv' OBVIOUS
<1>1. UNCHANGED <<published, losses, episode, epochReceipt, summary, selection, heldout>>
      /\ Screen!Idle
  BY DEF Screen!Abort, Screen!training, Screen!files
<1>2. Typed /\ FilesTrue BY DEF CountInv
<1>3. EpisodesKept BY <1>1, <1>2 DEF EpisodesKept, Typed
<1>4. FilesTrue' BY <1>1, <1>2, <1>3, FilesKept
<1>5. DOMAIN epochReceipt' = 1..Epochs BY <1>1, <1>2 DEF Typed
<1> QED BY <1>1, <1>3, <1>4, <1>5, IdleKeeps

(* An episode: it is run once, and paired with the released one of its     *)
(* unit.                                                                   *)
LEMMA RunKeeps == ASSUME CountInv, NEW g \in 1..Gpus, Screen!RunEpisode(g) PROVE CountInv'
<1>0. Typed /\ FilesTrue /\ Wanted /\ QueuesTrue /\ RowsTrue BY DEF CountInv
<1> DEFINE q == queue[g]
<1>1. /\ mode # "idle" /\ q.unit \in Screen!PhaseUnits(Screen!Phase)
         /\ queue' = [queue EXCEPT ![g] = Screen!After(q)]
      /\ UNCHANGED <<published, losses, epochReceipt, summary, selection, heldout, mode,
         wanted>>
  BY DEF Screen!RunEpisode, Screen!training
<1>2. PICK phase \in Phases : phase = Screen!Phase BY ScreenFacts
<1>3. PICK u \in Screen!PhaseUnits(phase) : u = q.unit BY <1>1, <1>2
<1>4. /\ q.unit \in Nat \ {0} /\ q.next \in 0..Len(wanted) /\ Len(wanted) \in Nat
      /\ q = [unit |-> q.unit, next |-> q.next]
      /\ q.next # 0 => wanted[q.next] \in 1..Epochs
         /\ wanted[q.next] \in {wanted[i] : i \in DOMAIN wanted}
  <2>1. q \in [unit : Nat \ {0}, next : 0..Len(wanted)] BY <1>0 DEF Typed
  <2>2. wanted \in Seq(1..Epochs) BY <1>0 DEF Typed
  <2>3. Len(wanted) \in Nat /\ DOMAIN wanted = 1..Len(wanted) BY <2>2
  <2>4. q.next # 0 => q.next \in DOMAIN wanted BY <2>1, <2>3
  <2>5. ASSUME NEW i \in DOMAIN wanted PROVE wanted[i] \in 1..Epochs BY <2>2, InSeq
  <2> QED BY <2>1, <2>3, <2>4, <2>5
<1>5. PICK e \in 0..Epochs :
        /\ e = IF q.next = 0 THEN 0 ELSE wanted[q.next]
        /\ (e = 0 <=> q.next = 0) /\ (q.next # 0 => e \in {wanted[i] : i \in DOMAIN wanted})
  BY <1>4, ScreenFacts
<1> DEFINE slot == Place(phase, u, e)
<1>6. slot \in Screen!Slots /\ slot = <<Screen!Phase, q.unit, Screen!Condition(e)>>
  <2>1. phase = "heldout" <=> mode = "heldout" BY <1>2 DEF Screen!Phase, Screen!PhaseOf
  <2> QED BY <1>2, <1>3, <2>1, PlaceIn DEF Place, Screen!Condition
<1> HIDE DEF slot
<1>7. PICK o \in Screen!Run(slot) :
        /\ episode' = [episode EXCEPT ![slot] = o]
        /\ rows' = IF e = 0 THEN rows
                   ELSE [rows EXCEPT ![g] = @ \cup {Screen!Pair(u, e, episode[<<Screen!Phase,
                   u, 0>>], o)}]
  BY <1>3, <1>5, <1>6 DEF Screen!RunEpisode
<1>8. EpisodesKept /\ o \in Outcomes
  <2>1. episode \in [Screen!Slots -> Outcomes \cup {Absent}] BY <1>0 DEF Typed
  <2>2. o \in Outcomes /\ (episode[slot] # Absent => o = episode[slot])
    BY <1>6, <2>1 DEF Screen!Run
  <2> QED BY <1>6, <1>7, <2>1, <2>2 DEF EpisodesKept
<1>9. o # Absent /\ Disk(phase, u, e)' = o
  <2>1. o # Absent BY <1>8, ScreenConfigured DEF Screen!Configured
  <2>2. episode'[slot] = o BY <1>0, <1>6, <1>7 DEF Typed
  <2> QED BY <2>1, <2>2 DEF Disk, slot, Place
<1>10. /\ Screen!Loadable => Screen!Loadable' /\ (SummaryTrue => SummaryTrue')
       /\ SelectionTrue => SelectionTrue' /\ Chosen' = Chosen
       /\ FilesTrue'
  BY <1>0, <1>1, <1>8, FilesKept
<1>11. Screen!Phase' = Screen!Phase BY <1>1 DEF Screen!Phase
<1>12. Screen!After(q) \in [unit : Nat \ {0}, next : 0..Len(wanted)]
       /\ (Screen!After(q).next > 0 => Screen!After(q).unit = u)
  <2>1. Gpus \in Nat BY ScreenFacts
  <2>2. CASE q.next < Len(wanted)
    <3>1. Screen!After(q) = [unit |-> u, next |-> q.next + 1]
      BY <1>3, <1>4, <2>2 DEF Screen!After
    <3> QED BY <1>3, <1>4, <2>2, <3>1
  <2>3. CASE ~(q.next < Len(wanted))
    <3>1. Screen!After(q) = [unit |-> u + Gpus, next |-> 0] BY <1>3, <2>3 DEF Screen!After
    <3> QED BY <1>3, <1>4, <2>1, <3>1
  <2> QED BY <2>2, <2>3
<1>13. Typed'
  <2>1. queue' \in [1..Gpus -> [unit : Nat \ {0}, next : 0..Len(wanted')]]
    BY <1>0, <1>1, <1>12 DEF Typed
  <2>2. DOMAIN rows' = 1..Gpus BY <1>0, <1>7 DEF Typed
  <2> QED BY <1>0, <1>1, <1>8, <2>1, <2>2 DEF Typed, EpisodesKept
<1>14. Wanted' BY <1>0, <1>1, <1>10 DEF Wanted
<1>15. \A v \in Screen!PhaseUnits(phase) : Disk(phase, v, 0) # Absent =>
       Disk(phase, v, 0)' = Disk(phase, v, 0)
  BY <1>8, DiskKept, ScreenFacts
<1>16. q.next # 0 => Disk(phase, u, 0) # Absent
  BY <1>0, <1>2, <1>3, <1>4 DEF QueuesTrue, Disk
<1>17. QueuesTrue'
  <2> SUFFICES ASSUME NEW h \in 1..Gpus, queue'[h].next > 0
      PROVE \E v \in Screen!PhaseUnits(phase) : v = queue'[h].unit
      /\ Disk(phase, v, 0)' # Absent
    BY <1>2, <1>11 DEF QueuesTrue, Disk
  <2>1. CASE h # g
    <3>1. queue'[h] = queue[h] BY <1>0, <1>1, <2>1 DEF Typed
    <3>2. PICK v \in Screen!PhaseUnits(phase) : v = queue[h].unit /\ Disk(phase, v, 0) # Absent
      BY <1>0, <1>2, <3>1 DEF QueuesTrue, Disk
    <3> QED BY <1>15, <3>1, <3>2
  <2>2. CASE h = g
    <3>1. queue'[h] = Screen!After(q) BY <1>0, <1>1, <2>2 DEF Typed
    <3>2. queue'[h].unit = u BY <1>12, <3>1
    <3>3. CASE q.next = 0 BY <1>5, <1>9, <3>2, <3>3
    <3>4. CASE q.next # 0 BY <1>15, <1>16, <3>2, <3>4
    <3> QED BY <3>3, <3>4
  <2> QED BY <2>1, <2>2
<1>18. RowsTrue'
  <2> DEFINE W == {wanted[i] : i \in DOMAIN wanted}
  <2> SUFFICES ASSUME NEW h \in 1..Gpus, NEW r \in rows'[h] PROVE IsTrue(phase, r, W)'
    BY <1>1, <1>2, <1>11 DEF RowsTrue, IsTrue, HasRun, TruePair, Disk
  <2>0. W \subseteq 0..Epochs BY <1>0, ScreenFacts DEF Typed
  <2>1. CASE r \in rows[h]
    <3>1. PICK v \in Screen!PhaseUnits(phase), f \in W : HasRun(phase, v, f)
               /\ r = TruePair(phase, v, f)
      BY <1>0, <1>2, <2>1 DEF RowsTrue, IsTrue
    <3>2. HasRun(phase, v, f)' /\ TruePair(phase, v, f)' = TruePair(phase, v, f)
      BY <1>8, <2>0, <3>1, PairKept
    <3> QED BY <1>1, <3>1, <3>2 DEF IsTrue
  <2>2. CASE r \notin rows[h]
    <3>1. e # 0 /\ r = Screen!Pair(u, e, episode[<<Screen!Phase, u, 0>>], o)
      BY <1>0, <1>7, <2>2 DEF Typed
    <3>2. Disk(phase, u, 0) # Absent BY <1>5, <1>16, <3>1
    <3>3. Disk(phase, u, 0) = episode[<<Screen!Phase, u, 0>>] BY <1>2 DEF Disk, Place
    <3>4. Disk(phase, u, 0)' = Disk(phase, u, 0) BY <1>15, <3>2
    <3>5. HasRun(phase, u, e)' /\ r = TruePair(phase, u, e)'
      BY <1>9, <3>1, <3>2, <3>3, <3>4 DEF HasRun, TruePair
    <3>6. u \in Screen!PhaseUnits(phase) /\ e \in W BY <1>5, <3>1
    <3> QED BY <1>1, <3>5, <3>6 DEF IsTrue
  <2> QED BY <2>1, <2>2
<1> QED BY <1>10, <1>13, <1>14, <1>17, <1>18 DEF CountInv

(* A one-to-one image has as many elements as the set.                     *)
LEMMA ImageCard ==
    ASSUME NEW U, IsFiniteSet(U), NEW V, NEW F \in [U -> V], \A x, y \in U : F[x] = F[y] =>
           x = y
    PROVE  \A W : W = {F[x] : x \in U} => IsFiniteSet(W) /\ Cardinality(W) = Cardinality(U)
<1> DEFINE T == {F[x] : x \in U}
<1>0. F \in [U -> T] /\ \A t \in T : \E x \in U : F[x] = t OBVIOUS
<1> HIDE DEF T
<1>1. F \in Injection(U, T) BY <1>0 DEF Injection, IsInjective
<1>3. F \in Surjection(U, T) BY <1>0 DEF Surjection
<1>4. F \in Bijection(U, T) BY <1>1, <1>3 DEF Bijection
<1>2. ExistsBijection(U, T) BY <1>4 DEF ExistsBijection
<1> QED BY <1>2, FS_Bijection DEF T

(* There are finitely many units.                                          *)
LEMMA UnitsFinite == \A phase \in Phases : IsFiniteSet(Screen!PhaseUnits(phase))
BY ScreenFacts, FS_Interval DEF Screen!PhaseUnits

(* An epoch has one pair of each unit.                                     *)
LEMMA TruthFacts ==
    ASSUME NEW phase \in Phases, NEW e
    PROVE  /\ IsFiniteSet(Truth(phase, e))
           /\ Cardinality(Truth(phase, e)) = Cardinality(Screen!PhaseUnits(phase))
           /\ \A u \in Screen!PhaseUnits(phase) : TruePair(phase, u, e).unit = u
              /\ TruePair(phase, u, e).epoch = e
<1> DEFINE F == [u \in Screen!PhaseUnits(phase) |-> TruePair(phase, u, e)]
<1>1. \A u \in Screen!PhaseUnits(phase) : TruePair(phase, u, e).unit = u
      /\ TruePair(phase, u, e).epoch = e
  BY DEF TruePair, Screen!Pair, Screen!PairOf
<1>2. \A u, v \in Screen!PhaseUnits(phase) : F[u] = F[v] => u = v BY <1>1
<1>3. F \in [Screen!PhaseUnits(phase) -> Truth(phase, e)] BY DEF Truth
<1>4. Truth(phase, e) = {F[u] : u \in Screen!PhaseUnits(phase)} BY DEF Truth
<1> HIDE DEF F
<1>5. IsFiniteSet(Screen!PhaseUnits(phase)) BY UnitsFinite
<1> DEFINE U == Screen!PhaseUnits(phase)  V == Truth(phase, e)
<1>7. F \in [U -> V] /\ IsFiniteSet(U) /\ \A x, y \in U : F[x] = F[y] => x = y
  BY <1>2, <1>3, <1>5
<1> HIDE DEF U, V
<1>9. \A W : W = {F[x] : x \in U} => IsFiniteSet(W) /\ Cardinality(W) = Cardinality(U)
  BY <1>7, ImageCard
<1>8. IsFiniteSet({F[x] : x \in U}) /\ Cardinality({F[x] : x \in U}) = Cardinality(U)
  BY <1>9
<1>6. /\ IsFiniteSet({F[u] : u \in Screen!PhaseUnits(phase)})
      /\ Cardinality({F[u] : u \in Screen!PhaseUnits(phase)})
         = Cardinality(Screen!PhaseUnits(phase))
  BY <1>8 DEF U
<1> QED BY <1>1, <1>4, <1>6

(* As many pairs of a candidate as units are its pairs of all units, all   *)
(* true.                                                                   *)
LEMMA WholeTruth ==
    ASSUME CountInv, Screen!AllPairs, NEW i \in DOMAIN wanted
    PROVE  /\ Complete(Screen!Phase, wanted[i])
           /\ Screen!RowsOf(wanted[i]) = Truth(Screen!Phase, wanted[i])
<1>1. PICK phase \in Phases : phase = Screen!Phase BY ScreenFacts
<1> DEFINE e == wanted[i]  R == Screen!RowsOf(e)  T == Truth(phase, e)
<1>2. \A r \in R : \E u \in Screen!PhaseUnits(phase) : HasRun(phase, u, e)
      /\ r = TruePair(phase, u, e)
  <2> SUFFICES ASSUME NEW r \in R
      PROVE \E u \in Screen!PhaseUnits(phase) : HasRun(phase, u, e) /\ r = TruePair(phase, u, e)
    OBVIOUS
  <2>1. r.epoch = e /\ \E g \in 1..Gpus : r \in rows[g] BY DEF Screen!RowsOf, Screen!Rows
  <2>2. IsTrue(phase, r, {wanted[j] : j \in DOMAIN wanted})
    BY <1>1, <2>1 DEF CountInv, RowsTrue
  <2>3. PICK u \in Screen!PhaseUnits(phase), f \in {wanted[j] : j \in DOMAIN wanted} :
          HasRun(phase, u, f) /\ r = TruePair(phase, u, f)
    BY <2>2 DEF IsTrue
  <2>4. r.epoch = f BY <2>3, TruthFacts
  <2> QED BY <2>1, <2>3, <2>4
<1>3. R \subseteq T BY <1>2 DEF Truth
<1>4. Cardinality(R) = Cardinality(Screen!PhaseUnits(phase))
  BY ScreenCardinality, <1>1 DEF Screen!AllPairs
<1>5. IsFiniteSet(T) /\ Cardinality(T) = Cardinality(Screen!PhaseUnits(phase)) BY TruthFacts
<1> HIDE DEF R, T
<1>6. R = T BY <1>3, <1>4, <1>5, FS_Subset
<1>7. \A u \in Screen!PhaseUnits(phase) : HasRun(phase, u, e)
  <2> SUFFICES ASSUME NEW u \in Screen!PhaseUnits(phase) PROVE HasRun(phase, u, e) OBVIOUS
  <2>1. TruePair(phase, u, e) \in R BY <1>6 DEF T, Truth
  <2>2. PICK v \in Screen!PhaseUnits(phase) : HasRun(phase, v, e)
             /\ TruePair(phase, u, e) = TruePair(phase, v, e)
    BY <1>2, <2>1
  <2>3. u = v BY <2>2, TruthFacts
  <2> QED BY <2>2, <2>3
<1> QED BY <1>1, <1>6, <1>7 DEF Complete, R, T

(* Of a single candidate they are all there is.                            *)
LEMMA SingleRows ==
    ASSUME CountInv, Screen!AllPairs, Len(wanted) = 1
    PROVE  /\ wanted[1] \in 1..Epochs /\ Complete(Screen!Phase, wanted[1])
           /\ Screen!Rows = Truth(Screen!Phase, wanted[1])
<1>1. wanted \in Seq(1..Epochs) BY DEF CountInv, Typed
<1>2. DOMAIN wanted = {1} BY <1>1
<1>3. wanted[1] \in 1..Epochs BY <1>1, <1>2, InSeq
<1>4. \A r \in Screen!Rows : r.epoch = wanted[1]
  <2> SUFFICES ASSUME NEW g \in 1..Gpus, NEW r \in rows[g] PROVE r.epoch = wanted[1]
    BY DEF Screen!Rows
  <2>1. PICK u \in Screen!PhaseUnits(Screen!Phase), f \in {wanted[j] : j \in DOMAIN wanted} :
             r = TruePair(Screen!Phase, u, f)
    BY DEF CountInv, RowsTrue, IsTrue
  <2>2. f = wanted[1] BY <1>2, <2>1
  <2>3. r.epoch = f BY <2>1 DEF TruePair, Screen!Pair, Screen!PairOf
  <2> QED BY <2>2, <2>3
<1>5. Screen!Rows = Screen!RowsOf(wanted[1]) BY <1>4 DEF Screen!RowsOf
<1> QED BY <1>2, <1>3, <1>5, WholeTruth

(* What the episodes say changes only when an episode, or a loss, does.    *)
LEMMA SameEpisodes ==
    ASSUME episode' = episode, losses' = losses
    PROVE  /\ \A phase, e : Truth(phase, e)' = Truth(phase, e)
              /\ Complete(phase, e)' = Complete(phase, e)
           /\ Buckets' = Buckets /\ Chosen' = Chosen /\ Screened' = Screened
<1>1. \A phase, u, e : TruePair(phase, u, e)' = TruePair(phase, u, e)
      /\ HasRun(phase, u, e)' = HasRun(phase, u, e)
  BY DEF TruePair, HasRun, Disk
<1>2. \A phase, e : Truth(phase, e)' = Truth(phase, e)
      /\ Complete(phase, e)' = Complete(phase, e)
  BY <1>1 DEF Truth, Complete
<1>3. Buckets' = Buckets BY <1>2 DEF Buckets
<1> QED BY <1>2, <1>3 DEF Chosen, Screened, Screen!Loadable

(* screen_epoch writes the true counts of its epoch.                       *)
LEMMA EpochKeeps == CountInv /\ Screen!CommitEpoch => CountInv'
<1> SUFFICES ASSUME CountInv, Screen!CommitEpoch PROVE CountInv' OBVIOUS
<1>0. Typed /\ FilesTrue /\ Wanted BY DEF CountInv
<1>1. /\ mode = "screen_epoch" /\ Screen!AllPairs
         /\ epochReceipt' = [epochReceipt EXCEPT ![wanted[1]] = Screen!Bucket(Screen!Rows)]
      /\ UNCHANGED <<published, losses, episode, summary, selection, heldout>> /\ Screen!Idle
  BY DEF Screen!CommitEpoch, Screen!Return, Screen!training
<1>2. EpisodesKept BY <1>0, <1>1 DEF EpisodesKept, Typed
<1>3. /\ wanted[1] \in 1..Epochs /\ Complete("screening", wanted[1])
      /\ Screen!Rows = Truth("screening", wanted[1])
  BY <1>0, <1>1, SingleRows DEF Wanted, Screen!Phase, Screen!PhaseOf
<1>4. DOMAIN epochReceipt' = 1..Epochs BY <1>0, <1>1 DEF Typed
<1>5. \A e \in 1..Epochs : epochReceipt'[e] # Absent =>
        Complete("screening", e)' /\ epochReceipt'[e] = Screen!Bucket(Truth("screening", e))'
  <2> SUFFICES ASSUME NEW e \in 1..Epochs, epochReceipt'[e] # Absent
      PROVE Complete("screening", e)'
      /\ epochReceipt'[e] = Screen!Bucket(Truth("screening", e))'
    OBVIOUS
  <2>1. Complete("screening", e) /\ epochReceipt'[e] = Screen!Bucket(Truth("screening", e))
    BY <1>0, <1>1, <1>3 DEF FilesTrue, Typed
  <2> QED BY <1>1, <2>1, SameEpisodes
<1>6. FilesTrue'
  <2>1. SummaryTrue' = SummaryTrue /\ SelectionTrue' = SelectionTrue
    BY <1>1, SameEpisodes DEF SummaryTrue, SelectionTrue
  <2>2. HeldoutTrue' = HeldoutTrue BY <1>1, <2>1, SameEpisodes DEF HeldoutTrue
  <2> QED BY <1>0, <1>1, <1>5, <2>1, <2>2 DEF FilesTrue
<1> QED BY <1>1, <1>2, <1>4, <1>6, IdleKeeps

(* screen writes the true counts of every epoch, and the candidate they    *)
(* choose.                                                                 *)
LEMMA SummaryKeeps == CountInv /\ Screen!CommitSummary => CountInv'
<1> SUFFICES ASSUME CountInv, Screen!CommitSummary PROVE CountInv' OBVIOUS
<1>0. Typed /\ FilesTrue /\ Wanted /\ QueuesTrue /\ RowsTrue BY DEF CountInv
<1>1. /\ mode = "screen" /\ Screen!AllPairs /\ mode' = "screened"
      /\ summary' = [bucket |-> [e \in 1..Epochs |-> Screen!Bucket(Screen!RowsOf(e))],
                     epoch |-> Screen!Best(wanted,
                     [e \in 1..Epochs |-> Screen!Bucket(Screen!RowsOf(e))], losses)]
      /\ UNCHANGED <<published, losses, episode, epochReceipt, selection, heldout, wanted,
         queue, rows>>
  BY DEF Screen!CommitSummary, Screen!training
<1>2. EpisodesKept BY <1>0, <1>1 DEF EpisodesKept, Typed
<1>3. wanted = All /\ Screen!Loadable /\ Screen!Phase = "screening"
      /\ Screen!Phase' = Screen!Phase
  BY <1>0, <1>1 DEF Wanted, Screen!Phase, Screen!PhaseOf
<1>4. \A e \in 1..Epochs : Complete("screening", e) /\ Screen!RowsOf(e) = Truth("screening", e)
  <2> SUFFICES ASSUME NEW e \in 1..Epochs
      PROVE Complete("screening", e) /\ Screen!RowsOf(e) = Truth("screening", e)
    OBVIOUS
  <2>1. e \in DOMAIN wanted /\ wanted[e] = e BY <1>3 DEF All
  <2> QED BY <1>1, <1>3, <2>1, WholeTruth
<1>5. [e \in 1..Epochs |-> Screen!Bucket(Screen!RowsOf(e))] = Buckets BY <1>4 DEF Buckets
<1>6. SummaryTrue' /\ Screen!Loadable'
  <2>1. Screened BY <1>3, <1>4 DEF Screened
  <2>2. summary' = [bucket |-> Buckets, epoch |-> Chosen] BY <1>1, <1>3, <1>5 DEF Chosen
  <2>3. losses' = losses /\ episode' = episode BY <1>1
  <2>4. Screen!Loadable' BY <1>3, <2>3 DEF Screen!Loadable
  <2> QED BY <2>1, <2>2, <2>3, <2>4, SameEpisodes DEF SummaryTrue
<1>7. FilesTrue'
  <2>1. \A e \in 1..Epochs : epochReceipt'[e] # Absent =>
          Complete("screening", e)' /\ epochReceipt'[e] = Screen!Bucket(Truth("screening", e))'
    BY <1>0, <1>1, SameEpisodes DEF FilesTrue
  <2>2. SelectionTrue' = SelectionTrue BY <1>1, SameEpisodes DEF SelectionTrue
  <2>3. HeldoutTrue' = HeldoutTrue BY <1>1, <2>2, SameEpisodes DEF HeldoutTrue
  <2> QED BY <1>0, <1>1, <1>6, <2>1, <2>2, <2>3 DEF FilesTrue
<1>8. Typed' BY <1>0, <1>1 DEF Typed
<1>9. Wanted' BY <1>1, <1>3, <1>6 DEF Wanted, All
<1>10. QueuesTrue' /\ RowsTrue' BY <1>0, <1>1, <1>2, <1>3, CountedKept
<1> QED BY <1>7, <1>8, <1>9, <1>10 DEF CountInv

(* The selection is written from that summary, with no episode run in      *)
(* between.                                                                *)
LEMMA SelectionKeeps == CountInv /\ Screen!CommitSelection => CountInv'
<1> SUFFICES ASSUME CountInv, Screen!CommitSelection PROVE CountInv' OBVIOUS
<1>0. Typed /\ FilesTrue /\ Wanted BY DEF CountInv
<1>1. /\ mode = "screened"
         /\ UNCHANGED <<published, losses, episode, epochReceipt, summary, heldout>>
            /\ Screen!Idle
      /\ selection' = [epoch |-> summary.epoch,
                       key |-> Screen!SelectionKey(summary.epoch, summary.bucket[summary.epoch],
                                           losses[summary.epoch])]
  BY DEF Screen!CommitSelection, Screen!Return, Screen!training
<1>2. EpisodesKept BY <1>0, <1>1 DEF EpisodesKept, Typed
<1>3. SummaryTrue BY <1>0, <1>1 DEF Wanted
<1>4. SelectionTrue' BY <1>1, <1>3, SameEpisodes DEF SummaryTrue, SelectionTrue
<1>5. FilesTrue'
  <2>1. \A e \in 1..Epochs : epochReceipt'[e] # Absent =>
          Complete("screening", e)' /\ epochReceipt'[e] = Screen!Bucket(Truth("screening", e))'
    BY <1>0, <1>1, SameEpisodes DEF FilesTrue
  <2>2. SummaryTrue' BY <1>1, <1>3, SameEpisodes DEF SummaryTrue
  <2>3. heldout' # Absent => HeldoutTrue'
    BY <1>0, <1>1, <1>4, SameEpisodes DEF FilesTrue, HeldoutTrue
  <2> QED BY <1>4, <2>1, <2>2, <2>3 DEF FilesTrue
<1>6. DOMAIN epochReceipt' = 1..Epochs BY <1>0, <1>1 DEF Typed
<1> QED BY <1>1, <1>2, <1>5, <1>6, IdleKeeps

(* The banks are numbered from one, each with as many units as seeds.      *)
LEMMA Deals ==
    ASSUME NEW s \in Nat \ {0}, NEW a \in Nat
    PROVE  /\ a \div s \in Nat /\ a % s \in 0..(s - 1) /\ a = s * (a \div s) + (a % s)
OBVIOUS

(* The bank of a unit is one of the banks ...                              *)
LEMMA DivUp ==
    ASSUME NEW s \in Nat \ {0}, NEW b \in Nat \ {0}, NEW u \in 1..(b * s)
    PROVE  ((u - 1) \div s) + 1 \in 1..b
<1> DEFINE q == (u - 1) \div s  r == (u - 1) % s
<1>0. b * s \in Nat OBVIOUS
<1>4. PICK a \in Nat : a = u - 1 BY <1>0
<1>5. q \in Nat /\ r \in 0..(s - 1) /\ a = s * q + r BY <1>4, Deals
<1> HIDE DEF q, r
<1>1. q \in Nat /\ r \in 0..(s - 1) /\ u - 1 = s * q + r BY <1>4, <1>5
<1>2. ASSUME q >= b PROVE FALSE
  <2>1. s * q >= s * b BY <1>1, <1>2
  <2>2. s * b = b * s BY <1>0
  <2> QED BY <1>0, <1>1, <2>1, <2>2
<1>3. q + 1 \in 1..b BY <1>1, <1>2
<1> QED BY <1>3 DEF q

(* ... and every bank has a unit.                                          *)
LEMMA DivOnto ==
    ASSUME NEW s \in Nat \ {0}, NEW b \in Nat \ {0}, NEW k \in 1..b
    PROVE  \E u \in 1..(b * s) : ((u - 1) \div s) + 1 = k
<1>0. b * s \in Nat /\ (k - 1) * s \in Nat OBVIOUS
<1>1. PICK a \in Nat : a = (k - 1) * s BY <1>0
<1>2. a + s <= b * s
  <2>1. (k - 1) * s + s = k * s OBVIOUS
  <2>2. k * s <= b * s OBVIOUS
  <2> QED BY <1>1, <2>1, <2>2
<1>3. a + 1 \in 1..(b * s) BY <1>0, <1>1, <1>2
<1>4. a \div s = k - 1
  <2> DEFINE q == a \div s  r == a % s
  <2>1. q \in Nat /\ r \in 0..(s - 1) /\ a = s * q + r BY Deals
  <2> HIDE DEF q, r
  <2>2. PICK m \in Nat : m = k - 1 OBVIOUS
  <2>3. s * m = s * q + r BY <1>1, <2>1, <2>2
  <2>4. ~ (m > q)
    <3>1. ASSUME m > q PROVE s * m >= s * q + s
      <4>1. PICK d \in Nat : m = q + 1 + d BY <2>1, <2>2, <3>1, m - q - 1 \in Nat
      <4>2. s * m = s * q + s + s * d BY <2>1, <4>1
      <4>3. s * d \in Nat /\ s * q \in Nat BY <2>1
      <4> QED BY <4>2, <4>3
    <3>2. s * q \in Nat BY <2>1
    <3> QED BY <2>1, <2>3, <3>1, <3>2
  <2>5. ~ (m < q)
    <3>1. ASSUME m < q PROVE s * q >= s * m + s
      <4>1. PICK d \in Nat : q = m + 1 + d BY <2>1, <2>2, <3>1, q - m - 1 \in Nat
      <4>2. s * q = s * m + s + s * d BY <2>1, <4>1
      <4>3. s * d \in Nat /\ s * m \in Nat BY <2>1
      <4> QED BY <4>2, <4>3
    <3>2. s * m \in Nat /\ s * q \in Nat BY <2>1
    <3> QED BY <2>1, <2>3, <3>1, <3>2
  <2> QED BY <2>1, <2>2, <2>4, <2>5 DEF q
<1>5. PICK u \in 1..(b * s) : u = a + 1 BY <1>3
<1>6. u - 1 = a BY <1>5
<1>7. ((u - 1) \div s) + 1 = k BY <1>4, <1>6
<1> QED BY <1>7

(* So the banks that rows are grouped by are all the banks.                *)
LEMMA BanksAre == {Screen!Bank("heldout", u) : u \in Screen!PhaseUnits("heldout")}
                  = 1..Banks["heldout"]
<1>1. Banks["heldout"] \in Nat \ {0} /\ Seeds["heldout"] \in Nat \ {0} BY ScreenFacts DEF Phases
<1>2. \A u \in Screen!PhaseUnits("heldout") : Screen!Bank("heldout", u) \in 1..Banks["heldout"]
  BY <1>1, DivUp DEF Screen!Bank, Screen!PhaseUnits
<1>3. \A k \in 1..Banks["heldout"] : \E u \in Screen!PhaseUnits("heldout") :
      Screen!Bank("heldout", u) = k
  BY <1>1, DivOnto DEF Screen!Bank, Screen!PhaseUnits
<1> QED BY <1>2, <1>3

(* heldout writes the true counts of the chosen epoch, of all units and    *)
(* bank by bank.                                                           *)
LEMMA HeldoutKeeps == CountInv /\ Screen!CommitHeldout => CountInv'
<1> SUFFICES ASSUME CountInv, Screen!CommitHeldout PROVE CountInv' OBVIOUS
<1>0. Typed /\ FilesTrue /\ Wanted BY DEF CountInv
<1>1. /\ mode = "heldout" /\ Screen!AllPairs
         /\ UNCHANGED <<published, losses, episode, epochReceipt, summary, selection>>
      /\ Screen!Idle
      /\ heldout' = [epoch |-> wanted[1], all |-> Screen!Bucket(Screen!Rows),
                     byBank |-> [b \in {Screen!Bank("heldout",
                     r.unit) : r \in Screen!Rows} |-> Screen!Bucket(Screen!BankRows(b))]]
  BY DEF Screen!CommitHeldout, Screen!Return, Screen!training
<1>2. EpisodesKept BY <1>0, <1>1 DEF EpisodesKept, Typed
<1>3. SelectionTrue /\ wanted = <<Chosen>> BY <1>0, <1>1 DEF Wanted
<1>4. Len(wanted) = 1 /\ wanted[1] = Chosen BY <1>3
<1>5. Complete("heldout", Chosen) /\ Screen!Rows = Truth("heldout", Chosen)
  BY <1>1, <1>4, SingleRows DEF Screen!Phase, Screen!PhaseOf
<1>6. {Screen!Bank("heldout", r.unit) : r \in Screen!Rows} = 1..Banks["heldout"]
  <2>1. \A u \in Screen!PhaseUnits("heldout") : TruePair("heldout", u, Chosen).unit = u
    BY TruthFacts DEF Phases
  <2>2. {Screen!Bank("heldout", r.unit) : r \in Screen!Rows}
        = {Screen!Bank("heldout", u) : u \in Screen!PhaseUnits("heldout")}
    BY <1>5, <2>1 DEF Truth
  <2> QED BY <2>2, BanksAre
<1>7. heldout' = [epoch |-> Chosen, all |-> Screen!Bucket(Truth("heldout", Chosen)),
                  byBank |-> [b \in 1..Banks["heldout"] |->
                                Screen!Bucket({r \in Truth("heldout",
                                Chosen) : Screen!Bank("heldout", r.unit) = b})]]
  BY <1>1, <1>4, <1>5, <1>6 DEF Screen!BankRows
<1>8. SelectionTrue' BY <1>1, <1>3, SameEpisodes DEF SelectionTrue
<1>9. HeldoutTrue'
  <2>1. Complete("heldout", Chosen)' BY <1>1, <1>5, SameEpisodes
  <2>2. Truth("heldout", Chosen)' = Truth("heldout", Chosen) /\ Chosen' = Chosen
    BY <1>1, SameEpisodes
  <2> QED BY <1>7, <1>8, <2>1, <2>2 DEF HeldoutTrue
<1>10. FilesTrue'
  <2>1. \A e \in 1..Epochs : epochReceipt'[e] # Absent =>
          Complete("screening", e)' /\ epochReceipt'[e] = Screen!Bucket(Truth("screening", e))'
    BY <1>0, <1>1, SameEpisodes DEF FilesTrue
  <2>2. SummaryTrue' = SummaryTrue BY <1>1, SameEpisodes DEF SummaryTrue
  <2> QED BY <1>0, <1>1, <1>8, <1>9, <2>1, <2>2 DEF FilesTrue
<1>11. DOMAIN epochReceipt' = 1..Epochs BY <1>0, <1>1 DEF Typed
<1> QED BY <1>1, <1>2, <1>10, <1>11, IdleKeeps

(* Every step keeps files, queues and rows true to the episodes.           *)
LEMMA CountNext == CountInv /\ [Screen!Next]_(Screen!vars) => CountInv'
<1> SUFFICES ASSUME CountInv, [Screen!Next]_(Screen!vars) PROVE CountInv' OBVIOUS
<1>1. ASSUME UNCHANGED Screen!vars PROVE CountInv'
  <2>1. /\ UNCHANGED <<published, losses, episode, epochReceipt, summary, selection, heldout>>
        /\ UNCHANGED Screen!invocation
    BY <1>1 DEF Screen!vars, Screen!training, Screen!files
  <2>2. EpisodesKept BY <2>1 DEF EpisodesKept, CountInv, Typed
  <2>3. published' \in 0..Epochs /\ (losses' # Absent => losses' \in [1..Epochs -> Losses])
    BY <2>1 DEF CountInv, Typed
  <2> QED BY <2>1, <2>2, <2>3, Stutters
<1> QED
  BY <1>1, PublishKeeps, StartsKeep, RunKeeps, EpochKeeps, SummaryKeeps, SelectionKeeps,
     HeldoutKeeps, AbortKeeps
  DEF Screen!Next, Screen!Commit


(* The sum of a finite function is an integer, and its last partial sum.   *)
LEMMA SumIs ==
    ASSUME NEW S, IsFiniteSet(S), NEW f \in [S -> Int]
    PROVE  /\ SumFunction(f) = Iter(f, S)[S]
           /\ SumFunction(f) \in Int
<1>1. DOMAIN f = S OBVIOUS
<1>2. SumFunction(f) = Iter(f, S)[S] BY <1>1, SumDef DEF SumFunction
<1> DEFINE i == Iter(f, S)
<1>3. i \in [SUBSET S -> Int] BY IterIs
<1> HIDE DEF i
<1>4. i[S] \in Int BY <1>3
<1> QED BY <1>2, <1>4 DEF i

(* The sum over a part, and one element more.                              *)
Part(f, S, T) == Iter(f, S)[T]

PartFacts(f, S) ==
    /\ Part(f, S, {}) = 0
    /\ Part(f, S, S) = SumFunction(f)
    /\ \A T \in SUBSET S :
         /\ Part(f, S, T) \in Int
         /\ SumFunction([x \in T |-> f[x]]) = Part(f, S, T)
         /\ \A x \in S \ T : Part(f, S, T \cup {x}) = f[x] + Part(f, S, T)

(* Partial sums start at zero and grow by the element that is added.       *)
LEMMA PartIs == ASSUME NEW S, IsFiniteSet(S), NEW f \in [S -> Int] PROVE PartFacts(f, S)
<1> DEFINE i == Iter(f, S)
<1>1. i \in [SUBSET S -> Int] /\ \A s \in SUBSET S : i[s] = Step(f, i, s) BY IterIs
<1>2. \A T \in SUBSET S : SumFunction([x \in T |-> f[x]]) = i[T]
  <2> SUFFICES ASSUME NEW T \in SUBSET S PROVE SumFunction([x \in T |-> f[x]]) = i[T] OBVIOUS
  <2>1. PICK g \in [T -> Int] : g = [x \in T |-> f[x]] OBVIOUS
  <2>2. \A x \in T : g[x] = f[x] BY <2>1
  <2>3. SumFunctionOnSet(g, T) = i[T] BY <2>2, SumOn
  <2>4. DOMAIN g = T OBVIOUS
  <2> QED BY <2>1, <2>3, <2>4 DEF SumFunction
<1>3. \A T \in SUBSET S : \A x \in S \ T : i[T \cup {x}] = f[x] + i[T] BY IterAdd
<1>4. SumFunction(f) = i[S] BY SumIs
<1> HIDE DEF i
<1>5. i[{}] = 0 BY <1>1 DEF Step
<1>6. \A T \in SUBSET S : i[T] \in Int BY <1>1
<1> QED BY <1>2, <1>3, <1>4, <1>5, <1>6 DEF Part, PartFacts, i

(* The number of elements of which something holds, as a sum.              *)
Indicator(S, G) == [x \in S |-> IF x \in G THEN 1 ELSE 0]

(* Counting the elements of a set is adding up ones ...                    *)
LEMMA CountOf ==
    ASSUME NEW S, IsFiniteSet(S), NEW G, NEW part \in SUBSET S
    PROVE  Cardinality(part \cap G) = Part(Indicator(S, G), S, part)
<1> DEFINE f == Indicator(S, G)
           Good == {T \in SUBSET S : Cardinality(T \cap G) = Part(f, S, T)}
<1>1. f \in [S -> Int] /\ \A x \in S : f[x] = IF x \in G THEN 1 ELSE 0 BY DEF Indicator
<1> HIDE DEF f
<1>2. /\ Part(f, S, {}) = 0
      /\ \A T \in SUBSET S : /\ Part(f, S, T) \in Int
                             /\ \A x \in S \ T : Part(f, S, T \cup {x}) = f[x] + Part(f, S, T)
  <2>1. PartFacts(f, S) BY <1>1, PartIs
  <2> QED BY <2>1 DEF PartFacts
<1>3. \A T \in SUBSET S : IsFiniteSet(T \cap G) /\ Cardinality(T \cap G) \in Nat
  <2> SUFFICES ASSUME NEW T \in SUBSET S
      PROVE IsFiniteSet(T \cap G) /\ Cardinality(T \cap G) \in Nat
    OBVIOUS
  <2>1. (T \cap G) \in SUBSET S OBVIOUS
  <2>2. IsFiniteSet(T \cap G) BY <2>1, FS_Subset
  <2> QED BY <2>2, FS_CardinalityType
<1>4. {} \in Good
  <2>1. {} \cap G = {} OBVIOUS
  <2>2. Cardinality({} \cap G) = 0 BY <2>1, FS_EmptySet
  <2> QED BY <1>2, <2>2
<1>5. ASSUME NEW T \in SUBSET S, NEW y \in S \ T, T \in Good PROVE T \cup {y} \in Good
  <2>1. Part(f, S, T \cup {y}) = f[y] + Part(f, S, T) BY <1>2
  <2>2. Cardinality(T \cap G) = Part(f, S, T) BY <1>5
  <2> DEFINE A == (T \cap G)  B == (T \cup {y}) \cap G
  <2>3. IsFiniteSet(A) /\ Cardinality(A) \in Nat BY <1>3
  <2>4. CASE y \in G
    <3>1. B = A \cup {y} /\ y \notin A BY <2>4, <1>5
    <3> HIDE DEF A, B
    <3>2. Cardinality(A \cup {y}) = Cardinality(A) + 1 BY <2>3, <3>1, FS_AddElement
    <3>3. f[y] = 1 BY <1>1, <2>4
    <3>4. Cardinality(B) = Part(f, S, T \cup {y}) BY <2>1, <2>2, <2>3, <3>1, <3>2, <3>3 DEF A
    <3> QED BY <3>4 DEF B
  <2>5. CASE y \notin G
    <3>1. B = A BY <2>5
    <3> HIDE DEF A, B
    <3>3. f[y] = 0 BY <1>1, <2>5
    <3>4. Cardinality(B) = Part(f, S, T \cup {y}) BY <2>1, <2>2, <2>3, <3>1, <3>3 DEF A
    <3> QED BY <3>4 DEF B
  <2> QED BY <2>4, <2>5
<1> HIDE DEF Good
<1>6. \A T \in SUBSET S : T \in Good BY <1>4, <1>5, SetInduct
<1> QED BY <1>6 DEF Good, f

(* ... also for the whole set.                                             *)
LEMMA CountIsSum ==
    ASSUME NEW S, IsFiniteSet(S), NEW G
    PROVE  Indicator(S, G) \in [S -> Int]
           /\ Cardinality(S \cap G) = SumFunction(Indicator(S, G))
<1>1. PICK f : f = Indicator(S, G) OBVIOUS
<1>2. f \in [S -> Int] BY <1>1 DEF Indicator
<1>3. Part(f, S, S) = SumFunction(f) BY <1>2, PartIs DEF PartFacts
<1>4. Cardinality(S \cap G) = Part(f, S, S) BY <1>1, CountOf
<1> QED BY <1>1, <1>2, <1>3, <1>4

(* Sums of functions that are equal, or differ by a third.                 *)
LEMMA SumMinus ==
    ASSUME NEW S, IsFiniteSet(S), NEW f \in [S -> Int], NEW g \in [S -> Int],
           NEW h \in [S -> Int],
           \A x \in S : f[x] = g[x] - h[x]
    PROVE  SumFunction(f) = SumFunction(g) - SumFunction(h)
<1> DEFINE Good == {T \in SUBSET S : Part(f, S, T) = Part(g, S, T) - Part(h, S, T)}
<1>1. /\ \A T \in SUBSET S : Part(f, S, T) \in Int /\ Part(g, S, T) \in Int
         /\ Part(h, S, T) \in Int
      /\ \A T \in SUBSET S : \A x \in S \ T :
            /\ Part(f, S, T \cup {x}) = f[x] + Part(f, S, T)
            /\ Part(g, S, T \cup {x}) = g[x] + Part(g, S, T)
            /\ Part(h, S, T \cup {x}) = h[x] + Part(h, S, T)
      /\ Part(f, S, {}) = 0 /\ Part(g, S, {}) = 0 /\ Part(h, S, {}) = 0
      /\ Part(f, S, S) = SumFunction(f) /\ Part(g, S, S) = SumFunction(g)
         /\ Part(h, S, S) = SumFunction(h)
  <2>1. PartFacts(f, S) /\ PartFacts(g, S) /\ PartFacts(h, S) BY PartIs
  <2> QED BY <2>1 DEF PartFacts
<1>2. {} \in Good BY <1>1
<1>3. ASSUME NEW T \in SUBSET S, NEW x \in S \ T, T \in Good PROVE T \cup {x} \in Good
  <2>1. f[x] \in Int /\ g[x] \in Int /\ h[x] \in Int /\ f[x] = g[x] - h[x] OBVIOUS
  <2>2. Part(f, S, T) = Part(g, S, T) - Part(h, S, T) BY <1>3
  <2>3. Part(f, S, T \cup {x}) = Part(g, S, T \cup {x}) - Part(h, S, T \cup {x})
    BY <1>1, <2>1, <2>2
  <2> QED BY <2>3
<1> HIDE DEF Good
<1>4. S \in Good BY <1>2, <1>3, SetInduct
<1> QED BY <1>1, <1>4 DEF Good

(* One value changed, the sum changes by as much.                          *)
LEMMA SumChange ==
    ASSUME NEW B, IsFiniteSet(B), NEW f \in [B -> Int], NEW g \in [B -> Int], NEW c \in B,
           \A b \in B \ {c} : g[b] = f[b]
    PROVE  SumFunction(g) = SumFunction(f) + g[c] - f[c]
<1> DEFINE A == B \ {c}
<1>0. A \in SUBSET B /\ c \in B \ A /\ A \cup {c} = B OBVIOUS
<1>1. SumFunction(f) = f[c] + Part(f, B, A) /\ Part(f, B, A) \in Int
      /\ SumFunction([x \in A |-> f[x]]) = Part(f, B, A)
  <2>1. PartFacts(f, B) BY PartIs
  <2>2. Part(f, B, B) = f[c] + Part(f, B, A) BY <1>0, <2>1 DEF PartFacts
  <2> QED BY <1>0, <2>1, <2>2 DEF PartFacts
<1>2. SumFunction(g) = g[c] + Part(g, B, A) /\ Part(g, B, A) \in Int
      /\ SumFunction([x \in A |-> g[x]]) = Part(g, B, A)
  <2>1. PartFacts(g, B) BY PartIs
  <2>2. Part(g, B, B) = g[c] + Part(g, B, A) BY <1>0, <2>1 DEF PartFacts
  <2> QED BY <1>0, <2>1, <2>2 DEF PartFacts
<1>3. [x \in A |-> f[x]] = [x \in A |-> g[x]] OBVIOUS
<1>4. f[c] \in Int /\ g[c] \in Int OBVIOUS
<1> QED BY <1>1, <1>2, <1>3, <1>4

(* The sums of the parts add up.                                           *)
LEMMA SumParts ==
    ASSUME NEW S, IsFiniteSet(S), NEW f \in [S -> Int], NEW B, IsFiniteSet(B),
           NEW part \in [S -> B]
    PROVE  SumFunction(f)
           = SumFunction([b \in B |-> SumFunction([x \in {y \in S : part[y] = b} |-> f[x]])])
<1> DEFINE Of(T) == [b \in B |-> Part(f, S, {y \in T : part[y] = b})]
           Good == {T \in SUBSET S : Part(f, S, T) = SumFunction(Of(T))}
<1>1. /\ Part(f, S, {}) = 0 /\ Part(f, S, S) = SumFunction(f)
      /\ \A T \in SUBSET S :
           /\ Part(f, S, T) \in Int
           /\ SumFunction([x \in T |-> f[x]]) = Part(f, S, T)
           /\ \A x \in S \ T : Part(f, S, T \cup {x}) = f[x] + Part(f, S, T)
  <2>1. PartFacts(f, S) BY PartIs
  <2> QED BY <2>1 DEF PartFacts
<1>2. \A T \in SUBSET S : Of(T) \in [B -> Int]
      /\ \A b \in B : Of(T)[b] = Part(f, S, {y \in T : part[y] = b})
  BY <1>1
<1> HIDE DEF Of
<1>3. {} \in Good
  <2>1. \A b \in B : {y \in {} : part[y] = b} = {} OBVIOUS
  <2>2. \A b \in B : Of({})[b] = 0 BY <1>1, <1>2, <2>1
  <2>3. PICK z : z = [b \in B |-> 0] OBVIOUS
  <2>6. z \in [B -> Int] /\ \A b \in B : z[b] = 0 BY <2>3
  <2>4. SumFunction(z) = SumFunction(z) - SumFunction(z) /\ SumFunction(z) \in Int
    BY <2>6, SumMinus, SumIs
  <2>5. Of({}) = z BY <1>2, <2>2, <2>6
  <2> QED BY <1>1, <2>4, <2>5
<1>4. ASSUME NEW T \in SUBSET S, NEW x \in S \ T, T \in Good PROVE T \cup {x} \in Good
  <2> DEFINE c == part[x]  U == T \cup {x}
  <2>1. c \in B /\ U \in SUBSET S OBVIOUS
  <2>2. \A b \in B \ {c} : {y \in U : part[y] = b} = {y \in T : part[y] = b} OBVIOUS
  <2>3. {y \in U : part[y] = c} = {y \in T : part[y] = c} \cup {x} OBVIOUS
  <2>4. {y \in T : part[y] = c} \in SUBSET S /\ x \in S \ {y \in T : part[y] = c} OBVIOUS
  <2> HIDE DEF c, U
  <2>5. \A b \in B \ {c} : Of(U)[b] = Of(T)[b] BY <1>2, <2>1, <2>2
  <2>6. Of(U)[c] = f[x] + Of(T)[c]
    <3> DEFINE V == {y \in T : part[y] = c}  W == {y \in U : part[y] = c}
    <3>1. W = V \cup {x} /\ V \in SUBSET S /\ x \in S \ V BY <2>3, <2>4
    <3>2. Of(U)[c] = Part(f, S, W) /\ Of(T)[c] = Part(f, S, V) BY <1>2, <2>1
    <3> HIDE DEF V, W
    <3>3. Part(f, S, V \cup {x}) = f[x] + Part(f, S, V) BY <1>1, <3>1
    <3> QED BY <3>1, <3>2, <3>3
  <2>7. SumFunction(Of(U)) = SumFunction(Of(T)) + Of(U)[c] - Of(T)[c]
    <3>1. Of(U) \in [B -> Int] /\ Of(T) \in [B -> Int] BY <1>2, <2>1
    <3> QED BY <2>1, <2>5, <3>1, SumChange
  <2>8. Part(f, S, U) = f[x] + Part(f, S, T) BY <1>1 DEF U
  <2>9. f[x] \in Int /\ Of(T)[c] \in Int /\ Part(f, S, T) \in Int BY <1>1, <1>2, <2>1
  <2>10. Part(f, S, U) = SumFunction(Of(U)) BY <1>4, <2>6, <2>7, <2>8, <2>9
  <2> QED BY <2>1, <2>10 DEF U
<1> HIDE DEF Good
<1>5. S \in Good BY <1>3, <1>4, SetInduct
<1>6. \A b \in B : SumFunction([x \in {y \in S : part[y] = b} |-> f[x]]) = Of(S)[b]
  BY <1>1, <1>2
<1>7. Of(S) = [b \in B |-> SumFunction([x \in {y \in S : part[y] = b} |-> f[x]])]
  BY <1>2, <1>6
<1> QED BY <1>1, <1>5, <1>7 DEF Good

(* Summing over what is counted, or over the images of a bijection.        *)
LEMMA SumImage ==
    ASSUME NEW U, IsFiniteSet(U), NEW V, NEW F \in [U -> V], \A x, y \in U : F[x] = F[y] =>
           x = y,
           \A v \in V : \E x \in U : F[x] = v,
           NEW f \in [V -> Int], NEW g \in [U -> Int], \A x \in U : g[x] = f[F[x]]
    PROVE  SumFunction(f) = SumFunction(g)
<1> DEFINE Img(T) == {F[x] : x \in T}
           Good == {T \in SUBSET U : Part(f, V, Img(T)) = Part(g, U, T)}
<1>0. Img(U) = V OBVIOUS
<1>1. IsFiniteSet(V)
  <2>1. F \in Surjection(U, V) BY DEF Surjection
  <2> QED BY <2>1, FS_Surjection
<1>2. /\ Part(f, V, {}) = 0 /\ Part(f, V, V) = SumFunction(f)
      /\ \A T \in SUBSET V : \A x \in V \ T : Part(f, V, T \cup {x}) = f[x] + Part(f, V, T)
  <2>1. PartFacts(f, V) BY <1>1, PartIs
  <2> QED BY <2>1 DEF PartFacts
<1>3. /\ Part(g, U, {}) = 0 /\ Part(g, U, U) = SumFunction(g)
      /\ \A T \in SUBSET U : \A x \in U \ T : Part(g, U, T \cup {x}) = g[x] + Part(g, U, T)
  <2>1. PartFacts(g, U) BY PartIs
  <2> QED BY <2>1 DEF PartFacts
<1>4. {} \in Good
  <2>1. Img({}) = {} OBVIOUS
  <2> HIDE DEF Img
  <2> QED BY <1>2, <1>3, <2>1
<1>5. ASSUME NEW T \in SUBSET U, NEW x \in U \ T, T \in Good PROVE T \cup {x} \in Good
  <2>1. Img(T \cup {x}) = Img(T) \cup {F[x]} OBVIOUS
  <2>2. Img(T) \in SUBSET V /\ F[x] \in V \ Img(T) OBVIOUS
  <2>3. Part(f, V, Img(T)) = Part(g, U, T) BY <1>5
  <2> HIDE DEF Img
  <2>4. Part(f, V, Img(T) \cup {F[x]}) = f[F[x]] + Part(f, V, Img(T)) BY <1>2, <2>2
  <2>5. Part(g, U, T \cup {x}) = g[x] + Part(g, U, T) BY <1>3
  <2>6. g[x] = f[F[x]] OBVIOUS
  <2> QED BY <2>1, <2>3, <2>4, <2>5, <2>6
<1> HIDE DEF Good
<1>6. U \in Good BY <1>4, <1>5, SetInduct
<1> QED BY <1>0, <1>2, <1>3, <1>6 DEF Good

(* The numbers of the parts add up.                                        *)
Numbers(S, G, B, part) == [b \in B |-> Cardinality({y \in S : part[y] = b} \cap G)]

(* So the counts of the parts of a set add up to that of the set.          *)
LEMMA CountParts ==
    ASSUME NEW S, IsFiniteSet(S), NEW G, NEW B, IsFiniteSet(B), NEW part \in [S -> B]
    PROVE  Cardinality(S \cap G) = SumFunction(Numbers(S, G, B, part))
<1>1. PICK f : f = Indicator(S, G) OBVIOUS
<1>2. f \in [S -> Int] BY <1>1, CountIsSum
<1>3. \A T \in SUBSET S : Cardinality(T \cap G) = Part(f, S, T) BY <1>1, CountOf
<1>4. Part(f, S, S) = SumFunction(f)
      /\ \A T \in SUBSET S : SumFunction([x \in T |-> f[x]]) = Part(f, S, T)
  BY <1>2, PartIs DEF PartFacts
<1>5. \A b \in B : SumFunction([x \in {y \in S : part[y] = b} |-> f[x]])
                     = Cardinality({y \in S : part[y] = b} \cap G)
  BY <1>3, <1>4
<1>6. SumFunction(f)
           = SumFunction([b \in B |-> SumFunction([x \in {y \in S : part[y] = b} |-> f[x]])])
  BY <1>2, SumParts
<1>7. [b \in B |-> SumFunction([x \in {y \in S : part[y] = b} |-> f[x]])]
        = [b \in B |-> Cardinality({y \in S : part[y] = b} \cap G)]
  BY <1>5
<1>8. Cardinality(S \cap G) = SumFunction(f) BY <1>3, <1>4
<1> QED BY <1>6, <1>7, <1>8 DEF Numbers

(* A number of elements less another, as a sum.                            *)
LEMMA CountMinus ==
    ASSUME NEW S, IsFiniteSet(S), NEW G, NEW H, NEW f \in [S -> Int],
           \A x \in S : f[x] = Indicator(S, G)[x] - Indicator(S, H)[x]
    PROVE  SumFunction(f) = Cardinality(S \cap G) - Cardinality(S \cap H)
<1>1. PICK g : g = Indicator(S, G) OBVIOUS
<1>2. PICK h : h = Indicator(S, H) OBVIOUS
<1>3. g \in [S -> Int] /\ Cardinality(S \cap G) = SumFunction(g) BY <1>1, CountIsSum
<1>4. h \in [S -> Int] /\ Cardinality(S \cap H) = SumFunction(h) BY <1>2, CountIsSum
<1>5. SumFunction(f) = SumFunction(g) - SumFunction(h) BY <1>1, <1>2, <1>3, <1>4, SumMinus
<1> QED BY <1>3, <1>4, <1>5

RowTyped(r) ==
    /\ r.released \in BOOLEAN /\ r.adapted \in BOOLEAN /\ r.delta \in -3..3
    /\ Screen!Gained(r) = (IF r.adapted THEN 1 ELSE 0) - (IF r.released THEN 1 ELSE 0)

(* The pair of two episodes has Boolean outcomes, and stages that differ   *)
(* by at most three.                                                       *)
LEMMA PairTyped ==
    ASSUME Typed, NEW phase \in Phases, NEW u \in Screen!PhaseUnits(phase), NEW e \in 0..Epochs,
           HasRun(phase, u, e)
    PROVE  /\ RowTyped(TruePair(phase, u, e))
           /\ TruePair(phase, u, e).released = Disk(phase, u, 0).success
           /\ TruePair(phase, u, e).adapted = Disk(phase, u, e).success
           /\ TruePair(phase, u, e).delta = Disk(phase, u, e).stage - Disk(phase, u, 0).stage
<1>1. Disk(phase, u, 0) \in Outcomes /\ Disk(phase, u, e) \in Outcomes
  <2>1. 0 \in 0..Epochs BY ScreenFacts
  <2>2. Place(phase, u, 0) \in Screen!Slots /\ Place(phase, u, e) \in Screen!Slots
    BY <2>1, PlaceIn
  <2> QED BY <2>2 DEF Typed, Disk, HasRun
<1>2. PICK a \in [success : BOOLEAN, stage : 0..3] : a = Disk(phase, u, 0)
  BY <1>1, ScreenConfigured DEF Screen!Configured
<1>3. PICK b \in [success : BOOLEAN, stage : 0..3] : b = Disk(phase, u, e)
  BY <1>1, ScreenConfigured DEF Screen!Configured
<1>4. TruePair(phase, u, e) = Screen!Pair(u, e, a, b) BY <1>2, <1>3 DEF TruePair
<1>5. PICK r : r = Screen!Pair(u, e, a, b) OBVIOUS
<1>6. r.released = a.success /\ r.adapted = b.success /\ r.delta = b.stage - a.stage
      /\ r.rescue = (~a.success /\ b.success) /\ r.regression = (a.success /\ ~b.success)
  BY <1>5 DEF Screen!Pair, Screen!PairOf
<1>7. a.success \in BOOLEAN /\ b.success \in BOOLEAN /\ b.stage - a.stage \in -3..3 OBVIOUS
<1>8. Screen!Gained(r) = (IF r.adapted THEN 1 ELSE 0) - (IF r.released THEN 1 ELSE 0)
  BY <1>6, <1>7 DEF Screen!Gained
<1> QED BY <1>2, <1>3, <1>4, <1>5, <1>6, <1>7, <1>8 DEF RowTyped

(* So have all pairs of a complete epoch.                                  *)
LEMMA TruthTyped ==
    ASSUME Typed, NEW phase \in Phases, NEW e \in 0..Epochs, Complete(phase, e)
    PROVE  \A r \in Truth(phase, e) : RowTyped(r)
BY PairTyped DEF Complete, Truth

(* What a bucket of complete rows says is consistent.                      *)
LEMMA NetsOf ==
    ASSUME NEW S, IsFiniteSet(S), \A r \in S : RowTyped(r)
    PROVE  Screen!Nets(Screen!Bucket(S))
<1>1. PICK G : G = {r \in S : r.adapted} OBVIOUS
<1>2. PICK H : H = {r \in S : r.released} OBVIOUS
<1>3. PICK f : f = [r \in S |-> Screen!Gained(r)] OBVIOUS
<1>4. \A r \in S : f[r] = (IF r \in G THEN 1 ELSE 0) - (IF r \in H THEN 1 ELSE 0)
  BY <1>1, <1>2, <1>3 DEF RowTyped
<1>9. \A r \in S : f[r] = Indicator(S, G)[r] - Indicator(S, H)[r] BY <1>4 DEF Indicator
<1>5. f \in [S -> Int] BY <1>3, <1>4
<1>6. SumFunction(f) = Cardinality(S \cap G) - Cardinality(S \cap H)
  BY <1>5, <1>9, CountMinus
<1>7. S \cap G = G /\ S \cap H = H BY <1>1, <1>2
<1>8. /\ Screen!Bucket(S).adapted = Cardinality(G) /\ Screen!Bucket(S).released = Cardinality(H)
      /\ Screen!Bucket(S).net = SumFunction(f)
  BY ScreenCardinality, ScreenSum, <1>1, <1>2, <1>3 DEF Screen!Bucket, Screen!Net, Screen!Count
<1> QED BY <1>6, <1>7, <1>8 DEF Screen!Nets

(* One row for each unit: counting rows is counting units.                 *)
LEMMA TruthCount ==
    ASSUME NEW phase \in Phases, NEW e, NEW G
    PROVE  Cardinality(Truth(phase, e) \cap G)
             = Cardinality({u \in Screen!PhaseUnits(phase) : TruePair(phase, u, e) \in G})
<1>1. PICK U : U = {u \in Screen!PhaseUnits(phase) : TruePair(phase, u, e) \in G} OBVIOUS
<1>2. PICK F : F = [u \in U |-> TruePair(phase, u, e)] OBVIOUS
<1>3. PICK V : V = Truth(phase, e) \cap G OBVIOUS
<1>4. F \in [U -> V] /\ {F[x] : x \in U} = V BY <1>1, <1>2, <1>3 DEF Truth
<1>5. \A x, y \in U : F[x] = F[y] => x = y
  <2>1. \A x \in U : F[x] = TruePair(phase, x, e) /\ x \in Screen!PhaseUnits(phase)
    BY <1>1, <1>2
  <2>2. \A x \in U : F[x].unit = x BY <2>1, TruthFacts
  <2> QED BY <2>2
<1>6. IsFiniteSet(U) BY <1>1, UnitsFinite, FS_Subset
<1>7. \A W : W = {F[x] : x \in U} => IsFiniteSet(W) /\ Cardinality(W) = Cardinality(U)
  BY <1>4, <1>5, <1>6, ImageCard
<1>8. Cardinality(V) = Cardinality(U) BY <1>4, <1>7
<1> QED BY <1>1, <1>3, <1>8

(* Adding up rows is adding up units.                                      *)
LEMMA TruthSum ==
    ASSUME NEW phase \in Phases, NEW e, NEW f \in [Truth(phase, e) -> Int],
           NEW g \in [Screen!PhaseUnits(phase) -> Int],
           \A u \in Screen!PhaseUnits(phase) : g[u] = f[TruePair(phase, u, e)]
    PROVE  SumFunction(f) = SumFunction(g)
<1>1. PICK F : F = [u \in Screen!PhaseUnits(phase) |-> TruePair(phase, u, e)] OBVIOUS
<1>2. PICK U : U = Screen!PhaseUnits(phase) OBVIOUS
<1>3. PICK V : V = Truth(phase, e) OBVIOUS
<1>4. F \in [U -> V] /\ \A v \in V : \E x \in U : F[x] = v BY <1>1, <1>2, <1>3 DEF Truth
<1>5. \A x, y \in U : F[x] = F[y] => x = y
  <2>1. \A x \in U : F[x] = TruePair(phase, x, e) /\ x \in Screen!PhaseUnits(phase)
    BY <1>1, <1>2
  <2>2. \A x \in U : F[x].unit = x BY <2>1, TruthFacts
  <2> QED BY <2>2
<1>6. IsFiniteSet(U) BY <1>2, UnitsFinite
<1>7. f \in [V -> Int] /\ g \in [U -> Int] /\ \A x \in U : g[x] = f[F[x]] BY <1>1, <1>2, <1>3
<1> QED BY <1>4, <1>5, <1>6, <1>7, SumImage

(* Every field of a bucket adds up over the parts of its rows.             *)
LEMMA BucketParts ==
    ASSUME NEW S, IsFiniteSet(S), \A r \in S : RowTyped(r),
           NEW B, IsFiniteSet(B), NEW part \in [S -> B], NEW k \in DOMAIN Screen!Bucket(S)
    PROVE  Screen!Bucket(S)[k]
           = SumFunction([b \in B |-> Screen!Bucket({y \in S : part[y] = b})[k]])
<1> DEFINE P(b) == {y \in S : part[y] = b}
<1>1. \A G : Cardinality(S \cap G) = SumFunction([b \in B |-> Cardinality(P(b) \cap G)])
  <2> SUFFICES ASSUME NEW G
      PROVE Cardinality(S \cap G) = SumFunction([b \in B |-> Cardinality(P(b) \cap G)])
    OBVIOUS
  <2>1. Cardinality(S \cap G) = SumFunction(Numbers(S, G, B, part)) BY CountParts
  <2>2. Numbers(S, G, B, part) = [b \in B |-> Cardinality(P(b) \cap G)] BY DEF Numbers
  <2> QED BY <2>1, <2>2
<1>2. \A f \in [S -> Int] :
      SumFunction(f) = SumFunction([b \in B |-> SumFunction([x \in P(b) |-> f[x]])])
  BY SumParts
<1>3. CASE k = "pairs"
  <2>1. Screen!Bucket(S)[k] = Cardinality(S \cap S)
    BY ScreenCardinality, ScreenSum, <1>3 DEF Screen!Bucket
  <2>2. \A b \in B : Screen!Bucket(P(b))[k] = Cardinality(P(b) \cap S)
    <3> SUFFICES ASSUME NEW b \in B
        PROVE Screen!Bucket(P(b))[k] = Cardinality(P(b) \cap S)
      OBVIOUS
    <3>1. P(b) \cap S = P(b) OBVIOUS
    <3> QED BY ScreenCardinality, ScreenSum, <1>3, <3>1 DEF Screen!Bucket
  <2>3. [b \in B |-> Screen!Bucket(P(b))[k]] = [b \in B |-> Cardinality(P(b) \cap S)] BY <2>2
  <2> QED BY <1>1, <2>1, <2>3
<1>4. ASSUME NEW G, Screen!Bucket(S)[k] = Cardinality({r \in S : r \in G}),
             \A b \in B : Screen!Bucket(P(b))[k] = Cardinality({r \in P(b) : r \in G})
      PROVE  Screen!Bucket(S)[k] = SumFunction([b \in B |-> Screen!Bucket(P(b))[k]])
  <2>1. {r \in S : r \in G} = S \cap G /\ \A b \in B : {r \in P(b) : r \in G} = P(b) \cap G
    OBVIOUS
  <2>3. [b \in B |-> Screen!Bucket(P(b))[k]] = [b \in B |-> Cardinality(P(b) \cap G)]
    BY <1>4, <2>1
  <2> QED BY <1>1, <1>4, <2>1, <2>3
<1>5. ASSUME NEW f \in [S -> Int], Screen!Bucket(S)[k] = SumFunction(f),
             \A b \in B : Screen!Bucket(P(b))[k] = SumFunction([x \in P(b) |-> f[x]])
      PROVE  Screen!Bucket(S)[k] = SumFunction([b \in B |-> Screen!Bucket(P(b))[k]])
  <2>1. [b \in B |-> Screen!Bucket(P(b))[k]] = [b \in B |-> SumFunction([x \in P(b) |-> f[x]])]
    BY <1>5
  <2> QED BY <1>2, <1>5, <2>1
<1>6. CASE k = "released"
  <2>1. PICK G : G = {r \in S : r.released} OBVIOUS
  <2>2. Screen!Bucket(S)[k] = Cardinality({r \in S : r \in G})
    <3>1. {r \in S : r \in G} = {r \in S : r.released} BY <2>1
    <3> QED BY ScreenCardinality, ScreenSum, <1>6, <3>1 DEF Screen!Bucket, Screen!Count
  <2>3. \A b \in B : Screen!Bucket(P(b))[k] = Cardinality({r \in P(b) : r \in G})
    <3> SUFFICES ASSUME NEW b \in B
        PROVE Screen!Bucket(P(b))[k] = Cardinality({r \in P(b) : r \in G})
      OBVIOUS
    <3>1. {r \in P(b) : r \in G} = {r \in P(b) : r.released} BY <2>1
    <3> QED BY ScreenCardinality, ScreenSum, <1>6, <3>1 DEF Screen!Bucket, Screen!Count
  <2> QED BY <1>4, <2>2, <2>3
<1>7. CASE k = "adapted"
  <2>1. PICK G : G = {r \in S : r.adapted} OBVIOUS
  <2>2. Screen!Bucket(S)[k] = Cardinality({r \in S : r \in G})
    <3>1. {r \in S : r \in G} = {r \in S : r.adapted} BY <2>1
    <3> QED BY ScreenCardinality, ScreenSum, <1>7, <3>1 DEF Screen!Bucket, Screen!Count
  <2>3. \A b \in B : Screen!Bucket(P(b))[k] = Cardinality({r \in P(b) : r \in G})
    <3> SUFFICES ASSUME NEW b \in B
        PROVE Screen!Bucket(P(b))[k] = Cardinality({r \in P(b) : r \in G})
      OBVIOUS
    <3>1. {r \in P(b) : r \in G} = {r \in P(b) : r.adapted} BY <2>1
    <3> QED BY ScreenCardinality, ScreenSum, <1>7, <3>1 DEF Screen!Bucket, Screen!Count
  <2> QED BY <1>4, <2>2, <2>3
<1>8. CASE k = "improvements"
  <2>1. PICK G : G = {r \in S : r.delta > 0} OBVIOUS
  <2>2. Screen!Bucket(S)[k] = Cardinality({r \in S : r \in G})
    <3>1. {r \in S : r \in G} = {r \in S : r.delta > 0} BY <2>1
    <3> QED BY ScreenCardinality, ScreenSum, <1>8, <3>1 DEF Screen!Bucket, Screen!Count
  <2>3. \A b \in B : Screen!Bucket(P(b))[k] = Cardinality({r \in P(b) : r \in G})
    <3> SUFFICES ASSUME NEW b \in B
        PROVE Screen!Bucket(P(b))[k] = Cardinality({r \in P(b) : r \in G})
      OBVIOUS
    <3>1. {r \in P(b) : r \in G} = {r \in P(b) : r.delta > 0} BY <2>1
    <3> QED BY ScreenCardinality, ScreenSum, <1>8, <3>1 DEF Screen!Bucket, Screen!Count
  <2> QED BY <1>4, <2>2, <2>3
<1>9. CASE k = "regressions"
  <2>1. PICK G : G = {r \in S : r.delta < 0} OBVIOUS
  <2>2. Screen!Bucket(S)[k] = Cardinality({r \in S : r \in G})
    <3>1. {r \in S : r \in G} = {r \in S : r.delta < 0} BY <2>1
    <3> QED BY ScreenCardinality, ScreenSum, <1>9, <3>1 DEF Screen!Bucket, Screen!Count
  <2>3. \A b \in B : Screen!Bucket(P(b))[k] = Cardinality({r \in P(b) : r \in G})
    <3> SUFFICES ASSUME NEW b \in B
        PROVE Screen!Bucket(P(b))[k] = Cardinality({r \in P(b) : r \in G})
      OBVIOUS
    <3>1. {r \in P(b) : r \in G} = {r \in P(b) : r.delta < 0} BY <2>1
    <3> QED BY ScreenCardinality, ScreenSum, <1>9, <3>1 DEF Screen!Bucket, Screen!Count
  <2> QED BY <1>4, <2>2, <2>3
<1>10. CASE k = "net"
  <2>1. PICK f : f = [r \in S |-> Screen!Gained(r)] OBVIOUS
  <2>2. f \in [S -> Int] BY <2>1 DEF RowTyped
  <2>3. \A b \in B : [x \in P(b) |-> f[x]] = [r \in P(b) |-> Screen!Gained(r)] BY <2>1
  <2>4. Screen!Bucket(S)[k] = SumFunction(f)
    BY ScreenCardinality, ScreenSum, <1>10, <2>1 DEF Screen!Bucket, Screen!Net
  <2>5. \A b \in B : Screen!Bucket(P(b))[k] = SumFunction([x \in P(b) |-> f[x]])
    BY ScreenCardinality, ScreenSum, <1>10, <2>3 DEF Screen!Bucket, Screen!Net
  <2> QED BY <1>5, <2>2, <2>4, <2>5
<1>11. CASE k = "delta"
  <2>1. PICK f : f = [r \in S |-> r.delta] OBVIOUS
  <2>2. f \in [S -> Int] BY <2>1 DEF RowTyped
  <2>3. \A b \in B : [x \in P(b) |-> f[x]] = [r \in P(b) |-> r.delta] BY <2>1
  <2>4. Screen!Bucket(S)[k] = SumFunction(f)
    BY ScreenCardinality, ScreenSum, <1>11, <2>1 DEF Screen!Bucket, Screen!Delta
  <2>5. \A b \in B : Screen!Bucket(P(b))[k] = SumFunction([x \in P(b) |-> f[x]])
    BY ScreenCardinality, ScreenSum, <1>11, <2>3 DEF Screen!Bucket, Screen!Delta
  <2> QED BY <1>5, <2>2, <2>4, <2>5
<1>12. k \in {"pairs", "released", "adapted", "net", "delta", "improvements", "regressions"}
  BY ScreenCardinality, ScreenSum DEF Screen!Bucket
<1> QED BY <1>3, <1>6, <1>7, <1>8, <1>9, <1>10, <1>11, <1>12

(* The epochs, and the candidate chosen of them.                           *)

(* Epochs are conditions of an episode beside the released one.            *)
LEMMA EpochsIn == 1..Epochs \subseteq 0..Epochs /\ IsFiniteSet(1..Epochs)
BY ScreenFacts, FS_Interval

(* In every aggregate of pairs of an epoch the net gain is the difference  *)
(* of the successes ...                                                    *)
LEMMA BucketNets ==
    ASSUME Typed, NEW phase \in Phases, NEW e \in 1..Epochs, Complete(phase, e),
           NEW S \in SUBSET Truth(phase, e)
    PROVE  Screen!Nets(Screen!Bucket(S))
<1>1. e \in 0..Epochs BY EpochsIn
<1>2. \A r \in S : RowTyped(r) BY <1>1, TruthTyped
<1>3. IsFiniteSet(S) BY TruthFacts, FS_Subset
<1> QED BY <1>2, <1>3, NetsOf

(* ... so in the summary, the held-out summary and each bank of it.        *)
LEMMA InvNetGain == CountInv => Screen!NetGain
<1> SUFFICES ASSUME CountInv PROVE Screen!NetGain OBVIOUS
<1>0. Typed /\ FilesTrue BY DEF CountInv
<1>1. ASSUME summary # Absent, NEW e \in 1..Epochs PROVE Screen!Nets(summary.bucket[e])
  <2>1. SummaryTrue BY <1>0, <1>1 DEF FilesTrue
  <2>2. summary.bucket[e] = Screen!Bucket(Truth("screening", e)) /\ Complete("screening", e)
    BY <2>1 DEF SummaryTrue, Buckets, Screened
  <2>3. Screen!Nets(Screen!Bucket(Truth("screening", e))) BY <1>0, <2>2, BucketNets DEF Phases
  <2> QED BY <2>2, <2>3
<1>2. ASSUME heldout # Absent
      PROVE  Screen!Nets(heldout.all)
             /\ \A b \in 1..Banks["heldout"] : Screen!Nets(heldout.byBank[b])
  <2>1. HeldoutTrue BY <1>0, <1>2 DEF FilesTrue
  <2> DEFINE T == Truth("heldout", Chosen)
  <2>2. /\ Complete("heldout", Chosen) /\ heldout.all = Screen!Bucket(T)
        /\ \A b \in 1..Banks["heldout"] :
           heldout.byBank[b] = Screen!Bucket({r \in T : Screen!Bank("heldout", r.unit) = b})
    BY <2>1 DEF HeldoutTrue
  <2>3. \A S \in SUBSET T : Screen!Nets(Screen!Bucket(S))
    BY <1>0, <2>2, ChosenIn, BucketNets DEF Phases
  <2> HIDE DEF T
  <2>4. \A b \in 1..Banks["heldout"] :
        {r \in T : Screen!Bank("heldout", r.unit) = b} \in SUBSET T
    OBVIOUS
  <2> QED BY <2>2, <2>3, <2>4
<1> QED BY <1>1, <1>2 DEF Screen!NetGain

(* An epoch screened while the run trained, and the final screening,       *)
(* counted the same pairs.                                                 *)
LEMMA InvReceiptHolds == CountInv => Screen!ReceiptHolds
<1> SUFFICES ASSUME CountInv, NEW e \in 1..Epochs, epochReceipt[e] # Absent, summary # Absent
    PROVE epochReceipt[e] = summary.bucket[e]
  BY DEF Screen!ReceiptHolds
<1>1. epochReceipt[e] = Screen!Bucket(Truth("screening", e)) /\ SummaryTrue
  BY DEF CountInv, FilesTrue
<1>2. summary.bucket[e] = Screen!Bucket(Truth("screening", e)) BY <1>1 DEF SummaryTrue, Buckets
<1> QED BY <1>1, <1>2

(* The released successes of an epoch are those of the units' released     *)
(* episodes, whatever the epoch.                                           *)
LEMMA ReleasedSame ==
    ASSUME Typed, NEW e \in 1..Epochs, Complete("screening", e)
    PROVE  Screen!Bucket(Truth("screening", e)).released
             = Cardinality({u \in Screen!PhaseUnits("screening") : Disk("screening", u,
             0).success})
<1>1. PICK G : G = {r \in Truth("screening", e) : r.released} OBVIOUS
<1>2. Screen!Bucket(Truth("screening", e)).released = Cardinality(Truth("screening", e) \cap G)
  <2>1. Truth("screening", e) \cap G = {r \in Truth("screening", e) : r.released} BY <1>1
  <2> QED BY ScreenCardinality, ScreenSum, <2>1 DEF Screen!Bucket, Screen!Count
<1>3. \A u \in Screen!PhaseUnits("screening") :
        TruePair("screening", u, e).released = Disk("screening", u, 0).success
        /\ TruePair("screening", u, e) \in Truth("screening", e)
  BY EpochsIn, PairTyped DEF Complete, Phases, Truth
<1>4. {u \in Screen!PhaseUnits("screening") : TruePair("screening", u, e) \in G}
        = {u \in Screen!PhaseUnits("screening") : Disk("screening", u, 0).success}
  BY <1>1, <1>3
<1>5. Cardinality(Truth("screening", e) \cap G)
        = Cardinality({u \in Screen!PhaseUnits("screening") : TruePair("screening", u,
        e) \in G})
  BY TruthCount DEF Phases
<1> QED BY <1>2, <1>4, <1>5

(* So all candidates have the same.                                        *)
LEMMA InvOneBaseline == CountInv => Screen!OneBaseline
<1> SUFFICES ASSUME CountInv, summary # Absent
    PROVE \A e, f \in 1..Epochs : summary.bucket[e].released = summary.bucket[f].released
  BY DEF Screen!OneBaseline
<1>1. Typed /\ SummaryTrue BY DEF CountInv, FilesTrue
<1>2. \A e \in 1..Epochs : summary.bucket[e] = Screen!Bucket(Truth("screening", e))
      /\ Complete("screening", e)
  BY <1>1 DEF SummaryTrue, Buckets, Screened
<1>3. \A e \in 1..Epochs : summary.bucket[e].released
        = Cardinality({u \in Screen!PhaseUnits("screening") : Disk("screening", u, 0).success})
  BY <1>1, <1>2, ReleasedSame
<1> QED BY <1>3

(* The pairs of the banks are parts of all held-out pairs, so their        *)
(* numbers add up.                                                         *)
LEMMA InvBanksAddUp == CountInv => Screen!BanksAddUp
<1> SUFFICES ASSUME CountInv, heldout # Absent
    PROVE /\ DOMAIN heldout.byBank = 1..Banks["heldout"]
          /\ \A k \in DOMAIN heldout.all :
               heldout.all[k] = SumFunction([b \in 1..Banks["heldout"] |-> heldout.byBank[b][k]])
          /\ \A b \in 1..Banks["heldout"] :
               heldout.byBank[b].adapted =
                 Screen!Count({u \in Screen!PhaseUnits("heldout") : Screen!Bank("heldout",
                 u) = b},
                       LAMBDA u : episode[<<"heldout", u, 1>>].success)
  BY ScreenCardinality, ScreenSum DEF Screen!BanksAddUp
<1>1. Typed /\ HeldoutTrue BY DEF CountInv, FilesTrue
<1> DEFINE T == Truth("heldout", Chosen)
           B == 1..Banks["heldout"]
           Of(b) == {r \in T : Screen!Bank("heldout", r.unit) = b}
           part == [r \in T |-> Screen!Bank("heldout", r.unit)]
<1>2. /\ Complete("heldout", Chosen) /\ heldout.all = Screen!Bucket(T)
      /\ heldout.byBank = [b \in B |-> Screen!Bucket(Of(b))]
  BY <1>1 DEF HeldoutTrue
<1>3. Chosen \in 1..Epochs /\ Chosen \in 0..Epochs /\ "heldout" \in Phases
  BY ChosenIn, EpochsIn DEF Phases
<1>4. \A u \in Screen!PhaseUnits("heldout") : TruePair("heldout", u, Chosen).unit = u
  BY <1>3, TruthFacts
<1>5. part \in [T -> B] /\ \A b \in B : Of(b) = {y \in T : part[y] = b}
  <2>1. \A r \in T : Screen!Bank("heldout", r.unit) \in B BY <1>4, BanksAre DEF Truth
  <2> QED BY <2>1
<1>6. IsFiniteSet(T) /\ IsFiniteSet(B) /\ \A r \in T : RowTyped(r)
  <2>1. IsFiniteSet(T) BY <1>3, TruthFacts
  <2>2. IsFiniteSet(B)
    <3>1. 1 \in Int /\ Banks["heldout"] \in Int BY <1>3, ScreenFacts
    <3> QED BY <3>1, FS_Interval
  <2>3. \A r \in T : RowTyped(r) BY <1>1, <1>2, <1>3, TruthTyped
  <2> QED BY <2>1, <2>2, <2>3
<1>7. \A k \in DOMAIN heldout.all :
      heldout.all[k] = SumFunction([b \in B |-> heldout.byBank[b][k]])
  <2> HIDE DEF T, B, part, Of
  <2> SUFFICES ASSUME NEW k \in DOMAIN Screen!Bucket(T)
      PROVE Screen!Bucket(T)[k] = SumFunction([b \in B |-> heldout.byBank[b][k]])
    BY <1>2
  <2>1. Screen!Bucket(T)[k]
        = SumFunction([b \in B |-> Screen!Bucket({y \in T : part[y] = b})[k]])
    BY <1>5, <1>6, BucketParts
  <2>2. [b \in B |-> Screen!Bucket({y \in T : part[y] = b})[k]]
        = [b \in B |-> heldout.byBank[b][k]]
    BY <1>2, <1>5
  <2> QED BY <2>1, <2>2
<1>8. ASSUME NEW b \in B
      PROVE  heldout.byBank[b].adapted =
               Cardinality({u \in {v \in Screen!PhaseUnits("heldout") : Screen!Bank("heldout",
               v) = b} :
                              episode[<<"heldout", u, 1>>].success})
  <2>1. PICK G : G = {r \in T : Screen!Bank("heldout", r.unit) = b /\ r.adapted} OBVIOUS
  <2>2. heldout.byBank[b].adapted = Cardinality(T \cap G)
    <3>1. T \cap G = {r \in Of(b) : r.adapted} BY <2>1
    <3>2. heldout.byBank[b] = Screen!Bucket(Of(b)) BY <1>2, <1>8
    <3>3. Screen!Bucket(Of(b)).adapted = Cardinality({r \in Of(b) : r.adapted})
      BY ScreenCardinality, ScreenSum DEF Screen!Bucket, Screen!Count
    <3> QED BY <3>1, <3>2, <3>3
  <2>3. \A u \in Screen!PhaseUnits("heldout") :
          /\ TruePair("heldout", u, Chosen) \in T
          /\ TruePair("heldout", u, Chosen).adapted = episode[<<"heldout", u, 1>>].success
    <3>1. \A u : Disk("heldout", u, Chosen) = episode[<<"heldout", u, 1>>]
      BY <1>3 DEF Disk, Place
    <3> QED BY <1>1, <1>2, <1>3, <3>1, PairTyped DEF Complete, Truth
  <2>4. {u \in Screen!PhaseUnits("heldout") : TruePair("heldout", u, Chosen) \in G}
          = {u \in {v \in Screen!PhaseUnits("heldout") : Screen!Bank("heldout", v) = b} :
                              episode[<<"heldout", u, 1>>].success}
    BY <1>4, <2>1, <2>3
  <2>5. Cardinality(T \cap G)
          = Cardinality({u \in Screen!PhaseUnits("heldout") : TruePair("heldout", u,
          Chosen) \in G})
    <3>1. PICK e : e = Chosen OBVIOUS
    <3>2. Cardinality(Truth("heldout", e) \cap G)
            = Cardinality({u \in Screen!PhaseUnits("heldout") : TruePair("heldout", u,
            e) \in G})
      BY TruthCount DEF Phases
    <3> QED BY <3>1, <3>2
  <2> QED BY <2>2, <2>4, <2>5
<1>9. DOMAIN heldout.byBank = B BY <1>2
<1> QED BY ScreenCardinality, <1>7, <1>8, <1>9 DEF Screen!Count

(* The type invariant of the model.                                        *)
LEMMA InvTypeOK == CountInv => Screen!TypeOK
<1> SUFFICES ASSUME CountInv PROVE Screen!TypeOK OBVIOUS
<1>0. Typed /\ RowsTrue BY DEF CountInv
<1>1. \A g \in 1..Gpus : \A r \in rows[g] : r.unit \in Screen!PhaseUnits(Screen!Phase)
      /\ r.delta \in -3..3
  <2> SUFFICES ASSUME NEW g \in 1..Gpus, NEW r \in rows[g]
      PROVE r.unit \in Screen!PhaseUnits(Screen!Phase) /\ r.delta \in -3..3
    OBVIOUS
  <2>1. PICK u \in Screen!PhaseUnits(Screen!Phase), e \in {wanted[i] : i \in DOMAIN wanted} :
          HasRun(Screen!Phase, u, e) /\ r = TruePair(Screen!Phase, u, e)
    BY <1>0 DEF RowsTrue, IsTrue
  <2>2. e \in 0..Epochs BY <1>0, <2>1, InSeq, EpochsIn DEF Typed
  <2>3. RowTyped(r) BY <1>0, <2>1, <2>2, ScreenFacts, PairTyped
  <2>4. r.unit = u BY <2>1, ScreenFacts, TruthFacts
  <2> QED BY <2>3, <2>4 DEF RowTyped
<1>2. \A i \in DOMAIN wanted : wanted[i] \in 1..Epochs BY <1>0, InSeq DEF Typed
<1> QED BY <1>0, <1>1, <1>2 DEF Screen!TypeOK, Typed

(* A tuple is greater at the first place where they differ.                *)
Lex(a1, a2, a3, a4, a5, b1, b2, b3, b4, b5) ==
    \/ a1 > b1
    \/ a1 = b1 /\ a2 > b2
    \/ a1 = b1 /\ a2 = b2 /\ a3 > b3
    \/ a1 = b1 /\ a2 = b2 /\ a3 = b3 /\ a4 > b4
    \/ a1 = b1 /\ a2 = b2 /\ a3 = b3 /\ a4 = b4 /\ a5 > b5

(* On keys without NaN Python's comparison of tuples is the lexicographic  *)
(* order.                                                                  *)
LEMMA GreaterIs ==
    ASSUME NEW a \in Seq(Int), Len(a) = 5, NEW b \in Seq(Int), Len(b) = 5
    PROVE  Screen!Greater(a, b)
           <=> Lex(a[1], a[2], a[3], a[4], a[5], b[1], b[2], b[3], b[4], b[5])
<1>1. DOMAIN a = 1..5 /\ \A i \in 1..5 : a[i] # NaN /\ b[i] # NaN /\ a[i] \in Int
      /\ b[i] \in Int
  <2>1. DOMAIN a = 1..5 /\ DOMAIN b = 1..5 OBVIOUS
  <2>2. \A i \in 1..5 : a[i] \in Int /\ b[i] \in Int BY <2>1, InSeq
  <2> QED BY <2>1, <2>2, ScreenConfigured DEF Screen!Configured
<1> DEFINE At(i) == /\ \A j \in 1..(i - 1) : a[j] = b[j] /\ a[j] # NaN
                    /\ NaN \notin {a[i], b[i]}
                    /\ a[i] > b[i]
<1>2. Screen!Greater(a, b) <=> \E i \in 1..5 : At(i) BY <1>1 DEF Screen!Greater
<1>3. At(1) <=> a[1] > b[1] BY <1>1
<1>4. At(2) <=> a[1] = b[1] /\ a[2] > b[2]
  <2>1. 1..(2 - 1) = {1} OBVIOUS
  <2> QED BY <1>1, <2>1
<1>5. At(3) <=> a[1] = b[1] /\ a[2] = b[2] /\ a[3] > b[3]
  <2>1. 1..(3 - 1) = {1, 2} OBVIOUS
  <2> QED BY <1>1, <2>1
<1>6. At(4) <=> a[1] = b[1] /\ a[2] = b[2] /\ a[3] = b[3] /\ a[4] > b[4]
  <2>1. 1..(4 - 1) = {1, 2, 3} OBVIOUS
  <2> QED BY <1>1, <2>1
<1>7. At(5) <=> a[1] = b[1] /\ a[2] = b[2] /\ a[3] = b[3] /\ a[4] = b[4] /\ a[5] > b[5]
  <2>1. 1..(5 - 1) = {1, 2, 3, 4} OBVIOUS
  <2> QED BY <1>1, <2>1
<1> HIDE DEF At
<1>8. (\E i \in 1..5 : At(i)) <=> At(1) \/ At(2) \/ At(3) \/ At(4) \/ At(5)
  <2>1. 1..5 = {1, 2, 3, 4, 5} OBVIOUS
  <2> QED BY <2>1, Zenon
<1> QED BY <1>2, <1>3, <1>4, <1>5, <1>6, <1>7, <1>8 DEF Lex

(* The best candidate is over every other, if the candidates are in a      *)
(* strict order.                                                           *)
Over(bucket, loss, e, f) ==
    Screen!Greater(Screen!SelectionKey(e, bucket[e], loss[e]), Screen!SelectionKey(f,
    bucket[f], loss[f]))

(* When it is a strict order of the candidates, max returns the one above  *)
(* all others.                                                             *)
LEMMA BestIsOver ==
    ASSUME NEW S, NEW epochs \in Seq(S), Len(epochs) > 0, NEW bucket, NEW loss,
           \A e, f \in S : e = f \/ Over(bucket, loss, e, f) \/ Over(bucket, loss, f, e),
           \A e, f, d \in S : Over(bucket, loss, e, f)
           /\ Over(bucket, loss, f, d) => Over(bucket, loss, e, d)
    PROVE  \A j \in DOMAIN epochs :
             epochs[j] = Screen!Best(epochs, bucket, loss) \/ Over(bucket, loss,
             Screen!Best(epochs, bucket, loss), epochs[j])
<1> DEFINE n == Len(epochs)
           i == Bests(epochs, bucket, loss)
           Good == {m \in Nat : m \in 1..n => \A j \in 1..m : epochs[j] = i[m] \/ Over(bucket,
                   loss, i[m], epochs[j])}
<1>0. n \in Nat /\ DOMAIN epochs = 1..n /\ \A j \in 1..n : epochs[j] \in S OBVIOUS
<1>1. IsBest(i, epochs, bucket, loss) /\ i \in [DOMAIN epochs -> S] BY BestExists
<1> HIDE DEF i, n
<1>2. \A m \in 1..n : i[m] \in S /\ i[m] = BestStep(epochs, bucket, loss, i, m)
  BY <1>0, <1>1 DEF IsBest
<1>3. 0 \in Good BY <1>0
<1>4. ASSUME NEW m \in Nat, m \in Good PROVE m + 1 \in Good
  <2> SUFFICES ASSUME m + 1 \in 1..n, NEW j \in 1..(m + 1)
      PROVE epochs[j] = i[m + 1] \/ Over(bucket, loss, i[m + 1], epochs[j])
    OBVIOUS
  <2>1. CASE m = 0
    <3>1. j = 1 /\ i[1] = epochs[1] BY <1>0, <1>2, <2>1 DEF BestStep
    <3> QED BY <2>1, <3>1
  <2>2. CASE m # 0
    <3>1. m \in 1..n BY <1>0, <2>2
    <3>2. \A k \in 1..m : epochs[k] = i[m] \/ Over(bucket, loss, i[m], epochs[k]) BY <1>4, <3>1
    <3>3. i[m + 1] = IF Over(bucket, loss, epochs[m + 1], i[m]) THEN epochs[m + 1] ELSE i[m]
      <4>1. (m + 1) - 1 = m /\ m + 1 # 1 BY <2>2
      <4> QED BY <1>2, <4>1 DEF BestStep, Over
    <3>4. epochs[m + 1] \in S /\ i[m] \in S /\ i[m + 1] \in S /\ epochs[j] \in S
      BY <1>0, <1>2, <3>1
    <3>5. CASE j = m + 1 BY <3>3, <3>4, <3>5
    <3>6. CASE j \in 1..m BY <3>2, <3>3, <3>4, <3>6
    <3> QED BY <3>5, <3>6
  <2> QED BY <2>1, <2>2
<1> HIDE DEF Good
<1>5. n \in Good BY <1>0, <1>3, <1>4, NatInduct
<1>6. n \in 1..n BY <1>0 DEF n
<1>7. Screen!Best(epochs, bucket, loss) = i[n] BY BestDef DEF i, n
<1> QED BY <1>0, <1>5, <1>6, <1>7 DEF Good

(* The key of a candidate says what the episodes say.                      *)
LEMMA KeyIs ==
    ASSUME Typed, Screened, NEW e \in 1..Epochs
    PROVE  /\ Screen!SelectionKey(e, Buckets[e], losses[e])
              = <<Screen!Successes(e), Screen!Gain(e), Screen!Lead(e), Screen!Rank(e), -e>>
           /\ Screen!Successes(e) \in Int /\ Screen!Gain(e) \in Int /\ Screen!Lead(e) \in Int
              /\ Screen!Rank(e) \in Int
<1> DEFINE U == Screen!PhaseUnits("screening")  T == Truth("screening", e)
<1>0. Complete("screening", e) /\ losses[e] \in Nat /\ losses[e] # NaN /\ e \in 0..Epochs
  <2>1. losses[e] \in Losses BY DEF Typed, Screened, Screen!Loadable
  <2> QED BY <2>1, ScreenConfigured, EpochsIn DEF Screen!Configured, Screened, Screen!Loadable
<1>1. \A u \in U : /\ TruePair("screening", u, e) \in T
                   /\ TruePair("screening", u, e).adapted = Screen!Adapted(u, e).success
                   /\ TruePair("screening", u, e).delta
                      = Screen!Adapted(u, e).stage - Screen!Released(u).stage
                   /\ Screen!Adapted(u, e).stage \in Int /\ Screen!Released(u).stage \in Int
  <2> SUFFICES ASSUME NEW u \in U
      PROVE /\ TruePair("screening", u, e) \in T
            /\ TruePair("screening", u, e).adapted = Screen!Adapted(u, e).success
            /\ TruePair("screening", u, e).delta
               = Screen!Adapted(u, e).stage - Screen!Released(u).stage
            /\ Screen!Adapted(u, e).stage \in Int /\ Screen!Released(u).stage \in Int
    OBVIOUS
  <2>1. Disk("screening", u, e) = Screen!Adapted(u, e)
        /\ Disk("screening", u, 0) = Screen!Released(u)
    BY DEF Disk, Place, Screen!Adapted, Screen!Released
  <2>2. HasRun("screening", u, e) BY <1>0 DEF Complete
  <2>3. Screen!Adapted(u, e) \in Outcomes /\ Screen!Released(u) \in Outcomes
    <3>1. 0 \in 0..Epochs BY ScreenFacts
    <3>2. Place("screening", u, 0) \in Screen!Slots /\ Place("screening", u, e) \in Screen!Slots
      BY <1>0, <3>1, PlaceIn DEF Phases
    <3> QED BY <2>1, <2>2, <3>2 DEF Typed, Disk, HasRun
  <2>4. Screen!Adapted(u, e).stage \in Int /\ Screen!Released(u).stage \in Int
    BY <2>3, ScreenConfigured DEF Screen!Configured
  <2> QED BY <1>0, <2>1, <2>2, <2>4, PairTyped DEF Phases, Truth
<1>2. \A G : Cardinality(T \cap G) = Cardinality({u \in U : TruePair("screening", u, e) \in G})
  BY TruthCount DEF Phases
<1>3. Buckets[e] = Screen!Bucket(T) BY DEF Buckets
<1>4. Screen!Bucket(T).adapted = Screen!Successes(e)
  <2>1. PICK G : G = {r \in T : r.adapted} OBVIOUS
  <2>2. T \cap G = {r \in T : r.adapted} BY <2>1
  <2>3. {u \in U : TruePair("screening", u, e) \in G} = {u \in U : Screen!Adapted(u, e).success}
    BY <1>1, <2>1
  <2> QED
    BY ScreenCardinality, ScreenSum, <1>2, <2>2, <2>3
    DEF Screen!Bucket, Screen!Count, Screen!Successes
<1>5. Screen!Bucket(T).improvements
      = Cardinality({u \in U : Screen!Adapted(u, e).stage > Screen!Released(u).stage})
  <2>1. PICK G : G = {r \in T : r.delta > 0} OBVIOUS
  <2>2. T \cap G = {r \in T : r.delta > 0} BY <2>1
  <2>3. {u \in U : TruePair("screening", u, e) \in G}
        = {u \in U : Screen!Adapted(u, e).stage > Screen!Released(u).stage}
    BY <1>1, <2>1
  <2> QED BY ScreenCardinality, ScreenSum, <1>2, <2>2, <2>3 DEF Screen!Bucket, Screen!Count
<1>6. Screen!Bucket(T).regressions
      = Cardinality({u \in U : Screen!Adapted(u, e).stage < Screen!Released(u).stage})
  <2>1. PICK G : G = {r \in T : r.delta < 0} OBVIOUS
  <2>2. T \cap G = {r \in T : r.delta < 0} BY <2>1
  <2>3. {u \in U : TruePair("screening", u, e) \in G}
        = {u \in U : Screen!Adapted(u, e).stage < Screen!Released(u).stage}
    BY <1>1, <2>1
  <2> QED BY ScreenCardinality, ScreenSum, <1>2, <2>2, <2>3 DEF Screen!Bucket, Screen!Count
<1>7. Screen!Bucket(T).improvements - Screen!Bucket(T).regressions = Screen!Lead(e)
  BY ScreenCardinality, <1>5, <1>6 DEF Screen!Lead, Screen!Count
<1>8. Screen!Bucket(T).delta = Screen!Gain(e) /\ Screen!Gain(e) \in Int
  <2>1. PICK f : f = [r \in T |-> r.delta] OBVIOUS
  <2>2. PICK g : g = [u \in U |-> Screen!Adapted(u, e).stage - Screen!Released(u).stage] OBVIOUS
  <2>3. \A r \in T : r.delta \in Int BY <1>1 DEF Truth
  <2>4. f \in [T -> Int] /\ g \in [U -> Int] BY <1>1, <2>1, <2>2, <2>3
  <2>5. \A u \in U : g[u] = f[TruePair("screening", u, e)] BY <1>1, <2>1, <2>2
  <2>6. SumFunction(f) = SumFunction(g) BY <2>4, <2>5, TruthSum DEF Phases
  <2>7. SumFunction(g) \in Int BY <2>4, UnitsFinite, SumIs DEF Phases
  <2> QED
    BY ScreenCardinality, ScreenSum, <2>1, <2>2, <2>6, <2>7
    DEF Screen!Bucket, Screen!Delta, Screen!Gain
<1>9. Screen!Rank(e) = -losses[e] /\ Screen!Rank(e) \in Int BY <1>0 DEF Screen!Rank
<1>10. Screen!Successes(e) \in Int /\ Screen!Lead(e) \in Int
  <2>1. \A A \in SUBSET U : Cardinality(A) \in Nat
    BY UnitsFinite, FS_Subset, FS_CardinalityType DEF Phases
  <2>2. {u \in U : Screen!Adapted(u, e).success} \in SUBSET U
        /\ {u \in U : Screen!Adapted(u, e).stage > Screen!Released(u).stage} \in SUBSET U
        /\ {u \in U : Screen!Adapted(u, e).stage < Screen!Released(u).stage} \in SUBSET U
    OBVIOUS
  <2> QED BY ScreenCardinality, <2>1, <2>2 DEF Screen!Successes, Screen!Lead, Screen!Count
<1> QED BY <1>0, <1>3, <1>4, <1>7, <1>8, <1>9, <1>10 DEF Screen!SelectionKey

(* The keys of two candidates, compared.                                   *)
Beats(e, f) == Lex(Screen!Successes(e), Screen!Gain(e), Screen!Lead(e), Screen!Rank(e), -e,
               Screen!Successes(f), Screen!Gain(f), Screen!Lead(f), Screen!Rank(f), -f)

(* Keys compare as the measures of the rule do.                            *)
LEMMA OverIs ==
    ASSUME Typed, Screened, NEW e \in 1..Epochs, NEW f \in 1..Epochs
    PROVE  Over(Buckets, losses, e, f) <=> Beats(e, f)
<1>1. PICK a : a = Screen!SelectionKey(e, Buckets[e], losses[e]) OBVIOUS
<1>2. PICK b : b = Screen!SelectionKey(f, Buckets[f], losses[f]) OBVIOUS
<1>3. a = <<Screen!Successes(e), Screen!Gain(e), Screen!Lead(e), Screen!Rank(e), -e>>
      /\ Screen!Successes(e) \in Int /\ Screen!Gain(e) \in Int /\ Screen!Lead(e) \in Int
         /\ Screen!Rank(e) \in Int
  BY <1>1, KeyIs
<1>4. b = <<Screen!Successes(f), Screen!Gain(f), Screen!Lead(f), Screen!Rank(f), -f>>
      /\ Screen!Successes(f) \in Int /\ Screen!Gain(f) \in Int /\ Screen!Lead(f) \in Int
         /\ Screen!Rank(f) \in Int
  BY <1>2, KeyIs
<1>5. -e \in Int /\ -f \in Int OBVIOUS
<1>6. a \in Seq(Int) /\ Len(a) = 5 /\ b \in Seq(Int) /\ Len(b) = 5 BY <1>3, <1>4, <1>5
<1>7. /\ a[1] = Screen!Successes(e) /\ a[2] = Screen!Gain(e) /\ a[3] = Screen!Lead(e)
         /\ a[4] = Screen!Rank(e) /\ a[5] = -e
      /\ b[1] = Screen!Successes(f) /\ b[2] = Screen!Gain(f) /\ b[3] = Screen!Lead(f)
         /\ b[4] = Screen!Rank(f) /\ b[5] = -f
  BY <1>3, <1>4
<1>8. Screen!Greater(a, b) <=> Lex(a[1], a[2], a[3], a[4], a[5], b[1], b[2], b[3], b[4], b[5])
  BY <1>6, GreaterIs
<1> QED BY <1>1, <1>2, <1>7, <1>8 DEF Over, Beats

(* The lexicographic order is total on keys that end in different epochs,  *)
(* and transitive.                                                         *)
LEMMA LexOrder ==
    /\ \A a1, a2, a3, a4, a5, b1, b2, b3, b4, b5 \in Int :
         \/ a5 = b5
         \/ Lex(a1, a2, a3, a4, a5, b1, b2, b3, b4, b5)
         \/ Lex(b1, b2, b3, b4, b5, a1, a2, a3, a4, a5)
    /\ \A a1, a2, a3, a4, a5, b1, b2, b3, b4, b5, c1, c2, c3, c4, c5 \in Int :
         /\ Lex(a1, a2, a3, a4, a5, b1, b2, b3, b4, b5)
         /\ Lex(b1, b2, b3, b4, b5, c1, c2, c3, c4, c5)
         => Lex(a1, a2, a3, a4, a5, c1, c2, c3, c4, c5)
BY DEF Lex

(* So the chosen candidate is above all others.                            *)
LEMMA ChosenBeats ==
    ASSUME Typed, Screened
    PROVE  \A e \in 1..Epochs : e = Chosen \/ Beats(Chosen, e)
<1>1. \A e \in 1..Epochs : /\ Screen!Successes(e) \in Int /\ Screen!Gain(e) \in Int
      /\ Screen!Lead(e) \in Int /\ Screen!Rank(e) \in Int
                           /\ e \in Int /\ -e \in Int
  BY KeyIs, ScreenFacts
<1>2. \A e, f \in 1..Epochs : e = f \/ Beats(e, f) \/ Beats(f, e)
  <2> SUFFICES ASSUME NEW e \in 1..Epochs, NEW f \in 1..Epochs, e # f
      PROVE Beats(e, f) \/ Beats(f, e)
    OBVIOUS
  <2>1. -e # -f BY <1>1
  <2> QED BY <1>1, <2>1, LexOrder DEF Beats
<1>3. \A e, f, d \in 1..Epochs : Beats(e, f) /\ Beats(f, d) => Beats(e, d)
  <2> SUFFICES ASSUME NEW e \in 1..Epochs, NEW f \in 1..Epochs, NEW d \in 1..Epochs,
  Beats(e, f), Beats(f, d)
      PROVE Beats(e, d)
    OBVIOUS
  <2> QED BY <1>1, LexOrder DEF Beats
<1>4. \A e, f \in 1..Epochs :
      e = f \/ Over(Buckets, losses, e, f) \/ Over(Buckets, losses, f, e)
  BY <1>2, OverIs
<1>5. \A e, f, d \in 1..Epochs :
        Over(Buckets, losses, e, f)
        /\ Over(Buckets, losses, f, d) => Over(Buckets, losses, e, d)
  BY <1>3, OverIs
<1>6. Len(All) > 0 BY AllFacts, ScreenFacts
<1>7. \A j \in DOMAIN All : All[j] = Chosen \/ Over(Buckets, losses, Chosen, All[j])
  BY <1>4, <1>5, <1>6, AllFacts, BestIsOver DEF Chosen
<1>8. \A e \in 1..Epochs : e = Chosen \/ Over(Buckets, losses, Chosen, e) BY <1>7 DEF All
<1> QED BY <1>8, ChosenIn, OverIs

(* So it is the one the rule names.                                        *)
LEMMA ChosenByRule == ASSUME Typed, Screened PROVE Screen!ByRule = Chosen
<1> DEFINE most == Screen!Leading(1..Epochs, Screen!Successes)
           farthest == Screen!Leading(most, Screen!Gain)
           oftenest == Screen!Leading(farthest, Screen!Lead)
           closest == Screen!Leading(oftenest, Screen!Rank)
<1>1. \A e \in 1..Epochs : /\ Screen!Successes(e) \in Int /\ Screen!Gain(e) \in Int
      /\ Screen!Lead(e) \in Int /\ Screen!Rank(e) \in Int
                           /\ e \in Int
  BY KeyIs, ScreenFacts
<1>2. PICK c \in 1..Epochs : c = Chosen BY ChosenIn
<1>3. \A e \in 1..Epochs :
      e = c \/ Lex(Screen!Successes(c), Screen!Gain(c), Screen!Lead(c), Screen!Rank(c), -c,
                                        Screen!Successes(e), Screen!Gain(e), Screen!Lead(e),
                                            Screen!Rank(e), -e)
  BY <1>2, ChosenBeats DEF Beats
<1>4. most = {e \in 1..Epochs : \A f \in 1..Epochs : Screen!Successes(e) >= Screen!Successes(f)}
      /\ farthest = {e \in most : \A f \in most : Screen!Gain(e) >= Screen!Gain(f)}
      /\ oftenest = {e \in farthest : \A f \in farthest : Screen!Lead(e) >= Screen!Lead(f)}
      /\ closest = {e \in oftenest : \A f \in oftenest : Screen!Rank(e) >= Screen!Rank(f)}
  BY DEF Screen!Leading
<1>5. Screen!ByRule = CHOOSE e \in closest : \A f \in closest : e <= f BY DEF Screen!ByRule
<1> HIDE DEF most, farthest, oftenest, closest
<1>6. \A f \in 1..Epochs : Screen!Successes(c) >= Screen!Successes(f) BY <1>1, <1>3 DEF Lex
<1>7. c \in most /\ most \subseteq 1..Epochs
      /\ \A f \in most : Screen!Successes(f) = Screen!Successes(c)
  <2>1. c \in most /\ most \subseteq 1..Epochs BY <1>4, <1>6
  <2>2. \A f \in most : Screen!Successes(f) >= Screen!Successes(c) BY <1>4
  <2>3. \A f \in most : Screen!Successes(f) = Screen!Successes(c) BY <1>1, <1>6, <2>1, <2>2
  <2> QED BY <2>1, <2>3
<1>8. \A f \in most : Screen!Gain(c) >= Screen!Gain(f) BY <1>1, <1>3, <1>7 DEF Lex
<1>9. c \in farthest /\ farthest \subseteq most
      /\ \A f \in farthest : Screen!Gain(f) = Screen!Gain(c)
  <2>1. c \in farthest /\ farthest \subseteq most BY <1>4, <1>7, <1>8
  <2>2. \A f \in farthest : Screen!Gain(f) >= Screen!Gain(c) BY <1>4, <1>7
  <2>3. \A f \in farthest : Screen!Gain(f) = Screen!Gain(c) BY <1>1, <1>7, <1>8, <2>1, <2>2
  <2> QED BY <2>1, <2>3
<1>10. \A f \in farthest : Screen!Lead(c) >= Screen!Lead(f) BY <1>1, <1>3, <1>7, <1>9 DEF Lex
<1>11. c \in oftenest /\ oftenest \subseteq farthest
       /\ \A f \in oftenest : Screen!Lead(f) = Screen!Lead(c)
  <2>1. c \in oftenest /\ oftenest \subseteq farthest BY <1>4, <1>9, <1>10
  <2>2. \A f \in oftenest : Screen!Lead(f) >= Screen!Lead(c) BY <1>4, <1>9
  <2>3. \A f \in oftenest : f \in 1..Epochs BY <1>7, <1>9, <2>1
  <2>4. \A f \in oftenest : Screen!Lead(c) >= Screen!Lead(f) BY <1>10, <2>1
  <2> QED BY <1>1, <2>1, <2>2, <2>3, <2>4
<1>12. \A f \in oftenest : Screen!Rank(c) >= Screen!Rank(f)
  BY <1>1, <1>3, <1>7, <1>9, <1>11 DEF Lex
<1>13. c \in closest /\ closest \subseteq oftenest
       /\ \A f \in closest : Screen!Rank(f) = Screen!Rank(c)
  <2>1. c \in closest /\ closest \subseteq oftenest BY <1>4, <1>11, <1>12
  <2>2. \A f \in closest : Screen!Rank(f) >= Screen!Rank(c) BY <1>4, <1>11
  <2>3. \A f \in closest : f \in 1..Epochs BY <1>7, <1>9, <1>11, <2>1
  <2>4. \A f \in closest : Screen!Rank(c) >= Screen!Rank(f) BY <1>12, <2>1
  <2> QED BY <1>1, <2>1, <2>2, <2>3, <2>4
<1>14. \A f \in closest : c <= f
  BY <1>1, <1>3, <1>7, <1>9, <1>11, <1>13 DEF Lex
<1>15. closest \subseteq Int BY <1>1, <1>7, <1>9, <1>11, <1>13
<1>16. \A e \in closest : (\A f \in closest : e <= f) => e = c BY <1>13, <1>14, <1>15
<1> QED BY <1>2, <1>5, <1>13, <1>14, <1>16

(* And the selection is the candidate the rule names.                      *)
LEMMA InvSelectedByRule == CountInv => Screen!SelectedByRule
BY ChosenByRule DEF CountInv, FilesTrue, SelectionTrue, Screen!SelectedByRule

(* A step changes a selection only by selecting the same again.            *)
LEMMA NextStable == CountInv /\ Screen!Next => Screen!SelectionStable
<1> SUFFICES ASSUME CountInv, Screen!Next, selection # Absent PROVE selection' = selection
  BY DEF Screen!SelectionStable
<1>1. CASE Screen!CommitSelection
  <2>1. SummaryTrue /\ SelectionTrue
    BY <1>1 DEF CountInv, Wanted, FilesTrue, Screen!CommitSelection
  <2>2. selection' = [epoch |-> summary.epoch,
                      key |-> Screen!SelectionKey(summary.epoch, summary.bucket[summary.epoch],
                                          losses[summary.epoch])]
    BY <1>1 DEF Screen!CommitSelection
  <2> QED BY <2>1, <2>2 DEF SummaryTrue, SelectionTrue
<1>2. CASE ~Screen!CommitSelection
  BY <1>2
  DEF Screen!Next, Screen!Commit, Screen!PublishCheckpoint, Screen!PublishSummary,
      Screen!StartScreenEpoch, Screen!StartScreen, Screen!StartHeldout, Screen!Start,
      Screen!RunEpisode, Screen!CommitEpoch, Screen!CommitSummary, Screen!CommitHeldout,
      Screen!Abort, Screen!files
<1> QED BY <1>1, <1>2

(* Held-out episodes are run, and counted, only once an epoch is selected. *)
HeldoutAfter == mode = "heldout" \/ heldout # Absent => selection # Absent

(* Every step keeps it so: a selection is never taken back.                *)
LEMMA AfterNext == CountInv /\ HeldoutAfter /\ [Screen!Next]_(Screen!vars) => HeldoutAfter'
<1> SUFFICES ASSUME CountInv, HeldoutAfter, [Screen!Next]_(Screen!vars)
    PROVE HeldoutAfter'
  OBVIOUS
<1>1. CASE Screen!CommitSelection
  <2>1. mode' = "idle" /\ heldout' = heldout
    BY <1>1 DEF Screen!CommitSelection, Screen!Return, Screen!Idle
  <2>2. selection # Absent => selection' = selection
    BY <1>1, NextStable DEF Screen!Next, Screen!Commit, Screen!SelectionStable
  <2> QED BY <2>1, <2>2 DEF HeldoutAfter
<1>2. CASE ~Screen!CommitSelection /\ Screen!Next
  BY <1>2
  DEF HeldoutAfter, Screen!Next, Screen!Commit, Screen!PublishCheckpoint,
      Screen!PublishSummary, Screen!StartScreenEpoch, Screen!StartScreen, Screen!StartHeldout,
      Screen!Start, Screen!RunEpisode, Screen!CommitEpoch, Screen!CommitSummary,
      Screen!CommitHeldout, Screen!Abort, Screen!Return, Screen!Idle, Screen!files,
      Screen!invocation
<1>3. CASE UNCHANGED Screen!vars
  BY <1>3 DEF HeldoutAfter, Screen!vars, Screen!files, Screen!invocation
<1> QED BY <1>1, <1>2, <1>3

(* So the held-out summary is about the epoch that is selected.            *)
LEMMA InvHeldoutOfSelected == CountInv /\ HeldoutAfter => Screen!HeldoutOfSelected
<1> SUFFICES ASSUME CountInv, HeldoutAfter, heldout # Absent
    PROVE selection # Absent /\ heldout.epoch = selection.epoch
  BY DEF Screen!HeldoutOfSelected
<1>1. HeldoutTrue /\ SelectionTrue BY DEF CountInv, FilesTrue, HeldoutTrue
<1>2. heldout.epoch = Chosen /\ selection.epoch = Chosen BY <1>1 DEF HeldoutTrue, SelectionTrue
<1> QED BY <1>2 DEF HeldoutAfter

(* Every file, queue and row says what the episodes on disk say, in every  *)
(* behaviour.                                                              *)
THEOREM FilesSayEpisodes == Screen!Spec => [](CountInv /\ HeldoutAfter)
<1>1. Screen!Init => HeldoutAfter BY DEF Screen!Init, HeldoutAfter
<1> QED BY <1>1, AfterNext, CountStarts, CountNext, PTL DEF Screen!Spec

(* The counts and the selection: screening names the epoch that the frozen *)
(* rule names, from counts that are those of the episodes, on one released *)
(* baseline, whichever invocations, queues and threads ran them and        *)
(* whenever they were killed.                                              *)
THEOREM RuleIsFollowed == Screen!Spec => []RuleFollowed
<1>1. CountInv /\ HeldoutAfter => RuleFollowed
  BY InvTypeOK, InvSelectedByRule, InvOneBaseline, InvNetGain, InvBanksAddUp, InvReceiptHolds,
     InvHeldoutOfSelected
  DEF RuleFollowed
<1> QED BY <1>1, FilesSayEpisodes, PTL

(* A selection, once made, is written again only as the same selection.    *)
THEOREM SelectionIsKept == Screen!Spec => SelectionKept
<1>1. CountInv /\ [Screen!Next]_(Screen!vars) => [Screen!SelectionStable]_screenVars
  BY NextStable DEF Screen!vars, Screen!training, Screen!files, Screen!invocation, screenVars
<1> QED BY <1>1, FilesSayEpisodes, PTL DEF Screen!Spec, SelectionKept

=============================================================================
