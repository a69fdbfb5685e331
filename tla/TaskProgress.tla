---------------------------- MODULE TaskProgress ----------------------------
(***************************************************************************)
(* From what the simulator shows to one paired row: the task progress      *)
(* predicates (stage_h_task_progress.py), the trace that collects them at  *)
(* every key observation of an episode, its summary, and the pair made of  *)
(* the Released and the adapted episode of a unit                          *)
(* (run_handover_mic_success_path_eval.py).                                *)
(*                                                                         *)
(* A task's official predicate is a conjunction.  A scene is the set of    *)
(* conjuncts that hold in it; the errors and positions they are computed   *)
(* from are not modelled, except that a task's thresholds split one        *)
(* measure into two conjuncts (the cabinet's height).                      *)
(***************************************************************************)
EXTENDS Integers, Sequences, FiniteSets, SequencesExt

CONSTANTS
  Tasks,        \* the tasks a protocol is accepted for
  MaxControls,  \* the horizon, in key observations: positive, at most Observations
  Observations, \* the observations of an episode after the initial one
  Absent        \* Python's None

VARIABLES
  task,      \* the task of the protocol
  role,      \* whose episode is observed: "released", then "adapted"
  moving,    \* the worker still acts (no latch, horizon not reached)
  rows,      \* ProgressTrace.rows of the episode
  summary,   \* the summaries of the finished episodes
  pair,      \* the row _build_pair returns
  phase      \* "watch", "pair", "paired" or "raised"

vars == <<task, role, moving, rows, summary, pair, phase>>

-----------------------------------------------------------------------------
(* collect_task_progress.  For some tasks the stages are named conditions, *)
(* of which the last that holds counts ...                                 *)

OpenMicrowave == <<{"door"}>>
Cabinet == <<{"lifted"}, {"lifted", "below", "inside"}, {"lifted", "below", "inside", "open"}>>
HandoverMic ==
  <<{"height", "side"}, {"contact", "receiver"},
    {"height", "side", "contact", "receiver", "giver"}>>
PlaceFan == <<{"position"}, {"position", "quaternion"}, {"position", "quaternion", "open"}>>
PlaceShoe == <<{"xy"}, {"xy", "quaternion"}, {"xy", "quaternion", "open"}>>
ScanObject == <<{"projected"}, {"projected", "depth"}, {"projected", "depth", "closed"}>>
PlaceA2B == <<{"side", "y"}, {"side", "y", "distance"}, {"side", "y", "distance", "open"}>>

Milestones ==
  [open_microwave |-> OpenMicrowave, put_object_cabinet |-> Cabinet,
   handover_mic |-> HandoverMic, place_fan |-> PlaceFan, place_shoe |-> PlaceShoe,
   scan_object |-> ScanObject, place_a2b_left |-> PlaceA2B, place_a2b_right |-> PlaceA2B]

(* ... for the others a count of conjuncts, 3 when all of the predicate    *)
(* holds.                                                                  *)
Bottles == [counted |-> {"bottle1", "bottle2", "bottle3"}, released |-> {}]
Bread == [counted |-> {"bread1", "bread2"}, released |-> {"open"}]
Cans == [counted |-> {"can1", "can2"}, released |-> {"open"}]
QRCode == [counted |-> {"quaternion", "height"}, released |-> {"open"}]
StampSeal == [counted |-> {"x", "y"}, released |-> {"open"}]
StackBlocks == [counted |-> {"pair12", "pair23"}, released |-> {"open"}]
RankBlocks == [counted |-> {"pair12", "pair23"}, released |-> {"open"}]

Counts ==
  [put_bottles_dustbin |-> Bottles, place_bread_basket |-> Bread,
   place_cans_plasticbox |-> Cans, rotate_qrcode |-> QRCode, stamp_seal |-> StampSeal,
   stack_blocks_three |-> StackBlocks, blocks_ranking_rgb |-> RankBlocks,
   blocks_ranking_size |-> RankBlocks]

Conjuncts(t) ==
  IF t \in DOMAIN Milestones THEN Last(Milestones[t]) \cup UNION ToSet(Milestones[t])
  ELSE Counts[t].counted \cup Counts[t].released

Official(t, s) == Conjuncts(t) \subseteq s
Counted(t, s) == Cardinality(s \cap Counts[t].counted)

Highest(S) == CHOOSE x \in S \cup {0} : \A y \in S \cup {0} : x >= y

StageFirstFound(t, s) ==
  IF t \in DOMAIN Milestones
  THEN LET met == {k \in DOMAIN Milestones[t] : Milestones[t][k] \subseteq s}
       IN IF met = {} THEN 0 ELSE CHOOSE k \in met : \A j \in met : k <= j
  ELSE IF Official(t, s) THEN 3 ELSE Counted(t, s)

Stage(t, s) ==
  IF t \in DOMAIN Milestones
  THEN Highest({k \in DOMAIN Milestones[t] : Milestones[t][k] \subseteq s})
  ELSE IF Official(t, s) THEN 3 ELSE Counted(t, s)

-----------------------------------------------------------------------------
(* ProgressTrace.observation_callback: the row, after the record of some   *)
(* tasks has been checked against the conjuncts it contains.               *)

Paired == {"handover_mic", "open_microwave", "put_object_cabinet", "put_bottles_dustbin",
           "place_fan", "place_shoe", "scan_object", "place_a2b_left", "stack_blocks_three",
           "blocks_ranking_rgb", "blocks_ranking_size"}
Generic == {"place_a2b_right", "place_bread_basket", "place_cans_plasticbox", "rotate_qrcode",
            "stamp_seal"}

(* The rows a task's summary counts: contact, open door, valid placement.  *)
Valid(t, s) ==
  CASE t = "handover_mic" -> "contact" \in s
    [] t \in {"stack_blocks_three", "blocks_ranking_rgb", "blocks_ranking_size"} -> Counted(t, s) = 2
    [] t \in Generic -> FALSE
    [] t \in {"open_microwave", "put_bottles_dustbin"} -> Official(t, s)
    [] OTHER -> Milestones[t][2] \subseteq s

Consistent(t, s) ==
  CASE t = "place_a2b_left" ->
         Stage(t, s) = (IF {"side", "y", "distance", "open"} \subseteq s THEN 3
                        ELSE IF {"side", "y", "distance"} \subseteq s THEN 2
                        ELSE IF {"side", "y"} \subseteq s THEN 1 ELSE 0)
    [] t \in {"stack_blocks_three", "blocks_ranking_rgb", "blocks_ranking_size"} ->
         LET pairs == Cardinality(s \cap {"pair12", "pair23"})
         IN Stage(t, s) = (IF pairs = 2 /\ "open" \in s THEN 3 ELSE pairs)
    [] t = "put_bottles_dustbin" -> Stage(t, s) = Counted(t, s)
    [] OTHER -> TRUE

Row(t, s, step) ==
  [step |-> step, stage |-> Stage(t, s), valid |-> Valid(t, s), official |-> Official(t, s),
   receiver |-> {"contact", "receiver"} \subseteq s]

-----------------------------------------------------------------------------
(* ProgressTrace.summarize                                                 *)

Steps(trace, P(_)) == {trace[i].step : i \in {j \in DOMAIN trace : P(trace[j])}}
Least(S) == IF S = {} THEN Absent ELSE CHOOSE x \in S : \A y \in S : x <= y
Greatest(S) == IF S = {} THEN Absent ELSE CHOOSE x \in S : \A y \in S : x >= y

FirstStepAt(trace, k) == Least(Steps(trace, LAMBDA r : r.stage = k))
FirstStep(trace, k) == Least(Steps(trace, LAMBDA r : r.stage >= k))

(* The longest run of rows with contact.                                   *)
Streak(trace) ==
  Highest({j - i + 1 : <<i, j>> \in {<<a, b>> \in (DOMAIN trace) \X (DOMAIN trace) :
             a <= b /\ \A k \in a..b : trace[k].valid}})

Summary(trace, succeeded) ==
  [success |-> succeeded,
   stage |-> Highest({trace[i].stage : i \in DOMAIN trace}),
   firstSteps |-> [k \in 1..3 |-> FirstStep(trace, k)],
   first |-> Least(Steps(trace, LAMBDA r : r.valid)),
   last |-> Greatest(Steps(trace, LAMBDA r : r.valid)),
   observed |-> Cardinality({i \in DOMAIN trace : trace[i].valid}),
   streak |-> Streak(trace),
   receiver |-> \E i \in DOMAIN trace : trace[i].receiver]

-----------------------------------------------------------------------------
(* _build_pair.  A task without a branch of its own raises, after both     *)
(* episodes of the unit have been run.                                     *)

CapShort == MaxControls
Cap == MaxControls + 1
OrCap(step) == IF step = Absent THEN Cap ELSE step

Pair(released, adapted) ==
  [rescue |-> ~released.success /\ adapted.success,
   regression |-> released.success /\ ~adapted.success,
   delta |-> adapted.stage - released.stage,
   improvement |-> adapted.stage > released.stage,
   worse |-> adapted.stage < released.stage,
   onset |-> OrCap(released.first) - OrCap(adapted.first)]

NoPair == [rescue |-> FALSE, regression |-> FALSE, delta |-> 0, improvement |-> FALSE,
           worse |-> FALSE, onset |-> 0]

-----------------------------------------------------------------------------
Raise == phase' = "raised"

Init ==
  /\ task \in Tasks
  /\ role = "released" /\ moving = TRUE
  /\ \E s \in SUBSET Conjuncts(task) : rows = <<Row(task, s, 0)>>
  /\ summary = <<>> /\ pair = NoPair
  /\ phase = "watch"

(* One key observation of a worker that acted; it may have stopped then.   *)
Observe ==
  /\ phase = "watch" /\ moving /\ Len(rows) <= MaxControls
  /\ \E s \in SUBSET Conjuncts(task) :
       IF Consistent(task, s)
       THEN rows' = Append(rows, Row(task, s, Len(rows))) /\ phase' = "watch"
       ELSE Raise /\ UNCHANGED rows
  /\ moving' \in (IF Len(rows) = MaxControls THEN {FALSE} ELSE BOOLEAN)
  /\ UNCHANGED <<task, role, summary, pair>>

(* The snapshots left in the chunk show the same scene, and the step goes  *)
(* on counting.                                                            *)
ObserveStill ==
  /\ phase = "watch" /\ ~moving /\ Len(rows) <= Observations
  /\ rows' = Append(rows, [Last(rows) EXCEPT !.step = Len(rows)])
  /\ UNCHANGED <<task, role, moving, summary, pair, phase>>

(* The episode's own success is the simulator's latch: it may have seen    *)
(* what no key observation shows, and the last observation decides too.    *)
(* The adapted episode starts from the snapshot the Released one did.      *)
Finish ==
  /\ phase = "watch" /\ ~moving
  /\ \E succeeded \in BOOLEAN :
       /\ Last(rows).official => succeeded
       /\ summary' = Append(summary, Summary(rows, succeeded))
  /\ IF role = "released"
     THEN /\ role' = "adapted" /\ phase' = "watch" /\ moving' = TRUE
          /\ rows' = <<rows[1]>>
     ELSE /\ phase' = "pair" /\ rows' = <<>>
          /\ UNCHANGED <<role, moving>>
  /\ UNCHANGED <<task, pair>>

BuildPair ==
  /\ phase = "pair"
  /\ IF task \in Paired
     THEN pair' = Pair(summary[1], summary[2]) /\ phase' = "paired"
     ELSE Raise /\ UNCHANGED pair
  /\ UNCHANGED <<task, role, moving, rows, summary>>

Next == Observe \/ ObserveStill \/ Finish \/ BuildPair

Spec == Init /\ [][Next]_vars

-----------------------------------------------------------------------------
(* Properties                                                              *)

(* Type invariant of the trace.                                            *)
TypeOK ==
  /\ task \in Tasks /\ role \in {"released", "adapted"} /\ moving \in BOOLEAN
  /\ \A i \in DOMAIN rows :
       rows[i] \in [step : 0..Observations, stage : 0..3, valid : BOOLEAN, official : BOOLEAN,
                   receiver : BOOLEAN]
  /\ Len(summary) <= 2 /\ pair.delta \in -3..3
  /\ phase \in {"watch", "pair", "paired", "raised"}

(* A task's highest stage is the official predicate: no scene reaches it   *)
(* without all conjuncts, and with all of them every scene is there.       *)
StageIsOfficial ==
  \A s \in SUBSET Conjuncts(task) :
    (Stage(task, s) = IF task \in DOMAIN Milestones THEN Len(Milestones[task]) ELSE 3)
      <=> Official(task, s)

(* A conjunct gained never lowers the stage: the sums of stage differences *)
(* that select a checkpoint reward no step away from the predicate.        *)
GainNeverLowers ==
  \A s \in SUBSET Conjuncts(task), c \in Conjuncts(task) :
    Stage(task, s) <= Stage(task, s \cup {c})

(* What a summary says of when things happened fits together: a stage has  *)
(* a first step exactly when it was reached, no stage before a lower one,  *)
(* and the longest streak lies between the first and the last valid row.   *)
SummaryFits ==
  \A i \in DOMAIN summary :
    LET u == summary[i]
    IN /\ \A k \in 1..3 : (u.firstSteps[k] # Absent) <=> (u.stage >= k)
       /\ \A k \in 2..3 : (u.firstSteps[k] # Absent) => (u.firstSteps[k - 1] <= u.firstSteps[k])
       /\ (u.observed = 0) = (u.first = Absent) /\ (u.streak = 0) = (u.observed = 0)
       /\ (u.observed > 0) => (u.streak <= u.observed /\ u.first + u.streak - 1 <= u.last)

(* The task's own milestone and the ordinal stage are two counts of one    *)
(* thing: receiver contact is stage 2 of handover_mic, a valid placement,  *)
(* pose or scan stage 2 of its task, and a row is never one without the    *)
(* other.                                                                  *)
MilestoneIsStage ==
  \A i \in DOMAIN summary :
    LET u == summary[i]
    IN CASE task = "handover_mic" -> u.receiver <=> (u.stage >= 2)
         [] task = "open_microwave" -> (u.observed > 0) <=> (u.stage >= 1)
         [] task = "put_bottles_dustbin" -> (u.observed > 0) <=> (u.stage = 3)
         [] task \in Generic -> u.observed = 0
         [] OTHER -> (u.observed > 0) <=> (u.stage >= 2)

(* handover_mic's contact_onset_delta is positive exactly when the adapted *)
(* episode saw contact earlier, or alone, however late: a contact at the   *)
(* horizon still beats none.                                               *)
OnsetSign ==
  phase = "paired" =>
    ((pair.onset > 0) <=>
       /\ summary[2].first # Absent
       /\ \/ summary[1].first = Absent
          \/ summary[2].first < summary[1].first)

(* What collect_task_progress returns passes the checks of the trace, and  *)
(* every finished unit gets its pair.                                      *)
UnitsPair == phase # "raised"

(* test_success_path_eval_task_portability.py: the generic tasks are       *)
(* supported from the protocol to the aggregates.                          *)
AcceptedTasksPair == phase # "raised"
=============================================================================
