----------------------------- MODULE UpdateEpochs -----------------------------
(***************************************************************************)
(* The optimization loop of _update_round_success_path_tt, on one process  *)
(* or on several ranks (success_path_distributed.py): epochs over the      *)
(* labels of all train trajectories in shuffled batches, gradients summed  *)
(* over the ranks, and, on one process, a resumable state after every      *)
(* epoch but the last.                                                     *)
(*                                                                         *)
(* A gradient is the set of samples that contributed to it, the adapter    *)
(* the sequence of gradients it has been stepped with.                     *)
(***************************************************************************)
EXTENDS Integers, Sequences, FiniteSets

SX == INSTANCE SequencesExt
FX == INSTANCE Functions

CONSTANTS
  Trajectories,  \* train trajectories: 1..n
  MaxLabels,     \* most labels of a trajectory
  BatchSize,     \* effective_batch_size
  World,         \* world_size
  Epochs,        \* inner_epochs
  Faults,        \* may processes fail and be killed?
  None           \* grad is None

VARIABLES
  counts,    \* labels of each trajectory
  orders,    \* what the generator yields: its n-th draw permutes every trajectory
  saved,     \* the resumable state of the last checkpointed epoch
  \* -- per rank --
  pc, epoch,
  generator, \* draws it has made
  here,      \* the batches of the epoch
  index,     \* the one it is at
  present,   \* whether some rank has a gradient
  grad, weight, rows,
  adapter    \* the steps taken

plan == <<counts, orders>>
rank == <<pc, epoch, generator, here, index, present, grad, weight, rows, adapter>>
vars == <<plan, saved, rank>>

-----------------------------------------------------------------------------
(* _trajectory_distinct_epoch_batches: in turn from every trajectory that  *)
(* has labels left, a batch ending where the next one begins.              *)

T == 1..Trajectories
Permutations(n) == {f \in [1..n -> 1..n] : FX!IsInjective(f)}
Sample(t, l) == <<t, l>>

TurnOnward(cursor) == [k \in 1..(Trajectories - cursor) |-> cursor + k]
Turn(cursor) == [k \in T |-> ((cursor + k - 1) % Trajectories) + 1]
Active(left, cursor) == SelectSeq(Turn(cursor), LAMBDA t : left[t] > 0)
Chosen(left, cursor) ==
  LET active == Active(left, cursor)
  IN SubSeq(active, 1, IF Len(active) < BatchSize THEN Len(active) ELSE BatchSize)

(* Batch n of an epoch with these orders of labels; labels are taken from  *)
(* the end.                                                                *)
Total == SX!FoldLeft(LAMBDA n, t : n + counts[t], 0, [t \in T |-> t])
CursorAfter(chosen, cursor) == chosen[Len(chosen)] % Trajectories
Batches(order) ==
  LET Take[n \in 0..Total] ==
        IF n = 0 THEN [left |-> counts, cursor |-> 0, batch |-> <<>>]
        ELSE LET was == Take[n - 1]
                 chosen == Chosen(was.left, was.cursor)
             IN IF \A t \in T : was.left[t] = 0 THEN [was EXCEPT !.batch = <<>>]
                ELSE [left |-> [t \in T |-> IF t \in SX!ToSet(chosen)
                                            THEN was.left[t] - 1 ELSE was.left[t]],
                      cursor |-> CursorAfter(chosen, was.cursor),
                      batch |-> [k \in DOMAIN chosen |->
                                   Sample(chosen[k], order[chosen[k]][was.left[chosen[k]]])]]
  IN SelectSeq([n \in 1..Total |-> Take[n].batch], LAMBDA b : b # <<>>)

(* _trajectory_equal_epoch_batch_scales, as a fraction.                    *)
ScaleBySample(batches, sample) == [over |-> Len(batches), under |-> Total]
Scale(batches, sample) == [over |-> Len(batches), under |-> Trajectories * counts[sample[1]]]

-----------------------------------------------------------------------------
Ranks == 0..(World - 1)

(* local_indices, from 0.                                                  *)
LocalIndices(r, n) == {i \in 0..(n - 1) : i % World = r}

Batch(r) == here[r][index[r]]

FreshState == [epoch |-> 0, generator |-> 0, rows |-> <<>>, adapter |-> <<>>]

Begin(state) ==
  /\ pc' = [r \in Ranks |-> "epoch"]
  /\ epoch' = [r \in Ranks |-> state.epoch]
  /\ generator' = [r \in Ranks |-> state.generator]
  /\ rows' = [r \in Ranks |-> state.rows]
  /\ adapter' = [r \in Ranks |-> state.adapter]
  /\ here' = [r \in Ranks |-> <<>>] /\ index' = [r \in Ranks |-> 1]
  /\ present' = [r \in Ranks |-> FALSE]
  /\ grad' = [r \in Ranks |-> None]
  /\ weight' = [r \in Ranks |-> {}]

Init ==
  /\ counts \in [T -> 1..MaxLabels]
  /\ orders \in [1..Epochs -> {o \in [T -> UNION {Permutations(n) : n \in 1..MaxLabels}] :
                                 \A t \in T : DOMAIN o[t] = 1..counts[t]}]
  /\ saved = FreshState
  /\ pc = [r \in Ranks |-> "epoch"] /\ epoch = [r \in Ranks |-> 0]
  /\ generator = [r \in Ranks |-> 0]
  /\ here = [r \in Ranks |-> <<>>] /\ index = [r \in Ranks |-> 1]
  /\ present = [r \in Ranks |-> FALSE] /\ grad = [r \in Ranks |-> None]
  /\ weight = [r \in Ranks |-> {}] /\ rows = [r \in Ranks |-> <<>>]
  /\ adapter = [r \in Ranks |-> <<>>]

Goto(r, where) == pc' = [pc EXCEPT ![r] = where]

(* The epoch's batches are drawn from the generator.                       *)
StartEpoch(r) ==
  /\ pc[r] = "epoch"
  /\ IF epoch[r] = Epochs
     THEN Goto(r, "done") /\ UNCHANGED <<epoch, generator, here, index>>
     ELSE /\ epoch' = [epoch EXCEPT ![r] = @ + 1]
          /\ generator' = [generator EXCEPT ![r] = @ + 1]
          /\ here' = [here EXCEPT ![r] = Batches(orders[generator'[r]])]
          /\ index' = [index EXCEPT ![r] = 1]
          /\ Goto(r, "local")
  /\ UNCHANGED <<plan, saved, present, grad, weight, rows, adapter>>

Mine(r) == {Batch(r)[i + 1] : i \in LocalIndices(r, Len(Batch(r)))}

(* zero_grad(set_to_none=True) and a backward pass of every local sample.  *)
Backward(r) ==
  /\ pc[r] = "local"
  /\ grad' = [grad EXCEPT ![r] = IF Mine(r) = {} THEN None ELSE Mine(r)]
  /\ weight' = [weight EXCEPT ![r] = Mine(r)]
  /\ Goto(r, IF World = 1 THEN "clip" ELSE "presence")
  /\ UNCHANGED <<plan, saved, epoch, generator, here, index, present, rows, adapter>>

-----------------------------------------------------------------------------
(* The collectives of a step: all ranks leave one together.                *)

Meet(where) == \A r \in Ranks : pc[r] = where

(* sum_gradients: first whether any rank has one, then the sum.            *)
OwnGradient(r) == grad[r] # None
SomeGradient(r) == \E q \in Ranks : grad[q] # None
Presence ==
  /\ World > 1 /\ Meet("presence")
  /\ present' = [r \in Ranks |-> SomeGradient(r)]
  /\ pc' = [r \in Ranks |-> IF present'[r] THEN "gradient" ELSE "scalars"]
  /\ UNCHANGED <<plan, saved, epoch, generator, here, index, grad, weight, rows, adapter>>

Filled(r) == IF grad[r] = None THEN {} ELSE grad[r]
SumFirst(f) == f[0]
SumRanks(f) == UNION {f[r] : r \in Ranks}
Gradient ==
  /\ Meet("gradient")
  /\ grad' = [r \in Ranks |-> SumRanks([q \in Ranks |-> Filled(q)])]
  /\ pc' = [r \in Ranks |-> "scalars"]
  /\ UNCHANGED <<plan, saved, epoch, generator, here, index, present, weight, rows, adapter>>

Scalars ==
  /\ Meet("scalars")
  /\ weight' = [r \in Ranks |-> UNION {weight[q] : q \in Ranks}]
  /\ pc' = [r \in Ranks |-> "clip"]
  /\ UNCHANGED <<plan, saved, epoch, generator, here, index, present, grad, rows, adapter>>

(* gather_indexed_rows must find one row of every index of the batch.      *)
IndicesByRank ==
  SX!FlattenSeq([q \in 1..World |->
    SX!SetToSortSeq(LocalIndices(q - 1, Len(Batch(0))), LAMBDA i, j : i < j)])
Indices == SX!SetToSortSeq(UNION {LocalIndices(q, Len(Batch(0))) : q \in Ranks}, LAMBDA i, j : i < j)
Complete ==
  /\ \A q, r \in Ranks : q # r =>
       LocalIndices(q, Len(Batch(q))) \cap LocalIndices(r, Len(Batch(r))) = {}
  /\ UNION {LocalIndices(q, Len(Batch(q))) : q \in Ranks} = 0..(Cardinality(SX!ToSet(Indices)) - 1)

Gather ==
  /\ Meet("clip")
  /\ IF Complete
     THEN /\ rows' = [r \in Ranks |-> rows[r] \o [n \in DOMAIN Indices |->
                        Batch(r)[Indices[n] + 1]]]
          /\ pc' = [r \in Ranks |-> "step"]
     ELSE pc' = [r \in Ranks |-> "raised"] /\ UNCHANGED rows
  /\ UNCHANGED <<plan, saved, epoch, generator, here, index, present, grad, weight, adapter>>

-----------------------------------------------------------------------------
(* Clipping refuses a gradient of zero; then the optimizer steps.          *)
More(r) == index[r] < Len(here[r])
OptimizerStep(r) ==
  /\ pc[r] = "step"
  /\ IF grad[r] = None
     THEN Goto(r, "raised") /\ UNCHANGED <<adapter, index>>
     ELSE /\ adapter' = [adapter EXCEPT ![r] = Append(@, grad[r])]
          /\ IF More(r)
             THEN index' = [index EXCEPT ![r] = @ + 1] /\ Goto(r, "local")
             ELSE UNCHANGED index /\ Goto(r, "calibrate")
  /\ UNCHANGED <<plan, saved, epoch, generator, here, present, grad, weight, rows>>

(* The epoch's calibration and, on one process, its checkpoint.            *)
GeneratorUnsaved(r) == 0
GeneratorState(r) == generator[r]
EndEpoch(r) ==
  /\ pc[r] = "calibrate"
  /\ saved' = IF World = 1 /\ epoch[r] < Epochs
              THEN [epoch |-> epoch[r], generator |-> GeneratorState(r),
                    rows |-> rows[r], adapter |-> adapter[r]]
              ELSE saved
  /\ Goto(r, "epoch")
  /\ UNCHANGED <<plan, epoch, generator, here, index, present, grad, weight, rows, adapter>>

(* A nonfinite loss or gradient.                                           *)
Fail(r) ==
  /\ Faults /\ pc[r] \in {"local", "step"}
  /\ Goto(r, "raised")
  /\ UNCHANGED <<plan, saved, epoch, generator, here, index, present, grad, weight, rows, adapter>>

(* All processes are stopped and started again from the last checkpoint.   *)
Restart ==
  /\ Faults /\ \E r \in Ranks : pc[r] # "done"
  /\ Begin(saved)
  /\ UNCHANGED <<plan, saved>>

Step(r) == StartEpoch(r) \/ Backward(r) \/ OptimizerStep(r) \/ EndEpoch(r)
Collective == Presence \/ Gradient \/ Scalars \/ Gather

Next == (\E r \in Ranks : Step(r) \/ Fail(r)) \/ Collective \/ Restart

Spec == Init /\ [][Next]_vars

FairSpec == Spec /\ WF_vars(Collective) /\ \A r \in Ranks : WF_vars(Step(r))

-----------------------------------------------------------------------------
(* Properties                                                              *)

(* Type invariant of the ranks.                                            *)
TypeOK ==
  \A r \in Ranks :
    /\ epoch[r] \in 0..Epochs /\ generator[r] \in 0..Epochs /\ index[r] \in 1..Total
    /\ pc[r] = "local" => index[r] \in DOMAIN here[r]
    /\ grad[r] = None \/ grad[r] \subseteq T \X (1..MaxLabels)

(* What one uninterrupted process does.                                    *)
Serial == SX!FlattenSeq([e \in 1..Epochs |-> Batches(orders[e])])

(* On any number of ranks, interrupted and resumed anywhere, the adapter   *)
(* is stepped with the batches of one uninterrupted process in its order.  *)
StepsSerially ==
  \A r \in Ranks :
    /\ Len(adapter[r]) <= Len(Serial)
    /\ \A n \in DOMAIN adapter[r] : adapter[r][n] = SX!ToSet(Serial[n])

(* Ranks that have taken the same number of steps hold the same rows, the  *)
(* samples in the order of the batches.                                    *)
RowsSerial ==
  \A r \in Ranks : SX!IsPrefix(rows[r], SX!FlattenSeq(Serial))

(* An epoch takes every label once, no batch has two labels of one         *)
(* trajectory, and all trajectories weigh the same.                        *)
EpochTakesAll ==
  \A r \in Ranks : pc[r] = "calibrate" =>
    LET batches == here[r]
        taken == SX!FlattenSeq(batches)
        Weight(t) == {[n |-> n, scale |-> Scale(batches, taken[n])] :
                       n \in {m \in DOMAIN taken : taken[m][1] = t}}
    IN /\ SX!ToSet(taken) = {Sample(t, l) : t \in T, l \in 1..MaxLabels}
                              \cap {s \in T \X (1..MaxLabels) : s[2] <= counts[s[1]]}
       /\ Len(taken) = Total
       /\ \A b \in DOMAIN batches : Len(batches[b]) <= BatchSize
       /\ \A b \in DOMAIN batches : \A m, n \in DOMAIN batches[b] :
            m # n => batches[b][m][1] # batches[b][n][1]
       /\ \A t \in T : \A w \in Weight(t) :
            Cardinality(Weight(t)) * Trajectories * w.scale.over = Len(batches) * w.scale.under

(* The batches of an epoch are as full as the trajectories allow: one that *)
(* is not full has a label of every trajectory that is not used up.        *)
BatchesFull ==
  \A r \in Ranks : pc[r] = "local" =>
    \A n \in DOMAIN here[r] : Len(here[r][n]) < BatchSize =>
      \A m \in n..Len(here[r]) : \A i \in DOMAIN here[r][m] :
        \E j \in DOMAIN here[r][n] : here[r][n][j][1] = here[r][m][i][1]

(* Where nothing fails, all ranks come to the end.                         *)
AllDone == <>(\A r \in Ranks : pc[r] = "done")
=============================================================================
