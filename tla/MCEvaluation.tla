--------------------------- MODULE MCEvaluation -----------------------------
(***************************************************************************)
(* Model checking of Evaluation.  A behaviour is one of four scenarios,    *)
(* chosen in the initial state; they share the variables and differ in the *)
(* constants:                                                              *)
(*   chain     screening, then held-out, while checkpoints are replaced    *)
(*   evidence  screenings of single epochs one after the other             *)
(*   reruns    three screenings one after the other, failing anywhere      *)
(*   queues    three units on two GPUs                                     *)
(* MCScreenSelection has one more, of evaluators that overlap.             *)
(***************************************************************************)
EXTENDS Evaluation, TLC

CONSTANT Third   \* one more evaluator

VARIABLE part

Evidence == INSTANCE Evaluation WITH Modes <- {"screen_epoch"}
Reruns == INSTANCE Evaluation WITH
    Evaluators <- Evaluators \cup {Third}, Modes <- {"screen"}, Epochs <- 1, MaxEdits <- 0
Queues == INSTANCE Evaluation WITH
    Evaluators <- {Third}, Modes <- {"screen", "screen_epoch"},
    Units <- 3, Epochs <- 1, Gpus <- 2, MaxEdits <- 0

EvaluationInit ==
    \/ part = "chain" /\ Init
    \/ part = "evidence" /\ Evidence!Init
    \/ part = "reruns" /\ Reruns!Init
    \/ part = "queues" /\ Queues!Init

EvaluationNext ==
    /\ UNCHANGED part
    /\ \/ part = "chain" /\ Next
       \/ part = "evidence" /\ Evidence!Next
       \/ part = "reruns" /\ Reruns!Next
       \/ part = "queues" /\ Queues!Next

EvaluationSpec == EvaluationInit /\ [][EvaluationNext]_<<part, vars>>

EvaluatorSymmetry == Permutations(Evaluators)
=============================================================================
