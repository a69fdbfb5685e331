---------------------------- MODULE UpdateCommit ----------------------------
(***************************************************************************)
(* What one trajectory-update output directory promises to its readers,    *)
(* the screening and held-out stages: checkpoint_trajectory_update.pt goes *)
(* from absent to one finished update and stays that update, and           *)
(* summary.json, the commit marker, goes from absent to a receipt for      *)
(* exactly that checkpoint.  Nothing is said of writers, locks, crashes or *)
(* epoch checkpoints; SuccessPathUpdate implements this specification.     *)
(***************************************************************************)
CONSTANTS
    Finished,   \* the checkpoints that are a complete exact update
    Absent      \* no file

VARIABLES
    checkpoint, \* content of checkpoint_trajectory_update.pt
    receipt     \* the checkpoint that summary.json vouches for

vars == <<checkpoint, receipt>>

Init ==
    /\ checkpoint = Absent
    /\ receipt = Absent

PublishCheckpoint ==
    /\ checkpoint = Absent
    /\ checkpoint' \in Finished
    /\ UNCHANGED receipt

Commit ==
    /\ checkpoint # Absent
    /\ receipt = Absent
    /\ receipt' = checkpoint
    /\ UNCHANGED checkpoint

Next == PublishCheckpoint \/ Commit

Spec == Init /\ [][Next]_vars
=============================================================================
