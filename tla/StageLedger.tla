---------------------------- MODULE StageLedger -----------------------------
(***************************************************************************)
(* What a formal run directory promises to whoever reads its receipts:     *)
(* stages are passed one at a time and in order, a passed stage stays      *)
(* passed, and the final summary appears only over a complete ledger.      *)
(* Nothing is said of controllers, child processes, logs or crashes;       *)
(* QualifiedPipeline implements this specification.                        *)
(***************************************************************************)
EXTENDS Naturals

CONSTANT Last     \* number of stages of the run

VARIABLES
    passed,       \* stages with a complete PASS receipt
    published     \* final_summary.json exists

vars == <<passed, published>>

Init == passed = {} /\ published = FALSE

Pass ==
    /\ \E s \in 1 .. Last : passed = 1 .. s - 1 /\ passed' = 1 .. s
    /\ UNCHANGED published

Publish ==
    /\ passed = 1 .. Last
    /\ published' = TRUE
    /\ UNCHANGED passed

Next == Pass \/ Publish

Spec == Init /\ [][Next]_vars
=============================================================================
