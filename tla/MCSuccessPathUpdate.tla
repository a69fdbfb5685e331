----------------------- MODULE MCSuccessPathUpdate --------------------------
(* Model checking of SuccessPathUpdate on small instances.                 *)
EXTENDS SuccessPathUpdate, TLC

WriterSymmetry == Permutations(Writers)
=============================================================================
