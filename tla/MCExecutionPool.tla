--------------------------- MODULE MCExecutionPool ---------------------------
(***************************************************************************)
(* Instances of ExecutionPool for TLC.  The workers run the same code, so  *)
(* any permutation of them is a symmetry; it is used with safety           *)
(* properties only.                                                        *)
(***************************************************************************)
EXTENDS ExecutionPool, TLC

WorkerSymmetry == Permutations(Workers)
=============================================================================
