--------------------------- MODULE MCBlockConsumer ---------------------------
(***************************************************************************)
(* Instances of BlockConsumer for TLC, one worker at a time.               *)
(***************************************************************************)
EXTENDS BlockConsumer
=============================================================================
