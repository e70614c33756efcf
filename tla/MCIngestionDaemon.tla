-------------------------- MODULE MCIngestionDaemon --------------------------
(***************************************************************************)
(* An instance of Subscription (and so of IngestionDaemon) for TLC, with   *)
(* the numbers of the code.                                                *)
(***************************************************************************)
EXTENDS Subscription

MCMethods == <<"miniBlocks", "newHeads">>
=============================================================================
