----------------------------- MODULE MCPipeline -----------------------------
(***************************************************************************)
(* Instances of Pipeline for TLC.                                          *)
(***************************************************************************)
EXTENDS Pipeline, TLC

AllRequests == RequestKinds

\* Images: the shortest way to an input and an output file per job.
Images == {[media |-> "image", thumbnail |-> FALSE]}

\* README 11: the container disk is WORKER_CONCURRENCY * 2 * max_input_bytes.
DocumentedDisk == Concurrency * 2 * MaxBytes

JobSymmetry == Permutations(Jobs)
=============================================================================
