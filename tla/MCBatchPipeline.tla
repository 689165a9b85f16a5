---------------------------- MODULE MCBatchPipeline ----------------------------
(* Instances of BatchPipeline for TLC.                                       *)
EXTENDS BatchPipeline, TLC

(* Safety runs only: no definition distinguishes two rows, two Anthropic     *)
(* ids or two workers.                                                       *)
Symmetry == Permutations(Batches) \cup Permutations(Remotes) \cup Permutations(Workers)
================================================================================
