-------------------------- MODULE MCAssetPipeline --------------------------
(***************************************************************************)
(* Instances of AssetPipeline for TLC.  Workers and partitions are         *)
(* interchangeable, which the safety runs use as a symmetry.               *)
(***************************************************************************)
EXTENDS AssetPipeline, TLC

WorkerPartSymmetry == Permutations(Worker) \cup Permutations(Part)
=============================================================================
