---------------------------- MODULE MCPoolObject ----------------------------
(* Instances of PoolObject for TLC. *)
EXTENDS PoolObject, TLC

ObjectSymmetry == Permutations(Bo) \cup Permutations(Block) \cup Permutations(Ids)
=============================================================================
