--------------------------- MODULE MCPoolRequest ----------------------------
(* Instances of PoolRequest for TLC. The descriptors start in a fixed      *)
(* order, so only callers and contexts are interchangeable.                *)
EXTENDS PoolRequest, TLC

Symmetry == Permutations(Caller) \cup Permutations(Ctx)
=============================================================================
