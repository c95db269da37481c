---------------------------- MODULE MCPoolNents -----------------------------
(* Instances of PoolNents for TLC. *)
EXTENDS PoolNents

Powers == {1, 2, 4, 8, 16, 32}
Values == {0 - 1} \cup 0 .. 7
=============================================================================
