---------------------------- MODULE MCGuestPool -----------------------------
(* Instances of GuestPool for TLC: a window of a few pages. *)
EXTENDS GuestPool, TLC

Powers == {1, 2, 4, 8}

BoSymmetry == Permutations(Bo)
=============================================================================
