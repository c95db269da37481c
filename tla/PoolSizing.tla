----------------------------- MODULE PoolSizing -----------------------------
(***************************************************************************)
(* The block arithmetic of virtio_gpu_guest_pool_alloc(): from a requested *)
(* size and the module parameter guest_pool_max_nents, the minimum block   *)
(* size drm_buddy is asked for and the size the request is rounded up to.  *)
(* Sizes are counted in pages (drm_buddy's chunk), so PAGE_SIZE is 1 and   *)
(* the first ALIGN(size, PAGE_SIZE) has already happened.                  *)
(***************************************************************************)
EXTENDS Integers

CONSTANTS
  Size,    \* gpu_guest_pool_size, in pages
  Pow2     \* the powers of two up to the first one that reaches Size

(***************************************************************************)
(* What the arithmetic needs of the powers of two: one lies in [n, 2n) and *)
(* one in (n/2, n], for every size n a request may have.                   *)
(***************************************************************************)
ASSUME SizingAssumption ==
  /\ Size \in Nat \ {0}
  /\ Pow2 \subseteq Nat \ {0}
  /\ 1 \in Pow2
  /\ \A n \in 1 .. Size : \E p \in Pow2 : n <= p /\ p < 2 * n
  /\ \A n \in 1 .. Size : \E p \in Pow2 : p <= n /\ n < 2 * p

DivRoundUp(n, d) == (n + d - 1) \div d

AlignUp(n, a) == DivRoundUp(n, a) * a

RoundUpPow2(n) == CHOOSE p \in Pow2 : n <= p /\ p < 2 * n

RoundDownPow2(n) == CHOOSE p \in Pow2 : p <= n /\ n < 2 * p

(* Mutant: the quotient is rounded down, so one block too many may fit.     *)
MinBlockSizeDown(n, maxNents) ==
  IF maxNents > 0 THEN RoundDownPow2(DivRoundUp(n, maxNents)) ELSE 1

(***************************************************************************)
(* min_bs. A guest_pool_max_nents that is not positive means "unbounded".  *)
(***************************************************************************)
MinBlockSize(n, maxNents) ==
  LET wanted == RoundUpPow2(DivRoundUp(n, maxNents))
  IN  CASE maxNents <= 0 -> 1
        [] maxNents > 0 /\ wanted > n -> RoundDownPow2(n)
        [] OTHER -> wanted

(* The size handed to drm_buddy: a multiple of min_bs, or it is rejected.  *)
RequestSize(n, maxNents) ==
  IF maxNents > 0 THEN AlignUp(n, MinBlockSize(n, maxNents)) ELSE n
=============================================================================
