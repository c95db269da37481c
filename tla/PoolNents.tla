----------------------------- MODULE PoolNents ------------------------------
(***************************************************************************)
(* How many mem-entries a guest-alloc object turns into. The allocation    *)
(* reads guest_pool_max_nents once and derives the minimum block size from *)
(* it (module PoolSizing); drm_buddy returns between one and               *)
(* RequestSize / MinBlockSize blocks; virtio_gpu_guest_pool_create counts  *)
(* them and compares with the module parameter, which it reads again and   *)
(* which may be written through sysfs (mode 0644) at any time.             *)
(***************************************************************************)
EXTENDS PoolSizing

CONSTANT Params   \* values guest_pool_max_nents is given

ASSUME NentsAssumption == Params \subseteq Int

VARIABLES
  param,     \* guest_pool_max_nents
  stage,     \* where the create is
  maxNents,  \* max_nents, the value the allocation read
  size,      \* params->size, in pages
  minBs,     \* min_bs
  request,   \* request_size
  nents      \* blocks in the object's list

createVars == <<param, stage, maxNents, size, minBs, request, nents>>

CreateTypeOK ==
  /\ param \in Params
  /\ stage \in {"start", "read", "alloc", "count", "created", "tripped"}
  /\ maxNents \in Params
  /\ size \in 0 .. Size
  /\ minBs \in Pow2
  /\ request \in 0 .. Size
  /\ nents \in 0 .. Size

CreateInit ==
  /\ param \in Params
  /\ stage = "start"
  /\ maxNents = param
  /\ size = 0
  /\ minBs = 1
  /\ request = 0
  /\ nents = 0

(* A write to the module parameter. *)
SetParam ==
  /\ param' \in Params
  /\ UNCHANGED <<stage, maxNents, size, minBs, request, nents>>

(* max_nents = READ_ONCE(guest_pool_max_nents) for a request of n pages.   *)
ReadParam(n) ==
  /\ stage = "start"
  /\ stage' = "read"
  /\ size' = n
  /\ maxNents' = param
  /\ UNCHANGED <<param, minBs, request, nents>>

(* Mutant: without READ_ONCE the parameter is read once more.              *)
SizeBlocksReread ==
  /\ stage = "read"
  /\ RequestSize(size, param) <= Size
  /\ stage' = "alloc"
  /\ minBs' = MinBlockSize(size, maxNents)
  /\ request' = RequestSize(size, param)
  /\ UNCHANGED <<param, maxNents, size, nents>>

(* The sizing in virtio_gpu_guest_pool_alloc; too large is -ENOMEM.        *)
SizeBlocks ==
  /\ stage = "read"
  /\ \/ /\ RequestSize(size, maxNents) <= Size
        /\ stage' = "alloc"
        /\ minBs' = MinBlockSize(size, maxNents)
        /\ request' = RequestSize(size, maxNents)
     \/ /\ RequestSize(size, maxNents) > Size
        /\ stage' = "start"
        /\ UNCHANGED <<minBs, request>>
  /\ UNCHANGED <<param, maxNents, size, nents>>

(* drm_buddy, external: blocks of at least min_bs that add up.             *)
Scatter ==
  /\ stage = "alloc"
  /\ nents' \in 1 .. request \div minBs
  /\ stage' = "count"
  /\ UNCHANGED <<param, maxNents, size, minBs, request>>

(* The check in virtio_gpu_guest_pool_create; -ENOSPC when it trips.       *)
CountBlocks ==
  /\ stage = "count"
  /\ stage' = IF param > 0 /\ nents > param THEN "tripped" ELSE "created"
  /\ UNCHANGED <<param, maxNents, size, minBs, request, nents>>

(* The next create starts over. *)
Again ==
  /\ stage \in {"created", "tripped"}
  /\ stage' = "start"
  /\ minBs' = 1
  /\ request' = 0
  /\ nents' = 0
  /\ UNCHANGED <<param, maxNents, size>>

CreateNext ==
  \/ SetParam
  \/ \E n \in 1 .. Size : ReadParam(n)
  \/ SizeBlocks
  \/ Scatter
  \/ CountBlocks
  \/ Again

CreateSpec == CreateInit /\ [][CreateNext]_createVars
-----------------------------------------------------------------------------
(***************************************************************************)
(* "virtio_gpu_guest_pool_alloc() already sizes the blocks so this cannot  *)
(* trip": however badly the pool is fragmented, the list has at most as    *)
(* many entries as the value the allocation read allowed. The check after  *)
(* it trips only if the parameter was lowered meanwhile. A value of 1 is   *)
(* left out: there the block size is rounded down to a power of two below  *)
(* the size, and a size of 3 pages may come back as two blocks of 2.       *)
(***************************************************************************)
NeverTrips ==
  stage \in {"count", "created", "tripped"} /\ maxNents >= 2 => nents <= maxNents

(***************************************************************************)
(* What drm_buddy requires, and refuses with -EINVAL otherwise: the size   *)
(* is a whole number of minimum blocks; and what the object requires: the  *)
(* blocks hold all of it, with less than one block of slack.               *)
(***************************************************************************)
WholeBlocks ==
  stage = "alloc" =>
    /\ \E k \in 1 .. request : request = k * minBs
    /\ size <= request /\ request < size + minBs
=============================================================================
