----------------------------- MODULE GuestPool ------------------------------
(***************************************************************************)
(* The guest-alloc pool of virtgpu_vram.c: a drm_buddy allocator over a    *)
(* window of which only a prefix is SHAREd by the host. Allocation may     *)
(* extend the prefix one step at a time with a synchronous pool request;   *)
(* freeing hands completely free suffix steps back; a delayed work retries *)
(* what the host refused; teardown closes a gate over the allocator.       *)
(*                                                                         *)
(* Every change of the pool's state happens under guest_pool_lock, but the *)
(* lock is held across requests to the host, which runs at its own pace:   *)
(* a request may be refused, may be answered late, or its waiter may give  *)
(* up after 30 s without knowing what the host did. The host (crosvm's     *)
(* pool device and the Resource Manager) is external: it is modelled from  *)
(* what gunyah_guest.c and virtgpu_vram.c rely on.                         *)
(***************************************************************************)
EXTENDS Integers, Sequences, FiniteSets, PoolSizing

CONSTANTS
  Bo,          \* buffer objects; each one's alloc and free run in its own thread
  Worker,      \* the kworker that runs guest_pool_reclaim_work
  Fini,        \* the thread that runs virtio_gpu_guest_pool_fini
  Nobody,
  Prealloc,    \* gpu_guest_pool_prealloc, the floor shared before boot
  Step,        \* the step-size of the device tree
  MaxNents,    \* guest_pool_max_nents
  Requests,    \* sizes user space may ask for (params->size, in pages)
  QueueDepth,  \* requests the pool virtqueue can hold
  LossyOps,    \* operations whose 30 s wait may expire
  RefusedOps,  \* operations vga_pool_request may fail without sending
  HostErrors   \* errors the host may answer to SHARE and UNSHARE

Proc  == Bo \cup {Worker, Fini}
Pages == 0 .. Size - 1
Ops   == {"SHARE", "UNSHARE", "QUERY"}

(***************************************************************************)
(* The checks of virtio_gpu_guest_pool_init() on the device-tree values    *)
(* (the alignments are written as multiples), and the shape of the model.  *)
(***************************************************************************)
ASSUME PoolAssumption ==
  /\ Prealloc \in 0 .. Size
  /\ Step \in 0 .. Size
  /\ Step = 0 => Prealloc = Size
  /\ \E k \in 0 .. Size : Prealloc = k * Step \/ Step = 0
  /\ \E k \in 0 .. Size : Size = k * Step \/ Step = 0
  /\ Requests \subseteq Nat \ {0}
  /\ QueueDepth \in Nat /\ QueueDepth >= 2
  /\ LossyOps \subseteq Ops
  /\ RefusedOps \subseteq Ops
  /\ HostErrors \subseteq {"EBUSY", "EIO", "EUCLEAN", "EFAIL"}
  /\ Worker \notin Bo /\ Fini \notin Bo /\ Worker # Fini
  /\ Nobody \notin Proc

VARIABLES
  ready,      \* guest_pool_ready
  backed,     \* gpu_guest_pool_backed
  step,       \* gpu_guest_pool_step, 0 once growth is disabled
  blk,        \* pages of each buffer object's block list
  req,        \* the size each buffer object asked for
  pc,         \* where each thread is
  owner,      \* holder of guest_pool_lock
  ret,        \* errno saved by shrink_one across its query
  armed,      \* guest_pool_reclaim_work is pending
  canceling,  \* cancel_delayed_work_sync is under way
  hostq,      \* requests the host has not served yet (external)
  reply,      \* answer to the request the lock holder waits for
  grant,      \* pages the host has SHAREd (external)
  mapped      \* pages mapped in the guest's stage-2 (external)

poolVars  == <<ready, backed, step>>
boVars    == <<blk, req>>
workVars  == <<armed, canceling>>
hostVars  == <<grant, mapped>>
vars == <<ready, backed, step, blk, req, pc, owner, ret, armed, canceling,
          hostq, reply, grant, mapped>>

Locked   == {"alloc", "share", "shareQuery", "reclaim", "unshare", "unshareQuery"}
Unlocked == {"none", "allocLock", "held", "freeLock", "sched", "workLock",
             "cancel", "finiLock", "closed", "dead"}
Errnos   == {"OK", "EEXIST", "EBUSY", "EIO", "EUCLEAN", "EFAIL", "ETIMEDOUT"}
Replies  == {"NONE", "OK", "EEXIST", "EBUSY", "EIO", "EUCLEAN", "EFAIL",
             "BACKED", "UNBACKED", "REFUSED"}
Message  == [op : Ops, offset : 0 .. Size - Step]

TypeOK ==
  /\ ready \in BOOLEAN
  /\ backed \in 0 .. Size
  /\ step \in {0, Step}
  /\ blk \in [Bo -> SUBSET Pages]
  /\ req \in [Bo -> Requests \cup {0}]
  /\ pc \in [Proc -> Locked \cup Unlocked]
  /\ owner \in Proc \cup {Nobody}
  /\ ret \in Errnos
  /\ armed \in BOOLEAN
  /\ canceling \in BOOLEAN
  /\ hostq \in Seq(Message)
  /\ reply \in Replies
  /\ grant \subseteq Pages
  /\ mapped \subseteq Pages
-----------------------------------------------------------------------------
(***************************************************************************)
(* drm_buddy, external: a set of free pages. An allocation of n pages with *)
(* minimum block size m is a union of m-aligned blocks of m free pages     *)
(* below the range's end; drm_buddy answers -ENOSPC when there is none. It *)
(* refuses a minimum block size that is not a power of two.                *)
(***************************************************************************)
FreePages == Pages \ UNION {blk[b] : b \in Bo}

Carvings(n, m, end) ==
  {U \in SUBSET {p \in FreePages : p < end} :
     /\ Cardinality(U) = n
     /\ \A p \in U : ((p \div m) * m) .. ((p \div m) * m + m - 1) \subseteq U}

StepPages(offset) == offset .. offset + Step - 1

SuffixFree == StepPages(backed - step) \subseteq FreePages
-----------------------------------------------------------------------------
Init ==
  /\ ready = TRUE
  /\ backed = Prealloc
  /\ step = Step
  /\ blk = [b \in Bo |-> {}]
  /\ req = [b \in Bo |-> 0]
  /\ pc = [p \in Proc |-> "none"]
  /\ owner = Nobody
  /\ ret = "OK"
  /\ armed = FALSE
  /\ canceling = FALSE
  /\ hostq = <<>>
  /\ reply = "NONE"
  /\ grant = 0 .. Prealloc - 1
  /\ mapped = 0 .. Prealloc - 1

Goto(p, label) == pc' = [pc EXCEPT ![p] = label]

Lock(p, label) ==
  /\ owner = Nobody
  /\ owner' = p
  /\ Goto(p, label)

Unlock(p, label) ==
  /\ owner' = Nobody
  /\ Goto(p, label)

(***************************************************************************)
(* vga_pool_request as its caller under the lock sees it: the request goes *)
(* on the queue and the caller sleeps, or an errno comes back at once (no  *)
(* device, no memory, queue full).                                         *)
(***************************************************************************)
Send(p, op, offset, label) ==
  /\ Len(hostq) < QueueDepth
  /\ hostq' = Append(hostq, [op |-> op, offset |-> offset])
  /\ reply' = "NONE"
  /\ Goto(p, label)

Refused(op) == op \in RefusedOps \/ Len(hostq) >= QueueDepth

(* The wait expires: the caller no longer looks at the answer.             *)
WaitExpires(p, op) ==
  /\ op \in LossyOps
  /\ reply = "NONE"

Answered == reply # "NONE"
-----------------------------------------------------------------------------
(* virtio_gpu_guest_pool_alloc() up to the lock. *)
AllocEnter(b, n) ==
  /\ pc[b] = "none"
  /\ ready
  /\ RequestSize(n, MaxNents) <= Size
  /\ req' = [req EXCEPT ![b] = n]
  /\ Goto(b, "allocLock")
  /\ UNCHANGED <<poolVars, blk, owner, ret, workVars, hostq, reply, hostVars>>

(* The lock is taken and the gate checked again: -ENODEV if it closed.     *)
AllocLock(b) ==
  /\ pc[b] = "allocLock"
  /\ \/ ready /\ Lock(b, "alloc")
     \/ ~ready /\ owner = Nobody /\ Goto(b, "none") /\ UNCHANGED owner
  /\ UNCHANGED <<poolVars, boVars, ret, workVars, hostq, reply, hostVars>>

Wanted(b)   == RequestSize(req[b], MaxNents)
Fits(b)     == Carvings(Wanted(b), MinBlockSize(req[b], MaxNents), backed)
(* Mutant: the room left in the window is not checked. *)
CanGrowBlind == step # 0

CanGrow     == step # 0 /\ backed < Size /\ step <= Size - backed

(* drm_buddy found the blocks: the object owns them, the lock is dropped.  *)
AllocCarve(b) ==
  /\ pc[b] = "alloc"
  /\ backed >= Wanted(b)
  /\ \E U \in Fits(b) : blk' = [blk EXCEPT ![b] = U]
  /\ Unlock(b, "held")
  /\ UNCHANGED <<poolVars, req, ret, workVars, hostq, reply, hostVars>>

(* The prefix is too short, or too fragmented: SHARE one more step.        *)
AllocGrow(b) ==
  /\ pc[b] = "alloc"
  /\ backed < Wanted(b) \/ Fits(b) = {}
  /\ CanGrow
  /\ Send(b, "SHARE", backed, "share")
  /\ UNCHANGED <<poolVars, boVars, owner, ret, workVars, hostVars>>

(***************************************************************************)
(* The allocation fails: the pool cannot grow, the request was refused, or *)
(* drm_buddy could not allocate its own bookkeeping. Still locked, it      *)
(* hands back the steps it may have added.                                 *)
(***************************************************************************)
AllocFail(b) ==
  /\ pc[b] = "alloc"
  /\ \/ (backed < Wanted(b) \/ Fits(b) = {}) /\ (~CanGrow \/ Refused("SHARE"))
     \/ backed >= Wanted(b)
  /\ Goto(b, "reclaim")
  /\ UNCHANGED <<poolVars, boVars, owner, ret, workVars, hostq, reply, hostVars>>

(***************************************************************************)
(* grow_one_locked after SHARE: success raises the boundary, -EEXIST and   *)
(* -ETIMEDOUT ask the host about the exact range, any other errno fails    *)
(* the allocation.                                                         *)
(***************************************************************************)
ShareDone(b) ==
  /\ pc[b] = "share"
  /\ Answered
  /\ reply \notin {"EEXIST"}
  /\ IF reply = "OK"
     THEN /\ backed' = backed + step
          /\ Goto(b, "alloc")
     ELSE /\ Goto(b, "reclaim")
          /\ UNCHANGED backed
  /\ reply' = "NONE"
  /\ UNCHANGED <<ready, step, boVars, owner, ret, workVars, hostq, hostVars>>

(* Mutant: a timed out SHARE is taken for one that did not happen.         *)
ShareUnknownFails(b) ==
  /\ pc[b] = "share"
  /\ reply = "EEXIST" \/ WaitExpires(b, "SHARE")
  /\ Goto(b, "reclaim")
  /\ reply' = "NONE"
  /\ UNCHANGED <<poolVars, boVars, owner, ret, workVars, hostq, hostVars>>

ShareUnknown(b) ==
  /\ pc[b] = "share"
  /\ reply = "EEXIST" \/ WaitExpires(b, "SHARE")
  /\ \/ Send(b, "QUERY", backed, "shareQuery")
     \/ Refused("QUERY") /\ Goto(b, "reclaim") /\ reply' = "NONE" /\ UNCHANGED hostq
  /\ UNCHANGED <<poolVars, boVars, owner, ret, workVars, hostVars>>

(* Mutant: range_backed starts out TRUE, so a negative answer is lost.     *)
ShareReconciledAnyway(b) ==
  /\ pc[b] = "shareQuery"
  /\ Answered \/ WaitExpires(b, "QUERY")
  /\ backed' = backed + step
  /\ Goto(b, "alloc")
  /\ reply' = "NONE"
  /\ UNCHANGED <<ready, step, boVars, owner, ret, workVars, hostq, hostVars>>

(* The query's answer decides; a failed query leaves SHARE's errno.        *)
ShareReconciled(b) ==
  /\ pc[b] = "shareQuery"
  /\ Answered \/ WaitExpires(b, "QUERY")
  /\ IF reply = "BACKED"
     THEN /\ backed' = backed + step
          /\ Goto(b, "alloc")
     ELSE /\ Goto(b, "reclaim")
          /\ UNCHANGED backed
  /\ reply' = "NONE"
  /\ UNCHANGED <<ready, step, boVars, owner, ret, workVars, hostq, hostVars>>
-----------------------------------------------------------------------------
(***************************************************************************)
(* virtio_gpu_guest_pool_free(): a closed gate leaves the block list       *)
(* alone, before the lock and again under it.                              *)
(***************************************************************************)
FreeEnter(b) ==
  /\ pc[b] = "held"
  /\ Goto(b, IF ready THEN "freeLock" ELSE "dead")
  /\ UNCHANGED <<poolVars, boVars, owner, ret, workVars, hostq, reply, hostVars>>

(* Mutant: the gate is not looked at again under the lock.                 *)
FreeLockUngated(b) ==
  /\ pc[b] = "freeLock"
  /\ Lock(b, "reclaim")
  /\ blk' = [blk EXCEPT ![b] = {}]
  /\ UNCHANGED <<poolVars, req, ret, workVars, hostq, reply, hostVars>>

FreeLock(b) ==
  /\ pc[b] = "freeLock"
  /\ \/ /\ ready
        /\ Lock(b, "reclaim")
        /\ blk' = [blk EXCEPT ![b] = {}]
     \/ /\ ~ready
        /\ owner = Nobody
        /\ Goto(b, "dead")
        /\ UNCHANGED <<owner, blk>>
  /\ UNCHANGED <<poolVars, req, ret, workVars, hostq, reply, hostVars>>

(* Mutants: no probe of the top step; the floor is off by one.             *)
StepFreeUnprobed == step # 0 /\ backed > Prealloc /\ step \in Pow2

StepFreeBelowFloor ==
  step # 0 /\ backed >= Prealloc /\ step \in Pow2 /\ backed >= step /\ SuffixFree

(* step_free_locked: the exact-range probe of the top step succeeds.       *)
StepFree ==
  /\ step # 0
  /\ backed > Prealloc
  /\ step \in Pow2
  /\ SuffixFree

(* One turn of reclaim_locked: the top step is free, ask the host for it.  *)
ReclaimUnshare(p) ==
  /\ pc[p] = "reclaim"
  /\ StepFree
  /\ Send(p, "UNSHARE", backed - step, "unshare")
  /\ UNCHANGED <<poolVars, boVars, owner, ret, workVars, hostVars>>

(* The loop ends: nothing (more) to hand back, lock dropped, no retry.     *)
ReclaimDone(p) ==
  /\ pc[p] = "reclaim"
  /\ ~StepFree
  /\ Unlock(p, "none")
  /\ UNCHANGED <<poolVars, boVars, ret, workVars, hostq, reply, hostVars>>

(* shrink_one_locked: 0 lowers the boundary and the loop goes on.          *)
UnshareDone(p) ==
  /\ pc[p] = "unshare"
  /\ reply = "OK"
  /\ backed' = backed - step
  /\ reply' = "NONE"
  /\ Goto(p, "reclaim")
  /\ UNCHANGED <<ready, step, boVars, owner, ret, workVars, hostq, hostVars>>

(***************************************************************************)
(* Any error, a refusal and an expired wait included, is kept in ret while *)
(* the host is asked about the exact range; if the query cannot be sent    *)
(* shrink_one goes on with that error.                                     *)
(***************************************************************************)
UnshareUnknown(p) ==
  /\ \/ /\ pc[p] = "unshare"
        /\ \/ Answered /\ reply # "OK" /\ ret' = reply
           \/ WaitExpires(p, "UNSHARE") /\ ret' = "ETIMEDOUT"
     \/ /\ pc[p] = "reclaim" /\ StepFree
        /\ Refused("UNSHARE") /\ ret' = "EFAIL"
  /\ \/ Send(p, "QUERY", backed - step, "unshareQuery")
     \/ /\ Refused("QUERY")
        /\ reply' = "REFUSED"
        /\ Goto(p, "unshareQuery")
        /\ UNCHANGED hostq
  /\ UNCHANGED <<poolVars, boVars, owner, workVars, hostVars>>

(* Mutant: -EIO is not retried.                                            *)
UnshareReconciledNoEio(p) ==
  /\ pc[p] = "unshareQuery"
  /\ Answered
  /\ reply' = "NONE"
  /\ IF reply = "UNBACKED"
     THEN backed' = backed - step /\ Goto(p, "reclaim") /\ UNCHANGED owner
     ELSE /\ Unlock(p, IF ret \in {"EBUSY", "ETIMEDOUT"} THEN "sched" ELSE "none")
          /\ UNCHANGED backed
  /\ UNCHANGED <<ready, step, boVars, ret, workVars, hostq, hostVars>>

(***************************************************************************)
(* The rest of shrink_one and reclaim once the query answered or failed.   *)
(* Unbacked: the step is gone. -EUCLEAN: give the step up and stop growing *)
(* for good. -EBUSY, -ETIMEDOUT, -EIO: unlock and retry later. Anything    *)
(* else: unlock and give up.                                               *)
(***************************************************************************)
UnshareReconciled(p) ==
  /\ pc[p] = "unshareQuery"
  /\ Answered \/ WaitExpires(p, "QUERY")
  /\ reply' = "NONE"
  /\ \/ /\ reply = "UNBACKED"
        /\ backed' = backed - step
        /\ Goto(p, "reclaim")
        /\ UNCHANGED <<step, owner>>
     \/ /\ reply # "UNBACKED" /\ ret = "EUCLEAN"
        /\ backed' = backed - step
        /\ step' = 0
        /\ Goto(p, "reclaim")
        /\ UNCHANGED owner
     \/ /\ reply # "UNBACKED" /\ ret # "EUCLEAN"
        /\ Unlock(p, IF ret \in {"EBUSY", "ETIMEDOUT", "EIO"} THEN "sched" ELSE "none")
        /\ UNCHANGED <<backed, step>>
  /\ UNCHANGED <<ready, boVars, ret, workVars, hostq, hostVars>>

(* Mutant: the retry is not scheduled.                                     *)
ScheduleForgotten(p) ==
  /\ pc[p] = "sched"
  /\ Goto(p, "none")
  /\ UNCHANGED <<poolVars, boVars, owner, ret, workVars, hostq, reply, hostVars>>

(* schedule_delayed_work, outside the lock; a no-op while being cancelled. *)
Schedule(p) ==
  /\ pc[p] = "sched"
  /\ armed' = (armed \/ ~canceling)
  /\ Goto(p, "none")
  /\ UNCHANGED <<poolVars, boVars, owner, ret, canceling, hostq, reply, hostVars>>

(* The timer fires and the kworker starts guest_pool_reclaim_work.         *)
WorkStart ==
  /\ armed
  /\ pc[Worker] = "none"
  /\ armed' = FALSE
  /\ Goto(Worker, "workLock")
  /\ UNCHANGED <<poolVars, boVars, owner, ret, canceling, hostq, reply, hostVars>>

WorkLock ==
  /\ pc[Worker] = "workLock"
  /\ \/ ready /\ Lock(Worker, "reclaim")
     \/ ~ready /\ owner = Nobody /\ Goto(Worker, "none") /\ UNCHANGED owner
  /\ UNCHANGED <<poolVars, boVars, ret, workVars, hostq, reply, hostVars>>
-----------------------------------------------------------------------------
(***************************************************************************)
(* virtio_gpu_guest_pool_fini(): cancel_delayed_work_sync disarms the work *)
(* and waits for a running one, then the gate closes and the buddy tree is *)
(* destroyed, both under the lock.                                         *)
(***************************************************************************)
FiniCancel ==
  /\ pc[Fini] = "none"
  /\ armed' = FALSE
  /\ canceling' = TRUE
  /\ Goto(Fini, "cancel")
  /\ UNCHANGED <<poolVars, boVars, owner, ret, hostq, reply, hostVars>>

FiniCancelled ==
  /\ pc[Fini] = "cancel"
  /\ pc[Worker] = "none"
  /\ canceling' = FALSE
  /\ Goto(Fini, "finiLock")
  /\ UNCHANGED <<poolVars, boVars, owner, ret, armed, hostq, reply, hostVars>>

FiniClose ==
  /\ pc[Fini] = "finiLock"
  /\ owner = Nobody
  /\ ready' = FALSE
  /\ Goto(Fini, "closed")
  /\ UNCHANGED <<backed, step, boVars, owner, ret, workVars, hostq, reply, hostVars>>
-----------------------------------------------------------------------------
(***************************************************************************)
(* The host, external: serves the pool queue in order. The answer reaches  *)
(* the lock holder if it still waits for this request, which is then the   *)
(* last one on the queue; the answer to an abandoned request goes to the   *)
(* leaked context.                                                         *)
(***************************************************************************)
Waiting ==
  owner # Nobody /\ pc[owner] \in {"share", "shareQuery", "unshare", "unshareQuery"}

Answer(r) ==
  /\ hostq' = Tail(hostq)
  /\ reply' = IF Waiting /\ Len(hostq) = 1 /\ reply = "NONE" THEN r ELSE reply

HostServes(op) == hostq # <<>> /\ Head(hostq).op = op

HeadPages == StepPages(Head(hostq).offset)

HostShare ==
  /\ HostServes("SHARE")
  /\ \/ /\ HeadPages \cap grant # {}
        /\ Answer("EEXIST")
        /\ UNCHANGED hostVars
     \/ /\ HeadPages \cap grant = {}
        /\ Answer("OK")
        /\ grant' = grant \cup HeadPages
        /\ mapped' = mapped \cup HeadPages
  /\ UNCHANGED <<poolVars, boVars, pc, owner, ret, workVars>>

HostUnshare ==
  /\ HostServes("UNSHARE")
  /\ Answer("OK")
  /\ grant' = grant \ HeadPages
  /\ mapped' = mapped \ HeadPages
  /\ UNCHANGED <<poolVars, boVars, pc, owner, ret, workVars>>

(* -EUCLEAN: the grant is kept but the guest's mapping could not be put    *)
(* back. Every other error leaves grant and mapping as they were.          *)
HostError ==
  /\ HostServes("SHARE") \/ HostServes("UNSHARE")
  /\ \E e \in HostErrors :
       /\ e = "EUCLEAN" => HostServes("UNSHARE")
       /\ Answer(e)
       /\ mapped' = IF e = "EUCLEAN" THEN mapped \ HeadPages ELSE mapped
  /\ UNCHANGED <<poolVars, boVars, pc, owner, ret, workVars, grant>>

HostQuery ==
  /\ HostServes("QUERY")
  /\ Answer(IF HeadPages \subseteq grant THEN "BACKED" ELSE "UNBACKED")
  /\ UNCHANGED <<poolVars, boVars, pc, owner, ret, workVars, hostVars>>

(* The pool is gone and nothing is left to run.                            *)
Stopped ==
  /\ pc[Fini] = "closed"
  /\ \A p \in Proc \ {Fini} : pc[p] \in {"none", "dead"}
  /\ ~armed
  /\ hostq = <<>>
  /\ UNCHANGED vars
-----------------------------------------------------------------------------
AllocNext(b) ==
  \/ \E n \in Requests : AllocEnter(b, n)
  \/ AllocLock(b) \/ AllocCarve(b) \/ AllocGrow(b) \/ AllocFail(b)
  \/ ShareDone(b) \/ ShareUnknown(b) \/ ShareReconciled(b)

FreeNext(b) == FreeEnter(b) \/ FreeLock(b)

ReclaimNext(p) ==
  \/ ReclaimUnshare(p) \/ ReclaimDone(p)
  \/ UnshareDone(p) \/ UnshareUnknown(p) \/ UnshareReconciled(p)
  \/ Schedule(p)

WorkNext == WorkStart \/ WorkLock
FiniNext == FiniCancel \/ FiniCancelled \/ FiniClose
HostNext == HostShare \/ HostUnshare \/ HostError \/ HostQuery

Next ==
  \/ \E b \in Bo : AllocNext(b) \/ FreeNext(b)
  \/ \E p \in Bo \cup {Worker} : ReclaimNext(p)
  \/ WorkNext
  \/ FiniNext
  \/ HostNext
  \/ Stopped

Spec == Init /\ [][Next]_vars
(***************************************************************************)
(* Fairness. Driver threads and the kworker are scheduled, expired timers  *)
(* run, the host serves its queue; and a host that is asked again and      *)
(* again to take a step back eventually does (whatever references kept the *)
(* step busy are dropped).                                                 *)
(***************************************************************************)
Fairness ==
  /\ \A b \in Bo : WF_vars(AllocLock(b)) /\ WF_vars(AllocCarve(b) \/ AllocGrow(b) \/ AllocFail(b))
  /\ \A b \in Bo : WF_vars(ShareDone(b) \/ ShareUnknown(b)) /\ WF_vars(ShareReconciled(b))
  /\ \A b \in Bo : WF_vars(FreeLock(b))
  /\ \A p \in Bo \cup {Worker} : WF_vars(ReclaimNext(p))
  /\ WF_vars(WorkStart) /\ SF_vars(WorkLock)
  /\ WF_vars(HostNext) /\ SF_vars(HostUnshare)

FairSpec == Spec /\ Fairness
-----------------------------------------------------------------------------
(***************************************************************************)
(* What the reconciliation needs to be sound: if an UNSHARE may go         *)
(* unanswered, the QUERY after it gets through, and the host does not drop *)
(* a mapping while it keeps the grant. Nothing is asked of SHARE.          *)
(***************************************************************************)
Recoverable ==
  "UNSHARE" \in LossyOps =>
    "QUERY" \notin LossyOps \cup RefusedOps /\ "EUCLEAN" \notin HostErrors

(* The answer to a QUERY always reaches the driver.                        *)
Answering == "QUERY" \notin LossyOps \cup RefusedOps

(* An UNSHARE fails only with an errno that reclaim_locked retries, and    *)
(* the step is a block size drm_buddy can probe for.                       *)
Retriable ==
  Answering /\ Step \in Pow2 /\ "UNSHARE" \notin RefusedOps /\ "EFAIL" \notin HostErrors

(* A thread of the pool is between taking a step back and knowing it.      *)
Shrinking == owner # Nobody /\ pc[owner] \in {"unshare", "unshareQuery"}

(***************************************************************************)
(* Every page of every buffer object is SHAREd by the host and mapped in   *)
(* the guest at all times, whatever request is in flight or timed out: "A  *)
(* read from an ungranted protected-VM address is silently zero". It rests *)
(* on alloc never carving above the boundary and on reclaim taking back    *)
(* only steps the probe found free.                                        *)
(***************************************************************************)
BoPagesShared == \A b \in Bo : blk[b] \subseteq grant \cap mapped

(***************************************************************************)
(* "gpu_guest_pool_backed is the access boundary": except while the lock   *)
(* holder is itself taking the top step back, everything below the         *)
(* boundary may be touched, so the next allocation may carve any of it.    *)
(***************************************************************************)
BoundaryHonest == ~Shrinking => 0 .. backed - 1 \subseteq grant \cap mapped

(***************************************************************************)
(* Nobody works on the buddy tree once fini destroyed it: a thread past    *)
(* the gate holds the lock, and the gate stays open until it lets go (late *)
(* RESOURCE_UNREF callbacks and a late reclaim work included).             *)
(***************************************************************************)
GateHolds == owner # Nobody => ready

(***************************************************************************)
(* The boundary stays on the grid of steps between the floor and the       *)
(* window's end, so grow_one's -EINVAL ("step > size - backed") is never   *)
(* reached and shrink_one never cuts into the preshared floor.             *)
(***************************************************************************)
BoundaryOnGrid ==
  /\ Prealloc <= backed /\ backed <= Size
  /\ Step # 0 => \E k \in 0 .. Size : backed = k * Step
  /\ step # 0 /\ backed < Size => step <= Size - backed

(***************************************************************************)
(* Where queries are answered, a lost SHARE or UNSHARE reply never leaves  *)
(* host and guest with different ideas of the grant: with the lock free,   *)
(* nothing above the boundary is granted, except the one step an -EUCLEAN  *)
(* deliberately leaks ("Leaking the host grant is preferable").            *)
(***************************************************************************)
NoOrphanGrant ==
  owner = Nobody =>
    \/ grant \subseteq 0 .. backed - 1
    \/ step = 0 /\ grant \subseteq 0 .. backed + Step - 1

(***************************************************************************)
(* A free step above the floor is never forgotten: with the lock free,     *)
(* before teardown, either the top step is in use or a retry is armed or   *)
(* about to be ("Return those steps immediately instead of making an OOM   *)
(* attempt permanently raise the floor").                                  *)
(***************************************************************************)
SuffixNotForgotten ==
  (owner = Nobody /\ pc[Fini] = "none" /\ step # 0 /\ backed > Prealloc /\ SuffixFree)
    => \/ armed
       \/ pc[Worker] = "workLock"
       \/ \E p \in Bo \cup {Worker} : pc[p] = "sched"

(***************************************************************************)
(* A pool nobody allocates from goes back to its floor, unless teardown    *)
(* began or the host disabled growth: the 100 ms retry works through       *)
(* -EBUSY, -EIO and lost replies.                                          *)
(***************************************************************************)
Idle == \A b \in Bo : pc[b] \in {"none", "sched", "reclaim", "unshare", "unshareQuery"}

PoolShrinksBack ==
  <>[]Idle => <>[](backed = Prealloc \/ step = 0 \/ pc[Fini] # "none")
=============================================================================
