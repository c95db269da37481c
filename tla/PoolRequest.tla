---------------------------- MODULE PoolRequest -----------------------------
(***************************************************************************)
(* Queue 2 of the accept device (gunyah_guest.c): vga_pool_request(), the  *)
(* interrupt callback that wakes its caller, and the life of the device    *)
(* object itself from vga_probe to vga_remove.                             *)
(*                                                                         *)
(* A request's context is owned by the device from virtqueue_add_sgs until *)
(* virtqueue_get_buf; its submitter may give up long before that. Adding   *)
(* runs under pool_lock and taking completed buffers under pool_cb_lock,   *)
(* two different locks over one virtqueue, so each of the two is split     *)
(* where it reads the ring's free list and where it writes it back.        *)
(***************************************************************************)
EXTENDS Integers, Sequences, FiniteSets

CONSTANTS
  Caller,      \* threads inside a consumer driver that need the pool
  Nobody,
  Ctx,         \* pieces of memory kzalloc(sizeof(struct vga_pool_ctx)) can return
  NoCtx,
  Slots,       \* descriptors of pool_vq
  NoSlot,
  Overlap      \* may the interrupt hit while a descriptor is being added?

ASSUME RequestAssumption ==
  /\ Nobody \notin Caller
  /\ NoCtx \notin Ctx
  /\ NoSlot \notin Slots
  /\ IsFiniteSet(Slots)
  /\ Overlap \in BOOLEAN

VARIABLES
  vga,        \* the life of struct vga_dev
  singleton,  \* vga_singleton # NULL
  pc,         \* where each caller is
  ctx,        \* the context each caller works on
  owner,      \* holder of pool_lock
  mem,        \* what each piece of memory is used for
  resp,       \* the device wrote this context's response (else still zero)
  done,       \* this context's completion
  free,       \* the free list of pool_vq, head first
  snap,       \* the free list as read by the holder of pool_lock
  data,       \* the context a descriptor was added with
  avail,      \* descriptors the device has not served (external)
  used,       \* descriptors the device gave back (external)
  cb,         \* the descriptor the callback is putting back
  cbSnap,     \* the free list as read by the callback
  inside,     \* history: the calls under way when vga_remove began
  overlapped  \* history: an add and a get_buf once ran at the same time

devVars  == <<vga, singleton, inside>>
ctxVars  == <<mem, resp, done>>
ringVars == <<free, data, avail, used>>
cbVars   == <<cb, cbSnap, overlapped>>
vars == <<vga, singleton, pc, ctx, owner, mem, resp, done, free, snap, data,
          avail, used, cb, cbSnap, inside, overlapped>>

Labels == {"idle", "entered", "lock", "add", "addWrite", "waiting", "expired"}

(* Types, and who may be adding to the ring: only the holder of pool_lock. *)
TypeOK ==
  /\ vga \in {"absent", "live", "unpublished", "reset", "freed"}
  /\ singleton \in BOOLEAN
  /\ pc \in [Caller -> Labels]
  /\ ctx \in [Caller -> Ctx \cup {NoCtx}]
  /\ owner \in Caller \cup {Nobody}
  /\ mem \in [Ctx -> {"unused", "held", "posted", "leaked"}]
  /\ resp \in [Ctx -> BOOLEAN]
  /\ done \in [Ctx -> BOOLEAN]
  /\ free \in Seq(Slots)
  /\ snap \in Seq(Slots)
  /\ data \in [Slots -> Ctx \cup {NoCtx}]
  /\ avail \in Seq(Slots)
  /\ used \in Seq(Slots)
  /\ cb \in Slots \cup {NoSlot}
  /\ cbSnap \in Seq(Slots)
  /\ inside \subseteq Caller
  /\ overlapped \in BOOLEAN
  /\ \A c \in Caller : pc[c] \in {"add", "addWrite"} => owner = c
  /\ \A c \in Caller : pc[c] \in {"lock", "add", "addWrite"} => ctx[c] # NoCtx
  /\ \A c \in Caller : pc[c] = "addWrite" => snap # <<>>

(* The descriptors in some order: the free list of a fresh virtqueue.      *)
FreshList ==
  CHOOSE s \in [1 .. Cardinality(Slots) -> Slots] :
    \A i, j \in DOMAIN s : s[i] = s[j] => i = j

Init ==
  /\ vga = "absent"
  /\ singleton = FALSE
  /\ pc = [c \in Caller |-> "idle"]
  /\ ctx = [c \in Caller |-> NoCtx]
  /\ owner = Nobody
  /\ mem = [x \in Ctx |-> "unused"]
  /\ resp = [x \in Ctx |-> FALSE]
  /\ done = [x \in Ctx |-> FALSE]
  /\ free = FreshList
  /\ snap = <<>>
  /\ data = [d \in Slots |-> NoCtx]
  /\ avail = <<>>
  /\ used = <<>>
  /\ cb = NoSlot
  /\ cbSnap = <<>>
  /\ inside = {}
  /\ overlapped = FALSE

Goto(c, label) == pc' = [pc EXCEPT ![c] = label]

(* vga_probe, once it can no longer fail: the device becomes visible.      *)
Probe ==
  /\ vga = "absent"
  /\ vga' = "live"
  /\ singleton' = TRUE
  /\ UNCHANGED <<inside, pc, ctx, owner, ctxVars, ringVars, snap, cbVars>>
-----------------------------------------------------------------------------
(* The caller reads vga_singleton; without a device it is sent away.       *)
Enter(c) ==
  /\ pc[c] = "idle"
  /\ singleton
  /\ Goto(c, "entered")
  /\ inside' = inside \ {c}
  /\ UNCHANGED <<vga, singleton, ctx, owner, ctxVars, ringVars, snap, cbVars>>

(* kzalloc of the context, zeroed; -ENOMEM when there is no memory left.   *)
AllocCtx(c) ==
  /\ pc[c] = "entered"
  /\ \/ \E x \in Ctx :
          /\ mem[x] = "unused"
          /\ mem' = [mem EXCEPT ![x] = "held"]
          /\ resp' = [resp EXCEPT ![x] = FALSE]
          /\ done' = [done EXCEPT ![x] = FALSE]
          /\ ctx' = [ctx EXCEPT ![c] = x]
          /\ Goto(c, "lock")
     \/ /\ \A x \in Ctx : mem[x] # "unused"
        /\ Goto(c, "idle")
        /\ UNCHANGED <<ctx, ctxVars>>
  /\ UNCHANGED <<devVars, owner, ringVars, snap, cbVars>>

LockPool(c) ==
  /\ pc[c] = "lock"
  /\ owner = Nobody
  /\ owner' = c
  /\ Goto(c, "add")
  /\ UNCHANGED <<devVars, ctx, ctxVars, ringVars, snap, cbVars>>

(* virtqueue_add_sgs, first half: read the free list.                      *)
AddRead(c) ==
  /\ pc[c] = "add"
  /\ free # <<>>
  /\ Overlap \/ cb = NoSlot
  /\ snap' = free
  /\ overlapped' = (overlapped \/ cb # NoSlot)
  /\ Goto(c, "addWrite")
  /\ UNCHANGED <<devVars, ctx, owner, ctxVars, ringVars, cb, cbSnap>>

(* -ENOSPC: unlock, free the context and return.                           *)
AddFull(c) ==
  /\ pc[c] = "add"
  /\ free = <<>>
  /\ owner' = Nobody
  /\ mem' = [mem EXCEPT ![ctx[c]] = "unused"]
  /\ ctx' = [ctx EXCEPT ![c] = NoCtx]
  /\ Goto(c, "idle")
  /\ UNCHANGED <<devVars, resp, done, ringVars, snap, cbVars>>

(* Second half: take the head descriptor, publish it, kick and unlock.     *)
AddWrite(c) ==
  /\ pc[c] = "addWrite"
  /\ free' = Tail(snap)
  /\ snap' = <<>>
  /\ data' = [data EXCEPT ![Head(snap)] = ctx[c]]
  /\ avail' = Append(avail, Head(snap))
  /\ mem' = [mem EXCEPT ![ctx[c]] = "posted"]
  /\ owner' = Nobody
  /\ Goto(c, "waiting")
  /\ UNCHANGED <<devVars, ctx, resp, done, used, cbVars>>

(* Woken: the caller reads the response and frees the context.             *)
Wake(c) ==
  /\ pc[c] = "waiting"
  /\ done[ctx[c]]
  /\ mem' = [mem EXCEPT ![ctx[c]] = "unused"]
  /\ ctx' = [ctx EXCEPT ![c] = NoCtx]
  /\ Goto(c, "idle")
  /\ UNCHANGED <<devVars, owner, resp, done, ringVars, snap, cbVars>>

(* Mutant: the context of a request that timed out is freed.               *)
ExpireFrees(c) ==
  /\ pc[c] = "waiting"
  /\ ~done[ctx[c]]
  /\ mem' = [mem EXCEPT ![ctx[c]] = "unused"]
  /\ ctx' = [ctx EXCEPT ![c] = NoCtx]
  /\ Goto(c, "expired")
  /\ UNCHANGED <<devVars, owner, resp, done, ringVars, snap, cbVars>>

(* 30 s went by: the context is left to the device.                        *)
Expire(c) ==
  /\ pc[c] = "waiting"
  /\ ~done[ctx[c]]
  /\ mem' = [mem EXCEPT ![ctx[c]] = "leaked"]
  /\ ctx' = [ctx EXCEPT ![c] = NoCtx]
  /\ Goto(c, "expired")
  /\ UNCHANGED <<devVars, owner, resp, done, ringVars, snap, cbVars>>

(* dev_err(&vga->vdev->dev, ...) and -ETIMEDOUT.                           *)
ReportTimeout(c) ==
  /\ pc[c] = "expired"
  /\ Goto(c, "idle")
  /\ UNCHANGED <<devVars, ctx, owner, ctxVars, ringVars, snap, cbVars>>
-----------------------------------------------------------------------------
Running == vga \in {"live", "unpublished"}

(* The device, external: serves requests in order, writes the response.    *)
DeviceServe ==
  /\ Running
  /\ avail # <<>>
  /\ resp' = [resp EXCEPT ![data[Head(avail)]] = TRUE]
  /\ avail' = Tail(avail)
  /\ used' = Append(used, Head(avail))
  /\ UNCHANGED <<devVars, pc, ctx, owner, mem, done, free, data, snap, cbVars>>

Adding(c) == pc[c] = "addWrite"

(* Mutant: the callback completes what has been added, served or not.      *)
CallbackTakeAvail ==
  /\ Running
  /\ cb = NoSlot
  /\ avail # <<>>
  /\ Overlap \/ \A c \in Caller : ~Adding(c)
  /\ cb' = Head(avail)
  /\ cbSnap' = free
  /\ avail' = Tail(avail)
  /\ overlapped' = (overlapped \/ \E c \in Caller : Adding(c))
  /\ UNCHANGED <<devVars, pc, ctx, owner, ctxVars, free, data, used, snap>>

(* vga_pool_cb: virtqueue_get_buf reads the used ring and the free list... *)
CallbackTake ==
  /\ Running
  /\ cb = NoSlot
  /\ used # <<>>
  /\ Overlap \/ \A c \in Caller : ~Adding(c)
  /\ cb' = Head(used)
  /\ cbSnap' = free
  /\ used' = Tail(used)
  /\ overlapped' = (overlapped \/ \E c \in Caller : Adding(c))
  /\ UNCHANGED <<devVars, pc, ctx, owner, ctxVars, free, data, avail, snap>>

(* ...puts the descriptor back, and the context's waiter is woken.         *)
CallbackComplete ==
  /\ cb # NoSlot
  /\ data[cb] # NoCtx
  /\ free' = <<cb>> \o cbSnap
  /\ cbSnap' = <<>>
  /\ done' = [done EXCEPT ![data[cb]] = TRUE]
  /\ data' = [data EXCEPT ![cb] = NoCtx]
  /\ cb' = NoSlot
  /\ UNCHANGED <<devVars, pc, ctx, owner, mem, resp, avail, used, snap, overlapped>>
-----------------------------------------------------------------------------
(* Mutant: vga_singleton keeps pointing at the device being removed.       *)
RemoveUnpublishForgets ==
  /\ vga = "live"
  /\ vga' = "unpublished"
  /\ inside' = {c \in Caller : pc[c] # "idle"}
  /\ UNCHANGED <<singleton, pc, ctx, owner, ctxVars, ringVars, snap, cbVars>>

(* vga_remove: first nobody can find the device any more; it does not wait *)
(* for the callers that already have,                                      *)
RemoveUnpublish ==
  /\ vga = "live"
  /\ vga' = "unpublished"
  /\ inside' = {c \in Caller : pc[c] # "idle"}
  /\ singleton' = FALSE
  /\ UNCHANGED <<pc, ctx, owner, ctxVars, ringVars, snap, cbVars>>

(* then the device is reset and its callbacks are over,                    *)
RemoveReset ==
  /\ vga = "unpublished"
  /\ cb = NoSlot
  /\ vga' = "reset"
  /\ UNCHANGED <<singleton, inside, pc, ctx, owner, ctxVars, ringVars, snap, cbVars>>

(* then the virtqueues are deleted and the object is freed. A call under   *)
(* way goes on with what the object last held; that its memory may by then *)
(* be somebody else's is left out.                                         *)
RemoveFree ==
  /\ vga = "reset"
  /\ vga' = "freed"
  /\ UNCHANGED <<singleton, inside, pc, ctx, owner, ctxVars, ringVars, snap, cbVars>>

(* The device is gone and every caller has left.                           *)
Gone ==
  /\ vga = "freed"
  /\ \A c \in Caller : pc[c] = "idle"
  /\ UNCHANGED vars
-----------------------------------------------------------------------------
CallerNext(c) ==
  \/ Enter(c) \/ AllocCtx(c) \/ LockPool(c)
  \/ AddRead(c) \/ AddFull(c) \/ AddWrite(c)
  \/ Wake(c) \/ Expire(c) \/ ReportTimeout(c)

RemoveNext == RemoveUnpublish \/ RemoveReset \/ RemoveFree

Next ==
  \/ Probe
  \/ \E c \in Caller : CallerNext(c)
  \/ DeviceServe \/ CallbackTake \/ CallbackComplete
  \/ RemoveNext
  \/ Gone

Spec == Init /\ [][Next]_vars
-----------------------------------------------------------------------------
(***************************************************************************)
(* "Returns the host's verdict": a caller that was woken reads a response  *)
(* the device wrote. Otherwise it reads the zeroes of kzalloc, which mean  *)
(* success, and takes memory for SHAREd that never was.                    *)
(***************************************************************************)
VerdictIsHosts ==
  \A c \in Caller : pc[c] = "waiting" /\ done[ctx[c]] => resp[ctx[c]]

(***************************************************************************)
(* "The buffer is still owned by the device, so it cannot be freed": what  *)
(* a descriptor in flight points at is the context of a request that waits *)
(* or timed out, never memory that was freed or handed out again.          *)
(***************************************************************************)
DeviceOwnsMemory ==
  \A d \in Slots :
    data[d] # NoCtx => /\ mem[data[d]] \in {"posted", "leaked"}
                       /\ \A e \in Slots \ {d} : data[e] # data[d]

(***************************************************************************)
(* "Stop new pool requests finding the device before anything is torn      *)
(* down": once vga_remove has begun, whoever is in vga_pool_request() was  *)
(* in there before; no call starts on a device that is reset or freed.     *)
(***************************************************************************)
NewCallsFindNoDevice ==
  vga \in {"unpublished", "reset", "freed"} =>
    \A c \in Caller : pc[c] # "idle" => c \in inside

(***************************************************************************)
(* What the same comment is taken to give: a caller about to use the       *)
(* device object uses a live one. The wait itself does not touch it, the   *)
(* report after the wait does. vga_remove does not wait for the calls that *)
(* are under way, so this fails.                                           *)
(***************************************************************************)
NoUseAfterFree ==
  \A c \in Caller : pc[c] \notin {"idle", "waiting"} => vga # "freed"
-----------------------------------------------------------------------------
(* How far a caller's request is, in the words of PoolCall.                *)
Progress ==
  [c \in Caller |->
     CASE pc[c] = "idle"    -> "idle"
       [] pc[c] = "waiting" -> IF resp[ctx[c]] THEN "served" ELSE "posted"
       [] pc[c] = "expired" -> "gaveUp"
       [] OTHER             -> "pending"]

Call == INSTANCE PoolCall WITH call <- Progress

(***************************************************************************)
(* vga_pool_request() is such a call: one serve of the device serves at    *)
(* most one request, the late answer to a request that timed out serves    *)
(* nobody, and no caller returns a verdict before its own was written.     *)
(***************************************************************************)
ImplementsCall == Call!Spec
=============================================================================
