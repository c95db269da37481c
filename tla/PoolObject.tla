----------------------------- MODULE PoolObject -----------------------------
(***************************************************************************)
(* The life of a guest-alloc buffer object: virtio_gpu_guest_pool_create() *)
(* carves blocks, takes a resource id and queues RESOURCE_CREATE_BLOB; the *)
(* last reference queues RESOURCE_UNREF, and only the answer to that gives *)
(* the blocks and the id back. The host works through the control queue at *)
(* its own pace; it may refuse a create (nobody looks at that answer) and  *)
(* may fail to drop a resource.                                            *)
(*                                                                         *)
(* The pool is a set of blocks here; how they are carved and what backs    *)
(* them is module GuestPool.                                               *)
(***************************************************************************)
EXTENDS Integers, Sequences

CONSTANTS
  Bo,
  Block,       \* the blocks of the pool
  Ids,         \* resource ids; as many as the model lets be taken
  NoId

ASSUME ObjectAssumption == NoId \notin Ids

VARIABLES
  reuse,     \* the module parameter virglhack is 0; fixed when the module is loaded
  plugged,   \* drm_dev_enter succeeds
  st,        \* where each object is in its life
  blocks,    \* vram->guest_pool_blocks
  id,        \* hw_res_handle
  taken,     \* ids that cannot be handed out
  cmdq,      \* commands the host has not read
  respq,     \* answers to RESOURCE_UNREF the guest has not read
  hostRes,   \* ids of the host's resources (external)
  attached,  \* the blocks attached to each (external)
  lost       \* blocks no list names any more

objVars == <<st, blocks, id>>
vars == <<reuse, plugged, st, blocks, id, taken, cmdq, respq, hostRes, attached, lost>>

Commands == [op : {"CREATE", "UNREF"}, bo : Bo, id : Ids, blocks : SUBSET Block]
Answers  == [bo : Bo, type : {"OK_NODATA", "INVALID_RESOURCE_ID", "UNSPEC"}]

TypeOK ==
  /\ reuse \in BOOLEAN
  /\ plugged \in BOOLEAN
  /\ st \in [Bo -> {"none", "blocks", "live", "unref"}]
  /\ blocks \in [Bo -> SUBSET Block]
  /\ id \in [Bo -> Ids \cup {NoId}]
  /\ taken \subseteq Ids
  /\ cmdq \in Seq(Commands)
  /\ respq \in Seq(Answers)
  /\ hostRes \subseteq Ids
  /\ attached \in [Ids -> SUBSET Block]
  /\ lost \subseteq Block
  /\ \A b \in Bo : st[b] = "live" => id[b] \in taken

Init ==
  /\ reuse \in BOOLEAN
  /\ plugged = TRUE
  /\ st = [b \in Bo |-> "none"]
  /\ blocks = [b \in Bo |-> {}]
  /\ id = [b \in Bo |-> NoId]
  /\ taken = {}
  /\ cmdq = <<>>
  /\ respq = <<>>
  /\ hostRes = {}
  /\ attached = [i \in Ids |-> {}]
  /\ lost = {}

FreeBlocks == Block \ (lost \cup UNION {blocks[b] : b \in Bo})
-----------------------------------------------------------------------------
(* virtio_gpu_guest_pool_alloc succeeded; the ioctl was let in.            *)
Alloc(b) ==
  /\ st[b] = "none"
  /\ plugged
  /\ \E U \in (SUBSET FreeBlocks) \ {{}} : blocks' = [blocks EXCEPT ![b] = U]
  /\ st' = [st EXCEPT ![b] = "blocks"]
  /\ UNCHANGED <<reuse, plugged, id, taken, cmdq, respq, hostRes, attached, lost>>

(***************************************************************************)
(* A later step of the create fails: err_pool and err_obj return the       *)
(* blocks. A resource id that was already taken is not given back.         *)
(***************************************************************************)
CreateFail(b) ==
  /\ st[b] = "blocks"
  /\ blocks' = [blocks EXCEPT ![b] = {}]
  /\ st' = [st EXCEPT ![b] = "none"]
  /\ \/ UNCHANGED taken
     \/ \E i \in Ids \ taken : taken' = taken \cup {i}
  /\ UNCHANGED <<reuse, plugged, id, cmdq, respq, hostRes, attached, lost>>

(***************************************************************************)
(* The id is taken and RESOURCE_CREATE_BLOB queued. Whether queueing       *)
(* worked (the device may be gone, vmalloc_to_sgt may fail) is not looked  *)
(* at: the object counts as created either way.                            *)
(***************************************************************************)
SendCreate(b) ==
  /\ st[b] = "blocks"
  /\ \E i \in Ids \ taken :
       /\ taken' = taken \cup {i}
       /\ id' = [id EXCEPT ![b] = i]
       /\ \/ /\ plugged
             /\ cmdq' = Append(cmdq, [op |-> "CREATE", bo |-> b, id |-> i, blocks |-> blocks[b]])
          \/ UNCHANGED cmdq
  /\ st' = [st EXCEPT ![b] = "live"]
  /\ UNCHANGED <<reuse, plugged, blocks, respq, hostRes, attached, lost>>

(* virtio_gpu_cleanup_object: the id is put, the object freed.             *)
Cleanup(b) ==
  /\ taken' = IF reuse THEN taken \ {id[b]} ELSE taken
  /\ id' = [id EXCEPT ![b] = NoId]
  /\ st' = [st EXCEPT ![b] = "none"]

(* Mutants: virtio_gpu_vram_free returns the blocks, or puts the id,       *)
(* without waiting for the answer.                                         *)
DropEarly(b) ==
  /\ st[b] = "live"
  /\ plugged
  /\ cmdq' = Append(cmdq, [op |-> "UNREF", bo |-> b, id |-> id[b], blocks |-> {}])
  /\ st' = [st EXCEPT ![b] = "unref"]
  /\ blocks' = [blocks EXCEPT ![b] = {}]
  /\ UNCHANGED <<reuse, id, taken, plugged, respq, hostRes, attached, lost>>

DropPutsId(b) ==
  /\ st[b] = "live"
  /\ plugged
  /\ cmdq' = Append(cmdq, [op |-> "UNREF", bo |-> b, id |-> id[b], blocks |-> {}])
  /\ st' = [st EXCEPT ![b] = "unref"]
  /\ taken' = taken \ {id[b]}
  /\ UNCHANGED <<reuse, blocks, id, plugged, respq, hostRes, attached, lost>>

(***************************************************************************)
(* The last reference is dropped: virtio_gpu_vram_free and                 *)
(* virtio_gpu_cmd_unref_resource. With the device gone the command cannot  *)
(* be queued and the object is released on the spot.                       *)
(***************************************************************************)
Drop(b) ==
  /\ st[b] = "live"
  /\ \/ /\ plugged
        /\ cmdq' = Append(cmdq, [op |-> "UNREF", bo |-> b, id |-> id[b], blocks |-> {}])
        /\ st' = [st EXCEPT ![b] = "unref"]
        /\ UNCHANGED <<blocks, id, taken>>
     \/ /\ ~plugged
        /\ blocks' = [blocks EXCEPT ![b] = {}]
        /\ Cleanup(b)
        /\ UNCHANGED cmdq
  /\ UNCHANGED <<reuse, plugged, respq, hostRes, attached, lost>>

(* Mutant: only OK_NODATA releases.                                        *)
ReleasedByOK(type) == type = "OK_NODATA"

(* The answers after which the host is known to hold nothing.              *)
Released(type) == type \in {"OK_NODATA", "INVALID_RESOURCE_ID"}

(***************************************************************************)
(* virtio_gpu_cmd_unref_cb, from the dequeue work: the blocks go back to   *)
(* the pool only if the host dropped its references or never had any; the  *)
(* object is freed anyway, and its block list with it.                     *)
(***************************************************************************)
UnrefCb ==
  /\ respq # <<>>
  /\ LET b == Head(respq).bo
     IN  /\ lost' = IF Released(Head(respq).type) THEN lost ELSE lost \cup blocks[b]
         /\ blocks' = [blocks EXCEPT ![b] = {}]
         /\ Cleanup(b)
  /\ respq' = Tail(respq)
  /\ UNCHANGED <<reuse, plugged, cmdq, hostRes, attached>>
-----------------------------------------------------------------------------
(* The host, external, reads the control queue in order.                   *)
HostCreate ==
  /\ cmdq # <<>> /\ Head(cmdq).op = "CREATE"
  /\ \/ /\ Head(cmdq).id \notin hostRes
        /\ hostRes' = hostRes \cup {Head(cmdq).id}
        /\ attached' = [attached EXCEPT ![Head(cmdq).id] = Head(cmdq).blocks]
     \/ UNCHANGED <<hostRes, attached>>
  /\ cmdq' = Tail(cmdq)
  /\ UNCHANGED <<reuse, plugged, objVars, taken, respq, lost>>

HostUnref ==
  /\ cmdq # <<>> /\ Head(cmdq).op = "UNREF"
  /\ LET i == Head(cmdq).id
         answer(t) == respq' = Append(respq, [bo |-> Head(cmdq).bo, type |-> t])
     IN  \/ /\ i \in hostRes
            /\ hostRes' = hostRes \ {i}
            /\ attached' = [attached EXCEPT ![i] = {}]
            /\ answer("OK_NODATA")
         \/ /\ i \notin hostRes
            /\ answer("INVALID_RESOURCE_ID")
            /\ UNCHANGED <<hostRes, attached>>
         \/ /\ i \in hostRes
            /\ answer("UNSPEC")
            /\ UNCHANGED <<hostRes, attached>>
  /\ cmdq' = Tail(cmdq)
  /\ UNCHANGED <<reuse, plugged, objVars, taken, lost>>

(* virtio_gpu_remove: drm_dev_unplug, then flush_work and the reset, after *)
(* which the host holds nothing and answers nothing.                       *)
Unplug ==
  /\ plugged
  /\ plugged' = FALSE
  /\ UNCHANGED <<reuse, objVars, taken, cmdq, respq, hostRes, attached, lost>>

Reset ==
  /\ ~plugged
  /\ respq = <<>>
  /\ cmdq' = <<>>
  /\ hostRes' = {}
  /\ attached' = [i \in Ids |-> {}]
  /\ UNCHANGED <<reuse, plugged, objVars, taken, respq, lost>>
-----------------------------------------------------------------------------
Next ==
  \/ \E b \in Bo : Alloc(b) \/ CreateFail(b) \/ SendCreate(b) \/ Drop(b)
  \/ UnrefCb
  \/ HostCreate \/ HostUnref
  \/ Unplug \/ Reset

Spec == Init /\ [][Next]_vars
-----------------------------------------------------------------------------
(***************************************************************************)
(* "Do not return the blocks to drm_buddy until that response arrives, or  *)
(* a new BO could reuse memory which the host still has attached": as long *)
(* as the device is there, a block attached on the host belongs to the     *)
(* object with that id, or to nobody ever again.                           *)
(***************************************************************************)
NoAliasedBlocks ==
  plugged => \A i \in hostRes : \A k \in attached[i] :
    k \in lost \/ \E b \in Bo : id[b] = i /\ k \in blocks[b]

(***************************************************************************)
(* virtio_gpu_cmd_unref_cb puts the id whatever the answer was: after a    *)
(* failed unref with virglhack=0 the next object gets the id of a resource *)
(* the host still has.                                                     *)
(***************************************************************************)
Clash == reuse /\ lost # {}

(***************************************************************************)
(* Blocks are lost to the pool only where the host failed to let go of     *)
(* them: not after a create the host refused, nor after one that was never *)
(* queued. (With virglhack=0 a resource the host failed to drop has its id *)
(* handed out again, so only runs without such a failure are claimed for.) *)
(***************************************************************************)
LeakOnlyAttached == plugged /\ ~Clash => \A k \in lost : \E i \in hostRes : k \in attached[i]

(***************************************************************************)
(* A create never names a resource the host still has, so it is not        *)
(* refused for that, and a later unref cannot hit somebody else's          *)
(* resource: ids are put only in the callback of their own unref (and no   *)
(* failed unref made one free again, see Clash).                           *)
(***************************************************************************)
IdFresh ==
  plugged /\ ~Clash => \A n \in DOMAIN cmdq : cmdq[n].op = "CREATE" =>
    /\ cmdq[n].id \notin hostRes
    /\ \A m \in DOMAIN cmdq \ {n} : cmdq[m].id = cmdq[n].id => m > n /\ cmdq[m].op = "UNREF"
=============================================================================
