----------------------------- MODULE ExecBuffer -----------------------------
(***************************************************************************)
(* Open files, their host contexts, and the work they submit: contexts are *)
(* created lazily (virtgpu_ioctl.c) and destroyed at close (virtgpu_kms.c),*)
(* objects are opened and closed per file (virtgpu_gem.c), and an          *)
(* execbuffer (virtgpu_submit.c) or a transfer locks its objects, queues a *)
(* fenced command and hands its fence to user space.                       *)
(*                                                                         *)
(* What happens inside the control queue is module CtrlQueue; here it is a *)
(* sequence the host reads in order. Fenced work then runs on timelines,   *)
(* each in order, and finishes at the host's pace. Allocations of a few    *)
(* bytes (a fence, an array for one object) are taken to succeed.          *)
(***************************************************************************)
EXTENDS Integers, Sequences, FiniteSets, SequencesExt

CONSTANTS
  Thread,
  Nobody,
  File,
  NoFile,
  Bo,
  CtxId,      \* the ids ctx_id_ida hands out, numbers
  Request,    \* the execbuffers and transfers user space may ask for
  NoRequest,
  Fd,         \* file descriptor numbers; 0 is in use from the start
  MaxJobs,    \* bound: fences allocated
  MaxCalls    \* bound: ioctls, opens and closes

(***************************************************************************)
(* A request names the objects it uses, and whether it takes a fence fd    *)
(* in, a syncobj in (reset afterwards), and wants a fence fd, a syncobj    *)
(* or an event out. ring is -1 for the device's own timeline; a transfer   *)
(* has none of these options.                                              *)
(***************************************************************************)
RequestType ==
  [op : {"SUBMIT", "TRANSFER"}, bos : SUBSET Bo, ring : -1 .. 1, inFence : BOOLEAN,
   inSync : BOOLEAN, outFence : BOOLEAN, outSync : BOOLEAN, event : BOOLEAN]

ASSUME ExecAssumption ==
  /\ Nobody \notin Thread /\ NoFile \notin File /\ NoRequest \notin Request
  /\ Request \subseteq RequestType /\ IsFiniteSet(Bo)
  /\ \A r \in Request : r.op = "TRANSFER" =>
       ~r.inFence /\ ~r.inSync /\ ~r.outFence /\ ~r.outSync /\ ~r.event /\ r.ring = -1
  /\ CtxId \subseteq Nat \ {0}
  /\ 0 \in Fd /\ Fd \subseteq Nat
  /\ MaxJobs \in Nat /\ MaxCalls \in Nat

VARIABLES
  ctxInit,   \* VIRTIO_GPU_F_CONTEXT_INIT was negotiated
  plugged,   \* drm_dev_enter succeeds
  file,      \* each open file: ctx_id (0: closed), context_created, base_fence_ctx
  handles,   \* the objects each file has a handle to
  ctxLock,   \* holder of context_lock
  ref,       \* references to each object; -1 before it exists
  resv,      \* holder of each object's reservation lock
  resvFences,\* fences in each object's reservation
  sync,      \* the fence in the one syncobj, 0 for none
  fds,       \* what each descriptor number is
  th,        \* where each thread is, for which file, on which request
  sub,       \* struct virtio_gpu_submit of each thread
  job,       \* the fences that were allocated: timeline and in-fence
  emitted,   \* those virtio_gpu_fence_emit was called for, in the order of their ids
  signaled,
  published, \* those user space can name
  calls,
  ring,      \* commands the host has not read
  answered,  \* commands the host answered and the guest has not seen
  putq,      \* object arrays waiting for obj_free_work
  hostCtx,   \* contexts the host knows (external)
  hostRes,   \* resources the host knows (external)
  running,   \* fenced commands the host works on (external)
  finished   \* fences whose command the host finished (external)

fileVars == <<file, handles, ctxLock>>
boVars   == <<ref, resv, resvFences>>
userVars == <<sync, fds, published>>
jobVars  == <<job, emitted, signaled>>
hostVars == <<hostCtx, hostRes, running, finished>>
vars == <<ctxInit, plugged, file, handles, ctxLock, ref, resv, resvFences, sync, fds, th, sub,
          job, emitted, signaled, published, calls, ring, answered, putq, hostCtx, hostRes,
          running, finished>>

NoSubmit == [bos |-> {}, fd |-> -1, reset |-> FALSE, job |-> 0]
Idle     == [pc |-> "idle", file |-> NoFile, op |-> "NONE", req |-> NoRequest]
Closed   == [id |-> 0, st |-> "closed", created |-> FALSE, rings |-> FALSE]

Init ==
  /\ ctxInit \in BOOLEAN
  /\ plugged = TRUE
  /\ file = [f \in File |-> Closed]
  /\ handles = [f \in File |-> {}]
  /\ ctxLock = [f \in File |-> Nobody]
  /\ ref = [b \in Bo |-> -1]
  /\ resv = [b \in Bo |-> Nobody]
  /\ resvFences = [b \in Bo |-> {}]
  /\ sync = 0
  /\ fds = [n \in Fd |-> IF n = 0 THEN "file" ELSE "unused"]
  /\ th = [t \in Thread |-> Idle]
  /\ sub = [t \in Thread |-> NoSubmit]
  /\ job = <<>> /\ emitted = <<>> /\ signaled = {} /\ published = {}
  /\ calls = 0
  /\ ring = <<>> /\ answered = <<>> /\ putq = <<>>
  /\ hostCtx = {} /\ hostRes = {} /\ running = <<>> /\ finished = {}
-----------------------------------------------------------------------------
Goto(t, label) == th' = [th EXCEPT ![t].pc = label]
Return(t)      == th' = [th EXCEPT ![t] = Idle]
F(t)           == th[t].file

(* A command: what it does, in which context, the objects of its array and *)
(* its fence, 0 for none.                                                  *)
Cmd(op, id, bos, j) == [op |-> op, ctx |-> id, bos |-> bos, job |-> j]

CmdContextCreate(id)           == Cmd("CTX_CREATE", id, {}, 0)
CmdContextDestroy(id)          == Cmd("CTX_DESTROY", id, {}, 0)
CmdContextAttach(id, bos)      == Cmd("ATTACH", id, bos, 0)
CmdContextDetach(id, bos)      == Cmd("DETACH", id, bos, 0)
CmdCreateResource(b)           == Cmd("CREATE", 0, {b}, 0)
CmdResourceCreate3d(b, j)      == Cmd("CREATE", 0, {b}, j)
CmdUnrefResource(b)            == Cmd("UNREF", 0, {b}, 0)
CmdSubmit(id, bos, j)          == Cmd("SUBMIT", id, bos, j)
CmdTransferHost3d(id, bos, j)  == Cmd("TRANSFER", id, bos, j)

(* virtio_gpu_queue_fenced_ctrl_buffer; with the device gone nothing is    *)
(* queued, and no caller below looks at the error.                         *)
Queue(cmds) == ring' = IF plugged THEN ring \o cmds ELSE ring

(* drm_gem_object_put for each of a set: the last one queues an unref.     *)
Unrefs(bos) ==
  LET dead == SetToSeq({b \in bos : ref[b] = 1})
  IN  [i \in DOMAIN dead |-> CmdUnrefResource(dead[i])]

Put(bos) == ref' = [b \in Bo |-> IF b \in bos THEN ref[b] - 1 ELSE ref[b]]
Get(bos) == ref' = [b \in Bo |-> IF b \in bos THEN ref[b] + 1 ELSE ref[b]]

(* virtio_gpu_fence_alloc: a fence on a timeline, not emitted yet.         *)
FenceAlloc(line) == Append(job, [line |-> line, dep |-> 0])

(* virtio_gpu_array_add_fence.                                             *)
AddFence(bos, j) ==
  [b \in Bo |-> IF b \in bos THEN resvFences[b] \cup {j} ELSE resvFences[b]]

(* The timeline a fence is on: the device's or one ring of one context.    *)
Timeline(t) ==
  IF th[t].req.ring = -1 THEN <<NoFile, 0>> ELSE <<F(t), th[t].req.ring>>
-----------------------------------------------------------------------------
(* virtio_gpu_driver_open: the lowest free context id.                     *)
OpenFile(f) ==
  /\ file[f].st = "closed"
  /\ plugged /\ calls < MaxCalls
  /\ \E i \in CtxId \ {file[g].id : g \in File} :
       /\ \A k \in CtxId \ {file[g].id : g \in File} : i <= k
       /\ file' = [file EXCEPT ![f] = [Closed EXCEPT !.id = i, !.st = "open"]]
  /\ calls' = calls + 1
  /\ UNCHANGED <<ctxInit, plugged, handles, ctxLock, boVars, userVars, th, sub, jobVars, ring,
                 answered, putq, hostVars>>

(***************************************************************************)
(* virtio_gpu_gem_object_close for some handles of a file: a detach if the *)
(* context was created, whose array takes over the handle's reference;     *)
(* otherwise the reference is dropped.                                     *)
(***************************************************************************)
CloseHandles(f, bos) ==
  /\ handles' = [handles EXCEPT ![f] = @ \ bos]
  /\ IF file[f].created
     THEN LET s == SetToSeq(bos)
          IN  /\ Queue([i \in DOMAIN s |-> CmdContextDetach(file[f].id, {s[i]})])
              /\ UNCHANGED ref
     ELSE Queue(Unrefs(bos)) /\ Put(bos)

(* The last reference to a file goes: its handles first,                   *)
CloseFile(f) ==
  /\ file[f].st = "open"
  /\ \A t \in Thread : F(t) # f
  /\ CloseHandles(f, handles[f])
  /\ file' = [file EXCEPT ![f].st = "closing"]
  /\ UNCHANGED <<ctxInit, plugged, ctxLock, resv, resvFences, userVars, th, sub, jobVars, calls,
                 answered, putq, hostVars>>

(* then virtio_gpu_driver_postclose: the context, and only then its id.    *)
PostClose(f) ==
  /\ \/ /\ file[f].st = "closing"
        /\ Queue(IF file[f].created THEN <<CmdContextDestroy(file[f].id)>> ELSE <<>>)
        /\ file' = [file EXCEPT ![f].st = "destroyed"]
     \/ /\ file[f].st = "destroyed"
        /\ file' = [file EXCEPT ![f] = Closed]
        /\ UNCHANGED ring
  /\ UNCHANGED <<ctxInit, plugged, handles, ctxLock, boVars, userVars, th, sub, jobVars, calls,
                 answered, putq, hostVars>>
-----------------------------------------------------------------------------
(* An ioctl begins. drm_ioctl lets nobody in once the device is gone.      *)
Begin(t, f, op, req, label) ==
  /\ th[t] = Idle
  /\ file[f].st = "open"
  /\ plugged /\ calls < MaxCalls
  /\ calls' = calls + 1
  /\ th' = [th EXCEPT ![t] = [pc |-> label, file |-> f, op |-> op, req |-> req]]

(* DRM_VIRTGPU_CONTEXT_INIT, if the device has the feature.                *)
ContextInitIoctl(t, f) ==
  ctxInit /\ Begin(t, f, "INIT", NoRequest, "ctx")

(* DRM_VIRTGPU_EXECBUFFER: a ring index needs rings.                       *)
ExecbufferIoctl(t, f) ==
  \E r \in Request :
    /\ r.op = "SUBMIT"
    /\ r.ring >= 0 => file[f].rings
    /\ r.inFence => published # {}
    /\ Begin(t, f, "SUBMIT", r, "ctx")

(* TRANSFER_FROM_HOST, or TRANSFER_TO_HOST, which looks up its handle      *)
(* before it creates the context; here both do it after. Without virgl     *)
(* TRANSFER_TO_HOST queues an unfenced 2D transfer instead: not modelled.  *)
TransferIoctl(t, f) ==
  \E r \in Request :
    /\ r.op = "TRANSFER"
    /\ Begin(t, f, "TRANSFER", r, "ctx")

(* DRM_IOCTL_MODE_CREATE_DUMB and DRM_VIRTGPU_RESOURCE_CREATE.             *)
ModeDumbCreate(t, f)      == Begin(t, f, "DUMB", NoRequest, "create")
ResourceCreateIoctl(t, f) == Begin(t, f, "CREATE", NoRequest, "ctx")

Call(t) ==
  /\ \E f \in File :
       \/ ContextInitIoctl(t, f) \/ ExecbufferIoctl(t, f) \/ TransferIoctl(t, f)
       \/ ModeDumbCreate(t, f) \/ ResourceCreateIoctl(t, f)
  /\ UNCHANGED <<ctxInit, plugged, fileVars, boVars, userVars, sub, jobVars, ring, answered,
                 putq, hostVars>>

(* Where a thread goes on once its file's context exists.                  *)
AfterCtx(t) ==
  CASE th[t].op = "OPEN"   -> "attach"
    [] th[t].op = "CREATE" -> "create"
    [] OTHER               -> "init"

(* Mutant: context_created is set first and the command queued after.      *)
CtxLockMarks(t) ==
  /\ th[t].pc = "ctx"
  /\ ctxLock[F(t)] = Nobody
  /\ \/ /\ file[F(t)].created
        /\ IF th[t].op = "INIT" THEN Return(t) ELSE Goto(t, AfterCtx(t))
        /\ UNCHANGED <<ctxLock, file>>
     \/ /\ ~file[F(t)].created
        /\ file' = [file EXCEPT ![F(t)].created = TRUE]
        /\ ctxLock' = [ctxLock EXCEPT ![F(t)] = t]
        /\ Goto(t, IF th[t].op = "INIT" THEN "params" ELSE "ctxQueue")
  /\ UNCHANGED <<ctxInit, plugged, handles, boVars, userVars, sub, jobVars, calls, ring,
                 answered, putq, hostVars>>

(* virtio_gpu_create_context, or context init (-EEXIST), takes the lock.   *)
CtxLock(t) ==
  /\ th[t].pc = "ctx"
  /\ ctxLock[F(t)] = Nobody
  /\ \/ /\ file[F(t)].created
        /\ IF th[t].op = "INIT" THEN Return(t) ELSE Goto(t, AfterCtx(t))
        /\ UNCHANGED ctxLock
     \/ /\ ~file[F(t)].created
        /\ ctxLock' = [ctxLock EXCEPT ![F(t)] = t]
        /\ Goto(t, IF th[t].op = "INIT" THEN "params" ELSE "ctxQueue")
  /\ UNCHANGED <<ctxInit, plugged, file, handles, boVars, userVars, sub, jobVars, calls, ring,
                 answered, putq, hostVars>>

(***************************************************************************)
(* The parameters are applied one by one; what was set before a bad one    *)
(* stays set, and setting it again is then an error.                       *)
(***************************************************************************)
CtxParams(t) ==
  /\ th[t].pc = "params"
  /\ file' \in {file, [file EXCEPT ![F(t)].rings = TRUE]}
  /\ \/ /\ Goto(t, "ctxQueue")
        /\ UNCHANGED ctxLock
     \/ /\ Return(t)
        /\ ctxLock' = [ctxLock EXCEPT ![F(t)] = Nobody]
  /\ UNCHANGED <<ctxInit, plugged, handles, boVars, userVars, sub, jobVars, calls, ring,
                 answered, putq, hostVars>>

(* virtio_gpu_create_context_locked: queue CTX_CREATE,                     *)
CtxQueue(t) ==
  /\ th[t].pc = "ctxQueue"
  /\ Queue(<<CmdContextCreate(file[F(t)].id)>>)
  /\ Goto(t, "ctxSet")
  /\ UNCHANGED <<ctxInit, plugged, fileVars, boVars, userVars, sub, jobVars, calls, answered,
                 putq, hostVars>>

(* then set context_created, which others read without the lock.           *)
CtxSet(t) ==
  /\ th[t].pc = "ctxSet"
  /\ file' = [file EXCEPT ![F(t)].created = TRUE]
  /\ ctxLock' = [ctxLock EXCEPT ![F(t)] = Nobody]
  /\ IF th[t].op = "INIT" THEN Return(t) ELSE Goto(t, AfterCtx(t))
  /\ UNCHANGED <<ctxInit, plugged, handles, boVars, userVars, sub, jobVars, calls, ring,
                 answered, putq, hostVars>>
-----------------------------------------------------------------------------
(***************************************************************************)
(* virtio_gpu_object_create: RESOURCE_CREATE with a fence for the ioctl,   *)
(* without one for a dumb buffer; the creator holds one reference, a       *)
(* fenced command's array another.                                         *)
(***************************************************************************)
Create(t) ==
  /\ th[t].pc = "create"
  /\ \E b \in Bo, fenced \in BOOLEAN :
       /\ ref[b] = -1
       /\ fenced = (th[t].op = "CREATE")
       /\ fenced => Len(job) < MaxJobs
       /\ LET j == IF fenced THEN Len(job) + 1 ELSE 0
          IN  /\ Queue(<<IF fenced THEN CmdResourceCreate3d(b, j) ELSE CmdCreateResource(b)>>)
              /\ ref' = [ref EXCEPT ![b] = IF fenced THEN 2 ELSE 1]
              /\ IF fenced
                 THEN /\ job' = FenceAlloc(<<NoFile, 0>>)
                      /\ emitted' = IF plugged THEN Append(emitted, j) ELSE emitted
                      /\ resvFences' = IF plugged THEN AddFence({b}, j) ELSE resvFences
                 ELSE UNCHANGED <<job, emitted, resvFences>>
       /\ sub' = [sub EXCEPT ![t].bos = {b}]
  /\ Goto(t, "handle")
  /\ UNCHANGED <<ctxInit, plugged, fileVars, resv, userVars, signaled, calls, answered,
                 putq, hostVars>>

(***************************************************************************)
(* drm_gem_handle_create: the handle takes a reference and the creator's   *)
(* or importer's is dropped once the object is opened. If it fails an      *)
(* importer puts its reference; a creator releases the GEM object, but     *)
(* neither its reference nor its resource.                                 *)
(***************************************************************************)
HandleCreate(t) ==
  /\ th[t].pc = "handle"
  /\ \/ /\ handles' = [handles EXCEPT ![F(t)] = @ \cup sub[t].bos]
        /\ Get(sub[t].bos)
        /\ th' = [th EXCEPT ![t].pc = IF ctxInit THEN "attach" ELSE "ctx", ![t].op = "OPEN"]
        /\ UNCHANGED sub
        /\ UNCHANGED ring
     \/ /\ Return(t)
        /\ sub' = [sub EXCEPT ![t] = NoSubmit]
        /\ IF th[t].op = "OPEN" THEN Queue(Unrefs(sub[t].bos)) /\ Put(sub[t].bos)
                                 ELSE UNCHANGED <<ring, ref>>
        /\ UNCHANGED handles
  /\ UNCHANGED <<ctxInit, plugged, file, ctxLock, resv, resvFences, userVars, jobVars, calls,
                 answered, putq, hostVars>>

(* Another file gets a handle to an object through its dma-buf: importing  *)
(* one's own buffer only takes a reference.                                *)
Import(t) ==
  /\ \E f \in File, b \in Bo :
       /\ \E g \in File : b \in handles[g]
       /\ b \notin handles[f]
       /\ Begin(t, f, "OPEN", NoRequest, "handle")
       /\ sub' = [sub EXCEPT ![t].bos = {b}]
       /\ Get({b})
  /\ UNCHANGED <<ctxInit, plugged, fileVars, resv, resvFences, userVars, jobVars, ring, answered,
                 putq, hostVars>>

(***************************************************************************)
(* The rest of virtio_gpu_gem_object_open: the object is attached to the   *)
(* context if there is one. Then the creator's reference is dropped (a     *)
(* thread may have closed the handle meanwhile).                           *)
(***************************************************************************)
Attach(t) ==
  /\ th[t].pc = "attach"
  /\ IF file[F(t)].created
     THEN /\ Queue(<<CmdContextAttach(file[F(t)].id, sub[t].bos)>>)
          /\ UNCHANGED ref
     ELSE Queue(Unrefs(sub[t].bos)) /\ Put(sub[t].bos)
  /\ sub' = [sub EXCEPT ![t] = NoSubmit]
  /\ Return(t)
  /\ UNCHANGED <<ctxInit, plugged, fileVars, resv, resvFences, userVars, jobVars, calls, answered,
                 putq, hostVars>>

(* DRM_IOCTL_GEM_CLOSE.                                                    *)
CloseHandle(f) ==
  /\ file[f].st = "open"
  /\ plugged /\ calls < MaxCalls
  /\ calls' = calls + 1
  /\ \E b \in handles[f] : CloseHandles(f, {b})
  /\ UNCHANGED <<ctxInit, plugged, file, ctxLock, resv, resvFences, userVars, th, sub, jobVars,
                 answered, putq, hostVars>>
-----------------------------------------------------------------------------
(* An out-fence is needed for whatever somebody may wait for.              *)
Fenced(r) ==
  r.op = "TRANSFER" \/ r.outFence \/ r.outSync \/ r.event \/ r.bos # {}

Lowest(S) == CHOOSE n \in S : \A m \in S : n <= m

(* virtio_gpu_init_submit_buflist: every handle must be known.             *)
BuflistKnown(t) == th[t].req.bos \subseteq handles[F(t)]

(* virtio_gpu_parse_post_deps: the syncobjs are found, or not.             *)
ParsePostDeps(t) == th' \in {[th EXCEPT ![t].pc = "deps"], [th EXCEPT ![t].pc = "cleanup"]}

(***************************************************************************)
(* virtio_gpu_init_submit and virtio_gpu_parse_post_deps, or the first     *)
(* lines of a transfer: the fence, its event, the objects, the command, a  *)
(* descriptor number, the syncobjs. Each can fail and leaves what came     *)
(* before to the cleanup. The event comes before out_fence_fd is set to    *)
(* -1, so if that fails the cleanup finds the 0 of the memset.             *)
(***************************************************************************)
InitSubmit(t) ==
  LET r == th[t].req
      free == {n \in Fd : fds[n] = "unused"}
      j == IF Fenced(r) THEN Len(job) + 1 ELSE 0
      Fill(bos, n) == sub' = [sub EXCEPT ![t] = [bos |-> bos, fd |-> n, reset |-> FALSE, job |-> j]]
  IN  /\ th[t].pc = "init"
      /\ Fenced(r) => Len(job) < MaxJobs
      /\ \/ /\ r.event
            /\ sub' = [sub EXCEPT ![t] = [NoSubmit EXCEPT !.fd = 0]]
            /\ Goto(t, "cleanup")
            /\ UNCHANGED <<ref, fds>>
         \/ /\ ~BuflistKnown(t)
            /\ Fill({}, -1)
            /\ Goto(t, "cleanup")
            /\ UNCHANGED <<ref, fds>>
         \/ /\ BuflistKnown(t)
            /\ Get(r.bos)
            /\ \/ /\ r.outFence /\ free # {}
                  /\ fds' = [fds EXCEPT ![Lowest(free)] = "reserved"]
                  /\ Fill(r.bos, Lowest(free))
                  /\ ParsePostDeps(t)
               \/ /\ ~r.outFence
                  /\ Fill(r.bos, -1)
                  /\ ParsePostDeps(t)
                  /\ UNCHANGED fds
               \/ /\ Fill(r.bos, -1)
                  /\ Goto(t, "cleanup")
                  /\ UNCHANGED fds
      /\ job' = IF Fenced(r) THEN FenceAlloc(Timeline(t)) ELSE job
      /\ UNCHANGED <<ctxInit, plugged, fileVars, resv, resvFences, sync, emitted, signaled, published,
                     calls, ring, answered, putq, hostVars>>

(* Mutant: the ring is left out of the comparison.                         *)
SkipWaitBase(t, j) == job[j].line[1] = Timeline(t)[1]

(* virtio_gpu_do_fence_wait: work on one timeline runs in order anyway.    *)
SkipWait(t, j) == job[j].line = Timeline(t)

(***************************************************************************)
(* virtio_gpu_parse_deps: the fence of the syncobj is waited for and the   *)
(* syncobj remembered, to be reset in the cleanup. There may be no fence   *)
(* in it, and the wait may be interrupted.                                 *)
(***************************************************************************)
ParseDeps(t) ==
  /\ th[t].pc = "deps"
  /\ \/ /\ th[t].req.inSync
        /\ \/ /\ sync # 0
              /\ sync \in signaled \/ SkipWait(t, sync)
              /\ sub' = [sub EXCEPT ![t].reset = TRUE]
              /\ job' = IF sub[t].job = 0 THEN job ELSE [job EXCEPT ![sub[t].job].dep = sync]
              /\ Goto(t, "inFence")
           \/ /\ Goto(t, "cleanup")
              /\ UNCHANGED <<sub, job>>
     \/ /\ ~th[t].req.inSync
        /\ Goto(t, "inFence")
        /\ UNCHANGED <<sub, job>>
  /\ UNCHANGED <<ctxInit, plugged, fileVars, boVars, userVars, emitted, signaled, calls, ring,
                 answered, putq, hostVars>>

(* virtio_gpu_wait_in_fence, on a fence user space got from some ioctl.    *)
WaitInFence(t) ==
  /\ th[t].pc = "inFence"
  /\ \/ /\ th[t].req.inFence
        /\ \/ \E j \in published :
                /\ j \in signaled \/ SkipWait(t, j)
                /\ job' = IF sub[t].job = 0 THEN job ELSE [job EXCEPT ![sub[t].job].dep = j]
                /\ Goto(t, "lock")
           \/ /\ Goto(t, "cleanup")
              /\ UNCHANGED job
     \/ /\ ~th[t].req.inFence
        /\ Goto(t, "lock")
        /\ UNCHANGED job
  /\ UNCHANGED <<ctxInit, plugged, fileVars, boVars, userVars, sub, emitted, signaled, calls, ring,
                 answered, putq, hostVars>>

(***************************************************************************)
(* virtio_gpu_array_lock_resv: with one ticket for all of them (external:  *)
(* ww_mutex backs off and retries, so it is one step here). Interrupted or *)
(* without room for a fence nothing stays locked.                          *)
(***************************************************************************)
LockResv(t) ==
  /\ th[t].pc = "lock"
  /\ \/ /\ \A b \in sub[t].bos : resv[b] = Nobody
        /\ resv' = [b \in Bo |-> IF b \in sub[t].bos THEN t ELSE resv[b]]
        /\ Goto(t, "submit")
     \/ /\ sub[t].bos # {}
        /\ Goto(t, "cleanup")
        /\ UNCHANGED resv
  /\ UNCHANGED <<ctxInit, plugged, fileVars, ref, resvFences, userVars, sub, jobVars, calls, ring,
                 answered, putq, hostVars>>

Unlocked(t) == [b \in Bo |-> IF resv[b] = t THEN Nobody ELSE resv[b]]

Command(t) ==
  IF th[t].op = "SUBMIT" THEN CmdSubmit(file[F(t)].id, sub[t].bos, sub[t].job)
                         ELSE CmdTransferHost3d(file[F(t)].id, sub[t].bos, sub[t].job)

(* Mutant: on an error the objects are not unlocked.                       *)
SubmitKeepsLocks(t) ==
  /\ th[t].pc = "submit"
  /\ LET s == sub[t]
     IN  \/ /\ plugged
            /\ Queue(<<Command(t)>>)
            /\ emitted' = IF s.job = 0 THEN emitted ELSE Append(emitted, s.job)
            /\ resvFences' = AddFence(s.bos, s.job)
            /\ resv' = Unlocked(t)
         \/ /\ ~plugged \/ th[t].op = "SUBMIT"
            /\ UNCHANGED <<ring, emitted, resvFences, resv>>
  /\ sub' = IF th[t].op = "SUBMIT" THEN sub ELSE [sub EXCEPT ![t] = NoSubmit]
  /\ IF th[t].op = "SUBMIT" THEN Goto(t, "publish") ELSE Return(t)
  /\ UNCHANGED <<ctxInit, plugged, fileVars, ref, userVars, job, signaled, calls, answered, putq,
                 hostVars>>

(***************************************************************************)
(* virtio_gpu_cmd_submit or virtio_gpu_cmd_transfer_*_host_3d, and         *)
(* virtio_gpu_notify: the fence gets its id and goes into every object's   *)
(* reservation before the objects are unlocked. If the device is gone, or  *)
(* there is no memory for the payload's sg_table, they are only unlocked;  *)
(* the array is nobody's then, and the error is not looked at.             *)
(***************************************************************************)
Submit(t) ==
  /\ th[t].pc = "submit"
  /\ LET s == sub[t]
     IN  \/ /\ plugged
            /\ Queue(<<Command(t)>>)
            /\ emitted' = IF s.job = 0 THEN emitted ELSE Append(emitted, s.job)
            /\ resvFences' = AddFence(s.bos, s.job)
         \/ /\ ~plugged \/ th[t].op = "SUBMIT"
            /\ UNCHANGED <<ring, emitted, resvFences>>
  /\ resv' = Unlocked(t)
  /\ sub' = IF th[t].op = "SUBMIT" THEN sub ELSE [sub EXCEPT ![t] = NoSubmit]
  /\ IF th[t].op = "SUBMIT" THEN Goto(t, "publish") ELSE Return(t)
  /\ UNCHANGED <<ctxInit, plugged, fileVars, ref, userVars, job, signaled, calls, answered, putq,
                 hostVars>>

(* The fence becomes visible: fd_install,                                  *)
InstallOutFenceFd(t) ==
  fds' = IF sub[t].fd >= 0 THEN [fds EXCEPT ![sub[t].fd] = "file"] ELSE fds

(* and virtio_gpu_process_post_deps: drm_syncobj_replace_fence.            *)
ProcessPostDeps(t) ==
  sync' = IF th[t].req.outSync THEN sub[t].job ELSE sync

HandOut(t) ==
  /\ InstallOutFenceFd(t)
  /\ ProcessPostDeps(t)
  /\ published' = IF th[t].req.outFence \/ th[t].req.outSync
                  THEN published \cup {sub[t].job} ELSE published

(* Mutants: virtio_gpu_complete_submit forgets the array, or the number.   *)
PublishKeepsArray(t) ==
  /\ th[t].pc = "publish"
  /\ HandOut(t)
  /\ sub' = [sub EXCEPT ![t].fd = -1]
  /\ Goto(t, "cleanup")
  /\ UNCHANGED <<ctxInit, plugged, fileVars, boVars, jobVars, calls, ring, answered, putq, hostVars>>

PublishKeepsFd(t) ==
  /\ th[t].pc = "publish"
  /\ HandOut(t)
  /\ sub' = [sub EXCEPT ![t].bos = {}]
  /\ Goto(t, "cleanup")
  /\ UNCHANGED <<ctxInit, plugged, fileVars, boVars, jobVars, calls, ring, answered, putq, hostVars>>

(***************************************************************************)
(* virtio_gpu_install_out_fence_fd, virtio_gpu_process_post_deps and       *)
(* virtio_gpu_complete_submit, which takes from the cleanup what now       *)
(* belongs to somebody else.                                               *)
(***************************************************************************)
Publish(t) ==
  /\ th[t].pc = "publish"
  /\ HandOut(t)
  /\ sub' = [sub EXCEPT ![t].bos = {}, ![t].fd = -1]
  /\ Goto(t, "cleanup")
  /\ UNCHANGED <<ctxInit, plugged, fileVars, boVars, jobVars, calls, ring, answered, putq, hostVars>>

(* virtio_gpu_cleanup_submit, on every way out.                            *)
CleanupSubmit(t) ==
  /\ th[t].pc = "cleanup"
  /\ sync' = IF sub[t].reset THEN 0 ELSE sync
  /\ fds' = IF sub[t].fd >= 0 THEN [fds EXCEPT ![sub[t].fd] = "unused"] ELSE fds
  /\ Queue(Unrefs(sub[t].bos))
  /\ Put(sub[t].bos)
  /\ sub' = [sub EXCEPT ![t] = NoSubmit]
  /\ Return(t)
  /\ UNCHANGED <<ctxInit, plugged, fileVars, resv, resvFences, published, jobVars, calls, answered,
                 putq, hostVars>>

(* virtio_gpu_wait_ioctl returns 0: every fence in the reservation is      *)
(* signaled. It changes nothing.                                           *)
WaitIsOver(b) == resvFences[b] \subseteq signaled
-----------------------------------------------------------------------------
(***************************************************************************)
(* The host, external, reads commands in order. What is fenced runs on its *)
(* timeline and is answered when it finishes, the rest at once.            *)
(***************************************************************************)
HostRead ==
  /\ ring # <<>>
  /\ LET c == Head(ring)
     IN  /\ hostCtx' = CASE c.op = "CTX_CREATE"  -> hostCtx \cup {c.ctx}
                         [] c.op = "CTX_DESTROY" -> hostCtx \ {c.ctx}
                         [] OTHER                -> hostCtx
         /\ hostRes' = CASE c.op = "CREATE" -> hostRes \cup c.bos
                         [] c.op = "UNREF"  -> hostRes \ c.bos
                         [] OTHER           -> hostRes
         /\ running'  = IF c.job = 0 THEN running ELSE Append(running, c)
         /\ answered' = IF c.job = 0 /\ c.op \in {"ATTACH", "DETACH", "SUBMIT"}
                        THEN Append(answered, c) ELSE answered
  /\ ring' = Tail(ring)
  /\ UNCHANGED <<ctxInit, plugged, fileVars, boVars, userVars, th, sub, jobVars, calls, putq, finished>>

HostFinish ==
  /\ \E i \in DOMAIN running :
       /\ \A k \in 1 .. i - 1 : job[running[k].job].line # job[running[i].job].line
       /\ finished' = finished \cup {running[i].job}
       /\ answered' = Append(answered, running[i])
       /\ running' = RemoveAt(running, i)
  /\ UNCHANGED <<ctxInit, plugged, fileVars, boVars, userVars, th, sub, jobVars, calls, ring, putq,
                 hostCtx, hostRes>>

(* Mutant: fences of other contexts are not told apart.                    *)
EarlierAll(j) ==
  {emitted[k] : k \in {n \in DOMAIN emitted : \E m \in n .. Len(emitted) : emitted[m] = j}}

(* What an answer signals: its fence and the earlier ones of its context.  *)
Earlier(j) ==
  {k \in {emitted[n] : n \in {n \in DOMAIN emitted : \E m \in n .. Len(emitted) : emitted[m] = j}} :
     job[k].line = job[j].line}

(* The dequeue work: the fence first, the array to obj_free_work.          *)
Dequeue ==
  /\ answered # <<>>
  /\ LET c == Head(answered)
     IN  /\ signaled' = IF c.job = 0 THEN signaled ELSE signaled \cup Earlier(c.job)
         /\ putq' = IF c.bos = {} THEN putq ELSE Append(putq, c.bos)
  /\ answered' = Tail(answered)
  /\ UNCHANGED <<ctxInit, plugged, fileVars, boVars, userVars, th, sub, job, emitted, calls, ring,
                 hostVars>>

(* virtio_gpu_array_put_free_work.                                         *)
FreeWork ==
  /\ putq # <<>>
  /\ Queue(Unrefs(Head(putq)))
  /\ Put(Head(putq))
  /\ putq' = Tail(putq)
  /\ UNCHANGED <<ctxInit, plugged, fileVars, resv, resvFences, userVars, th, sub, jobVars, calls,
                 answered, hostVars>>

Unplug ==
  /\ plugged
  /\ plugged' = FALSE
  /\ UNCHANGED <<ctxInit, fileVars, boVars, userVars, th, sub, jobVars, calls, ring, answered, putq,
                 hostVars>>
-----------------------------------------------------------------------------
ThreadNext(t) ==
  \/ CtxLock(t) \/ CtxParams(t) \/ CtxQueue(t) \/ CtxSet(t)
  \/ Create(t) \/ HandleCreate(t) \/ Attach(t)
  \/ InitSubmit(t) \/ ParseDeps(t) \/ WaitInFence(t) \/ LockResv(t)
  \/ Submit(t) \/ Publish(t) \/ CleanupSubmit(t)

HostNext == HostRead \/ HostFinish
WorkNext == Dequeue \/ FreeWork

Next ==
  \/ \E t \in Thread : Call(t) \/ Import(t) \/ ThreadNext(t)
  \/ \E f \in File : OpenFile(f) \/ CloseHandle(f) \/ CloseFile(f) \/ PostClose(f)
  \/ HostNext \/ WorkNext
  \/ Unplug

Spec == Init /\ [][Next]_vars
-----------------------------------------------------------------------------
(***************************************************************************)
(* The host never gets a command for a context it does not know, nor a     *)
(* second create of one it does: context_created is set only after         *)
(* CTX_CREATE is in the queue, though it is read without context_lock, and *)
(* an id is free only after CTX_DESTROY is in the queue.                   *)
(***************************************************************************)
ContextKnown ==
  ring # <<>> =>
    LET c == Head(ring)
    IN  /\ c.op = "CTX_CREATE" => c.ctx \notin hostCtx
        /\ c.op \in {"CTX_DESTROY", "ATTACH", "DETACH", "SUBMIT", "TRANSFER"} => c.ctx \in hostCtx

(***************************************************************************)
(* No command names a resource after its RESOURCE_UNREF: handles, arrays   *)
(* and whoever works on an object each hold a reference, and an array is   *)
(* put exactly once, by the ioctl's cleanup or after the command's answer. *)
(***************************************************************************)
UnrefLast ==
  ring # <<>> =>
    LET c == Head(ring) IN c.bos \subseteq (IF c.op = "CREATE" THEN Bo \ hostRes ELSE hostRes)

(***************************************************************************)
(* An object is busy as long as the host works on it: DRM_VIRTGPU_WAIT and *)
(* every other reader of the reservation sees an unsignaled fence for each *)
(* fenced command that is queued or running.                               *)
(***************************************************************************)
BusyVisible ==
  \A c \in Range(ring) \cup Range(running) :
    c.job # 0 => c.job \notin signaled /\ \A b \in c.bos : ~WaitIsOver(b)

(***************************************************************************)
(* A job finishes after the job whose fence it was given, also where the   *)
(* wait was skipped because both are on one timeline. (A fence that was    *)
(* handed out without ever being emitted has no job.)                      *)
(***************************************************************************)
InFenceHonoured ==
  \A j \in finished : job[j].dep \in Range(emitted) => job[j].dep \in finished

(***************************************************************************)
(* A descriptor number is reserved exactly as long as a submission holds   *)
(* it: an installed one is never put back under its user, and none is      *)
(* lost, on any way out of the ioctl. (Number 0 is the exception: see      *)
(* InitSubmit.)                                                            *)
(***************************************************************************)
FdOwned ==
  \A n \in Fd \ {0} : fds[n] = "reserved" <=> \E t \in Thread : sub[t].fd = n

(***************************************************************************)
(* Reservation locks never outlive the submission, whatever way it ends:   *)
(* only a thread between locking and queueing holds one, and it holds all  *)
(* it needs.                                                               *)
(***************************************************************************)
LocksReleased ==
  \A b \in Bo, t \in Thread : resv[b] = t <=> th[t].pc = "submit" /\ b \in sub[t].bos
=============================================================================
