------------------------------ MODULE RespWait ------------------------------
(***************************************************************************)
(* Everything that waits on resp_wq for an answer of the host: capability  *)
(* sets while the device is probed and their cache later (virtgpu_kms.c,   *)
(* virtgpu_ioctl.c), the display (virtgpu_kms.c), the map of a host        *)
(* visible blob into the BAR and its mmap (virtgpu_vram.c), the uuid of an *)
(* exported object (virtgpu_prime.c); and the callbacks in virtgpu_vq.c    *)
(* that end these waits.                                                   *)
(*                                                                         *)
(* The control queue is a sequence the host reads in order (CtrlQueue has  *)
(* its inside). A reference an object array holds is dropped together with *)
(* the answer; ExecBuffer has the work item that does it later. Fields     *)
(* that are only copied (sizes, versions, modes, EDID blocks) are left     *)
(* out: what counts is whether the host has filled them in.                *)
(***************************************************************************)
EXTENDS Integers, Sequences, Functions

CONSTANTS
  Thread,
  Obj,         \* blobs and, without a range in the BAR, other exported objects
  NoObj,
  BarRange,    \* 2 MiB-aligned pieces of the host visible region
  NoRange,
  NumCapsets,
  HostId,      \* capset ids the host may answer with; 0 also for an error
  MaxId,       \* MAX_CAPSET_ID
  MaxCalls     \* bound: ioctls, changes of the display and a removal together

ASSUME WaitAssumption ==
  /\ NoObj \notin Obj /\ NoRange \notin BarRange
  /\ NumCapsets \in Nat /\ MaxId \in Nat
  /\ HostId \subseteq Nat
  /\ MaxCalls \in Nat

VARIABLES
  device,    \* "plugged", "unplugged" or "reset"
  boot,      \* where virtio_gpu_init is, and at which capset
  capId,     \* capsets[i].id, 0 before the answer; <<>> once it is freed
  numCapsets,
  pending,   \* display_info_pending
  known,     \* which state of the display outputs[].info describes
  config,    \* config_changed_work: "idle", "queued", "running"
  requeued,  \* config_changed_work is to run again
  event,     \* VIRTIO_GPU_EVENT_DISPLAY in events_read (external)
  display,   \* the state of the display (external), a number
  asked,     \* a history: the display when it was last asked for
  cache,     \* cap_cache: the id of each entry, and whether is_valid is set
  obj,       \* each object: kind, range of its vram_node, map_state, uuid_state
  refs,
  handle,    \* user space has a handle
  dmabuf,    \* a dma-buf of it is exported
  vma,       \* it is mapped by user space
  th,        \* where each thread is: pc, object, capset id
  calls,
  ring,      \* commands the host has not read
  answered,  \* answers the guest has not seen
  hostMap    \* what the host has mapped at each range (external)

bootVars == <<boot, capId, numCapsets>>
dispVars == <<pending, known, config, requeued, event, display, asked>>
objVars  == <<obj, refs, handle, dmabuf, vma>>
vars == <<device, boot, capId, numCapsets, pending, known, config, requeued, event, display,
          asked, cache, obj, refs, handle, dmabuf, vma, th, calls, ring, answered, hostMap>>

Fresh == [kind |-> "none", range |-> NoRange, map |-> "INITIALIZING", uuid |-> "INITIALIZING"]
Idle  == [pc |-> "idle", o |-> NoObj, id |-> 0]
(* A command, or its answer: of which object, with which number.           *)
Cmd(op, o, n) == [op |-> op, o |-> o, n |-> n]

CmdGetDisplayInfo   == Cmd("DISPLAY_INFO", NoObj, 0)
CmdGetCapsetInfo(i) == Cmd("CAPSET_INFO", NoObj, i)
CmdGetCapset(id)    == Cmd("CAPSET", NoObj, id)
CmdMap(o)           == Cmd("MAP", o, 0)
CmdUnmap(o)         == Cmd("UNMAP", o, 0)
CmdUnref(o)         == Cmd("UNREF", o, 0)
CmdAssignUuid(o)    == Cmd("UUID", o, 0)

Init ==
  /\ device = "plugged"
  /\ boot = [pc |-> "send", i |-> 1]
  /\ capId = [i \in 1 .. NumCapsets |-> 0]
  /\ numCapsets = 0
  /\ pending = FALSE /\ known = 0 /\ config = "idle" /\ requeued = FALSE
  /\ event = FALSE /\ display = 1 /\ asked = 0
  /\ cache = <<>>
  /\ obj = [o \in Obj |-> Fresh]
  /\ refs = [o \in Obj |-> 0]
  /\ handle = [o \in Obj |-> FALSE]
  /\ dmabuf = [o \in Obj |-> FALSE]
  /\ vma = [o \in Obj |-> FALSE]
  /\ th = [t \in Thread |-> Idle]
  /\ calls = 0
  /\ ring = <<>> /\ answered = <<>>
  /\ hostMap = [r \in BarRange |-> NoObj]

(* virtio_gpu_queue_ctrl_buffer: an error is looked at by UNREF alone.     *)
Queue(cmds) == ring' = IF device = "plugged" THEN ring \o cmds ELSE ring
-----------------------------------------------------------------------------
(* virtio_gpu_cmd_get_display_info; nobody looks at its -ENOMEM.           *)
GetDisplayInfo ==
  \/ pending' = TRUE /\ asked' = display /\ Queue(<<CmdGetDisplayInfo>>)
  \/ UNCHANGED <<pending, asked, ring>>

(* virtio_gpu_get_capsets asks for one capset after the other, and does not*)
(* look at -ENOMEM either; then virtio_gpu_init asks for the EDIDs and the *)
(* display.                                                                *)
BootSend ==
  /\ boot.pc = "send"
  /\ IF boot.i <= NumCapsets
     THEN /\ Queue(<<CmdGetCapsetInfo(boot.i)>>) \/ UNCHANGED ring
          /\ boot' = [boot EXCEPT !.pc = "wait"]
          /\ UNCHANGED <<numCapsets, pending, asked>>
     ELSE /\ numCapsets' = IF capId = <<>> THEN 0 ELSE NumCapsets
          /\ GetDisplayInfo
          /\ boot' = [boot EXCEPT !.pc = "display"]
  /\ UNCHANGED <<device, capId, known, config, requeued, event, display, cache, objVars, th, calls,
                 answered, hostMap>>

(***************************************************************************)
(* The answer is there, or 5 s went by (an id of 0 never ends the wait).   *)
(* One bad capset and the array is freed, under display_info_lock.         *)
(***************************************************************************)
BootWait ==
  /\ boot.pc = "wait"
  /\ \/ /\ capId[boot.i] \in 1 .. MaxId
        /\ boot' = [pc |-> "send", i |-> boot.i + 1]
        /\ UNCHANGED capId
     \/ /\ capId[boot.i] \notin 1 .. MaxId
        /\ capId' = <<>>
        /\ boot' = [pc |-> "send", i |-> NumCapsets + 1]
  /\ UNCHANGED <<device, numCapsets, dispVars, cache, objVars, th, calls, ring, answered, hostMap>>

(* The wait for the display, ended by the answer or after 5 s; either way  *)
(* the device is registered and user space can open it.                    *)
BootDisplay ==
  /\ boot.pc = "display"
  /\ boot' = [boot EXCEPT !.pc = "ready"]
  /\ UNCHANGED <<device, capId, numCapsets, dispVars, cache, objVars, th, calls, ring, answered,
                 hostMap>>
-----------------------------------------------------------------------------
(* The display changes and the host interrupts, external;                  *)
(* virtio_gpu_config_changed schedules the work.                           *)
DisplayChange ==
  /\ device = "plugged" /\ boot.pc = "ready" /\ calls < MaxCalls
  /\ calls' = calls + 1
  /\ display' = display + 1
  /\ event' = TRUE
  /\ config' = IF config = "idle" THEN "queued" ELSE config
  /\ requeued' = (config = "running")
  /\ UNCHANGED <<device, bootVars, pending, known, asked, cache, objVars, th, ring, answered, hostMap>>

(* virtio_gpu_config_changed_work_func reads the events and asks,          *)
ConfigWork ==
  /\ config = "queued"
  /\ config' = "running"
  /\ IF event THEN GetDisplayInfo ELSE UNCHANGED <<pending, asked, ring>>
  /\ UNCHANGED <<device, bootVars, known, requeued, event, display, cache, objVars, th, calls, answered,
                 hostMap>>

(* and clears what it read. A change in between loses its event, and so    *)
(* does one that could not be asked about.                                 *)
ConfigClear ==
  /\ config = "running"
  /\ event' = FALSE
  /\ config' = IF requeued THEN "queued" ELSE "idle"
  /\ requeued' = FALSE
  /\ UNCHANGED <<device, bootVars, pending, known, display, asked, cache, objVars, th, calls,
                 ring, answered, hostMap>>
-----------------------------------------------------------------------------
(* An ioctl begins.                                                        *)
Begin(t, pc, o, id) ==
  /\ th[t] = Idle
  /\ boot.pc = "ready" /\ device = "plugged" /\ calls < MaxCalls
  /\ calls' = calls + 1
  /\ th' = [th EXCEPT ![t] = [pc |-> pc, o |-> o, id |-> id]]

Goto(t, label) == th' = [th EXCEPT ![t].pc = label]
Return(t)      == th' = [th EXCEPT ![t] = Idle]
Entry(id)      == {i \in DOMAIN cache : cache[i].id = id}

(* DRM_VIRTGPU_GET_CAPS: -ENOSYS without capsets, -EINVAL for an unknown   *)
(* one; in the cache its entry is waited for, valid or not.                *)
GetCaps(t) ==
  /\ numCapsets > 0
  /\ \E id \in {capId[i] : i \in DOMAIN capId} :
       Begin(t, IF Entry(id) # {} THEN "caps" ELSE "capsAdd", NoObj, id)
  /\ UNCHANGED <<device, bootVars, dispVars, cache, objVars, ring, answered, hostMap>>

(* Mutant: "in case it was added by another task" is forgotten.            *)
GetCapsetBlind(t) ==
  /\ th[t].pc = "capsAdd"
  /\ cache' = Append(cache, [id |-> th[t].id, valid |-> FALSE])
  /\ Goto(t, "capsQueue")
  /\ UNCHANGED <<device, bootVars, dispVars, objVars, calls, ring, answered, hostMap>>

(* virtio_gpu_cmd_get_capset: no memory, or search again and add,          *)
GetCapset(t) ==
  /\ th[t].pc = "capsAdd"
  /\ \/ Return(t) /\ UNCHANGED cache
     \/ /\ Entry(th[t].id) # {}
        /\ Goto(t, "caps")
        /\ UNCHANGED cache
     \/ /\ Entry(th[t].id) = {}
        /\ cache' = Append(cache, [id |-> th[t].id, valid |-> FALSE])
        /\ Goto(t, "capsQueue")
  /\ UNCHANGED <<device, bootVars, dispVars, objVars, calls, ring, answered, hostMap>>

(* and, off the lock, ask the host.                                        *)
GetCapsetQueue(t) ==
  /\ th[t].pc = "capsQueue"
  /\ Queue(<<CmdGetCapset(th[t].id)>>)
  /\ Goto(t, "caps")
  /\ UNCHANGED <<device, bootVars, dispVars, cache, objVars, calls, answered, hostMap>>

(* Woken because the entry is valid, or -EBUSY after 5 s.                  *)
CapsDone(t) ==
  /\ th[t].pc = "caps"
  /\ Return(t)
  /\ UNCHANGED <<device, bootVars, dispVars, cache, objVars, calls, ring, answered, hostMap>>
-----------------------------------------------------------------------------
(***************************************************************************)
(* What becomes of an object when n references to it go. The last one      *)
(* queues an unmap, if a range is allocated, and an unref. The range is    *)
(* free again only with the answer to the unref, or at once if the device  *)
(* is gone.                                                                *)
(***************************************************************************)
Drop(o, n, state) ==
  /\ refs' = [refs EXCEPT ![o] = @ - n]
  /\ IF refs[o] > n
     THEN obj' = state /\ UNCHANGED ring
     ELSE /\ Queue((IF state[o].range = NoRange THEN <<>> ELSE <<CmdUnmap(o)>>)
                   \o <<CmdUnref(o)>>)
          /\ obj' = [state EXCEPT ![o] =
                       IF device = "plugged" THEN [@ EXCEPT !.kind = "dying"] ELSE Fresh]

(***************************************************************************)
(* The create ioctls: virtio_gpu_vram_create for a host3d blob, which may  *)
(* ask for a uuid at once ("cross"); virtio_gpu_object_create otherwise.   *)
(* Nobody waits for the create command itself, which is not in the ring    *)
(* here. Which object it becomes does not matter.                          *)
(***************************************************************************)
CreateObj(t) ==
  LET o == CHOOSE p \in Obj : obj[p].kind = "none"
  IN  /\ \E p \in Obj : obj[p].kind = "none"
      /\ \E k \in {"blob", "cross", "plain"} :
           /\ Begin(t, IF k = "plain" THEN "handle" ELSE "node", o, 0)
           /\ obj' = [obj EXCEPT ![o].kind = k]
      /\ refs' = [refs EXCEPT ![o] = 1]
      /\ UNCHANGED <<device, bootVars, dispVars, cache, handle, dmabuf, vma, ring, answered, hostMap>>

(* virtio_gpu_vram_map, under host_visible_lock: a range no other node     *)
(* has, however it got there. Without one the object is freed.             *)
InsertNode(t) ==
  LET o == th[t].o
      free == {r \in BarRange : \A p \in Obj : obj[p].range # r}
  IN  /\ th[t].pc = "node"
      /\ \/ /\ \E r \in free : obj' = [obj EXCEPT ![o].range = r]
            /\ Goto(t, "map")
            /\ UNCHANGED <<refs, ring>>
         \/ /\ free = {}
            /\ Drop(o, 1, obj)
            /\ Return(t)
      /\ UNCHANGED <<device, bootVars, dispVars, cache, handle, dmabuf, vma, calls, answered, hostMap>>

(* The rest of it: the command takes a reference along, which is lost if   *)
(* the device is gone; without memory the node is removed before the       *)
(* object is freed.                                                        *)
SendMap(t) ==
  LET o == th[t].o
  IN  /\ th[t].pc = "map"
      /\ \/ /\ Queue(<<CmdMap(o)>>)
            /\ refs' = [refs EXCEPT ![o] = @ + 1]
            /\ Goto(t, "handle")
            /\ UNCHANGED obj
         \/ /\ Drop(o, 1, [obj EXCEPT ![o].range = NoRange])
            /\ Return(t)
      /\ UNCHANGED <<device, bootVars, dispVars, cache, handle, dmabuf, vma, calls, answered, hostMap>>

(***************************************************************************)
(* The end of virtio_gpu_resource_create_blob_ioctl: the uuid, if it was   *)
(* asked for, then the handle; the creator's reference becomes the         *)
(* handle's, or is dropped if one of them fails.                           *)
(***************************************************************************)
CreateHandle(t) ==
  LET o == th[t].o
      ask == obj[o].kind = "cross"
  IN  /\ th[t].pc = "handle"
      /\ \/ /\ handle' = [handle EXCEPT ![o] = TRUE]
            /\ Queue(IF ask THEN <<CmdAssignUuid(o)>> ELSE <<>>)
            /\ refs' = [refs EXCEPT ![o] = IF ask THEN @ + 1 ELSE @]
            /\ UNCHANGED obj
         \/ /\ Drop(o, 1, [obj EXCEPT ![o].uuid = "ERR"])
            /\ UNCHANGED handle
      /\ Return(t)
      /\ UNCHANGED <<device, bootVars, dispVars, cache, dmabuf, vma, calls, answered, hostMap>>

(* DRM_IOCTL_GEM_CLOSE, munmap, the last fd of a dma-buf.                  *)
CloseRef(o) ==
  /\ \/ handle[o] /\ handle' = [handle EXCEPT ![o] = FALSE] /\ UNCHANGED <<vma, dmabuf>>
     \/ vma[o]    /\ vma' = [vma EXCEPT ![o] = FALSE] /\ UNCHANGED <<handle, dmabuf>>
     \/ /\ dmabuf[o] /\ \A t \in Thread : th[t].pc = "uuid" => th[t].o # o
        /\ dmabuf' = [dmabuf EXCEPT ![o] = FALSE] /\ UNCHANGED <<handle, vma>>
  /\ Drop(o, 1, obj)
  /\ UNCHANGED <<device, bootVars, dispVars, cache, th, calls, answered, hostMap>>
-----------------------------------------------------------------------------
(* virtio_gpu_vram_mmap of a blob; the mapping to be holds a reference.    *)
Mmap(t) ==
  /\ \E o \in Obj :
       /\ handle[o] /\ ~vma[o] /\ obj[o].kind # "plain"
       /\ \A u \in Thread : th[u].pc = "mmap" => th[u].o # o
       /\ Begin(t, "mmap", o, 0)
       /\ refs' = [refs EXCEPT ![o] = @ + 1]
  /\ UNCHANGED <<device, bootVars, dispVars, cache, obj, handle, dmabuf, vma, ring, answered, hostMap>>

(* Mutant: the answer is not waited for.                                   *)
MapReadyAlways(o) == TRUE

MapReady(o) == obj[o].map # "INITIALIZING"

(* The wait, without a timeout; an error and the reference goes.           *)
MmapDone(t) ==
  LET o == th[t].o
  IN  /\ th[t].pc = "mmap"
      /\ MapReady(o)
      /\ IF obj[o].map # "ERR"
         THEN vma' = [vma EXCEPT ![o] = TRUE] /\ UNCHANGED <<refs, obj, ring>>
         ELSE Drop(o, 1, obj) /\ UNCHANGED vma
      /\ Return(t)
      /\ UNCHANGED <<device, bootVars, dispVars, cache, handle, dmabuf, calls, answered, hostMap>>

(***************************************************************************)
(* virtgpu_gem_prime_export. Only a plain object asks for its uuid here,   *)
(* also when it is exported again after its dma-buf went; a blob without   *)
(* the flag has none. No memory, and uuid_state is STATE_ERR for good.     *)
(***************************************************************************)
Export(t) ==
  /\ th[t] = Idle
  /\ boot.pc = "ready" /\ device = "plugged" /\ calls < MaxCalls
  /\ calls' = calls + 1
  /\ \E o \in Obj :
       /\ handle[o] /\ ~dmabuf[o]
       /\ \/ /\ dmabuf' = [dmabuf EXCEPT ![o] = TRUE]
             /\ refs' = [refs EXCEPT ![o] = IF obj[o].kind = "plain" THEN @ + 2 ELSE @ + 1]
             /\ obj' = [obj EXCEPT ![o].uuid = IF obj[o].kind = "blob" THEN "ERR" ELSE @]
             /\ Queue(IF obj[o].kind = "plain" THEN <<CmdAssignUuid(o)>> ELSE <<>>)
          \/ /\ obj[o].kind = "plain"
             /\ obj' = [obj EXCEPT ![o].uuid = "ERR"]
             /\ UNCHANGED <<dmabuf, refs, ring>>
  /\ UNCHANGED <<device, bootVars, dispVars, cache, handle, vma, th, answered, hostMap>>

(* virtgpu_virtio_get_uuid, for another virtio driver: no timeout either.  *)
GetUuid(t) ==
  /\ \E o \in Obj : dmabuf[o] /\ Begin(t, "uuid", o, 0)
  /\ UNCHANGED <<device, bootVars, dispVars, cache, objVars, ring, answered, hostMap>>

UuidDone(t) ==
  /\ th[t].pc = "uuid"
  /\ obj[th[t].o].uuid # "INITIALIZING"
  /\ Return(t)
  /\ UNCHANGED <<device, bootVars, dispVars, cache, objVars, calls, ring, answered, hostMap>>
-----------------------------------------------------------------------------
(* The host, external: reads in order and may answer with an error.        *)
HostRead ==
  /\ ring # <<>>
  /\ LET c == Head(ring)
         Answer(n) == answered' = Append(answered, [c EXCEPT !.n = n])
         Unmapped == [r \in BarRange |-> IF hostMap[r] = c.o THEN NoObj ELSE hostMap[r]]
     IN  CASE c.op = "CAPSET_INFO"  ->
                /\ \E id \in HostId \cup {0} :
                     answered' = Append(answered, [c EXCEPT !.o = id])
                /\ UNCHANGED hostMap
           [] c.op = "CAPSET"       -> Answer(c.n) /\ UNCHANGED hostMap
           [] c.op = "DISPLAY_INFO" -> Answer(display) /\ UNCHANGED hostMap
           [] c.op = "MAP"  -> \/ Answer(1) /\ hostMap' = [hostMap EXCEPT ![obj[c.o].range] = c.o]
                               \/ Answer(0) /\ UNCHANGED hostMap
           [] c.op = "UUID" -> (Answer(1) \/ Answer(0)) /\ UNCHANGED hostMap
           [] c.op = "UNMAP"  -> hostMap' = Unmapped /\ UNCHANGED answered
           [] c.op = "UNREF"  -> hostMap' = Unmapped /\ Answer(0)
  /\ ring' = Tail(ring)
  /\ UNCHANGED <<device, bootVars, dispVars, cache, objVars, th, calls>>

(* Mutant: an error answer leaves the state as it was.                     *)
UuidAnswerOnlyOK(o, n) ==
  [obj EXCEPT ![o].uuid = IF n = 1 /\ @ = "INITIALIZING" THEN "OK" ELSE @]

(* virtio_gpu_cmd_resource_uuid_cb: a second answer also ends in an error. *)
UuidAnswer(o, n) ==
  [obj EXCEPT ![o].uuid = IF n = 1 /\ @ = "INITIALIZING" THEN "OK" ELSE "ERR"]

(* virtio_gpu_cmd_resource_map_cb.                                         *)
MapAnswer(o, n) == [obj EXCEPT ![o].map = IF n = 1 THEN "OK" ELSE "ERR"]

(* virtio_gpu_cmd_capset_cb fills the first entry with the id, whatever    *)
(* the type of the response.                                               *)
CapsetAnswer(id) ==
  [i \in DOMAIN cache |->
     IF cache[i].id = id /\ \A k \in 1 .. i - 1 : cache[k].id # id
     THEN [cache[i] EXCEPT !.valid = TRUE] ELSE cache[i]]

(* virtio_gpu_cmd_get_capset_info_cb: the array is gone if a wait for an   *)
(* earlier answer timed out.                                               *)
CapsetInfoAnswer(i, id) == IF capId = <<>> THEN capId ELSE [capId EXCEPT ![i] = id]

(* Mutant: an answer nobody waits for any more is dropped.                 *)
DisplayAnswerOnce(n) ==
  pending' = FALSE /\ known' = IF pending THEN n ELSE known

(* virtio_gpu_cmd_get_display_info_cb, of every question asked.            *)
DisplayAnswer(n) == known' = n /\ pending' = FALSE

(* The callback of each answer; the array of objects is put at the end.    *)
Dequeue ==
  /\ answered # <<>>
  /\ LET c == Head(answered)
     IN  /\ capId' = IF c.op = "CAPSET_INFO" THEN CapsetInfoAnswer(c.n, c.o) ELSE capId
         /\ cache' = IF c.op = "CAPSET" THEN CapsetAnswer(c.n) ELSE cache
         /\ IF c.op = "DISPLAY_INFO" THEN DisplayAnswer(c.n) ELSE UNCHANGED <<known, pending>>
         /\ CASE c.op = "MAP"   -> Drop(c.o, 1, MapAnswer(c.o, c.n))
              [] c.op = "UUID"  -> Drop(c.o, 1, UuidAnswer(c.o, c.n))
              [] c.op = "UNREF" -> obj' = [obj EXCEPT ![c.o] = Fresh] /\ UNCHANGED <<refs, ring>>
              [] OTHER          -> UNCHANGED <<obj, refs, ring>>
  /\ answered' = Tail(answered)
  /\ UNCHANGED <<device, boot, numCapsets, config, requeued, event, display, asked, handle, dmabuf,
                 vma, th, calls, hostMap>>

(* virtio_gpu_remove: nothing is queued any more; then virtio_gpu_deinit   *)
(* resets the device, and what it had not answered never is.               *)
RemoveDevice ==
  /\ boot.pc = "ready"
  /\ \/ /\ device = "plugged" /\ calls < MaxCalls
        /\ device' = "unplugged"
        /\ calls' = calls + 1
        /\ UNCHANGED <<ring, answered>>
     \/ /\ device = "unplugged" /\ config = "idle"
        /\ device' = "reset"
        /\ ring' = <<>> /\ answered' = <<>> /\ UNCHANGED calls
  /\ UNCHANGED <<bootVars, dispVars, cache, objVars, th, hostMap>>
-----------------------------------------------------------------------------
BootNext == BootSend \/ BootWait \/ BootDisplay
WorkNext == ConfigWork \/ ConfigClear

CallNext(t) ==
  GetCaps(t) \/ CreateObj(t) \/ Mmap(t) \/ Export(t) \/ GetUuid(t)

ThreadNext(t) ==
  \/ GetCapset(t) \/ GetCapsetQueue(t) \/ CapsDone(t)
  \/ InsertNode(t) \/ SendMap(t) \/ CreateHandle(t)
  \/ MmapDone(t) \/ UuidDone(t)

Next ==
  \/ BootNext \/ WorkNext \/ DisplayChange
  \/ \E t \in Thread : CallNext(t) \/ ThreadNext(t)
  \/ \E o \in Obj : CloseRef(o)
  \/ HostRead \/ Dequeue \/ RemoveDevice

(* Works, woken threads and timers run, and a device that is not removed   *)
(* answers what it is sent.                                                *)
Fairness ==
  /\ WF_vars(BootNext) /\ WF_vars(WorkNext)
  /\ \A t \in Thread : WF_vars(ThreadNext(t))
  /\ WF_vars(HostRead) /\ WF_vars(Dequeue)

Spec == Init /\ [][Next]_vars /\ Fairness
-----------------------------------------------------------------------------
(***************************************************************************)
(* An entry of the capset cache that is not valid yet is about to be: its  *)
(* GET_CAPSET is still to be queued, queued, or answered. Otherwise every  *)
(* later DRM_VIRTGPU_GET_CAPS would find the entry and end in -EBUSY.      *)
(***************************************************************************)
EntryPending ==
  \A i \in DOMAIN cache :
    \/ cache[i].valid
    \/ device # "plugged"
    \/ \E t \in Thread : th[t].pc = "capsQueue" /\ th[t].id = cache[i].id
    \/ \E c \in Range(ring \o answered) : c.op = "CAPSET" /\ c.n = cache[i].id

(***************************************************************************)
(* A piece of the BAR that user space has mapped shows the object it       *)
(* mapped, as long as it is mapped: not before the host answered, not      *)
(* after an error, and not when the range has gone to another object.      *)
(***************************************************************************)
MappedIsBacked ==
  device = "plugged" => \A o \in Obj : vma[o] => hostMap[obj[o].range] = o

(***************************************************************************)
(* What the guest knows of the display is never older than the last time it*)
(* asked, unless an answer is outstanding: two questions may be in flight, *)
(* that of the probe, which gave up waiting, and that of a change, for one *)
(* display_info_pending, and the answer to the first must not end what the *)
(* guest learns of the second. (It does not ask about every change: there  *)
(* may be no memory, or the event of a change is cleared with that of the  *)
(* one before. Nothing in the code makes up for that.)                     *)
(***************************************************************************)
DisplayAnswered ==
  device = "plugged" =>
    \/ known >= asked
    \/ \E c \in Range(ring \o answered) : c.op = "DISPLAY_INFO"

(***************************************************************************)
(* Every wait ends while the device stays: those for a map and for a uuid  *)
(* have no timeout and rely on a command having been queued for each       *)
(* object that can be waited for, and on errors ending the wait too.       *)
(***************************************************************************)
WaitsEnd ==
  \A t \in Thread : th[t].pc # "idle" ~> th[t].pc = "idle" \/ device # "plugged"
=============================================================================
