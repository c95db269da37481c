------------------------------ MODULE CtrlQueue -----------------------------
(***************************************************************************)
(* The control virtqueue of the gpu driver (virtgpu_vq.c) with its fences  *)
(* (virtgpu_fence.c) and the delayed release of object arrays              *)
(* (virtgpu_gem.c).                                                        *)
(*                                                                         *)
(* Threads queue commands under qlock and tell the host about a batch of   *)
(* them later, in virtio_gpu_notify(); with too few descriptors left they  *)
(* sleep on ack_queue inside drm_dev_enter. One work takes the answers,    *)
(* signals fences, runs the callbacks, wakes the sleepers and hands object *)
(* arrays to a second work, which may have to queue an unref itself.       *)
(*                                                                         *)
(* qlock is a spinlock: what a thread does under it is one step. The work  *)
(* holds it over several, because the host keeps adding answers meanwhile. *)
(***************************************************************************)
EXTENDS Integers, Sequences, SequencesExt

CONSTANTS
  Thread,
  FreeWork,   \* the thread that runs obj_free_work
  Cmd,
  NoCmd,
  Script,     \* the commands each thread queues before it notifies the host
  Elems,      \* descriptors a command needs
  Timeline,   \* dma-fence context of a command's fence
  NoFence,
  Drops,      \* the unref sent when a command's object array goes, or NoCmd
  Pooled,     \* commands sent after an allocation under guest_pool_lock
  Data,       \* commands with a vmalloc'ed payload
  Unref,      \* commands whose callback takes guest_pool_lock
  RingSize,
  Nobody

(* A command is one vbuffer, queued once; an unref carries no objects.     *)
ASSUME QueueAssumption ==
  /\ FreeWork \in Thread
  /\ Script \in [Thread -> Seq(Cmd)] /\ Script[FreeWork] = <<>>
  /\ RingSize \in Nat
  /\ Elems \in [Cmd -> 1 .. RingSize]
  /\ Drops \in [Cmd -> Unref \cup {NoCmd}]
  /\ Pooled \subseteq Cmd /\ Data \subseteq Cmd \ Pooled /\ Unref \subseteq Cmd /\ NoCmd \notin Cmd
  /\ Nobody \notin Thread
  /\ \A t, u \in Thread : \A i \in 1 .. Len(Script[t]), j \in 1 .. Len(Script[u]) :
       Script[t][i] = Script[u][j] => t = u /\ i = j
  /\ \A c \in Cmd, d \in Cmd : Drops[c] = Drops[d] /\ Drops[c] # NoCmd => c = d
  /\ \A c \in Cmd, t \in Thread : \A i \in 1 .. Len(Script[t]) : Drops[c] # Script[t][i]
  /\ \A c \in Unref : Drops[c] = NoCmd

VARIABLES
  plugged,    \* drm_dev_enter succeeds
  unplugged,  \* drm_dev_unplug has returned
  pc,         \* where each thread is
  todo,       \* what it still has to queue
  poolLock,   \* holder of guest_pool_lock
  numFree,    \* vq->num_free
  numAdded,   \* commands added since the last kick_prepare
  pending,    \* pending_commands
  lastFence,  \* fence_drv.current_fence_id
  fence,      \* the fence id of each command, 0 before it is emitted
  fences,     \* fence_drv.fences; their order is that of the ids
  signaled,   \* commands whose fence is signaled
  wk,         \* where the dequeue work is
  scheduled,  \* the dequeue work is queued
  cbOn,       \* virtqueue callbacks are enabled
  reclaim,    \* reclaim_list, not processed yet
  handled,    \* the part of it that is processed
  freed,      \* commands whose vbuffer is freed
  freeList,   \* obj_free_list
  avail,      \* commands the host has not read (external)
  hostq,      \* commands the host works on (external)
  used,       \* commands the host answered (external)
  asleep,     \* the host waits for a notification (external)
  completed   \* commands the host carried out (external)

devVars   == <<plugged, unplugged>>
fenceVars == <<lastFence, fence, fences, signaled>>
workVars  == <<wk, scheduled, cbOn, reclaim, handled, freed, freeList>>
hostVars  == <<avail, hostq, used, asleep, completed>>
vars == <<plugged, unplugged, pc, todo, poolLock, numFree, numAdded, pending,
          lastFence, fence, fences, signaled, wk, scheduled, cbOn, reclaim,
          handled, freed, freeList, avail, hostq, used, asleep, completed>>

Labels == {"idle", "start", "pool", "call", "entered", "notify", "kick",
           "doorbell", "wait", "sleep"}

TypeOK ==
  /\ plugged \in BOOLEAN /\ unplugged \in BOOLEAN
  /\ pc \in [Thread -> Labels]
  /\ todo \in [Thread -> Seq(Cmd)]
  /\ poolLock \in Thread \cup {Nobody}
  /\ numFree \in 0 .. RingSize
  /\ numAdded \in Nat /\ pending \in Nat
  /\ lastFence \in Nat
  /\ fence \in [Cmd -> Nat]
  /\ fences \subseteq Cmd
  /\ signaled \subseteq Cmd
  /\ wk \in {"idle", "reclaim", "enable", "process", "free"}
  /\ scheduled \in BOOLEAN /\ cbOn \in BOOLEAN
  /\ reclaim \in Seq(Cmd) /\ handled \in Seq(Cmd)
  /\ freed \subseteq Cmd
  /\ freeList \in Seq(Cmd)
  /\ avail \in Seq(Cmd) /\ hostq \in Seq(Cmd) /\ used \in Seq(Cmd)
  /\ asleep \in BOOLEAN
  /\ completed \subseteq Cmd

Init ==
  /\ plugged = TRUE /\ unplugged = FALSE
  /\ pc = [t \in Thread |-> IF Script[t] = <<>> THEN "idle" ELSE "start"]
  /\ todo = Script
  /\ poolLock = Nobody
  /\ numFree = RingSize
  /\ numAdded = 0 /\ pending = 0
  /\ lastFence = 0
  /\ fence = [c \in Cmd |-> 0]
  /\ fences = {}
  /\ signaled = {}
  /\ wk = "idle"
  /\ scheduled = FALSE /\ cbOn = TRUE
  /\ reclaim = <<>> /\ handled = <<>>
  /\ freed = {}
  /\ freeList = <<>>
  /\ avail = <<>> /\ hostq = <<>> /\ used = <<>>
  /\ asleep = TRUE
  /\ completed = {}

Goto(t, label) == pc' = [pc EXCEPT ![t] = label]

(* qlock is free: the dequeue work is the one that keeps it over steps.    *)
QlockFree == wk \notin {"reclaim", "enable"}

(* The next command of the batch, or the notification at its end.          *)
Advance(t) ==
  /\ todo' = [todo EXCEPT ![t] = Tail(todo[t])]
  /\ Goto(t, IF Tail(todo[t]) = <<>> THEN "notify" ELSE "start")
-----------------------------------------------------------------------------
(* virtio_gpu_guest_pool_create takes blocks before it sends anything.     *)
PoolLock(t) ==
  /\ pc[t] = "start"
  /\ Head(todo[t]) \in Pooled
  /\ poolLock = Nobody
  /\ poolLock' = t
  /\ Goto(t, "pool")
  /\ UNCHANGED <<devVars, todo, numFree, numAdded, pending, fenceVars, workVars, hostVars>>

PoolUnlock(t) ==
  /\ pc[t] = "pool"
  /\ poolLock' = Nobody
  /\ Goto(t, "call")
  /\ UNCHANGED <<devVars, todo, numFree, numAdded, pending, fenceVars, workVars, hostVars>>

(* No memory for the payload's sg_table: -ENOMEM, and nobody frees the     *)
(* buffer.                                                                 *)
NoTable(t) ==
  /\ pc[t] = "start"
  /\ Head(todo[t]) \in Data
  /\ Advance(t)
  /\ UNCHANGED <<devVars, poolLock, numFree, numAdded, pending, fenceVars, workVars, hostVars>>

(* drm_dev_enter; without a device the buffer is freed, -ENODEV. Its       *)
(* object array is not put.                                                *)
Enter(t) ==
  /\ \/ pc[t] = "call"
     \/ pc[t] = "start" /\ Head(todo[t]) \notin Pooled
  /\ \/ /\ plugged
        /\ Goto(t, "entered")
        /\ UNCHANGED <<todo, freed>>
     \/ /\ ~plugged
        /\ freed' = freed \cup {Head(todo[t])}
        /\ Advance(t)
  /\ UNCHANGED <<devVars, poolLock, numFree, numAdded, pending, fenceVars, wk, scheduled,
                 cbOn, reclaim, handled, freeList, hostVars>>

(* virtio_gpu_fence_emit: the id is known once the ring position is.       *)
Emit(c) ==
  \/ /\ Timeline[c] = NoFence
     /\ UNCHANGED <<lastFence, fence, fences>>
  \/ /\ Timeline[c] # NoFence
     /\ lastFence' = lastFence + 1
     /\ fence' = [fence EXCEPT ![c] = lastFence + 1]
     /\ fences' = fences \cup {c}

(* virtqueue_add_sgs and the count of commands the host was not told of.   *)
Add(c) ==
  /\ avail' = Append(avail, c)
  /\ numFree' = numFree - Elems[c]
  /\ numAdded' = numAdded + 1
  /\ pending' = pending + 1

(* Mutant of Queue: the fence is emitted before qlock is taken and the     *)
(* position is known.                                                      *)
QueueEmitsFirst(t) ==
  LET c == Head(todo[t])
  IN  /\ pc[t] = "entered"
      /\ \/ /\ Timeline[c] # NoFence /\ fence[c] = 0
            /\ Emit(c)
            /\ UNCHANGED <<pc, todo, numFree, numAdded, pending, avail>>
         \/ /\ Timeline[c] # NoFence => fence[c] # 0
            /\ QlockFree
            /\ numFree >= Elems[c]
            /\ Add(c)
            /\ Advance(t)
            /\ UNCHANGED <<lastFence, fence, fences>>
      /\ UNCHANGED <<devVars, poolLock, signaled, workVars, hostq, used, asleep, completed>>

(* virtio_gpu_queue_ctrl_sgs with enough room: fence, add, count, leave.   *)
Queue(t) ==
  LET c == Head(todo[t])
  IN  /\ pc[t] = "entered"
      /\ QlockFree
      /\ numFree >= Elems[c]
      /\ Emit(c)
      /\ Add(c)
      /\ Advance(t)
      /\ UNCHANGED <<devVars, poolLock, signaled, workVars, hostq, used, asleep, completed>>

(* Mutant: the thread goes to sleep without notifying the host first.      *)
QueueFullSilent(t) ==
  /\ pc[t] = "entered"
  /\ QlockFree
  /\ numFree < Elems[Head(todo[t])]
  /\ Goto(t, "wait")
  /\ UNCHANGED <<devVars, todo, poolLock, numFree, numAdded, pending, fenceVars, workVars, hostVars>>

(* Too little room: notify the host, then wait for ack_queue.              *)
QueueFull(t) ==
  /\ pc[t] = "entered"
  /\ QlockFree
  /\ numFree < Elems[Head(todo[t])]
  /\ Goto(t, "notify")
  /\ UNCHANGED <<devVars, todo, poolLock, numFree, numAdded, pending, fenceVars, workVars, hostVars>>

(* wait_event: look at num_free, without qlock, before going to sleep.     *)
Wait(t) ==
  /\ pc[t] = "wait"
  /\ Goto(t, IF numFree >= Elems[Head(todo[t])] THEN "entered" ELSE "sleep")
  /\ UNCHANGED <<devVars, todo, poolLock, numFree, numAdded, pending, fenceVars, workVars, hostVars>>
-----------------------------------------------------------------------------
(* Where virtio_gpu_notify returns to: the wait, or the end of the batch.  *)
AfterNotify(t) == IF todo[t] = <<>> THEN "idle" ELSE "wait"

(* virtio_gpu_notify: nothing to tell, as far as can be seen without qlock *)
NotifyRead(t) ==
  /\ pc[t] = "notify"
  /\ Goto(t, IF pending = 0 THEN AfterNotify(t) ELSE "kick")
  /\ UNCHANGED <<devVars, todo, poolLock, numFree, numAdded, pending, fenceVars, workVars, hostVars>>

(* virtqueue_kick_prepare, external: with event indices the host wants to  *)
(* hear of the first command it has not read, from whoever covers it.      *)
KickNeeded == asleep /\ avail # <<>> /\ Len(avail) <= numAdded

(* Mutant: the host is not asked, it is taken to be awake.                 *)
NotifyKickNever(t) ==
  /\ pc[t] = "kick"
  /\ QlockFree
  /\ pending' = 0
  /\ numAdded' = 0
  /\ Goto(t, AfterNotify(t))
  /\ UNCHANGED <<devVars, todo, poolLock, numFree, fenceVars, workVars, hostVars>>

(* under qlock: reset the count, cover everything added so far,            *)
NotifyKick(t) ==
  /\ pc[t] = "kick"
  /\ QlockFree
  /\ pending' = 0
  /\ numAdded' = 0
  /\ Goto(t, IF KickNeeded THEN "doorbell" ELSE AfterNotify(t))
  /\ UNCHANGED <<devVars, todo, poolLock, numFree, fenceVars, workVars, hostVars>>

(* and ring the doorbell after the unlock.                                 *)
Doorbell(t) ==
  /\ pc[t] = "doorbell"
  /\ asleep' = FALSE
  /\ Goto(t, AfterNotify(t))
  /\ UNCHANGED <<devVars, todo, poolLock, numFree, numAdded, pending, fenceVars, workVars,
                 avail, hostq, used, completed>>
-----------------------------------------------------------------------------
(* virtio_gpu_dequeue_ctrl_func takes qlock,                               *)
WorkStart ==
  /\ wk = "idle"
  /\ scheduled
  /\ scheduled' = FALSE
  /\ cbOn' = FALSE
  /\ wk' = "reclaim"
  /\ UNCHANGED <<devVars, pc, todo, poolLock, numFree, numAdded, pending, fenceVars,
                 reclaim, handled, freed, freeList, hostVars>>

(* reclaims every answer there is,                                         *)
WorkReclaim ==
  /\ wk = "reclaim"
  /\ \/ /\ used # <<>>
        /\ reclaim' = Append(reclaim, Head(used))
        /\ numFree' = numFree + Elems[Head(used)]
        /\ used' = Tail(used)
        /\ UNCHANGED wk
     \/ /\ used = <<>>
        /\ wk' = "enable"
        /\ UNCHANGED <<reclaim, numFree, used>>
  /\ UNCHANGED <<devVars, pc, todo, poolLock, numAdded, pending, fenceVars, scheduled, cbOn,
                 handled, freed, freeList, avail, hostq, asleep, completed>>

(* Mutant: what virtqueue_enable_cb returns is not looked at.              *)
WorkEnableOnce ==
  /\ wk = "enable"
  /\ cbOn' = TRUE
  /\ wk' = "process"
  /\ UNCHANGED <<devVars, pc, todo, poolLock, numFree, numAdded, pending, fenceVars, scheduled,
                 reclaim, handled, freed, freeList, hostVars>>

(* enables the callback, and starts over if an answer came in meanwhile.   *)
WorkEnable ==
  /\ wk = "enable"
  /\ \/ /\ used # <<>>
        /\ wk' = "reclaim"
        /\ UNCHANGED cbOn
     \/ /\ used = <<>>
        /\ cbOn' = TRUE
        /\ wk' = "process"
  /\ UNCHANGED <<devVars, pc, todo, poolLock, numFree, numAdded, pending, fenceVars, scheduled,
                 reclaim, handled, freed, freeList, hostVars>>

(* virtio_gpu_fence_event_process: a fence and the earlier ones of its     *)
(* context.                                                                *)
SignaledBy(c) ==
  {d \in Cmd : fence[d] # 0 /\ Timeline[d] = Timeline[c] /\ fence[d] <= fence[c]}

(* One answer: its fence, then its callback, which may wait for the pool.  *)
WorkProcess ==
  /\ wk = "process"
  /\ reclaim # <<>>
  /\ LET c == Head(reclaim)
         S == fences \cap SignaledBy(c)
     IN  /\ c \in Unref => poolLock = Nobody
         /\ \/ /\ Timeline[c] = NoFence
               /\ UNCHANGED <<fences, signaled>>
            \/ /\ Timeline[c] # NoFence
               /\ IF c \in fences
                  THEN /\ signaled' = signaled \cup S
                       /\ fences' = fences \ S
                  ELSE UNCHANGED <<fences, signaled>>
         /\ handled' = Append(handled, c)
  /\ reclaim' = Tail(reclaim)
  /\ UNCHANGED <<devVars, pc, todo, poolLock, numFree, numAdded, pending, lastFence, fence,
                 wk, scheduled, cbOn, freed, freeList, hostVars>>

(* wake_up(&ack_queue): everybody looks at num_free again.                 *)
WorkWake ==
  /\ wk = "process"
  /\ reclaim = <<>>
  /\ pc' = [t \in Thread |-> IF pc[t] = "sleep" THEN "wait" ELSE pc[t]]
  /\ wk' = "free"
  /\ UNCHANGED <<devVars, todo, poolLock, numFree, numAdded, pending, fenceVars, scheduled,
                 cbOn, reclaim, handled, freed, freeList, hostVars>>

(* One buffer after the other: its object array goes to obj_free_work, and *)
(* it is freed. Then the work is over.                                     *)
WorkFree ==
  /\ wk = "free"
  /\ \/ /\ handled # <<>>
        /\ LET c == Head(handled)
           IN  /\ freeList' = IF Drops[c] = NoCmd THEN freeList ELSE Append(freeList, c)
               /\ freed' = freed \cup {c}
        /\ handled' = Tail(handled)
        /\ UNCHANGED wk
     \/ /\ handled = <<>>
        /\ wk' = "idle"
        /\ UNCHANGED <<freeList, freed, handled>>
  /\ UNCHANGED <<devVars, pc, todo, poolLock, numFree, numAdded, pending, fenceVars, scheduled,
                 cbOn, reclaim, hostVars>>

(* virtio_gpu_array_put_free_work: the last reference sends an unref.      *)
FreeTake ==
  /\ pc[FreeWork] = "idle"
  /\ freeList # <<>>
  /\ todo' = [todo EXCEPT ![FreeWork] = <<Drops[Head(freeList)]>>]
  /\ freeList' = Tail(freeList)
  /\ Goto(FreeWork, "start")
  /\ UNCHANGED <<devVars, poolLock, numFree, numAdded, pending, fenceVars, wk, scheduled, cbOn,
                 reclaim, handled, freed, hostVars>>
-----------------------------------------------------------------------------
(* The host, external: reads the ring while it is awake,                   *)
HostRead ==
  /\ ~asleep
  /\ avail # <<>>
  /\ hostq' = Append(hostq, Head(avail))
  /\ avail' = Tail(avail)
  /\ UNCHANGED <<devVars, pc, todo, poolLock, numFree, numAdded, pending, fenceVars, workVars,
                 used, asleep, completed>>

HostSleep ==
  /\ ~asleep
  /\ avail = <<>>
  /\ asleep' = TRUE
  /\ UNCHANGED <<devVars, pc, todo, poolLock, numFree, numAdded, pending, fenceVars, workVars,
                 avail, hostq, used, completed>>

(* answers in the order of each timeline, the rest in any order, and       *)
(* interrupts the guest (virtio_gpu_ctrl_ack) unless callbacks are off.    *)
HostComplete ==
  /\ \E i \in DOMAIN hostq :
       /\ \A j \in 1 .. i - 1 :
            Timeline[hostq[i]] # NoFence => Timeline[hostq[j]] # Timeline[hostq[i]]
       /\ used' = Append(used, hostq[i])
       /\ completed' = completed \cup {hostq[i]}
       /\ hostq' = RemoveAt(hostq, i)
  /\ scheduled' = (scheduled \/ cbOn)
  /\ UNCHANGED <<devVars, pc, todo, poolLock, numFree, numAdded, pending, fenceVars, wk, cbOn,
                 reclaim, handled, freed, freeList, avail, asleep>>
-----------------------------------------------------------------------------
(* A thread between drm_dev_enter and drm_dev_exit.                        *)
Inside(t) ==
  \/ pc[t] = "entered"
  \/ pc[t] \in {"notify", "kick", "doorbell", "wait", "sleep"} /\ todo[t] # <<>>

(* drm_dev_unplug: nobody gets in any more, then everybody inside is       *)
(* waited for.                                                             *)
Unplug ==
  /\ plugged
  /\ plugged' = FALSE
  /\ UNCHANGED <<unplugged, pc, todo, poolLock, numFree, numAdded, pending, fenceVars, workVars,
                 hostVars>>

UnplugDone ==
  /\ ~plugged /\ ~unplugged
  /\ \A t \in Thread : ~Inside(t)
  /\ unplugged' = TRUE
  /\ UNCHANGED <<plugged, pc, todo, poolLock, numFree, numAdded, pending, fenceVars, workVars,
                 hostVars>>
-----------------------------------------------------------------------------
ThreadNext(t) ==
  \/ PoolLock(t) \/ PoolUnlock(t) \/ NoTable(t) \/ Enter(t)
  \/ Queue(t) \/ QueueFull(t) \/ Wait(t)
  \/ NotifyRead(t) \/ NotifyKick(t) \/ Doorbell(t)

WorkNext ==
  WorkStart \/ WorkReclaim \/ WorkEnable \/ WorkProcess \/ WorkWake \/ WorkFree

Next ==
  \/ \E t \in Thread : ThreadNext(t)
  \/ WorkNext
  \/ FreeTake
  \/ HostRead \/ HostSleep \/ HostComplete
  \/ Unplug \/ UnplugDone

Spec == Init /\ [][Next]_vars

(***************************************************************************)
(* Threads and works are scheduled, and whoever holds guest_pool_lock lets *)
(* go of it (its requests to the host time out). The host reads what it    *)
(* was told of and answers it: the waits in this code have no timeout.     *)
(***************************************************************************)
Fairness ==
  /\ \A t \in Thread : WF_vars(ThreadNext(t))
  /\ WF_vars(WorkNext)
  /\ WF_vars(FreeTake)
  /\ WF_vars(HostRead) /\ WF_vars(HostComplete)
  /\ WF_vars(UnplugDone)

FairSpec == Spec /\ Fairness
-----------------------------------------------------------------------------
(***************************************************************************)
(* A fence is signaled only when the host carried out its command, though  *)
(* the answer to one fence signals the earlier ones of its context; and    *)
(* before a fenced command's buffer is freed its fence is signaled.        *)
(***************************************************************************)
FenceTruthful ==
  /\ signaled \subseteq completed
  /\ \A c \in freed \cap completed : Timeline[c] # NoFence => c \in signaled

(***************************************************************************)
(* No command is stranded in the ring: while the host sleeps next to       *)
(* commands it has not read, either the count is up, so that the next      *)
(* virtio_gpu_notify cannot return early, or a doorbell is on its way.     *)
(***************************************************************************)
NoneStranded ==
  asleep /\ avail # <<>> => pending > 0 \/ \E t \in Thread : pc[t] = "doorbell"

(***************************************************************************)
(* The ring always drains: every command that was queued is answered and   *)
(* its buffer freed. No notification, interrupt or wakeup is missed, and   *)
(* there is no circle between the ring, guest_pool_lock and the two works. *)
(***************************************************************************)
RingDrains == []<>(avail \o hostq \o used \o reclaim \o handled = <<>>)

(***************************************************************************)
(* A thread that sleeps for room gets it in the end, and drm_dev_unplug,   *)
(* which waits for every thread inside, returns.                           *)
(***************************************************************************)
SubmittersReturn == []<>((\A t \in Thread : ~Inside(t)) /\ (plugged \/ unplugged))
=============================================================================
