# TLA+ models of the DroidVM guest additions

The repository holds two out-of-tree kernel modules for guests of the Gunyah
hypervisor: `gunyah_guest`, a client of Gunyah's Resource Manager (RM) with a
virtio transport to the host VMM (crosvm), and a patched `virtio_gpu` whose
buffer objects can live in a pool of guest memory that the host SHAREs with the
guest step by step. This directory models the parts of them in which threads,
interrupts, works and a host that answers late, wrongly or never meet.

Paths below are relative to the repository; `V` is `virtio_gpu/virtgpu_vram.c`,
`Q` is `virtio_gpu/virtgpu_vq.c`, `G` is `gunyah_guest/gunyah_guest.c`.

## 1. Inventory

| Component | State it keeps | Operations | Talks to |
|---|---|---|---|
| guest-alloc pool (V 404–850) | access boundary `gpu_guest_pool_backed`, step, buddy tree, gate `guest_pool_ready`, delayed reclaim work, all under `guest_pool_lock` | init, alloc (grows), free (reclaims), reclaim work, fini | pool request queue, drm_buddy |
| entry bound (V 582–647, 907–926) | module parameter `guest_pool_max_nents` | sizing of an allocation, count check in create | drm_buddy |
| guest-alloc objects (V 13–41, 852–971; Q 617–660; `virtgpu_object.c`) | block list, resource id, references | create, last unref, unref callback | control queue, pool |
| pool request queue (G 491–634) | `pool_vq`, contexts in flight, `vga_singleton` | SHARE, UNSHARE, QUERY with a 30 s wait; callback; probe; remove | host's pool device |
| RM client (G 95–257) | `gg_seq`, `gg_lock`, hypervisor message queues | accept, release: send, poll at most 2000 times | Resource Manager |
| accept transport (G 267–489, 637–734) | request and completion queues, accepted table, work | request callback, work function, completion, remove | host, RM client |
| control queue (Q 57–545) | ring, `pending_commands`, `ack_queue`, dequeue work, `obj_free_list` | queue, wait for room, notify, dequeue | host's gpu device, all of the driver |
| fences (`virtgpu_fence.c`) | list of emitted fences, next id | emit, event_process | control queue |
| cursor queue (Q 277–302, 547–587) | ring | queue, dequeue | host |
| answers somebody waits for: capsets, display info, EDID, uuids, host-visible maps (Q 833–1092, 1322–1437; `virtgpu_prime.c`; V 43–402) | per-object states, `resp_wq` | send, callback, wait (some with a timeout) | control queue |
| contexts, files, ioctls (`virtgpu_ioctl.c`, `virtgpu_kms.c`, `virtgpu_gem.c`) | context per file, handles | context_init, create, attach, detach, transfer, wait | control queue |
| execbuffer (`virtgpu_submit.c`) | one submission | parse, in-fences, queue, out-fences, cleanup | control queue, fences |
| planes and displays | framebuffer state | atomic update, scanout | control queue |
| `dynpool_test`, `tests/`, packaging | – | – | – |

What is hard in this code:

* **The host's answer may be lost.** A pool request is given up after 30 s and
  its fate is then unknown; the guest must find out before it touches or frees
  the memory. A wrong guess is silent: reads of memory that is not SHAREd
  return zeroes.
* **Locks are held across such waits**, callbacks of one queue need locks whose
  holders wait for another queue, and a SHARE is answered only after the accept
  work has accepted it.
* **Memory is owned by the device for longer than by its user**: contexts whose
  waiter gave up, blocks attached on the host after the last reference is gone.
* **Two locks over one ring**, notifications decided without a lock, callbacks
  switched off and on, works that schedule each other.
* **State read outside the lock it is written under**: `context_created`, the
  capset cache, `map_state` and `uuid_state`, `needs_modeset`.
* **Many ways out of one ioctl.** An execbuffer that fails at any step must give
  back what it holds exactly once, and nothing it has already handed on.
* **Other people's memory.** The exporter of an imported dma-buf moves its pages
  while commits that show them are in different stages.
* **Removal** in the middle of all this.

## 2. Modules

Sources are mapped definition by definition in `PROJECT.json`.

| Module | Models | State and actions |
|---|---|---|
| `PoolSizing` | block arithmetic of `virtio_gpu_guest_pool_alloc` | operators only; sizes in pages |
| `PoolNents` | the entry bound against a parameter that sysfs may rewrite | one create: read the parameter, size, scatter (drm_buddy, external), count |
| `GuestPool` | the pool: boundary, growth, reclaim, teardown | one thread per object, the reclaim worker, fini; the host serves a FIFO of requests and may refuse, fail or answer after the waiter left |
| `PoolObject` | life of a guest-alloc object and its resource id | blocks, ids, the control queue as two FIFOs; unplug and reset |
| `PoolRequest` | `vga_pool_request`, `vga_pool_cb`, probe and remove | callers, contexts, descriptors; adding to and taking from the ring are split in two because different locks guard them |
| `PoolCall` | what `vga_pool_request` promises its callers | abstract: a call is refused, or posted and served at most once, then returns the host's verdict or is given up |
| `RmClient` | `gg_rpc` and its two callers' halves | a component without a specification of its own |
| `AcceptTransport` | request/completion queues and the accepted table, **composed with** `RmClient` (EXTENDS) | host, request interrupt, work function, removal, RM |
| `CtrlQueue` | control queue, fences, delayed release, `drm_dev_unplug` | threads with scripts of commands, the dequeue work, the release work, host |
| `ExecBuffer` | open files, contexts, handles, object references and reservations, execbuffer and transfer ioctls, fences as user space sees them | threads run ioctls step by step, files open and close, the host reads a FIFO and finishes work on several timelines |
| `RespWait` | whoever waits on `resp_wq`: probe, the capset cache, display changes, host-visible blobs, exported uuids | threads, `virtio_gpu_init`, the config work, callbacks, removal |
| `Scanout` | one CRTC: primary and cursor plane, dumb and imported buffers, `move_notify` | commits in stages (prepared, swapped, carried out, cleaned up), the exporter, control and cursor queue |
| `GuestPoolProofs`, `PoolRequestProofs`, `PoolObjectProofs`, `AcceptProofs`, `CtrlQueueProofs`, `ScanoutProofs`, `ExecBufferProofs`, `RespWaitProofs` | TLAPS proofs of the module of that name (`GuestPoolProofs`: also of `PoolNents`; `AcceptProofs`: of `AcceptTransport` with `RmClient`) | – |
| `MC*` | TLC instances | constants and symmetry sets |

`CtrlQueue` has the inside of the control queue. `ExecBuffer`, `RespWait`,
`Scanout` and `PoolObject` use it as what it guarantees, a sequence the host reads
in order and answers in order, and say what the commands mean; their `Cmd*`
operators are the driver's `virtio_gpu_cmd_*`. DRM's core (ioctl dispatch, atomic
commits, descriptors, dma-buf locking) is external.

`PoolRequest` is shown to implement `PoolCall` (`ImplementsCall`) as long as no interrupt
overlaps an add: the refinement
mapping (`Progress`) reads from the context of each caller how far its request has
got, so an answer that reaches the wrong caller, or none that is taken for one, is
not a step of `PoolCall`.

Conventions. A spinlock section of one thread is one step; a mutex section that
waits for the host is several, with the holder as a variable. An atomic step of
the model never spans a wait. External parts (drm_buddy, virtqueues, crosvm, the
RM) are modelled from what the code relies on and marked `external` in the map:
drm_buddy returns aligned blocks of at least the minimum size or nothing; the
host serves each queue in order; the RM serves its queue in order and maps a
parcel when it grants an ACCEPT. In `GuestPool` a lost answer is a waiter that
gives up while its request stays in the host's queue and is carried out later.

In `AcceptTransport` the recycling `virtqueue_add_inbuf` (G 459) always
succeeds: it reuses the descriptor that was just taken from the same queue.

Operators named after a property's or an action's name with a suffix and marked
"Mutant" in their comment (`CanGrowBlind`, `DropEarly`, ...) are not part of any
specification. They are plausible wrong versions of the definition that follows
them, kept to show that the properties notice: with the wrong version in place,
TLC must report the property listed with it in `PROJECT.json`.

## 3. Runs

`tlc -workers 2 -config X.cfg MC...` in this directory; times are for two cores.

| Run | Shows | Bounds |
|---|---|---|
| `pool_query` | with queries answered, through lost SHARE/UNSHARE replies, -EBUSY, -EIO, refusals and teardown: object pages are always SHAREd and mapped, the boundary is honest, the gate holds, the boundary stays on its grid, no grant is orphaned, no free step is forgotten, an idle pool returns to its floor | 6 pages, floor 2, step 2, two objects of 1 or 3 pages, queue of 3; 177,010 states, 20 s |
| `pool_double_timeout` | *violation*, see section 6 | the same |
| `nents` | the entry bound, for every size and parameter, the parameter rewritten at any moment | 20 pages, parameters -1..7; 25,704 states |
| `pool_object` | blocks never reach a new object while attached on the host, and are lost only where the host kept them; ids do not collide | 3 objects, 3 blocks, 3 ids, both values of `virglhack`; 7,972 states |
| `pool_request` | calls behave as `PoolCall` says (`ImplementsCall`), device-owned memory is not freed, and no call starts on a device that is being removed, with callers inside or not | 2 callers, 3 contexts, 2 descriptors; the interrupt does not overlap an add; 5,861 states |
| `pool_request_unbind`, `pool_request_overlap` | *violations*, see section 6 | the same |
| `accept` | the host is told the truth, the table is exact until an RPC times out, buffers are conserved, no call takes another's reply, every request is answered, among refusals, RM notifications, timeouts, late replies and removal | 2 parcels, 1 address, 1 buffer, `gg_seq` mod 2; 984 thousand states, 100 s |
| `ctrl_queue` | fences tell the truth, no command is stranded, the ring drains, submitters and `drm_dev_unplug` return | 2 submitters with 3 commands and the release work with 1, ring of 3 descriptors; 355,629 states, 45 s |
| `execbuffer` | the host never gets a command for a context or an object it does not know, objects look busy while they are, in-fences are honoured, descriptors and locks are released once | 2 threads, 2 files, 1 object, 5 requests, 2 fences, 4 calls; 1,034,290 states, 50 s |
| `resp_wait` | no dead cache entry, what is mapped is the object's, the display is known as of the last question, waits end; there may be no memory for any question | 2 threads, 2 objects for 1 range, 1 capset, 3 calls; 898,716 states, 150 s |
| `scanout` | no page is used after the exporter took it back and what is shown is backed, unless a detach found no memory; the scanout follows the plane state, a cursor has its image | 1 imported and 1 dumb object, 3 commits, 1 move; 9,598,127 states, 120 s |

Why the bounds are enough to be interesting. A window of three steps gives one
preshared step, one that grows and shrinks, and one above it, so a stale request
can concern a step other than the current one; requests of 1 and 3 pages make a
request that fits, one that must grow and one that fails in the middle of
growing. Two objects make one free while the other allocates; the worker and
teardown come on top. The pool queue holds three requests, so it can be full of
abandoned ones. `nents` covers every case of the rounding (quotient rounded up,
passed the size, rounded down again). In `PoolRequest` there are fewer
descriptors than contexts and fewer contexts than requests, so both run out.
`gg_seq` wraps after two calls; the ghost `wrapped` marks the executions in
which a number was reused while its old reply was still around, which with
65,536 numbers needs that many calls in between: verdicts are claimed for the
others. In `CtrlQueue` any two of the larger commands exceed the ring, so every
way of sleeping for room happens, inside a batch that nobody notified yet too.
Two threads on one file race for its context, on two files for one object; four
calls suffice to open, create, submit and close, with a context id used again by
the next open; two fences are one to wait for and one that waits. One BAR range
for two objects makes its reuse happen at once. Three commits are one that shows
a buffer, one that replaces it, and one that is prepared while the second is
carried out and the first is cleaned up.

`CtrlQueue.cfg`, `ExecBuffer.cfg`, `RespWait.cfg` and `Scanout.cfg` switch deadlock
checking off because their scripts, calls or commits end; that nothing ends too
early is what the temporal properties of the first and the third say. After an
unplug a thread of `Scanout` may really wait for ever (section 6).

The runs do not list the `TypeOK` of every module: `GuestPool`'s is proved, the
others are kept as a description of the state and for the proofs.

### Fairness

* `GuestPool`: driver threads and the worker are scheduled and timers fire (weak
  fairness); the worker gets `guest_pool_lock` in the end (strong: the mutex
  hands over to waiters); the host serves its queue, and does not answer -EBUSY
  to UNSHARE for ever (strong): the driver's 100 ms retry assumes as much.
  Nothing makes anybody allocate, free or tear down.
* `AcceptTransport`: interrupts are delivered, the work and its RPC run, the
  host reads completions. The RM may be silent for ever: the polls end anyway
  (`RpcExpire`), because `gg_rpc` counts them.
* `RespWait`: probe, works and woken threads run (the 5 s waits end, by an answer
  or by their timer), and a device that is not removed reads and answers its
  queue. `mmap` and `get_uuid` wait without a timeout, so the code assumes that.
* `ExecBuffer` and `Scanout` claim no liveness and state no fairness.
* `CtrlQueue`: threads and works run, the holder of `guest_pool_lock` lets go
  (its waits have timeouts), and the host reads what it was told of and answers
  it. The last is what the code assumes: `wait_event` on `ack_queue` has no
  timeout.

## 4. Proofs

Every invariant a passing run checks is proved for all values of the constants;
only the liveness properties are left to TLC (end of this section). `tlapm M.tla`
checks each proof module `M` completely; the backends are Z3, Zenon and LS4. The proofs use the
assumptions on the constants that TLC also evaluates (`PoolAssumption`,
`RequestAssumption`, ...) and, where it is said below, a hypothesis on the fault
set or the step; `pool_double_timeout` shows that `Recoverable` is needed. None of the
properties is inductive as it stands, so each module first states the
strengthening, and below is why it is needed.

**The pool** (`GuestPoolProofs`), for every window, floor, step, set of objects,
request sizes and queue depth allowed by `PoolAssumption` (the checks of
`virtio_gpu_guest_pool_init`).

`TypeCorrect`, `GateSafety` and `GridSafety` (`TypeOK`, `GateHolds`,
`BoundaryOnGrid`) hold under every fault set: whatever is lost, refused or answered
with whatever error, the gate stays open for the thread that holds the lock and the
boundary stays on the grid between the floor and the window's end, even where it is
wrong about the grant. Their invariant `CoreInv` is the types, `LockInv`, `GridInv`
and `AskInv` (the waiter of an UNSHARE has sent the last request of the queue, so
what it reads and keeps in `ret` is the answer to an UNSHARE, never to a QUERY).

`BoSafety` and `BoundarySafety` (`BoPagesShared`, `BoundaryHonest`) are about the
grant, and hold under every fault set that is `Recoverable`:

    Recoverable == "UNSHARE" \in LossyOps =>
      "QUERY" \notin LossyOps \cup RefusedOps /\ "EUCLEAN" \notin HostErrors

That is needed: `pool_double_timeout` breaks `BoundaryHonest` without it. The run `pool_query` satisfies it with queries
answered; that lost or refused queries and -EUCLEAN do no harm as long as UNSHARE
is answered is covered by the theorems alone.

The inductive invariant `IInv` adds `LockInv` (a thread is past the lock exactly
when it owns it), `GridInv` (a request is in flight only while growth is enabled
and its range is inside the window), `QueueInv` (an unanswered waiter's request is
the last one in the host's queue; once it is answered the queue is empty),
`UnshareInv` (no UNSHARE outlives the turn of the loop that sent it: an abandoned
SHARE may still be carried out later and does no harm, an abandoned UNSHARE
would), `DrainInv` (where queries are answered the queue is empty between
operations, so the reconciling QUERY always finds a descriptor), `HostInv` (what
grant and mapping are in each phase of the step in transit) and `BlockInv` (block
lists lie below the part a request in flight could take away). Steps that only
move threads outside the lock, that take or release it, or that move its holder,
are handled once each in `OutsideStep`, `LockStep`, `UnlockStep`, `HolderMoves`.

`GrantSafety` (`NoOrphanGrant`) also needs queries to be answered (`Answering`):
otherwise a SHARE whose reply was lost may have been carried out and nobody asks.
Its invariant `GrantInv` follows the one step that may be granted above the
boundary: which request can still change it, and that a QUERY tells. -EUCLEAN,
which the run leaves out because it may follow a lost UNSHARE there, is covered.
`SuffixSafety` (`SuffixNotForgotten`) needs more, `Retriable`: a step that is a power
of two, which `virtio_gpu_guest_pool_init` (V 523) does not check and without which
`reclaim_locked` never takes a step back (section 6); UNSHARE not refused outright;
and only errnos of it that `reclaim_locked` retries (after another, EFAIL in the
model, the code gives up, and the step stays shared until the next free). For pools
outside of it nothing is claimed. The argument (`TopInv`): a
thread that grew the pool found no room below (`NoRoom`), so the blocks it carves
reach into the new top step (`CarveTop`); every other way out of the lock passes
`reclaim_locked`, which ends with the top step in use, with nothing above the
floor, or with a retry.

**The entry bound** (also in `GuestPoolProofs`), for every pool size, every set of
parameter values (negative ones too) and every fragmentation: `EntryBound` is
the arithmetic (the rounded request is at most `max_nents` minimum blocks for a
bound of two or more); `WholeBlocksAlways` and `NentsBounded` are
`CreateSpec => []WholeBlocks` (with the strengthening `Sized`) and
`CreateSpec => []NeverTrips`. The crux of `EntryBound`: with `b` the minimum block and
`m` the bound, `n <= m * b` when `b` was rounded up, and when it was rounded down
to at most `n`, `n < 2 * b`, so two blocks cover it.

**Pool requests** (`PoolRequestProofs`), for every number of callers, contexts and
descriptors; no theorem assumes that the interrupt keeps out of an add or that
nobody is inside at an unbind. `TypeCorrect`, `LifeSafety` (`NewCallsFindNoDevice`)
and `MemorySafety` (`DeviceOwnsMemory`) hold in every behaviour: the first two from
what the lock and `vga_singleton` exclude, the third from `OwnInv`, which speaks of
contexts only and needs nothing of the free list. What the device does with a
descriptor that was handed out twice is outside the ring's books, and so outside
`MemorySafety`.

What the two locks do not give is stated of each behaviour up to the first moment
an add and a get_buf run at the same time, kept in the history variable
`overlapped`: `VerdictSafety` is `[](overlapped \/ VerdictIsHosts)`, and `Refinement`
says that every step before it is a step of `PoolCall` or invisible to it. Both are
about the code as written: the overlap is the only way to a wrong verdict, and
`pool_request_overlap` shows that it is one. The invariant until then: what an add or
a get read of the free list still is the free list when it is written back
(`SnapInv`), every descriptor is in one place (`RingInv`), and a descriptor in flight
points at a context of its own that nobody has freed or completed (`CtxInv`,
`DataInv`).

**Pool objects** (`PoolObjectProofs`): `BlockSafety`, `LeakSafety` and `IdSafety`,
for every pool, number of objects and ids. `QueueInv` and `AnswerInv` say what of
an object can be on its way (a create, then an unref, then one answer), `HostInv`
what the host has for it; `HostInv` stops at the first id that is put while the
host still uses it (`Clash`), which is also where `IdFresh` stops.

**The accept transport with the RM client** (`AcceptProofs`): `TypeCorrect`,
`BufferSafety`, `VerdictSafety`, `TruthSafety` and `TableSafety`
(`BuffersConserved`, `VerdictOwn`, `HostToldTruth`, `TableExact`), for any number of
buffers, parcels and addresses. `CallInv`: the request of the call under way is
the last one sent, and when its reply is there everything sent before was served;
so a late reply of an earlier call cannot be taken for it. `BusyInv`: an address is
busy in one place. `CleanInv` and `TableInv` hold until a call times out: the
mappings are the table, or the table as the call under way will leave it.

**The control queue** (`CtrlQueueProofs`): `FenceSafety` (`FenceTruthful`) and
`NotifySafety` (`NoneStranded`), for any threads, scripts and ring size. `FenceInv`
orders fence ids along the ring and along each timeline's answers, which needs
that every command passes the queues once (`OnceInv`) and that the unref a dropped
object sends is still to come (`DropInv`); `KickInv` says that a device that sleeps
next to unread commands is owed a doorbell, and that the next `kick_prepare` sees
it.

**Scanout** (`ScanoutProofs`): `PageSafety`, `CursorSafety`, `ShowSafety` and
`FollowSafety` (`NoStalePages`, `CursorUploaded`, `ShownIsBacked`,
`ScanoutFollows`), for any buffers. `PageInv` tells for every imported buffer what
its attach, detach and fence in the ring amount to, `LifeInv` that nothing of it
is queued after its unref, `PinInv` counts the pins (current plane state, prepared
and carried-out commits, clean-ups), `FollowInv` and `ShowInv` say what the host
scans out after the commands in the ring, and `UploadInv` that the fence a cursor
commit waited for is past its upload. Allocations fail here as in the code: when
a detach finds no memory for its fence, the exporter gets its pages back while the
host still has them (the history `kept` of the object), and nothing makes up for it;
`NoStalePages` excepts such an object, and `ShownIsBacked` then asks only that
pages are attached, not that they are the current ones.

**Submission** (`ExecBufferProofs`), for any threads, files, objects, timelines and
requests: `LockSafety`, `FdSafety`, `BusySafety`, `DepSafety`, `ContextSafety`,
`UnrefSafety` (`LocksReleased`, `FdOwned`, `BusyVisible`, `InFenceHonoured`,
`ContextKnown`, `UnrefLast`). `LocalInv` says what an ioctl holds at each of its points; `FdInv` that a
descriptor number reserved, installed or to be put back is one thread's; `WorkInv`
that jobs are emitted once and in ring order (`OrderInv`), finish in order on their
timeline (`DoneInv`), are in the reservation of each of their objects until then
(`BusyInv`), and that an in-fence was finished, comes first on the same timeline,
or is never emitted (`DepInv`). `CtxInv` follows each context id through the ring: at every
position the host will know a context exactly if it knows it now and no destroy
comes before, or a create does (`KnownAt`), and after the whole ring it knows the
contexts of the open files (`Live`), which takes the uniqueness of ids and
`context_lock` (`IdInv`, `LockInv`). `RefInv` does the same for objects. `ResOK`:
every command in the ring that names an object, its CREATE excepted, comes where the
host has the object (`ResAt`), and until an unplug, after the whole ring, the host
has it exactly while `ref > 0`; an UNREF is thus the last command of its object. `CountOK` is why the one
who drops the last reference is the last to name it: who holds the object (its
handles, the threads between lookup and publish, the arrays in the ring, at the host
or answered, and the arrays waiting for `obj_free_work`; `Held`, counted with
`Cardinality`) is never more than `ref`. It may be less: a handle that could not be
created, a submit that failed or an unplug can leave a reference behind, which keeps
the object and never frees it early. `ArrayInv`: what runs at the host or was answered
still has its array, and an UNREF carries no fence.

**Waits for the host** (`RespWaitProofs`), for any threads, objects, ranges of the
BAR, capsets and calls: `EntrySafety`, `DisplaySafety`, `MapSafety` (`EntryPending`,
`DisplayAnswered`, `MappedIsBacked`). `CacheInv`: no id is in the cache twice, without
which `AskInv` (an entry that is not valid is asked for) would not survive an
answer, since the callback fills the first entry only. `DisplayInv`: a question is in the ring, or what
the answers on their way will leave in `outputs[].info` (`Seen`) is no older than
the last time the guest asked (the history `asked`). `ObjectInv` is about
one object at a time: its references cover the handle or its creator, the mapping
or the thread about to make it, the dma-buf, and each MAP and UUID in the ring or
among the answers (`RefOK`, counted with `Cardinality`); an object that is on its
way out has none of these (`GoneOK`); one thread creates it, and nobody else knows
it until then (`MakeOK`); the unmap and the unref come last (`EndOK`); what was
mapped, or will be once an answer is seen, is what the host has at the range
(`BackOK`). With `RangeInv`, two nodes never share a range, the host's map of one
object cannot overwrite another's. Objects a step does not touch are handled once,
in `ObjectKept`.

**Only model-checked**: the liveness properties (`PoolShrinksBack`,
`RequestAnswered`, `RingDrains`, `SubmittersReturn`, `WaitsEnd`): temporal reasoning
under fairness is beyond the prover's backends.

## 5. What each property is for

* Lost replies: `BoPagesShared`, `BoundaryHonest`, `NoOrphanGrant`,
  `DeviceOwnsMemory`, `ImplementsCall`, `HostToldTruth`, `VerdictOwn`.
* Work that must not be forgotten: `SuffixNotForgotten`, `PoolShrinksBack`,
  `RequestAnswered`, `RingDrains`, `SubmittersReturn`, `NoneStranded`,
  `EntryPending`, `WaitsEnd`, `DisplayAnswered`, `ScanoutFollows`.
* Teardown: `GateHolds`, `NewCallsFindNoDevice`.
* Ownership: `NoAliasedBlocks`, `LeakOnlyAttached`, `IdFresh`,
  `BuffersConserved`, `TableExact`, `UnrefLast`, `FdOwned`, `LocksReleased`,
  `MappedIsBacked`, `NoStalePages`, `ShownIsBacked`.
* Order: `FenceTruthful`, `ContextKnown`, `BusyVisible`, `InFenceHonoured`,
  `CursorUploaded`. Arithmetic: `NeverTrips`, `WholeBlocks`,
  `BoundaryOnGrid`.

## 6. Where code and comments disagree

Shown by runs that end in a counterexample:

* `pool_double_timeout` (V 712): if the QUERY after a lost UNSHARE fails too,
  the boundary stays where it was although the host may have taken the step;
  the next allocation may carve it.
* `pool_request_unbind` (G 733): a caller that read `vga_singleton` before
  `vga_remove` uses the freed device (lock, virtqueue, or the `dev_err` after
  its wait). The comment at G 710 says it holds no reference beyond the vq and
  that the reset completes it; a reset completes no waiter.
* `pool_request_overlap` (G 499, 543): the pool queue is added to under
  `pool_lock` and drained under `pool_cb_lock`; a descriptor may be handed out
  twice and a caller be woken with a zeroed response, which means success.

Limits met while modelling, without a run of their own:

* V 718: if the answer that is lost is -EUCLEAN, the QUERY reports the kept grant
  as live and the boundary stays above unmapped memory. Hence the second
  conjunct of `Recoverable`.
* V 748: the step is passed to drm_buddy as minimum block size, which must be a
  power of two; with a step of, say, three folios no step is ever handed back.
  (V 523 says drm_buddy never sees the step.) The runs use a power of two.
* V 638: with `guest_pool_max_nents=1` the block size is rounded down and two
  blocks may come back, so the "cannot trip" check trips; it also trips when the
  parameter is lowered during a create. `NeverTrips` is about the value read,
  from two upwards.
* G 366, 387: after an RPC timeout the accepted table may miss a mapped parcel or
  keep an unmapped one; `TableExact` is claimed until the first timeout.
* G 570: contexts of timed out requests are not reclaimed by a device reset.
* `virtgpu_object.c` 62: with `virglhack=0` the id of a resource the host failed
  to drop is handed out again; `IdFresh` and `LeakOnlyAttached` exclude what
  happens after that (`Clash`).
* Q 383, 476: a command that cannot be queued leaks its object array, and for
  want of an sg_table its buffer as well.
* Q 529: `virtio_gpu_notify` is not inside `drm_dev_enter`, and `deinit` flushes
  the dequeue work before the reset, so both may still run when the virtqueues
  are deleted. `CtrlQueue` stops at `drm_dev_unplug`.
* `virtgpu_submit.c` 395: when no event can be reserved, `init_submit` returns
  before it sets `out_fence_fd` to -1, and the cleanup puts descriptor 0 back;
  `FdOwned` is about the other numbers.
* `virtgpu_submit.c` 525, Q 476: nobody looks at the error of queueing, so the out
  fence and the syncobjs are handed out although the fence was never emitted and
  will not signal; in-syncobjs are reset on failing submissions too.
* `virtgpu_gem.c` 101: an object opened before the file has a context is not
  attached, and is detached at close if the context exists by then. A handle that
  cannot be created leaks its object (`virtgpu_gem.c` 31).
* `virtgpu_ioctl.c` 664: parameters read by a failing `context_init` stay set.
* Q 883, `virtgpu_ioctl.c` 450: the type of a capset answer is not checked; an
  answer that never comes leaves an entry that is `-EBUSY` for ever.
  `virtgpu_kms.c` 169: `1 << id` is an int shift, though ids go up to 63.
* `virtgpu_kms.c` 110, 116: a display change between the answer to the query and the
  write of `events_clear` is lost, and so is one for whose query there is no memory
  (Q 953), since the event is cleared anyway; at probe (line 353) likewise.
  `RespWait` does both; `DisplayAnswered` is about what was asked.
* Q 1332: exporting an object that has a uuid already sends a second ASSIGN_UUID,
  whose answer trips the `WARN_ON` and turns the good uuid into an error.
* V 65, `virtgpu_prime.c` 39: waits for commands that a reset left unanswered do
  not end.
* `virtgpu_display.c` 142: a modeset that keeps its framebuffer blanks the screen
  until the next update of the plane.
* `virtgpu_plane.c` 489: the wait for the cursor image is interruptible, and
  UPDATE_CURSOR may be read after the UNREF of its object on the other queue.
* `virtgpu_object.c` 113, `virtgpu_prime.c` 191: a detach without memory for its fence
  is skipped and the caller does not look: the exporter moves pages the host still
  has, and as the object still counts as attached the next attach (Q 1288) returns
  early. `Scanout` does this; its properties name it as their exception.
* `virtgpu_object.c` 120: after an unplug the fence of a detach never signals, and
  `move_notify` waits for it with the reservation locked.
* V 63: mmap's comment says map_state is set to OK at create; no code does that
  for guest-alloc objects.

## 7. Not modelled

* `gunyah_guest`: module init (straight-line parsing), wire layouts, hypercalls.
* `virtio_gpu`: drm_panic's lock-free variants of the queue and plane functions
  (one CPU, the others stopped); EDID blocks, modes, connectors, formats and
  framebuffer creation (copied data); GETPARAM, RESOURCE_INFO, MAP and the
  parameter checks of RESOURCE_CREATE_BLOB (no state); the unfenced 2D transfer
  of TRANSFER_TO_HOST without virgl; the stitched mmap and `map_dma_buf` of
  guest-alloc objects (they read the block list); the cursor queue's wait for room
  and its dequeue work (as in `CtrlQueue`); trace points, debugfs and statistics.
* Small allocations (fences, arrays of one object) succeed in `ExecBuffer`, so the
  transfer ioctl's failing fence (`virtgpu_ioctl.c` 288) is left out; in `Scanout` they
  may fail, but commits that are refused while they are prepared are left out. In
  `RespWait` the questions that wait for nobody's error (display, capset infos) may
  find no memory.
* `Scanout`: the early return for a primary plane that is not visible but has a
  framebuffer (`virtgpu_plane.c` 280).
* `PoolRequest`: what a call that was inside at an unbind finds in the freed device
  once that memory is somebody else's.
* `dynpool_test` sends the same requests as the pool, one at a time; packaging
  and tests.

## 8. Plan

1. Proofs: no invariant is left. `RefInv` would serve a module that composes
   `ExecBuffer` with the other users of object references (planes, dma-bufs).
2. `GrowPath`: `GuestPool`'s SHARE carried out as a `PoolCall` and, on the host's
   side, an ACCEPT through `AcceptTransport`; the rule of G 512 (no pool request
   from the accept work) as the condition for progress.
3. Removal of the gpu device in `CtrlQueue`: reset, deletion, late notify.
