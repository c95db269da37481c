------------------------------ MODULE Scanout -------------------------------
(***************************************************************************)
(* One CRTC with its primary and cursor plane (virtgpu_plane.c,            *)
(* virtgpu_display.c), and the dma-bufs of other drivers it may show       *)
(* (virtgpu_prime.c): the exporter may move their pages whenever they are  *)
(* not pinned, and must never find the host still using the old ones.      *)
(*                                                                         *)
(* The order of the steps of a commit is DRM's (external): a commit is     *)
(* prepared by its ioctl while the one before may still be at work, swapped*)
(* in after it, carried out (disables and mode, planes, CRTC flush), and   *)
(* the framebuffers it replaced are cleaned up later. A commit changes the *)
(* primary plane or the cursor; a pinned buffer is not moved. A commit that*)
(* is refused while it is prepared, for want of memory too, undoes what it *)
(* did and is left out.                                                    *)
(***************************************************************************)
EXTENDS Integers, Sequences, Functions

CONSTANTS
  Imported,    \* objects imported from another driver
  Dumb,        \* objects of DRM_IOCTL_MODE_CREATE_DUMB that are no blobs
  None,
  MaxCommits,  \* bound
  MaxMoves     \* bound

ASSUME ScanoutAssumption ==
  /\ None \notin Imported \cup Dumb
  /\ Imported \cap Dumb = {}
  /\ MaxCommits \in Nat /\ MaxMoves \in Nat

Obj == Imported \cup Dumb

VARIABLES
  plugged,
  cur,       \* the swapped-in state: primary fb, cursor fb, active
  needsModeset,
  prep,      \* a prepared commit, as a set of at most one
  tail,      \* the commit being carried out, as a set of at most one
  trash,     \* replaced imported framebuffers of the primary plane to clean up
  commits,
  imp,       \* each imported object: life, pins, sgt, attached, resv lock,
             \* and a history: kept, see Move
  gen,       \* where the exporter has its pages (external), a number
  ring,      \* control commands the host has not read
  cursorRing,\* cursor commands the host has not read
  answered,  \* fenced commands the host has answered
  signaled,  \* the fences that are signaled
  fences,    \* how many were allocated
  hostScan,  \* what the host shows (external)
  backing,   \* the pages the host has attached to each (external), 0 for none
  uploaded   \* the last cursor image the host was given (external)

commitVars == <<cur, needsModeset, prep, tail, trash, commits>>
hostVars   == <<hostScan, backing, uploaded>>
vars == <<plugged, cur, needsModeset, prep, tail, trash, commits, imp, gen, ring, cursorRing, answered,
          signaled, fences, hostScan, backing, uploaded>>

Unknown == [life |-> "none", pins |-> 0, sgt |-> 0, attached |-> FALSE, lock |-> "none", fence |-> 0,
            kept |-> FALSE]

Init ==
  /\ plugged = TRUE
  /\ cur = [fb |-> None, cursor |-> None, active |-> FALSE]
  /\ needsModeset = FALSE
  /\ prep = {} /\ tail = {} /\ trash = <<>> /\ commits = 0
  /\ imp = [i \in Imported |-> Unknown]
  /\ gen = [i \in Imported |-> 1]
  /\ ring = <<>> /\ cursorRing = <<>> /\ answered = <<>>
  /\ signaled = {} /\ fences = 0
  /\ hostScan = None
  /\ backing = [i \in Imported |-> 0]
  /\ uploaded = 0

(* A control command: what it does, to which object, with which pages, and *)
(* its fence, which for a transfer also stands for the image.              *)
Cmd(op, o, n, f) == [op |-> op, o |-> o, n |-> n, fence |-> f]

CmdSetScanout(o)          == Cmd("SCANOUT", o, 0, 0)
CmdSetScanoutBlob(o)      == Cmd("SCANOUT", o, 0, 0)
CmdResourceFlush(o, f)    == Cmd("FLUSH", o, 0, f)
CmdTransferToHost2d(o, f) == Cmd("TRANSFER", o, 0, f)
CmdAttachBacking(o, n)    == Cmd("ATTACH", o, n, 0)
CmdDetachBacking(o, f)    == Cmd("DETACH", o, 0, f)
CmdUnref(o)               == Cmd("UNREF", o, 0, 0)

(* A blob is created with its pages attached.                              *)
CmdResourceCreateBlob(o, n) == Cmd("ATTACH", o, n, 0)

(* virtio_gpu_queue_fenced_ctrl_buffer: nothing, once the device is gone.  *)
Queue(cmds) == ring' = IF plugged THEN ring \o cmds ELSE ring

(* virtio_gpu_object_attach: once.                                         *)
ObjectAttach(i) == IF imp[i].attached THEN <<>> ELSE <<CmdAttachBacking(i, gen[i])>>

(* virtgpu_dma_buf_import_sgt maps the pages where they are now.           *)
ImportSgt(i, s) == [s EXCEPT !.sgt = gen[i], !.attached = TRUE]
-----------------------------------------------------------------------------
(***************************************************************************)
(* virtgpu_gem_prime_import and virtgpu_dma_buf_init_obj, under the resv   *)
(* lock from pin to unpin: map the attachment, create the resource with    *)
(* its pages.                                                              *)
(***************************************************************************)
ImportObj(i) ==
  /\ plugged /\ imp[i].life = "none"
  /\ Queue(<<CmdResourceCreateBlob(i, gen[i])>>)
  /\ imp' = [imp EXCEPT ![i] = ImportSgt(i, [Unknown EXCEPT !.life = "held"])]
  /\ UNCHANGED <<plugged, commitVars, gen, cursorRing, answered, signaled, fences, hostVars>>

(* User space drops its handle and its framebuffer.                        *)
ReleaseObj(i) ==
  /\ imp[i].life = "held"
  /\ imp' = [imp EXCEPT ![i].life = "released"]
  /\ UNCHANGED <<plugged, commitVars, gen, ring, cursorRing, answered, signaled, fences, hostVars>>

(* A plane state still has a reference to the object.                      *)
InUse(i) ==
  \/ cur.fb = i
  \/ \E c \in prep \cup tail : c.fb = i \/ c.old = i
  \/ i \in Range(trash)

(***************************************************************************)
(* virtgpu_dma_buf_unmap with the resv lock held: a fenced detach if the   *)
(* object is attached, and then a wait without timeout. With no memory for *)
(* the fence virtio_gpu_detach_object_fenced returns -ENOMEM, which nobody *)
(* looks at: nothing is queued, and the object stays attached.             *)
(***************************************************************************)
Unmap(i, who) ==
  /\ imp[i].lock = "none"
  /\ \/ /\ imp[i].attached
        /\ fences' = fences + 1
        /\ Queue(<<CmdDetachBacking(i, fences + 1)>>)
        /\ imp' = [imp EXCEPT ![i].attached = FALSE, ![i].lock = who, ![i].fence = fences + 1]
     \/ /\ imp' = [imp EXCEPT ![i].lock = who, ![i].fence = 0]
        /\ UNCHANGED <<ring, fences>>

Unmapped(i) == imp[i].fence = 0 \/ imp[i].fence \in signaled

(* The exporter, external, takes the lock to move the pages and calls      *)
(* virtgpu_dma_buf_move_notify;                                            *)
MoveNotify(i) ==
  /\ imp[i].life \in {"held", "released"}
  /\ imp[i].pins = 0
  /\ gen[i] <= MaxMoves
  /\ Unmap(i, "exporter")
  /\ UNCHANGED <<plugged, commitVars, gen, cursorRing, answered, signaled, hostVars>>

(* Mutant: the fence is not waited for.                                    *)
MoveAtOnce(i) ==
  /\ imp[i].lock = "exporter"
  /\ imp' = [imp EXCEPT ![i].sgt = 0, ![i].lock = "none", ![i].kept = imp[i].attached]
  /\ gen' = [gen EXCEPT ![i] = @ + 1]
  /\ UNCHANGED <<plugged, commitVars, ring, cursorRing, answered, signaled, fences, hostVars>>

(***************************************************************************)
(* when it returns the mapping is gone and the exporter moves them. As a   *)
(* history, kept remembers of the last unmap that there was no memory for  *)
(* its detach, so that the host kept the pages.                            *)
(***************************************************************************)
Move(i) ==
  /\ imp[i].lock = "exporter"
  /\ Unmapped(i)
  /\ imp' = [imp EXCEPT ![i].sgt = 0, ![i].lock = "none", ![i].kept = imp[i].attached]
  /\ gen' = [gen EXCEPT ![i] = @ + 1]
  /\ UNCHANGED <<plugged, commitVars, ring, cursorRing, answered, signaled, fences, hostVars>>

(* virtgpu_dma_buf_free_obj: unmap, give the attachment back, and unref.   *)
FreeObj(i) ==
  /\ \/ /\ imp[i].life = "released" /\ ~InUse(i)
        /\ Unmap(i, "free")
        /\ UNCHANGED gen
     \/ /\ imp[i].lock = "free"
        /\ Unmapped(i)
        /\ imp' = [imp EXCEPT ![i] = [Unknown EXCEPT !.life = "freed", !.kept = imp[i].attached]]
        /\ gen' = [gen EXCEPT ![i] = @ + 1]
        /\ Queue(<<CmdUnref(i)>>)
        /\ UNCHANGED fences
  /\ UNCHANGED <<plugged, commitVars, cursorRing, answered, signaled, hostVars>>
-----------------------------------------------------------------------------
(* Mutant: the mapping left by an earlier prepare is taken for granted.    *)
PrepareImportedKeeps(i) ==
  /\ imp[i].lock = "none"
  /\ imp' = [imp EXCEPT ![i].pins = @ + 1]
  /\ UNCHANGED ring

(***************************************************************************)
(* virtio_gpu_prepare_imported_obj: pin, so that the pages stay; map and   *)
(* attach them if they have moved since.                                   *)
(***************************************************************************)
PrepareImported(i) ==
  /\ imp[i].lock = "none"
  /\ IF imp[i].sgt # 0
     THEN /\ imp' = [imp EXCEPT ![i].pins = @ + 1]
          /\ UNCHANGED ring
     ELSE /\ imp' = [imp EXCEPT ![i] = ImportSgt(i, [imp[i] EXCEPT !.pins = @ + 1])]
          /\ Queue(ObjectAttach(i))

(* virtio_gpu_plane_prepare_fb for a commit of the primary plane: an       *)
(* imported object gets a fence and is pinned.                             *)
PreparePrimary ==
  /\ plugged /\ prep = {} /\ commits < MaxCommits
  /\ \E fb \in Obj \cup {None}, active \in BOOLEAN, newMode \in BOOLEAN :
       /\ fb \in Imported => imp[fb].life = "held"
       /\ prep' = {[op |-> "primary", fb |-> fb, active |-> active, old |-> None,
                    modeset |-> newMode, pc |-> "modeset", fence |-> 0]}
       /\ IF fb \in Imported THEN PrepareImported(fb) ELSE UNCHANGED <<imp, ring>>
  /\ commits' = commits + 1
  /\ UNCHANGED <<plugged, cur, needsModeset, tail, trash, gen, cursorRing, answered, signaled, fences,
                 hostVars>>

(* The same for the cursor plane, for dumb objects: they get a fence. (An  *)
(* imported one is pinned as above, and any other shown without upload.)   *)
PrepareCursor ==
  /\ plugged /\ prep = {} /\ commits < MaxCommits
  /\ \E fb \in Dumb \cup {None} :
       prep' = {[op |-> "cursor", fb |-> fb, active |-> FALSE, old |-> None, modeset |-> FALSE,
                 pc |-> "cursor", fence |-> 0]}
  /\ commits' = commits + 1
  /\ UNCHANGED <<plugged, cur, needsModeset, tail, trash, imp, gen, ring, cursorRing, answered, signaled,
                 fences, hostVars>>

(* drm_atomic_helper_swap_state, external, after the commit before.        *)
Swap ==
  /\ tail = {}
  /\ \E c \in prep :
       IF c.op = "cursor"
       THEN /\ tail' = {[c EXCEPT !.old = cur.cursor]}
            /\ cur' = [cur EXCEPT !.cursor = c.fb]
       ELSE /\ tail' = {[c EXCEPT !.old = cur.fb,
                                  !.modeset = c.modeset \/ c.active # cur.active]}
            /\ cur' = [cur EXCEPT !.fb = c.fb, !.active = c.active]
  /\ prep' = {}
  /\ UNCHANGED <<plugged, needsModeset, trash, commits, imp, gen, ring, cursorRing, answered, signaled,
                 fences, hostVars>>

(* virtio_gpu_crtc_atomic_disable and virtio_gpu_crtc_mode_set_nofb: with  *)
(* a modeset the host is first told to show nothing.                       *)
TailModeset ==
  /\ \E c \in tail :
       /\ c.pc = "modeset"
       /\ Queue(IF c.modeset THEN <<CmdSetScanout(None)>> ELSE <<>>)
       /\ tail' = {[c EXCEPT !.pc = "update"]}
  /\ UNCHANGED <<plugged, cur, needsModeset, prep, trash, commits, imp, gen, cursorRing, answered, signaled,
                 fences, hostVars>>

(* The framebuffer is another one, or a modeset is due. (Another source    *)
(* rectangle repeats the scanout of the same framebuffer; left out.)       *)
NewScanout(c) == c.fb # c.old \/ needsModeset

(* virtio_gpu_update_dumb_bo, if it is one; with no memory for the array   *)
(* of objects the upload is skipped.                                       *)
UpdateDumbBo(o) == {<<>>} \cup (IF o \in Dumb THEN {<<CmdTransferToHost2d(o, 0)>>} ELSE {})

SetScanout(o) == IF o \in Imported THEN CmdSetScanoutBlob(o) ELSE CmdSetScanout(o)

(* virtio_gpu_resource_flush, with the fence of the prepare, if there is   *)
(* one; the wait for it ends after 50 ms in any case. With a fence there is*)
(* an array of objects too, and with no memory for it no flush.            *)
ResourceFlush(o, f) == {<<CmdResourceFlush(o, f)>>} \cup (IF f = 0 THEN {} ELSE {<<>>})

(***************************************************************************)
(* virtio_gpu_primary_plane_update: nothing to show; or nothing damaged    *)
(* since; or upload a dumb buffer, set the scanout if need be, and flush,  *)
(* with the fence of the prepare, if there is one, which is waited for,    *)
(* but for 50 ms only. (The plane covers the CRTC; one that lies outside   *)
(* of it, for which the code returns as if undamaged, is left out.)        *)
(***************************************************************************)
PrimaryPlaneUpdate ==
  /\ \E c \in tail :
       /\ c.pc = "update"
       /\ \/ /\ c.fb = None \/ ~c.active
             /\ Queue(<<CmdSetScanout(None)>>)
             /\ tail' = {[c EXCEPT !.pc = "flush"]}
             /\ UNCHANGED <<needsModeset, fences>>
          \/ /\ c.fb # None /\ c.active /\ c.fb = c.old
             /\ tail' = {[c EXCEPT !.pc = "flush"]}
             /\ UNCHANGED <<ring, needsModeset, fences>>
          \/ /\ c.fb # None /\ c.active
             /\ LET f == IF c.fb \in Imported THEN fences + 1 ELSE 0
                IN  /\ \E u \in UpdateDumbBo(c.fb), r \in ResourceFlush(c.fb, f) :
                         Queue(u \o (IF NewScanout(c) THEN <<SetScanout(c.fb)>> ELSE <<>>) \o r)
                    /\ needsModeset' = IF NewScanout(c) THEN FALSE ELSE needsModeset
                    /\ fences' = IF f = 0 THEN fences ELSE f
                    /\ tail' = {[c EXCEPT !.pc = "flush", !.fence = f]}
  /\ UNCHANGED <<plugged, cur, prep, trash, commits, imp, gen, cursorRing, answered, signaled, hostVars>>

(* Mutant: the modeset is not remembered.                                  *)
AtomicFlushForgets ==
  /\ \E c \in tail :
       /\ c.pc = "flush"
       /\ tail' = {}
       /\ trash' = IF c.op = "primary" /\ c.old \in Imported THEN Append(trash, c.old) ELSE trash
  /\ UNCHANGED <<plugged, cur, needsModeset, prep, commits, imp, gen, ring, cursorRing, answered, signaled,
                 fences, hostVars>>

(* The fence or 50 ms later, virtio_gpu_crtc_atomic_flush: a modeset of    *)
(* this commit is left to the next plane update. The hardware is done.     *)
AtomicFlush ==
  /\ \E c \in tail :
       /\ c.pc = "flush"
       /\ needsModeset' = (needsModeset \/ c.modeset)
       /\ tail' = {}
       /\ trash' = IF c.op = "primary" /\ c.old \in Imported THEN Append(trash, c.old) ELSE trash
  /\ UNCHANGED <<plugged, cur, prep, commits, imp, gen, ring, cursorRing, answered, signaled, fences,
                 hostVars>>

(* virtio_gpu_plane_cleanup_fb of what was replaced: an imported object is *)
(* unpinned, under the resv lock. (Of another one only the fence is put.)  *)
CleanupFb ==
  /\ trash # <<>>
  /\ LET o == Head(trash)
     IN  imp[o].lock = "none" /\ imp' = [imp EXCEPT ![o].pins = @ - 1]
  /\ trash' = Tail(trash)
  /\ UNCHANGED <<plugged, cur, needsModeset, prep, tail, commits, gen, ring, cursorRing, answered, signaled,
                 fences, hostVars>>
-----------------------------------------------------------------------------
(* virtio_gpu_cursor_plane_update: a new cursor is uploaded first (with no *)
(* memory for the array of objects the update ends here),                  *)
CursorUpload ==
  /\ \E c \in tail :
       /\ c.pc = "cursor"
       /\ \/ /\ c.fb # None /\ c.fb # c.old
             /\ fences' = fences + 1
             /\ Queue(<<CmdTransferToHost2d(c.fb, fences + 1)>>)
             /\ tail' = {[c EXCEPT !.pc = "wait", !.fence = fences + 1]}
          \/ /\ tail' = {[c EXCEPT !.pc = IF c.fb # None /\ c.fb # c.old THEN "flush" ELSE "ping"]}
             /\ UNCHANGED <<fences, ring>>
  /\ UNCHANGED <<plugged, cur, needsModeset, prep, trash, commits, imp, gen, cursorRing, answered, signaled,
                 hostVars>>

(* Mutant: the upload is not waited for.                                   *)
CursorWaitNot ==
  /\ \E c \in tail :
       /\ c.pc = "wait"
       /\ tail' = {[c EXCEPT !.pc = "ping"]}
  /\ UNCHANGED <<plugged, cur, needsModeset, prep, trash, commits, imp, gen, ring, cursorRing, answered,
                 signaled, fences, hostVars>>

(* and waited for, which a signal cuts short: no image is vouched for then.*)
CursorWait ==
  /\ \E c \in tail :
       /\ c.pc = "wait"
       /\ \/ c.fence \in signaled /\ tail' = {[c EXCEPT !.pc = "ping"]}
          \/ tail' = {[c EXCEPT !.pc = "ping", !.fence = 0]}
  /\ UNCHANGED <<plugged, cur, needsModeset, prep, trash, commits, imp, gen, ring, cursorRing, answered,
                 signaled, fences, hostVars>>

(* virtio_gpu_queue_cursor, which has no answer to wait for.               *)
QueueCursor(c) ==
  cursorRing' = IF plugged THEN Append(cursorRing, c) ELSE cursorRing

(* virtio_gpu_cursor_ping: UPDATE_CURSOR, or MOVE_CURSOR for the same one, *)
(* on a queue of its own.                                                  *)
CursorPing ==
  /\ \E c \in tail :
       /\ c.pc = "ping"
       /\ QueueCursor([o |-> c.fb, image |-> c.fence])
       /\ tail' = {[c EXCEPT !.pc = "flush"]}
  /\ UNCHANGED <<plugged, cur, needsModeset, prep, trash, commits, imp, gen, ring, answered, signaled, fences,
                 hostVars>>
-----------------------------------------------------------------------------
(* The host, external, reads each queue in order, at its own pace.         *)
HostRead ==
  /\ ring # <<>>
  /\ LET c == Head(ring)
     IN  /\ hostScan' = IF c.op = "SCANOUT" THEN c.o ELSE hostScan
         /\ backing'  = IF c.op \in {"ATTACH", "DETACH", "UNREF"}
                        THEN [backing EXCEPT ![c.o] = c.n] ELSE backing
         /\ uploaded' = IF c.op = "TRANSFER" /\ c.fence # 0 THEN c.fence ELSE uploaded
         /\ answered' = IF c.fence = 0 THEN answered ELSE Append(answered, c.fence)
  /\ ring' = Tail(ring)
  /\ UNCHANGED <<plugged, commitVars, imp, gen, cursorRing, signaled, fences>>

HostCursor ==
  /\ cursorRing # <<>>
  /\ cursorRing' = Tail(cursorRing)
  /\ UNCHANGED <<plugged, commitVars, imp, gen, ring, answered, signaled, fences, hostVars>>

(* The dequeue work signals the fence of an answer; they come in order.    *)
Dequeue ==
  /\ answered # <<>>
  /\ signaled' = signaled \cup {Head(answered)}
  /\ answered' = Tail(answered)
  /\ UNCHANGED <<plugged, commitVars, imp, gen, ring, cursorRing, fences, hostVars>>

Unplug ==
  /\ plugged
  /\ plugged' = FALSE
  /\ UNCHANGED <<commitVars, imp, gen, ring, cursorRing, answered, signaled, fences, hostVars>>
-----------------------------------------------------------------------------
TailNext ==
  \/ TailModeset \/ PrimaryPlaneUpdate \/ AtomicFlush
  \/ CursorUpload \/ CursorWait \/ CursorPing

Next ==
  \/ \E i \in Imported : ImportObj(i) \/ ReleaseObj(i) \/ MoveNotify(i) \/ Move(i) \/ FreeObj(i)
  \/ PreparePrimary \/ PrepareCursor \/ Swap \/ TailNext \/ CleanupFb
  \/ HostRead \/ HostCursor \/ Dequeue \/ Unplug

Spec == Init /\ [][Next]_vars
-----------------------------------------------------------------------------
(***************************************************************************)
(* The host holds pages the exporter has taken back only if the last unmap *)
(* of the object had no memory for its detach (kept): move_notify and the  *)
(* free path return only after the host answered the detach, no prepare    *)
(* attaches pages while they are being moved, and the next unmap that has  *)
(* memory repairs what an earlier one left behind.                         *)
(***************************************************************************)
NoStalePages ==
  \A i \in Imported : backing[i] \in {0, gen[i]} \/ imp[i].kept

(***************************************************************************)
(* What the host shows, or is told to flush, has pages attached, and the   *)
(* ones the exporter has now, but for an object whose pages an unmap left  *)
(* with the host (kept): a framebuffer stays pinned from the prepare before*)
(* it is first shown to the cleanup after another one replaced it, so no   *)
(* move_notify detaches it in between, whatever order the queue, the       *)
(* exporter and the commits run in.                                        *)
(***************************************************************************)
Backed(i) == backing[i] # 0 /\ (backing[i] = gen[i] \/ imp[i].kept)

ShownIsBacked ==
  /\ hostScan \in Imported => Backed(hostScan)
  /\ ring # <<>> /\ Head(ring).op = "FLUSH" /\ Head(ring).o \in Imported => Backed(Head(ring).o)

(***************************************************************************)
(* "The actual modeset happens in the plane update callback": with no      *)
(* commit at work and the queue read, the host shows the framebuffer of    *)
(* the primary plane, or a modeset is remembered and the next update of    *)
(* the plane repairs it. (A modeset that keeps the framebuffer does leave  *)
(* the screen blank until then: the CRTC flush comes after the planes.)    *)
(***************************************************************************)
ScanoutFollows ==
  plugged /\ tail = {} /\ ring = <<>> =>
    \/ hostScan = (IF cur.active THEN cur.fb ELSE None)
    \/ needsModeset

(***************************************************************************)
(* "New cursor -- update & wait": when UPDATE_CURSOR is on the cursor      *)
(* queue the host has the image, though that travels on another queue;     *)
(* unless a signal cut the wait short.                                     *)
(***************************************************************************)
CursorUploaded ==
  \A k \in DOMAIN cursorRing : cursorRing[k].image <= uploaded
=============================================================================
