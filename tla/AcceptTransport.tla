-------------------------- MODULE AcceptTransport ---------------------------
(***************************************************************************)
(* Queues 0 and 1 of the accept device (Part 2 of gunyah_guest.c): the     *)
(* host fills a request buffer, vga_work_func accepts or releases the      *)
(* memparcel through the Resource Manager client, records it in the        *)
(* gpa-keyed table, sends a completion and gives the buffer back. Removal  *)
(* releases what is still in the table.                                    *)
(*                                                                         *)
(* The host (crosvm) is external. It has one request per address under way *)
(* at a time and `view` is what its completions told it.                   *)
(***************************************************************************)
EXTENDS RmClient

CONSTANTS
  Work,       \* the kworker that runs vga_work_func
  Remove,     \* the thread that runs vga_remove
  Home,       \* the address the host made each parcel for
  NumBufs,    \* VGA_NUM_REQ_BUFS, 16 in the code
  CompDepth,  \* completions the completion queue holds
  MaxEntries  \* bound on the table: the host asks for no more parcels then

ASSUME TransportAssumption ==
  /\ Client = {Work, Remove} /\ Work # Remove
  /\ Home \in [Handle -> Gpa]
  /\ NumBufs \in Nat \ {0}
  /\ CompDepth \in Nat \ {0}
  /\ MaxEntries \in Nat \ {0}

VARIABLES
  dev,       \* how far vga_remove has come
  reqq,      \* filled request buffers, oldest first
  bufs,      \* request buffers the device may fill
  irq,       \* the request queue's interrupt is raised
  pending,   \* vga->work is queued
  work,      \* where vga_work_func is
  cur,       \* the request it works on
  ret,       \* and that request's result
  accepted,  \* vga->accepted
  comps,     \* completions the host has not read
  view       \* what the host knows about each address (external)

hostVars == <<reqq, bufs, irq, comps, view>>
vars == <<rmVars, dev, reqq, bufs, irq, pending, work, cur, ret, accepted, comps, view>>

(* "BAD" stands for a short buffer, an unknown op, a zero handle or size.  *)
HostRequest ==
  {r \in [op : Op \cup {"BAD"}, handle : Handle, gpa : Gpa] : Home[r.handle] = r.gpa}

NoWork == CHOOSE r \in HostRequest : r.op = "BAD"

TypeOK ==
  /\ RmTypeOK
  /\ dev \in {"live", "reset", "cancelled", "freed"}
  /\ reqq \in Seq(HostRequest)
  /\ bufs \in 0 .. NumBufs
  /\ irq \in BOOLEAN
  /\ pending \in BOOLEAN
  /\ work \in {"idle", "loop", "dispatch", "rpc", "complete", "returning"}
  /\ cur \in HostRequest
  /\ ret \in Returns \cup {"EINVAL", "ENOMEM", "ENOENT"}
  /\ accepted \in Seq([gpa : Gpa, handle : Handle])
  /\ comps \in Seq([req : HostRequest, ok : BOOLEAN])
  /\ view \in [Gpa -> {"out", "in", "busy", "unknown"}]

Init ==
  /\ RmInit
  /\ dev = "live"
  /\ reqq = <<>>
  /\ bufs = NumBufs
  /\ irq = FALSE
  /\ pending = FALSE
  /\ work = "idle"
  /\ cur = NoWork
  /\ ret = "OK"
  /\ accepted = <<>>
  /\ comps = <<>>
  /\ view = [g \in Gpa |-> "out"]
-----------------------------------------------------------------------------
(* The host, external: fills a buffer and raises the interrupt.            *)
HostPost(r) ==
  /\ dev = "live"
  /\ bufs > 0
  /\ view[r.gpa] # "busy"
  /\ r.op = "ACCEPT" => Len(accepted) + Len(reqq) < MaxEntries
  /\ reqq' = Append(reqq, r)
  /\ bufs' = bufs - 1
  /\ irq' = TRUE
  /\ view' = [view EXCEPT ![r.gpa] = "busy"]
  /\ UNCHANGED <<rmVars, dev, pending, work, cur, ret, accepted, comps>>

(* The host reads a completion; vga_comp_cb then frees its buffer.         *)
HostConsume ==
  /\ dev = "live"
  /\ comps # <<>>
  /\ view' = [view EXCEPT ![Head(comps).req.gpa] =
                CASE ~Head(comps).ok -> "unknown"
                  [] Head(comps).ok /\ Head(comps).req.op = "ACCEPT" -> "in"
                  [] OTHER -> "out"]
  /\ comps' = Tail(comps)
  /\ UNCHANGED <<rmVars, dev, reqq, bufs, irq, pending, work, cur, ret, accepted>>

(* Mutant: schedule_work is lost when the work is already running.         *)
ReqCallbackIfIdle ==
  /\ irq
  /\ irq' = FALSE
  /\ pending' = (pending \/ work = "idle")
  /\ UNCHANGED <<rmVars, dev, reqq, bufs, work, cur, ret, accepted, comps, view>>

(* vga_req_cb: schedule_work; also while the work runs.                    *)
ReqCallback ==
  /\ irq
  /\ irq' = FALSE
  /\ pending' = TRUE
  /\ UNCHANGED <<rmVars, dev, reqq, bufs, work, cur, ret, accepted, comps, view>>
-----------------------------------------------------------------------------
WorkStart ==
  /\ pending
  /\ work = "idle"
  /\ pending' = FALSE
  /\ work' = "loop"
  /\ UNCHANGED <<rmVars, dev, hostVars, cur, ret, accepted>>

WorkTake ==
  /\ work = "loop"
  /\ reqq # <<>>
  /\ cur' = Head(reqq)
  /\ reqq' = Tail(reqq)
  /\ work' = "dispatch"
  /\ UNCHANGED <<rmVars, dev, bufs, irq, pending, ret, accepted, comps, view>>

(* virtqueue_get_buf found nothing; the work has not returned yet.         *)
WorkDone ==
  /\ work = "loop"
  /\ reqq = <<>>
  /\ work' = "returning"
  /\ UNCHANGED <<rmVars, dev, hostVars, pending, cur, ret, accepted>>

WorkReturn ==
  /\ work = "returning"
  /\ work' = "idle"
  /\ UNCHANGED <<rmVars, dev, hostVars, pending, cur, ret, accepted>>

(* The first entry of the table for an address, if there is one.           *)
Entries(g)    == {i \in DOMAIN accepted : accepted[i].gpa = g}
FirstEntry(g) == CHOOSE i \in Entries(g) : \A j \in Entries(g) : i <= j

(* Failures before any RPC: a bad request, no memory (or, to the same      *)
(* effect, no Resource Manager), an unknown address.                       *)
WorkReject ==
  /\ work = "dispatch"
  /\ \/ cur.op = "BAD" /\ ret' = "EINVAL"
     \/ cur.op = "ACCEPT" /\ ret' = "ENOMEM"
     \/ cur.op = "RELEASE" /\ Entries(cur.gpa) = {} /\ ret' = "ENOENT"
  /\ work' = "complete"
  /\ UNCHANGED <<rmVars, dev, hostVars, pending, cur, accepted>>

(* vga_do_accept and vga_do_release up to the RPC.                         *)
WorkCall ==
  /\ work = "dispatch"
  /\ \/ cur.op = "ACCEPT" /\ Call(Work, cur)
     \/ /\ cur.op = "RELEASE"
        /\ Entries(cur.gpa) # {}
        /\ Call(Work, [op |-> "RELEASE", gpa |-> cur.gpa,
                       handle |-> accepted[FirstEntry(cur.gpa)].handle])
  /\ work' = "rpc"
  /\ UNCHANGED <<dev, hostVars, pending, cur, ret, accepted>>

Without(s, i) == SubSeq(s, 1, i - 1) \o SubSeq(s, i + 1, Len(s))

(* Mutant: the entry is deleted whether or not the RM released the parcel, *)
(* or recorded whether or not it accepted it.                              *)
RecordAlways(result) ==
  accepted' = IF cur.op = "ACCEPT"
              THEN Append(accepted, [gpa |-> cur.gpa, handle |-> cur.handle])
              ELSE Without(accepted, FirstEntry(cur.gpa))

(* The table changes only when the RM agreed.                              *)
Record(result) ==
  accepted' = CASE result # "OK" -> accepted
                [] result = "OK" /\ cur.op = "ACCEPT" ->
                     Append(accepted, [gpa |-> cur.gpa, handle |-> cur.handle])
                [] OTHER -> Without(accepted, FirstEntry(cur.gpa))

WorkResult ==
  /\ work = "rpc"
  /\ Return(Work)
  /\ ret' = out[Work]
  /\ Record(out[Work])
  /\ work' = "complete"
  /\ UNCHANGED <<dev, hostVars, pending, cur>>

(* Mutants: every completion reports success; the buffer is given back     *)
(* only after a success.                                                   *)
WorkCompleteOK ==
  /\ work = "complete"
  /\ Len(comps) < CompDepth
  /\ comps' = Append(comps, [req |-> cur, ok |-> TRUE])
  /\ bufs' = bufs + 1
  /\ work' = "loop"
  /\ cur' = NoWork
  /\ ret' = "OK"
  /\ UNCHANGED <<rmVars, dev, reqq, irq, pending, accepted, view>>

WorkCompleteKeeps ==
  /\ work = "complete"
  /\ Len(comps) < CompDepth
  /\ comps' = Append(comps, [req |-> cur, ok |-> ret = "OK"])
  /\ bufs' = IF ret = "OK" THEN bufs + 1 ELSE bufs
  /\ work' = "loop"
  /\ cur' = NoWork
  /\ ret' = "OK"
  /\ UNCHANGED <<rmVars, dev, reqq, irq, pending, accepted, view>>

(***************************************************************************)
(* vga_send_completion and the recycling of the request buffer. Without    *)
(* memory or room the completion is dropped and the host times out.        *)
(***************************************************************************)
WorkComplete ==
  /\ work = "complete"
  /\ \/ /\ Len(comps) < CompDepth
        /\ comps' = Append(comps, [req |-> cur, ok |-> ret = "OK"])
        /\ UNCHANGED view
     \/ /\ view' = [view EXCEPT ![cur.gpa] = "unknown"]
        /\ UNCHANGED comps
  /\ bufs' = bufs + 1
  /\ work' = "loop"
  /\ cur' = NoWork
  /\ ret' = "OK"
  /\ UNCHANGED <<rmVars, dev, reqq, irq, pending, accepted>>
-----------------------------------------------------------------------------
(* vga_remove: the device is reset, its interrupts are over...             *)
RemoveReset ==
  /\ dev = "live"
  /\ dev' = "reset"
  /\ irq' = FALSE
  /\ UNCHANGED <<rmVars, reqq, bufs, pending, work, cur, ret, accepted, comps, view>>

(* ...cancel_work_sync takes the work off the queue and waits for it...    *)
RemoveCancel ==
  /\ dev = "reset"
  /\ work = "idle"
  /\ dev' = "cancelled"
  /\ pending' = FALSE
  /\ UNCHANGED <<rmVars, hostVars, work, cur, ret, accepted>>

(* ...each parcel in the table is released, and its entry deleted whatever *)
(* the result...                                                           *)
RemoveCall ==
  /\ dev = "cancelled"
  /\ accepted # <<>>
  /\ Call(Remove, [op |-> "RELEASE", gpa |-> Head(accepted).gpa,
                   handle |-> Head(accepted).handle])
  /\ UNCHANGED <<dev, hostVars, pending, work, cur, ret, accepted>>

RemoveResult ==
  /\ Return(Remove)
  /\ accepted' = Tail(accepted)
  /\ UNCHANGED <<dev, hostVars, pending, work, cur, ret>>

(* ...and the object is freed.                                             *)
RemoveFree ==
  /\ dev = "cancelled"
  /\ accepted = <<>>
  /\ dev' = "freed"
  /\ UNCHANGED <<rmVars, hostVars, pending, work, cur, ret, accepted>>

(* The transport is gone.                                                  *)
Gone ==
  /\ dev = "freed"
  /\ UNCHANGED vars

RemoveNext == RemoveReset \/ RemoveCancel \/ RemoveCall \/ RemoveResult \/ RemoveFree
-----------------------------------------------------------------------------
(* A step of the Resource Manager client, or of the RM itself.             *)
RpcStep(c) ==
  /\ RpcNext(c)
  /\ UNCHANGED <<dev, hostVars, pending, work, cur, ret, accepted>>

(* One such step: the 2000 polls run out.                                  *)
RpcExpire(c) ==
  /\ PollTimeout(c)
  /\ UNCHANGED <<dev, hostVars, pending, work, cur, ret, accepted>>

RmStep ==
  /\ RmServe \/ RmNotify
  /\ UNCHANGED <<dev, hostVars, pending, work, cur, ret, accepted>>

WorkNext ==
  \/ WorkStart \/ WorkTake \/ WorkDone \/ WorkReturn
  \/ WorkReject \/ WorkCall \/ WorkResult \/ WorkComplete

Next ==
  \/ \E r \in HostRequest : HostPost(r)
  \/ HostConsume
  \/ ReqCallback
  \/ WorkNext
  \/ \E c \in Client : RpcStep(c)
  \/ RmStep
  \/ RemoveNext
  \/ Gone

Spec == Init /\ [][Next]_vars

(***************************************************************************)
(* Interrupts are delivered, the kworker and its RPC run, the host reads   *)
(* its completions. Nothing is asked of the Resource Manager, which may    *)
(* stay silent or flood the queue with notifications: the 2000 polls end   *)
(* by themselves. Nobody is forced to unbind.                              *)
(***************************************************************************)
Fairness ==
  /\ WF_vars(ReqCallback)
  /\ WF_vars(WorkNext)
  /\ \A c \in Client : WF_vars(RpcStep(c)) /\ WF_vars(RpcExpire(c))
  /\ WF_vars(HostConsume)

FairSpec == Spec /\ Fairness
-----------------------------------------------------------------------------
(***************************************************************************)
(* What the host was told is true: after a successful RELEASE nothing is   *)
(* mapped at that address any more ("Release BEFORE the host               *)
(* unshares/reuses the gpa") and after a successful ACCEPT something is,   *)
(* until the host asks for a change. It holds with lost replies, lost      *)
(* completions and failed calls before, because the RM's queue is in order *)
(* (as long as VerdictOwn's condition on gg_seq is met).                   *)
(***************************************************************************)
HostToldTruth ==
  dev = "live" /\ ~wrapped =>
    \A g \in Gpa : /\ view[g] = "out" => stage2[g] = None
                   /\ view[g] = "in" => stage2[g] # None

(***************************************************************************)
(* "Accepted parcels are tracked gpa-keyed HERE: the guest owns the handle *)
(* for its stage-2 acceptance": between calls, the first entry for an      *)
(* address is the parcel mapped there and there is none where nothing is   *)
(* mapped, until a call times out and leaves that open. A RELEASE carries  *)
(* only the address, so this is what makes every parcel releasable, and    *)
(* what lets removal leave nothing mapped.                                 *)
(***************************************************************************)
TableExact ==
  (~expired /\ work # "rpc" /\ rpc[Remove] = "idle") =>
    \A g \in Gpa :
      IF Entries(g) = {} THEN stage2[g] = None
                         ELSE stage2[g] = accepted[FirstEntry(g)].handle

(***************************************************************************)
(* No request buffer is lost: each of the sixteen is with the device, full *)
(* or being worked on, whatever a request's outcome was.                   *)
(***************************************************************************)
BuffersConserved ==
  bufs + Len(reqq) + (IF work \in {"dispatch", "rpc", "complete"} THEN 1 ELSE 0) = NumBufs

(***************************************************************************)
(* A request is answered, or its completion was dropped for lack of        *)
(* memory, or the device is being removed: the interrupt that comes while  *)
(* vga_work_func is about to return is not lost, and a Resource Manager    *)
(* that never answers does not stop the transport.                         *)
(***************************************************************************)
RequestAnswered ==
  \A g \in Gpa : view[g] = "busy" ~> (view[g] # "busy" \/ dev # "live")
=============================================================================
