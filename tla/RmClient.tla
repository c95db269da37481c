------------------------------ MODULE RmClient ------------------------------
(***************************************************************************)
(* Part 1 of gunyah_guest.c: the Resource Manager client. A call takes     *)
(* gg_lock, numbers its request with the next 16-bit gg_seq, sends it and  *)
(* polls the receive queue at most 2000 times for the reply with the same  *)
(* number, discarding everything else it reads. After that it gives up,    *)
(* and the reply, if there ever is one, is left for later calls to read.   *)
(*                                                                         *)
(* The Resource Manager is external: it serves requests in order and owns  *)
(* the guest's stage-2 mappings of runtime memparcels. The callers are in  *)
(* module AcceptTransport, which runs this client.                         *)
(***************************************************************************)
EXTENDS Integers, Sequences

CONSTANTS
  Client,    \* threads that call gunyah_guest_mem_accept/release
  Nobody,
  Handle,    \* memparcel handles
  Gpa,       \* guest-physical addresses parcels are accepted at
  None,      \* no handle
  SeqMod,    \* gg_seq is a u16: 2^16 in the code
  Depth      \* messages each of the two queues holds

ASSUME RmAssumption ==
  /\ Nobody \notin Client
  /\ None \notin Handle
  /\ Handle # {} /\ Gpa # {}
  /\ SeqMod \in Nat /\ SeqMod >= 2
  /\ Depth \in Nat \ {0}

VARIABLES
  ggSeq,   \* gg_seq
  ggLock,  \* holder of gg_lock
  rpc,     \* where each client's call is
  msg,     \* the request each client makes
  out,     \* what the call returned
  own,     \* ghost: the reply that decided the call was to that very call
  expired, \* ghost: a call timed out
  wrapped, \* ghost: a number was used again while a message carried it
  tx,      \* requests the RM has not read (external)
  rx,      \* messages the guest has not read (external)
  stage2   \* the parcel mapped at each address (external)

rmVars == <<ggSeq, ggLock, rpc, msg, out, own, expired, wrapped, tx, rx, stage2>>

Op      == {"ACCEPT", "RELEASE"}
Request == [op : Op, handle : Handle, gpa : Gpa]
NoRequest == CHOOSE r \in Request : TRUE
Returns == {"OK", "EIO", "EACCES", "ETIMEDOUT"}
Seqs    == 0 .. SeqMod - 1

RmTypeOK ==
  /\ ggSeq \in Seqs
  /\ ggLock \in Client \cup {Nobody}
  /\ rpc \in [Client -> {"idle", "lock", "poll", "done"}]
  /\ msg \in [Client -> Request]
  /\ out \in [Client -> Returns]
  /\ own \in [Client -> BOOLEAN]
  /\ expired \in BOOLEAN /\ wrapped \in BOOLEAN
  /\ tx \in Seq([seq : Seqs, live : BOOLEAN, req : Request])
  /\ rx \in Seq([type : {"REPLY", "NOTIF"}, seq : Seqs, live : BOOLEAN, err : BOOLEAN])
  /\ Len(tx) <= Depth /\ Len(rx) <= Depth
  /\ stage2 \in [Gpa -> Handle \cup {None}]

RmInit ==
  /\ ggSeq = 1
  /\ ggLock = Nobody
  /\ rpc = [c \in Client |-> "idle"]
  /\ msg = [c \in Client |-> NoRequest]
  /\ out = [c \in Client |-> "OK"]
  /\ own = [c \in Client |-> TRUE]
  /\ expired = FALSE /\ wrapped = FALSE
  /\ tx = <<>>
  /\ rx = <<>>
  /\ stage2 = [g \in Gpa |-> None]

(* gunyah_guest_mem_accept / gunyah_guest_mem_release, up to gg_lock.      *)
Call(c, r) ==
  /\ rpc[c] = "idle"
  /\ rpc' = [rpc EXCEPT ![c] = "lock"]
  /\ msg' = [msg EXCEPT ![c] = r]
  /\ UNCHANGED <<ggSeq, ggLock, out, own, wrapped, tx, rx, stage2, expired>>

NextSeq == (ggSeq + 1) % SeqMod

(* The number is still carried by a message somebody once waited for.      *)
InUse(n) ==
  \/ \E i \in DOMAIN tx : tx[i].seq = n
  \/ \E i \in DOMAIN rx : rx[i].type = "REPLY" /\ rx[i].seq = n

(* gg_lock, ++gg_seq and gg_msgq_send; a full queue fails with -EIO.       *)
LockAndSend(c) ==
  /\ rpc[c] = "lock"
  /\ ggLock = Nobody
  /\ ggSeq' = NextSeq
  /\ wrapped' = (wrapped \/ InUse(NextSeq))
  /\ \/ /\ Len(tx) < Depth
        /\ tx' = Append(tx, [seq |-> NextSeq, live |-> TRUE, req |-> msg[c]])
        /\ rpc' = [rpc EXCEPT ![c] = "poll"]
        /\ ggLock' = c
        /\ UNCHANGED out
     \/ /\ Len(tx) = Depth
        /\ rpc' = [rpc EXCEPT ![c] = "done"]
        /\ out' = [out EXCEPT ![c] = "EIO"]
        /\ UNCHANGED <<tx, ggLock>>
  /\ own' = [own EXCEPT ![c] = TRUE]
  /\ UNCHANGED <<msg, rx, stage2, expired>>

(* Mutant: the number is not compared.                                     *)
MatchesAnyReply(m) == m.type = "REPLY"

Matches(m) == m.type = "REPLY" /\ m.seq = ggSeq

(* What a RM err_code becomes: -EACCES for ACCEPT, -EIO for RELEASE.       *)
Errno(op, err) == IF ~err THEN "OK" ELSE IF op = "ACCEPT" THEN "EACCES" ELSE "EIO"

(* gg_rpc reads one message: the reply it waits for, or one to discard.    *)
Poll(c) ==
  /\ rpc[c] = "poll"
  /\ rx # <<>>
  /\ rx' = Tail(rx)
  /\ IF Matches(Head(rx))
     THEN /\ rpc' = [rpc EXCEPT ![c] = "done"]
          /\ out' = [out EXCEPT ![c] = Errno(msg[c].op, Head(rx).err)]
          /\ own' = [own EXCEPT ![c] = Head(rx).live]
          /\ ggLock' = Nobody
     ELSE UNCHANGED <<rpc, out, own, ggLock>>
  /\ UNCHANGED <<ggSeq, msg, wrapped, tx, stage2, expired>>

(* Ghost: nobody waits for what is queued any more.                        *)
Stale(q) == [i \in DOMAIN q |-> [q[i] EXCEPT !.live = FALSE]]

(* The 2000 polls are over; the reply may have come just after the last.   *)
PollTimeout(c) ==
  /\ rpc[c] = "poll"
  /\ rpc' = [rpc EXCEPT ![c] = "done"]
  /\ out' = [out EXCEPT ![c] = "ETIMEDOUT"]
  /\ ggLock' = Nobody
  /\ tx' = Stale(tx)
  /\ rx' = Stale(rx)
  /\ expired' = TRUE
  /\ UNCHANGED <<ggSeq, msg, own, wrapped, stage2>>

(* The caller has the result; its locals are dead.                         *)
Return(c) ==
  /\ rpc[c] = "done"
  /\ rpc' = [rpc EXCEPT ![c] = "idle"]
  /\ msg' = [msg EXCEPT ![c] = NoRequest]
  /\ out' = [out EXCEPT ![c] = "OK"]
  /\ own' = [own EXCEPT ![c] = TRUE]
  /\ UNCHANGED <<ggSeq, ggLock, wrapped, tx, rx, stage2, expired>>

(***************************************************************************)
(* The Resource Manager, external. ACCEPT maps a parcel that is mapped     *)
(* nowhere at an address where nothing is mapped; RELEASE unmaps it. Every *)
(* other request is rejected, and an ACCEPT may be rejected anyway.        *)
(***************************************************************************)
Granted(r) ==
  IF r.op = "ACCEPT"
  THEN stage2[r.gpa] = None /\ \A g \in Gpa : stage2[g] # r.handle
  ELSE \E g \in Gpa : stage2[g] = r.handle

Applied(r) ==
  IF r.op = "ACCEPT"
  THEN [stage2 EXCEPT ![r.gpa] = r.handle]
  ELSE [g \in Gpa |-> IF stage2[g] = r.handle THEN None ELSE stage2[g]]

RmServe ==
  /\ tx # <<>>
  /\ Len(rx) < Depth
  /\ \E ok \in BOOLEAN :
       /\ ok => Granted(Head(tx).req)
       /\ ~ok => Head(tx).req.op = "ACCEPT" \/ ~Granted(Head(tx).req)
       /\ stage2' = IF ok THEN Applied(Head(tx).req) ELSE stage2
       /\ rx' = Append(rx, [type |-> "REPLY", seq |-> Head(tx).seq,
                            live |-> Head(tx).live, err |-> ~ok])
  /\ tx' = Tail(tx)
  /\ UNCHANGED <<ggSeq, ggLock, rpc, msg, out, own, wrapped, expired>>

(* A notification carries a number of the RM's own choosing.               *)
RmNotify ==
  /\ Len(rx) < Depth
  /\ \E s \in Seqs :
       rx' = Append(rx, [type |-> "NOTIF", seq |-> s, live |-> FALSE, err |-> FALSE])
  /\ UNCHANGED <<ggSeq, ggLock, rpc, msg, out, own, wrapped, tx, stage2, expired>>

RpcNext(c) == LockAndSend(c) \/ Poll(c) \/ PollTimeout(c)

-----------------------------------------------------------------------------
(***************************************************************************)
(* "poll for the REPLY matching @seq": a call never returns the verdict of *)
(* an earlier call that timed out, nor of a notification, although all of  *)
(* them come through the one receive queue. It holds until a number comes  *)
(* round while a message carrying it is still queued, which takes 2^16     *)
(* calls, failed sends included, during which that message is not read.    *)
(***************************************************************************)
VerdictOwn == ~wrapped => \A c \in Client : rpc[c] = "done" => own[c]
=============================================================================
