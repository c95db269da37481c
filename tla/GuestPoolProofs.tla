-------------------------- MODULE GuestPoolProofs ---------------------------
(***************************************************************************)
(* Proofs about GuestPool, for every window, step, floor, set of buffer    *)
(* objects and fault set PoolAssumption allows (and Recoverable, where a   *)
(* theorem says so); and about PoolNents, the entry bound of guest-alloc   *)
(* objects, for every pool size, every set of parameter values and every   *)
(* fragmentation.                                                          *)
(***************************************************************************)
EXTENDS GuestPool, PoolNents, FiniteSetTheorems, TLAPS

(* Where the holder of guest_pool_lock is.                                 *)
Phase == IF owner = Nobody THEN "free" ELSE pc[owner]

(* The part of the window no request in flight can take away.              *)
SafeTop == IF Shrinking THEN backed - step ELSE backed

OnGrid(n) == \E k \in Nat : n = k * Step

(* guest_pool_lock: a thread is past the lock iff it is the owner.         *)
LockInv ==
  /\ \A p \in Proc : pc[p] \in Locked <=> owner = p
  /\ owner # Nobody => ready

(* The boundary is on the grid, above the floor, and a request is only in  *)
(* flight while growth is enabled and its range is inside the window.      *)
GridInv ==
  /\ Prealloc <= backed
  /\ Step # 0 => OnGrid(backed)
  /\ Waiting => step # 0
  /\ Phase \in {"share", "shareQuery"} => backed + step <= Size
  /\ Shrinking => backed > Prealloc

(* The answer belongs to the last request sent, so an answered queue is    *)
(* empty; an unanswered waiter's request is the last one.                  *)
Awaited ==
  CASE Phase = "share"        -> [op |-> "SHARE",   offset |-> backed]
    [] Phase = "shareQuery"   -> [op |-> "QUERY",   offset |-> backed]
    [] Phase = "unshare"      -> [op |-> "UNSHARE", offset |-> backed - step]
    [] OTHER                  -> [op |-> "QUERY",   offset |-> backed - step]

QueueInv ==
  /\ ~Waiting => reply = "NONE"
  /\ Waiting /\ reply = "NONE" => hostq # <<>> /\ hostq[Len(hostq)] = Awaited
  /\ reply \notin {"NONE", "REFUSED"} => hostq = <<>>
  /\ reply = "REFUSED" => Phase = "unshareQuery" /\ ret # "ETIMEDOUT"
  /\ Phase = "unshare" => reply \notin {"BACKED", "UNBACKED", "REFUSED"}
  /\ Phase = "unshareQuery" => reply \in {"NONE", "REFUSED", "BACKED", "UNBACKED"}
  /\ Phase = "unshareQuery" /\ ret = "ETIMEDOUT" => "UNSHARE" \in LossyOps

(* No UNSHARE outlives the turn of the loop that sent it.                  *)
UnshareInv ==
  \A i \in 1 .. Len(hostq) :
    hostq[i].op = "UNSHARE" =>
      /\ Shrinking
      /\ hostq[i].offset = backed - step
      /\ Phase = "unshare" => i = Len(hostq)
      /\ Phase = "unshareQuery" => ret = "ETIMEDOUT"

(* Where queries are answered, the queue drains between two operations, so *)
(* the reconciling QUERY always finds room.                                *)
DrainInv ==
  Answering =>
    /\ ~Waiting => hostq = <<>>
    /\ Phase \in {"share", "unshare"} => Len(hostq) <= 1
    /\ Len(hostq) <= 2
    /\ reply # "REFUSED"

(* What the host's state says of the boundary and of the step in transit.  *)
HostInv ==
  /\ mapped \subseteq grant
  /\ \/ mapped = grant
     \/ step = 0
     \/ Phase = "unshare" /\ reply = "EUCLEAN"
     \/ Phase = "unshareQuery" /\ ret = "EUCLEAN"
  /\ 0 .. SafeTop - 1 \subseteq mapped
  /\ Phase = "share" /\ reply = "OK" => StepPages(backed) \subseteq mapped
  /\ Phase = "shareQuery" /\ reply = "BACKED" => StepPages(backed) \subseteq mapped
  /\ Phase = "unshare" /\ reply \notin {"OK", "EUCLEAN"}
       => StepPages(backed - step) \subseteq mapped
  /\ Phase = "unshareQuery" /\ ret \notin {"EUCLEAN", "ETIMEDOUT"}
       => StepPages(backed - step) \subseteq mapped
  /\ Phase = "unshareQuery" /\ ret = "ETIMEDOUT" /\ reply = "BACKED"
       => StepPages(backed - step) \subseteq mapped
  /\ Phase = "unshare" /\ reply = "EUCLEAN" => StepPages(backed - step) \subseteq grant
  /\ Phase = "unshareQuery" /\ ret = "EUCLEAN"
       => StepPages(backed - step) \subseteq grant /\ reply # "UNBACKED"

(* The block lists lie below what can be taken away.                       *)
BlockInv == \A b \in Bo : blk[b] \subseteq 0 .. SafeTop - 1

IInv ==
  /\ TypeOK
  /\ LockInv
  /\ GridInv
  /\ QueueInv
  /\ UnshareInv
  /\ DrainInv
  /\ HostInv
  /\ BlockInv

(***************************************************************************)
(* The part of it that needs nothing of the faults: the waiter of an       *)
(* UNSHARE can only read the answer to an UNSHARE, so what shrink_one      *)
(* keeps across its query is an errno.                                     *)
(***************************************************************************)
AskInv ==
  Phase = "unshare" =>
    /\ reply = "NONE" => hostq # <<>> /\ hostq[Len(hostq)].op = "UNSHARE"
    /\ reply \notin {"BACKED", "UNBACKED", "REFUSED"}

CoreInv ==
  /\ TypeOK
  /\ LockInv
  /\ GridInv
  /\ AskInv

(* The pages the host grants end at n.                                     *)
GrantBelow(n) == grant \subseteq 0 .. n - 1

Tight == GrantBelow(backed) \/ (step = 0 /\ GrantBelow(backed + Step))

(* What is granted above the boundary, and which request can change it.    *)
GrantInv ==
  /\ \A i \in 1 .. Len(hostq) :
       hostq[i].op = "SHARE" => Phase \in {"share", "shareQuery"} /\ hostq[i].offset = backed
  /\ ~Waiting => Tight
  /\ Phase = "share" /\ reply # "OK" => GrantBelow(backed)
  /\ Phase \in {"share", "shareQuery"} => GrantBelow(backed + step)
  /\ Phase = "shareQuery" => GrantBelow(backed) \/ StepPages(backed) \subseteq grant
  /\ Phase = "shareQuery" /\ reply \notin {"NONE", "BACKED"} => GrantBelow(backed)
  /\ Shrinking => GrantBelow(backed)
  /\ Phase = "unshare" /\ reply = "OK" => GrantBelow(backed - step)
  /\ Phase = "unshareQuery" =>
       GrantBelow(backed - step) \/ StepPages(backed - step) \subseteq grant
  /\ Phase = "unshareQuery" /\ reply = "UNBACKED" => GrantBelow(backed - step)

(* A retry is armed, under way or about to be armed.                       *)
Retry ==
  \/ armed
  \/ pc[Worker] = "workLock"
  \/ \E p \in Bo \cup {Worker} : pc[p] = "sched"

(* The top step could go back to the host.                                 *)
Idling == pc[Fini] = "none" /\ step # 0 /\ backed > Prealloc /\ SuffixFree

(* Nothing below n serves the request of b.                                *)
NoRoom(b, n) ==
  n < Wanted(b) \/ Carvings(Wanted(b), MinBlockSize(req[b], MaxNents), n) = {}

(* Only a thread that holds its object's blocks has any.                   *)
HoldInv == \A b \in Bo : blk[b] # {} => pc[b] \in {"held", "freeLock", "dead"}

(* Teardown shows where its thread is.                                     *)
FiniInv ==
  /\ ~ready => pc[Fini] = "closed"
  /\ canceling => pc[Fini] = "cancel"

(* Whoever grew the pool had to, so the carving it came for will use the   *)
(* new step; and reclaim knows the errno of a failed UNSHARE.              *)
TopInv ==
  /\ owner = Nobody /\ Idling => Retry
  /\ Phase \in {"alloc", "share", "shareQuery"} => owner \in Bo
  /\ Phase = "alloc" /\ Idling => Retry \/ NoRoom(owner, backed - step)
  /\ Phase \in {"share", "shareQuery"} => NoRoom(owner, backed)
  /\ Phase = "unshare" => reply \in {"NONE", "OK"} \cup HostErrors
  /\ Phase = "unshareQuery" => ret \in HostErrors \cup {"ETIMEDOUT"}
-----------------------------------------------------------------------------
(* Two multiples of the step differ by at least one step. *)
LEMMA GridUp ==
  ASSUME Step \in Nat, NEW n \in Nat, OnGrid(n)
  PROVE  OnGrid(n + Step)
<1>1. PICK k \in Nat : n = k * Step
  BY DEF OnGrid
<1>2. n + Step = (k + 1) * Step
  BY <1>1
<1> QED
  BY <1>2 DEF OnGrid

LEMMA GridDown ==
  ASSUME Step \in Nat, NEW n \in Nat, NEW m \in Nat, OnGrid(n), OnGrid(m), n > m
  PROVE  n - Step >= m /\ OnGrid(n - Step)
<1>1. PICK k \in Nat : n = k * Step
  BY DEF OnGrid
<1>2. PICK j \in Nat : m = j * Step
  BY DEF OnGrid
<1>3. k >= j + 1
  BY <1>1, <1>2
<1>4. PICK d \in Nat : k = j + 1 + d
  <2>1. k - (j + 1) \in Nat /\ k = j + 1 + (k - (j + 1))
    BY <1>3
  <2> QED
    BY <2>1
<1>5. n - Step = (j + d) * Step
  BY <1>1, <1>4
<1>6. (j + d) * Step = j * Step + d * Step
  OBVIOUS
<1>7. d * Step >= 0
  OBVIOUS
<1> QED
  BY <1>2, <1>5, <1>6, <1>7 DEF OnGrid

(* The step and the floor of the device tree are on the grid. *)
LEMMA FloorOnGrid == Step # 0 => OnGrid(Prealloc) /\ OnGrid(Size)
  BY PoolAssumption, SizingAssumption DEF OnGrid

LEMMA InitIInv == Init => IInv
<1> SUFFICES ASSUME Init PROVE IInv
  OBVIOUS
<1> USE PoolAssumption, SizingAssumption
<1>1. TypeOK
  <2>1. ready \in BOOLEAN /\ armed \in BOOLEAN /\ canceling \in BOOLEAN
    BY DEF Init
  <2>2. backed \in 0 .. Size /\ step \in {0, Step} /\ owner \in Proc \cup {Nobody}
    BY DEF Init
  <2>3. blk \in [Bo -> SUBSET Pages] /\ req \in [Bo -> Requests \cup {0}]
    BY DEF Init
  <2>4. pc \in [Proc -> Locked \cup Unlocked]
    BY DEF Init, Unlocked
  <2>5. hostq \in Seq(Message) /\ ret \in Errnos /\ reply \in Replies
    BY DEF Init, Errnos, Replies
  <2>6. grant \subseteq Pages /\ mapped \subseteq Pages
    BY DEF Init, Pages
  <2> QED
    BY <2>1, <2>2, <2>3, <2>4, <2>5, <2>6 DEF TypeOK
<1>2. LockInv
  BY DEF Init, LockInv, Locked
<1>3. GridInv
  BY FloorOnGrid DEF Init, GridInv, Waiting, Phase, Shrinking
<1>4. QueueInv /\ UnshareInv /\ DrainInv
  BY DEF Init, QueueInv, UnshareInv, DrainInv, Waiting, Phase
<1>5. HostInv /\ BlockInv
  BY DEF Init, HostInv, BlockInv, SafeTop, Shrinking, Phase
<1> QED
  BY <1>1, <1>2, <1>3, <1>4, <1>5 DEF IInv
-----------------------------------------------------------------------------
(* A thread that is not past the lock moves on without taking it.          *)
LEMMA OutsideStep ==
  ASSUME IInv, NEW p \in Proc, NEW l \in Unlocked, pc[p] \in Unlocked, Goto(p, l),
         UNCHANGED <<backed, step, blk, owner, ret, hostq, reply, grant, mapped>>,
         req' \in [Bo -> Requests \cup {0}], armed' \in BOOLEAN, canceling' \in BOOLEAN,
         ready' \in BOOLEAN, owner # Nobody => ready' = ready
  PROVE  IInv'
<1>1. TypeOK'
  <2>1. pc' \in [Proc -> Locked \cup Unlocked]
    BY DEF IInv, TypeOK, Goto
  <2> QED
    BY <2>1 DEF IInv, TypeOK
<1>2. owner # Nobody => pc[owner]' = pc[owner]
  BY DEF IInv, TypeOK, LockInv, Goto, Locked, Unlocked
<1>3. LockInv'
  BY <1>2 DEF IInv, TypeOK, LockInv, Goto, Locked, Unlocked
<1>4. Phase' = Phase /\ Shrinking' = Shrinking /\ Waiting' = Waiting
  BY <1>2 DEF Phase, Shrinking, Waiting
<1>5. SafeTop' = SafeTop
  BY <1>4 DEF SafeTop
<1>6. GridInv' /\ QueueInv' /\ UnshareInv' /\ DrainInv'
  <2>1. Awaited' = Awaited
    BY <1>4 DEF Awaited
  <2> QED
    BY <1>4, <2>1 DEF IInv, GridInv, QueueInv, UnshareInv, DrainInv, OnGrid
<1>7. HostInv' /\ BlockInv'
  BY <1>4, <1>5 DEF IInv, HostInv, BlockInv, StepPages
<1> QED
  BY <1>1, <1>3, <1>6, <1>7 DEF IInv

(* The lock changes hands, or its holder moves on, with no request in      *)
(* flight before or after.                                                 *)
LEMMA QuietStep ==
  ASSUME IInv, TypeOK', LockInv', ~Waiting, ~Waiting',
         UNCHANGED <<backed, step, hostq, reply, grant, mapped>>,
         \A b \in Bo : blk'[b] \subseteq 0 .. backed - 1
  PROVE  IInv'
<1>1. ~Shrinking /\ ~Shrinking'
  BY DEF Waiting, Shrinking
<1>2. /\ Phase \notin {"share", "shareQuery", "unshare", "unshareQuery"}
      /\ Phase' \notin {"share", "shareQuery", "unshare", "unshareQuery"}
  BY DEF Waiting, Phase
<1>3. GridInv'
  BY <1>1, <1>2 DEF IInv, GridInv, OnGrid
<1>4. QueueInv' /\ UnshareInv' /\ DrainInv'
  BY <1>1, <1>2 DEF IInv, QueueInv, UnshareInv, DrainInv
<1>5. HostInv' /\ BlockInv'
  BY <1>1, <1>2 DEF IInv, HostInv, BlockInv, SafeTop
<1> QED
  BY <1>3, <1>4, <1>5 DEF IInv
-----------------------------------------------------------------------------
(* What TypeOK says of the processes, without the rest.                    *)
LEMMA ProcTypes ==
  ASSUME TypeOK
  PROVE  /\ pc \in [Proc -> Locked \cup Unlocked]
         /\ owner \in Proc \cup {Nobody}
         /\ Nobody \notin Proc
  BY PoolAssumption DEF TypeOK

(* Taking the lock, without a request in flight.                           *)
LEMMA LockStep ==
  ASSUME IInv, ready, NEW p \in Proc, pc[p] \in Unlocked, NEW l \in {"alloc", "reclaim"},
         Lock(p, l), blk' \in [Bo -> SUBSET Pages],
         \A b \in Bo : blk'[b] \subseteq blk[b],
         UNCHANGED <<ready, backed, step, req, ret, armed, canceling, hostq, reply, grant, mapped>>
  PROVE  IInv'
<1>1. TypeOK'
  <2>1. pc' \in [Proc -> Locked \cup Unlocked] /\ owner' \in Proc \cup {Nobody}
    BY DEF IInv, TypeOK, Lock, Goto, Locked
  <2> QED
    BY <2>1 DEF IInv, TypeOK
<1>2. LockInv'
  BY ProcTypes DEF IInv, LockInv, Lock, Goto, Locked, Unlocked
<1>3. ~Waiting /\ ~Waiting'
  BY ProcTypes DEF IInv, Lock, Goto, Waiting
<1>4. \A b \in Bo : blk'[b] \subseteq 0 .. backed - 1
  BY <1>3 DEF IInv, BlockInv, SafeTop, Shrinking, Waiting
<1> QED
  BY <1>1, <1>2, <1>3, <1>4, QuietStep

(* Dropping the lock, without a request in flight.                         *)
LEMMA UnlockStep ==
  ASSUME IInv, NEW p \in Proc, pc[p] \in {"alloc", "reclaim"}, NEW l \in Unlocked,
         Unlock(p, l), blk' \in [Bo -> SUBSET Pages],
         \A b \in Bo : blk'[b] \subseteq 0 .. backed - 1,
         UNCHANGED <<ready, backed, step, req, ret, armed, canceling, hostq, reply, grant, mapped>>
  PROVE  IInv'
<1>1. TypeOK'
  <2>1. pc' \in [Proc -> Locked \cup Unlocked] /\ owner' \in Proc \cup {Nobody}
    BY DEF IInv, TypeOK, Unlock, Goto
  <2> QED
    BY <2>1 DEF IInv, TypeOK
<1>2. owner = p
  BY DEF IInv, LockInv, Locked
<1>3. LockInv'
  BY <1>2, ProcTypes DEF IInv, LockInv, Unlock, Goto, Locked, Unlocked
<1>4. ~Waiting /\ ~Waiting'
  BY <1>2, ProcTypes DEF IInv, Unlock, Waiting
<1> QED
  BY <1>1, <1>3, <1>4, QuietStep

LEMMA AllocSteps ==
  ASSUME IInv, NEW b \in Bo,
         \/ \E n \in Requests : AllocEnter(b, n)
         \/ AllocLock(b) \/ AllocCarve(b) \/ AllocFail(b)
  PROVE  IInv'
<1> b \in Proc
  BY DEF Proc
<1>1. ASSUME NEW n \in Requests, AllocEnter(b, n) PROVE IInv'
  <2>1. req' \in [Bo -> Requests \cup {0}]
    BY <1>1 DEF AllocEnter, IInv, TypeOK
  <2>2. armed' \in BOOLEAN /\ canceling' \in BOOLEAN /\ ready' \in BOOLEAN
    BY <1>1 DEF AllocEnter, IInv, TypeOK, workVars, poolVars
  <2>3. pc[b] \in Unlocked /\ "allocLock" \in Unlocked
    BY <1>1 DEF AllocEnter, Unlocked
  <2> QED
    BY <1>1, <2>1, <2>2, <2>3, OutsideStep DEF AllocEnter, poolVars, workVars, hostVars
<1>2. CASE AllocLock(b) /\ ready
  <2>1. Lock(b, "alloc")
    BY <1>2 DEF AllocLock
  <2>2. pc[b] \in Unlocked
    BY <1>2 DEF AllocLock, Unlocked
  <2>3. blk' \in [Bo -> SUBSET Pages] /\ \A c \in Bo : blk'[c] \subseteq blk[c]
    BY <1>2 DEF AllocLock, boVars, IInv, TypeOK
  <2> QED
    BY <1>2, <2>1, <2>2, <2>3, LockStep DEF AllocLock, poolVars, boVars, workVars, hostVars
<1>3. CASE AllocLock(b) /\ ~ready
  <2>1. pc[b] \in Unlocked /\ "none" \in Unlocked
    BY <1>3 DEF AllocLock, Unlocked
  <2>2. armed' \in BOOLEAN /\ canceling' \in BOOLEAN /\ ready' \in BOOLEAN
    BY <1>3 DEF AllocLock, IInv, TypeOK, workVars, poolVars
  <2>3. Goto(b, "none") /\ UNCHANGED owner
    BY <1>3 DEF AllocLock
  <2> QED
    BY <1>3, <2>1, <2>2, <2>3, OutsideStep
       DEF AllocLock, poolVars, boVars, workVars, hostVars, IInv, TypeOK
<1>4. CASE AllocCarve(b)
  <2>1. PICK U \in Fits(b) : blk' = [blk EXCEPT ![b] = U]
    BY <1>4 DEF AllocCarve
  <2>2. U \subseteq 0 .. backed - 1 /\ U \subseteq Pages
    BY <2>1 DEF Fits, Carvings, FreePages, Pages, IInv, TypeOK
  <2>3. owner = b
    BY <1>4 DEF AllocCarve, IInv, LockInv, Locked
  <2>4. ~Shrinking
    BY <1>4, <2>3 DEF AllocCarve, Shrinking
  <2>5. \A c \in Bo : blk'[c] \subseteq 0 .. backed - 1
    BY <2>1, <2>2, <2>4 DEF IInv, TypeOK, BlockInv, SafeTop
  <2>6. blk' \in [Bo -> SUBSET Pages]
    BY <2>1, <2>2 DEF IInv, TypeOK
  <2>7. pc[b] \in {"alloc", "reclaim"} /\ "held" \in Unlocked /\ Unlock(b, "held")
    BY <1>4 DEF AllocCarve, Unlocked
  <2> QED
    BY <1>4, <2>5, <2>6, <2>7, UnlockStep DEF AllocCarve, poolVars, workVars, hostVars
<1>5. CASE AllocFail(b)
  <2>1. pc[b] = "alloc" /\ Goto(b, "reclaim") /\ UNCHANGED owner
    BY <1>5 DEF AllocFail
  <2>2. UNCHANGED <<poolVars, boVars, ret, workVars, hostq, reply, hostVars>>
    BY <1>5 DEF AllocFail
  <2>3. owner = b
    BY <2>1 DEF IInv, LockInv, Locked
  <2>4. TypeOK'
    <3>1. pc' \in [Proc -> Locked \cup Unlocked]
      BY <2>1 DEF IInv, TypeOK, Goto, Locked
    <3> QED
      BY <2>1, <2>2, <3>1 DEF IInv, TypeOK, poolVars, boVars, workVars, hostVars
  <2>5. LockInv'
    BY <2>1, <2>2, <2>3, ProcTypes DEF IInv, LockInv, Goto, Locked, poolVars
  <2>6. ~Waiting /\ ~Waiting'
    BY <2>1, <2>3, ProcTypes DEF IInv, Waiting, Goto
  <2>7. \A c \in Bo : blk'[c] \subseteq 0 .. backed - 1
    BY <2>2, <2>6 DEF IInv, BlockInv, SafeTop, Shrinking, Waiting, boVars
  <2> QED
    BY <2>2, <2>4, <2>5, <2>6, <2>7, QuietStep DEF poolVars, hostVars
<1> QED
  BY <1>1, <1>2, <1>3, <1>4, <1>5
-----------------------------------------------------------------------------
InFlight == {"share", "shareQuery", "unshare", "unshareQuery"}

(* The holder of the lock moves from one point to the next.                *)
LEMMA HolderMovesCore ==
  ASSUME TypeOK, LockInv, NEW p \in Proc, pc[p] \in Locked, NEW l \in Locked, Goto(p, l),
         UNCHANGED <<owner, ready>>
  PROVE  /\ owner = p
         /\ pc' \in [Proc -> Locked \cup Unlocked]
         /\ LockInv'
         /\ Phase = pc[p] /\ Phase' = l
         /\ Waiting <=> pc[p] \in InFlight
         /\ Waiting' <=> l \in InFlight
         /\ Shrinking <=> pc[p] \in {"unshare", "unshareQuery"}
         /\ Shrinking' <=> l \in {"unshare", "unshareQuery"}
<1>1. owner = p
  BY DEF LockInv
<1>2. pc' \in [Proc -> Locked \cup Unlocked] /\ pc'[p] = l /\ p # Nobody
  BY ProcTypes DEF Goto
<1>3. LockInv'
  BY <1>1, ProcTypes DEF LockInv, Goto
<1> QED
  BY <1>1, <1>2, <1>3 DEF Phase, Waiting, Shrinking, InFlight

LEMMA HolderMoves ==
  ASSUME IInv, NEW p \in Proc, pc[p] \in Locked, NEW l \in Locked, Goto(p, l),
         UNCHANGED <<owner, ready>>
  PROVE  /\ owner = p
         /\ pc' \in [Proc -> Locked \cup Unlocked]
         /\ LockInv'
         /\ Phase = pc[p] /\ Phase' = l
         /\ Waiting <=> pc[p] \in InFlight
         /\ Waiting' <=> l \in InFlight
         /\ Shrinking <=> pc[p] \in {"unshare", "unshareQuery"}
         /\ Shrinking' <=> l \in {"unshare", "unshareQuery"}
  BY HolderMovesCore DEF IInv

(* Numbers: the boundary, the step and one step more or less.              *)
LEMMA BoundaryCore ==
  ASSUME TypeOK, GridInv
  PROVE  /\ Size \in Nat /\ Step \in Nat /\ Prealloc \in Nat /\ backed \in Nat
         /\ Prealloc <= backed /\ backed <= Size /\ Step <= Size
         /\ step \in {0, Step}
         /\ step # 0 /\ backed > Prealloc =>
              backed - step >= Prealloc /\ backed - step \in Nat /\ OnGrid(backed - step)
         /\ step # 0 /\ backed < Size => backed + step <= Size
         /\ step # 0 => OnGrid(backed + step)
<1>1. /\ Size \in Nat /\ Step \in Nat /\ Prealloc \in Nat /\ backed \in Nat
      /\ Prealloc <= backed /\ backed <= Size /\ Step <= Size /\ step \in {0, Step}
  BY PoolAssumption, SizingAssumption DEF TypeOK, GridInv
<1>2. ASSUME step # 0 PROVE Step # 0 /\ OnGrid(backed) /\ OnGrid(Prealloc) /\ OnGrid(Size)
  BY <1>1, <1>2, FloorOnGrid DEF GridInv
<1>3. ASSUME step # 0, backed > Prealloc
      PROVE  backed - step >= Prealloc /\ backed - step \in Nat /\ OnGrid(backed - step)
  <2>1. backed - Step >= Prealloc /\ OnGrid(backed - Step)
    BY <1>1, <1>2, <1>3, GridDown
  <2> QED
    BY <1>1, <1>3, <2>1
<1>4. ASSUME step # 0, backed < Size PROVE backed + step <= Size
  <2>1. Size - Step >= backed
    BY <1>1, <1>2, <1>4, GridDown
  <2> QED
    BY <1>1, <1>4, <2>1
<1>5. ASSUME step # 0 PROVE OnGrid(backed + step)
  BY <1>1, <1>2, <1>5, GridUp
<1> QED
  BY <1>1, <1>3, <1>4, <1>5

LEMMA BoundaryFacts ==
  ASSUME IInv
  PROVE  /\ Size \in Nat /\ Step \in Nat /\ Prealloc \in Nat /\ backed \in Nat
         /\ Prealloc <= backed /\ backed <= Size /\ Step <= Size
         /\ step \in {0, Step}
         /\ step # 0 /\ backed > Prealloc =>
              backed - step >= Prealloc /\ backed - step \in Nat /\ OnGrid(backed - step)
         /\ step # 0 /\ backed < Size => backed + step <= Size
         /\ step # 0 => OnGrid(backed + step)
  BY BoundaryCore DEF IInv

(* A request goes on the queue: what the queue looks like afterwards.      *)
LEMMA SendQueue ==
  ASSUME hostq \in Seq(Message), NEW m \in Message, hostq' = Append(hostq, m)
  PROVE  /\ hostq' \in Seq(Message)
         /\ Len(hostq') = Len(hostq) + 1
         /\ Len(hostq) \in Nat
         /\ hostq' # <<>>
         /\ hostq'[Len(hostq')] = m
         /\ \A i \in 1 .. Len(hostq) : hostq'[i] = hostq[i]
  OBVIOUS

(* SHARE is sent.                                                          *)
LEMMA GrowStep ==
  ASSUME IInv, NEW b \in Bo, AllocGrow(b)
  PROVE  IInv'
<1> DEFINE m == [op |-> "SHARE", offset |-> backed]
<1>1. /\ b \in Proc /\ pc[b] = "alloc" /\ Goto(b, "share") /\ step # 0
      /\ backed < Size /\ reply' = "NONE"
      /\ hostq' = Append(hostq, m)
      /\ UNCHANGED <<ready, backed, step, blk, req, owner, ret, armed, canceling, grant, mapped>>
  BY DEF AllocGrow, Send, CanGrow, Proc, poolVars, boVars, workVars, hostVars
<1>2. /\ LockInv' /\ pc' \in [Proc -> Locked \cup Unlocked]
      /\ Phase = "alloc" /\ Phase' = "share"
      /\ ~Waiting /\ Waiting' /\ ~Shrinking /\ ~Shrinking'
  BY <1>1, HolderMoves DEF Locked, InFlight
<1>3. backed + step <= Size /\ step = Step /\ m \in Message
  BY <1>1, BoundaryFacts DEF Message, Ops
<1>4. /\ hostq' \in Seq(Message) /\ Len(hostq') = Len(hostq) + 1 /\ Len(hostq) \in Nat
      /\ hostq' # <<>> /\ hostq'[Len(hostq')] = m
      /\ \A i \in 1 .. Len(hostq) : hostq'[i] = hostq[i]
  BY <1>1, <1>3, SendQueue DEF IInv, TypeOK
<1>5. TypeOK'
  BY <1>1, <1>2, <1>4 DEF IInv, TypeOK, Replies
<1>6. GridInv'
  BY <1>1, <1>2, <1>3 DEF IInv, GridInv, OnGrid
<1>7. QueueInv'
  BY <1>1, <1>2, <1>4 DEF QueueInv, Awaited
<1>8. UnshareInv'
  BY <1>1, <1>2, <1>4 DEF IInv, UnshareInv
<1>9. DrainInv'
  BY <1>1, <1>2, <1>4 DEF IInv, DrainInv
<1>10. HostInv' /\ BlockInv'
  BY <1>1, <1>2 DEF IInv, HostInv, BlockInv, SafeTop
<1> QED
  BY <1>2, <1>5, <1>6, <1>7, <1>8, <1>9, <1>10 DEF IInv
(* The lock holder stops waiting and no longer shrinks; the boundary may   *)
(* have moved up over a step the host confirmed.                           *)
LEMMA SettleStep ==
  ASSUME IInv, NEW p \in Proc, pc[p] \in Locked, NEW l \in {"alloc", "reclaim"}, Goto(p, l),
         reply' = "NONE", ~Shrinking,
         Answering => hostq = <<>>,
         \/ backed' = backed
         \/ backed' = backed + step /\ backed + step <= Size /\ step # 0
               /\ StepPages(backed) \subseteq mapped,
         UNCHANGED <<ready, step, blk, req, owner, ret, armed, canceling, hostq, grant, mapped>>
  PROVE  IInv'
<1>1. /\ LockInv' /\ pc' \in [Proc -> Locked \cup Unlocked]
      /\ Phase' = l /\ ~Waiting' /\ ~Shrinking'
  BY HolderMoves DEF Locked, InFlight
<1>2. backed' \in 0 .. Size /\ backed <= backed' /\ Prealloc <= backed' /\ backed \in Nat
  BY BoundaryFacts
<1>3. TypeOK'
  BY <1>1, <1>2 DEF IInv, TypeOK, Replies
<1>4. GridInv'
  <2>1. Step # 0 => OnGrid(backed')
    BY BoundaryFacts DEF IInv, GridInv
  <2>2. Step # 0 => OnGrid(backed)'
    BY <2>1 DEF OnGrid
  <2> QED
    BY <1>1, <1>2, <2>2 DEF GridInv
<1>5. QueueInv' /\ DrainInv'
  BY <1>1 DEF IInv, QueueInv, DrainInv
<1>6. UnshareInv'
  BY <1>1 DEF IInv, UnshareInv
<1>7. 0 .. backed' - 1 \subseteq mapped
  <2>1. 0 .. backed - 1 \subseteq mapped
    BY DEF IInv, HostInv, SafeTop
  <2>2. CASE backed' = backed
    BY <2>1, <2>2
  <2>3. CASE backed' = backed + step /\ step # 0 /\ StepPages(backed) \subseteq mapped
    BY <2>1, <2>3, BoundaryFacts DEF StepPages
  <2> QED
    BY <2>2, <2>3
<1>8. mapped = grant \/ step = 0 \/ Phase \in {"unshare", "unshareQuery"}
  BY DEF IInv, HostInv
<1>9. Phase \notin {"unshare", "unshareQuery"}
  BY HolderMoves DEF Shrinking, Phase
<1>10. HostInv'
  BY <1>1, <1>7, <1>8, <1>9 DEF IInv, HostInv, SafeTop
<1>11. BlockInv'
  BY <1>1, <1>2 DEF IInv, BlockInv, SafeTop
<1> QED
  BY <1>1, <1>3, <1>4, <1>5, <1>6, <1>10, <1>11 DEF IInv

LEMMA ShareDoneStep ==
  ASSUME IInv, NEW b \in Bo, ShareDone(b)
  PROVE  IInv'
<1>1. /\ b \in Proc /\ pc[b] = "share" /\ pc[b] \in Locked /\ reply # "NONE" /\ reply' = "NONE"
      /\ UNCHANGED <<ready, step, blk, req, owner, ret, armed, canceling, hostq, grant, mapped>>
      /\ \/ reply = "OK" /\ backed' = backed + step /\ Goto(b, "alloc")
         \/ reply # "OK" /\ backed' = backed /\ Goto(b, "reclaim")
  BY DEF ShareDone, Answered, Proc, Locked, boVars, workVars, hostVars
<1>2. owner = b /\ b # Nobody
  BY <1>1, ProcTypes DEF IInv, LockInv
<1>3. Phase = "share" /\ Waiting /\ ~Shrinking
  BY <1>1, <1>2 DEF Phase, Waiting, Shrinking
<1>4. hostq = <<>> /\ step # 0 /\ backed + step <= Size
  BY <1>1, <1>3 DEF IInv, QueueInv, GridInv
<1>5. reply = "OK" => StepPages(backed) \subseteq mapped
  BY <1>3 DEF IInv, HostInv
<1> QED
  BY <1>1, <1>3, <1>4, <1>5, SettleStep

LEMMA ShareReconciledStep ==
  ASSUME IInv, Recoverable, NEW b \in Bo, ShareReconciled(b)
  PROVE  IInv'
<1>1. /\ b \in Proc /\ pc[b] = "shareQuery" /\ pc[b] \in Locked /\ reply' = "NONE"
      /\ reply # "NONE" \/ "QUERY" \in LossyOps
      /\ UNCHANGED <<ready, step, blk, req, owner, ret, armed, canceling, hostq, grant, mapped>>
      /\ \/ reply = "BACKED" /\ backed' = backed + step /\ Goto(b, "alloc")
         \/ reply # "BACKED" /\ backed' = backed /\ Goto(b, "reclaim")
  BY DEF ShareReconciled, Answered, WaitExpires, Proc, Locked, boVars, workVars, hostVars
<1>2. owner = b /\ b # Nobody
  BY <1>1, ProcTypes DEF IInv, LockInv
<1>3. Phase = "shareQuery" /\ Waiting /\ ~Shrinking
  BY <1>1, <1>2 DEF Phase, Waiting, Shrinking
<1>4. step # 0 /\ backed + step <= Size
  BY <1>3 DEF IInv, GridInv
<1>5. Answering => hostq = <<>>
  BY <1>1, <1>3 DEF IInv, QueueInv, Answering
<1>6. reply = "BACKED" => StepPages(backed) \subseteq mapped
  BY <1>3 DEF IInv, HostInv
<1> QED
  BY <1>1, <1>3, <1>4, <1>5, <1>6, SettleStep

LEMMA ShareUnknownStep ==
  ASSUME IInv, Recoverable, NEW b \in Bo, ShareUnknown(b)
  PROVE  IInv'
<1> DEFINE m == [op |-> "QUERY", offset |-> backed]
<1>1. /\ b \in Proc /\ pc[b] = "share" /\ pc[b] \in Locked /\ reply' = "NONE"
      /\ UNCHANGED <<ready, backed, step, blk, req, owner, ret, armed, canceling, grant, mapped>>
      /\ \/ hostq' = Append(hostq, m) /\ Goto(b, "shareQuery")
         \/ hostq' = hostq /\ Goto(b, "reclaim") /\ Refused("QUERY")
  BY DEF ShareUnknown, Send, Proc, Locked, poolVars, boVars, workVars, hostVars
<1>2. owner = b /\ b # Nobody
  BY <1>1, ProcTypes DEF IInv, LockInv
<1>3. Phase = "share" /\ Waiting /\ ~Shrinking
  BY <1>1, <1>2 DEF Phase, Waiting, Shrinking
<1>4. step # 0 /\ backed + step <= Size /\ step = Step /\ m \in Message
  BY <1>3, BoundaryFacts DEF IInv, GridInv, Message, Ops
<1>5. CASE hostq' = hostq /\ Goto(b, "reclaim") /\ Refused("QUERY")
  <2>1. ~Answering
    BY <1>3, <1>5, PoolAssumption DEF IInv, DrainInv, Refused, Answering, TypeOK
  <2> QED
    BY <1>1, <1>3, <1>5, <2>1, SettleStep
<1>6. CASE hostq' = Append(hostq, m) /\ Goto(b, "shareQuery")
  <2>1. /\ LockInv' /\ pc' \in [Proc -> Locked \cup Unlocked]
        /\ Phase' = "shareQuery" /\ Waiting' /\ ~Shrinking'
    BY <1>1, <1>6, HolderMoves DEF Locked, InFlight
  <2>2. /\ hostq' \in Seq(Message) /\ Len(hostq') = Len(hostq) + 1 /\ Len(hostq) \in Nat
        /\ hostq' # <<>> /\ hostq'[Len(hostq')] = m
        /\ \A i \in 1 .. Len(hostq) : hostq'[i] = hostq[i]
    BY <1>4, <1>6, SendQueue DEF IInv, TypeOK
  <2>3. TypeOK'
    BY <1>1, <2>1, <2>2 DEF IInv, TypeOK, Replies
  <2>4. GridInv'
    BY <1>1, <1>4, <2>1 DEF IInv, GridInv, OnGrid
  <2>5. QueueInv'
    BY <1>1, <2>1, <2>2 DEF QueueInv, Awaited
  <2>6. UnshareInv'
    BY <1>1, <1>3, <2>1, <2>2 DEF IInv, UnshareInv
  <2>7. DrainInv'
    BY <1>1, <1>3, <2>1, <2>2 DEF IInv, DrainInv
  <2>8. HostInv' /\ BlockInv'
    BY <1>1, <1>3, <2>1 DEF IInv, HostInv, BlockInv, SafeTop
  <2> QED
    BY <2>1, <2>3, <2>4, <2>5, <2>6, <2>7, <2>8 DEF IInv
<1> QED
  BY <1>1, <1>5, <1>6
-----------------------------------------------------------------------------
(* The probe found the top step free, so no block list reaches into it.    *)
LEMMA ReclaimUnshareStep ==
  ASSUME IInv, NEW p \in Proc, ReclaimUnshare(p)
  PROVE  IInv'
<1> DEFINE m == [op |-> "UNSHARE", offset |-> backed - step]
<1>1. /\ pc[p] = "reclaim" /\ Goto(p, "unshare") /\ step # 0 /\ backed > Prealloc
      /\ SuffixFree /\ reply' = "NONE" /\ hostq' = Append(hostq, m)
      /\ UNCHANGED <<ready, backed, step, blk, req, owner, ret, armed, canceling, grant, mapped>>
  BY DEF ReclaimUnshare, StepFree, Send, poolVars, boVars, workVars, hostVars
<1>2. /\ LockInv' /\ pc' \in [Proc -> Locked \cup Unlocked]
      /\ Phase = "reclaim" /\ Phase' = "unshare"
      /\ ~Waiting /\ Waiting' /\ ~Shrinking /\ Shrinking'
  BY <1>1, HolderMoves DEF Locked, InFlight
<1>3. /\ backed - step >= Prealloc /\ backed - step \in Nat /\ step = Step
      /\ backed \in Nat /\ Step \in Nat /\ backed <= Size /\ Size \in Nat
  BY <1>1, BoundaryFacts
<1>4. m \in Message
  BY <1>3 DEF Message, Ops
<1>5. /\ hostq' \in Seq(Message) /\ Len(hostq') = Len(hostq) + 1 /\ Len(hostq) \in Nat
      /\ hostq' # <<>> /\ hostq'[Len(hostq')] = m
      /\ \A i \in 1 .. Len(hostq) : hostq'[i] = hostq[i]
  BY <1>1, <1>4, SendQueue DEF IInv, TypeOK
<1>6. TypeOK'
  BY <1>1, <1>2, <1>5 DEF IInv, TypeOK, Replies
<1>7. GridInv'
  BY <1>1, <1>2 DEF IInv, GridInv, OnGrid
<1>8. QueueInv'
  BY <1>1, <1>2, <1>5 DEF QueueInv, Awaited
<1>9. UnshareInv'
  <2>1. \A i \in 1 .. Len(hostq) : hostq[i].op # "UNSHARE"
    BY <1>2 DEF IInv, UnshareInv
  <2> QED
    BY <1>1, <1>2, <1>5, <2>1 DEF UnshareInv
<1>10. DrainInv'
  BY <1>1, <1>2, <1>5 DEF IInv, DrainInv
<1>11. HostInv'
  <2>1. 0 .. backed - 1 \subseteq mapped /\ mapped \subseteq grant
    BY <1>2 DEF IInv, HostInv, SafeTop
  <2>2. mapped = grant
    BY <1>1, <1>2 DEF IInv, HostInv
  <2>3. 0 .. (backed - step) - 1 \subseteq mapped /\ StepPages(backed - step) \subseteq mapped
    BY <1>3, <2>1 DEF StepPages
  <2> QED
    BY <1>1, <1>2, <2>1, <2>2, <2>3 DEF HostInv, SafeTop, StepPages
<1>12. BlockInv'
  <2>1. \A b \in Bo : blk[b] \subseteq 0 .. backed - 1
    BY <1>2 DEF IInv, BlockInv, SafeTop
  <2>2. \A b \in Bo : blk[b] \cap StepPages(backed - step) = {}
    BY <1>1 DEF SuffixFree, FreePages
  <2>3. \A b \in Bo : blk[b] \subseteq 0 .. (backed - step) - 1
    BY <1>3, <2>1, <2>2 DEF StepPages
  <2> QED
    BY <1>1, <1>2, <2>3 DEF BlockInv, SafeTop
<1> QED
  BY <1>2, <1>6, <1>7, <1>8, <1>9, <1>10, <1>11, <1>12 DEF IInv

(* The boundary comes down by the step in transit; growth may be disabled. *)
LEMMA LowerStep ==
  ASSUME IInv, NEW p \in Proc, pc[p] \in {"unshare", "unshareQuery"}, Goto(p, "reclaim"),
         reply' = "NONE", backed' = backed - step, step' \in {0, step},
         hostq' = hostq, \A i \in 1 .. Len(hostq) : hostq[i].op # "UNSHARE",
         Answering => hostq = <<>>,
         mapped = grant \/ step' = 0,
         UNCHANGED <<ready, blk, req, owner, ret, armed, canceling, grant, mapped>>
  PROVE  IInv'
<1>1. /\ LockInv' /\ pc' \in [Proc -> Locked \cup Unlocked] /\ Phase = pc[p]
      /\ Phase' = "reclaim" /\ Waiting /\ ~Waiting' /\ Shrinking /\ ~Shrinking'
  BY HolderMoves DEF Locked, InFlight
<1>2. /\ step # 0 /\ step = Step /\ backed - step >= Prealloc /\ backed - step \in Nat
      /\ OnGrid(backed - step) /\ backed - step <= Size
  BY <1>1, BoundaryFacts DEF IInv, GridInv
<1>3. TypeOK'
  <2>1. backed' \in 0 .. Size /\ step' \in {0, Step}
    BY <1>2, BoundaryFacts
  <2> QED
    BY <1>1, <2>1 DEF IInv, TypeOK, Replies
<1>4. GridInv'
  <2>1. OnGrid(backed)'
    BY <1>2 DEF OnGrid
  <2> QED
    BY <1>1, <1>2, <2>1 DEF GridInv
<1>5. QueueInv' /\ DrainInv' /\ UnshareInv'
  BY <1>1 DEF IInv, QueueInv, DrainInv, UnshareInv
<1>6. HostInv' /\ BlockInv'
  BY <1>1 DEF IInv, HostInv, BlockInv, SafeTop
<1> QED
  BY <1>1, <1>3, <1>4, <1>5, <1>6 DEF IInv

LEMMA UnshareDoneStep ==
  ASSUME IInv, NEW p \in Proc, UnshareDone(p)
  PROVE  IInv'
<1>1. /\ pc[p] = "unshare" /\ reply = "OK" /\ reply' = "NONE" /\ Goto(p, "reclaim")
      /\ backed' = backed - step
      /\ UNCHANGED <<ready, step, blk, req, owner, ret, armed, canceling, hostq, grant, mapped>>
  BY DEF UnshareDone, boVars, workVars, hostVars
<1>2. Phase = "unshare"
  BY <1>1, ProcTypes DEF IInv, LockInv, Locked, Phase
<1>3. hostq = <<>>
  BY <1>1 DEF IInv, QueueInv
<1>4. mapped = grant \/ step = 0
  BY <1>1, <1>2 DEF IInv, HostInv
<1> QED
  BY <1>1, <1>3, <1>4, LowerStep

LEMMA UnshareReconciledStep ==
  ASSUME IInv, Recoverable, NEW p \in Proc, UnshareReconciled(p)
  PROVE  IInv'
<1>1. /\ pc[p] = "unshareQuery" /\ pc[p] \in Locked /\ reply' = "NONE"
      /\ reply # "NONE" \/ "QUERY" \in LossyOps
      /\ UNCHANGED <<ready, blk, req, ret, armed, canceling, hostq, grant, mapped>>
  BY DEF UnshareReconciled, Answered, WaitExpires, Locked, boVars, workVars, hostVars
<1>2. owner = p /\ p # Nobody
  BY <1>1, ProcTypes DEF IInv, LockInv
<1>3. Phase = "unshareQuery" /\ Waiting /\ Shrinking
  BY <1>1, <1>2 DEF Phase, Waiting, Shrinking
<1>4. reply \notin {"NONE", "REFUSED"} => hostq = <<>>
  BY DEF IInv, QueueInv
<1>5. ret = "ETIMEDOUT" => hostq = <<>> /\ reply \notin {"NONE", "REFUSED"}
  BY <1>1, <1>3, <1>4 DEF IInv, QueueInv, Recoverable
<1>6. \A i \in 1 .. Len(hostq) : hostq[i].op # "UNSHARE"
  BY <1>3, <1>5 DEF IInv, UnshareInv
<1>7. Answering => hostq = <<>>
  BY <1>1, <1>4 DEF IInv, DrainInv, Answering
<1>8. CASE reply = "UNBACKED"
  <2>1. backed' = backed - step /\ Goto(p, "reclaim") /\ UNCHANGED <<step, owner>>
    BY <1>8 DEF UnshareReconciled
  <2>2. mapped = grant \/ step = 0
    BY <1>3, <1>8 DEF IInv, HostInv, QueueInv
  <2> QED
    BY <1>1, <1>6, <1>7, <2>1, <2>2, LowerStep
<1>9. CASE reply # "UNBACKED" /\ ret = "EUCLEAN"
  <2>1. backed' = backed - step /\ step' = 0 /\ Goto(p, "reclaim") /\ UNCHANGED owner
    BY <1>9 DEF UnshareReconciled
  <2> QED
    BY <1>1, <1>6, <1>7, <2>1, LowerStep
<1>10. CASE reply # "UNBACKED" /\ ret # "EUCLEAN"
  <2>1. PICK l \in {"sched", "none"} : Unlock(p, l)
    BY <1>10 DEF UnshareReconciled
  <2>2. UNCHANGED <<backed, step>>
    BY <1>10 DEF UnshareReconciled
  <2>3. /\ owner' = Nobody /\ pc' = [pc EXCEPT ![p] = l] /\ l \in Unlocked
    BY <2>1 DEF Unlock, Goto, Unlocked
  <2>4. pc' \in [Proc -> Locked \cup Unlocked]
    BY <2>3 DEF IInv, TypeOK
  <2>5. TypeOK'
    BY <1>1, <2>2, <2>3, <2>4 DEF IInv, TypeOK, Replies
  <2>6. LockInv'
    BY <1>2, <2>3, ProcTypes DEF IInv, LockInv, Locked, Unlocked
  <2>7. Phase' = "free" /\ ~Waiting' /\ ~Shrinking'
    BY <2>3 DEF Phase, Waiting, Shrinking
  <2>8. GridInv'
    BY <2>2, <2>7 DEF IInv, GridInv, OnGrid
  <2>9. QueueInv' /\ UnshareInv' /\ DrainInv'
    BY <1>1, <1>6, <1>7, <2>7 DEF IInv, QueueInv, UnshareInv, DrainInv
  <2>10. StepPages(backed - step) \subseteq mapped
    BY <1>3, <1>5, <1>10 DEF IInv, HostInv, QueueInv
  <2>11. 0 .. backed - 1 \subseteq mapped /\ 0 .. (backed - step) - 1 \subseteq 0 .. backed - 1
    <3>1. 0 .. (backed - step) - 1 \subseteq mapped
      BY <1>3 DEF IInv, HostInv, SafeTop
    <3>2. backed \in Nat /\ step \in Nat /\ step = Step
      BY <1>3, BoundaryFacts DEF IInv, GridInv
    <3> QED
      BY <2>10, <3>1, <3>2 DEF StepPages
  <2>12. HostInv'
    BY <1>1, <1>3, <1>10, <2>2, <2>7, <2>11 DEF IInv, HostInv, SafeTop
  <2>13. BlockInv'
    BY <1>1, <1>3, <2>2, <2>7, <2>11 DEF IInv, BlockInv, SafeTop
  <2> QED
    BY <2>5, <2>6, <2>8, <2>9, <2>12, <2>13 DEF IInv
<1> QED
  BY <1>8, <1>9, <1>10

LEMMA UnshareUnknownStep ==
  ASSUME IInv, Recoverable, NEW p \in Proc, UnshareUnknown(p)
  PROVE  IInv'
<1> DEFINE m == [op |-> "QUERY", offset |-> backed - step]
<1>1. /\ pc[p] \in {"unshare", "reclaim"} /\ Goto(p, "unshareQuery")
      /\ UNCHANGED <<ready, backed, step, blk, req, owner, armed, canceling, grant, mapped>>
      /\ \/ hostq' = Append(hostq, m) /\ reply' = "NONE"
         \/ hostq' = hostq /\ reply' = "REFUSED" /\ Refused("QUERY")
  BY DEF UnshareUnknown, Send, poolVars, boVars, workVars, hostVars
<1>2. \/ /\ pc[p] = "unshare" /\ reply \notin {"NONE", "OK"} /\ ret' = reply
      \/ /\ pc[p] = "unshare" /\ reply = "NONE" /\ ret' = "ETIMEDOUT" /\ "UNSHARE" \in LossyOps
      \/ /\ pc[p] = "reclaim" /\ StepFree /\ ret' = "EFAIL"
  BY DEF UnshareUnknown, Answered, WaitExpires
<1>3. /\ owner = p /\ LockInv' /\ pc' \in [Proc -> Locked \cup Unlocked]
      /\ Phase = pc[p] /\ Phase' = "unshareQuery" /\ Waiting' /\ Shrinking'
      /\ Waiting <=> pc[p] = "unshare"
      /\ Shrinking <=> pc[p] = "unshare"
  BY <1>1, HolderMoves DEF Locked, InFlight
<1>4. step # 0 /\ backed > Prealloc
  BY <1>2, <1>3 DEF IInv, GridInv, StepFree
<1>5. /\ backed - step >= Prealloc /\ backed - step \in Nat /\ step = Step
      /\ backed \in Nat /\ Step \in Nat /\ backed <= Size /\ Size \in Nat
  BY <1>4, BoundaryFacts
<1>6. m \in Message
  BY <1>5 DEF Message, Ops
<1>7. hostq \in Seq(Message) /\ Len(hostq) \in Nat
  BY DEF IInv, TypeOK
<1>8. \/ /\ hostq' \in Seq(Message) /\ Len(hostq') = Len(hostq) + 1 /\ reply' = "NONE"
         /\ hostq' # <<>> /\ hostq'[Len(hostq')] = m
         /\ \A i \in 1 .. Len(hostq) : hostq'[i] = hostq[i]
      \/ hostq' = hostq /\ reply' = "REFUSED" /\ Refused("QUERY")
  BY <1>1, <1>6, <1>7, SendQueue
<1>9. ret' \in Errnos
  BY <1>2, <1>3 DEF IInv, TypeOK, QueueInv, Errnos, Replies
<1>10. TypeOK'
  BY <1>1, <1>3, <1>7, <1>8, <1>9 DEF IInv, TypeOK, Replies
<1>11. GridInv'
  BY <1>1, <1>3, <1>4 DEF IInv, GridInv, OnGrid
<1>12. Answering => ~Refused("QUERY") /\ Len(hostq) <= 1
  BY <1>1, <1>3, <1>7, PoolAssumption DEF IInv, DrainInv, Answering, Refused
<1>13. DrainInv'
  BY <1>3, <1>7, <1>8, <1>12 DEF DrainInv
<1>14. QueueInv'
  <2>1. Awaited' = m
    BY <1>1, <1>3 DEF Awaited
  <2>2. ret' = "ETIMEDOUT" => "UNSHARE" \in LossyOps /\ Answering
    BY <1>2, <1>3 DEF IInv, QueueInv, TypeOK, Replies, Recoverable, Answering
  <2> QED
    BY <1>3, <1>8, <1>12, <2>1, <2>2 DEF QueueInv
<1>15. UnshareInv'
  <2>1. \A i \in 1 .. Len(hostq) : hostq[i].op = "UNSHARE" =>
          ret' = "ETIMEDOUT" /\ hostq[i].offset = backed - step
    BY <1>2, <1>3, <1>7 DEF IInv, UnshareInv, QueueInv
  <2> QED
    BY <1>1, <1>3, <1>7, <1>8, <2>1 DEF UnshareInv
<1>16. HostInv'
  <2>1. 0 .. (backed - step) - 1 \subseteq mapped /\ mapped \subseteq grant
    BY <1>3, <1>5 DEF IInv, HostInv, SafeTop
  <2>2. mapped = grant \/ ret' = "EUCLEAN"
    BY <1>2, <1>3, <1>4 DEF IInv, HostInv
  <2>3. ret' # "EUCLEAN" => StepPages(backed - step) \subseteq mapped
    <3>1. CASE pc[p] = "unshare"
      BY <1>2, <1>3, <3>1 DEF IInv, HostInv, QueueInv
    <3>2. CASE pc[p] = "reclaim"
      BY <1>3, <1>5, <3>2 DEF IInv, HostInv, SafeTop, StepPages
    <3> QED
      BY <1>1, <3>1, <3>2
  <2>4. ret' = "EUCLEAN" => StepPages(backed - step) \subseteq grant
    BY <1>2, <1>3 DEF IInv, HostInv
  <2> QED
    BY <1>1, <1>3, <1>8, <2>1, <2>2, <2>3, <2>4 DEF HostInv, SafeTop, StepPages
<1>17. BlockInv'
  <2>1. CASE pc[p] = "unshare"
    BY <1>1, <1>3, <2>1 DEF IInv, BlockInv, SafeTop
  <2>2. CASE pc[p] = "reclaim"
    <3>1. \A b \in Bo : blk[b] \subseteq 0 .. backed - 1
      BY <1>3, <2>2 DEF IInv, BlockInv, SafeTop
    <3>2. \A b \in Bo : blk[b] \cap StepPages(backed - step) = {}
      BY <1>2, <2>2 DEF StepFree, SuffixFree, FreePages
    <3>3. \A b \in Bo : blk[b] \subseteq 0 .. (backed - step) - 1
      BY <1>5, <3>1, <3>2 DEF StepPages
    <3> QED
      BY <1>1, <1>3, <3>3 DEF BlockInv, SafeTop
  <2> QED
    BY <1>1, <2>1, <2>2
<1> QED
  BY <1>3, <1>10, <1>11, <1>13, <1>14, <1>15, <1>16, <1>17 DEF IInv
(* The other steps of free, reclaim, the work and teardown.                *)
LEMMA ReclaimDoneStep ==
  ASSUME IInv, NEW p \in Proc, ReclaimDone(p)
  PROVE  IInv'
<1>1. pc[p] = "reclaim" /\ Unlock(p, "none") /\ "none" \in Unlocked /\ pc[p] \in {"alloc", "reclaim"}
  BY DEF ReclaimDone, Unlocked
<1>2. owner = p /\ ~Shrinking
  BY <1>1 DEF IInv, LockInv, Locked, Shrinking
<1>3. blk' \in [Bo -> SUBSET Pages] /\ \A b \in Bo : blk'[b] \subseteq 0 .. backed - 1
  BY <1>2 DEF ReclaimDone, boVars, IInv, TypeOK, BlockInv, SafeTop
<1> QED
  BY <1>1, <1>3, UnlockStep DEF ReclaimDone, poolVars, boVars, workVars, hostVars

LEMMA FreeSteps ==
  ASSUME IInv, NEW b \in Bo, FreeNext(b)
  PROVE  IInv'
<1>1. b \in Proc
  BY DEF Proc
<1>2. ready \in BOOLEAN /\ armed \in BOOLEAN /\ canceling \in BOOLEAN
  BY DEF IInv, TypeOK
<1>3. CASE FreeEnter(b)
  <2>1. PICK l \in Unlocked : Goto(b, l)
    BY <1>3 DEF FreeEnter, Unlocked
  <2>2. pc[b] \in Unlocked
    BY <1>3 DEF FreeEnter, Unlocked
  <2>3. UNCHANGED <<ready, armed, canceling, req>>
    BY <1>3 DEF FreeEnter, poolVars, boVars, workVars
  <2>4. req' \in [Bo -> Requests \cup {0}]
    BY <2>3 DEF IInv, TypeOK
  <2> QED
    BY <1>1, <1>2, <1>3, <2>1, <2>2, <2>3, <2>4, OutsideStep
       DEF FreeEnter, poolVars, boVars, workVars, hostVars
<1>4. CASE FreeLock(b) /\ ready
  <2>1. Lock(b, "reclaim") /\ blk' = [blk EXCEPT ![b] = {}]
    BY <1>4 DEF FreeLock
  <2>2. pc[b] \in Unlocked
    BY <1>4 DEF FreeLock, Unlocked
  <2>3. blk' \in [Bo -> SUBSET Pages] /\ \A c \in Bo : blk'[c] \subseteq blk[c]
    BY <2>1 DEF IInv, TypeOK
  <2> QED
    BY <1>1, <1>4, <2>1, <2>2, <2>3, LockStep DEF FreeLock, poolVars, workVars, hostVars
<1>5. CASE FreeLock(b) /\ ~ready
  <2>1. Goto(b, "dead") /\ UNCHANGED <<owner, blk>> /\ "dead" \in Unlocked /\ pc[b] \in Unlocked
    BY <1>5 DEF FreeLock, Unlocked
  <2>2. UNCHANGED <<ready, armed, canceling, req>>
    BY <1>5 DEF FreeLock, poolVars, workVars
  <2>3. req' \in [Bo -> Requests \cup {0}]
    BY <2>2 DEF IInv, TypeOK
  <2> QED
    BY <1>1, <1>2, <1>5, <2>1, <2>2, <2>3, OutsideStep
       DEF FreeLock, poolVars, workVars, hostVars
<1> QED
  BY <1>3, <1>4, <1>5 DEF FreeNext

LEMMA ScheduleStep ==
  ASSUME IInv, NEW p \in Proc, Schedule(p)
  PROVE  IInv'
<1>1. ready \in BOOLEAN /\ armed \in BOOLEAN /\ canceling \in BOOLEAN
  BY DEF IInv, TypeOK
<1>2. armed' \in BOOLEAN
  BY <1>1 DEF Schedule
<1>3. pc[p] \in Unlocked /\ "none" \in Unlocked /\ Goto(p, "none")
  BY DEF Schedule, Unlocked
<1>4. req' \in [Bo -> Requests \cup {0}]
  BY DEF Schedule, boVars, IInv, TypeOK
<1> QED
  BY <1>1, <1>2, <1>3, <1>4, OutsideStep DEF Schedule, poolVars, boVars, hostVars

LEMMA WorkSteps ==
  ASSUME IInv, WorkNext
  PROVE  IInv'
<1>1. Worker \in Proc
  BY DEF Proc
<1>2. ready \in BOOLEAN /\ armed \in BOOLEAN /\ canceling \in BOOLEAN
      /\ req \in [Bo -> Requests \cup {0}] /\ blk \in [Bo -> SUBSET Pages]
  BY DEF IInv, TypeOK
<1>3. CASE WorkStart
  <2>1. Goto(Worker, "workLock") /\ "workLock" \in Unlocked /\ pc[Worker] \in Unlocked
    BY <1>3 DEF WorkStart, Unlocked
  <2>2. armed' \in BOOLEAN /\ UNCHANGED <<ready, canceling, req>>
    BY <1>3 DEF WorkStart, poolVars, boVars
  <2> QED
    BY <1>1, <1>2, <1>3, <2>1, <2>2, OutsideStep DEF WorkStart, poolVars, boVars, hostVars
<1>4. CASE WorkLock /\ ready
  <2>1. Lock(Worker, "reclaim") /\ pc[Worker] \in Unlocked
    BY <1>4 DEF WorkLock, Unlocked
  <2> QED
    BY <1>1, <1>2, <1>4, <2>1, LockStep DEF WorkLock, poolVars, boVars, workVars, hostVars
<1>5. CASE WorkLock /\ ~ready
  <2>1. Goto(Worker, "none") /\ UNCHANGED owner /\ "none" \in Unlocked /\ pc[Worker] \in Unlocked
    BY <1>5 DEF WorkLock, Unlocked
  <2> QED
    BY <1>1, <1>2, <1>5, <2>1, OutsideStep DEF WorkLock, poolVars, boVars, workVars, hostVars
<1> QED
  BY <1>3, <1>4, <1>5 DEF WorkNext

LEMMA FiniSteps ==
  ASSUME IInv, FiniNext
  PROVE  IInv'
<1>1. Fini \in Proc
  BY DEF Proc
<1>2. ready \in BOOLEAN /\ armed \in BOOLEAN /\ canceling \in BOOLEAN
      /\ req \in [Bo -> Requests \cup {0}]
  BY DEF IInv, TypeOK
<1>3. CASE FiniCancel
  <2>1. Goto(Fini, "cancel") /\ "cancel" \in Unlocked /\ pc[Fini] \in Unlocked
    BY <1>3 DEF FiniCancel, Unlocked
  <2>2. armed' \in BOOLEAN /\ canceling' \in BOOLEAN /\ UNCHANGED <<ready, req>>
    BY <1>3 DEF FiniCancel, poolVars, boVars
  <2> QED
    BY <1>1, <1>2, <1>3, <2>1, <2>2, OutsideStep DEF FiniCancel, poolVars, boVars, hostVars
<1>4. CASE FiniCancelled
  <2>1. Goto(Fini, "finiLock") /\ "finiLock" \in Unlocked /\ pc[Fini] \in Unlocked
    BY <1>4 DEF FiniCancelled, Unlocked
  <2>2. armed' \in BOOLEAN /\ canceling' \in BOOLEAN /\ UNCHANGED <<ready, req>>
    BY <1>2, <1>4 DEF FiniCancelled, poolVars, boVars
  <2> QED
    BY <1>1, <1>2, <1>4, <2>1, <2>2, OutsideStep DEF FiniCancelled, poolVars, boVars, hostVars
<1>5. CASE FiniClose
  <2>1. Goto(Fini, "closed") /\ "closed" \in Unlocked /\ pc[Fini] \in Unlocked /\ owner = Nobody
    BY <1>5 DEF FiniClose, Unlocked
  <2>2. ready' \in BOOLEAN /\ UNCHANGED <<armed, canceling, req>>
    BY <1>5 DEF FiniClose, workVars, boVars
  <2> QED
    BY <1>1, <1>2, <1>5, <2>1, <2>2, OutsideStep DEF FiniClose, boVars, workVars, hostVars
<1> QED
  BY <1>3, <1>4, <1>5 DEF FiniNext
-----------------------------------------------------------------------------
(* The host takes the first request off the queue.                         *)
LEMMA ServeQueue ==
  ASSUME hostq \in Seq(Message), hostq # <<>>, hostq' = Tail(hostq)
  PROVE  /\ hostq' \in Seq(Message)
         /\ Len(hostq) \in Nat /\ Len(hostq) >= 1 /\ Len(hostq') = Len(hostq) - 1
         /\ Head(hostq) = hostq[1] /\ hostq[1] \in Message
         /\ \A i \in 1 .. Len(hostq') : hostq'[i] = hostq[i + 1]
         /\ Len(hostq) = 1 => hostq' = <<>>
         /\ Len(hostq) # 1 => hostq' # <<>> /\ hostq'[Len(hostq')] = hostq[Len(hostq)]
<1>1. /\ hostq' \in Seq(Message) /\ Len(hostq) \in Nat /\ Len(hostq) >= 1
      /\ Len(hostq') = Len(hostq) - 1
  OBVIOUS
<1>2. Head(hostq) = hostq[1] /\ hostq[1] \in Message
  OBVIOUS
<1>3. \A i \in 1 .. Len(hostq') : hostq'[i] = hostq[i + 1]
  OBVIOUS
<1>4. Len(hostq) = 1 => hostq' = <<>>
  BY <1>1
<1>5. ASSUME Len(hostq) # 1
      PROVE  hostq' # <<>> /\ hostq'[Len(hostq')] = hostq[Len(hostq)]
  <2>1. Len(hostq') \in 1 .. Len(hostq') /\ Len(hostq') + 1 = Len(hostq)
    BY <1>1, <1>5
  <2>2. ASSUME hostq' = <<>> PROVE FALSE
    <3>1. Len(<<>>) = 0
      OBVIOUS
    <3>2. Len(hostq') = Len(<<>>)
      BY <2>2, Zenon
    <3> QED
      BY <1>1, <1>5, <3>1, <3>2
  <2> QED
    BY <1>3, <2>1, <2>2
<1> QED
  BY <1>1, <1>2, <1>3, <1>4, <1>5

(* Everything but HostInv: the lock holder does not move, the queue gets   *)
(* shorter, and an answer reaches the waiter only from its own request.    *)
LEMMA ServeStep ==
  ASSUME IInv, hostq # <<>>, NEW r \in Replies \ {"NONE", "REFUSED"}, Answer(r),
         Head(hostq).op = "QUERY" <=> r \in {"BACKED", "UNBACKED"},
         UNCHANGED <<ready, backed, step, blk, req, pc, owner, ret, armed, canceling>>,
         grant' \subseteq Pages, mapped' \subseteq Pages
  PROVE  /\ TypeOK' /\ LockInv' /\ GridInv' /\ QueueInv' /\ UnshareInv' /\ DrainInv'
         /\ BlockInv'
         /\ Phase' = Phase /\ SafeTop' = SafeTop
         /\ reply' # reply => /\ Waiting /\ reply = "NONE" /\ reply' = r
                              /\ Len(hostq) = 1 /\ Head(hostq) = Awaited
         /\ reply # "NONE" => reply = "REFUSED"
<1>1. hostq' = Tail(hostq) /\ hostq \in Seq(Message)
  BY DEF Answer, IInv, TypeOK
<1>2. /\ hostq' \in Seq(Message)
      /\ Len(hostq) \in Nat /\ Len(hostq) >= 1 /\ Len(hostq') = Len(hostq) - 1
      /\ Head(hostq) = hostq[1] /\ hostq[1] \in Message
      /\ \A i \in 1 .. Len(hostq') : hostq'[i] = hostq[i + 1]
      /\ Len(hostq) = 1 => hostq' = <<>>
      /\ Len(hostq) # 1 => hostq' # <<>> /\ hostq'[Len(hostq')] = hostq[Len(hostq)]
  BY <1>1, ServeQueue
<1>3. Phase' = Phase /\ Waiting' = Waiting /\ Shrinking' = Shrinking
  BY DEF Phase, Waiting, Shrinking
<1>4. SafeTop' = SafeTop /\ Awaited' = Awaited
  BY <1>3 DEF SafeTop, Awaited
<1>5. reply # "NONE" => reply = "REFUSED"
  BY DEF IInv, QueueInv
<1>6. \/ reply' = reply
      \/ Waiting /\ reply = "NONE" /\ reply' = r /\ Len(hostq) = 1
  BY DEF Answer
<1>7. Waiting /\ reply = "NONE" /\ Len(hostq) = 1 => Head(hostq) = Awaited
  BY <1>2 DEF IInv, QueueInv
<1>8. TypeOK'
  <2>1. reply' \in Replies
    BY <1>6 DEF IInv, TypeOK
  <2> QED
    BY <1>2, <2>1 DEF IInv, TypeOK
<1>9. LockInv' /\ GridInv'
  BY <1>3 DEF IInv, LockInv, GridInv, OnGrid
<1>10. QueueInv'
  <2>1. CASE reply' = reply
    <3>1. Waiting /\ reply = "NONE" => Len(hostq) # 1
      BY <2>1 DEF Answer
    <3> QED
      BY <1>2, <1>3, <1>4, <1>5, <2>1, <3>1 DEF IInv, QueueInv
  <2>2. CASE Waiting /\ reply = "NONE" /\ reply' = r /\ Len(hostq) = 1
    <3>1. Phase = "unshare" => r \notin {"BACKED", "UNBACKED"}
      BY <1>7, <2>2 DEF Awaited
    <3>2. Phase = "unshareQuery" => r \in {"BACKED", "UNBACKED"}
      BY <1>7, <2>2 DEF Awaited
    <3> QED
      BY <1>2, <1>3, <2>2, <3>1, <3>2 DEF IInv, QueueInv
  <2> QED
    BY <1>6, <2>1, <2>2
<1>11. UnshareInv'
  <2>1. ASSUME NEW i \in 1 .. Len(hostq'), hostq'[i].op = "UNSHARE"
        PROVE  /\ Shrinking /\ hostq'[i].offset = backed - step
               /\ Phase = "unshare" => i = Len(hostq')
               /\ Phase = "unshareQuery" => ret = "ETIMEDOUT"
    <3>1. i + 1 \in 1 .. Len(hostq) /\ hostq'[i] = hostq[i + 1]
      BY <1>2
    <3> QED
      BY <1>2, <2>1, <3>1 DEF IInv, UnshareInv
  <2> QED
    BY <1>3, <2>1 DEF UnshareInv
<1>12. DrainInv'
  BY <1>2, <1>3, <1>6 DEF IInv, DrainInv
<1>13. BlockInv'
  BY <1>4 DEF IInv, BlockInv
<1> QED
  BY <1>3, <1>4, <1>5, <1>6, <1>7, <1>8, <1>9, <1>10, <1>11, <1>12, <1>13

(* The pages of the first request lie inside the window.                   *)
LEMMA HeadInside ==
  ASSUME IInv, hostq # <<>>
  PROVE  HeadPages \subseteq Pages /\ Head(hostq) \in Message
<1>1. Head(hostq) \in Message
  BY DEF IInv, TypeOK
<1> QED
  BY <1>1, BoundaryFacts DEF HeadPages, StepPages, Pages, Message

LEMMA HostShareStep ==
  ASSUME IInv, HostShare
  PROVE  IInv'
<1>1. /\ hostq # <<>> /\ Head(hostq).op = "SHARE"
      /\ UNCHANGED <<ready, backed, step, blk, req, pc, owner, ret, armed, canceling>>
  BY DEF HostShare, HostServes, poolVars, boVars, workVars
<1>2. HeadPages \subseteq Pages /\ grant \subseteq Pages /\ mapped \subseteq Pages
  BY <1>1, HeadInside DEF IInv, TypeOK
<1>3. PICK r \in {"EEXIST", "OK"} :
        /\ Answer(r)
        /\ r = "OK" => grant' = grant \cup HeadPages /\ mapped' = mapped \cup HeadPages
        /\ r = "EEXIST" => grant' = grant /\ mapped' = mapped
  BY DEF HostShare, hostVars
<1>4. grant' \subseteq Pages /\ mapped' \subseteq Pages
  BY <1>2, <1>3
<1>5. r \in Replies \ {"NONE", "REFUSED"} /\ (Head(hostq).op = "QUERY" <=> r \in {"BACKED", "UNBACKED"})
  BY <1>1, <1>3 DEF Replies
<1>6. /\ TypeOK' /\ LockInv' /\ GridInv' /\ QueueInv' /\ UnshareInv' /\ DrainInv' /\ BlockInv'
      /\ Phase' = Phase /\ SafeTop' = SafeTop
      /\ reply' # reply => /\ Waiting /\ reply = "NONE" /\ reply' = r
                           /\ Len(hostq) = 1 /\ Head(hostq) = Awaited
      /\ reply # "NONE" => reply = "REFUSED"
  BY <1>1, <1>3, <1>4, <1>5, ServeStep
<1>7. mapped \subseteq mapped' /\ grant \subseteq grant' /\ (mapped = grant => mapped' = grant')
      /\ mapped' \subseteq grant'
  BY <1>3 DEF IInv, HostInv
<1>8. reply' # reply => Phase = "share" /\ HeadPages = StepPages(backed) /\ reply' = r
  BY <1>1, <1>6 DEF Awaited, HeadPages, Waiting, Phase
<1>9. HostInv'
  <2>1. CASE reply' = reply
    BY <1>1, <1>6, <1>7, <2>1 DEF IInv, HostInv, StepPages
  <2>2. CASE reply' # reply
    BY <1>1, <1>3, <1>6, <1>7, <1>8, <2>2 DEF IInv, HostInv, StepPages
  <2> QED
    BY <2>1, <2>2
<1> QED
  BY <1>6, <1>9 DEF IInv

(* Taking the top step away while it is in transit.                        *)
LEMMA HostUnshareStep ==
  ASSUME IInv, Recoverable, HostUnshare
  PROVE  IInv'
<1>1. /\ hostq # <<>> /\ Head(hostq).op = "UNSHARE" /\ Answer("OK")
      /\ grant' = grant \ HeadPages /\ mapped' = mapped \ HeadPages
      /\ UNCHANGED <<ready, backed, step, blk, req, pc, owner, ret, armed, canceling>>
  BY DEF HostUnshare, HostServes, poolVars, boVars, workVars
<1>2. grant' \subseteq Pages /\ mapped' \subseteq Pages
  BY <1>1 DEF IInv, TypeOK
<1>3. /\ TypeOK' /\ LockInv' /\ GridInv' /\ QueueInv' /\ UnshareInv' /\ DrainInv' /\ BlockInv'
      /\ Phase' = Phase /\ SafeTop' = SafeTop
      /\ reply' # reply => /\ Waiting /\ reply = "NONE" /\ reply' = "OK"
                           /\ Len(hostq) = 1 /\ Head(hostq) = Awaited
      /\ reply # "NONE" => reply = "REFUSED"
  BY <1>1, <1>2, ServeStep DEF Replies
<1>4. /\ Shrinking /\ Head(hostq).offset = backed - step
      /\ Phase = "unshare" => Len(hostq) = 1
      /\ Phase = "unshareQuery" => ret = "ETIMEDOUT"
  <2>1. Head(hostq) = hostq[1] /\ 1 \in 1 .. Len(hostq)
    BY <1>1 DEF IInv, TypeOK
  <2> QED
    BY <1>1, <2>1 DEF IInv, UnshareInv
<1>5. Phase \in {"unshare", "unshareQuery"} /\ Waiting
  BY <1>4 DEF Shrinking, Phase, Waiting
<1>6. HeadPages = StepPages(backed - step)
  BY <1>4 DEF HeadPages
<1>7. reply = "NONE"
  BY <1>3, <1>4, <1>5 DEF IInv, QueueInv
<1>8. Phase = "unshare" => reply' = "OK"
  BY <1>1, <1>4, <1>5, <1>7 DEF Answer
<1>9. Phase = "unshareQuery" => reply' \in {"NONE", "OK"}
  BY <1>3, <1>7
<1>10. mapped = grant \/ step = 0
  BY <1>4, <1>5, <1>7 DEF IInv, HostInv
<1>11. 0 .. SafeTop - 1 \subseteq mapped'
  <2>1. 0 .. (backed - step) - 1 \subseteq mapped
    BY <1>4 DEF IInv, HostInv, SafeTop
  <2>2. backed - step \in Int
    BY BoundaryFacts
  <2> QED
    BY <1>1, <1>4, <1>6, <2>1, <2>2 DEF SafeTop, StepPages
<1>12. mapped' \subseteq grant' /\ (mapped' = grant' \/ step = 0)
  BY <1>1, <1>10 DEF IInv, HostInv
<1>13. HostInv'
  BY <1>1, <1>3, <1>4, <1>5, <1>8, <1>9, <1>11, <1>12 DEF HostInv
<1> QED
  BY <1>3, <1>13 DEF IInv

LEMMA HostQueryStep ==
  ASSUME IInv, HostQuery
  PROVE  IInv'
<1> DEFINE r == IF HeadPages \subseteq grant THEN "BACKED" ELSE "UNBACKED"
<1>1. /\ hostq # <<>> /\ Head(hostq).op = "QUERY" /\ Answer(r)
      /\ UNCHANGED <<ready, backed, step, blk, req, pc, owner, ret, armed, canceling, grant, mapped>>
  BY DEF HostQuery, HostServes, poolVars, boVars, workVars, hostVars
<1>2. grant' \subseteq Pages /\ mapped' \subseteq Pages
  BY <1>1 DEF IInv, TypeOK
<1>3. /\ TypeOK' /\ LockInv' /\ GridInv' /\ QueueInv' /\ UnshareInv' /\ DrainInv' /\ BlockInv'
      /\ Phase' = Phase /\ SafeTop' = SafeTop
      /\ reply' # reply => /\ Waiting /\ reply = "NONE" /\ reply' = r
                           /\ Len(hostq) = 1 /\ Head(hostq) = Awaited
      /\ reply # "NONE" => reply = "REFUSED"
  BY <1>1, <1>2, ServeStep DEF Replies
<1>4. CASE reply' = reply
  <2>1. HostInv'
    BY <1>1, <1>3, <1>4 DEF IInv, HostInv, StepPages
  <2> QED
    BY <1>3, <2>1 DEF IInv
<1>5. CASE reply' # reply
  <2>1. \/ Phase = "shareQuery" /\ HeadPages = StepPages(backed)
        \/ Phase = "unshareQuery" /\ HeadPages = StepPages(backed - step)
    BY <1>1, <1>3, <1>5 DEF Awaited, HeadPages, Waiting, Phase
  <2>2. reply' = "BACKED" <=> HeadPages \subseteq grant
    BY <1>3, <1>5
  <2>3. step # 0
    BY <1>3, <1>5 DEF IInv, GridInv
  <2>4. HostInv'
    BY <1>1, <1>3, <1>5, <2>1, <2>2, <2>3 DEF IInv, HostInv, StepPages
  <2> QED
    BY <1>3, <2>4 DEF IInv
<1> QED
  BY <1>4, <1>5
(* An error leaves grant and mapping alone, but for the mapping an         *)
(* -EUCLEAN drops while its waiter is there to hear of it.                 *)
LEMMA HostErrorStep ==
  ASSUME IInv, Recoverable, HostError
  PROVE  IInv'
<1>1. PICK e \in HostErrors :
        /\ e = "EUCLEAN" => HostServes("UNSHARE")
        /\ Answer(e)
        /\ mapped' = IF e = "EUCLEAN" THEN mapped \ HeadPages ELSE mapped
  BY DEF HostError
<1>2. /\ hostq # <<>> /\ Head(hostq).op # "QUERY" /\ grant' = grant
      /\ UNCHANGED <<ready, backed, step, blk, req, pc, owner, ret, armed, canceling>>
  BY DEF HostError, HostServes, poolVars, boVars, workVars
<1>3. e \in {"EBUSY", "EIO", "EUCLEAN", "EFAIL"}
  BY PoolAssumption
<1>4. grant' \subseteq Pages /\ mapped' \subseteq Pages
  BY <1>1, <1>2 DEF IInv, TypeOK
<1>5. /\ TypeOK' /\ LockInv' /\ GridInv' /\ QueueInv' /\ UnshareInv' /\ DrainInv' /\ BlockInv'
      /\ Phase' = Phase /\ SafeTop' = SafeTop
      /\ reply' # reply => /\ Waiting /\ reply = "NONE" /\ reply' = e
                           /\ Len(hostq) = 1 /\ Head(hostq) = Awaited
      /\ reply # "NONE" => reply = "REFUSED"
  BY <1>1, <1>2, <1>3, <1>4, ServeStep DEF Replies
<1>6. CASE e # "EUCLEAN"
  <2>1. mapped' = mapped
    BY <1>1, <1>6
  <2>2. HostInv'
    BY <1>2, <1>3, <1>5, <1>6, <2>1 DEF IInv, HostInv, StepPages
  <2> QED
    BY <1>5, <2>2 DEF IInv
<1>7. CASE e = "EUCLEAN"
  <2>1. Head(hostq).op = "UNSHARE" /\ "UNSHARE" \notin LossyOps
    BY <1>1, <1>7 DEF HostServes, Recoverable
  <2>2. /\ Shrinking /\ Head(hostq).offset = backed - step
        /\ Phase = "unshare" => Len(hostq) = 1
        /\ Phase = "unshareQuery" => ret = "ETIMEDOUT"
    <3>1. Head(hostq) = hostq[1] /\ 1 \in 1 .. Len(hostq)
      BY <1>2 DEF IInv, TypeOK
    <3> QED
      BY <2>1, <3>1 DEF IInv, UnshareInv
  <2>3. Phase = "unshare" /\ Waiting
    BY <2>1, <2>2 DEF Shrinking, Phase, Waiting, IInv, QueueInv
  <2>4. HeadPages = StepPages(backed - step)
    BY <2>2 DEF HeadPages
  <2>5. reply = "NONE" /\ reply' = "EUCLEAN"
    BY <1>1, <1>5, <1>7, <2>2, <2>3 DEF IInv, QueueInv, Answer
  <2>6. StepPages(backed - step) \subseteq grant /\ mapped \subseteq grant
    BY <2>3, <2>5 DEF IInv, HostInv
  <2>7. 0 .. SafeTop - 1 \subseteq mapped'
    <3>1. 0 .. (backed - step) - 1 \subseteq mapped
      BY <2>2 DEF IInv, HostInv, SafeTop
    <3>2. backed - step \in Int
      BY BoundaryFacts
    <3> QED
      BY <1>1, <2>2, <2>4, <3>1, <3>2 DEF SafeTop, StepPages
  <2>8. HostInv'
    BY <1>1, <1>2, <1>5, <2>3, <2>5, <2>6, <2>7 DEF HostInv, StepPages
  <2> QED
    BY <1>5, <2>8 DEF IInv
<1> QED
  BY <1>6, <1>7
-----------------------------------------------------------------------------
(* The invariant is preserved by every step.                               *)
LEMMA NextIInv ==
  ASSUME IInv, Recoverable, [Next]_vars
  PROVE  IInv'
<1>1. ASSUME NEW b \in Bo, AllocNext(b) PROVE IInv'
  BY <1>1, AllocSteps, GrowStep, ShareDoneStep, ShareUnknownStep, ShareReconciledStep
     DEF AllocNext
<1>2. ASSUME NEW b \in Bo, FreeNext(b) PROVE IInv'
  BY <1>2, FreeSteps
<1>3. ASSUME NEW p \in Bo \cup {Worker}, ReclaimNext(p) PROVE IInv'
  <2>1. p \in Proc
    BY DEF Proc
  <2> QED
    BY <1>3, <2>1, ReclaimUnshareStep, ReclaimDoneStep, UnshareDoneStep,
       UnshareUnknownStep, UnshareReconciledStep, ScheduleStep DEF ReclaimNext
<1>4. ASSUME HostNext PROVE IInv'
  BY <1>4, HostShareStep, HostUnshareStep, HostErrorStep, HostQueryStep DEF HostNext
<1>5. ASSUME UNCHANGED vars PROVE IInv'
  <2>1. UNCHANGED <<Phase, Shrinking, Waiting, SafeTop, Awaited>>
    BY <1>5 DEF Phase, Shrinking, Waiting, SafeTop, Awaited, vars
  <2>2. TypeOK' /\ LockInv' /\ BlockInv'
    BY <1>5, <2>1 DEF IInv, TypeOK, LockInv, BlockInv, vars
  <2>3. GridInv' /\ QueueInv' /\ UnshareInv' /\ DrainInv'
    BY <1>5, <2>1 DEF IInv, GridInv, QueueInv, UnshareInv, DrainInv, OnGrid, vars
  <2>4. HostInv'
    BY <1>5, <2>1 DEF IInv, HostInv, StepPages, vars
  <2> QED
    BY <2>2, <2>3, <2>4 DEF IInv
<1> QED
  BY <1>1, <1>2, <1>3, <1>4, <1>5, WorkSteps, FiniSteps DEF Next, Stopped
-----------------------------------------------------------------------------
(* The holder's phase says whether it waits and whether it shrinks.      *)
LEMMA PhaseFacts ==
  /\ Waiting <=> Phase \in InFlight
  /\ Shrinking <=> Phase \in {"unshare", "unshareQuery"}
  /\ Waiting' <=> Phase' \in InFlight
  /\ Shrinking' <=> Phase' \in {"unshare", "unshareQuery"}
  BY DEF Waiting, Shrinking, Phase, InFlight

(* What holds under every fault set: the types, the lock, the grid and     *)
(* whose answer reclaim reads.                                             *)
LEMMA InitCore == Init => CoreInv
<1> SUFFICES ASSUME Init PROVE CoreInv
  OBVIOUS
<1>1. Phase = "free"
  BY DEF Init, Phase
<1> QED
  BY <1>1, InitIInv DEF IInv, CoreInv, AskInv

(* No request is in flight after the step.                                 *)
LEMMA CoreIdle ==
  ASSUME TypeOK', LockInv', Phase' \notin InFlight, Prealloc <= backed',
         Step # 0 => OnGrid(backed')
  PROVE  CoreInv'
<1>1. ~Waiting' /\ ~Shrinking'
  BY PhaseFacts DEF InFlight
<1>2. Phase' \notin {"share", "shareQuery", "unshare", "unshareQuery"}
  BY DEF InFlight
<1>3. Step # 0 => OnGrid(backed)'
  BY DEF OnGrid
<1>4. GridInv'
  BY <1>1, <1>2, <1>3 DEF GridInv
<1> QED
  BY <1>2, <1>4 DEF CoreInv, AskInv

(* The holder of the lock stays where it is, and so does the boundary.     *)
LEMMA CoreSame ==
  ASSUME CoreInv, TypeOK', LockInv', AskInv', Phase' = Phase, UNCHANGED <<backed, step>>
  PROVE  CoreInv'
<1>1. (Waiting' <=> Waiting) /\ (Shrinking' <=> Shrinking)
  BY PhaseFacts
<1>2. GridInv'
  BY <1>1 DEF CoreInv, GridInv, OnGrid
<1> QED
  BY <1>2 DEF CoreInv

(* A thread that is not past the lock moves on without taking it.          *)
LEMMA CoreOutside ==
  ASSUME CoreInv, NEW p \in Proc, NEW l \in Unlocked, pc[p] \in Unlocked, Goto(p, l),
         UNCHANGED <<backed, step, blk, owner, ret, hostq, reply, grant, mapped>>,
         req' \in [Bo -> Requests \cup {0}], armed' \in BOOLEAN, canceling' \in BOOLEAN,
         ready' \in BOOLEAN, owner # Nobody => ready' = ready
  PROVE  CoreInv'
<1>1. TypeOK'
  <2>1. pc' \in [Proc -> Locked \cup Unlocked]
    BY DEF CoreInv, TypeOK, Goto
  <2> QED
    BY <2>1 DEF CoreInv, TypeOK
<1>2. owner # Nobody => pc[owner]' = pc[owner]
  BY DEF CoreInv, TypeOK, LockInv, Goto, Locked, Unlocked
<1>3. LockInv'
  BY <1>2 DEF CoreInv, TypeOK, LockInv, Goto, Locked, Unlocked
<1>4. Phase' = Phase
  BY <1>2 DEF Phase
<1>5. AskInv'
  BY <1>4 DEF CoreInv, AskInv
<1> QED
  BY <1>1, <1>3, <1>4, <1>5, CoreSame

(* Taking the lock.                                                        *)
LEMMA CoreLock ==
  ASSUME CoreInv, ready, NEW p \in Proc, pc[p] \in Unlocked, NEW l \in {"alloc", "reclaim"},
         Lock(p, l), blk' \in [Bo -> SUBSET Pages],
         UNCHANGED <<ready, backed, step, req, ret, armed, canceling, hostq, reply, grant, mapped>>
  PROVE  CoreInv'
<1>1. TypeOK'
  <2>1. pc' \in [Proc -> Locked \cup Unlocked] /\ owner' \in Proc \cup {Nobody}
    BY DEF CoreInv, TypeOK, Lock, Goto, Locked
  <2> QED
    BY <2>1 DEF CoreInv, TypeOK
<1>2. LockInv'
  BY ProcTypes DEF CoreInv, LockInv, Lock, Goto, Locked, Unlocked
<1>3. Phase' = l
  BY ProcTypes DEF CoreInv, Lock, Goto, Phase
<1>4. Phase' \notin InFlight /\ Prealloc <= backed' /\ (Step # 0 => OnGrid(backed'))
  BY <1>3 DEF InFlight, CoreInv, GridInv
<1> QED
  BY <1>1, <1>2, <1>4, CoreIdle

(* Dropping the lock.                                                      *)
LEMMA CoreUnlock ==
  ASSUME CoreInv, NEW p \in Proc, pc[p] \in Locked, NEW l \in Unlocked, Unlock(p, l),
         blk' \in [Bo -> SUBSET Pages], reply' \in Replies,
         UNCHANGED <<ready, backed, step, req, ret, armed, canceling, hostq, grant, mapped>>
  PROVE  CoreInv'
<1>1. TypeOK'
  <2>1. pc' \in [Proc -> Locked \cup Unlocked] /\ owner' \in Proc \cup {Nobody}
    BY DEF CoreInv, TypeOK, Unlock, Goto
  <2> QED
    BY <2>1 DEF CoreInv, TypeOK
<1>2. owner = p
  BY DEF CoreInv, LockInv
<1>3. LockInv'
  BY <1>2, ProcTypes DEF CoreInv, LockInv, Unlock, Goto, Locked, Unlocked
<1>4. Phase' \notin InFlight
  BY DEF Unlock, Phase, InFlight
<1>5. Prealloc <= backed' /\ (Step # 0 => OnGrid(backed'))
  BY DEF CoreInv, GridInv
<1> QED
  BY <1>1, <1>3, <1>4, <1>5, CoreIdle

(* The holder of the lock is done with its request, or had none.           *)
LEMMA CoreSettle ==
  ASSUME CoreInv, NEW p \in Proc, pc[p] \in Locked, NEW l \in {"alloc", "reclaim"}, Goto(p, l),
         reply' \in Replies, step' \in {0, step},
         \/ backed' = backed
         \/ backed' = backed + step /\ step # 0 /\ backed + step <= Size
         \/ backed' = backed - step /\ step # 0 /\ backed > Prealloc,
         UNCHANGED <<ready, blk, req, owner, ret, armed, canceling, hostq, grant, mapped>>
  PROVE  CoreInv'
<1>1. LockInv' /\ pc' \in [Proc -> Locked \cup Unlocked] /\ Phase' = l
  BY HolderMovesCore DEF CoreInv, Locked
<1>2. backed' \in 0 .. Size /\ Prealloc <= backed' /\ step' \in {0, Step}
  BY BoundaryCore DEF CoreInv
<1>3. Step # 0 => OnGrid(backed')
  BY BoundaryCore DEF CoreInv, GridInv
<1>4. TypeOK'
  BY <1>1, <1>2 DEF CoreInv, TypeOK
<1>5. Phase' \notin InFlight
  BY <1>1 DEF InFlight
<1> QED
  BY <1>1, <1>2, <1>3, <1>4, <1>5, CoreIdle

(* The holder of the lock has a request in flight after the step.          *)
LEMMA CoreAsk ==
  ASSUME CoreInv, NEW p \in Proc, pc[p] \in Locked, NEW l \in InFlight, Goto(p, l),
         step # 0, reply' \in {"NONE", "REFUSED"}, ret' \in Errnos,
         hostq' \in Seq(Message),
         l \in {"share", "shareQuery"} => backed + step <= Size,
         l \in {"unshare", "unshareQuery"} => backed > Prealloc,
         l = "unshare" => reply' = "NONE" /\ hostq' # <<>> /\ hostq'[Len(hostq')].op = "UNSHARE",
         UNCHANGED <<ready, backed, step, blk, req, owner, armed, canceling, grant, mapped>>
  PROVE  CoreInv'
<1>1. /\ LockInv' /\ pc' \in [Proc -> Locked \cup Unlocked] /\ Phase' = l
      /\ Shrinking' <=> l \in {"unshare", "unshareQuery"}
  BY HolderMovesCore DEF CoreInv, Locked, InFlight
<1>2. TypeOK'
  BY <1>1 DEF CoreInv, TypeOK, Replies
<1>3. GridInv'
  BY <1>1 DEF CoreInv, GridInv, OnGrid
<1>4. AskInv'
  BY <1>1 DEF AskInv
<1> QED
  BY <1>1, <1>2, <1>3, <1>4 DEF CoreInv

(* The steps that send, answer or give up no request.                      *)
Quiet(p) ==
  \/ /\ p \in Bo
     /\ \/ \E n \in Requests : AllocEnter(p, n)
        \/ AllocLock(p) \/ AllocCarve(p) \/ AllocFail(p) \/ FreeNext(p)
  \/ p \in Bo \cup {Worker} /\ (ReclaimDone(p) \/ Schedule(p))
  \/ p = Worker /\ WorkNext
  \/ p = Fini /\ FiniNext

(* A process outside its requests: alloc, free, reclaim, the work, fini.   *)
LEMMA CoreQuiet ==
  ASSUME CoreInv, NEW p \in Proc, Quiet(p)
  PROVE  CoreInv'
<1>1. /\ ready \in BOOLEAN /\ armed \in BOOLEAN /\ canceling \in BOOLEAN
      /\ req \in [Bo -> Requests \cup {0}] /\ blk \in [Bo -> SUBSET Pages]
      /\ reply \in Replies /\ step \in {0, Step}
  BY DEF CoreInv, TypeOK
<1>2. ASSUME NEW b \in Bo, b = p, NEW n \in Requests, AllocEnter(b, n) PROVE CoreInv'
  <2>1. /\ req' \in [Bo -> Requests \cup {0}] /\ pc[b] \in Unlocked
        /\ "allocLock" \in Unlocked /\ Goto(b, "allocLock")
        /\ UNCHANGED <<ready, armed, canceling, blk>>
    BY <1>1, <1>2 DEF AllocEnter, Unlocked, poolVars, workVars
  <2> QED
    BY <1>1, <1>2, <2>1, CoreOutside DEF AllocEnter, poolVars, hostVars
<1>3. ASSUME NEW l \in {"alloc", "reclaim"}, Lock(p, l), ready, pc[p] \in Unlocked,
             blk' \in [Bo -> SUBSET Pages],
             UNCHANGED <<ready, backed, step, req, ret, armed, canceling, hostq, reply,
                         grant, mapped>>
      PROVE  CoreInv'
  BY <1>3, CoreLock
<1>4. ASSUME NEW l \in Unlocked, Goto(p, l), pc[p] \in Unlocked,
             armed' \in BOOLEAN, canceling' \in BOOLEAN, ready' \in BOOLEAN,
             owner # Nobody => ready' = ready,
             UNCHANGED <<backed, step, blk, req, owner, ret, hostq, reply, grant, mapped>>
      PROVE  CoreInv'
  <2>1. req' \in [Bo -> Requests \cup {0}]
    BY <1>1, <1>4
  <2> QED
    BY <1>4, <2>1, CoreOutside
<1>5. ASSUME p \in Bo, AllocLock(p) PROVE CoreInv'
  <2>1. pc[p] \in Unlocked /\ "none" \in Unlocked /\ blk' \in [Bo -> SUBSET Pages]
        /\ armed' \in BOOLEAN /\ canceling' \in BOOLEAN /\ ready' \in BOOLEAN
        /\ UNCHANGED <<ready, backed, step, blk, req, ret, armed, canceling, hostq, reply,
                       grant, mapped>>
    BY <1>1, <1>5 DEF AllocLock, Unlocked, poolVars, boVars, workVars, hostVars
  <2>2. (ready /\ Lock(p, "alloc")) \/ (Goto(p, "none") /\ UNCHANGED owner)
    BY <1>5 DEF AllocLock
  <2> QED
    BY <1>3, <1>4, <2>1, <2>2
<1>6. ASSUME p \in Bo, AllocCarve(p) PROVE CoreInv'
  <2>1. PICK U \in Fits(p) : blk' = [blk EXCEPT ![p] = U]
    BY <1>6 DEF AllocCarve
  <2>2. blk' \in [Bo -> SUBSET Pages]
    BY <1>1, <1>6, <2>1 DEF Fits, Carvings, FreePages
  <2>3. pc[p] \in Locked /\ "held" \in Unlocked /\ Unlock(p, "held") /\ reply' \in Replies
        /\ UNCHANGED <<ready, backed, step, req, ret, armed, canceling, hostq, grant, mapped>>
    BY <1>1, <1>6 DEF AllocCarve, Locked, Unlocked, poolVars, workVars, hostVars
  <2> QED
    BY <2>2, <2>3, CoreUnlock
<1>7. ASSUME p \in Bo, AllocFail(p) PROVE CoreInv'
  <2>1. /\ pc[p] \in Locked /\ Goto(p, "reclaim") /\ reply' \in Replies
        /\ step' \in {0, step} /\ backed' = backed
        /\ UNCHANGED <<ready, blk, req, owner, ret, armed, canceling, hostq, grant, mapped>>
    BY <1>1, <1>7 DEF AllocFail, Locked, poolVars, boVars, workVars, hostVars
  <2> QED
    BY <2>1, CoreSettle
<1>8. ASSUME p \in Bo, FreeEnter(p) PROVE CoreInv'
  <2>1. PICK l \in Unlocked : Goto(p, l)
    BY <1>8 DEF FreeEnter, Unlocked
  <2>2. pc[p] \in Unlocked
        /\ UNCHANGED <<ready, armed, canceling, backed, step, blk, req, owner, ret, hostq,
                       reply, grant, mapped>>
    BY <1>8 DEF FreeEnter, Unlocked, poolVars, boVars, workVars, hostVars
  <2> QED
    BY <1>1, <1>4, <2>1, <2>2
<1>9. ASSUME p \in Bo, FreeLock(p) PROVE CoreInv'
  <2>1. pc[p] \in Unlocked /\ "dead" \in Unlocked
        /\ UNCHANGED <<ready, backed, step, req, ret, armed, canceling, hostq, reply,
                       grant, mapped>>
    BY <1>9 DEF FreeLock, Unlocked, poolVars, workVars, hostVars
  <2>2. CASE ready /\ Lock(p, "reclaim") /\ blk' = [blk EXCEPT ![p] = {}]
    <3>1. blk' \in [Bo -> SUBSET Pages]
      BY <1>1, <2>2
    <3> QED
      BY <1>3, <2>1, <2>2, <3>1
  <2>3. CASE Goto(p, "dead") /\ UNCHANGED <<owner, blk>>
    BY <1>1, <1>4, <2>1, <2>3
  <2> QED
    BY <1>9, <2>2, <2>3 DEF FreeLock
<1>10. ASSUME ReclaimDone(p) PROVE CoreInv'
  <2>1. pc[p] \in Locked /\ "none" \in Unlocked /\ Unlock(p, "none") /\ reply' \in Replies
        /\ blk' \in [Bo -> SUBSET Pages]
        /\ UNCHANGED <<ready, backed, step, req, ret, armed, canceling, hostq, grant, mapped>>
    BY <1>1, <1>10 DEF ReclaimDone, Locked, Unlocked, poolVars, boVars, workVars, hostVars
  <2> QED
    BY <2>1, CoreUnlock
<1>11. ASSUME Schedule(p) PROVE CoreInv'
  <2>1. pc[p] \in Unlocked /\ "none" \in Unlocked /\ Goto(p, "none") /\ armed' \in BOOLEAN
        /\ UNCHANGED <<ready, canceling, backed, step, blk, req, owner, ret, hostq, reply,
                       grant, mapped>>
    BY <1>1, <1>11 DEF Schedule, Unlocked, poolVars, boVars, hostVars
  <2> QED
    BY <1>1, <1>4, <2>1
<1>12. ASSUME p = Worker, WorkNext PROVE CoreInv'
  <2>1. pc[p] \in Unlocked /\ "none" \in Unlocked /\ "workLock" \in Unlocked
        /\ armed' \in BOOLEAN /\ blk' \in [Bo -> SUBSET Pages]
        /\ UNCHANGED <<ready, canceling, backed, step, blk, req, ret, hostq, reply,
                       grant, mapped>>
    BY <1>1, <1>12 DEF WorkNext, WorkStart, WorkLock, Unlocked, poolVars, boVars, workVars,
                       hostVars
  <2>2. \/ UNCHANGED armed /\ ready /\ Lock(p, "reclaim")
        \/ (Goto(p, "none") \/ Goto(p, "workLock")) /\ UNCHANGED owner
    BY <1>12 DEF WorkNext, WorkStart, WorkLock, workVars
  <2> QED
    BY <1>1, <1>3, <1>4, <2>1, <2>2
<1>13. ASSUME p = Fini, FiniNext PROVE CoreInv'
  <2>1. PICK l \in Unlocked : Goto(p, l)
    BY <1>13 DEF FiniNext, FiniCancel, FiniCancelled, FiniClose, Unlocked
  <2>2. pc[p] \in Unlocked /\ armed' \in BOOLEAN /\ canceling' \in BOOLEAN
        /\ ready' \in BOOLEAN /\ (owner # Nobody => ready' = ready)
        /\ UNCHANGED <<backed, step, blk, req, owner, ret, hostq, reply, grant, mapped>>
    BY <1>1, <1>13 DEF FiniNext, FiniCancel, FiniCancelled, FiniClose, Unlocked, poolVars,
                       boVars, workVars, hostVars
  <2> QED
    BY <1>4, <2>1, <2>2
<1> QED
  BY <1>2, <1>5, <1>6, <1>7, <1>8, <1>9, <1>10, <1>11, <1>12, <1>13 DEF Quiet, FreeNext

(* grow_one_locked: SHARE, its query and what they come to.                *)
LEMMA CoreGrow ==
  ASSUME CoreInv, NEW b \in Bo,
         AllocGrow(b) \/ ShareDone(b) \/ ShareUnknown(b) \/ ShareReconciled(b)
  PROVE  CoreInv'
<1>1. b \in Proc /\ b # Nobody /\ hostq \in Seq(Message) /\ ret \in Errnos
  BY PoolAssumption DEF Proc, CoreInv, TypeOK
<1>2. pc[b] \in Locked => owner = b
  BY <1>1 DEF CoreInv, LockInv
<1>3. pc[b] \in {"share", "shareQuery"} => step # 0 /\ backed + step <= Size
  BY <1>1, <1>2 DEF CoreInv, GridInv, Phase, Waiting, Locked
<1>4. /\ Step \in Nat /\ Size \in Nat /\ backed \in Nat /\ step \in {0, Step}
      /\ (step # 0 /\ backed < Size => backed + step <= Size)
  BY BoundaryCore DEF CoreInv
<1>5. UNCHANGED <<ready, step, blk, req, owner, ret, armed, canceling, grant, mapped>>
  BY DEF AllocGrow, ShareDone, ShareUnknown, ShareReconciled, poolVars, boVars, workVars,
         hostVars
<1>6. ASSUME NEW op \in Ops, NEW l \in {"share", "shareQuery"}, Send(b, op, backed, l),
             step # 0, backed + step <= Size, pc[b] \in Locked, backed' = backed
      PROVE  CoreInv'
  <2>1. [op |-> op, offset |-> backed] \in Message
    BY <1>4, <1>6 DEF Message
  <2>2. hostq' \in Seq(Message) /\ reply' \in {"NONE", "REFUSED"} /\ Goto(b, l)
        /\ ret' \in Errnos /\ l \in InFlight /\ l \notin {"unshare", "unshareQuery"}
    BY <1>1, <1>5, <1>6, <2>1 DEF Send, InFlight
  <2> QED
    BY <1>1, <1>5, <1>6, <2>2, CoreAsk
<1>7. ASSUME NEW l \in {"alloc", "reclaim"}, Goto(b, l), reply' = "NONE", hostq' = hostq,
             pc[b] \in {"share", "shareQuery"}, backed' \in {backed, backed + step}
      PROVE  CoreInv'
  <2>1. reply' \in Replies /\ step' \in {0, step} /\ pc[b] \in Locked
    BY <1>5, <1>7 DEF Replies, Locked
  <2> QED
    BY <1>1, <1>3, <1>5, <1>7, <2>1, CoreSettle
<1>8. CASE AllocGrow(b)
  <2>1. /\ Send(b, "SHARE", backed, "share") /\ step # 0 /\ backed < Size
        /\ pc[b] \in Locked /\ backed' = backed /\ "SHARE" \in Ops
    BY <1>8 DEF AllocGrow, CanGrow, Locked, poolVars, Ops
  <2> QED
    BY <1>4, <1>6, <2>1
<1>9. CASE ShareDone(b) \/ ShareReconciled(b)
  <2>1. PICK l \in {"alloc", "reclaim"} : Goto(b, l)
    BY <1>9 DEF ShareDone, ShareReconciled
  <2>2. /\ reply' = "NONE" /\ hostq' = hostq /\ pc[b] \in {"share", "shareQuery"}
        /\ backed' \in {backed, backed + step}
    BY <1>9 DEF ShareDone, ShareReconciled
  <2> QED
    BY <1>7, <2>1, <2>2
<1>10. CASE ShareUnknown(b)
  <2>1. pc[b] = "share" /\ pc[b] \in Locked /\ backed' = backed /\ "QUERY" \in Ops
    BY <1>10 DEF ShareUnknown, Locked, Ops, poolVars
  <2>2. \/ Send(b, "QUERY", backed, "shareQuery")
        \/ Goto(b, "reclaim") /\ reply' = "NONE" /\ hostq' = hostq
    BY <1>10 DEF ShareUnknown
  <2> QED
    BY <1>3, <1>6, <1>7, <2>1, <2>2
<1> QED
  BY <1>8, <1>9, <1>10

(* reclaim_locked and shrink_one_locked. What shrink_one keeps in ret is   *)
(* an errno: its waiter cannot have read the answer to a QUERY.            *)
LEMMA CoreShrink ==
  ASSUME CoreInv, NEW p \in Proc,
         ReclaimUnshare(p) \/ UnshareDone(p) \/ UnshareUnknown(p) \/ UnshareReconciled(p)
  PROVE  CoreInv'
<1>1. /\ p # Nobody /\ hostq \in Seq(Message) /\ Len(hostq) \in Nat /\ reply \in Replies
      /\ blk \in [Bo -> SUBSET Pages] /\ step \in {0, Step}
  BY PoolAssumption DEF CoreInv, TypeOK
<1>2. pc[p] \in Locked => owner = p
  BY DEF CoreInv, LockInv
<1>3. pc[p] \in {"unshare", "unshareQuery"} => step # 0 /\ backed > Prealloc /\ Phase = pc[p]
  BY <1>1, <1>2 DEF CoreInv, GridInv, Phase, Waiting, Shrinking, Locked
<1>4. /\ Step \in Nat /\ Size \in Nat /\ backed \in Nat /\ Prealloc \in Nat /\ backed <= Size
      /\ (step # 0 /\ backed > Prealloc => backed - step >= Prealloc /\ backed - step \in Nat)
  BY BoundaryCore DEF CoreInv
<1>5. UNCHANGED <<ready, blk, req, armed, canceling, grant, mapped>>
  BY DEF ReclaimUnshare, UnshareDone, UnshareUnknown, UnshareReconciled, poolVars, boVars,
         workVars, hostVars
<1>6. ASSUME NEW op \in Ops, NEW l, Send(p, op, backed - step, l), step # 0, backed > Prealloc
      PROVE  /\ hostq' \in Seq(Message) /\ reply' = "NONE" /\ Goto(p, l)
             /\ hostq' # <<>> /\ hostq'[Len(hostq')].op = op
  <2>1. PICK m : m = [op |-> op, offset |-> backed - step]
    OBVIOUS
  <2>2. m \in Message /\ m.op = op
    BY <1>1, <1>4, <1>6, <2>1 DEF Message
  <2>3. hostq' = Append(hostq, m) /\ reply' = "NONE" /\ Goto(p, l)
    BY <1>6, <2>1 DEF Send
  <2> QED
    BY <1>1, <2>2, <2>3, SendQueue
<1>7. CASE ReclaimUnshare(p)
  <2>1. /\ step # 0 /\ backed > Prealloc /\ pc[p] \in Locked /\ "UNSHARE" \in Ops
        /\ Send(p, "UNSHARE", backed - step, "unshare") /\ UNCHANGED <<backed, step, owner, ret>>
    BY <1>7 DEF ReclaimUnshare, StepFree, Locked, Ops, poolVars
  <2>2. /\ hostq' \in Seq(Message) /\ reply' = "NONE" /\ Goto(p, "unshare")
        /\ hostq' # <<>> /\ hostq'[Len(hostq')].op = "UNSHARE"
    BY <1>6, <2>1
  <2>3. /\ "unshare" \in InFlight /\ "unshare" \notin {"share", "shareQuery"}
        /\ reply' \in {"NONE", "REFUSED"} /\ ret' \in Errnos
    BY <2>1, <2>2 DEF InFlight, CoreInv, TypeOK
  <2> QED
    BY <1>5, <2>1, <2>2, <2>3, CoreAsk
<1>8. CASE UnshareDone(p)
  <2>1. /\ pc[p] \in Locked /\ pc[p] = "unshare" /\ Goto(p, "reclaim") /\ reply' \in Replies
        /\ step' \in {0, step} /\ backed' = backed - step /\ UNCHANGED <<owner, ret, hostq>>
    BY <1>8 DEF UnshareDone, Locked, Replies
  <2> QED
    BY <1>3, <1>5, <2>1, CoreSettle
<1>9. CASE UnshareUnknown(p)
  <2>1. /\ pc[p] \in Locked /\ step # 0 /\ backed > Prealloc /\ UNCHANGED <<backed, step, owner>>
    BY <1>3, <1>9 DEF UnshareUnknown, StepFree, Locked, poolVars
  <2>2. ret' \in Errnos
    <3>1. \/ pc[p] = "unshare" /\ reply # "NONE" /\ ret' = reply
          \/ ret' \in {"ETIMEDOUT", "EFAIL"}
      BY <1>9 DEF UnshareUnknown, Answered
    <3>2. pc[p] = "unshare" => reply \notin {"BACKED", "UNBACKED", "REFUSED"}
      BY <1>3 DEF CoreInv, AskInv
    <3> QED
      BY <1>1, <3>1, <3>2 DEF Replies, Errnos
  <2>3. /\ "unshareQuery" \in InFlight /\ "QUERY" \in Ops
        /\ "unshareQuery" \notin {"share", "shareQuery", "unshare"}
    BY DEF InFlight, Ops
  <2>4. Goto(p, "unshareQuery") /\ reply' \in {"NONE", "REFUSED"} /\ hostq' \in Seq(Message)
    <3>1. CASE Send(p, "QUERY", backed - step, "unshareQuery")
      BY <1>6, <2>1, <2>3, <3>1
    <3>2. CASE reply' = "REFUSED" /\ Goto(p, "unshareQuery") /\ UNCHANGED hostq
      BY <1>1, <3>2
    <3> QED
      BY <1>9, <3>1, <3>2 DEF UnshareUnknown
  <2> QED
    BY <1>5, <2>1, <2>2, <2>3, <2>4, CoreAsk
<1>10. CASE UnshareReconciled(p)
  <2>1. /\ pc[p] \in Locked /\ pc[p] = "unshareQuery" /\ reply' \in Replies
        /\ UNCHANGED <<ret, hostq>>
    BY <1>10 DEF UnshareReconciled, Locked, Replies
  <2>2. \/ /\ Goto(p, "reclaim") /\ backed' = backed - step /\ step' \in {0, step}
           /\ UNCHANGED owner
        \/ \E l \in {"sched", "none"} : Unlock(p, l) /\ UNCHANGED <<backed, step>>
    BY <1>10 DEF UnshareReconciled
  <2>3. CASE Goto(p, "reclaim") /\ backed' = backed - step /\ step' \in {0, step}
             /\ UNCHANGED owner
    BY <1>3, <1>5, <2>1, <2>3, CoreSettle
  <2>4. ASSUME NEW l \in {"sched", "none"}, Unlock(p, l), UNCHANGED <<backed, step>>
        PROVE  CoreInv'
    <3>1. l \in Unlocked /\ blk' \in [Bo -> SUBSET Pages]
      BY <1>1, <1>5 DEF Unlocked
    <3> QED
      BY <1>5, <2>1, <2>4, <3>1, CoreUnlock
  <2> QED
    BY <2>2, <2>3, <2>4
<1> QED
  BY <1>7, <1>8, <1>9, <1>10

(* The host serves a request: the waiter of an UNSHARE is answered only by *)
(* what the host says of an UNSHARE.                                       *)
LEMMA CoreHost ==
  ASSUME CoreInv, HostNext
  PROVE  CoreInv'
<1>1. PICK r \in Replies \ {"NONE", "REFUSED"} :
        /\ hostq # <<>> /\ Answer(r)
        /\ Head(hostq).op = "UNSHARE" => r \notin {"BACKED", "UNBACKED"}
  <2>1. ASSUME HostShare PROVE \E r \in {"EEXIST", "OK"} : HostServes("SHARE") /\ Answer(r)
    BY <2>1 DEF HostShare
  <2>2. ASSUME HostUnshare PROVE HostServes("UNSHARE") /\ Answer("OK")
    BY <2>2 DEF HostUnshare
  <2>3. ASSUME HostError
        PROVE  \E r \in HostErrors : (HostServes("SHARE") \/ HostServes("UNSHARE")) /\ Answer(r)
    BY <2>3 DEF HostError
  <2>4. ASSUME HostQuery
        PROVE  \E r \in {"BACKED", "UNBACKED"} : HostServes("QUERY") /\ Answer(r)
    BY <2>4 DEF HostQuery
  <2>5. HostErrors \subseteq {"EBUSY", "EIO", "EUCLEAN", "EFAIL"}
    BY PoolAssumption
  <2> QED
    BY <2>1, <2>2, <2>3, <2>4, <2>5 DEF HostNext, HostServes, Replies
<1>2. /\ UNCHANGED <<ready, backed, step, blk, req, pc, owner, ret, armed, canceling>>
      /\ hostq' = Tail(hostq) /\ hostq \in Seq(Message)
  BY <1>1 DEF HostNext, HostShare, HostUnshare, HostError, HostQuery, Answer, poolVars,
              boVars, workVars, CoreInv, TypeOK
<1>3. /\ hostq' \in Seq(Message)
      /\ Len(hostq) \in Nat /\ Len(hostq) >= 1
      /\ Head(hostq) = hostq[1]
      /\ Len(hostq) # 1 => hostq' # <<>> /\ hostq'[Len(hostq')] = hostq[Len(hostq)]
  BY <1>1, <1>2, ServeQueue
<1>4. grant' \subseteq Pages /\ mapped' \subseteq Pages
  <2>1. HeadPages \subseteq Pages
    <3>1. Head(hostq) \in Message
      BY <1>1, <1>2
    <3> QED
      BY <3>1, BoundaryCore DEF CoreInv, HeadPages, StepPages, Pages, Message
  <2> QED
    BY <2>1 DEF HostNext, HostShare, HostUnshare, HostError, HostQuery, hostVars, CoreInv,
                TypeOK
<1>5. reply' = reply \/ (reply = "NONE" /\ reply' = r /\ Len(hostq) = 1)
  BY <1>1 DEF Answer
<1>6. Waiting /\ Len(hostq) = 1 /\ reply = "NONE" => reply' = r
  BY <1>1 DEF Answer
<1>7. TypeOK'
  <2>1. reply' \in Replies
    BY <1>5 DEF CoreInv, TypeOK
  <2> QED
    BY <1>2, <1>3, <1>4, <2>1 DEF CoreInv, TypeOK
<1>8. LockInv' /\ Phase' = Phase
  BY <1>2 DEF CoreInv, LockInv, Phase
<1>9. AskInv'
  <2> SUFFICES ASSUME Phase = "unshare"
               PROVE  /\ reply' = "NONE" => hostq' # <<>> /\ hostq'[Len(hostq')].op = "UNSHARE"
                      /\ reply' \notin {"BACKED", "UNBACKED", "REFUSED"}
    BY <1>8 DEF AskInv
  <2>1. /\ reply = "NONE" => hostq[Len(hostq)].op = "UNSHARE"
        /\ reply \notin {"BACKED", "UNBACKED", "REFUSED"}
    BY DEF CoreInv, AskInv
  <2>2. Waiting
    BY PhaseFacts DEF InFlight
  <2>3. ASSUME reply' = "NONE" PROVE reply = "NONE" /\ Len(hostq) # 1
    BY <1>5, <1>6, <2>2, <2>3
  <2>4. reply' \notin {"BACKED", "UNBACKED", "REFUSED"}
    BY <1>1, <1>3, <1>5, <2>1
  <2> QED
    BY <1>3, <2>1, <2>3, <2>4
<1> QED
  BY <1>2, <1>7, <1>8, <1>9, CoreSame

(* Preserved by every step, whatever the host and the transport do.        *)
LEMMA NextCore ==
  ASSUME CoreInv, [Next]_vars
  PROVE  CoreInv'
<1>1. Bo \subseteq Proc /\ Worker \in Proc /\ Fini \in Proc
  BY DEF Proc
<1>2. ASSUME NEW b \in Bo, AllocNext(b) \/ FreeNext(b) PROVE CoreInv'
  <2>1. Quiet(b) \/ AllocGrow(b) \/ ShareDone(b) \/ ShareUnknown(b) \/ ShareReconciled(b)
    BY <1>2 DEF AllocNext, Quiet
  <2> QED
    BY <1>1, <2>1, CoreQuiet, CoreGrow
<1>3. ASSUME NEW p \in Bo \cup {Worker}, ReclaimNext(p) PROVE CoreInv'
  <2>1. \/ Quiet(p)
        \/ ReclaimUnshare(p) \/ UnshareDone(p) \/ UnshareUnknown(p) \/ UnshareReconciled(p)
    BY <1>3 DEF ReclaimNext, Quiet
  <2>2. p \in Proc
    BY <1>1
  <2> QED
    BY <2>1, <2>2, CoreQuiet, CoreShrink
<1>4. ASSUME WorkNext PROVE CoreInv'
  <2>1. Quiet(Worker)
    BY <1>4 DEF Quiet
  <2> QED
    BY <1>1, <2>1, CoreQuiet
<1>5. ASSUME FiniNext PROVE CoreInv'
  <2>1. Quiet(Fini)
    BY <1>5 DEF Quiet
  <2> QED
    BY <1>1, <2>1, CoreQuiet
<1>6. ASSUME UNCHANGED vars PROVE CoreInv'
  <2>1. TypeOK' /\ LockInv' /\ Phase' = Phase
    BY <1>6 DEF CoreInv, TypeOK, LockInv, Phase, vars
  <2>2. AskInv'
    BY <1>6, <2>1 DEF CoreInv, AskInv, vars
  <2> QED
    BY <1>6, <2>1, <2>2, CoreSame DEF vars
<1> QED
  BY <1>2, <1>3, <1>4, <1>5, <1>6, CoreHost DEF Next, Stopped
-----------------------------------------------------------------------------
(* The inductive invariant, for every pool and every recoverable fault set. *)
THEOREM Inductive == Recoverable => (Spec => []IInv)
<1> SUFFICES ASSUME Recoverable PROVE Spec => []IInv
  OBVIOUS
<1>1. IInv /\ [Next]_vars => IInv'
  BY NextIInv
<1> QED
  BY <1>1, InitIInv, PTL DEF Spec

(* The part of the invariant that holds under every fault set.             *)
THEOREM CoreInductive == Spec => []CoreInv
<1>1. CoreInv /\ [Next]_vars => CoreInv'
  BY NextCore
<1> QED
  BY <1>1, InitCore, PTL DEF Spec

(* Type correctness of the pool's state, whatever is lost or refused.      *)
THEOREM TypeCorrect == Spec => []TypeOK
<1>1. CoreInv => TypeOK
  BY DEF CoreInv
<1> QED
  BY <1>1, CoreInductive, PTL

(* No page of a buffer object is ever outside memory that the host shares  *)
(* and the guest maps, whatever replies are lost, late or refused.         *)
THEOREM BoSafety == Recoverable => (Spec => []BoPagesShared)
<1>1. IInv => BoPagesShared
  BY DEF IInv, HostInv, BlockInv, BoPagesShared
<1> QED
  BY <1>1, Inductive, PTL

(* gpu_guest_pool_backed is the access boundary.                           *)
THEOREM BoundarySafety == Recoverable => (Spec => []BoundaryHonest)
<1>1. IInv => BoundaryHonest
  BY DEF IInv, HostInv, SafeTop, BoundaryHonest
<1> QED
  BY <1>1, Inductive, PTL

(* Teardown never destroys the buddy tree under a thread that works on it, *)
(* whatever is lost or refused.                                            *)
THEOREM GateSafety == Spec => []GateHolds
<1>1. CoreInv => GateHolds
  BY DEF CoreInv, LockInv, GateHolds
<1> QED
  BY <1>1, CoreInductive, PTL

(* The boundary stays on the grid of steps, above the floor, whatever is   *)
(* lost or refused.                                                        *)
THEOREM GridSafety == Spec => []BoundaryOnGrid
<1>1. ASSUME CoreInv PROVE BoundaryOnGrid
  <2>1. Prealloc <= backed /\ backed <= Size /\ Size \in Nat /\ backed \in Nat /\ Step \in Nat
        /\ step \in {0, Step}
    BY <1>1, BoundaryCore DEF CoreInv
  <2>2. ASSUME Step # 0 PROVE \E k \in 0 .. Size : backed = k * Step
    <3>1. PICK k \in Nat : backed = k * Step
      BY <1>1, <2>2 DEF CoreInv, GridInv, OnGrid
    <3>2. k <= backed
      BY <2>1, <2>2, <3>1
    <3> QED
      BY <2>1, <3>1, <3>2
  <2>3. step # 0 /\ backed < Size => step <= Size - backed
    BY <1>1, <2>1, BoundaryCore DEF CoreInv
  <2> QED
    BY <2>1, <2>2, <2>3 DEF BoundaryOnGrid
<1> QED
  BY <1>1, CoreInductive, PTL
-----------------------------------------------------------------------------
(* What is granted above the boundary.                                     *)
LEMMA InitGrant == Init => GrantInv
<1> SUFFICES ASSUME Init PROVE GrantInv
  OBVIOUS
<1>1. Phase = "free" /\ hostq = <<>> /\ GrantBelow(backed)
  BY DEF Init, Phase, GrantBelow
<1> QED
  BY <1>1, PhaseFacts DEF GrantInv, Tight, InFlight

(* No request is sent, answered or given up.                               *)
LEMMA GrantQuiet ==
  ASSUME GrantInv, UNCHANGED <<backed, step, hostq, reply, grant>>,
         Phase' = Phase \/ (Phase \notin InFlight /\ Phase' \notin InFlight)
  PROVE  GrantInv'
<1>1. /\ Waiting' <=> Phase' \in InFlight
      /\ Shrinking' <=> Phase' \in {"unshare", "unshareQuery"}
  BY PhaseFacts
<1>2. CASE Phase' = Phase
  BY <1>1, <1>2, PhaseFacts DEF GrantInv, GrantBelow, Tight, StepPages
<1>3. CASE Phase \notin InFlight /\ Phase' \notin InFlight
  BY <1>1, <1>3, PhaseFacts DEF GrantInv, GrantBelow, Tight, InFlight
<1> QED
  BY <1>2, <1>3

(* A thread that is in no request moves to a point that is in none.        *)
LEMMA PhaseQuiet ==
  ASSUME IInv, NEW p \in Proc, NEW l, pc[p] \notin InFlight, l \notin InFlight, Goto(p, l),
         \/ owner' = owner
         \/ owner = Nobody /\ owner' = p
         \/ owner = p /\ owner' = Nobody
  PROVE  Phase' = Phase \/ (Phase \notin InFlight /\ Phase' \notin InFlight)
<1>1. pc'[p] = l /\ (\A q \in Proc \ {p} : pc'[q] = pc[q]) /\ p # Nobody
  BY ProcTypes DEF IInv, Goto
<1>2. "free" \notin InFlight
  BY DEF InFlight
<1>3. owner \in Proc \cup {Nobody}
  BY ProcTypes DEF IInv
<1>4. CASE owner' = owner
  BY <1>1, <1>2, <1>3, <1>4 DEF Phase
<1>5. CASE owner = Nobody /\ owner' = p
  BY <1>1, <1>2, <1>5 DEF Phase
<1>6. CASE owner = p /\ owner' = Nobody
  BY <1>1, <1>2, <1>6 DEF Phase
<1> QED
  BY <1>4, <1>5, <1>6

LEMMA QuietSteps ==
  ASSUME IInv, NEW p \in Proc, Quiet(p)
  PROVE  /\ UNCHANGED <<backed, step, hostq, reply, grant>>
         /\ Phase' = Phase \/ (Phase \notin InFlight /\ Phase' \notin InFlight)
<1>1. UNCHANGED <<backed, step, hostq, reply, grant>>
  BY DEF Quiet, AllocEnter, AllocLock, AllocCarve, AllocFail, FreeNext, FreeEnter, FreeLock,
         ReclaimDone, Schedule, WorkNext, WorkStart, WorkLock, FiniNext, FiniCancel,
         FiniCancelled, FiniClose, poolVars, hostVars
<1>2. PICK l \in {"allocLock", "alloc", "none", "held", "reclaim", "freeLock", "dead", "workLock",
                 "cancel", "finiLock", "closed"} : Goto(p, l)
  BY DEF Quiet, AllocEnter, AllocLock, AllocCarve, AllocFail, FreeNext, FreeEnter, FreeLock,
         ReclaimDone, Schedule, WorkNext, WorkStart, WorkLock, FiniNext, FiniCancel,
         FiniCancelled, FiniClose, Lock, Unlock
<1>3. pc[p] \notin InFlight
  BY DEF Quiet, AllocEnter, AllocLock, AllocCarve, AllocFail, FreeNext, FreeEnter, FreeLock,
         ReclaimDone, Schedule, WorkNext, WorkStart, WorkLock, FiniNext, FiniCancel,
         FiniCancelled, FiniClose, InFlight
<1>4. \/ owner' = owner
      \/ owner = Nobody /\ owner' = p
      \/ pc[p] \in Locked /\ owner' = Nobody
  BY DEF Quiet, AllocEnter, AllocLock, AllocCarve, AllocFail, FreeNext, FreeEnter, FreeLock,
         ReclaimDone, Schedule, WorkNext, WorkStart, WorkLock, FiniNext, FiniCancel,
         FiniCancelled, FiniClose, Lock, Unlock, Locked
<1>5. pc[p] \in Locked => owner = p
  BY DEF IInv, LockInv
<1> QED
  BY <1>1, <1>2, <1>3, <1>4, <1>5, PhaseQuiet DEF InFlight

(* A request for the step at the boundary goes on an empty queue.          *)
LEMMA GrantSend ==
  ASSUME IInv, Answering, GrantInv, NEW p \in Proc, pc[p] \in {"alloc", "reclaim"}, step # 0,
         NEW m \in Message, hostq' = Append(hostq, m), UNCHANGED <<owner, backed, step, grant, ready>>,
         reply' = "NONE",
         \/ Goto(p, "share") /\ m.offset = backed
         \/ (Goto(p, "unshare") \/ Goto(p, "unshareQuery")) /\ m.op # "SHARE" /\ backed > Prealloc
  PROVE  GrantInv'
<1>1. PICK l \in {"share", "unshare", "unshareQuery"} :
        /\ Goto(p, l)
        /\ l = "share" => m.offset = backed
        /\ l # "share" => m.op # "SHARE" /\ backed > Prealloc
  OBVIOUS
<1>2. Phase = pc[p] /\ Phase' = l /\ l \in InFlight
  BY <1>1, HolderMoves DEF Locked, InFlight
<1>3. hostq = <<>>
  BY <1>2, PhaseFacts DEF IInv, DrainInv, InFlight
<1>4. \A i \in 1 .. Len(hostq') : hostq'[i] = m
  BY <1>3
<1>5. GrantBelow(backed)
  BY <1>2, PhaseFacts DEF GrantInv, Tight, InFlight
<1>6. GrantBelow(backed + step)
  BY <1>5, BoundaryFacts DEF GrantBelow
<1>7. l = "unshareQuery" => StepPages(backed - step) \subseteq grant
  <2>1. 0 .. backed - 1 \subseteq grant
    BY <1>2, PhaseFacts DEF IInv, HostInv, SafeTop
  <2> QED
    BY <1>1, <2>1, BoundaryFacts DEF StepPages
<1>8. /\ Waiting' /\ (Shrinking' <=> l # "share")
      /\ \A i \in 1 .. Len(hostq') : hostq'[i].op = "SHARE" => l = "share" /\ hostq'[i].offset = backed
  BY <1>1, <1>2, <1>4, PhaseFacts
<1>9. GrantBelow(backed)' /\ GrantBelow(backed + step)'
  BY <1>5, <1>6 DEF GrantBelow
<1>10. l = "unshareQuery" => StepPages(backed - step)' \subseteq grant'
  BY <1>7 DEF StepPages
<1> QED
  BY <1>2, <1>8, <1>9, <1>10 DEF GrantInv

LEMMA GrantGrow ==
  ASSUME IInv, Answering, GrantInv, NEW b \in Bo, AllocGrow(b)
  PROVE  GrantInv'
<1> DEFINE m == [op |-> "SHARE", offset |-> backed]
<1>1. /\ b \in Proc /\ pc[b] = "alloc" /\ Goto(b, "share") /\ step # 0
      /\ backed < Size /\ reply' = "NONE" /\ hostq' = Append(hostq, m)
      /\ UNCHANGED <<ready, backed, step, owner, grant>>
  BY DEF AllocGrow, Send, CanGrow, Proc, poolVars, hostVars
<1>2. m \in Message
  BY <1>1, BoundaryFacts DEF Message, Ops
<1> QED
  BY <1>1, <1>2, GrantSend

LEMMA GrantUnshare ==
  ASSUME IInv, Answering, GrantInv, NEW p \in Proc, ReclaimUnshare(p)
  PROVE  GrantInv'
<1> DEFINE m == [op |-> "UNSHARE", offset |-> backed - step]
<1>1. /\ pc[p] = "reclaim" /\ Goto(p, "unshare") /\ step # 0 /\ backed > Prealloc
      /\ reply' = "NONE" /\ hostq' = Append(hostq, m)
      /\ UNCHANGED <<ready, backed, step, owner, grant>>
  BY DEF ReclaimUnshare, StepFree, Send, poolVars, hostVars
<1>2. m \in Message
  BY <1>1, BoundaryFacts DEF Message, Ops
<1> QED
  BY <1>1, <1>2, GrantSend

(* The lock holder knows what became of its request.                       *)
LEMMA GrantSettle ==
  ASSUME IInv, Answering, GrantInv, NEW p \in Proc, pc[p] \in InFlight, pc' \in [Proc -> Locked \cup Unlocked],
         pc'[p] \notin InFlight, owner' \in {p, Nobody}, hostq' = <<>>,
         grant' = grant, Tight'
  PROVE  GrantInv'
<1>1. Phase' \notin InFlight
  BY DEF Phase, InFlight
<1> QED
  BY <1>1, PhaseFacts DEF GrantInv, InFlight

LEMMA GrantShareDone ==
  ASSUME IInv, Answering, GrantInv, NEW b \in Bo, ShareDone(b) \/ ShareReconciled(b)
  PROVE  GrantInv'
<1>1. /\ b \in Proc /\ pc[b] \in {"share", "shareQuery"} /\ pc[b] \in Locked /\ reply # "NONE"
      /\ UNCHANGED <<step, owner, hostq, grant>>
      /\ \/ /\ backed' = backed + step /\ Goto(b, "alloc")
         \/ /\ backed' = backed /\ Goto(b, "reclaim")
            /\ pc[b] = "share" => reply # "OK"
            /\ pc[b] = "shareQuery" => reply # "BACKED"
  BY DEF ShareDone, ShareReconciled, Answered, WaitExpires, Answering, Proc, Locked, hostVars
<1>2. owner = b /\ b # Nobody
  BY <1>1, ProcTypes DEF IInv, LockInv
<1>3. Phase = pc[b]
  BY <1>2 DEF Phase
<1>4. hostq = <<>>
  BY <1>1, <1>3 DEF IInv, QueueInv
<1>5. pc' \in [Proc -> Locked \cup Unlocked] /\ pc'[b] \notin InFlight
  BY <1>1, ProcTypes DEF IInv, Goto, Locked, InFlight
<1>6. Tight'
  BY <1>1, <1>3 DEF GrantInv, Tight, GrantBelow
<1> QED
  BY <1>1, <1>2, <1>4, <1>5, <1>6, GrantSettle DEF InFlight

LEMMA GrantShareUnknown ==
  ASSUME IInv, Answering, GrantInv, NEW b \in Bo, ShareUnknown(b)
  PROVE  GrantInv'
<1> DEFINE m == [op |-> "QUERY", offset |-> backed]
<1>1. /\ b \in Proc /\ pc[b] = "share" /\ pc[b] \in Locked /\ reply' = "NONE"
      /\ UNCHANGED <<ready, backed, step, owner, grant>> /\ reply # "OK"
      /\ \/ hostq' = Append(hostq, m) /\ Goto(b, "shareQuery")
         \/ Refused("QUERY")
  BY DEF ShareUnknown, Send, WaitExpires, Proc, Locked, poolVars, hostVars
<1>2. owner = b /\ b # Nobody
  BY <1>1, ProcTypes DEF IInv, LockInv
<1>3. Phase = "share"
  BY <1>1, <1>2 DEF Phase
<1>4. hostq' = Append(hostq, m) /\ Goto(b, "shareQuery")
  <2>1. Len(hostq) <= 1
    BY <1>3 DEF IInv, DrainInv
  <2>2. hostq \in Seq(Message)
    BY DEF IInv, TypeOK
  <2> QED
    BY <1>1, <2>1, <2>2, PoolAssumption DEF Refused, Answering
<1>5. Phase' = "shareQuery"
  BY <1>1, <1>4, HolderMoves DEF Locked
<1>6. m \in Message
  BY <1>3, BoundaryFacts, PhaseFacts DEF IInv, GridInv, Message, Ops, InFlight
<1>7. /\ Len(hostq') = Len(hostq) + 1 /\ Len(hostq) \in Nat /\ hostq'[Len(hostq')] = m
      /\ \A i \in 1 .. Len(hostq) : hostq'[i] = hostq[i]
  BY <1>4, <1>6, SendQueue DEF IInv, TypeOK
<1>8. \A i \in 1 .. Len(hostq') : hostq'[i].op = "SHARE" => hostq'[i].offset = backed
  BY <1>3, <1>7 DEF GrantInv
<1>9. GrantBelow(backed) /\ GrantBelow(backed + step)
  BY <1>1, <1>3 DEF GrantInv
<1>10. GrantBelow(backed)' /\ GrantBelow(backed + step)'
  BY <1>1, <1>9 DEF GrantBelow
<1>11. Waiting' /\ ~Shrinking'
  BY <1>5, PhaseFacts DEF InFlight
<1> QED
  BY <1>1, <1>5, <1>8, <1>10, <1>11 DEF GrantInv

LEMMA GrantUnshareDone ==
  ASSUME IInv, Answering, GrantInv, NEW p \in Proc, UnshareDone(p) \/ UnshareReconciled(p)
  PROVE  GrantInv'
<1>1. /\ pc[p] \in {"unshare", "unshareQuery"} /\ pc[p] \in Locked /\ reply # "NONE"
      /\ UNCHANGED <<hostq, grant>> /\ owner' \in {owner, Nobody}
      /\ Goto(p, "reclaim") \/ Goto(p, "sched") \/ Goto(p, "none")
      /\ \/ /\ backed' = backed - step /\ step' = step
            /\ pc[p] = "unshare" => reply = "OK"
            /\ pc[p] = "unshareQuery" => reply = "UNBACKED"
         \/ /\ backed' = backed - step /\ step' = 0
         \/ /\ backed' = backed /\ step' = step
  BY DEF UnshareDone, UnshareReconciled, Answered, WaitExpires, Answering, Locked, Unlock, hostVars
<1>2. owner = p /\ p # Nobody
  BY <1>1, ProcTypes DEF IInv, LockInv
<1>3. Phase = pc[p] /\ Shrinking /\ Waiting
  BY <1>1, <1>2 DEF Phase, Shrinking, Waiting
<1>4. hostq = <<>>
  BY <1>1 DEF IInv, QueueInv, DrainInv
<1>5. pc' \in [Proc -> Locked \cup Unlocked] /\ pc'[p] \notin InFlight
  <2>1. PICK l \in {"reclaim", "sched", "none"} : Goto(p, l)
    BY <1>1
  <2> QED
    BY <2>1, ProcTypes DEF IInv, Goto, Locked, Unlocked, InFlight
<1>6. step = Step /\ backed - step \in Nat
  BY <1>3, BoundaryFacts DEF IInv, GridInv
<1>7. GrantBelow(backed)
  BY <1>3 DEF GrantInv
<1>8. Tight'
  <2>1. CASE backed' = backed - step /\ step' = step
    <3>1. GrantBelow(backed - step) \/ backed' = backed
      BY <1>1, <1>3, <1>6, <2>1, BoundaryFacts DEF GrantInv, IInv, GridInv
    <3> QED
      BY <1>1, <1>7, <2>1, <3>1 DEF Tight, GrantBelow
  <2>2. CASE backed' = backed - step /\ step' = 0
    <3>1. backed' + Step = backed
      BY <1>6, <2>2, BoundaryFacts
    <3> QED
      BY <1>1, <1>7, <2>2, <3>1 DEF Tight, GrantBelow
  <2>3. CASE backed' = backed
    BY <1>1, <1>7, <2>3 DEF Tight, GrantBelow
  <2> QED
    BY <1>1, <2>1, <2>2, <2>3
<1> QED
  BY <1>1, <1>2, <1>4, <1>5, <1>8, GrantSettle DEF InFlight

LEMMA GrantUnshareUnknown ==
  ASSUME IInv, Answering, GrantInv, NEW p \in Proc, UnshareUnknown(p)
  PROVE  GrantInv'
<1> DEFINE m == [op |-> "QUERY", offset |-> backed - step]
<1>1. /\ pc[p] \in {"unshare", "reclaim"} /\ Goto(p, "unshareQuery")
      /\ UNCHANGED <<ready, backed, step, owner, grant>>
      /\ \/ hostq' = Append(hostq, m) /\ reply' = "NONE"
         \/ Refused("QUERY")
  BY DEF UnshareUnknown, Send, poolVars, hostVars
<1>2. pc[p] = "reclaim" => StepFree
  BY DEF UnshareUnknown
<1>3. Phase = pc[p] /\ Phase' = "unshareQuery"
  BY <1>1, HolderMoves DEF Locked
<1>4. step # 0 /\ backed > Prealloc
  BY <1>1, <1>2, <1>3, PhaseFacts DEF IInv, GridInv, StepFree, InFlight
<1>5. hostq \in Seq(Message) /\ m \in Message
  BY <1>4, BoundaryFacts DEF IInv, TypeOK, Message, Ops
<1>6. hostq' = Append(hostq, m) /\ reply' = "NONE"
  <2>1. Len(hostq) <= 1
    BY <1>1, <1>3, PhaseFacts DEF IInv, DrainInv, InFlight
  <2> QED
    BY <1>1, <1>5, <2>1, PoolAssumption DEF Refused, Answering
<1>7. CASE pc[p] = "reclaim"
  <2>1. m.op # "SHARE"
    OBVIOUS
  <2> QED
    BY <1>1, <1>4, <1>5, <1>6, <1>7, <2>1, GrantSend
<1>8. CASE pc[p] = "unshare"
  <2>1. /\ Len(hostq') = Len(hostq) + 1 /\ Len(hostq) \in Nat /\ hostq'[Len(hostq')] = m
        /\ \A i \in 1 .. Len(hostq) : hostq'[i] = hostq[i]
    BY <1>5, <1>6, SendQueue
  <2>2. \A i \in 1 .. Len(hostq') : hostq'[i].op # "SHARE"
    BY <1>3, <1>8, <2>1 DEF GrantInv
  <2>3. GrantBelow(backed)'
    BY <1>1, <1>3, <1>8, PhaseFacts DEF GrantInv, GrantBelow
  <2>4. StepPages(backed - step) \subseteq grant \/ GrantBelow(backed - step)
    BY <1>3, <1>8 DEF IInv, HostInv, GrantInv
  <2>5. StepPages(backed - step)' \subseteq grant' \/ GrantBelow(backed - step)'
    BY <1>1, <2>4 DEF StepPages, GrantBelow
  <2>6. Waiting' /\ Shrinking'
    BY <1>3, PhaseFacts DEF InFlight
  <2> QED
    BY <1>3, <1>6, <2>2, <2>3, <2>5, <2>6 DEF GrantInv
<1> QED
  BY <1>1, <1>7, <1>8
-----------------------------------------------------------------------------
(* The host's steps. Only the requests of this turn are on the queue.      *)
LEMMA GrantServe ==
  ASSUME IInv, IInv', GrantInv, hostq # <<>>, hostq' = Tail(hostq), UNCHANGED <<pc, owner, backed>>
  PROVE  /\ Phase' = Phase /\ Waiting' = Waiting /\ Shrinking' = Shrinking
         /\ \A i \in 1 .. Len(hostq') :
              hostq'[i].op = "SHARE" => Phase' \in {"share", "shareQuery"} /\ hostq'[i].offset = backed'
         /\ Head(hostq) = hostq[1] /\ 1 \in 1 .. Len(hostq)
<1>1. Phase' = Phase /\ Waiting' = Waiting /\ Shrinking' = Shrinking
  BY DEF Phase, Waiting, Shrinking
<1>2. /\ Len(hostq) \in Nat /\ Len(hostq) >= 1 /\ Len(hostq') = Len(hostq) - 1
      /\ Head(hostq) = hostq[1]
      /\ \A i \in 1 .. Len(hostq') : hostq'[i] = hostq[i + 1]
  BY ServeQueue DEF IInv, TypeOK
<1>3. \A i \in 1 .. Len(hostq') : i + 1 \in 1 .. Len(hostq)
  BY <1>2
<1> QED
  BY <1>1, <1>2, <1>3 DEF GrantInv

LEMMA QueueLength ==
  ASSUME IInv, hostq # <<>>
  PROVE  Len(hostq) <= 1 => Len(hostq) = 1
<1>1. hostq \in Seq(Message)
  BY DEF IInv, TypeOK
<1>2. Len(hostq) \in Nat /\ Len(hostq) >= 1
  BY <1>1
<1> QED
  BY <1>2

LEMMA GrantHostShare ==
  ASSUME IInv, IInv', Answering, GrantInv, HostShare
  PROVE  GrantInv'
<1>1. /\ hostq # <<>> /\ Head(hostq).op = "SHARE" /\ hostq' = Tail(hostq)
      /\ UNCHANGED <<backed, step, pc, owner>>
  BY DEF HostShare, HostServes, Answer, poolVars
<1>2. PICK r \in {"EEXIST", "OK"} :
        /\ Answer(r)
        /\ r = "OK" => grant' = grant \cup HeadPages
        /\ r = "EEXIST" => grant' = grant
  BY DEF HostShare, hostVars
<1>3. /\ Phase' = Phase /\ Waiting' = Waiting /\ Shrinking' = Shrinking
      /\ \A i \in 1 .. Len(hostq') :
           hostq'[i].op = "SHARE" => Phase' \in {"share", "shareQuery"} /\ hostq'[i].offset = backed'
      /\ Head(hostq) = hostq[1] /\ 1 \in 1 .. Len(hostq)
  BY <1>1, GrantServe
<1>4. Phase \in {"share", "shareQuery"} /\ HeadPages = StepPages(backed)
  BY <1>1, <1>3 DEF GrantInv, HeadPages
<1>5. Waiting /\ ~Shrinking
  BY <1>4, PhaseFacts DEF InFlight
<1>6. step = Step /\ backed \in Nat /\ Step \in Nat
  BY <1>5, BoundaryFacts DEF IInv, GridInv
<1>7. reply = "NONE"
  BY <1>1, <1>4 DEF IInv, QueueInv
<1>8. ASSUME Phase = "share" PROVE reply' = r
  <2>1. Len(hostq) <= 1
    BY <1>8 DEF IInv, DrainInv
  <2>2. Len(hostq) = 1
    BY <1>1, <2>1, QueueLength
  <2> QED
    BY <1>2, <1>5, <1>7, <2>2 DEF Answer
<1>9. Phase = "shareQuery" => reply' = "NONE"
  <2>1. Phase = "shareQuery" => Len(hostq) # 1
    BY <1>1, <1>3, <1>5, <1>7 DEF IInv, QueueInv, Awaited
  <2> QED
    BY <1>2, <1>7, <2>1 DEF Answer
<1>10. GrantBelow(backed + step)'
  <2>1. GrantBelow(backed + step)
    BY <1>4 DEF GrantInv
  <2>2. HeadPages \subseteq 0 .. (backed + step) - 1
    BY <1>4, <1>6 DEF StepPages
  <2>3. grant' \subseteq 0 .. (backed + step) - 1
    BY <1>2, <2>1, <2>2 DEF GrantBelow
  <2> QED
    BY <1>1, <2>3 DEF GrantBelow
<1>11. CASE Phase = "share"
  <2>1. reply' # "OK" => GrantBelow(backed)'
    BY <1>1, <1>2, <1>7, <1>8, <1>11 DEF GrantInv, GrantBelow
  <2> QED
    BY <1>3, <1>5, <1>10, <1>11, <2>1 DEF GrantInv
<1>12. CASE Phase = "shareQuery"
  <2>1. GrantBelow(backed)' \/ StepPages(backed)' \subseteq grant'
    BY <1>1, <1>2, <1>4, <1>12 DEF GrantInv, GrantBelow, StepPages
  <2> QED
    BY <1>3, <1>5, <1>9, <1>10, <1>12, <2>1 DEF GrantInv
<1> QED
  BY <1>4, <1>11, <1>12

LEMMA GrantHostUnshare ==
  ASSUME IInv, IInv', Answering, GrantInv, HostUnshare
  PROVE  GrantInv'
<1>1. /\ hostq # <<>> /\ Head(hostq).op = "UNSHARE" /\ hostq' = Tail(hostq)
      /\ grant' = grant \ HeadPages
      /\ UNCHANGED <<backed, step, pc, owner>>
  BY DEF HostUnshare, HostServes, Answer, poolVars
<1>2. /\ Phase' = Phase /\ Waiting' = Waiting /\ Shrinking' = Shrinking
      /\ \A i \in 1 .. Len(hostq') :
           hostq'[i].op = "SHARE" => Phase' \in {"share", "shareQuery"} /\ hostq'[i].offset = backed'
      /\ Head(hostq) = hostq[1] /\ 1 \in 1 .. Len(hostq)
  BY <1>1, GrantServe
<1>3. Shrinking /\ HeadPages = StepPages(backed - step)
  BY <1>1, <1>2 DEF IInv, UnshareInv, HeadPages
<1>4. Phase \in {"unshare", "unshareQuery"} /\ Waiting
  BY <1>3, PhaseFacts DEF InFlight
<1>5. step = Step /\ backed \in Nat /\ Step \in Nat
  BY <1>4, BoundaryFacts DEF IInv, GridInv
<1>6. GrantBelow(backed)
  BY <1>3 DEF GrantInv
<1>7. GrantBelow(backed - step)' /\ GrantBelow(backed)'
  BY <1>1, <1>3, <1>5, <1>6 DEF GrantBelow, StepPages
<1> QED
  BY <1>2, <1>3, <1>4, <1>7 DEF GrantInv

LEMMA GrantHostAnswer ==
  ASSUME IInv, IInv', Recoverable, Answering, GrantInv, HostError \/ HostQuery
  PROVE  GrantInv'
<1>1. /\ hostq # <<>> /\ hostq' = Tail(hostq)
      /\ UNCHANGED <<backed, step, pc, owner, grant>>
  BY DEF HostError, HostQuery, HostServes, Answer, poolVars, hostVars
<1>2. /\ Phase' = Phase /\ Waiting' = Waiting /\ Shrinking' = Shrinking
      /\ \A i \in 1 .. Len(hostq') :
           hostq'[i].op = "SHARE" => Phase' \in {"share", "shareQuery"} /\ hostq'[i].offset = backed'
      /\ Head(hostq) = hostq[1] /\ 1 \in 1 .. Len(hostq)
  BY <1>1, GrantServe
<1>3. PICK r :
        /\ Answer(r)
        /\ \/ r \in HostErrors /\ Head(hostq).op # "QUERY"
           \/ /\ Head(hostq).op = "QUERY" /\ r \in {"BACKED", "UNBACKED"}
              /\ r = "BACKED" <=> HeadPages \subseteq grant
  BY DEF HostError, HostQuery, HostServes
<1>4. r \notin {"OK", "NONE"}
  BY <1>3, PoolAssumption
<1>5. \/ reply' = reply
      \/ Waiting /\ reply = "NONE" /\ reply' = r /\ Head(hostq) = Awaited
  BY <1>1, <1>2, <1>3 DEF Answer, IInv, QueueInv
<1>6. CASE reply' = reply
  BY <1>1, <1>2, <1>6 DEF GrantInv, GrantBelow, Tight, StepPages
<1>7. CASE Waiting /\ reply = "NONE" /\ reply' = r /\ Head(hostq) = Awaited
  <2>1. Phase \in InFlight
    BY <1>7, PhaseFacts
  <2>2. /\ GrantBelow(backed)' <=> GrantBelow(backed)
        /\ GrantBelow(backed + step)' <=> GrantBelow(backed + step)
        /\ GrantBelow(backed - step)' <=> GrantBelow(backed - step)
        /\ StepPages(backed)' = StepPages(backed) /\ StepPages(backed - step)' = StepPages(backed - step)
    BY <1>1 DEF GrantBelow, StepPages
  <2>3. Phase = "shareQuery" /\ r # "BACKED" => GrantBelow(backed)
    BY <1>3, <1>7 DEF Awaited, HeadPages, GrantInv
  <2>4. Phase = "unshareQuery" /\ r = "UNBACKED" => GrantBelow(backed - step)
    BY <1>3, <1>7, PoolAssumption DEF Awaited, HeadPages, GrantInv
  <2> QED
    BY <1>1, <1>2, <1>4, <1>7, <2>1, <2>2, <2>3, <2>4 DEF GrantInv, InFlight
<1> QED
  BY <1>5, <1>6, <1>7

LEMMA NextGrant ==
  ASSUME IInv, IInv', Recoverable, Answering, GrantInv, [Next]_vars
  PROVE  GrantInv'
<1>1. ASSUME NEW b \in Bo, AllocNext(b) \/ FreeNext(b) PROVE GrantInv'
  <2>1. b \in Proc
    BY DEF Proc
  <2>2. CASE Quiet(b)
    BY <2>1, <2>2, QuietSteps, GrantQuiet
  <2>3. CASE ~Quiet(b)
    BY <1>1, <2>3, GrantGrow, GrantShareDone, GrantShareUnknown DEF AllocNext, Quiet
  <2> QED
    BY <2>2, <2>3
<1>2. ASSUME NEW p \in Bo \cup {Worker}, ReclaimNext(p) PROVE GrantInv'
  <2>1. p \in Proc
    BY DEF Proc
  <2>2. CASE Quiet(p)
    BY <2>1, <2>2, QuietSteps, GrantQuiet
  <2>3. CASE ~Quiet(p)
    BY <1>2, <2>1, <2>3, GrantUnshare, GrantUnshareDone, GrantUnshareUnknown DEF ReclaimNext, Quiet
  <2> QED
    BY <2>2, <2>3
<1>3. ASSUME WorkNext \/ FiniNext PROVE GrantInv'
  <2>1. PICK p \in Proc : Quiet(p)
    BY <1>3 DEF Quiet, Proc
  <2> QED
    BY <2>1, QuietSteps, GrantQuiet
<1>4. ASSUME HostNext PROVE GrantInv'
  BY <1>4, GrantHostShare, GrantHostUnshare, GrantHostAnswer DEF HostNext
<1>5. ASSUME UNCHANGED vars PROVE GrantInv'
  <2>1. UNCHANGED <<backed, step, hostq, reply, grant>> /\ Phase' = Phase
    BY <1>5 DEF vars, Phase
  <2> QED
    BY <2>1, GrantQuiet
<1> QED
  BY <1>1, <1>2, <1>3, <1>4, <1>5 DEF Next, Stopped

(* Where queries are answered, a lost reply leaves no grant above the      *)
(* boundary behind, but for the step an -EUCLEAN gives up.                 *)
THEOREM GrantSafety == Recoverable /\ Answering => (Spec => []NoOrphanGrant)
<1> SUFFICES ASSUME Recoverable, Answering PROVE Spec => []NoOrphanGrant
  OBVIOUS
<1>1. IInv /\ IInv' /\ GrantInv /\ [Next]_vars => GrantInv'
  BY NextGrant
<1>2. ASSUME IInv, GrantInv PROVE NoOrphanGrant
  <2>1. owner = Nobody => Tight
    BY <1>2 DEF GrantInv, Waiting
  <2> QED
    BY <1>2, <2>1, BoundaryFacts DEF NoOrphanGrant, Tight, GrantBelow
<1> QED
  BY <1>1, <1>2, InitGrant, Inductive, PTL DEF Spec
-----------------------------------------------------------------------------
(* A free top step is not forgotten.                                       *)
LEMMA InitTop == Init => FiniInv /\ TopInv
<1> SUFFICES ASSUME Init PROVE FiniInv /\ TopInv
  OBVIOUS
<1>1. Phase = "free" /\ ~(backed > Prealloc)
  BY PoolAssumption DEF Init, Phase
<1>2. FiniInv
  BY DEF Init, FiniInv
<1> QED
  BY <1>1, <1>2 DEF TopInv, Idling

(* A thread other than fini's moves.                                       *)
LEMMA OtherMoves ==
  ASSUME IInv, NEW p \in Bo \cup {Worker}, NEW l, Goto(p, l)
  PROVE  /\ p \in Proc /\ p # Nobody /\ p # Fini /\ pc'[p] = l /\ pc'[Fini] = pc[Fini]
         /\ \A q \in Proc \ {p} : pc'[q] = pc[q]
<1>1. p \in Proc /\ Fini \in Proc /\ p # Fini /\ p # Nobody
  BY PoolAssumption DEF Proc
<1> QED
  BY <1>1, ProcTypes DEF IInv, Goto

LEMMA FiniKept ==
  ASSUME FiniInv, pc'[Fini] = pc[Fini], UNCHANGED <<ready, canceling>>
  PROVE  FiniInv'
  BY DEF FiniInv

(* What a thread that is in no request leaves of a pending retry.          *)
LEMMA RetryKept ==
  ASSUME IInv, NEW p \in Bo \cup {Worker}, NEW l, Goto(p, l), Retry, armed => armed',
         pc[p] \notin {"sched", "workLock"}
  PROVE  Retry'
<1>1. \A q \in Bo \cup {Worker} : q \in Proc
  BY DEF Proc
<1> QED
  BY <1>1, OtherMoves DEF Retry

LEMMA RoomSame ==
  ASSUME UNCHANGED <<blk, owner, backed, step>>, req'[owner] = req[owner]
  PROVE  /\ NoRoom(owner, backed)' <=> NoRoom(owner, backed)
         /\ NoRoom(owner, backed - step)' <=> NoRoom(owner, backed - step)
<1>1. FreePages' = FreePages
  BY DEF FreePages
<1> QED
  BY <1>1 DEF NoRoom, Carvings, Wanted

LEMMA IdlingSame ==
  ASSUME UNCHANGED <<blk, backed, step>>, pc'[Fini] = "none" => pc[Fini] = "none", Idling'
  PROVE  Idling
<1>1. FreePages' = FreePages
  BY DEF FreePages
<1> QED
  BY <1>1 DEF Idling, SuffixFree, StepPages

(* The lock holder does not move.                                          *)
LEMMA TopStay ==
  ASSUME TopInv, UNCHANGED <<blk, owner, backed, step, reply, ret>>, Phase' = Phase,
         owner \in Bo => req'[owner] = req[owner],
         pc'[Fini] = "none" => pc[Fini] = "none" /\ (Retry => Retry')
  PROVE  TopInv'
<1>1. Idling' => Idling /\ (Retry => Retry')
  BY IdlingSame DEF Idling
<1>2. ASSUME owner \in Bo
      PROVE  /\ NoRoom(owner, backed)' <=> NoRoom(owner, backed)
             /\ NoRoom(owner, backed - step)' <=> NoRoom(owner, backed - step)
  BY <1>2, RoomSame
<1> QED
  BY <1>1, <1>2 DEF TopInv

LEMMA OutsidePhase ==
  ASSUME IInv, NEW p \in Proc, NEW l, pc[p] \in Unlocked, Goto(p, l), owner' = owner
  PROVE  Phase' = Phase /\ owner # p
<1>1. owner # p /\ owner \in Proc \cup {Nobody}
  BY ProcTypes DEF IInv, LockInv, Locked, Unlocked
<1> QED
  BY <1>1, ProcTypes DEF IInv, Goto, Phase

(* Threads outside the lock that stay outside.                             *)
LEMMA TopOutside ==
  ASSUME IInv, FiniInv, TopInv, NEW b \in Bo,
         \/ \E n \in Requests : AllocEnter(b, n)
         \/ AllocLock(b) /\ ~ready
         \/ FreeEnter(b)
         \/ FreeLock(b) /\ ~ready
  PROVE  FiniInv' /\ TopInv'
<1>1. /\ UNCHANGED <<ready, backed, step, blk, owner, ret, armed, canceling, reply>>
      /\ pc[b] \in {"none", "allocLock", "held", "freeLock"}
  BY DEF AllocEnter, AllocLock, FreeEnter, FreeLock, poolVars, boVars, workVars
<1>2. PICK l \in {"allocLock", "none", "freeLock", "dead"} : Goto(b, l)
  BY DEF AllocEnter, AllocLock, FreeEnter, FreeLock
<1>3. b \in Bo \cup {Worker} /\ b \in Proc
  BY DEF Proc
<1>4. Phase' = Phase /\ owner # b
  BY <1>1, <1>2, <1>3, OutsidePhase DEF Unlocked
<1>5. pc'[Fini] = pc[Fini] /\ (Retry => Retry')
  BY <1>1, <1>2, <1>3, OtherMoves, RetryKept
<1>6. owner \in Bo => req'[owner] = req[owner]
  <2>1. req' = req \/ \E n \in Requests : req' = [req EXCEPT ![b] = n]
    BY DEF AllocEnter, AllocLock, FreeEnter, FreeLock, boVars
  <2> QED
    BY <1>4, <2>1 DEF IInv, TypeOK
<1> QED
  BY <1>1, <1>4, <1>5, <1>6, TopStay, FiniKept

LEMMA TopSchedule ==
  ASSUME IInv, FiniInv, TopInv, NEW p \in Bo \cup {Worker}, Schedule(p)
  PROVE  FiniInv' /\ TopInv'
<1>1. /\ UNCHANGED <<ready, backed, step, blk, req, owner, ret, canceling, reply>>
      /\ pc[p] = "sched" /\ Goto(p, "none") /\ armed' = (armed \/ ~canceling)
  BY DEF Schedule, poolVars, boVars
<1>2. p \in Proc /\ pc'[Fini] = pc[Fini]
  BY <1>1, OtherMoves
<1>3. Phase' = Phase
  BY <1>1, <1>2, OutsidePhase DEF Unlocked
<1>4. pc'[Fini] = "none" => armed'
  BY <1>1, <1>2 DEF FiniInv
<1>5. pc'[Fini] = "none" => pc[Fini] = "none" /\ (Retry => Retry')
  BY <1>2, <1>4 DEF Retry
<1> QED
  BY <1>1, <1>2, <1>3, <1>5, TopStay, FiniKept

LEMMA TopWork ==
  ASSUME IInv, FiniInv, TopInv, WorkStart \/ (WorkLock /\ ~ready)
  PROVE  FiniInv' /\ TopInv'
<1>1. /\ UNCHANGED <<ready, backed, step, blk, req, owner, ret, canceling, reply>>
      /\ pc[Worker] \in {"none", "workLock"}
      /\ Goto(Worker, "workLock") \/ (Goto(Worker, "none") /\ ~ready)
  BY DEF WorkStart, WorkLock, poolVars, boVars, workVars
<1>2. PICK l \in {"none", "workLock"} : Goto(Worker, l) /\ (l = "none" => ~ready)
  BY <1>1
<1>3. Worker \in Proc /\ pc'[Fini] = pc[Fini] /\ pc'[Worker] = l
  BY <1>2, OtherMoves
<1>4. Phase' = Phase
  BY <1>1, <1>2, <1>3, OutsidePhase DEF Unlocked
<1>5. pc'[Fini] = "none" => pc[Fini] = "none" /\ Retry'
  BY <1>2, <1>3 DEF FiniInv, Retry
<1> QED
  BY <1>1, <1>3, <1>4, <1>5, TopStay, FiniKept

LEMMA TopFini ==
  ASSUME IInv, FiniInv, TopInv, FiniNext
  PROVE  FiniInv' /\ TopInv'
<1>1. /\ UNCHANGED <<backed, step, blk, req, owner, ret, reply>>
      /\ pc[Fini] \in {"none", "cancel", "finiLock"}
  BY DEF FiniNext, FiniCancel, FiniCancelled, FiniClose, poolVars, boVars
<1>2. PICK l \in {"cancel", "finiLock", "closed"} : Goto(Fini, l)
  BY DEF FiniNext, FiniCancel, FiniCancelled, FiniClose
<1>3. Fini \in Proc
  BY DEF Proc
<1>4. pc'[Fini] = l
  BY <1>2, <1>3, ProcTypes DEF IInv, Goto
<1>5. Phase' = Phase
  BY <1>1, <1>2, <1>3, OutsidePhase DEF Unlocked
<1>6. TopInv'
  BY <1>1, <1>4, <1>5, TopStay
<1>7. FiniInv'
  <2>1. CASE FiniCancel
    BY <1>3, <2>1, ProcTypes DEF FiniCancel, FiniInv, IInv, Goto, poolVars
  <2>2. CASE FiniCancelled
    BY <1>3, <2>2, ProcTypes DEF FiniCancelled, FiniInv, IInv, Goto, poolVars
  <2>3. CASE FiniClose
    BY <1>3, <2>3, ProcTypes DEF FiniClose, FiniInv, IInv, Goto, workVars
  <2> QED
    BY <2>1, <2>2, <2>3 DEF FiniNext
<1> QED
  BY <1>6, <1>7

(* The lock is taken to reclaim, or the holder gets there.                 *)
LEMMA TopReclaim ==
  ASSUME IInv, FiniInv, TopInv, NEW p \in Bo \cup {Worker}, Goto(p, "reclaim"), owner' = p,
         UNCHANGED <<ready, canceling>>
  PROVE  FiniInv' /\ TopInv'
<1>1. pc'[Fini] = pc[Fini] /\ Phase' = "reclaim" /\ owner' # Nobody
  BY OtherMoves DEF Phase
<1>2. FiniInv'
  BY <1>1, FiniKept
<1> QED
  BY <1>1, <1>2 DEF TopInv

LEMMA TopToReclaim ==
  ASSUME IInv, FiniInv, TopInv, NEW p \in Bo \cup {Worker},
         \/ p \in Bo /\ (AllocFail(p) \/ (FreeLock(p) /\ ready))
         \/ p = Worker /\ WorkLock /\ ready
         \/ p \in Bo /\ (ShareDone(p) \/ ShareReconciled(p) \/ ShareUnknown(p)) /\ Goto(p, "reclaim")
         \/ UnshareDone(p)
         \/ UnshareReconciled(p) /\ Goto(p, "reclaim") /\ UNCHANGED owner
  PROVE  FiniInv' /\ TopInv'
<1>1. UNCHANGED <<ready, canceling>> /\ Goto(p, "reclaim")
  BY DEF AllocFail, FreeLock, WorkLock, ShareDone, ShareReconciled, ShareUnknown, UnshareDone,
         UnshareReconciled, Lock, poolVars, workVars
<1>2. owner' = p \/ (owner' = owner /\ pc[p] \in Locked)
  BY DEF AllocFail, FreeLock, WorkLock, ShareDone, ShareReconciled, ShareUnknown, UnshareDone,
         UnshareReconciled, Lock, Locked
<1>3. p \in Proc
  BY DEF Proc
<1>4. owner' = p
  BY <1>2, <1>3 DEF IInv, LockInv
<1> QED
  BY <1>1, <1>4, TopReclaim

LEMMA TopAllocLock ==
  ASSUME IInv, FiniInv, TopInv, NEW b \in Bo, AllocLock(b), ready
  PROVE  FiniInv' /\ TopInv'
<1>1. /\ owner = Nobody /\ owner' = b /\ Goto(b, "alloc") /\ pc[b] = "allocLock"
      /\ UNCHANGED <<ready, canceling, armed, blk, backed, step>>
  BY DEF AllocLock, Lock, poolVars, boVars, workVars
<1>2. b \in Bo \cup {Worker}
  OBVIOUS
<1>3. /\ pc'[Fini] = pc[Fini] /\ Phase' = "alloc" /\ owner' # Nobody
      /\ Retry => Retry'
  BY <1>1, <1>2, OtherMoves, RetryKept DEF Phase
<1>4. Idling' => Idling
  BY <1>1, <1>3, IdlingSame
<1>5. Idling' => Retry'
  BY <1>1, <1>3, <1>4 DEF TopInv
<1> QED
  BY <1>1, <1>3, <1>5, FiniKept DEF TopInv

LEMMA BelowCount ==
  ASSUME NEW n \in Nat, NEW U, U \subseteq 0 .. n - 1
  PROVE  Cardinality(U) \in Nat /\ Cardinality(U) <= n
<1>1. PICK I : I = 0 .. n - 1
  OBVIOUS
<1>2. IsFiniteSet(I) /\ Cardinality(I) = n
  BY <1>1, FS_Interval
<1>3. U \in SUBSET I
  BY <1>1
<1>4. IsFiniteSet(U) /\ Cardinality(U) <= Cardinality(I)
  BY <1>2, <1>3, FS_Subset
<1> QED
  BY <1>2, <1>4, FS_CardinalityType

(* drm_buddy found the blocks: the growth before was needed, so the blocks *)
(* reach into the top step.                                                *)
LEMMA CarveTop ==
  ASSUME IInv, NEW b \in Bo, backed >= Wanted(b), NEW U \in Fits(b), step # 0, backed > Prealloc,
         NoRoom(b, backed - step), StepPages(backed - step) \cap U = {}
  PROVE  FALSE
<1> DEFINE n == backed - step
<1>1. n \in Nat /\ step = Step /\ Step \in Nat /\ backed \in Nat
  BY BoundaryFacts
<1>2. U \subseteq FreePages /\ \A u \in U : u < backed /\ u \in Nat
  BY DEF Fits, Carvings, FreePages, Pages
<1>3. \A u \in U : u < n
  BY <1>1, <1>2 DEF StepPages
<1>4. U \in Carvings(Wanted(b), MinBlockSize(req[b], MaxNents), n)
  BY <1>2, <1>3 DEF Fits, Carvings
<1>5. Cardinality(U) = Wanted(b)
  BY DEF Fits, Carvings
<1>6. U \subseteq 0 .. n - 1
  BY <1>1, <1>2, <1>3
<1> HIDE DEF n
<1>7. Cardinality(U) \in Nat /\ Cardinality(U) <= n
  BY <1>1, <1>6, BelowCount
<1>8. NoRoom(b, n)
  BY DEF n
<1> QED
  BY <1>1, <1>4, <1>5, <1>7, <1>8 DEF NoRoom

LEMMA TopCarve ==
  ASSUME IInv, FiniInv, TopInv, HoldInv, NEW b \in Bo, AllocCarve(b)
  PROVE  FiniInv' /\ TopInv'
<1>1. /\ pc[b] = "alloc" /\ owner' = Nobody /\ Goto(b, "held") /\ backed >= Wanted(b)
      /\ UNCHANGED <<ready, canceling, armed, backed, step>>
  BY DEF AllocCarve, Unlock, poolVars, workVars
<1>2. PICK U \in Fits(b) : blk' = [blk EXCEPT ![b] = U]
  BY DEF AllocCarve
<1>3. b \in Bo \cup {Worker} /\ b \in Proc
  BY DEF Proc
<1>4. /\ pc'[Fini] = pc[Fini] /\ Phase' = "free"
      /\ Retry => Retry'
  BY <1>1, <1>3, OtherMoves, RetryKept DEF Phase
<1>5. owner = b /\ Phase = "alloc"
  BY <1>1, <1>3, ProcTypes DEF IInv, LockInv, Locked, Phase
<1>6. ASSUME Idling' PROVE Retry'
  <2>1. step # 0 /\ backed > Prealloc /\ pc[Fini] = "none"
    BY <1>1, <1>4, <1>6 DEF Idling
  <2>2. StepPages(backed - step) \subseteq FreePages'
    BY <1>1, <1>6 DEF Idling, SuffixFree, StepPages
  <2>3. \A c \in Bo : blk'[c] \cap StepPages(backed - step) = {}
    BY <2>2 DEF FreePages
  <2>4. blk \in [Bo -> SUBSET Pages]
    BY DEF IInv, TypeOK
  <2>5. StepPages(backed - step) \cap U = {}
    BY <1>2, <2>3, <2>4
  <2>6. \A c \in Bo \ {b} : blk'[c] = blk[c]
    BY <1>2, <2>4
  <2>7. blk[b] \cap StepPages(backed - step) = {} => Idling
    <3>1. StepPages(backed - step) \subseteq Pages
      BY <2>2 DEF FreePages
    <3> QED
      BY <2>1, <2>3, <2>6, <3>1 DEF Idling, SuffixFree, FreePages
  <2>8. blk[b] = {}
    BY <1>1 DEF HoldInv
  <2>9. Retry \/ NoRoom(b, backed - step)
    BY <1>5, <2>7, <2>8 DEF TopInv
  <2> QED
    BY <1>1, <1>4, <2>1, <2>5, <2>9, CarveTop
<1> QED
  BY <1>1, <1>4, <1>6, FiniKept DEF TopInv

LEMMA TopGrow ==
  ASSUME IInv, FiniInv, TopInv, NEW b \in Bo, AllocGrow(b)
  PROVE  FiniInv' /\ TopInv'
<1>1. /\ pc[b] = "alloc" /\ Goto(b, "share") /\ (backed < Wanted(b) \/ Fits(b) = {})
      /\ UNCHANGED <<ready, canceling, blk, req, owner, backed, step>>
  BY DEF AllocGrow, Send, poolVars, boVars, workVars
<1>2. b \in Bo \cup {Worker} /\ b \in Proc
  BY DEF Proc
<1>3. owner = b /\ Phase' = "share" /\ pc'[Fini] = pc[Fini] /\ b # Nobody
  BY <1>1, <1>2, OtherMoves DEF IInv, LockInv, Locked, Phase
<1>4. NoRoom(owner, backed)
  BY <1>1, <1>3 DEF NoRoom, Fits
<1>5. NoRoom(owner, backed)'
  BY <1>1, <1>4, RoomSame
<1> QED
  BY <1>1, <1>3, <1>5, FiniKept DEF TopInv

(* The boundary goes up by a step the carving needs.                       *)
LEMMA TopGrown ==
  ASSUME IInv, FiniInv, TopInv, NEW b \in Bo,
         ShareDone(b) \/ ShareReconciled(b) \/ ShareUnknown(b)
  PROVE  FiniInv' /\ TopInv'
<1>1. /\ pc[b] \in {"share", "shareQuery"} /\ pc[b] \in Locked
      /\ UNCHANGED <<ready, canceling, blk, req, owner, step>>
  BY DEF ShareDone, ShareReconciled, ShareUnknown, Locked, poolVars, boVars, workVars
<1>2. b \in Bo \cup {Worker} /\ b \in Proc
  BY DEF Proc
<1>3. owner = b /\ b # Nobody
  BY <1>1, <1>2, ProcTypes DEF IInv, LockInv
<1>4. Phase = pc[b]
  BY <1>3 DEF Phase
<1>5. NoRoom(b, backed)
  BY <1>1, <1>3, <1>4 DEF TopInv
<1>6. CASE Goto(b, "reclaim")
  BY <1>2, <1>6, TopToReclaim
<1>7. CASE ~Goto(b, "reclaim")
  <2>1. \/ Goto(b, "alloc") /\ backed' = backed + step
        \/ Goto(b, "shareQuery") /\ backed' = backed
    BY <1>7 DEF ShareDone, ShareReconciled, ShareUnknown, Send, poolVars
  <2>2. CASE Goto(b, "alloc") /\ backed' = backed + step
    <3>1. Phase' = "alloc" /\ pc'[Fini] = pc[Fini]
      BY <1>1, <1>2, <1>3, <2>2, OtherMoves DEF Phase
    <3>2. backed' - step' = backed
      BY <1>1, <2>2, BoundaryFacts
    <3>3. FreePages' = FreePages
      BY <1>1 DEF FreePages
    <3>4. NoRoom(owner, backed - step)'
      BY <1>1, <1>3, <1>5, <3>2, <3>3 DEF NoRoom, Carvings, Wanted
    <3> QED
      BY <1>1, <1>3, <3>1, <3>4, FiniKept DEF TopInv
  <2>3. CASE Goto(b, "shareQuery") /\ backed' = backed
    <3>1. Phase' = "shareQuery" /\ pc'[Fini] = pc[Fini]
      BY <1>1, <1>2, <1>3, <2>3, OtherMoves DEF Phase
    <3>2. NoRoom(owner, backed)'
      BY <1>1, <1>3, <1>5, <2>3, RoomSame
    <3> QED
      BY <1>1, <1>3, <3>1, <3>2, FiniKept DEF TopInv
  <2> QED
    BY <2>1, <2>2, <2>3
<1> QED
  BY <1>6, <1>7

LEMMA TopDone ==
  ASSUME IInv, Retriable, FiniInv, TopInv, NEW p \in Bo \cup {Worker}, ReclaimDone(p)
  PROVE  FiniInv' /\ TopInv'
<1>1. /\ owner' = Nobody /\ Goto(p, "none") /\ ~StepFree
      /\ UNCHANGED <<ready, canceling, blk, backed, step>>
  BY DEF ReclaimDone, Unlock, poolVars, boVars, workVars
<1>2. pc'[Fini] = pc[Fini] /\ Phase' = "free"
  BY <1>1, OtherMoves DEF Phase
<1>3. Idling' => Idling
  BY <1>1, <1>2, IdlingSame
<1>4. ~Idling
  BY <1>1, BoundaryFacts DEF StepFree, Idling, Retriable
<1> QED
  BY <1>1, <1>2, <1>3, <1>4, FiniKept DEF TopInv

LEMMA TopUnshare ==
  ASSUME IInv, Retriable, FiniInv, TopInv, NEW p \in Bo \cup {Worker},
         ReclaimUnshare(p) \/ UnshareUnknown(p)
  PROVE  FiniInv' /\ TopInv'
<1>1. /\ pc[p] \in {"reclaim", "unshare"} /\ pc[p] \in Locked
      /\ UNCHANGED <<ready, canceling, owner>>
  BY DEF ReclaimUnshare, UnshareUnknown, Locked, poolVars, workVars
<1>2. p \in Proc
  BY DEF Proc
<1>3. owner = p /\ p # Nobody
  BY <1>1, <1>2, ProcTypes DEF IInv, LockInv
<1>4. Phase = pc[p]
  BY <1>3 DEF Phase
<1>5. CASE ReclaimUnshare(p)
  <2>1. Goto(p, "unshare") /\ reply' = "NONE"
    BY <1>5 DEF ReclaimUnshare, Send
  <2>2. Phase' = "unshare" /\ pc'[Fini] = pc[Fini]
    BY <1>1, <1>3, <2>1, OtherMoves DEF Phase
  <2> QED
    BY <1>1, <1>3, <2>1, <2>2, FiniKept DEF TopInv
<1>6. CASE UnshareUnknown(p)
  <2>1. /\ Goto(p, "unshareQuery")
        /\ \/ pc[p] = "unshare" /\ (ret' = "ETIMEDOUT" \/ (reply \notin {"NONE", "OK"} /\ ret' = reply))
           \/ pc[p] = "reclaim" /\ Refused("UNSHARE")
    BY <1>6 DEF UnshareUnknown, Send, Answered
  <2>2. Phase' = "unshareQuery" /\ pc'[Fini] = pc[Fini]
    BY <1>1, <1>3, <2>1, OtherMoves DEF Phase
  <2>3. pc[p] = "reclaim" => hostq = <<>>
    BY <1>4, PhaseFacts DEF IInv, DrainInv, InFlight, Retriable
  <2>4. pc[p] = "unshare"
    <3>1. hostq = <<>> => Len(hostq) = 0
      OBVIOUS
    <3>2. hostq = <<>> => ~Refused("UNSHARE")
      BY <3>1, PoolAssumption DEF Refused, Retriable
    <3> QED
      BY <2>1, <2>3, <3>2
  <2>5. ret' \in HostErrors \cup {"ETIMEDOUT"}
    BY <1>4, <2>1, <2>4 DEF TopInv
  <2> QED
    BY <1>1, <1>3, <2>2, <2>5, FiniKept DEF TopInv
<1> QED
  BY <1>5, <1>6

(* Every errno that is left is one reclaim_locked retries.                 *)
LEMMA TopReconciled ==
  ASSUME IInv, Retriable, FiniInv, TopInv, NEW p \in Bo \cup {Worker}, UnshareReconciled(p)
  PROVE  FiniInv' /\ TopInv'
<1>1. pc[p] = "unshareQuery" /\ UNCHANGED <<ready, canceling>>
  BY DEF UnshareReconciled, workVars
<1>2. p \in Proc
  BY DEF Proc
<1>3. owner = p /\ p # Nobody
  BY <1>1, <1>2, ProcTypes DEF IInv, LockInv, Locked
<1>4. Phase = "unshareQuery"
  BY <1>1, <1>3 DEF Phase
<1>5. ret \in {"EBUSY", "EIO", "EUCLEAN", "ETIMEDOUT"}
  BY <1>4, PoolAssumption DEF TopInv, Retriable
<1>6. CASE Goto(p, "reclaim") /\ UNCHANGED owner
  BY <1>6, TopToReclaim
<1>7. CASE ~(Goto(p, "reclaim") /\ UNCHANGED owner)
  <2>1. owner' = Nobody /\ Goto(p, "sched")
    BY <1>5, <1>7 DEF UnshareReconciled, Unlock
  <2>2. pc'[p] = "sched" /\ Phase' = "free" /\ pc'[Fini] = pc[Fini]
    BY <2>1, OtherMoves DEF Phase
  <2>3. Retry'
    BY <2>2 DEF Retry
  <2> QED
    BY <1>1, <2>2, <2>3, FiniKept DEF TopInv
<1> QED
  BY <1>6, <1>7

LEMMA TopHost ==
  ASSUME IInv, FiniInv, TopInv, HostNext
  PROVE  FiniInv' /\ TopInv'
<1>1. /\ hostq # <<>> /\ UNCHANGED <<ready, canceling, armed, backed, step, blk, req, pc, owner, ret>>
  BY DEF HostNext, HostShare, HostUnshare, HostError, HostQuery, HostServes, poolVars, boVars, workVars
<1>2. PICK r :
        /\ Answer(r)
        /\ Head(hostq).op = "UNSHARE" => r \in {"OK"} \cup HostErrors
  BY DEF HostNext, HostShare, HostUnshare, HostError, HostQuery, HostServes
<1>3. Phase' = Phase /\ Retry' = Retry
  BY <1>1 DEF Phase, Retry
<1>4. Phase = "unshare" => reply' \in {"NONE", "OK"} \cup HostErrors
  <2>1. ASSUME Phase = "unshare", reply' # reply PROVE reply' = r /\ Head(hostq).op = "UNSHARE"
    <3>1. Waiting /\ Len(hostq) = 1 /\ reply = "NONE" /\ reply' = r
      BY <1>2, <2>1 DEF Answer
    <3>2. Head(hostq) = hostq[1]
      BY <1>1 DEF IInv, TypeOK
    <3> QED
      BY <2>1, <3>1, <3>2 DEF IInv, QueueInv, Awaited
  <2> QED
    BY <1>2, <2>1 DEF TopInv
<1>5. Idling' => Idling
  BY <1>1, IdlingSame
<1>6. /\ NoRoom(owner, backed)' <=> NoRoom(owner, backed)
      /\ NoRoom(owner, backed - step)' <=> NoRoom(owner, backed - step)
  BY <1>1, RoomSame
<1>7. FiniInv'
  BY <1>1, FiniKept
<1> QED
  BY <1>1, <1>3, <1>4, <1>5, <1>6, <1>7 DEF TopInv

(* Blocks are only taken with the lock, and given up with it.              *)
LEMMA HoldKept ==
  ASSUME IInv, HoldInv, NEW p \in Proc, NEW l, Goto(p, l), blk' = blk,
         p \in Bo /\ pc[p] \in {"held", "freeLock", "dead"} => l \in {"held", "freeLock", "dead"}
  PROVE  HoldInv'
<1>1. pc'[p] = l /\ \A q \in Proc \ {p} : pc'[q] = pc[q]
  BY ProcTypes DEF IInv, Goto
<1>2. \A b \in Bo : b \in Proc
  BY DEF Proc
<1> QED
  BY <1>1, <1>2 DEF HoldInv

LEMMA NextHold ==
  ASSUME IInv, HoldInv, [Next]_vars
  PROVE  HoldInv'
<1>1. ASSUME NEW b \in Bo, AllocNext(b) \/ FreeNext(b) PROVE HoldInv'
  <2>1. b \in Proc /\ \A c \in Bo : c \in Proc
    BY DEF Proc
  <2>2. blk \in [Bo -> SUBSET Pages] /\ pc \in [Proc -> Locked \cup Unlocked]
    BY DEF IInv, TypeOK
  <2>3. CASE AllocCarve(b)
    <3>1. PICK U : blk' = [blk EXCEPT ![b] = U]
      BY <2>3 DEF AllocCarve
    <3>2. pc' = [pc EXCEPT ![b] = "held"]
      BY <2>3 DEF AllocCarve, Unlock, Goto
    <3> QED
      BY <2>1, <2>2, <3>1, <3>2 DEF HoldInv
  <2>4. CASE FreeLock(b) /\ ready
    <3>1. blk' = [blk EXCEPT ![b] = {}] /\ pc' = [pc EXCEPT ![b] = "reclaim"]
      BY <2>4 DEF FreeLock, Lock, Goto
    <3> QED
      BY <2>1, <2>2, <3>1 DEF HoldInv
  <2>5. CASE FreeEnter(b) \/ (FreeLock(b) /\ ~ready)
    <3>1. PICK l \in {"freeLock", "dead"} : Goto(b, l)
      BY <2>5 DEF FreeEnter, FreeLock
    <3>2. blk' = blk
      BY <2>5 DEF FreeEnter, FreeLock, boVars
    <3> QED
      BY <2>1, <3>1, <3>2, HoldKept
  <2>6. CASE AllocNext(b) /\ ~AllocCarve(b)
    <3>1. blk' = blk /\ pc[b] \notin {"held", "freeLock", "dead"}
      BY <2>6 DEF AllocNext, AllocEnter, AllocLock, AllocGrow, AllocFail, ShareDone,
                  ShareUnknown, ShareReconciled, boVars
    <3>2. PICK l : Goto(b, l)
      BY <2>6 DEF AllocNext, AllocEnter, AllocLock, AllocGrow, AllocFail, ShareDone,
                  ShareUnknown, ShareReconciled, Lock, Send
    <3> QED
      BY <2>1, <3>1, <3>2, HoldKept
  <2> QED
    BY <1>1, <2>3, <2>4, <2>5, <2>6 DEF FreeNext
<1>2. ASSUME NEW p \in Bo \cup {Worker}, ReclaimNext(p) \/ (p = Worker /\ WorkNext) PROVE HoldInv'
  <2>1. blk' = blk /\ pc[p] \notin {"held", "freeLock", "dead"}
    BY <1>2 DEF ReclaimNext, ReclaimUnshare, ReclaimDone, UnshareDone, UnshareUnknown,
                UnshareReconciled, Schedule, WorkNext, WorkStart, WorkLock, boVars
  <2>2. PICK l : Goto(p, l)
    BY <1>2 DEF ReclaimNext, ReclaimUnshare, ReclaimDone, UnshareDone, UnshareUnknown,
                UnshareReconciled, Schedule, WorkNext, WorkStart, WorkLock, Lock, Unlock, Send
  <2>3. p \in Proc
    BY DEF Proc
  <2> QED
    BY <2>1, <2>2, <2>3, HoldKept
<1>3. ASSUME FiniNext PROVE HoldInv'
  <2>1. blk' = blk /\ Fini \in Proc /\ Fini \notin Bo
    BY <1>3, PoolAssumption DEF FiniNext, FiniCancel, FiniCancelled, FiniClose, boVars, Proc
  <2>2. PICK l : Goto(Fini, l)
    BY <1>3 DEF FiniNext, FiniCancel, FiniCancelled, FiniClose
  <2> QED
    BY <2>1, <2>2, HoldKept
<1>4. ASSUME HostNext \/ UNCHANGED vars PROVE HoldInv'
  <2>1. UNCHANGED <<blk, pc>>
    BY <1>4 DEF HostNext, HostShare, HostUnshare, HostError, HostQuery, boVars, vars
  <2> QED
    BY <2>1 DEF HoldInv
<1>5. Worker \in Bo \cup {Worker}
  OBVIOUS
<1> QED
  BY <1>1, <1>2, <1>3, <1>4, <1>5 DEF Next, Stopped

LEMMA NextTop ==
  ASSUME IInv, Retriable, FiniInv, TopInv, HoldInv, [Next]_vars
  PROVE  FiniInv' /\ TopInv'
<1>1. ASSUME NEW b \in Bo, AllocNext(b) \/ FreeNext(b) PROVE FiniInv' /\ TopInv'
  <2>1. b \in Bo \cup {Worker}
    OBVIOUS
  <2>2. CASE AllocFail(b) \/ (FreeLock(b) /\ ready)
    BY <2>1, <2>2, TopToReclaim
  <2>3. CASE ~(AllocFail(b) \/ (FreeLock(b) /\ ready))
    BY <1>1, <2>3, TopOutside, TopAllocLock, TopCarve, TopGrow, TopGrown DEF AllocNext, FreeNext
  <2> QED
    BY <2>2, <2>3
<1>2. ASSUME NEW p \in Bo \cup {Worker}, ReclaimNext(p) PROVE FiniInv' /\ TopInv'
  <2>1. CASE UnshareDone(p)
    BY <2>1, TopToReclaim
  <2>2. CASE ~UnshareDone(p)
    BY <1>2, <2>2, TopDone, TopUnshare, TopReconciled, TopSchedule DEF ReclaimNext
  <2> QED
    BY <2>1, <2>2
<1>3. ASSUME WorkNext PROVE FiniInv' /\ TopInv'
  <2>1. Worker \in Bo \cup {Worker}
    OBVIOUS
  <2>2. CASE WorkLock /\ ready
    BY <2>1, <2>2, TopToReclaim
  <2>3. CASE ~(WorkLock /\ ready)
    BY <1>3, <2>3, TopWork DEF WorkNext
  <2> QED
    BY <2>2, <2>3
<1>4. ASSUME UNCHANGED vars PROVE FiniInv' /\ TopInv'
  <2>1. UNCHANGED <<blk, req, owner, backed, step, reply, ret, ready, canceling, armed, pc>>
    BY <1>4 DEF vars
  <2>2. Phase' = Phase /\ Retry' = Retry
    BY <2>1 DEF Phase, Retry
  <2> QED
    BY <2>1, <2>2, TopStay, FiniKept
<1> QED
  BY <1>1, <1>2, <1>3, <1>4, TopFini, TopHost DEF Next, Stopped

(* A free step above the floor is never forgotten, for a pool whose step   *)
(* is a power of two - gpu_guest_pool_init does not check that, and with   *)
(* another step reclaim_locked never takes the top step back - and whose   *)
(* UNSHARE is not refused outright and ends only with an errno             *)
(* reclaim_locked retries, which EFAIL is not.                             *)
THEOREM SuffixSafety == Recoverable /\ Retriable => (Spec => []SuffixNotForgotten)
<1> SUFFICES ASSUME Recoverable, Retriable PROVE Spec => []SuffixNotForgotten
  OBVIOUS
<1>1. IInv /\ FiniInv /\ TopInv /\ HoldInv /\ [Next]_vars => FiniInv' /\ TopInv' /\ HoldInv'
  BY NextTop, NextHold
<1>2. TopInv => SuffixNotForgotten
  BY DEF TopInv, SuffixNotForgotten, Idling, Retry
<1>3. Init => FiniInv /\ TopInv /\ HoldInv
  BY InitTop DEF Init, HoldInv
<1> QED
  BY <1>1, <1>2, <1>3, Inductive, PTL DEF Spec
-----------------------------------------------------------------------------
(* The block arithmetic of PoolSizing.                                     *)
(* What \div rounds away is less than the divisor.                         *)
LEMMA DivFacts ==
  ASSUME NEW a \in Nat, NEW b \in Nat \ {0}
  PROVE  /\ a \div b \in Nat
         /\ b * (a \div b) <= a
         /\ a < b * (a \div b) + b
  BY SMT

(* A product grows with its factor.                                        *)
LEMMA MulMono ==
  ASSUME NEW a \in Nat, NEW b \in Nat, NEW c \in Nat, a <= b
  PROVE  c * a <= c * b
  BY SMT

(* Whole multiples closer than one factor are ordered like the multiples.  *)
LEMMA MulCancel ==
  ASSUME NEW a \in Nat, NEW b \in Nat, NEW c \in Nat \ {0}, c * a < c * b + c
  PROVE  a <= b
  BY SMT
-----------------------------------------------------------------------------
(* DIV_ROUND_UP of a positive number is positive, does not exceed it, and  *)
(* is the least number of parts that covers it.                            *)
LEMMA DivRoundUpFacts ==
  ASSUME NEW n \in Nat \ {0}, NEW m \in Nat \ {0}
  PROVE  /\ DivRoundUp(n, m) \in 1 .. n
         /\ n <= m * DivRoundUp(n, m)
         /\ m * DivRoundUp(n, m) < n + m
<1> DEFINE a == n + m - 1
           d == a \div m
<1>1. /\ a \in Nat
      /\ d \in Nat
      /\ m * d <= a
      /\ a < m * d + m
  BY DivFacts
<1>2. d >= 1
  <2>1. SUFFICES ASSUME d = 0 PROVE FALSE
    BY <1>1
  <2>2. m * d = 0
    BY <2>1
  <2> QED BY <1>1, <2>2
<1>3. d <= n
  <2>1. SUFFICES ASSUME d >= n + 1 PROVE FALSE
    BY <1>1
  <2>2. m * (n + 1) <= m * d
    BY <2>1, <1>1, MulMono
  <2>3. m * (n + 1) = m * n + m
    BY SMT
  <2>4. n <= m * n
    BY SMT
  <2> QED BY <1>1, <2>2, <2>3, <2>4
<1> HIDE DEF d, a
<1> QED BY <1>1, <1>2, <1>3 DEF DivRoundUp, d, a

(* roundup_pow_of_two and rounddown_pow_of_two exist for every size.       *)
LEMMA Pow2Facts ==
  ASSUME NEW n \in 1 .. Size
  PROVE  /\ RoundUpPow2(n) \in Pow2
         /\ n <= RoundUpPow2(n) /\ RoundUpPow2(n) < 2 * n
         /\ RoundDownPow2(n) \in Pow2
         /\ RoundDownPow2(n) <= n
  BY SizingAssumption DEF RoundUpPow2, RoundDownPow2

(* min_bs is a power of two no larger than the request, whatever the       *)
(* parameter is.                                                           *)
LEMMA MinBlockFacts ==
  ASSUME NEW n \in 1 .. Size, NEW m \in Int
  PROVE  MinBlockSize(n, m) \in Pow2 /\ MinBlockSize(n, m) \in 1 .. n
<1>1. CASE m <= 0
  <2>1. MinBlockSize(n, m) = 1
    BY <1>1 DEF MinBlockSize
  <2> QED BY <2>1, SizingAssumption
<1>2. CASE m > 0
  <2>0. n \in Nat \ {0} /\ m \in Nat \ {0} /\ Size \in Nat
    BY <1>2, SizingAssumption
  <2>1. DivRoundUp(n, m) \in 1 .. Size
    <3>1. DivRoundUp(n, m) \in 1 .. n
      BY <2>0, DivRoundUpFacts
    <3> QED BY <2>0, <3>1
  <2>5. \A p \in Pow2 : p \in Nat /\ p >= 1
    BY SizingAssumption
  <2>2. RoundUpPow2(DivRoundUp(n, m)) \in Pow2 /\ RoundDownPow2(n) \in Pow2 /\ RoundDownPow2(n) <= n
    BY <2>1, Pow2Facts
  <2>3. CASE RoundUpPow2(DivRoundUp(n, m)) > n
    <3>1. MinBlockSize(n, m) = RoundDownPow2(n)
      BY <1>2, <2>3 DEF MinBlockSize
    <3> QED BY <3>1, <2>0, <2>2, <2>5
  <2>4. CASE ~(RoundUpPow2(DivRoundUp(n, m)) > n)
    <3>1. MinBlockSize(n, m) = RoundUpPow2(DivRoundUp(n, m))
      BY <1>2, <2>4 DEF MinBlockSize
    <3> QED BY <3>1, <2>0, <2>2, <2>4, <2>5
  <2> QED BY <2>3, <2>4
<1> QED BY <1>1, <1>2

(* ALIGN gives the next multiple.                                          *)
LEMMA AlignFacts ==
  ASSUME NEW n \in Nat \ {0}, NEW p \in Nat \ {0}
  PROVE  /\ DivRoundUp(n, p) \in 1 .. n
         /\ AlignUp(n, p) = DivRoundUp(n, p) * p
         /\ n <= AlignUp(n, p) /\ AlignUp(n, p) < n + p
<1>1. /\ DivRoundUp(n, p) \in 1 .. n
      /\ n <= p * DivRoundUp(n, p)
      /\ p * DivRoundUp(n, p) < n + p
  BY DivRoundUpFacts
<1>2. p * DivRoundUp(n, p) = DivRoundUp(n, p) * p
  BY <1>1
<1> QED BY <1>1, <1>2 DEF AlignUp

(* The size drm_buddy is asked for is a positive number of minimum blocks  *)
(* and covers the request with less than a block of slack.                 *)
LEMMA RequestFacts ==
  ASSUME NEW n \in 1 .. Size, NEW m \in Int
  PROVE  /\ RequestSize(n, m) \in Nat
         /\ \E k \in 1 .. n : RequestSize(n, m) = k * MinBlockSize(n, m)
         /\ n <= RequestSize(n, m)
         /\ RequestSize(n, m) < n + MinBlockSize(n, m)
<1> DEFINE p == MinBlockSize(n, m)
<1>0. n \in Nat \ {0} /\ p \in Nat \ {0}
  BY MinBlockFacts, SizingAssumption
<1>1. CASE m > 0
  <2>1. RequestSize(n, m) = AlignUp(n, p)
    BY <1>1 DEF RequestSize
  <2>2. /\ DivRoundUp(n, p) \in 1 .. n
        /\ AlignUp(n, p) = DivRoundUp(n, p) * p
        /\ n <= AlignUp(n, p) /\ AlignUp(n, p) < n + p
    BY <1>0, AlignFacts
  <2>3. DivRoundUp(n, p) * p \in Nat
    BY <1>0, <2>2
  <2> HIDE DEF p
  <2>4. \E k \in 1 .. n : RequestSize(n, m) = k * p
    BY <2>1, <2>2
  <2> QED BY <2>1, <2>2, <2>3, <2>4 DEF p
<1>2. CASE m <= 0
  <2>1. RequestSize(n, m) = n /\ p = 1
    BY <1>2 DEF RequestSize, MinBlockSize
  <2> QED BY <2>1
<1> QED BY <1>1, <1>2

(***************************************************************************)
(* The bound behind the comment in virtio_gpu_guest_pool_create: with two  *)
(* or more entries allowed, the rounded size is at most max_nents minimum  *)
(* blocks. With d = DIV_ROUND_UP(n, m) the power of two p in [d, 2d) does  *)
(* not exceed n (that is where m >= 2 is needed), and n <= m*d <= m*p.     *)
(***************************************************************************)
THEOREM EntryBound ==
  ASSUME NEW n \in 1 .. Size, NEW m \in Nat, m >= 2
  PROVE  RequestSize(n, m) <= m * MinBlockSize(n, m)
<1> DEFINE d == DivRoundUp(n, m)
           p == RoundUpPow2(d)
           k == DivRoundUp(n, p)
<1>0. n \in Nat \ {0} /\ m \in Nat \ {0}
  BY SizingAssumption
<1>1. /\ d \in 1 .. n
      /\ n <= m * d
      /\ m * d < n + m
  BY <1>0, DivRoundUpFacts
<1>2. d \in 1 .. Size
  BY <1>1, SizingAssumption
<1>3. p \in Pow2 /\ d <= p /\ p < 2 * d
  BY <1>2, Pow2Facts
<1>4. p \in Nat \ {0}
  BY <1>3, SizingAssumption
<1> HIDE DEF d, p, k
<1>5. p <= n
  <2>1. 2 * (d - 1) <= m * (d - 1)
    <3>1. d - 1 \in Nat
      BY <1>1
    <3>2. (d - 1) * 2 <= (d - 1) * m
      BY <3>1, MulMono
    <3> QED BY <3>1, <3>2
  <2>2. m * (d - 1) = m * d - m
    BY <1>1
  <2>3. m * d \in Nat
    BY <1>1
  <2> QED BY <1>1, <1>3, <1>4, <2>1, <2>2, <2>3
<1>6. MinBlockSize(n, m) = p
  BY <1>4, <1>5 DEF MinBlockSize, p, d
<1>7. RequestSize(n, m) = k * p
  BY <1>6 DEF RequestSize, AlignUp, k
<1>8. k \in 1 .. n /\ p * k < n + p
  BY <1>0, <1>4, DivRoundUpFacts DEF k
<1>9. m * d <= m * p
  BY <1>1, <1>3, <1>4, MulMono
<1>10. p * k < p * m + p
  <2>1. m * p = p * m /\ m * p \in Nat /\ m * d \in Nat /\ p * k \in Nat
    BY <1>1, <1>4, <1>8
  <2> QED BY <1>1, <1>4, <1>8, <1>9, <2>1
<1>11. k <= m
  BY <1>4, <1>8, <1>10, MulCancel
<1>12. p * k <= p * m
  BY <1>4, <1>8, <1>11, MulMono
<1>13. p * k = k * p /\ p * m = m * p
  BY <1>4, <1>8
<1> QED BY <1>6, <1>7, <1>12, <1>13
-----------------------------------------------------------------------------
(* The entry bound of PoolNents.                                           *)

(* The size being worked on is a real one: what the allocation reads it for *)
(* is at least one page.                                                   *)
Sized == stage \in {"read", "alloc"} => size \in 1 .. Size

(* The bound holds in the state drm_buddy starts from. *)
Bounded == stage = "alloc" /\ maxNents >= 2 => request <= maxNents * minBs

(* The sizing of one request establishes its type and its whole blocks.    *)
LEMMA SizeBlocksSizes ==
  ASSUME CreateTypeOK, Sized, SizeBlocks
  PROVE  CreateTypeOK' /\ Sized' /\ WholeBlocks'
<1>1. maxNents \in Int /\ Size \in Nat /\ size \in 1 .. Size
  BY SizingAssumption, NentsAssumption DEF CreateTypeOK, Sized, SizeBlocks
<1>2. MinBlockSize(size, maxNents) \in Pow2 /\ MinBlockSize(size, maxNents) \in 1 .. size
  BY <1>1, MinBlockFacts
<1>3. /\ RequestSize(size, maxNents) \in Nat
      /\ size <= RequestSize(size, maxNents)
      /\ RequestSize(size, maxNents) < size + MinBlockSize(size, maxNents)
  BY <1>1, RequestFacts
<1>4. PICK k \in 1 .. size : RequestSize(size, maxNents) = k * MinBlockSize(size, maxNents)
  BY <1>1, RequestFacts
<1>5. k \in 1 .. RequestSize(size, maxNents)
  BY <1>1, <1>3
<1>6. CASE RequestSize(size, maxNents) <= Size /\ stage' = "alloc"
  <2>1. CreateTypeOK' /\ Sized'
    BY <1>1, <1>2, <1>3, <1>6 DEF CreateTypeOK, Sized, SizeBlocks
  <2>2. WholeBlocks'
    BY <1>1, <1>3, <1>4, <1>5, <1>6 DEF WholeBlocks, SizeBlocks
  <2> QED BY <2>1, <2>2
<1>7. CASE stage' = "start"
  BY <1>1, <1>7 DEF CreateTypeOK, Sized, WholeBlocks, SizeBlocks
<1> QED BY <1>1, <1>3, <1>6, <1>7 DEF SizeBlocks

(***************************************************************************)
(* The types hold, and the request handed to drm_buddy is always a whole   *)
(* number of minimum blocks: min_bs and the aligned size come from one     *)
(* read of guest_pool_max_nents, so a write to it in between is harmless.  *)
(***************************************************************************)
THEOREM WholeBlocksAlways == CreateSpec => [](CreateTypeOK /\ Sized /\ WholeBlocks)
<1>1. CreateInit => CreateTypeOK /\ Sized /\ WholeBlocks
  BY SizingAssumption DEF CreateInit, CreateTypeOK, Sized, WholeBlocks
<1>2. CreateTypeOK /\ Sized /\ WholeBlocks /\ [CreateNext]_createVars
        => (CreateTypeOK /\ Sized /\ WholeBlocks)'
  <2> SUFFICES ASSUME CreateTypeOK, Sized, WholeBlocks, [CreateNext]_createVars
               PROVE  CreateTypeOK' /\ Sized' /\ WholeBlocks'
    OBVIOUS
  <2>1. CASE SetParam
    BY <2>1 DEF SetParam, CreateTypeOK, Sized, WholeBlocks
  <2>2. CASE \E n \in 1 .. Size : ReadParam(n)
    BY <2>2, SizingAssumption DEF ReadParam, CreateTypeOK, Sized, WholeBlocks
  <2>3. CASE SizeBlocks
    BY <2>3, SizeBlocksSizes
  <2>4. CASE Scatter
    <3>1. minBs \in Nat \ {0} /\ request \in Nat /\ Size \in Nat
      BY SizingAssumption DEF CreateTypeOK
    <3>2. request \div minBs \in Nat /\ minBs * (request \div minBs) <= request
      BY <3>1, DivFacts
    <3>3. request \div minBs <= minBs * (request \div minBs)
      BY <3>1, <3>2, SMT
    <3>4. nents' \in 0 .. Size
      BY <2>4, <3>1, <3>2, <3>3 DEF Scatter, CreateTypeOK
    <3> QED BY <2>4, <3>4 DEF Scatter, CreateTypeOK, Sized, WholeBlocks
  <2>5. CASE CountBlocks
    BY <2>5 DEF CountBlocks, CreateTypeOK, Sized, WholeBlocks
  <2>6. CASE Again
    BY <2>6, SizingAssumption DEF Again, CreateTypeOK, Sized, WholeBlocks
  <2>7. CASE UNCHANGED createVars
    BY <2>7 DEF createVars, CreateTypeOK, Sized, WholeBlocks
  <2> QED BY <2>1, <2>2, <2>3, <2>4, <2>5, <2>6, <2>7 DEF CreateNext
<1> QED BY <1>1, <1>2, PTL DEF CreateSpec

(***************************************************************************)
(* "this cannot trip" is true of every pool, every fragmentation and every *)
(* history of the parameter, for the value the allocation read, unless     *)
(* that value is 1.                                                        *)
(***************************************************************************)
THEOREM NentsBounded == CreateSpec => []NeverTrips
<1>1. CreateInit => Bounded /\ NeverTrips
  BY DEF CreateInit, Bounded, NeverTrips
<1>2. CreateTypeOK /\ Sized /\ Bounded /\ NeverTrips /\ [CreateNext]_createVars => (Bounded /\ NeverTrips)'
  <2> SUFFICES ASSUME CreateTypeOK, Sized, Bounded, NeverTrips, [CreateNext]_createVars
               PROVE  Bounded' /\ NeverTrips'
    OBVIOUS
  <2>1. CASE SetParam
    BY <2>1 DEF SetParam, Bounded, NeverTrips
  <2>2. CASE \E n \in 1 .. Size : ReadParam(n)
    BY <2>2 DEF ReadParam, Bounded, NeverTrips
  <2>3. CASE SizeBlocks
    <3>1. size \in 1 .. Size
      BY <2>3 DEF SizeBlocks, Sized
    <3>2. CASE maxNents >= 2
      <4>1. maxNents \in Nat
        BY <3>2, NentsAssumption DEF CreateTypeOK
      <4>2. RequestSize(size, maxNents) <= maxNents * MinBlockSize(size, maxNents)
        BY <3>1, <3>2, <4>1, EntryBound
      <4> QED BY <2>3, <4>2 DEF SizeBlocks, Bounded, NeverTrips
    <3>3. CASE ~(maxNents >= 2)
      BY <2>3, <3>3 DEF SizeBlocks, Bounded, NeverTrips
    <3> QED BY <3>2, <3>3
  <2>4. CASE Scatter
    <3>1. minBs \in Nat \ {0} /\ request \in Nat /\ maxNents \in Int
      BY SizingAssumption, NentsAssumption DEF CreateTypeOK
    <3>2. request \div minBs \in Nat /\ minBs * (request \div minBs) <= request
      BY <3>1, DivFacts
    <3>3. ASSUME maxNents >= 2 PROVE request \div minBs <= maxNents
      <4>1. request <= maxNents * minBs
        BY <2>4, <3>3 DEF Scatter, Bounded
      <4>2. maxNents \in Nat /\ maxNents * minBs = minBs * maxNents /\ maxNents * minBs \in Nat
        BY <3>1, <3>3
      <4>3. minBs * (request \div minBs) \in Nat
        BY <3>1, <3>2
      <4>4. minBs * (request \div minBs) < minBs * maxNents + minBs
        BY <3>1, <3>2, <4>1, <4>2, <4>3
      <4> QED BY <3>1, <3>2, <4>2, <4>4, MulCancel
    <3> QED BY <2>4, <3>1, <3>2, <3>3 DEF Scatter, Bounded, NeverTrips
  <2>5. CASE CountBlocks
    BY <2>5 DEF CountBlocks, Bounded, NeverTrips
  <2>6. CASE Again
    BY <2>6 DEF Again, Bounded, NeverTrips
  <2>7. CASE UNCHANGED createVars
    BY <2>7 DEF createVars, Bounded, NeverTrips
  <2> QED BY <2>1, <2>2, <2>3, <2>4, <2>5, <2>6, <2>7 DEF CreateNext
<1> QED BY <1>1, <1>2, WholeBlocksAlways, PTL DEF CreateSpec
=============================================================================
