------------------------- MODULE PoolRequestProofs --------------------------
(***************************************************************************)
(* Proofs about PoolRequest, for any number of callers, contexts and       *)
(* descriptors. No theorem assumes that the interrupt keeps out of an add, *)
(* nor that nobody is inside at an unbind: who owns a context's memory and *)
(* who can find the device hold whatever overlaps, and what two locks over *)
(* one virtqueue cannot promise (the run pool_request_overlap) is proved   *)
(* of every behaviour up to its first overlap.                             *)
(***************************************************************************)
EXTENDS PoolRequest, TLAPS, FiniteSetTheorems

(* The descriptors of a list, and a list that names none of them twice.    *)
RangeOf(s) == {s[i] : i \in 1 .. Len(s)}

NoRepeat(s) == \A i, j \in 1 .. Len(s) : s[i] = s[j] => i = j

OnTheWay == IF cb = NoSlot THEN {} ELSE {cb}

(* pool_lock is held exactly while a caller adds.                          *)
LockInv == \A c \in Caller : owner = c <=> pc[c] \in {"add", "addWrite"}

(* No add and no get of a buffer overlap: what either read of the free     *)
(* list is still the free list when it writes it back.                     *)
SnapInv ==
  /\ \A c \in Caller :
       pc[c] = "addWrite" => snap = free /\ free # <<>> /\ cb = NoSlot
  /\ cb # NoSlot => cbSnap = free

(* Which context a caller holds, and that no two hold the same one.        *)
CtxInv ==
  /\ \A c \in Caller :
       pc[c] \in {"lock", "add", "addWrite"} => ctx[c] \in Ctx /\ mem[ctx[c]] = "held"
  /\ \A c \in Caller : pc[c] = "waiting" => ctx[c] \in Ctx /\ mem[ctx[c]] = "posted"
  /\ \A c \in Caller : pc[c] \in {"idle", "entered", "expired"} => ctx[c] = NoCtx
  /\ \A c, e \in Caller : c # e /\ ctx[c] # NoCtx => ctx[c] # ctx[e]
  /\ \A x \in Ctx : mem[x] = "held" => ~done[x] /\ ~resp[x]

(* The ring holds every descriptor once.                                   *)
RingInv ==
  /\ NoRepeat(free) /\ NoRepeat(avail) /\ NoRepeat(used)
  /\ RangeOf(free) \cap RangeOf(avail) = {}
  /\ RangeOf(free) \cap RangeOf(used) = {}
  /\ RangeOf(avail) \cap RangeOf(used) = {}
  /\ cb \notin RangeOf(free) \cup RangeOf(avail) \cup RangeOf(used)
  /\ RangeOf(free) \cup RangeOf(avail) \cup RangeOf(used) \cup OnTheWay = Slots

(* A descriptor in flight points at a context of its own, not yet          *)
(* completed; one the device gave back points at an answered one.          *)
DataInv ==
  /\ \A d \in Slots : data[d] # NoCtx <=> d \notin RangeOf(free)
  /\ \A d \in Slots :
       data[d] # NoCtx => mem[data[d]] \in {"posted", "leaked"} /\ ~done[data[d]]
  /\ \A d, e \in Slots : data[d] # NoCtx /\ data[d] = data[e] => d = e
  /\ \A d \in Slots : d \in RangeOf(used) \cup OnTheWay => resp[data[d]]
  /\ \A c \in Caller : pc[c] = "waiting" /\ done[ctx[c]] => resp[ctx[c]]

IInv ==
  /\ TypeOK
  /\ LockInv
  /\ SnapInv
  /\ CtxInv
  /\ RingInv
  /\ DataInv

(* The device can be found exactly while it is live.                       *)
LifeInv ==
  /\ singleton <=> vga = "live"
  /\ NewCallsFindNoDevice

(* What is known of the contexts without the free list, so whatever the    *)
(* interrupt overlaps: a registered one is not completed, and its memory   *)
(* is neither free nor being prepared for another request.                 *)
OwnInv ==
  /\ CtxInv
  /\ \A d \in Slots :
       data[d] # NoCtx => mem[data[d]] \in {"posted", "leaked"} /\ ~done[data[d]]
  /\ \A d, e \in Slots : data[d] # NoCtx /\ data[d] = data[e] => d = e
-----------------------------------------------------------------------------
(* Taking the head off a list takes that one descriptor out of it. *)
LEMMA TakeHead ==
  ASSUME NEW S, NEW s \in Seq(S), s # <<>>, NoRepeat(s)
  PROVE  /\ Head(s) \in S /\ Tail(s) \in Seq(S)
         /\ NoRepeat(Tail(s))
         /\ RangeOf(Tail(s)) = RangeOf(s) \ {Head(s)}
         /\ Head(s) \in RangeOf(s)
<1>1. Len(s) \in Nat /\ Len(s) > 0 /\ Head(s) = s[1] /\ Head(s) \in S
  OBVIOUS
<1>2. /\ Tail(s) \in Seq(S)
      /\ Len(Tail(s)) = Len(s) - 1
      /\ \A i \in 1 .. Len(s) - 1 : Tail(s)[i] = s[i + 1]
  OBVIOUS
<1>3. NoRepeat(Tail(s))
  BY <1>1, <1>2 DEF NoRepeat
<1>4. \A d : d \in RangeOf(Tail(s)) <=> d \in RangeOf(s) /\ d # Head(s)
  <2> TAKE d
  <2>1. ASSUME d \in RangeOf(Tail(s)) PROVE d \in RangeOf(s) /\ d # Head(s)
    BY <2>1, <1>1, <1>2 DEF RangeOf, NoRepeat
  <2>2. ASSUME d \in RangeOf(s), d # Head(s) PROVE d \in RangeOf(Tail(s))
    <3>1. PICK i \in 1 .. Len(s) : d = s[i]
      BY <2>2 DEF RangeOf
    <3>2. i - 1 \in 1 .. Len(s) - 1 /\ Tail(s)[i - 1] = d
      BY <2>2, <3>1, <1>1, <1>2
    <3> QED
      BY <3>2, <1>2 DEF RangeOf
  <2> QED
    BY <2>1, <2>2
<1> QED
  BY <1>1, <1>2, <1>3, <1>4 DEF RangeOf

(* Appending a descriptor that is not in a list adds just that one. *)
LEMMA PutLast ==
  ASSUME NEW S, NEW s \in Seq(S), NEW d \in S, NoRepeat(s), d \notin RangeOf(s)
  PROVE  /\ Append(s, d) \in Seq(S)
         /\ NoRepeat(Append(s, d))
         /\ RangeOf(Append(s, d)) = RangeOf(s) \cup {d}
<1>1. /\ Append(s, d) \in Seq(S)
      /\ Len(s) \in Nat
      /\ Len(Append(s, d)) = Len(s) + 1
      /\ \A i \in 1 .. Len(s) : Append(s, d)[i] = s[i]
      /\ Append(s, d)[Len(s) + 1] = d
  OBVIOUS
<1>2. NoRepeat(Append(s, d))
  BY <1>1 DEF NoRepeat, RangeOf
<1>3. RangeOf(Append(s, d)) = RangeOf(s) \cup {d}
  BY <1>1 DEF RangeOf
<1> QED
  BY <1>1, <1>2, <1>3

(* So does putting it in front, as the free list is given back to. *)
LEMMA PutFirst ==
  ASSUME NEW S, NEW s \in Seq(S), NEW d \in S, NoRepeat(s), d \notin RangeOf(s)
  PROVE  /\ <<d>> \o s \in Seq(S)
         /\ NoRepeat(<<d>> \o s)
         /\ RangeOf(<<d>> \o s) = RangeOf(s) \cup {d}
<1>1. /\ <<d>> \o s \in Seq(S)
      /\ Len(s) \in Nat
      /\ Len(<<d>> \o s) = Len(s) + 1
      /\ (<<d>> \o s)[1] = d
      /\ \A i \in 2 .. Len(s) + 1 : (<<d>> \o s)[i] = s[i - 1]
  OBVIOUS
<1>2. NoRepeat(<<d>> \o s)
  BY <1>1 DEF NoRepeat, RangeOf
<1>3. \A e : e \in RangeOf(<<d>> \o s) <=> e \in RangeOf(s) \/ e = d
  <2> TAKE e
  <2>1. ASSUME e \in RangeOf(<<d>> \o s) PROVE e \in RangeOf(s) \/ e = d
    BY <2>1, <1>1 DEF RangeOf
  <2>2. ASSUME e \in RangeOf(s) PROVE e \in RangeOf(<<d>> \o s)
    <3>1. PICK i \in 1 .. Len(s) : e = s[i]
      BY <2>2 DEF RangeOf
    <3>2. i + 1 \in 1 .. Len(s) + 1 /\ (<<d>> \o s)[i + 1] = e
      BY <3>1, <1>1
    <3> QED
      BY <3>2, <1>1 DEF RangeOf
  <2>3. d \in RangeOf(<<d>> \o s)
    BY <1>1 DEF RangeOf
  <2> QED
    BY <2>1, <2>2, <2>3
<1> QED
  BY <1>1, <1>2, <1>3 DEF RangeOf

(* A fresh virtqueue: every descriptor is on the free list, once. *)
LEMMA FreshListIsAll ==
  /\ FreshList \in Seq(Slots)
  /\ NoRepeat(FreshList)
  /\ RangeOf(FreshList) = Slots
<1> DEFINE n == Cardinality(Slots)
<1>1. n \in Nat /\ ExistsBijection(1 .. n, Slots)
  BY RequestAssumption, FS_CardinalityType
<1>2. PICK f \in Bijection(1 .. n, Slots) : TRUE
  BY <1>1 DEF ExistsBijection
<1>3. f \in [1 .. n -> Slots] /\ \A i, j \in DOMAIN f : f[i] = f[j] => i = j
  BY <1>2 DEF Bijection, Injection, IsInjective
<1>4. FreshList \in [1 .. n -> Slots]
      /\ \A i, j \in DOMAIN FreshList : FreshList[i] = FreshList[j] => i = j
  BY <1>3 DEF FreshList
<1>5. FreshList \in Injection(1 .. n, Slots)
  BY <1>4 DEF Injection, IsInjective
<1>6. Cardinality(1 .. n) = n
  BY <1>1, FS_Interval
<1>7. FreshList \in Surjection(1 .. n, Slots)
  BY <1>5, <1>6, FS_Injection, RequestAssumption
<1>8. FreshList \in Seq(Slots) /\ Len(FreshList) = n
  BY <1>1, <1>4
<1>9. RangeOf(FreshList) = Slots
  BY <1>4, <1>7, <1>8 DEF RangeOf, Surjection
<1> QED
  BY <1>4, <1>8, <1>9 DEF NoRepeat
-----------------------------------------------------------------------------
LEMMA InitType == Init => TypeOK
<1>1. FreshList \in Seq(Slots) /\ <<>> \in Seq(Slots)
  BY FreshListIsAll
<1> QED
  BY <1>1, RequestAssumption DEF Init, TypeOK, Labels

(* Every step keeps the types, whatever overlaps. *)
LEMMA TypeCaller ==
  ASSUME TypeOK, NEW c \in Caller, CallerNext(c)
  PROVE  TypeOK'
<1> USE RequestAssumption DEF TypeOK, Labels, Goto, devVars, ctxVars, ringVars, cbVars
<1>1. CASE Enter(c)
  BY <1>1 DEF Enter
<1>2. CASE AllocCtx(c)
  <2>1. ASSUME NEW x \in Ctx,
               mem' = [mem EXCEPT ![x] = "held"],
               resp' = [resp EXCEPT ![x] = FALSE],
               done' = [done EXCEPT ![x] = FALSE],
               ctx' = [ctx EXCEPT ![c] = x],
               pc' = [pc EXCEPT ![c] = "lock"]
        PROVE  TypeOK'
    BY <1>2, <2>1 DEF AllocCtx
  <2>2. CASE pc' = [pc EXCEPT ![c] = "idle"] /\ UNCHANGED <<ctx, mem, resp, done>>
    BY <1>2, <2>2 DEF AllocCtx
  <2> QED
    BY <1>2, <2>1, <2>2 DEF AllocCtx
<1>3. CASE LockPool(c)
  BY <1>3 DEF LockPool
<1>4. CASE AddRead(c)
  <2>1. snap' \in Seq(Slots) /\ snap' # <<>>
    BY <1>4 DEF AddRead
  <2> QED
    BY <1>4, <2>1 DEF AddRead
<1>5. CASE AddFull(c)
  BY <1>5 DEF AddFull
<1>6. CASE AddWrite(c)
  <2>1. Head(snap) \in Slots /\ Tail(snap) \in Seq(Slots)
    BY <1>6 DEF AddWrite
  <2>2. Append(avail, Head(snap)) \in Seq(Slots)
    BY <2>1
  <2> QED
    BY <1>6, <2>1, <2>2 DEF AddWrite
<1>7. CASE Wake(c)
  BY <1>7 DEF Wake
<1>8. CASE Expire(c)
  BY <1>8 DEF Expire
<1>9. CASE ReportTimeout(c)
  BY <1>9 DEF ReportTimeout
<1> QED
  BY <1>1, <1>2, <1>3, <1>4, <1>5, <1>6, <1>7, <1>8, <1>9 DEF CallerNext

LEMMA TypeNext == TypeOK /\ [Next]_vars => TypeOK'
<1> SUFFICES ASSUME TypeOK, [Next]_vars PROVE TypeOK'
  OBVIOUS
<1> USE RequestAssumption DEF TypeOK, Labels, devVars, ctxVars, ringVars, cbVars
<1>1. CASE Probe
  BY <1>1 DEF Probe
<1>2. CASE \E c \in Caller : CallerNext(c)
  BY <1>2, TypeCaller
<1>3. CASE DeviceServe
  <2>1. Head(avail) \in Slots /\ Tail(avail) \in Seq(Slots)
    BY <1>3 DEF DeviceServe
  <2>2. Append(used, Head(avail)) \in Seq(Slots)
    BY <2>1
  <2> QED
    BY <1>3, <2>1, <2>2 DEF DeviceServe
<1>4. CASE CallbackTake
  BY <1>4 DEF CallbackTake
<1>5. CASE CallbackComplete
  <2>1. <<cb>> \o cbSnap \in Seq(Slots)
    BY <1>5 DEF CallbackComplete
  <2> QED
    BY <1>5, <2>1 DEF CallbackComplete
<1>6. CASE RemoveNext
  BY <1>6 DEF RemoveNext, RemoveUnpublish, RemoveReset, RemoveFree
<1>7. CASE UNCHANGED vars
  BY <1>7 DEF vars
<1> QED
  BY <1>1, <1>2, <1>3, <1>4, <1>5, <1>6, <1>7 DEF Next, Gone

(***************************************************************************)
(* Only the holder of pool_lock is ever between reading and writing the    *)
(* free list with a context of its own, whatever the interrupt does.       *)
(***************************************************************************)
THEOREM TypeCorrect == Spec => []TypeOK
  BY InitType, TypeNext, PTL DEF Spec
-----------------------------------------------------------------------------
LEMMA LifeStep == TypeOK /\ LifeInv /\ [Next]_vars => LifeInv'
<1> SUFFICES ASSUME TypeOK, LifeInv, [Next]_vars PROVE LifeInv'
  OBVIOUS
<1> USE DEF LifeInv, NewCallsFindNoDevice, TypeOK, devVars
<1>1. CASE Probe
  BY <1>1 DEF Probe
<1>2. CASE \E c \in Caller : CallerNext(c)
  <2>1. PICK c \in Caller : CallerNext(c)
    BY <1>2
  <2>2. CASE Enter(c)
    BY <2>2 DEF Enter, Goto
  <2>3. CASE pc[c] # "idle" /\ UNCHANGED devVars /\ \E l \in Labels : Goto(c, l)
    BY <2>3 DEF Goto
  <2> QED
    BY <2>1, <2>2, <2>3
    DEF CallerNext, AllocCtx, LockPool, AddRead, AddFull, AddWrite, Wake, Expire,
        ReportTimeout, Labels
<1>3. CASE DeviceServe \/ CallbackTake \/ CallbackComplete
  BY <1>3 DEF DeviceServe, CallbackTake, CallbackComplete
<1>4. CASE RemoveNext
  BY <1>4 DEF RemoveNext, RemoveUnpublish, RemoveReset, RemoveFree
<1>5. CASE UNCHANGED vars
  BY <1>5 DEF vars
<1> QED
  BY <1>1, <1>2, <1>3, <1>4, <1>5 DEF Next, Gone

(***************************************************************************)
(* "Stop new pool requests finding the device before anything is torn      *)
(* down": whoever is in vga_pool_request() once vga_remove has begun was   *)
(* in there before, for any number of callers, of them inside at unbind,   *)
(* and whatever the interrupt overlaps. What those that were inside may    *)
(* still touch is not claimed: pool_request_unbind shows them use a freed  *)
(* device.                                                                 *)
(***************************************************************************)
THEOREM LifeSafety == Spec => []NewCallsFindNoDevice
<1>1. Init => LifeInv
  BY DEF Init, LifeInv, NewCallsFindNoDevice
<1>2. LifeInv => NewCallsFindNoDevice
  BY DEF LifeInv
<1>3. Spec => []LifeInv
  BY <1>1, LifeStep, TypeCorrect, PTL DEF Spec
<1> QED
  BY <1>2, <1>3, PTL
-----------------------------------------------------------------------------
LEMMA OwnCaller ==
  ASSUME TypeOK, OwnInv, NEW c \in Caller, CallerNext(c)
  PROVE  OwnInv'
<1> USE RequestAssumption
    DEF OwnInv, CtxInv, TypeOK, Labels, Goto, devVars, ctxVars, ringVars, cbVars
<1>1. CASE Enter(c) \/ LockPool(c) \/ AddRead(c) \/ ReportTimeout(c)
  BY <1>1 DEF Enter, LockPool, AddRead, ReportTimeout
<1>2. CASE AllocCtx(c)
  <2>1. CASE Goto(c, "idle") /\ UNCHANGED <<ctx, ctxVars>>
    BY <1>2, <2>1 DEF AllocCtx
  <2>2. ASSUME NEW x \in Ctx,
               mem[x] = "unused",
               mem' = [mem EXCEPT ![x] = "held"],
               resp' = [resp EXCEPT ![x] = FALSE],
               done' = [done EXCEPT ![x] = FALSE],
               ctx' = [ctx EXCEPT ![c] = x],
               pc' = [pc EXCEPT ![c] = "lock"]
        PROVE  OwnInv'
    <3>1. \A e \in Caller : pc[e] \in Labels /\ ctx[e] # x
      <4> TAKE e \in Caller
      <4>1. pc[e] \in Labels /\ NoCtx # x
        OBVIOUS
      <4> QED
        BY <2>2, <4>1
    <3>2. \A d \in Slots : data[d] # x
      BY <2>2
    <3>3. CtxInv'
      BY <1>2, <2>2, <3>1 DEF AllocCtx
    <3> QED
      BY <1>2, <2>2, <3>2, <3>3 DEF AllocCtx
  <2> QED
    BY <1>2, <2>1, <2>2 DEF AllocCtx
<1>3. CASE AddFull(c) \/ Wake(c) \/ Expire(c)
  <2> DEFINE x == ctx[c]
  <2>0. /\ UNCHANGED <<resp, done, data>>
        /\ ctx' = [ctx EXCEPT ![c] = NoCtx]
        /\ pc' = [pc EXCEPT ![c] = "idle"] \/ pc' = [pc EXCEPT ![c] = "expired"]
        /\ pc[c] \in {"add", "waiting"}
    BY <1>3 DEF AddFull, Wake, Expire
  <2>1. x \in Ctx /\ \A e \in Caller \ {c} : ctx[e] # x
    BY <2>0
  <2>2. \E m \in {"unused", "leaked"} : mem' = [mem EXCEPT ![x] = m]
    BY <1>3 DEF AddFull, Wake, Expire
  <2>3. \A d \in Slots : data[d] = x => mem'[x] = "leaked"
    BY <1>3, <2>1 DEF AddFull, Wake, Expire
  <2>4. CtxInv'
    BY <2>0, <2>1, <2>2
  <2> QED
    BY <2>0, <2>1, <2>2, <2>3, <2>4
<1>4. CASE AddWrite(c)
  <2> DEFINE x == ctx[c]
             h == Head(snap)
  <2>0. /\ pc[c] = "addWrite" /\ h \in Slots
        /\ x \in Ctx /\ mem[x] = "held" /\ ~done[x]
        /\ \A e \in Caller \ {c} : ctx[e] # x
    BY <1>4 DEF AddWrite
  <2>1. /\ data' = [data EXCEPT ![h] = x]
        /\ mem' = [mem EXCEPT ![x] = "posted"]
        /\ pc' = [pc EXCEPT ![c] = "waiting"]
        /\ UNCHANGED <<ctx, resp, done>>
    BY <1>4 DEF AddWrite
  <2>2. \A d \in Slots : data[d] # x
    BY <2>0
  <2>3. CtxInv'
    BY <2>0, <2>1
  <2> QED
    BY <2>0, <2>1, <2>2, <2>3
<1> QED
  BY <1>1, <1>2, <1>3, <1>4 DEF CallerNext

LEMMA OwnNext == TypeOK /\ OwnInv /\ [Next]_vars => OwnInv'
<1> SUFFICES ASSUME TypeOK, OwnInv, [Next]_vars PROVE OwnInv'
  OBVIOUS
<1> USE RequestAssumption DEF OwnInv, CtxInv, TypeOK, ctxVars, ringVars, cbVars
<1>1. CASE \E c \in Caller : CallerNext(c)
  BY <1>1, OwnCaller
<1>2. CASE DeviceServe
  <2> DEFINE x == data[Head(avail)]
  <2>1. /\ UNCHANGED <<pc, ctx, mem, done, data>>
        /\ resp' = [resp EXCEPT ![x] = TRUE] /\ Head(avail) \in Slots
    BY <1>2 DEF DeviceServe
  <2>2. \A y \in Ctx : mem[y] = "held" => y # x
    BY <2>1
  <2> QED
    BY <2>1, <2>2
<1>3. CASE CallbackComplete
  <2> DEFINE x == data[cb]
  <2>1. /\ UNCHANGED <<pc, ctx, mem, resp>>
        /\ done' = [done EXCEPT ![x] = TRUE]
        /\ data' = [data EXCEPT ![cb] = NoCtx]
        /\ cb \in Slots /\ x \in Ctx /\ mem[x] # "held"
    BY <1>3 DEF CallbackComplete
  <2> QED
    BY <2>1
<1>4. CASE UNCHANGED <<pc, ctx, mem, resp, done, data>>
  BY <1>4
<1> QED
  BY <1>1, <1>2, <1>3, <1>4
  DEF Next, Gone, Probe, CallbackTake, RemoveNext, RemoveUnpublish, RemoveReset,
      RemoveFree, vars

(***************************************************************************)
(* "The buffer is still owned by the device, so it cannot be freed": no    *)
(* descriptor is registered with memory that was freed or is being used    *)
(* for another request, and no two with the same context, whatever the     *)
(* interrupt overlaps. What a device does with a descriptor that was       *)
(* handed out twice is outside the ring's books and not claimed.           *)
(***************************************************************************)
THEOREM MemorySafety == Spec => []DeviceOwnsMemory
<1>1. Init => OwnInv
  BY RequestAssumption DEF Init, OwnInv, CtxInv
<1>2. TypeOK /\ OwnInv => DeviceOwnsMemory
  BY RequestAssumption DEF TypeOK, OwnInv, DeviceOwnsMemory
<1>3. Spec => []OwnInv
  BY <1>1, OwnNext, TypeCorrect, PTL DEF Spec
<1> QED
  BY <1>2, <1>3, TypeCorrect, PTL
-----------------------------------------------------------------------------
LEMMA InitIInv == Init => IInv
<1> SUFFICES ASSUME Init PROVE IInv
  OBVIOUS
<1>1. TypeOK
  BY InitType
<1>2. RangeOf(<<>>) = {} /\ NoRepeat(<<>>)
  BY DEF RangeOf, NoRepeat
<1>3. LockInv /\ SnapInv /\ CtxInv
  BY RequestAssumption DEF Init, LockInv, SnapInv, CtxInv
<1>4. RingInv
  BY <1>2, FreshListIsAll, RequestAssumption DEF Init, RingInv, OnTheWay
<1>5. DataInv
  BY <1>2, FreshListIsAll, RequestAssumption DEF Init, DataInv, OnTheWay
<1> QED
  BY <1>1, <1>3, <1>4, <1>5 DEF IInv

(* A step that leaves the ring alone leaves it intact. *)
LEMMA RingFrame ==
  ASSUME RingInv, free' = free, avail' = avail, used' = used, cb' = cb
  PROVE  RingInv'
<1>1. UNCHANGED <<RangeOf(free), RangeOf(avail), RangeOf(used), OnTheWay>>
  BY DEF RangeOf, OnTheWay
<1>2. NoRepeat(free)' /\ NoRepeat(avail)' /\ NoRepeat(used)'
  BY DEF RingInv, NoRepeat
<1> QED
  BY <1>1, <1>2 DEF RingInv

(* A caller that comes in, or is sent away without a context. *)
LEMMA IInvQuiet ==
  ASSUME IInv, NEW c \in Caller,
         Enter(c) \/ LockPool(c) \/ ReportTimeout(c)
           \/ (Goto(c, "idle") /\ pc[c] = "entered"
                 /\ UNCHANGED <<ctx, owner, ctxVars, ringVars, snap, cbVars>>)
  PROVE  LockInv' /\ SnapInv' /\ CtxInv' /\ RingInv' /\ DataInv'
<1> USE DEF IInv, TypeOK, Labels, Goto, Enter, LockPool, ReportTimeout,
            ctxVars, ringVars, cbVars
<1>1. UNCHANGED <<ctx, mem, resp, done, free, avail, used, cb, cbSnap, data, snap>>
  OBVIOUS
<1>2. LockInv'
  BY RequestAssumption DEF LockInv
<1>3. SnapInv'
  BY <1>1 DEF SnapInv
<1>4. CtxInv'
  BY <1>1 DEF CtxInv
<1>5. RingInv'
  BY <1>1, RingFrame
<1>6. DataInv'
  BY <1>1 DEF DataInv, RangeOf, OnTheWay
<1> QED
  BY <1>2, <1>3, <1>4, <1>5, <1>6

LEMMA IInvAllocCtx ==
  ASSUME IInv, NEW c \in Caller, AllocCtx(c)
  PROVE  LockInv' /\ SnapInv' /\ CtxInv' /\ RingInv' /\ DataInv'
<1>1. CASE Goto(c, "idle") /\ UNCHANGED <<ctx, ctxVars>>
  BY <1>1, IInvQuiet DEF AllocCtx
<1>2. ASSUME NEW x \in Ctx,
             mem[x] = "unused",
             mem' = [mem EXCEPT ![x] = "held"],
             resp' = [resp EXCEPT ![x] = FALSE],
             done' = [done EXCEPT ![x] = FALSE],
             ctx' = [ctx EXCEPT ![c] = x],
             pc' = [pc EXCEPT ![c] = "lock"]
      PROVE  LockInv' /\ SnapInv' /\ CtxInv' /\ RingInv' /\ DataInv'
  <2> USE <1>2 DEF IInv, TypeOK, Labels
  <2>0. pc[c] = "entered"
        /\ UNCHANGED <<owner, free, avail, used, cb, cbSnap, data, snap>>
    BY DEF AllocCtx, ringVars, cbVars
  <2>1. LockInv'
    BY <2>0 DEF LockInv
  <2>2. SnapInv'
    BY <2>0 DEF SnapInv
  <2>3. \A e \in Caller : ctx[e] # x
    <3> TAKE e \in Caller
    <3>1. pc[e] \in Labels /\ NoCtx # x
      BY RequestAssumption
    <3> QED
      BY <3>1 DEF CtxInv
  <2>4. CtxInv'
    BY <2>0, <2>3, RequestAssumption DEF CtxInv
  <2>5. RingInv'
    BY <2>0, RingFrame
  <2>6. \A d \in Slots : data[d] # x
    BY RequestAssumption DEF DataInv
  <2>7. DataInv'
    <3>1. UNCHANGED <<RangeOf(free), RangeOf(used), OnTheWay>>
      BY <2>0 DEF RangeOf, OnTheWay
    <3>2. \A d \in Slots : d \in RangeOf(used) \cup OnTheWay => data[d] # NoCtx
      BY DEF DataInv, RingInv, OnTheWay
    <3> QED
      BY <2>0, <2>3, <2>6, <3>1, <3>2 DEF DataInv, CtxInv
  <2> QED
    BY <2>1, <2>2, <2>4, <2>5, <2>7
<1> QED
  BY <1>1, <1>2 DEF AllocCtx, Goto

LEMMA IInvAddRead ==
  ASSUME ~overlapped', IInv, NEW c \in Caller, AddRead(c)
  PROVE  LockInv' /\ SnapInv' /\ CtxInv' /\ RingInv' /\ DataInv'
<1> USE DEF IInv, TypeOK, Labels, Goto, AddRead, ctxVars, ringVars, cbVars
<1>1. UNCHANGED <<ctx, owner, mem, resp, done, free, avail, used, cb, cbSnap, data>>
  OBVIOUS
<1>2. LockInv'
  BY DEF LockInv
<1>3. SnapInv'
  BY DEF SnapInv, LockInv
<1>4. CtxInv'
  BY <1>1 DEF CtxInv
<1>5. RingInv'
  BY <1>1, RingFrame
<1>6. DataInv'
  BY <1>1 DEF DataInv, RangeOf, OnTheWay
<1> QED
  BY <1>2, <1>3, <1>4, <1>5, <1>6

(* A caller that is done with its context: -ENOSPC, woken, or timed out. *)
LEMMA IInvLeave ==
  ASSUME IInv, NEW c \in Caller, AddFull(c) \/ Wake(c) \/ Expire(c)
  PROVE  LockInv' /\ SnapInv' /\ CtxInv' /\ RingInv' /\ DataInv'
<1> DEFINE x == ctx[c]
<1> USE DEF IInv, TypeOK, Labels, Goto, devVars, ringVars, cbVars
<1>0. /\ UNCHANGED <<resp, done, free, avail, used, cb, cbSnap, data, snap>>
      /\ ctx' = [ctx EXCEPT ![c] = NoCtx]
      /\ pc' = [pc EXCEPT ![c] = "idle"] \/ pc' = [pc EXCEPT ![c] = "expired"]
      /\ pc[c] \in {"add", "waiting"}
  BY DEF AddFull, Wake, Expire
<1>1. LockInv'
  BY RequestAssumption DEF LockInv, AddFull, Wake, Expire
<1>2. SnapInv'
  BY <1>0 DEF SnapInv
<1>3. x \in Ctx /\ \A e \in Caller \ {c} : ctx[e] # x
  BY <1>0, RequestAssumption DEF CtxInv
<1>4. \E m \in {"unused", "leaked"} : mem' = [mem EXCEPT ![x] = m]
  BY DEF AddFull, Wake, Expire
<1>5. CtxInv'
  BY <1>0, <1>3, <1>4, RequestAssumption DEF CtxInv
<1>6. RingInv'
  BY <1>0, RingFrame
<1>7. \A d \in Slots : data[d] = x => mem'[x] = "leaked"
  BY <1>3, RequestAssumption DEF DataInv, CtxInv, AddFull, Wake, Expire
<1>8. DataInv'
  <2>1. UNCHANGED <<RangeOf(free), RangeOf(used), OnTheWay>>
    BY <1>0 DEF RangeOf, OnTheWay
  <2> QED
    BY <1>0, <1>3, <1>4, <1>7, <2>1 DEF DataInv
<1> QED
  BY <1>1, <1>2, <1>5, <1>6, <1>8

(* The head of the free list goes to the device with the caller's context. *)
LEMMA IInvAddWrite ==
  ASSUME IInv, NEW c \in Caller, AddWrite(c)
  PROVE  LockInv' /\ SnapInv' /\ CtxInv' /\ RingInv' /\ DataInv'
<1> DEFINE x == ctx[c]
           d == Head(free)
<1> USE DEF IInv, TypeOK
<1>0. /\ pc[c] = "addWrite" /\ free # <<>> /\ cb = NoSlot
      /\ x \in Ctx /\ mem[x] = "held" /\ ~done[x] /\ ~resp[x]
      /\ \A e \in Caller \ {c} : ctx[e] # x
  BY DEF AddWrite, SnapInv, CtxInv
<1>1. /\ free' = Tail(free) /\ avail' = Append(avail, d)
      /\ data' = [data EXCEPT ![d] = x]
      /\ mem' = [mem EXCEPT ![x] = "posted"]
      /\ pc' = [pc EXCEPT ![c] = "waiting"]
      /\ owner' = Nobody
      /\ UNCHANGED <<ctx, resp, done, used, cb, cbSnap>>
  BY DEF AddWrite, SnapInv, Goto, cbVars
<1>2. /\ d \in Slots /\ d \in RangeOf(free) /\ NoRepeat(Tail(free))
      /\ RangeOf(Tail(free)) = RangeOf(free) \ {d}
  BY <1>0, TakeHead DEF RingInv
<1>3. d \notin RangeOf(avail)
  BY <1>2 DEF RingInv
<1>4. /\ NoRepeat(Append(avail, d))
      /\ RangeOf(Append(avail, d)) = RangeOf(avail) \cup {d}
  BY <1>2, <1>3, PutLast DEF RingInv
<1>5. /\ RangeOf(free)' = RangeOf(free) \ {d}
      /\ RangeOf(avail)' = RangeOf(avail) \cup {d}
      /\ RangeOf(used)' = RangeOf(used)
      /\ OnTheWay' = {} /\ OnTheWay = {}
  BY <1>0, <1>1, <1>2, <1>4 DEF OnTheWay
<1>6. LockInv'
  BY <1>0, <1>1, RequestAssumption DEF LockInv
<1>7. SnapInv'
  <2>1. \A e \in Caller : pc'[e] # "addWrite"
    BY <1>0, <1>1 DEF LockInv
  <2> QED
    BY <1>0, <1>1, <2>1 DEF SnapInv
<1>8. CtxInv'
  BY <1>0, <1>1, RequestAssumption DEF CtxInv
<1>9. RingInv'
  <2>1. NoRepeat(free)' /\ NoRepeat(avail)' /\ NoRepeat(used)'
    BY <1>1, <1>2, <1>4 DEF RingInv, NoRepeat
  <2> QED
    BY <1>0, <1>1, <1>2, <1>3, <1>5, <2>1 DEF RingInv
<1>10. DataInv'
  <2>1. data[d] = NoCtx
    BY <1>2 DEF DataInv
  <2>2. \A e \in Slots : data[e] # x
    BY <1>0, RequestAssumption DEF DataInv
  <2>3. d \notin RangeOf(used)
    BY <1>2 DEF RingInv
  <2> QED
    BY <1>0, <1>1, <1>2, <1>5, <2>1, <2>2, <2>3, RequestAssumption DEF DataInv
<1> QED
  BY <1>6, <1>7, <1>8, <1>9, <1>10

(* The device answers the oldest request and gives its descriptor back. *)
LEMMA IInvDeviceServe ==
  ASSUME IInv, DeviceServe
  PROVE  LockInv' /\ SnapInv' /\ CtxInv' /\ RingInv' /\ DataInv'
<1> DEFINE d == Head(avail)
           x == data[d]
<1> USE DEF IInv, TypeOK
<1>0. /\ avail # <<>> /\ avail' = Tail(avail) /\ used' = Append(used, d)
      /\ resp' = [resp EXCEPT ![x] = TRUE]
      /\ UNCHANGED <<pc, ctx, owner, mem, done, free, data, snap, cb, cbSnap>>
  BY DEF DeviceServe, cbVars
<1>1. /\ d \in Slots /\ d \in RangeOf(avail) /\ NoRepeat(Tail(avail))
      /\ RangeOf(Tail(avail)) = RangeOf(avail) \ {d}
  BY <1>0, TakeHead DEF RingInv
<1>2. d \notin RangeOf(used) /\ d \notin RangeOf(free) /\ d # cb
  BY <1>1 DEF RingInv
<1>3. /\ NoRepeat(Append(used, d))
      /\ RangeOf(Append(used, d)) = RangeOf(used) \cup {d}
  BY <1>1, <1>2, PutLast DEF RingInv
<1>4. /\ RangeOf(free)' = RangeOf(free)
      /\ RangeOf(avail)' = RangeOf(avail) \ {d}
      /\ RangeOf(used)' = RangeOf(used) \cup {d}
      /\ OnTheWay' = OnTheWay
  BY <1>0, <1>1, <1>3 DEF OnTheWay
<1>5. x \in Ctx /\ mem[x] \in {"posted", "leaked"}
  BY <1>1, <1>2 DEF DataInv
<1>6. LockInv' /\ SnapInv' /\ CtxInv'
  <2>1. LockInv' /\ SnapInv'
    BY <1>0 DEF LockInv, SnapInv
  <2>2. CtxInv'
    BY <1>0, <1>5 DEF CtxInv
  <2> QED
    BY <2>1, <2>2
<1>7. RingInv'
  <2>1. NoRepeat(free)' /\ NoRepeat(avail)' /\ NoRepeat(used)'
    BY <1>0, <1>1, <1>3 DEF RingInv, NoRepeat
  <2> QED
    BY <1>0, <1>1, <1>2, <1>4, <2>1 DEF RingInv
<1>8. DataInv'
  <2>1. \A e \in Slots : e \in RangeOf(used) \cup OnTheWay => data[e] \in Ctx
    BY DEF DataInv, RingInv, OnTheWay
  <2>2. \A e \in Caller : pc[e] = "waiting" => ctx[e] \in Ctx
    BY DEF CtxInv
  <2> QED
    BY <1>0, <1>1, <1>2, <1>4, <1>5, <2>1, <2>2 DEF DataInv
<1> QED
  BY <1>6, <1>7, <1>8

(* The callback takes the oldest answer off the used ring. *)
LEMMA IInvCallbackTake ==
  ASSUME ~overlapped', IInv, CallbackTake
  PROVE  LockInv' /\ SnapInv' /\ CtxInv' /\ RingInv' /\ DataInv'
<1> DEFINE d == Head(used)
<1> USE DEF IInv, TypeOK
<1>0. /\ cb = NoSlot /\ used # <<>> /\ used' = Tail(used)
      /\ cb' = d /\ cbSnap' = free
      /\ \A c \in Caller : pc[c] # "addWrite"
      /\ UNCHANGED <<pc, ctx, owner, mem, resp, done, free, data, avail, snap>>
  BY DEF CallbackTake, Adding, ctxVars
<1>1. /\ d \in Slots /\ d \in RangeOf(used) /\ NoRepeat(Tail(used))
      /\ RangeOf(Tail(used)) = RangeOf(used) \ {d}
  BY <1>0, TakeHead DEF RingInv
<1>2. d \notin RangeOf(avail) /\ d \notin RangeOf(free) /\ d # NoSlot
  BY <1>1, RequestAssumption DEF RingInv
<1>3. /\ RangeOf(free)' = RangeOf(free)
      /\ RangeOf(avail)' = RangeOf(avail)
      /\ RangeOf(used)' = RangeOf(used) \ {d}
      /\ OnTheWay' = {d} /\ OnTheWay = {}
  BY <1>0, <1>1, <1>2 DEF OnTheWay
<1>4. LockInv' /\ SnapInv' /\ CtxInv'
  <2>1. LockInv' /\ SnapInv'
    BY <1>0 DEF LockInv, SnapInv
  <2>2. CtxInv'
    BY <1>0 DEF CtxInv
  <2> QED
    BY <2>1, <2>2
<1>5. RingInv'
  <2>1. NoRepeat(free)' /\ NoRepeat(avail)' /\ NoRepeat(used)'
    BY <1>0, <1>1 DEF RingInv, NoRepeat
  <2> QED
    BY <1>0, <1>1, <1>2, <1>3, <2>1 DEF RingInv
<1>6. DataInv'
  BY <1>0, <1>1, <1>2, <1>3 DEF DataInv
<1> QED
  BY <1>4, <1>5, <1>6

(* It puts the descriptor back and completes the context it carried. *)
LEMMA IInvCallbackComplete ==
  ASSUME IInv, CallbackComplete
  PROVE  LockInv' /\ SnapInv' /\ CtxInv' /\ RingInv' /\ DataInv'
<1> DEFINE x == data[cb]
<1> USE DEF IInv, TypeOK
<1>0. /\ cb \in Slots /\ x \in Ctx /\ free' = <<cb>> \o free /\ cb' = NoSlot
      /\ done' = [done EXCEPT ![x] = TRUE]
      /\ data' = [data EXCEPT ![cb] = NoCtx]
      /\ UNCHANGED <<pc, ctx, owner, mem, resp, avail, used, snap>>
  BY DEF CallbackComplete, SnapInv
<1>1. /\ cb \notin RangeOf(free) /\ cb \notin RangeOf(used) /\ cb \notin RangeOf(avail)
      /\ OnTheWay = {cb} /\ cb # NoSlot
  BY <1>0, RequestAssumption DEF RingInv, OnTheWay
<1>2. /\ NoRepeat(<<cb>> \o free)
      /\ RangeOf(<<cb>> \o free) = RangeOf(free) \cup {cb}
  BY <1>0, <1>1, PutFirst DEF RingInv
<1>3. /\ RangeOf(free)' = RangeOf(free) \cup {cb}
      /\ RangeOf(avail)' = RangeOf(avail)
      /\ RangeOf(used)' = RangeOf(used)
      /\ OnTheWay' = {}
  BY <1>0, <1>2 DEF RangeOf, OnTheWay
<1>4. LockInv'
  BY <1>0 DEF LockInv
<1>5. SnapInv'
  BY <1>0, <1>1 DEF SnapInv
<1>6. mem[x] \in {"posted", "leaked"} /\ ~done[x] /\ resp[x]
  BY <1>0, <1>1 DEF DataInv
<1>7. CtxInv'
  BY <1>0, <1>6 DEF CtxInv
<1>8. RingInv'
  <2>1. NoRepeat(free)' /\ NoRepeat(avail)' /\ NoRepeat(used)'
    BY <1>0, <1>2 DEF RingInv, NoRepeat
  <2>2. cb' \notin RangeOf(free)' \cup RangeOf(avail)' \cup RangeOf(used)'
    BY <1>0, <1>3, RequestAssumption DEF RingInv
  <2>3. /\ (RangeOf(free) \cap RangeOf(avail))' = {}
        /\ (RangeOf(free) \cap RangeOf(used))' = {}
        /\ (RangeOf(avail) \cap RangeOf(used))' = {}
    BY <1>1, <1>3 DEF RingInv
  <2>4. (RangeOf(free) \cup RangeOf(avail) \cup RangeOf(used) \cup OnTheWay)' = Slots
    BY <1>1, <1>3 DEF RingInv
  <2> QED
    BY <2>1, <2>2, <2>3, <2>4 DEF RingInv
<1>9. DataInv'
  <2>1. \A e \in Slots \ {cb} : data[e] # x
    BY <1>0, RequestAssumption DEF DataInv
  <2>2. \A e \in Caller : pc[e] = "waiting" => ctx[e] \in Ctx
    BY DEF CtxInv
  <2> QED
    BY <1>0, <1>1, <1>3, <1>6, <2>1, <2>2, RequestAssumption DEF DataInv
<1> QED
  BY <1>4, <1>5, <1>7, <1>8, <1>9

(* Every step but one that makes an add and a get overlap keeps them.      *)
LEMMA IInvStep == IInv /\ [Next]_vars => IInv' \/ overlapped'
<1> SUFFICES ASSUME ~overlapped', IInv, [Next]_vars PROVE IInv'
  OBVIOUS
<1>1. TypeOK'
  BY TypeNext DEF IInv
<1>2. CASE \E c \in Caller : CallerNext(c)
  BY <1>1, <1>2, IInvQuiet, IInvAllocCtx, IInvAddRead, IInvLeave, IInvAddWrite
  DEF CallerNext, IInv
<1>3. CASE DeviceServe
  BY <1>1, <1>3, IInvDeviceServe DEF IInv
<1>4. CASE CallbackTake
  BY <1>1, <1>4, IInvCallbackTake DEF IInv
<1>5. CASE CallbackComplete
  BY <1>1, <1>5, IInvCallbackComplete DEF IInv
<1>6. CASE UNCHANGED <<pc, ctx, owner, ctxVars, ringVars, snap, cbVars>>
  <2>1. UNCHANGED <<pc, ctx, owner, mem, resp, done, free, data, avail, used, snap,
                    cb, cbSnap>>
    BY <1>6 DEF ctxVars, ringVars, cbVars
  <2>2. LockInv' /\ SnapInv' /\ CtxInv'
    BY <2>1 DEF IInv, LockInv, SnapInv, CtxInv
  <2>3. RingInv'
    BY <2>1, RingFrame DEF IInv
  <2>4. DataInv'
    BY <2>1 DEF IInv, DataInv, RangeOf, OnTheWay
  <2> QED
    BY <1>1, <2>2, <2>3, <2>4 DEF IInv
<1> QED
  BY <1>2, <1>3, <1>4, <1>5, <1>6
  DEF Next, Gone, Probe, RemoveNext, RemoveUnpublish, RemoveReset, RemoveFree,
      vars, ctxVars, ringVars, cbVars

(* Once overlapped, always: the history is never reset.                    *)
LEMMA OverlapStays == TypeOK /\ overlapped /\ [Next]_vars => overlapped'
  BY DEF TypeOK, Next, CallerNext, Gone, Probe, Enter, AllocCtx, LockPool, AddRead,
         AddFull, AddWrite, Wake, Expire, ReportTimeout, DeviceServe, CallbackTake,
         CallbackComplete, RemoveNext, RemoveUnpublish, RemoveReset, RemoveFree,
         vars, cbVars

LEMMA UntilOverlap == Spec => [](overlapped \/ IInv)
<1>1. Init => overlapped \/ IInv
  BY InitIInv
<1>2. TypeOK /\ (overlapped \/ IInv) /\ [Next]_vars => (overlapped \/ IInv)'
  BY IInvStep, OverlapStays
<1> QED
  BY <1>1, <1>2, TypeCorrect, PTL DEF Spec

(***************************************************************************)
(* "Returns the host's verdict": an interrupt inside an add is the only    *)
(* thing that can break it. Until one has been, in every behaviour a woken *)
(* caller reads a response the device wrote, never the zeroes of kzalloc,  *)
(* which mean success; timeouts, late answers, a full queue and an unbind  *)
(* never do. pool_request_overlap shows that the overlap does.             *)
(***************************************************************************)
THEOREM VerdictSafety == Spec => [](overlapped \/ VerdictIsHosts)
<1>1. IInv => VerdictIsHosts
  BY DEF IInv, DataInv, VerdictIsHosts
<1> QED
  BY <1>1, UntilOverlap, PTL
-----------------------------------------------------------------------------
(* Progress in one caller alone is an update of the abstract state. *)
LEMMA ProgressOne ==
  ASSUME NEW c \in Caller, NEW v, Progress'[c] = v,
         \A e \in Caller \ {c} : Progress'[e] = Progress[e]
  PROVE  Progress' = [Progress EXCEPT ![c] = v]
  BY DEF Progress

(* A caller's step is a step of its own call, or invisible. *)
LEMMA RefineCaller ==
  ASSUME IInv, NEW c \in Caller, CallerNext(c)
  PROVE  Call!Next \/ Progress' = Progress
<1> DEFINE P(e) == CASE pc[e] = "idle"    -> "idle"
                     [] pc[e] = "waiting" -> IF resp[ctx[e]] THEN "served" ELSE "posted"
                     [] pc[e] = "expired" -> "gaveUp"
                     [] OTHER             -> "pending"
<1>1. Progress = [e \in Caller |-> P(e)] /\ Progress' = [e \in Caller |-> P(e)']
  BY DEF Progress
<1>2. \A e \in Caller \ {c} : Progress'[e] = Progress[e]
  <2> SUFFICES ASSUME NEW e \in Caller \ {c} PROVE P(e)' = P(e)
    BY <1>1
  <2>1. pc'[e] = pc[e] /\ ctx'[e] = ctx[e]
    BY DEF IInv, TypeOK, CallerNext, Enter, AllocCtx, LockPool, AddRead, AddFull,
           AddWrite, Wake, Expire, ReportTimeout, Goto
  <2>2. pc[e] = "waiting" => resp'[ctx[e]] = resp[ctx[e]]
    BY DEF IInv, TypeOK, CtxInv, CallerNext, Enter, AllocCtx, LockPool, AddRead,
           AddFull, AddWrite, Wake, Expire, ReportTimeout, ctxVars
  <2> QED
    BY <2>1, <2>2
<1>3. \A v : Progress'[c] = v => Progress' = [Progress EXCEPT ![c] = v]
  BY <1>2, ProgressOne
<1> USE DEF IInv, TypeOK, Goto
<1>4. CASE Enter(c)
  <2>1. P(c) = "idle" /\ P(c)' = "pending"
    BY <1>4 DEF Enter
  <2> QED
    BY <1>1, <1>3, <2>1 DEF Call!Next, Call!Start, Call!Move
<1>5. CASE AllocCtx(c)
  <2>1. P(c) = "pending" /\ P(c)' \in {"pending", "idle"}
    BY <1>5 DEF AllocCtx
  <2>2. CASE P(c)' = "idle"
    BY <1>1, <1>3, <2>1, <2>2 DEF Call!Next, Call!Refuse, Call!Move
  <2>3. CASE P(c)' = "pending"
    BY <1>1, <1>2, <2>1, <2>3
  <2> QED
    BY <2>1, <2>2, <2>3
<1>6. CASE LockPool(c) \/ AddRead(c)
  <2>1. P(c) = "pending" /\ P(c)' = "pending"
    BY <1>6 DEF LockPool, AddRead
  <2> QED
    BY <1>1, <1>2, <2>1
<1>7. CASE AddFull(c)
  <2>1. P(c) = "pending" /\ P(c)' = "idle"
    BY <1>7 DEF AddFull
  <2> QED
    BY <1>1, <1>3, <2>1 DEF Call!Next, Call!Refuse, Call!Move
<1>8. CASE AddWrite(c)
  <2>1. ~resp[ctx[c]] /\ UNCHANGED <<ctx, resp>>
    BY <1>8 DEF AddWrite, CtxInv
  <2>2. P(c) = "pending" /\ P(c)' = "posted"
    BY <1>8, <2>1 DEF AddWrite
  <2> QED
    BY <1>1, <1>3, <2>2 DEF Call!Next, Call!Post, Call!Move
<1>9. CASE Wake(c)
  <2>1. P(c) = "served" /\ P(c)' = "idle"
    BY <1>9 DEF Wake, DataInv
  <2> QED
    BY <1>1, <1>3, <2>1 DEF Call!Next, Call!Return, Call!Move
<1>10. CASE Expire(c)
  <2>1. P(c) \in {"posted", "served"} /\ P(c)' = "gaveUp"
    BY <1>10 DEF Expire
  <2> QED
    BY <1>1, <1>3, <2>1 DEF Call!Next, Call!GiveUp, Call!Move
<1>11. CASE ReportTimeout(c)
  <2>1. P(c) = "gaveUp" /\ P(c)' = "idle"
    BY <1>11 DEF ReportTimeout
  <2> QED
    BY <1>1, <1>3, <2>1 DEF Call!Next, Call!Report, Call!Move
<1> QED
  BY <1>4, <1>5, <1>6, <1>7, <1>8, <1>9, <1>10, <1>11 DEF CallerNext

(* One serve of the device serves one caller, or a request nobody awaits. *)
LEMMA RefineServe ==
  ASSUME IInv, DeviceServe
  PROVE  Call!Next \/ Progress' = Progress
<1> DEFINE x == data[Head(avail)]
<1> USE DEF IInv, TypeOK
<1>1. UNCHANGED <<pc, ctx>> /\ resp' = [resp EXCEPT ![x] = TRUE]
  BY DEF DeviceServe
<1>2. \A e \in Caller : pc[e] = "waiting" => ctx[e] \in Ctx
  BY DEF CtxInv
<1>3. CASE \E c \in Caller : pc[c] = "waiting" /\ ctx[c] = x /\ ~resp[x]
  <2>1. PICK c \in Caller : pc[c] = "waiting" /\ ctx[c] = x /\ ~resp[x]
    BY <1>3
  <2>2. \A e \in Caller \ {c} : ctx[e] # x
    BY <1>2, <2>1, RequestAssumption DEF CtxInv
  <2>3. \A e \in Caller \ {c} : Progress'[e] = Progress[e]
    BY <1>1, <1>2, <2>2 DEF Progress
  <2>4. Progress[c] = "posted" /\ Progress'[c] = "served"
    BY <1>1, <1>2, <2>1 DEF Progress
  <2> QED
    BY <2>3, <2>4, ProgressOne DEF Call!Next, Call!Serve, Call!Move
<1>4. CASE ~ \E c \in Caller : pc[c] = "waiting" /\ ctx[c] = x /\ ~resp[x]
  BY <1>1, <1>2, <1>4 DEF Progress
<1> QED
  BY <1>3, <1>4

(***************************************************************************)
(* vga_pool_request() implements PoolCall up to the first interrupt inside *)
(* an add: every step before it, in every behaviour, is a step of PoolCall *)
(* or invisible to it, for any number of callers, contexts and descriptors *)
(* and through unbinds with callers inside.                                *)
(***************************************************************************)
THEOREM Refinement ==
  Spec => Call!Init /\ [][overlapped \/ Call!Next]_Progress
<1>1. Init => Call!Init
  BY DEF Init, Call!Init, Progress
<1>2. (overlapped \/ IInv) /\ [Next]_vars => [overlapped \/ Call!Next]_Progress
  <2> SUFFICES ASSUME IInv, [Next]_vars PROVE Call!Next \/ Progress' = Progress
    OBVIOUS
  <2>1. CASE \E c \in Caller : CallerNext(c)
    BY <2>1, RefineCaller
  <2>2. CASE DeviceServe
    BY <2>2, RefineServe
  <2>3. CASE UNCHANGED <<pc, ctx, resp>>
    BY <2>3 DEF Progress
  <2> QED
    BY <2>1, <2>2, <2>3
    DEF Next, Gone, Probe, CallbackTake, CallbackComplete, RemoveNext,
        RemoveUnpublish, RemoveReset, RemoveFree, vars, ctxVars
<1> QED
  BY <1>1, <1>2, UntilOverlap, PTL DEF Spec
=============================================================================
