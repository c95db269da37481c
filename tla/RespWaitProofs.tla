--------------------------- MODULE RespWaitProofs ---------------------------
(***************************************************************************)
(* Proofs about RespWait, for any number of threads, objects, ranges of    *)
(* the BAR and capsets, and any bound on the calls.                        *)
(***************************************************************************)
EXTENDS RespWait, FiniteSets, FiniteSetTheorems, TLAPS

Ops == {"CAPSET_INFO", "CAPSET", "DISPLAY_INFO", "MAP", "UUID", "UNMAP", "UNREF"}
OfObj == {"MAP", "UUID", "UNMAP", "UNREF"}
Commands == [op : Ops, o : Obj \cup {NoObj} \cup Nat, n : Nat]
Objects ==
  [kind : {"none", "blob", "cross", "plain", "dying"}, range : BarRange \cup {NoRange},
   map : {"INITIALIZING", "OK", "ERR"}, uuid : {"INITIALIZING", "OK", "ERR"}]
ObjectPc == {"node", "map", "handle", "mmap", "uuid"}
Places == [pc : ObjectPc \cup {"idle", "caps", "capsAdd", "capsQueue"},
           o : Obj \cup {NoObj}, id : Nat]

(* What the variables hold; a thread or a command that is about an object  *)
(* names one.                                                              *)
TypeInv ==
  /\ device \in {"plugged", "unplugged", "reset"}
  /\ boot \in [pc : {"send", "wait", "display", "ready"}, i : Nat]
  /\ capId = <<>> \/ capId \in [1 .. NumCapsets -> Nat]
  /\ display \in Nat
  /\ cache \in Seq([id : Nat, valid : BOOLEAN])
  /\ obj \in [Obj -> Objects]
  /\ refs \in [Obj -> Int]
  /\ handle \in [Obj -> BOOLEAN]
  /\ dmabuf \in [Obj -> BOOLEAN]
  /\ vma \in [Obj -> BOOLEAN]
  /\ th \in [Thread -> Places]
  /\ \A t \in Thread : th[t].pc \in ObjectPc => th[t].o \in Obj
  /\ ring \in Seq(Commands)
  /\ answered \in Seq(Commands)
  /\ \A k \in 1 .. Len(ring) : ring[k].op \in OfObj => ring[k].o \in Obj
  /\ \A k \in 1 .. Len(answered) : answered[k].op \in OfObj => answered[k].o \in Obj
  /\ \A k \in 1 .. Len(answered) : answered[k].op = "CAPSET_INFO" => answered[k].o \in Nat
  /\ hostMap \in [BarRange -> Obj \cup {NoObj}]

(* No capset is in the cache twice.                                        *)
CacheInv == \A i, k \in 1 .. Len(cache) : cache[i].id = cache[k].id => i = k

(* The command that fills an entry is still to be queued, or on its way.   *)
Asked(id) ==
  \/ \E t \in Thread : th[t].pc = "capsQueue" /\ th[t].id = id
  \/ \E k \in 1 .. Len(ring) : ring[k].op = "CAPSET" /\ ring[k].n = id
  \/ \E k \in 1 .. Len(answered) : answered[k].op = "CAPSET" /\ answered[k].n = id

AskInv ==
  device = "plugged" => \A i \in 1 .. Len(cache) : cache[i].valid \/ Asked(cache[i].id)

(* What outputs[].info will be once the answers there are have been seen   *)
(* is no older than the last question.                                     *)
Seen ==
  \/ /\ known >= asked
     /\ \A k \in 1 .. Len(answered) : answered[k].op # "DISPLAY_INFO"
  \/ \E k \in 1 .. Len(answered) :
       /\ answered[k].op = "DISPLAY_INFO" /\ answered[k].n >= asked
       /\ \A j \in k + 1 .. Len(answered) : answered[j].op # "DISPLAY_INFO"

DisplayInv ==
  /\ asked \in Nat /\ asked <= display
  /\ device = "plugged" =>
       \/ \E k \in 1 .. Len(ring) : ring[k].op = "DISPLAY_INFO"
       \/ Seen
-----------------------------------------------------------------------------
Live(o) == obj[o].kind \in {"blob", "cross", "plain"}

(* Threads that create an object, and one that is about to map it.         *)
Making(t, o)  == th[t].o = o /\ th[t].pc \in {"node", "map", "handle"}
Mapping(t, o) == th[t].o = o /\ th[t].pc = "mmap"

(* Commands that hold a reference to an object, and that end it.           *)
Holding(c, o) == c.op \in {"MAP", "UUID"} /\ c.o = o
Ending(c, o)  == c.op \in {"UNMAP", "UNREF"} /\ c.o = o
Count(s, o)   == Cardinality({k \in 1 .. Len(s) : Holding(s[k], o)})

One(b) == IF b THEN 1 ELSE 0

(* The handle's reference is the creator's before, and the mapping's the   *)
(* one of the thread that waits for the answer.                            *)
HandleUse(o) == handle[o] \/ \E t \in Thread : Making(t, o)
MapUse(o)    == vma[o] \/ \E t \in Thread : Mapping(t, o)
Uses(o)      == One(HandleUse(o)) + One(MapUse(o)) + One(dmabuf[o])

(* Whoever can get at an object has a reference to it.                     *)
RefOK(o) ==
  Live(o) => refs[o] >= Uses(o) + Count(ring, o) + Count(answered, o)

(* Nobody can get at one that is freed or on its way there.                *)
GoneOK(o) ==
  /\ ~Live(o) => /\ ~handle[o] /\ ~vma[o] /\ ~dmabuf[o]
                 /\ \A t \in Thread : ~Making(t, o) /\ ~Mapping(t, o)
                 /\ \A k \in 1 .. Len(ring) : ~Holding(ring[k], o)
                 /\ \A k \in 1 .. Len(answered) : ~Holding(answered[k], o)
  /\ obj[o].kind = "none" => obj[o] = Fresh

(* An object is created by one thread, and only then known to others.      *)
MakeOK(o) ==
  /\ \A t \in Thread : Making(t, o) =>
       /\ ~handle[o] /\ ~vma[o] /\ ~dmabuf[o]
       /\ \A u \in Thread : Making(u, o) => u = t
       /\ \A u \in Thread : ~Mapping(u, o)
       /\ th[t].pc = "map" => obj[o].range # NoRange
       /\ th[t].pc \in {"node", "map"} =>
            /\ obj[o].map = "INITIALIZING"
            /\ \A k \in 1 .. Len(ring) : ~(ring[k].op = "MAP" /\ ring[k].o = o)
            /\ \A k \in 1 .. Len(answered) : ~(answered[k].op = "MAP" /\ answered[k].o = o)
  /\ \A t, u \in Thread : Mapping(t, o) /\ Mapping(u, o) => t = u
  /\ \A t \in Thread : Mapping(t, o) => ~vma[o]

(* The unmap and the unref of an object come after everything else about   *)
(* it, the unref last.                                                     *)
EndOK(o) ==
  /\ \A k \in 1 .. Len(ring) : Ending(ring[k], o) => obj[o].kind = "dying"
  /\ \A k \in 1 .. Len(answered) : Ending(answered[k], o) => obj[o].kind = "dying"
  /\ \A k, j \in 1 .. Len(ring) :
       k < j /\ ring[k].op = "UNREF" /\ ring[k].o = o => ~Ending(ring[j], o)
  /\ \A k \in 1 .. Len(answered) : Ending(answered[k], o) =>
       /\ \A j \in 1 .. Len(ring) : ~Ending(ring[j], o)
       /\ \A j \in 1 .. Len(answered) : Ending(answered[j], o) => j = k

(* What was mapped, for user space, or by an answer on its way, is still   *)
(* what the host has at the range.                                         *)
BackOK(o) ==
  /\ \A k \in 1 .. Len(ring) :
       ring[k].op = "MAP" /\ ring[k].o = o => obj[o].range # NoRange
  /\ \A k \in 1 .. Len(answered) :
       answered[k].op = "MAP" /\ answered[k].o = o =>
         /\ obj[o].range # NoRange
         /\ answered[k].n = 1 => hostMap[obj[o].range] = o
  /\ Live(o) /\ (obj[o].map = "OK" \/ vma[o]) =>
       obj[o].range # NoRange /\ hostMap[obj[o].range] = o

ObjectOK(o) == RefOK(o) /\ GoneOK(o) /\ MakeOK(o) /\ EndOK(o) /\ BackOK(o)
ObjectInv == device = "plugged" => \A o \in Obj : ObjectOK(o)

(* No two nodes have the same range.                                       *)
RangeInv ==
  \A o, p \in Obj : o # p /\ obj[o].range # NoRange => obj[o].range # obj[p].range
-----------------------------------------------------------------------------
(* Sequences: what appending, concatenating and removing the head leave.   *)
LEMMA SeqFacts ==
  ASSUME NEW S
  PROVE  /\ \A s \in Seq(S) : Len(s) \in Nat /\ \A k \in 1 .. Len(s) : s[k] \in S
         /\ \A n \in Nat : \A s \in [1 .. n -> S] : s \in Seq(S) /\ Len(s) = n
  OBVIOUS

LEMMA PushFacts ==
  ASSUME NEW S, NEW s \in Seq(S), NEW q \in Seq(S)
  PROVE  /\ s \o q \in Seq(S)
         /\ Len(s \o q) = Len(s) + Len(q)
         /\ \A k \in 1 .. Len(s) : (s \o q)[k] = s[k]
         /\ \A k \in Len(s) + 1 .. Len(s) + Len(q) : (s \o q)[k] = q[k - Len(s)]
  OBVIOUS

LEMMA AppendFacts ==
  ASSUME NEW S, NEW s \in Seq(S), NEW x \in S
  PROVE  /\ Append(s, x) \in Seq(S)
         /\ Len(Append(s, x)) = Len(s) + 1
         /\ \A k \in 1 .. Len(s) : Append(s, x)[k] = s[k]
         /\ Append(s, x)[Len(s) + 1] = x
  OBVIOUS

LEMMA TailFacts ==
  ASSUME NEW S, NEW s \in Seq(S), s # <<>>
  PROVE  /\ Head(s) \in S /\ Head(s) = s[1]
         /\ Len(s) \in Nat /\ Len(s) >= 1
         /\ Tail(s) \in Seq(S)
         /\ Len(Tail(s)) = Len(s) - 1
         /\ \A k \in 1 .. Len(s) - 1 : Tail(s)[k] = s[k + 1]
  OBVIOUS

(* What is in two sequences is in the range of their concatenation.        *)
LEMMA RangeFacts ==
  ASSUME NEW S, NEW s \in Seq(S), NEW q \in Seq(S)
  PROVE  /\ \A k \in 1 .. Len(s) : s[k] \in Range(s \o q)
         /\ \A k \in 1 .. Len(q) : q[k] \in Range(s \o q)
<1>1. /\ Len(s) \in Nat /\ Len(q) \in Nat
      /\ DOMAIN (s \o q) = 1 .. Len(s) + Len(q)
      /\ \A k \in 1 .. Len(s) : (s \o q)[k] = s[k]
  OBVIOUS
<1>2. \A k \in 1 .. Len(q) : Len(s) + k \in 1 .. Len(s) + Len(q) /\ (s \o q)[Len(s) + k] = q[k]
  OBVIOUS
<1>3. \A i \in DOMAIN (s \o q) : (s \o q)[i] \in Range(s \o q)
  BY DEF Range
<1>4. \A k \in 1 .. Len(s) : k \in DOMAIN (s \o q)
  BY <1>1
<1>5. \A k \in 1 .. Len(q) : Len(s) + k \in DOMAIN (s \o q)
  BY <1>1, <1>2
<1> QED BY <1>1, <1>2, <1>3, <1>4, <1>5

(* The commands a call may queue are typed.                                *)
CmdsOK(q) ==
  /\ q \in Seq(Commands)
  /\ \A k \in 1 .. Len(q) : q[k].op \in OfObj => q[k].o \in Obj

LEMMA CmdFacts ==
  /\ CmdsOK(<<>>)
  /\ CmdsOK(<<CmdGetDisplayInfo>>)
  /\ \A i \in Nat : CmdsOK(<<CmdGetCapsetInfo(i)>>) /\ CmdsOK(<<CmdGetCapset(i)>>)
  /\ \A o \in Obj : /\ CmdsOK(<<CmdMap(o)>>) /\ CmdsOK(<<CmdAssignUuid(o)>>)
                    /\ CmdsOK(<<CmdUnref(o)>>)
                    /\ CmdsOK(<<CmdUnmap(o)>> \o <<CmdUnref(o)>>)
                    /\ CmdsOK(<<>> \o <<CmdUnref(o)>>)
<1> USE DEF CmdsOK, Commands, Ops, OfObj, Cmd, CmdGetDisplayInfo, CmdGetCapsetInfo, CmdGetCapset,
            CmdMap, CmdUnmap, CmdUnref, CmdAssignUuid
<1>1. CmdsOK(<<>>) /\ CmdsOK(<<CmdGetDisplayInfo>>)
  OBVIOUS
<1>2. ASSUME NEW i \in Nat
      PROVE  CmdsOK(<<CmdGetCapsetInfo(i)>>) /\ CmdsOK(<<CmdGetCapset(i)>>)
  OBVIOUS
<1>3. ASSUME NEW o \in Obj
      PROVE  CmdsOK(<<CmdMap(o)>>) /\ CmdsOK(<<CmdAssignUuid(o)>>) /\ CmdsOK(<<CmdUnref(o)>>)
  OBVIOUS
<1>4. ASSUME NEW o \in Obj
      PROVE  CmdsOK(<<CmdUnmap(o)>> \o <<CmdUnref(o)>>) /\ CmdsOK(<<>> \o <<CmdUnref(o)>>)
  OBVIOUS
<1> QED BY <1>1, <1>2, <1>3, <1>4

(* The part of the type that is about the ring.                            *)
RingOK ==
  /\ ring \in Seq(Commands)
  /\ \A k \in 1 .. Len(ring) : ring[k].op \in OfObj => ring[k].o \in Obj

LEMMA QueueType ==
  ASSUME RingOK, NEW q, CmdsOK(q), Queue(q)
  PROVE  RingOK'
<1>1. CASE ring' = ring
  BY <1>1 DEF RingOK
<1>2. CASE ring' = ring \o q
  <2>1. /\ ring' \in Seq(Commands)
        /\ Len(ring') = Len(ring) + Len(q)
        /\ Len(ring) \in Nat /\ Len(q) \in Nat
        /\ \A k \in 1 .. Len(ring) : ring'[k] = ring[k]
        /\ \A k \in Len(ring) + 1 .. Len(ring) + Len(q) : ring'[k] = q[k - Len(ring)]
    BY <1>2, PushFacts DEF RingOK, CmdsOK
  <2>2. ASSUME NEW k \in 1 .. Len(ring'), ring'[k].op \in OfObj PROVE ring'[k].o \in Obj
    <3>1. CASE k \in 1 .. Len(ring)
      BY <2>1, <2>2, <3>1 DEF RingOK
    <3>2. CASE k \in Len(ring) + 1 .. Len(ring) + Len(q)
      <4>1. k - Len(ring) \in 1 .. Len(q) /\ ring'[k] = q[k - Len(ring)]
        BY <2>1, <3>2
      <4> QED BY <4>1, <2>2 DEF CmdsOK
    <3> QED BY <2>1, <3>1, <3>2
  <2> QED BY <2>1, <2>2 DEF RingOK
<1> QED BY <1>1, <1>2 DEF Queue

LEMMA DropType ==
  ASSUME RingOK, refs \in [Obj -> Int], NEW o \in Obj, NEW state \in [Obj -> Objects],
         Drop(o, 1, state)
  PROVE  RingOK' /\ refs' \in [Obj -> Int] /\ obj' \in [Obj -> Objects]
<1>1. refs' \in [Obj -> Int]
  BY DEF Drop
<1>2. CASE refs[o] > 1
  BY <1>1, <1>2 DEF Drop, RingOK
<1>3. CASE ~(refs[o] > 1)
  <2>1. RingOK'
    BY <1>3, CmdFacts, QueueType DEF Drop
  <2>2. obj' \in [Obj -> Objects]
    <3>1. [state[o] EXCEPT !.kind = "dying"] \in Objects /\ Fresh \in Objects
      BY DEF Objects, Fresh
    <3>2. obj' = [state EXCEPT ![o] = [state[o] EXCEPT !.kind = "dying"]]
          \/ obj' = [state EXCEPT ![o] = Fresh]
      BY <1>3 DEF Drop
    <3> QED BY <3>1, <3>2
  <2> QED BY <1>1, <2>1, <2>2
<1> QED BY <1>2, <1>3

(* The rest of the type.                                                   *)
AnswerOK ==
  /\ answered \in Seq(Commands)
  /\ \A k \in 1 .. Len(answered) : answered[k].op \in OfObj => answered[k].o \in Obj
  /\ \A k \in 1 .. Len(answered) : answered[k].op = "CAPSET_INFO" => answered[k].o \in Nat
ThreadOK ==
  /\ th \in [Thread -> Places]
  /\ \A t \in Thread : th[t].pc \in ObjectPc => th[t].o \in Obj
ThingOK ==
  /\ obj \in [Obj -> Objects]
  /\ refs \in [Obj -> Int]
  /\ handle \in [Obj -> BOOLEAN]
  /\ dmabuf \in [Obj -> BOOLEAN]
  /\ vma \in [Obj -> BOOLEAN]
PlainOK ==
  /\ device \in {"plugged", "unplugged", "reset"}
  /\ boot \in [pc : {"send", "wait", "display", "ready"}, i : Nat]
  /\ capId = <<>> \/ capId \in [1 .. NumCapsets -> Nat]
  /\ display \in Nat
  /\ cache \in Seq([id : Nat, valid : BOOLEAN])
  /\ hostMap \in [BarRange -> Obj \cup {NoObj}]

LEMMA TypeParts == TypeInv <=> PlainOK /\ ThingOK /\ ThreadOK /\ RingOK /\ AnswerOK
  BY DEF TypeInv, PlainOK, ThingOK, ThreadOK, RingOK, AnswerOK

LEMMA TypePartsNext == TypeInv' <=> PlainOK' /\ ThingOK' /\ ThreadOK' /\ RingOK' /\ AnswerOK'
  BY DEF TypeInv, PlainOK, ThingOK, ThreadOK, RingOK, AnswerOK

LEMMA ThreadMoves ==
  ASSUME ThreadOK, NEW t \in Thread, NEW p \in Places, p.pc \in ObjectPc => p.o \in Obj,
         th' = [th EXCEPT ![t] = p]
  PROVE  ThreadOK'
  BY DEF ThreadOK

LEMMA GotoType ==
  ASSUME ThreadOK, NEW t \in Thread,
         \/ Return(t)
         \/ th[t].pc \in ObjectPc /\ (Goto(t, "map") \/ Goto(t, "handle"))
         \/ Goto(t, "caps") \/ Goto(t, "capsQueue")
  PROVE  ThreadOK'
<1>1. CASE Return(t)
  BY <1>1 DEF ThreadOK, Return, Idle, Places, ObjectPc
<1>2. CASE th[t].pc \in ObjectPc /\ (Goto(t, "map") \/ Goto(t, "handle"))
  BY <1>2 DEF ThreadOK, Goto, Places, ObjectPc
<1>3. CASE Goto(t, "caps") \/ Goto(t, "capsQueue")
  BY <1>3 DEF ThreadOK, Goto, Places, ObjectPc
<1> QED BY <1>1, <1>2, <1>3

LEMMA BeginType ==
  ASSUME ThreadOK, NEW t \in Thread, NEW pc, NEW o, NEW id \in Nat, Begin(t, pc, o, id),
         \/ pc \in {"caps", "capsAdd"} /\ o = NoObj
         \/ pc \in ObjectPc /\ o \in Obj
  PROVE  ThreadOK'
  BY DEF ThreadOK, Begin, Places, ObjectPc

LEMMA BootType ==
  ASSUME TypeInv, BootNext \/ WorkNext \/ DisplayChange PROVE TypeInv'
<1> USE TypeParts, TypePartsNext, WaitAssumption
<1>1. CASE BootSend
  <2>1. PlainOK' /\ ThingOK' /\ ThreadOK' /\ AnswerOK'
    BY <1>1 DEF BootSend, PlainOK, ThingOK, ThreadOK, AnswerOK, objVars
  <2>2. boot.i \in Nat
    BY DEF PlainOK
  <2>3. Queue(<<CmdGetCapsetInfo(boot.i)>>) \/ Queue(<<CmdGetDisplayInfo>>) \/ ring' = ring
    BY <1>1 DEF BootSend, GetDisplayInfo
  <2>4. RingOK'
    <3>1. CASE ring' = ring
      BY <3>1 DEF RingOK
    <3> QED BY <2>2, <2>3, <3>1, CmdFacts, QueueType
  <2> QED BY <2>1, <2>4
<1>2. CASE BootWait
  <2>1. PlainOK'
    BY <1>2 DEF BootWait, PlainOK, dispVars
  <2> QED BY <1>2, <2>1 DEF BootWait, ThingOK, ThreadOK, AnswerOK, RingOK, objVars
<1>3. CASE BootDisplay
  BY <1>3 DEF BootDisplay, PlainOK, ThingOK, ThreadOK, AnswerOK, RingOK, objVars, dispVars
<1>4. CASE ConfigWork
  <2>1. RingOK'
    <3>1. Queue(<<CmdGetDisplayInfo>>) \/ ring' = ring
      BY <1>4 DEF ConfigWork, GetDisplayInfo
    <3>2. ring' = ring => RingOK'
      BY DEF RingOK
    <3> QED BY <3>1, <3>2, CmdFacts, QueueType
  <2> QED BY <1>4, <2>1 DEF ConfigWork, PlainOK, ThingOK, ThreadOK, AnswerOK, objVars, bootVars
<1>5. CASE ConfigClear
  BY <1>5 DEF ConfigClear, PlainOK, ThingOK, ThreadOK, AnswerOK, RingOK, objVars, bootVars
<1>6. CASE DisplayChange
  BY <1>6 DEF DisplayChange, PlainOK, ThingOK, ThreadOK, AnswerOK, RingOK, objVars, bootVars
<1> QED BY <1>1, <1>2, <1>3, <1>4, <1>5, <1>6 DEF BootNext, WorkNext

LEMMA CapsType ==
  ASSUME TypeInv, NEW t \in Thread, GetCaps(t) \/ GetCapset(t) \/ GetCapsetQueue(t) \/ CapsDone(t)
  PROVE  TypeInv'
<1> USE TypeParts, TypePartsNext
<1>1. CASE GetCaps(t)
  <2>1. PICK id \in {capId[i] : i \in DOMAIN capId} :
          Begin(t, IF Entry(id) # {} THEN "caps" ELSE "capsAdd", NoObj, id)
    BY <1>1 DEF GetCaps
  <2>2. id \in Nat
    <3>1. CASE capId = <<>>
      <4>1. DOMAIN capId = {}
        BY <3>1
      <4> QED BY <2>1, <4>1
    <3>2. CASE capId \in [1 .. NumCapsets -> Nat]
      BY <2>1, <3>2
    <3> QED BY <3>1, <3>2 DEF PlainOK
  <2>3. ThreadOK'
    BY <2>1, <2>2, BeginType
  <2> QED BY <1>1, <2>3 DEF GetCaps, PlainOK, ThingOK, AnswerOK, RingOK, objVars, bootVars, dispVars
<1>2. CASE GetCapset(t)
  <2>1. ThreadOK'
    BY <1>2, GotoType DEF GetCapset
  <2>2. th[t].id \in Nat
    BY DEF ThreadOK, Places
  <2>3. cache' \in Seq([id : Nat, valid : BOOLEAN])
    <3> DEFINE S == [id : Nat, valid : BOOLEAN]
               x == [id |-> th[t].id, valid |-> FALSE]
    <3>1. x \in S
      BY <2>2
    <3>2. cache \in Seq(S)
      BY DEF PlainOK
    <3>3. cache' = cache \/ cache' = Append(cache, x)
      BY <1>2 DEF GetCapset
    <3>4. cache' \in Seq(S)
      <4> HIDE DEF S, x
      <4> QED BY <3>1, <3>2, <3>3, AppendFacts
    <3> QED BY <3>4
  <2>4. PlainOK'
    BY <1>2, <2>3 DEF GetCapset, PlainOK, bootVars, dispVars
  <2> QED BY <1>2, <2>1, <2>4 DEF GetCapset, ThingOK, AnswerOK, RingOK, objVars
<1>3. CASE GetCapsetQueue(t)
  <2>1. ThreadOK'
    BY <1>3, GotoType DEF GetCapsetQueue
  <2>2. th[t].id \in Nat
    BY DEF ThreadOK, Places
  <2>3. RingOK'
    BY <1>3, <2>2, CmdFacts, QueueType DEF GetCapsetQueue
  <2> QED BY <1>3, <2>1, <2>3 DEF GetCapsetQueue, PlainOK, ThingOK, AnswerOK, objVars, bootVars, dispVars
<1>4. CASE CapsDone(t)
  <2>1. ThreadOK'
    BY <1>4, GotoType DEF CapsDone
  <2> QED BY <1>4, <2>1 DEF CapsDone, PlainOK, ThingOK, AnswerOK, RingOK, objVars, bootVars, dispVars
<1> QED BY <1>1, <1>2, <1>3, <1>4

(* Records of an object with a field changed are of the type.              *)
LEMMA ObjectFields ==
  ASSUME obj \in [Obj -> Objects], NEW o \in Obj
  PROVE  /\ \A k \in {"blob", "cross", "plain", "dying"} :
              [obj EXCEPT ![o].kind = k] \in [Obj -> Objects]
         /\ \A r \in BarRange \cup {NoRange} : [obj EXCEPT ![o].range = r] \in [Obj -> Objects]
         /\ \A m \in {"OK", "ERR"} : [obj EXCEPT ![o].map = m] \in [Obj -> Objects]
         /\ \A u \in {"INITIALIZING", "OK", "ERR"} : [obj EXCEPT ![o].uuid = u] \in [Obj -> Objects]
         /\ [obj EXCEPT ![o] = Fresh] \in [Obj -> Objects]
<1>0. obj[o] \in Objects
  OBVIOUS
<1>1. ASSUME NEW k \in {"blob", "cross", "plain", "dying"}
      PROVE  [obj EXCEPT ![o].kind = k] \in [Obj -> Objects]
  <2>1. [obj[o] EXCEPT !.kind = k] \in Objects
    BY <1>0 DEF Objects
  <2> QED BY <2>1
<1>2. ASSUME NEW r \in BarRange \cup {NoRange}
      PROVE  [obj EXCEPT ![o].range = r] \in [Obj -> Objects]
  <2>1. [obj[o] EXCEPT !.range = r] \in Objects
    BY <1>0 DEF Objects
  <2> QED BY <2>1
<1>3. ASSUME NEW m \in {"OK", "ERR"}
      PROVE  [obj EXCEPT ![o].map = m] \in [Obj -> Objects]
  <2>1. [obj[o] EXCEPT !.map = m] \in Objects
    BY <1>0 DEF Objects
  <2> QED BY <2>1
<1>4. ASSUME NEW u \in {"INITIALIZING", "OK", "ERR"}
      PROVE  [obj EXCEPT ![o].uuid = u] \in [Obj -> Objects]
  <2>1. [obj[o] EXCEPT !.uuid = u] \in Objects
    BY <1>0 DEF Objects
  <2> QED BY <2>1
<1>5. [obj EXCEPT ![o] = Fresh] \in [Obj -> Objects]
  BY DEF Objects, Fresh
<1> QED BY <1>1, <1>2, <1>3, <1>4, <1>5

LEMMA CreateType ==
  ASSUME TypeInv, NEW t \in Thread,
         CreateObj(t) \/ InsertNode(t) \/ SendMap(t) \/ CreateHandle(t)
  PROVE  TypeInv'
<1> USE TypeParts, TypePartsNext
<1>0. /\ obj \in [Obj -> Objects] /\ refs \in [Obj -> Int] /\ handle \in [Obj -> BOOLEAN]
      /\ dmabuf \in [Obj -> BOOLEAN] /\ vma \in [Obj -> BOOLEAN]
  BY DEF ThingOK
<1>1. CASE CreateObj(t)
  <2> DEFINE o == CHOOSE p \in Obj : obj[p].kind = "none"
  <2>0. o \in Obj
    BY <1>1 DEF CreateObj
  <2>1. PICK k \in {"blob", "cross", "plain"} :
          /\ Begin(t, IF k = "plain" THEN "handle" ELSE "node", o, 0)
          /\ obj' = [obj EXCEPT ![o].kind = k]
    BY <1>1 DEF CreateObj
  <2>2. ThreadOK'
    <3>1. (IF k = "plain" THEN "handle" ELSE "node") \in ObjectPc
      BY DEF ObjectPc
    <3> QED BY <2>0, <2>1, <3>1, BeginType
  <2>3. obj' \in [Obj -> Objects]
    BY <1>0, <2>0, <2>1, ObjectFields
  <2>4. refs' = [refs EXCEPT ![o] = 1]
    BY <1>1 DEF CreateObj
  <2>5. ThingOK'
    BY <1>0, <1>1, <2>3, <2>4 DEF CreateObj, ThingOK
  <2> QED BY <1>1, <2>2, <2>5 DEF CreateObj, PlainOK, AnswerOK, RingOK, bootVars, dispVars
<1> DEFINE o == th[t].o
<1>2. CASE InsertNode(t)
  <2>0. o \in Obj
    BY <1>2 DEF InsertNode, ThreadOK, ObjectPc
  <2>1. ThreadOK'
    <3>1. th[t].pc \in ObjectPc /\ (Goto(t, "map") \/ Return(t))
      BY <1>2 DEF InsertNode, ObjectPc
    <3> QED BY <3>1, GotoType
  <2>2. obj' \in [Obj -> Objects] /\ refs' \in [Obj -> Int] /\ RingOK'
    <3>1. CASE Drop(o, 1, obj)
      BY <1>0, <2>0, <3>1, DropType
    <3>2. CASE \E r \in BarRange : obj' = [obj EXCEPT ![o].range = r] /\ UNCHANGED <<refs, ring>>
      <4>1. RingOK'
        BY <3>2 DEF RingOK
      <4>2. PICK r \in BarRange : obj' = [obj EXCEPT ![o].range = r]
        BY <3>2
      <4>3. obj' \in [Obj -> Objects]
        <5> HIDE DEF o
        <5> QED BY <1>0, <2>0, <4>2, ObjectFields
      <4> QED BY <1>0, <3>2, <4>1, <4>3
    <3> QED BY <1>2, <3>1, <3>2 DEF InsertNode
  <2> QED BY <1>2, <2>1, <2>2 DEF InsertNode, PlainOK, ThingOK, AnswerOK, bootVars, dispVars
<1>3. CASE SendMap(t)
  <2>0. o \in Obj
    BY <1>3 DEF SendMap, ThreadOK, ObjectPc
  <2>1. ThreadOK'
    <3>1. th[t].pc \in ObjectPc /\ (Goto(t, "handle") \/ Return(t))
      BY <1>3 DEF SendMap, ObjectPc
    <3> QED BY <3>1, GotoType
  <2>2. obj' \in [Obj -> Objects] /\ refs' \in [Obj -> Int] /\ RingOK'
    <3>1. CASE Drop(o, 1, [obj EXCEPT ![o].range = NoRange])
      <4>1. [obj EXCEPT ![o].range = NoRange] \in [Obj -> Objects]
        BY <1>0, <2>0, ObjectFields
      <4> QED BY <1>0, <2>0, <3>1, <4>1, DropType
    <3>2. CASE /\ Queue(<<CmdMap(o)>>) /\ refs' = [refs EXCEPT ![o] = @ + 1] /\ UNCHANGED obj
      <4>1. RingOK'
        BY <2>0, <3>2, CmdFacts, QueueType
      <4>2. refs' \in [Obj -> Int]
        <5>1. refs[o] \in Int /\ refs[o] + 1 \in Int
          BY <1>0, <2>0
        <5> HIDE DEF o
        <5> QED BY <1>0, <2>0, <3>2, <5>1
      <4> QED BY <1>0, <3>2, <4>1, <4>2
    <3> QED BY <1>3, <3>1, <3>2 DEF SendMap
  <2> QED BY <1>3, <2>1, <2>2 DEF SendMap, PlainOK, ThingOK, AnswerOK, bootVars, dispVars
<1>4. CASE CreateHandle(t)
  <2>0. o \in Obj
    BY <1>4 DEF CreateHandle, ThreadOK, ObjectPc
  <2>1. ThreadOK'
    BY <1>4, GotoType DEF CreateHandle
  <2>2. /\ obj' \in [Obj -> Objects] /\ refs' \in [Obj -> Int] /\ RingOK'
        /\ handle' \in [Obj -> BOOLEAN]
    <3>1. CASE Drop(o, 1, [obj EXCEPT ![o].uuid = "ERR"]) /\ UNCHANGED handle
      <4>1. [obj EXCEPT ![o].uuid = "ERR"] \in [Obj -> Objects]
        BY <1>0, <2>0, ObjectFields
      <4> QED BY <1>0, <2>0, <3>1, <4>1, DropType
    <3>2. CASE /\ handle' = [handle EXCEPT ![o] = TRUE]
               /\ Queue(IF obj[o].kind = "cross" THEN <<CmdAssignUuid(o)>> ELSE <<>>)
               /\ refs' = [refs EXCEPT ![o] = IF obj[o].kind = "cross" THEN @ + 1 ELSE @]
               /\ UNCHANGED obj
      <4>1. RingOK'
        BY <2>0, <3>2, CmdFacts, QueueType
      <4>2. refs' \in [Obj -> Int]
        <5>1. refs[o] \in Int /\ refs[o] + 1 \in Int
          BY <1>0, <2>0
        <5> HIDE DEF o
        <5> QED BY <1>0, <2>0, <3>2, <5>1
      <4> QED BY <1>0, <3>2, <4>1, <4>2
    <3> QED BY <1>4, <3>1, <3>2 DEF CreateHandle
  <2> QED BY <1>4, <2>1, <2>2 DEF CreateHandle, PlainOK, ThingOK, AnswerOK, bootVars, dispVars
<1> QED BY <1>1, <1>2, <1>3, <1>4

LEMMA UseType ==
  ASSUME TypeInv, NEW t \in Thread,
         Mmap(t) \/ MmapDone(t) \/ Export(t) \/ GetUuid(t) \/ UuidDone(t)
  PROVE  TypeInv'
<1> USE TypeParts, TypePartsNext
<1>0. /\ obj \in [Obj -> Objects] /\ refs \in [Obj -> Int] /\ handle \in [Obj -> BOOLEAN]
      /\ dmabuf \in [Obj -> BOOLEAN] /\ vma \in [Obj -> BOOLEAN]
  BY DEF ThingOK
<1>1. CASE Mmap(t)
  <2>1. PICK o \in Obj : Begin(t, "mmap", o, 0) /\ refs' = [refs EXCEPT ![o] = @ + 1]
    BY <1>1 DEF Mmap
  <2>2. ThreadOK'
    <3>1. "mmap" \in ObjectPc
      BY DEF ObjectPc
    <3> QED BY <2>1, <3>1, BeginType
  <2>3. refs' \in [Obj -> Int]
    <3>1. refs[o] + 1 \in Int
      BY <1>0
    <3> QED BY <1>0, <2>1, <3>1
  <2> QED BY <1>1, <2>2, <2>3 DEF Mmap, PlainOK, ThingOK, AnswerOK, RingOK, bootVars, dispVars
<1>2. CASE MmapDone(t)
  <2> DEFINE o == th[t].o
  <2>0. o \in Obj
    BY <1>2 DEF MmapDone, ThreadOK, ObjectPc
  <2>1. ThreadOK'
    BY <1>2, GotoType DEF MmapDone
  <2>2. /\ obj' \in [Obj -> Objects] /\ refs' \in [Obj -> Int] /\ RingOK'
        /\ vma' \in [Obj -> BOOLEAN]
    <3>1. CASE Drop(o, 1, obj) /\ UNCHANGED vma
      BY <1>0, <2>0, <3>1, DropType
    <3>2. CASE vma' = [vma EXCEPT ![o] = TRUE] /\ UNCHANGED <<refs, obj, ring>>
      <4>1. RingOK'
        BY <3>2 DEF RingOK
      <4> QED BY <1>0, <3>2, <4>1
    <3> QED BY <1>2, <3>1, <3>2 DEF MmapDone
  <2> QED BY <1>2, <2>1, <2>2 DEF MmapDone, PlainOK, ThingOK, AnswerOK, bootVars, dispVars
<1>3. CASE Export(t)
  <2>1. PICK o \in Obj :
       \/ /\ dmabuf' = [dmabuf EXCEPT ![o] = TRUE]
          /\ refs' = [refs EXCEPT ![o] = IF obj[o].kind = "plain" THEN @ + 2 ELSE @ + 1]
          /\ obj' = [obj EXCEPT ![o].uuid = IF obj[o].kind = "blob" THEN "ERR" ELSE @]
          /\ Queue(IF obj[o].kind = "plain" THEN <<CmdAssignUuid(o)>> ELSE <<>>)
       \/ /\ obj' = [obj EXCEPT ![o].uuid = "ERR"]
          /\ UNCHANGED <<dmabuf, refs, ring>>
    BY <1>3 DEF Export
  <2>2. /\ obj' \in [Obj -> Objects] /\ refs' \in [Obj -> Int] /\ RingOK'
        /\ dmabuf' \in [Obj -> BOOLEAN]
    <3>1. CASE obj' = [obj EXCEPT ![o].uuid = "ERR"] /\ UNCHANGED <<dmabuf, refs, ring>>
      <4>1. RingOK'
        BY <3>1 DEF RingOK
      <4> QED BY <1>0, <3>1, <4>1, ObjectFields
    <3>2. CASE /\ dmabuf' = [dmabuf EXCEPT ![o] = TRUE]
               /\ refs' = [refs EXCEPT ![o] = IF obj[o].kind = "plain" THEN @ + 2 ELSE @ + 1]
               /\ obj' = [obj EXCEPT ![o].uuid = IF obj[o].kind = "blob" THEN "ERR" ELSE @]
               /\ Queue(IF obj[o].kind = "plain" THEN <<CmdAssignUuid(o)>> ELSE <<>>)
      <4>1. RingOK'
        BY <3>2, CmdFacts, QueueType
      <4>2. refs[o] + 2 \in Int /\ refs[o] + 1 \in Int
        BY <1>0
      <4>3. refs' \in [Obj -> Int]
        BY <1>0, <3>2, <4>2
      <4>4. obj' \in [Obj -> Objects]
        <5>1. (IF obj[o].kind = "blob" THEN "ERR" ELSE obj[o].uuid) \in {"INITIALIZING", "OK", "ERR"}
          BY <1>0 DEF Objects
        <5>2. obj' = [obj EXCEPT ![o].uuid = (IF obj[o].kind = "blob" THEN "ERR" ELSE obj[o].uuid)]
          BY <3>2
        <5>3. PICK u \in {"INITIALIZING", "OK", "ERR"} : obj' = [obj EXCEPT ![o].uuid = u]
          BY <5>1, <5>2
        <5> QED BY <1>0, <5>3, ObjectFields
      <4> QED BY <1>0, <3>2, <4>1, <4>3, <4>4
    <3> QED BY <2>1, <3>1, <3>2
  <2> QED BY <1>3, <2>2 DEF Export, PlainOK, ThingOK, ThreadOK, AnswerOK, bootVars, dispVars
<1>4. CASE GetUuid(t)
  <2>1. PICK o \in Obj : Begin(t, "uuid", o, 0)
    BY <1>4 DEF GetUuid
  <2>2. ThreadOK'
    <3>1. "uuid" \in ObjectPc
      BY DEF ObjectPc
    <3> QED BY <2>1, <3>1, BeginType
  <2> QED BY <1>4, <2>2 DEF GetUuid, PlainOK, ThingOK, AnswerOK, RingOK, objVars, bootVars, dispVars
<1>5. CASE UuidDone(t)
  <2>1. ThreadOK'
    BY <1>5, GotoType DEF UuidDone
  <2> QED BY <1>5, <2>1 DEF UuidDone, PlainOK, ThingOK, AnswerOK, RingOK, objVars, bootVars, dispVars
<1> QED BY <1>1, <1>2, <1>3, <1>4, <1>5

LEMMA CloseType ==
  ASSUME TypeInv, NEW o \in Obj, CloseRef(o) PROVE TypeInv'
<1> USE TypeParts, TypePartsNext
<1>0. /\ obj \in [Obj -> Objects] /\ refs \in [Obj -> Int] /\ handle \in [Obj -> BOOLEAN]
      /\ dmabuf \in [Obj -> BOOLEAN] /\ vma \in [Obj -> BOOLEAN]
  BY DEF ThingOK
<1>1. obj' \in [Obj -> Objects] /\ refs' \in [Obj -> Int] /\ RingOK'
  BY <1>0, DropType DEF CloseRef
<1>2. handle' \in [Obj -> BOOLEAN] /\ dmabuf' \in [Obj -> BOOLEAN] /\ vma' \in [Obj -> BOOLEAN]
  BY <1>0 DEF CloseRef
<1> QED BY <1>1, <1>2 DEF CloseRef, PlainOK, ThingOK, ThreadOK, AnswerOK, bootVars, dispVars

(* A command at the head of a queue, and an answer made from it.           *)
LEMMA AnswerFields ==
  ASSUME NEW c \in Commands
  PROVE  /\ \A n \in Nat : LET a == [c EXCEPT !.n = n]
                           IN  a \in Commands /\ a.op = c.op /\ a.o = c.o /\ a.n = n
         /\ \A i \in Nat : LET a == [c EXCEPT !.o = i]
                           IN  a \in Commands /\ a.op = c.op /\ a.o = i /\ a.n = c.n
  BY DEF Commands

(* What the host does with the command it reads: perhaps an answer, and    *)
(* what becomes of hostMap.                                                *)
HostAnswers(c, a) ==
  /\ a \in Commands /\ a.op = c.op /\ answered' = Append(answered, a)
  /\ c.op = "CAPSET_INFO" => a.o \in Nat
  /\ c.op # "CAPSET_INFO" => a.o = c.o
  /\ c.op = "CAPSET" => a.n = c.n
  /\ c.op = "DISPLAY_INFO" => a.n = display
  /\ c.op = "MAP" => \/ a.n = 1 /\ hostMap' = [hostMap EXCEPT ![obj[c.o].range] = c.o]
                     \/ a.n = 0 /\ hostMap' = hostMap
  /\ c.op = "UNREF" => hostMap' = [r \in BarRange |-> IF hostMap[r] = c.o THEN NoObj ELSE hostMap[r]]
  /\ c.op \notin {"MAP", "UNREF"} => hostMap' = hostMap

LEMMA HostCases ==
  ASSUME TypeInv, HostRead
  PROVE  /\ ring # <<>> /\ Head(ring) \in Commands /\ ring' = Tail(ring)
         /\ \/ /\ Head(ring).op = "UNMAP" /\ answered' = answered
               /\ hostMap' = [r \in BarRange |-> IF hostMap[r] = Head(ring).o THEN NoObj ELSE hostMap[r]]
            \/ Head(ring).op # "UNMAP" /\ \E a \in Commands : HostAnswers(Head(ring), a)
<1> DEFINE c == Head(ring)
           U == [r \in BarRange |-> IF hostMap[r] = c.o THEN NoObj ELSE hostMap[r]]
<1>1. ring # <<>> /\ ring' = Tail(ring)
  BY DEF HostRead
<1>2. ring \in Seq(Commands) /\ display \in Nat /\ HostId \subseteq Nat
  BY WaitAssumption DEF TypeInv
<1>3. c \in Commands /\ c.op \in Ops /\ c.n \in Nat
  <2>1. c \in Commands
    BY <1>1, <1>2, TailFacts
  <2> HIDE DEF c
  <2> QED BY <2>1 DEF Commands
<1>4. CASE c.op = "CAPSET_INFO"
  <2>1. hostMap' = hostMap /\ \E id \in HostId \cup {0} : answered' = Append(answered, [c EXCEPT !.o = id])
    BY <1>4 DEF HostRead
  <2>2. PICK id \in Nat : answered' = Append(answered, [c EXCEPT !.o = id])
    BY <2>1, <1>2
  <2> HIDE DEF c
  <2>3. PICK a : a = [c EXCEPT !.o = id]
    OBVIOUS
  <2>4. a \in Commands /\ a.op = c.op /\ a.o = id /\ a.n = c.n
    BY <1>3, <2>3, AnswerFields
  <2>5. HostAnswers(c, a)
    BY <1>4, <2>1, <2>2, <2>3, <2>4 DEF HostAnswers
  <2> QED BY <1>1, <1>3, <1>4, <2>4, <2>5 DEF c
<1>5. ASSUME NEW n \in Nat, answered' = Append(answered, [c EXCEPT !.n = n]), c.op # "CAPSET_INFO",
             c.op = "CAPSET" => n = c.n,
             c.op = "DISPLAY_INFO" => n = display,
             c.op = "MAP" => \/ n = 1 /\ hostMap' = [hostMap EXCEPT ![obj[c.o].range] = c.o]
                             \/ n = 0 /\ hostMap' = hostMap,
             c.op = "UNREF" => hostMap' = U,
             c.op \notin {"MAP", "UNREF"} => hostMap' = hostMap
      PROVE  \E a \in Commands : HostAnswers(c, a)
  <2> HIDE DEF c
  <2>1. PICK a : a = [c EXCEPT !.n = n]
    OBVIOUS
  <2>2. a \in Commands /\ a.op = c.op /\ a.o = c.o /\ a.n = n
    BY <1>3, <2>1, AnswerFields
  <2>3. HostAnswers(c, a)
    BY <1>5, <2>1, <2>2 DEF HostAnswers
  <2> QED BY <2>2, <2>3
<1>6. CASE c.op = "CAPSET"
  <2>1. answered' = Append(answered, [c EXCEPT !.n = c.n]) /\ hostMap' = hostMap
    BY <1>6 DEF HostRead
  <2> QED BY <1>1, <1>3, <1>5, <1>6, <2>1
<1>7. CASE c.op = "DISPLAY_INFO"
  <2>1. answered' = Append(answered, [c EXCEPT !.n = display]) /\ hostMap' = hostMap
    BY <1>7 DEF HostRead
  <2> QED BY <1>1, <1>2, <1>3, <1>5, <1>7, <2>1
<1>8. CASE c.op = "MAP"
  <2>1. \/ /\ answered' = Append(answered, [c EXCEPT !.n = 1])
           /\ hostMap' = [hostMap EXCEPT ![obj[c.o].range] = c.o]
        \/ answered' = Append(answered, [c EXCEPT !.n = 0]) /\ hostMap' = hostMap
    BY <1>8 DEF HostRead
  <2> QED BY <1>1, <1>3, <1>5, <1>8, <2>1
<1>9. CASE c.op = "UUID"
  <2>1. /\ \/ answered' = Append(answered, [c EXCEPT !.n = 1])
           \/ answered' = Append(answered, [c EXCEPT !.n = 0])
        /\ hostMap' = hostMap
    BY <1>9 DEF HostRead
  <2> QED BY <1>1, <1>3, <1>5, <1>9, <2>1
<1>10. CASE c.op = "UNREF"
  <2>1. answered' = Append(answered, [c EXCEPT !.n = 0]) /\ hostMap' = U
    BY <1>10 DEF HostRead
  <2> QED BY <1>1, <1>3, <1>5, <1>10, <2>1
<1>11. CASE c.op = "UNMAP"
  <2>1. answered' = answered /\ hostMap' = U
    BY <1>11 DEF HostRead
  <2> QED BY <1>1, <1>3, <1>11, <2>1
<1> QED BY <1>3, <1>4, <1>6, <1>7, <1>8, <1>9, <1>10, <1>11 DEF Ops

LEMMA HostType ==
  ASSUME TypeInv, HostRead PROVE TypeInv'
<1> USE TypeParts, TypePartsNext
<1>1. /\ ring # <<>> /\ Head(ring) \in Commands /\ ring' = Tail(ring)
      /\ ring \in Seq(Commands) /\ answered \in Seq(Commands)
      /\ hostMap \in [BarRange -> Obj \cup {NoObj}]
  BY HostCases DEF RingOK, AnswerOK, PlainOK
<1>2. RingOK'
  BY <1>1, TailFacts DEF RingOK
<1>3. Head(ring).op \in OfObj => Head(ring).o \in Obj
  BY <1>1, TailFacts DEF RingOK
<1>4. ASSUME NEW a \in Commands, HostAnswers(Head(ring), a)
      PROVE  AnswerOK' /\ hostMap' \in [BarRange -> Obj \cup {NoObj}]
  <2>0. a.op \in OfObj => a.o \in Obj
    BY <1>3, <1>4 DEF HostAnswers, OfObj
  <2>4. a.op = "CAPSET_INFO" => a.o \in Nat
    BY <1>4 DEF HostAnswers
  <2>1. AnswerOK'
    <3>1. /\ answered' \in Seq(Commands) /\ Len(answered') = Len(answered) + 1 /\ Len(answered) \in Nat
          /\ \A k \in 1 .. Len(answered) : answered'[k] = answered[k]
          /\ answered'[Len(answered) + 1] = a
      BY <1>1, <1>4, AppendFacts DEF HostAnswers
    <3> QED BY <2>0, <2>4, <3>1 DEF AnswerOK
  <2>2. hostMap' = hostMap \/ Head(ring).op = "UNREF" \/ Head(ring).op = "MAP"
    BY <1>4 DEF HostAnswers
  <2>3. hostMap' \in [BarRange -> Obj \cup {NoObj}]
    <3>1. CASE Head(ring).op = "UNREF"
      BY <1>1, <1>4, <3>1 DEF HostAnswers
    <3>2. CASE Head(ring).op = "MAP"
      <4>1. Head(ring).o \in Obj
        BY <1>3, <3>2 DEF OfObj
      <4>2. hostMap' = [hostMap EXCEPT ![obj[Head(ring).o].range] = Head(ring).o] \/ hostMap' = hostMap
        BY <1>4, <3>2 DEF HostAnswers
      <4> QED BY <1>1, <4>1, <4>2
    <3> QED BY <1>1, <2>2, <3>1, <3>2
  <2> QED BY <2>1, <2>3
<1>5. AnswerOK' /\ hostMap' \in [BarRange -> Obj \cup {NoObj}]
  <2>1. CASE answered' = answered /\ Head(ring).op = "UNMAP"
    BY <1>1, <2>1, HostCases DEF AnswerOK, HostAnswers
  <2> QED BY <1>4, <2>1, HostCases
<1> QED BY <1>2, <1>5 DEF HostRead, PlainOK, ThingOK, ThreadOK, objVars, bootVars, dispVars

(* What the callback of an answer does.                                    *)
LEMMA DequeueCases ==
  ASSUME TypeInv, Dequeue, NEW c, c = Head(answered)
  PROVE  /\ answered # <<>> /\ c \in Commands /\ answered' = Tail(answered) /\ c = answered[1]
         /\ c.op \in OfObj => c.o \in Obj
         /\ \/ c.op = "MAP" /\ Drop(c.o, 1, MapAnswer(c.o, c.n))
            \/ c.op = "UUID" /\ Drop(c.o, 1, UuidAnswer(c.o, c.n))
            \/ c.op = "UNREF" /\ obj' = [obj EXCEPT ![c.o] = Fresh] /\ UNCHANGED <<refs, ring>>
            \/ c.op \notin {"MAP", "UUID", "UNREF"} /\ UNCHANGED <<obj, refs, ring>>
<1>1. answered # <<>> /\ answered' = Tail(answered) /\ answered \in Seq(Commands)
  BY DEF Dequeue, TypeInv
<1>2. c \in Commands /\ c = answered[1] /\ 1 \in 1 .. Len(answered)
  BY <1>1, TailFacts
<1>3. c.op \in OfObj => c.o \in Obj
  BY <1>2 DEF TypeInv
<1>4. CASE c.op = "MAP"
  BY <1>1, <1>2, <1>3, <1>4 DEF Dequeue
<1>5. CASE c.op = "UUID"
  BY <1>1, <1>2, <1>3, <1>5 DEF Dequeue
<1>6. CASE c.op = "UNREF"
  BY <1>1, <1>2, <1>3, <1>6 DEF Dequeue
<1>7. CASE c.op \notin {"MAP", "UUID", "UNREF"}
  BY <1>1, <1>2, <1>3, <1>7 DEF Dequeue
<1> QED BY <1>4, <1>5, <1>6, <1>7

LEMMA DequeueType ==
  ASSUME TypeInv, Dequeue PROVE TypeInv'
<1> USE TypeParts, TypePartsNext
<1>0. /\ obj \in [Obj -> Objects] /\ refs \in [Obj -> Int] /\ answered \in Seq(Commands)
  BY DEF ThingOK, AnswerOK
<1>1. PICK c : c = Head(answered)
  OBVIOUS
<1>2. /\ answered # <<>> /\ c \in Commands /\ answered' = Tail(answered) /\ c = answered[1]
      /\ c.op \in OfObj => c.o \in Obj
  BY <1>1, DequeueCases
<1>3. AnswerOK'
  BY <1>0, <1>2, TailFacts DEF AnswerOK
<1>4. obj' \in [Obj -> Objects] /\ refs' \in [Obj -> Int] /\ RingOK'
  <2>1. CASE c.op = "MAP" /\ Drop(c.o, 1, MapAnswer(c.o, c.n))
    <3>1. c.o \in Obj
      BY <1>2, <2>1 DEF OfObj
    <3>2. MapAnswer(c.o, c.n) \in [Obj -> Objects]
      <4>3. PICK o \in Obj : o = c.o
        BY <3>1
      <4>1. PICK m \in {"OK", "ERR"} : m = IF c.n = 1 THEN "OK" ELSE "ERR"
        OBVIOUS
      <4>2. MapAnswer(c.o, c.n) = [obj EXCEPT ![o].map = m]
        BY <4>1, <4>3 DEF MapAnswer
      <4>4. [obj EXCEPT ![o].map = m] \in [Obj -> Objects]
        BY <1>0, ObjectFields
      <4> QED BY <4>2, <4>4
    <3> QED BY <1>0, <2>1, <3>1, <3>2, DropType
  <2>2. CASE c.op = "UUID" /\ Drop(c.o, 1, UuidAnswer(c.o, c.n))
    <3>1. c.o \in Obj
      BY <1>2, <2>2 DEF OfObj
    <3>2. UuidAnswer(c.o, c.n) \in [Obj -> Objects]
      <4>3. PICK o \in Obj : o = c.o
        BY <3>1
      <4>1. PICK u \in {"INITIALIZING", "OK", "ERR"} :
               u = IF c.n = 1 /\ obj[c.o].uuid = "INITIALIZING" THEN "OK" ELSE "ERR"
        OBVIOUS
      <4>2. UuidAnswer(c.o, c.n) = [obj EXCEPT ![o].uuid = u]
        BY <4>1, <4>3 DEF UuidAnswer
      <4>4. [obj EXCEPT ![o].uuid = u] \in [Obj -> Objects]
        BY <1>0, ObjectFields
      <4> QED BY <4>2, <4>4
    <3> QED BY <1>0, <2>2, <3>1, <3>2, DropType
  <2>3. CASE c.op = "UNREF" /\ obj' = [obj EXCEPT ![c.o] = Fresh] /\ UNCHANGED <<refs, ring>>
    <3>1. c.o \in Obj
      BY <1>2, <2>3 DEF OfObj
    <3>2. RingOK'
      BY <2>3 DEF RingOK
    <3> QED BY <1>0, <2>3, <3>1, <3>2, ObjectFields
  <2>4. CASE UNCHANGED <<obj, refs, ring>>
    BY <1>0, <2>4 DEF RingOK
  <2> QED BY <1>1, <2>1, <2>2, <2>3, <2>4, DequeueCases
<1>5. capId' = <<>> \/ capId' \in [1 .. NumCapsets -> Nat]
  <2>1. CASE c.op = "CAPSET_INFO"
    <3>1. c.o \in Nat
      <4>1. 1 \in 1 .. Len(answered)
        BY <1>0, <1>2
      <4> QED BY <1>2, <2>1, <4>1 DEF AnswerOK
    <3>2. capId' = CapsetInfoAnswer(c.n, c.o)
      BY <1>1, <2>1 DEF Dequeue
    <3> QED BY <3>1, <3>2 DEF CapsetInfoAnswer, PlainOK
  <2>2. CASE c.op # "CAPSET_INFO"
    BY <1>1, <2>2 DEF Dequeue, PlainOK
  <2> QED BY <2>1, <2>2
<1>6. cache' \in Seq([id : Nat, valid : BOOLEAN])
  <2>0. cache \in Seq([id : Nat, valid : BOOLEAN])
    BY DEF PlainOK
  <2>1. CASE c.op = "CAPSET"
    <3>1. cache' = CapsetAnswer(c.n)
      BY <1>1, <2>1 DEF Dequeue
    <3>2. DOMAIN cache = 1 .. Len(cache) /\ Len(cache) \in Nat
      BY <2>0
    <3>3. \A i \in 1 .. Len(cache) : cache[i] \in [id : Nat, valid : BOOLEAN]
      BY <2>0, SeqFacts
    <3>4. \A e \in [id : Nat, valid : BOOLEAN] :
             [e EXCEPT !.valid = TRUE] \in [id : Nat, valid : BOOLEAN]
      OBVIOUS
    <3> DEFINE S == [id : Nat, valid : BOOLEAN]
               First(i) == cache[i].id = c.n /\ \A k \in 1 .. i - 1 : cache[k].id # c.n
               Valid(i) == [cache[i] EXCEPT !.valid = TRUE]
    <3>5. \A i \in 1 .. Len(cache) : cache[i] \in S /\ Valid(i) \in S
      BY <3>3, <3>4
    <3>6. cache' = [i \in 1 .. Len(cache) |-> IF First(i) THEN Valid(i) ELSE cache[i]]
      BY <3>1, <3>2 DEF CapsetAnswer
    <3> HIDE DEF S, First, Valid
    <3>7. cache' \in [1 .. Len(cache) -> S]
      BY <3>5, <3>6
    <3>8. cache' \in Seq(S)
      BY <3>2, <3>7, SeqFacts
    <3> QED BY <3>8 DEF S
  <2>2. CASE c.op # "CAPSET"
    BY <1>1, <2>0, <2>2 DEF Dequeue
  <2> QED BY <2>1, <2>2
<1>7. UNCHANGED <<device, boot, display, handle, dmabuf, vma, th, hostMap>>
  BY DEF Dequeue
<1> QED BY <1>3, <1>4, <1>5, <1>6, <1>7 DEF PlainOK, ThingOK, ThreadOK

LEMMA RemoveType ==
  ASSUME TypeInv, RemoveDevice PROVE TypeInv'
<1> USE TypeParts, TypePartsNext
<1>1. UNCHANGED <<bootVars, dispVars, cache, objVars, th, hostMap>>
  BY DEF RemoveDevice
<1>2. /\ device' \in {"unplugged", "reset"}
      /\ UNCHANGED <<ring, answered>> \/ (ring' = <<>> /\ answered' = <<>>)
  <2>1. device' \in {"unplugged", "reset"}
    BY DEF RemoveDevice
  <2>2. UNCHANGED <<ring, answered>> \/ (ring' = <<>> /\ answered' = <<>>)
    BY DEF RemoveDevice
  <2> QED BY <2>1, <2>2
<1>3. RingOK' /\ AnswerOK'
  <2>1. CASE UNCHANGED <<ring, answered>>
    BY <2>1 DEF RingOK, AnswerOK
  <2>2. CASE ring' = <<>> /\ answered' = <<>>
    BY <2>2 DEF RingOK, AnswerOK
  <2> QED BY <1>2, <2>1, <2>2
<1> QED BY <1>1, <1>2, <1>3 DEF PlainOK, ThingOK, ThreadOK, objVars, bootVars, dispVars

(***************************************************************************)
(* The types of all variables, in every reachable state: the queues hold   *)
(* well-formed commands and whatever waits for an object names one.        *)
(***************************************************************************)
THEOREM TypeCorrect == Spec => []TypeInv
<1>1. Init => TypeInv
  <2>1. Init => PlainOK /\ ThingOK
    BY WaitAssumption DEF Init, PlainOK, ThingOK, Objects, Fresh
  <2>2. Init => ThreadOK /\ RingOK /\ AnswerOK
    BY DEF Init, ThreadOK, RingOK, AnswerOK, Places, ObjectPc, Idle
  <2> QED BY <2>1, <2>2, TypeParts
<1>2. TypeInv /\ [Next]_vars => TypeInv'
  <2> SUFFICES ASSUME TypeInv, [Next]_vars PROVE TypeInv'
    OBVIOUS
  <2>1. CASE UNCHANGED vars
    BY <2>1 DEF vars, TypeInv
  <2>2. CASE Next
    BY <2>2, BootType, CapsType, CreateType, UseType, CloseType, HostType, DequeueType, RemoveType
       DEF Next, CallNext, ThreadNext
  <2> QED BY <2>1, <2>2
<1> QED BY <1>1, <1>2, PTL DEF Spec
-----------------------------------------------------------------------------
(* The driver only adds to the ring.                                       *)
RingKept ==
  /\ Len(ring') >= Len(ring)
  /\ \A k \in 1 .. Len(ring) : ring'[k] = ring[k]

LEMMA SameKept ==
  ASSUME RingOK, ring' = ring PROVE RingKept
  BY DEF RingOK, RingKept

LEMMA QueueKept ==
  ASSUME RingOK, NEW q, CmdsOK(q), Queue(q)
  PROVE  RingKept
<1>1. CASE ring' = ring
  BY <1>1, SameKept
<1>2. CASE ring' = ring \o q
  <2>1. /\ Len(ring') = Len(ring) + Len(q)
        /\ Len(ring) \in Nat /\ Len(q) \in Nat
        /\ \A k \in 1 .. Len(ring) : ring'[k] = ring[k]
    BY <1>2, PushFacts DEF RingOK, CmdsOK
  <2> QED BY <2>1 DEF RingKept
<1> QED BY <1>1, <1>2 DEF Queue

LEMMA DropKept ==
  ASSUME RingOK, NEW o \in Obj, NEW state, Drop(o, 1, state)
  PROVE  RingKept
<1>1. CASE refs[o] > 1
  BY <1>1, SameKept DEF Drop
<1>2. CASE ~(refs[o] > 1)
  BY <1>2, CmdFacts, QueueKept DEF Drop
<1> QED BY <1>1, <1>2

(* What the calls and the closing of references leave alone.               *)
LEMMA CapsKept ==
  ASSUME TypeInv, NEW t \in Thread, GetCaps(t) \/ GetCapset(t) \/ GetCapsetQueue(t) \/ CapsDone(t)
  PROVE  RingKept /\ UNCHANGED <<answered, device, boot, dispVars, objVars, hostMap>>
<1> USE TypeParts
<1>1. CASE GetCapsetQueue(t)
  <2>1. th[t].id \in Nat
    BY DEF ThreadOK, Places
  <2>2. RingKept
    BY <1>1, <2>1, CmdFacts, QueueKept DEF GetCapsetQueue
  <2> QED BY <1>1, <2>2 DEF GetCapsetQueue, bootVars
<1>2. CASE GetCaps(t) \/ GetCapset(t) \/ CapsDone(t)
  <2>1. UNCHANGED <<answered, device, boot, dispVars, objVars, hostMap, ring>>
    BY <1>2 DEF GetCaps, GetCapset, CapsDone, bootVars
  <2> QED BY <2>1, SameKept
<1> QED BY <1>1, <1>2

(* The thread that takes a step is not about to ask for a capset.          *)
AskKept ==
  /\ cache' = cache
  /\ \A u \in Thread : th[u].pc = "capsQueue" => th'[u] = th[u]

LEMMA AskSteps ==
  ASSUME ThreadOK, NEW t \in Thread, th[t].pc # "capsQueue", cache' = cache,
         \/ Return(t) \/ Goto(t, "map") \/ Goto(t, "handle")
         \/ \E pc, o, id : Begin(t, pc, o, id)
  PROVE  AskKept
  BY DEF AskKept, ThreadOK, Return, Goto, Begin

LEMMA CreateKept ==
  ASSUME TypeInv, NEW t \in Thread,
         CreateObj(t) \/ InsertNode(t) \/ SendMap(t) \/ CreateHandle(t)
  PROVE  RingKept /\ AskKept /\ UNCHANGED <<answered, device, boot, dispVars, cache, hostMap>>
<1> USE TypeParts
<1>1. CASE CreateObj(t)
  <2>1. \E pc, o, id : Begin(t, pc, o, id)
    BY <1>1 DEF CreateObj
  <2>2. th[t].pc # "capsQueue"
    BY <2>1 DEF Begin, Idle
  <2>3. ring' = ring /\ cache' = cache
    BY <1>1 DEF CreateObj
  <2> QED BY <1>1, <2>1, <2>2, <2>3, AskSteps, SameKept DEF CreateObj, bootVars
<1>2. CASE InsertNode(t)
  <2>1. th[t].o \in Obj
    BY <1>2 DEF InsertNode, ThreadOK, ObjectPc
  <2>2. ring' = ring \/ Drop(th[t].o, 1, obj)
    BY <1>2 DEF InsertNode
  <2>3. AskKept
    BY <1>2, AskSteps DEF InsertNode
  <2> QED BY <1>2, <2>1, <2>2, <2>3, SameKept, DropKept DEF InsertNode, bootVars
<1>3. CASE SendMap(t)
  <2>1. th[t].o \in Obj
    BY <1>3 DEF SendMap, ThreadOK, ObjectPc
  <2>2. Queue(<<CmdMap(th[t].o)>>) \/ Drop(th[t].o, 1, [obj EXCEPT ![th[t].o].range = NoRange])
    BY <1>3 DEF SendMap
  <2>3. AskKept
    BY <1>3, AskSteps DEF SendMap
  <2> QED BY <1>3, <2>1, <2>2, <2>3, CmdFacts, QueueKept, DropKept DEF SendMap, bootVars
<1>4. CASE CreateHandle(t)
  <2>1. th[t].o \in Obj
    BY <1>4 DEF CreateHandle, ThreadOK, ObjectPc
  <2>2. \/ Queue(<<CmdAssignUuid(th[t].o)>>) \/ Queue(<<>>)
        \/ Drop(th[t].o, 1, [obj EXCEPT ![th[t].o].uuid = "ERR"])
    BY <1>4 DEF CreateHandle
  <2>3. AskKept
    BY <1>4, AskSteps DEF CreateHandle
  <2> QED BY <1>4, <2>1, <2>2, <2>3, CmdFacts, QueueKept, DropKept DEF CreateHandle, bootVars
<1> QED BY <1>1, <1>2, <1>3, <1>4

LEMMA UseKept ==
  ASSUME TypeInv, NEW t \in Thread,
         Mmap(t) \/ MmapDone(t) \/ Export(t) \/ GetUuid(t) \/ UuidDone(t)
  PROVE  RingKept /\ AskKept /\ UNCHANGED <<answered, device, boot, dispVars, cache, hostMap>>
<1> USE TypeParts
<1>1. CASE Mmap(t) \/ GetUuid(t)
  <2>1. \E pc, o, id : Begin(t, pc, o, id)
    BY <1>1 DEF Mmap, GetUuid
  <2>2. th[t].pc # "capsQueue"
    BY <2>1 DEF Begin, Idle
  <2>3. UNCHANGED <<ring, answered, device, boot, dispVars, cache, hostMap>>
    BY <1>1 DEF Mmap, GetUuid, bootVars
  <2> QED BY <2>1, <2>2, <2>3, AskSteps, SameKept
<1>2. CASE MmapDone(t)
  <2>1. th[t].o \in Obj
    BY <1>2 DEF MmapDone, ThreadOK, ObjectPc
  <2>2. ring' = ring \/ Drop(th[t].o, 1, obj)
    BY <1>2 DEF MmapDone
  <2>3. AskKept
    BY <1>2, AskSteps DEF MmapDone
  <2> QED BY <1>2, <2>1, <2>2, <2>3, SameKept, DropKept DEF MmapDone, bootVars
<1>3. CASE Export(t)
  <2>1. \/ ring' = ring \/ Queue(<<>>) \/ \E o \in Obj : Queue(<<CmdAssignUuid(o)>>)
    BY <1>3 DEF Export
  <2>2. UNCHANGED <<answered, device, boot, dispVars, cache, hostMap, th>>
    BY <1>3 DEF Export, bootVars
  <2>3. AskKept
    BY <2>2 DEF AskKept
  <2> QED BY <2>1, <2>2, <2>3, SameKept, CmdFacts, QueueKept
<1>4. CASE UuidDone(t)
  <2>1. UNCHANGED <<answered, device, boot, dispVars, cache, hostMap, ring>>
    BY <1>4 DEF UuidDone, bootVars
  <2>2. AskKept
    BY <1>4, AskSteps DEF UuidDone
  <2> QED BY <2>1, <2>2, SameKept
<1> QED BY <1>1, <1>2, <1>3, <1>4

LEMMA CloseKept ==
  ASSUME TypeInv, NEW o \in Obj, CloseRef(o)
  PROVE  RingKept /\ AskKept /\ UNCHANGED <<answered, device, boot, dispVars, cache, hostMap>>
<1>1. RingKept
  BY TypeParts, DropKept DEF CloseRef
<1>2. AskKept
  BY DEF CloseRef, AskKept
<1> QED BY <1>1, <1>2 DEF CloseRef, bootVars

LEMMA WorkKept ==
  ASSUME TypeInv, BootNext \/ WorkNext \/ DisplayChange
  PROVE  /\ RingKept /\ AskKept
         /\ UNCHANGED <<answered, device, cache, objVars, th, hostMap>>
<1> USE TypeParts
<1>1. UNCHANGED <<answered, device, cache, objVars, th, hostMap>>
  BY DEF BootNext, WorkNext, DisplayChange, BootSend, BootWait, BootDisplay, ConfigWork, ConfigClear
<1>2. \/ ring' = ring \/ Queue(<<CmdGetDisplayInfo>>) \/ Queue(<<CmdGetCapsetInfo(boot.i)>>)
  BY DEF BootNext, WorkNext, DisplayChange, GetDisplayInfo, BootSend, BootWait, BootDisplay, ConfigWork, ConfigClear
<1>3. boot.i \in Nat
  BY DEF PlainOK
<1>4. RingKept
  BY <1>2, <1>3, SameKept, CmdFacts, QueueKept
<1> QED BY <1>1, <1>4 DEF AskKept
-----------------------------------------------------------------------------
(* What is asked for stays so while the ring only grows.                   *)
LEMMA AskedKept ==
  ASSUME TypeInv, TypeInv', RingKept, answered' = answered, NEW id, Asked(id),
         \A u \in Thread : th[u].pc = "capsQueue" /\ th[u].id = id =>
                             \/ th'[u] = th[u]
                             \/ \E k \in 1 .. Len(ring') : ring'[k].op = "CAPSET" /\ ring'[k].n = id
  PROVE  Asked(id)'
<1>1. Len(ring) \in Nat /\ Len(ring') \in Nat
  BY DEF TypeInv
<1>2. CASE \E t \in Thread : th[t].pc = "capsQueue" /\ th[t].id = id
  BY <1>2 DEF Asked
<1>3. CASE \E k \in 1 .. Len(ring) : ring[k].op = "CAPSET" /\ ring[k].n = id
  <2>1. PICK k \in 1 .. Len(ring) : ring[k].op = "CAPSET" /\ ring[k].n = id
    BY <1>3
  <2>2. k \in 1 .. Len(ring') /\ ring'[k] = ring[k]
    BY <1>1 DEF RingKept
  <2> QED BY <2>1, <2>2 DEF Asked
<1>4. CASE \E k \in 1 .. Len(answered) : answered[k].op = "CAPSET" /\ answered[k].n = id
  BY <1>4 DEF Asked
<1> QED BY <1>2, <1>3, <1>4 DEF Asked

LEMMA AskKeeps ==
  ASSUME TypeInv, TypeInv', CacheInv, AskInv, RingKept, AskKept, UNCHANGED <<answered, device>>
  PROVE  CacheInv' /\ AskInv'
<1>1. CacheInv'
  BY DEF CacheInv, AskKept
<1>2. ASSUME device = "plugged", NEW i \in 1 .. Len(cache), ~cache[i].valid
      PROVE  Asked(cache[i].id)'
  <2>1. Asked(cache[i].id)
    BY <1>2 DEF AskInv
  <2>2. PICK id : id = cache[i].id
    OBVIOUS
  <2>3. Asked(id)'
    BY <2>1, <2>2, AskedKept DEF AskKept
  <2> QED BY <2>2, <2>3 DEF Asked, AskKept
<1>3. AskInv'
  <2>1. cache' = cache /\ device' = device
    BY DEF AskKept
  <2> QED BY <1>2, <2>1 DEF AskInv, Asked
<1> QED BY <1>1, <1>3

LEMMA AskGetCapset ==
  ASSUME TypeInv, TypeInv', CacheInv, AskInv, NEW t \in Thread, GetCapset(t)
  PROVE  CacheInv' /\ AskInv'
<1>0. RingKept /\ UNCHANGED <<answered, device>> /\ th \in [Thread -> Places]
  BY CapsKept DEF TypeInv
<1>1. th[t].pc = "capsAdd"
  BY DEF GetCapset
<1>2. CASE cache' = cache
  <2>1. \A u \in Thread : th[u].pc = "capsQueue" => th'[u] = th[u]
    BY <1>0, <1>1 DEF GetCapset, Return, Goto
  <2> QED BY <1>0, <1>2, <2>1, AskKeeps DEF AskKept
<1>3. CASE /\ Entry(th[t].id) = {}
           /\ cache' = Append(cache, [id |-> th[t].id, valid |-> FALSE])
           /\ Goto(t, "capsQueue")
  <2> DEFINE S == [id : Nat, valid : BOOLEAN]
  <2>1. PICK e \in S : e = [id |-> th[t].id, valid |-> FALSE]
    BY <1>0 DEF Places
  <2>2. cache \in Seq(S)
    BY DEF TypeInv
  <2>3. DOMAIN cache = 1 .. Len(cache) /\ Len(cache) \in Nat
    BY <2>2
  <2> HIDE DEF S
  <2>4. /\ Len(cache') = Len(cache) + 1
        /\ \A k \in 1 .. Len(cache) : cache'[k] = cache[k]
        /\ cache'[Len(cache) + 1] = e
    BY <1>3, <2>1, <2>2, AppendFacts
  <2>5. \A k \in 1 .. Len(cache) : cache[k].id # e.id
    BY <1>3, <2>1, <2>3 DEF Entry
  <2>6. CacheInv'
    <3> SUFFICES ASSUME NEW i \in 1 .. Len(cache'), NEW k \in 1 .. Len(cache'),
                        cache'[i].id = cache'[k].id
                 PROVE  i = k
      BY DEF CacheInv
    <3>1. CASE i \in 1 .. Len(cache) /\ k \in 1 .. Len(cache)
      BY <2>4, <3>1 DEF CacheInv
    <3>2. CASE i = Len(cache) + 1
      BY <2>3, <2>4, <2>5, <3>2
    <3>3. CASE k = Len(cache) + 1
      BY <2>3, <2>4, <2>5, <3>3
    <3> QED BY <2>3, <2>4, <3>1, <3>2, <3>3
  <2>7. \A u \in Thread : th[u].pc = "capsQueue" => th'[u] = th[u]
    BY <1>0, <1>1, <1>3 DEF Goto
  <2>8. th'[t].pc = "capsQueue" /\ th'[t].id = e.id
    BY <1>0, <1>3, <2>1 DEF Goto, Places
  <2>9. ASSUME device = "plugged", NEW i \in 1 .. Len(cache'), ~cache'[i].valid
        PROVE  Asked(cache[i].id)'
    <3>1. CASE i \in 1 .. Len(cache)
      <4>1. Asked(cache[i].id)
        BY <2>4, <2>9, <3>1 DEF AskInv
      <4>2. PICK id : id = cache[i].id
        OBVIOUS
      <4>3. Asked(id)'
        BY <1>0, <2>7, <4>1, <4>2, AskedKept
      <4> QED BY <2>4, <3>1, <4>2, <4>3 DEF Asked
    <3>2. CASE i = Len(cache) + 1
      BY <2>4, <2>8, <3>2 DEF Asked
    <3> QED BY <2>3, <2>4, <3>1, <3>2
  <2>10. AskInv'
    BY <1>0, <2>9 DEF AskInv, Asked
  <2> QED BY <2>6, <2>10
<1> QED BY <1>2, <1>3 DEF GetCapset

LEMMA AskGetCapsetQueue ==
  ASSUME TypeInv, TypeInv', CacheInv, AskInv, NEW t \in Thread, GetCapsetQueue(t)
  PROVE  CacheInv' /\ AskInv'
<1>0. /\ RingKept /\ UNCHANGED <<answered, device>> /\ th \in [Thread -> Places] /\ cache' = cache
      /\ ring \in Seq(Commands)
  BY CapsKept DEF TypeInv, GetCapsetQueue
<1>1. CacheInv'
  BY <1>0 DEF CacheInv
<1>2. th[t].id \in Nat /\ CmdsOK(<<CmdGetCapset(th[t].id)>>)
  BY <1>0, CmdFacts DEF Places
<1>3. ASSUME device = "plugged"
      PROVE  \E k \in 1 .. Len(ring') : ring'[k].op = "CAPSET" /\ ring'[k].n = th[t].id
  <2>1. PICK c : c = CmdGetCapset(th[t].id)
    OBVIOUS
  <2>2. <<c>> \in Seq(Commands) /\ ring' = ring \o <<c>>
    BY <1>2, <1>3, <2>1 DEF GetCapsetQueue, Queue, CmdsOK
  <2>3. Len(ring') = Len(ring) + 1 /\ Len(ring) \in Nat /\ ring'[Len(ring) + 1] = c
    BY <1>0, <2>2
  <2>4. c.op = "CAPSET" /\ c.n = th[t].id
    BY <2>1 DEF CmdGetCapset, Cmd
  <2> QED BY <2>3, <2>4
<1>4. \A u \in Thread : u # t => th'[u] = th[u]
  BY <1>0 DEF GetCapsetQueue, Goto
<1>5. ASSUME device = "plugged", NEW i \in 1 .. Len(cache), ~cache[i].valid
      PROVE  Asked(cache[i].id)'
  <2>1. Asked(cache[i].id)
    BY <1>5 DEF AskInv
  <2>2. PICK id : id = cache[i].id
    OBVIOUS
  <2>3. Asked(id)'
    BY <1>0, <1>3, <1>4, <1>5, <2>1, <2>2, AskedKept
  <2> QED BY <1>0, <2>2, <2>3 DEF Asked
<1>6. AskInv'
  BY <1>0, <1>5 DEF AskInv, Asked
<1> QED BY <1>1, <1>6

LEMMA AskHostRead ==
  ASSUME TypeInv, TypeInv', CacheInv, AskInv, HostRead
  PROVE  CacheInv' /\ AskInv'
<1>0. /\ UNCHANGED <<device, cache, th>> /\ ring # <<>> /\ ring' = Tail(ring)
      /\ ring \in Seq(Commands) /\ answered \in Seq(Commands)
  BY HostCases DEF HostRead, TypeInv
<1>1. CacheInv'
  BY <1>0 DEF CacheInv
<1>2. /\ Len(ring') = Len(ring) - 1 /\ Len(ring) \in Nat /\ Len(ring) >= 1 /\ Head(ring) = ring[1]
      /\ \A k \in 1 .. Len(ring) - 1 : ring'[k] = ring[k + 1]
  BY <1>0, TailFacts
<1>3. /\ Len(answered') >= Len(answered) /\ Len(answered) \in Nat /\ Len(answered') \in Nat
      /\ \A k \in 1 .. Len(answered) : answered'[k] = answered[k]
  <2>1. CASE answered' = answered
    BY <1>0, <2>1
  <2>2. ASSUME NEW a \in Commands, HostAnswers(Head(ring), a)
        PROVE  /\ Len(answered') >= Len(answered) /\ Len(answered) \in Nat /\ Len(answered') \in Nat
               /\ \A k \in 1 .. Len(answered) : answered'[k] = answered[k]
    BY <1>0, <2>2, AppendFacts DEF HostAnswers
  <2> QED BY <2>1, <2>2, HostCases
<1>4. ASSUME Head(ring).op = "CAPSET"
      PROVE  \E k \in 1 .. Len(answered') : answered'[k].op = "CAPSET" /\ answered'[k].n = Head(ring).n
  <2>1. PICK a \in Commands : HostAnswers(Head(ring), a)
    BY <1>4, HostCases
  <2>2. answered'[Len(answered) + 1] = a /\ Len(answered') = Len(answered) + 1
    BY <1>0, <2>1, AppendFacts DEF HostAnswers
  <2>3. a.op = "CAPSET" /\ a.n = Head(ring).n
    BY <1>4, <2>1 DEF HostAnswers
  <2> QED BY <1>3, <2>2, <2>3
<1>5. ASSUME NEW id, Asked(id) PROVE Asked(id)'
  <2>1. CASE \E t \in Thread : th[t].pc = "capsQueue" /\ th[t].id = id
    BY <1>0, <2>1 DEF Asked
  <2>2. CASE \E k \in 1 .. Len(ring) : ring[k].op = "CAPSET" /\ ring[k].n = id
    <3>1. PICK k \in 1 .. Len(ring) : ring[k].op = "CAPSET" /\ ring[k].n = id
      BY <2>2
    <3>2. CASE k = 1
      BY <1>2, <1>4, <3>1, <3>2 DEF Asked
    <3>3. CASE k # 1
      <4>1. k - 1 \in 1 .. Len(ring) - 1 /\ (k - 1) + 1 = k
        BY <1>2, <3>3
      <4>2. ring'[k - 1] = ring[k] /\ k - 1 \in 1 .. Len(ring')
        BY <1>2, <4>1
      <4> QED BY <3>1, <4>2 DEF Asked
    <3> QED BY <3>2, <3>3
  <2>3. CASE \E k \in 1 .. Len(answered) : answered[k].op = "CAPSET" /\ answered[k].n = id
    <3>1. PICK k \in 1 .. Len(answered) : answered[k].op = "CAPSET" /\ answered[k].n = id
      BY <2>3
    <3>2. k \in 1 .. Len(answered') /\ answered'[k] = answered[k]
      BY <1>3
    <3> QED BY <3>1, <3>2 DEF Asked
  <2> QED BY <1>5, <2>1, <2>2, <2>3 DEF Asked
<1>6. AskInv'
  <2> SUFFICES ASSUME device = "plugged", NEW i \in 1 .. Len(cache), ~cache[i].valid
               PROVE  Asked(cache[i].id)'
    BY <1>0 DEF AskInv, Asked
  <2>1. PICK id : id = cache[i].id
    OBVIOUS
  <2>2. Asked(id)'
    BY <1>5, <2>1 DEF AskInv
  <2> QED BY <1>0, <2>1, <2>2 DEF Asked
<1> QED BY <1>1, <1>6

LEMMA DequeueKept ==
  ASSUME TypeInv, Dequeue
  PROVE  /\ RingKept /\ UNCHANGED <<device, boot, config, event, display, asked, th, hostMap>>
         /\ UNCHANGED <<handle, dmabuf, vma>>
         /\ Len(answered) \in Nat /\ Len(answered) >= 1
         /\ Len(answered') = Len(answered) - 1
         /\ \A k \in 1 .. Len(answered) - 1 : answered'[k] = answered[k + 1]
<1>1. PICK c : c = Head(answered)
  OBVIOUS
<1>2. RingKept
  <2>1. c.op \in {"MAP", "UUID"} => c.o \in Obj
    BY <1>1, DequeueCases DEF OfObj
  <2>2. \/ c.op = "MAP" /\ Drop(c.o, 1, MapAnswer(c.o, c.n))
        \/ c.op = "UUID" /\ Drop(c.o, 1, UuidAnswer(c.o, c.n))
        \/ ring' = ring
    BY <1>1, DequeueCases
  <2> QED BY <2>1, <2>2, SameKept, DropKept, TypeParts
<1>3. answered # <<>> /\ answered' = Tail(answered) /\ answered \in Seq(Commands)
  BY DEF Dequeue, TypeInv
<1>4. /\ Len(answered) \in Nat /\ Len(answered) >= 1
      /\ Len(answered') = Len(answered) - 1
      /\ \A k \in 1 .. Len(answered) - 1 : answered'[k] = answered[k + 1]
  BY <1>3, TailFacts
<1>5. /\ UNCHANGED <<device, boot, config, event, display, asked, th, hostMap>>
      /\ UNCHANGED <<handle, dmabuf, vma>>
  BY DEF Dequeue
<1> QED BY <1>2, <1>4, <1>5

(* An entry keeps its id, and stays valid.                                 *)
LEMMA AnswerEntries ==
  ASSUME TypeInv, CacheInv, NEW n, cache' = CapsetAnswer(n)
  PROVE  /\ Len(cache') = Len(cache) /\ Len(cache) \in Nat
         /\ \A i \in 1 .. Len(cache) :
              /\ cache'[i].id = cache[i].id
              /\ cache[i].valid => cache'[i].valid
              /\ cache[i].id = n => cache'[i].valid
<1> DEFINE S == [id : Nat, valid : BOOLEAN]
<1>1. cache \in Seq(S) /\ DOMAIN cache = 1 .. Len(cache) /\ Len(cache) \in Nat
  BY DEF TypeInv
<1>2. \A i \in 1 .. Len(cache) : cache[i] \in S
  BY <1>1, SeqFacts
<1>3. \A e \in S : [e EXCEPT !.valid = TRUE].id = e.id /\ [e EXCEPT !.valid = TRUE].valid = TRUE
  OBVIOUS
<1> DEFINE First(i) == cache[i].id = n /\ \A k \in 1 .. i - 1 : cache[k].id # n
           Valid(i) == [cache[i] EXCEPT !.valid = TRUE]
<1>4. cache' = [i \in 1 .. Len(cache) |-> IF First(i) THEN Valid(i) ELSE cache[i]]
  BY <1>1 DEF CapsetAnswer
<1>5. \A i \in 1 .. Len(cache) : Valid(i).id = cache[i].id /\ Valid(i).valid = TRUE
  BY <1>2, <1>3
<1>6. ASSUME NEW i \in 1 .. Len(cache), cache[i].id = n PROVE First(i)
  <2>1. ASSUME NEW k \in 1 .. i - 1 PROVE cache[k].id # n
    <3>1. k \in 1 .. Len(cache) /\ k # i
      BY <1>1
    <3> QED BY <1>6, <3>1 DEF CacheInv
  <2> QED BY <1>6, <2>1
<1>7. Len(cache') = Len(cache)
  <2> HIDE DEF First, Valid
  <2> QED BY <1>1, <1>4
<1> HIDE DEF First, Valid, S
<1>8. \A i \in 1 .. Len(cache) :
        /\ cache'[i].id = cache[i].id
        /\ cache[i].valid => cache'[i].valid
        /\ cache[i].id = n => cache'[i].valid
  BY <1>4, <1>5, <1>6
<1> QED BY <1>1, <1>7, <1>8

LEMMA AskDequeue ==
  ASSUME TypeInv, TypeInv', CacheInv, AskInv, Dequeue
  PROVE  CacheInv' /\ AskInv'
<1>0. /\ RingKept /\ UNCHANGED <<device, th>>
      /\ Len(answered) \in Nat /\ Len(answered) >= 1
      /\ Len(answered') = Len(answered) - 1
      /\ \A k \in 1 .. Len(answered) - 1 : answered'[k] = answered[k + 1]
      /\ Len(ring) \in Nat /\ Len(ring') \in Nat
  BY DequeueKept DEF TypeInv
<1>1. PICK c : c = Head(answered)
  OBVIOUS
<1>2. c = answered[1]
  BY <1>1, DequeueCases
<1>3. /\ Len(cache') = Len(cache) /\ Len(cache) \in Nat
      /\ \A i \in 1 .. Len(cache) :
           /\ cache'[i].id = cache[i].id
           /\ cache[i].valid => cache'[i].valid
           /\ c.op = "CAPSET" /\ cache[i].id = c.n => cache'[i].valid
  <2>1. CASE c.op = "CAPSET"
    <3>1. cache' = CapsetAnswer(c.n)
      BY <1>1, <2>1 DEF Dequeue
    <3> QED BY <3>1, AnswerEntries
  <2>2. CASE c.op # "CAPSET"
    <3>1. cache' = cache
      BY <1>1, <2>2 DEF Dequeue
    <3> QED BY <2>2, <3>1 DEF TypeInv
  <2> QED BY <2>1, <2>2
<1>4. CacheInv'
  BY <1>3 DEF CacheInv
<1>5. ASSUME NEW id, Asked(id), ~(c.op = "CAPSET" /\ c.n = id) PROVE Asked(id)'
  <2>1. CASE \E t \in Thread : th[t].pc = "capsQueue" /\ th[t].id = id
    BY <1>0, <2>1 DEF Asked
  <2>2. CASE \E k \in 1 .. Len(ring) : ring[k].op = "CAPSET" /\ ring[k].n = id
    <3>1. PICK k \in 1 .. Len(ring) : ring[k].op = "CAPSET" /\ ring[k].n = id
      BY <2>2
    <3>2. k \in 1 .. Len(ring') /\ ring'[k] = ring[k]
      BY <1>0 DEF RingKept
    <3> QED BY <3>1, <3>2 DEF Asked
  <2>3. CASE \E k \in 1 .. Len(answered) : answered[k].op = "CAPSET" /\ answered[k].n = id
    <3>1. PICK k \in 1 .. Len(answered) : answered[k].op = "CAPSET" /\ answered[k].n = id
      BY <2>3
    <3>2. k # 1
      BY <1>2, <1>5, <3>1
    <3>3. k - 1 \in 1 .. Len(answered) - 1 /\ (k - 1) + 1 = k
      BY <1>0, <3>2
    <3>4. k - 1 \in 1 .. Len(answered') /\ answered'[k - 1] = answered[k]
      BY <1>0, <3>3
    <3> QED BY <3>1, <3>4 DEF Asked
  <2> QED BY <1>5, <2>1, <2>2, <2>3 DEF Asked
<1>6. AskInv'
  <2> SUFFICES ASSUME device = "plugged", NEW i \in 1 .. Len(cache), ~cache'[i].valid
               PROVE  Asked(cache[i].id)'
    BY <1>0, <1>3 DEF AskInv, Asked
  <2>1. PICK id : id = cache[i].id
    OBVIOUS
  <2>2. Asked(id) /\ ~(c.op = "CAPSET" /\ c.n = id)
    BY <1>3, <2>1 DEF AskInv
  <2>3. Asked(id)'
    BY <1>5, <2>2
  <2> QED BY <1>3, <2>1, <2>3 DEF Asked
<1> QED BY <1>4, <1>6

(***************************************************************************)
(* No entry of the capset cache waits for an answer that nobody has asked  *)
(* for, however many threads look for, add and wait for entries at once.   *)
(* It rests on CacheInv: the callback fills only the first entry with an   *)
(* id, so a second one would never become valid.                           *)
(***************************************************************************)
THEOREM EntrySafety == Spec => []EntryPending
<1>1. Init => CacheInv /\ AskInv
  BY DEF Init, CacheInv, AskInv
<1>2. TypeInv /\ TypeInv' /\ CacheInv /\ AskInv /\ [Next]_vars => CacheInv' /\ AskInv'
  <2> SUFFICES ASSUME TypeInv, TypeInv', CacheInv, AskInv, [Next]_vars
               PROVE  CacheInv' /\ AskInv'
    OBVIOUS
  <2>1. CASE UNCHANGED vars
    <3>1. RingKept /\ AskKept /\ UNCHANGED <<answered, device>>
      BY <2>1, SameKept, TypeParts DEF vars, AskKept
    <3> QED BY <3>1, AskKeeps
  <2>2. CASE BootNext \/ WorkNext \/ DisplayChange
    BY <2>2, WorkKept, AskKeeps
  <2>3. ASSUME NEW t \in Thread, CallNext(t) \/ ThreadNext(t) PROVE CacheInv' /\ AskInv'
    <3>1. CASE GetCaps(t) \/ CapsDone(t)
      <4>1. RingKept /\ UNCHANGED <<answered, device>> /\ cache' = cache
        BY <3>1, CapsKept DEF GetCaps, CapsDone
      <4>2. th[t].pc # "capsQueue" /\ (Return(t) \/ \E pc, o, id : Begin(t, pc, o, id))
        BY <3>1 DEF GetCaps, CapsDone, Begin, Idle
      <4> QED BY <4>1, <4>2, TypeParts, AskSteps, AskKeeps
    <3>2. CASE GetCapset(t)
      BY <3>2, AskGetCapset
    <3>3. CASE GetCapsetQueue(t)
      BY <3>3, AskGetCapsetQueue
    <3>4. CASE CreateObj(t) \/ InsertNode(t) \/ SendMap(t) \/ CreateHandle(t)
      BY <3>4, CreateKept, AskKeeps
    <3>5. CASE Mmap(t) \/ MmapDone(t) \/ Export(t) \/ GetUuid(t) \/ UuidDone(t)
      BY <3>5, UseKept, AskKeeps
    <3> QED BY <2>3, <3>1, <3>2, <3>3, <3>4, <3>5 DEF CallNext, ThreadNext
  <2>4. ASSUME NEW o \in Obj, CloseRef(o) PROVE CacheInv' /\ AskInv'
    BY <2>4, CloseKept, AskKeeps
  <2>5. CASE HostRead
    BY <2>5, AskHostRead
  <2>6. CASE Dequeue
    BY <2>6, AskDequeue
  <2>7. CASE RemoveDevice
    <3>1. device' # "plugged" /\ cache' = cache
      BY <2>7 DEF RemoveDevice
    <3> QED BY <3>1 DEF CacheInv, AskInv
  <2> QED BY <2>1, <2>2, <2>3, <2>4, <2>5, <2>6, <2>7 DEF Next
<1>3. TypeInv /\ AskInv => EntryPending
  <2> SUFFICES ASSUME TypeInv, AskInv, NEW i \in DOMAIN cache, ~cache[i].valid, device = "plugged",
                      ~\E t \in Thread : th[t].pc = "capsQueue" /\ th[t].id = cache[i].id
               PROVE  \E c \in Range(ring \o answered) : c.op = "CAPSET" /\ c.n = cache[i].id
    BY DEF EntryPending, TypeInv
  <2>1. i \in 1 .. Len(cache) /\ ring \in Seq(Commands) /\ answered \in Seq(Commands)
    BY DEF TypeInv
  <2>2. \/ \E k \in 1 .. Len(ring) : ring[k].op = "CAPSET" /\ ring[k].n = cache[i].id
        \/ \E k \in 1 .. Len(answered) : answered[k].op = "CAPSET" /\ answered[k].n = cache[i].id
    BY <2>1 DEF AskInv, Asked
  <2> QED BY <2>1, <2>2, RangeFacts
<1> QED BY <1>1, <1>2, <1>3, TypeCorrect, PTL DEF Spec
-----------------------------------------------------------------------------
(* A question about the display is in the ring.                            *)
Asking == \E k \in 1 .. Len(ring) : ring[k].op = "DISPLAY_INFO"

LEMMA AskingKept ==
  ASSUME TypeInv, TypeInv', RingKept, Asking PROVE Asking'
<1>1. Len(ring) \in Nat /\ Len(ring') \in Nat
  BY DEF TypeInv
<1>2. PICK k \in 1 .. Len(ring) : ring[k].op = "DISPLAY_INFO"
  BY DEF Asking
<1>3. k \in 1 .. Len(ring') /\ ring'[k] = ring[k]
  BY <1>1 DEF RingKept
<1> QED BY <1>2, <1>3 DEF Asking

LEMMA SeenKept ==
  ASSUME Seen, UNCHANGED <<known, asked, answered>> PROVE Seen'
  BY DEF Seen

LEMMA DisplayKeeps ==
  ASSUME TypeInv, TypeInv', DisplayInv, RingKept,
         UNCHANGED <<answered, device, known, asked>>, display' = display \/ display' = display + 1
  PROVE  DisplayInv'
<1>1. asked' \in Nat /\ asked' <= display'
  BY DEF DisplayInv, TypeInv
<1>2. Asking => Asking'
  BY AskingKept
<1>3. Seen => Seen'
  BY SeenKept
<1> QED BY <1>1, <1>2, <1>3 DEF DisplayInv, Asking

LEMMA QueueAsks ==
  ASSUME TypeInv, device = "plugged", Queue(<<CmdGetDisplayInfo>>)
  PROVE  Asking'
<1>1. PICK c : c = CmdGetDisplayInfo
  OBVIOUS
<1>2. <<c>> \in Seq(Commands) /\ ring' = ring \o <<c>> /\ ring \in Seq(Commands)
  BY <1>1, CmdFacts DEF Queue, CmdsOK, TypeInv
<1>3. Len(ring') = Len(ring) + 1 /\ Len(ring) \in Nat /\ ring'[Len(ring) + 1] = c
  BY <1>2
<1>4. c.op = "DISPLAY_INFO"
  BY <1>1 DEF CmdGetDisplayInfo, Cmd
<1> QED BY <1>3, <1>4 DEF Asking

LEMMA DisplayAsks ==
  ASSUME TypeInv, TypeInv', DisplayInv, RingKept, GetDisplayInfo,
         UNCHANGED <<answered, device, known, display>>
  PROVE  DisplayInv'
<1>1. CASE asked' = asked
  BY <1>1, DisplayKeeps
<1>2. CASE asked' = display /\ Queue(<<CmdGetDisplayInfo>>)
  <2>1. asked' \in Nat /\ asked' <= display'
    BY <1>2 DEF TypeInv
  <2>2. device = "plugged" => Asking'
    BY <1>2, QueueAsks
  <2> QED BY <2>1, <2>2 DEF DisplayInv, Asking
<1> QED BY <1>1, <1>2 DEF GetDisplayInfo

LEMMA DisplayWork ==
  ASSUME TypeInv, TypeInv', DisplayInv, BootNext \/ WorkNext \/ DisplayChange
  PROVE  DisplayInv'
<1>0. RingKept /\ UNCHANGED <<answered, device>>
  BY WorkKept
<1>1. known' = known
  BY DEF BootNext, WorkNext, DisplayChange, BootSend, BootWait, BootDisplay, ConfigWork, ConfigClear,
         dispVars
<1>2. CASE BootSend
  <2>1. display' = display /\ (asked' = asked \/ GetDisplayInfo)
    BY <1>2 DEF BootSend
  <2> QED BY <1>0, <1>1, <2>1, DisplayKeeps, DisplayAsks
<1>3. CASE ConfigWork
  <2>1. display' = display /\ (asked' = asked \/ GetDisplayInfo)
    BY <1>3 DEF ConfigWork
  <2> QED BY <1>0, <1>1, <2>1, DisplayKeeps, DisplayAsks
<1>4. CASE BootWait \/ BootDisplay \/ ConfigClear \/ DisplayChange
  <2>1. asked' = asked /\ (display' = display \/ display' = display + 1)
    BY <1>4 DEF BootWait, BootDisplay, ConfigClear, DisplayChange, dispVars
  <2> QED BY <1>0, <1>1, <2>1, DisplayKeeps
<1> QED BY <1>2, <1>3, <1>4 DEF BootNext, WorkNext

LEMMA DisplayHostRead ==
  ASSUME TypeInv, TypeInv', DisplayInv, HostRead
  PROVE  DisplayInv'
<1>0. /\ UNCHANGED <<device, boot, config, event, display, asked, known>>
      /\ ring # <<>> /\ ring' = Tail(ring)
      /\ ring \in Seq(Commands) /\ answered \in Seq(Commands)
  BY HostCases DEF HostRead, TypeInv, bootVars, dispVars
<1>1. PICK c : c = Head(ring)
  OBVIOUS
<1>2. /\ Len(ring') = Len(ring) - 1 /\ Len(ring) \in Nat /\ Len(ring) >= 1 /\ c = ring[1]
      /\ \A k \in 1 .. Len(ring) - 1 : ring'[k] = ring[k + 1]
  BY <1>0, <1>1, TailFacts
<1>3. answered' = answered \/ \E a \in Commands : HostAnswers(c, a)
  BY <1>1, HostCases
<1>4. CASE c.op = "DISPLAY_INFO"
  <2>1. PICK a \in Commands : HostAnswers(c, a)
    BY <1>1, <1>4, HostCases
  <2>2. answered'[Len(answered) + 1] = a /\ Len(answered') = Len(answered) + 1 /\ Len(answered) \in Nat
    BY <1>0, <2>1, AppendFacts DEF HostAnswers
  <2>3. a.op = "DISPLAY_INFO" /\ a.n >= asked
    <3>1. a.op = "DISPLAY_INFO" /\ a.n = display
      BY <1>4, <2>1 DEF HostAnswers
    <3> QED BY <3>1 DEF DisplayInv, TypeInv
  <2>4. Seen'
    <3>1. Len(answered) + 1 \in 1 .. Len(answered')
      BY <2>2
    <3>2. \A j \in Len(answered) + 2 .. Len(answered') : FALSE
      BY <2>2
    <3> QED BY <1>0, <2>2, <2>3, <3>1, <3>2 DEF Seen
  <2> QED BY <1>0, <2>4 DEF DisplayInv
<1>5. CASE c.op # "DISPLAY_INFO"
  <2>1. Asking => Asking'
    <3> SUFFICES ASSUME Asking PROVE Asking'
      OBVIOUS
    <3>1. PICK k \in 1 .. Len(ring) : ring[k].op = "DISPLAY_INFO"
      BY DEF Asking
    <3>2. k # 1
      BY <1>2, <1>5, <3>1
    <3>3. k - 1 \in 1 .. Len(ring) - 1 /\ (k - 1) + 1 = k
      BY <1>2, <3>2
    <3>4. ring'[k - 1] = ring[k] /\ k - 1 \in 1 .. Len(ring')
      BY <1>2, <3>3
    <3> QED BY <3>1, <3>4 DEF Asking
  <2>2. Seen => Seen'
    <3>1. CASE answered' = answered
      BY <1>0, <3>1, SeenKept
    <3>2. ASSUME NEW a \in Commands, HostAnswers(c, a) PROVE Seen => Seen'
      <4>1. /\ answered'[Len(answered) + 1] = a /\ Len(answered') = Len(answered) + 1
            /\ Len(answered) \in Nat
            /\ \A k \in 1 .. Len(answered) : answered'[k] = answered[k]
        BY <1>0, <3>2, AppendFacts DEF HostAnswers
      <4>2. a.op # "DISPLAY_INFO"
        BY <1>5, <3>2 DEF HostAnswers
      <4>3. \A j \in 1 .. Len(answered') : j \in 1 .. Len(answered) \/ j = Len(answered) + 1
        BY <4>1
      <4>4. \A j \in 1 .. Len(answered') : answered'[j].op = "DISPLAY_INFO" =>
               j \in 1 .. Len(answered) /\ answered'[j] = answered[j]
        BY <4>1, <4>2, <4>3
      <4>5. CASE /\ known >= asked
                 /\ \A k \in 1 .. Len(answered) : answered[k].op # "DISPLAY_INFO"
        BY <1>0, <4>4, <4>5 DEF Seen
      <4>6. CASE \E k \in 1 .. Len(answered) :
                   /\ answered[k].op = "DISPLAY_INFO" /\ answered[k].n >= asked
                   /\ \A j \in k + 1 .. Len(answered) : answered[j].op # "DISPLAY_INFO"
        <5>1. PICK k \in 1 .. Len(answered) :
                   /\ answered[k].op = "DISPLAY_INFO" /\ answered[k].n >= asked
                   /\ \A j \in k + 1 .. Len(answered) : answered[j].op # "DISPLAY_INFO"
          BY <4>6
        <5>2. k \in 1 .. Len(answered') /\ answered'[k] = answered[k]
          BY <4>1
        <5>3. ASSUME NEW j \in k + 1 .. Len(answered') PROVE answered'[j].op # "DISPLAY_INFO"
          <6>1. j \in 1 .. Len(answered')
            BY <4>1
          <6>2. j \in 1 .. Len(answered) => j \in k + 1 .. Len(answered)
            BY <4>1
          <6> QED BY <4>4, <5>1, <6>1, <6>2
        <5> QED BY <1>0, <5>1, <5>2, <5>3 DEF Seen
      <4> QED BY <4>5, <4>6 DEF Seen
    <3> QED BY <1>3, <3>1, <3>2
  <2> QED BY <1>0, <2>1, <2>2 DEF DisplayInv, Asking
<1> QED BY <1>4, <1>5

LEMMA DisplayDequeue ==
  ASSUME TypeInv, TypeInv', DisplayInv, Dequeue
  PROVE  DisplayInv'
<1>0. /\ RingKept /\ UNCHANGED <<device, boot, config, event, display, asked>>
      /\ Len(answered) \in Nat /\ Len(answered) >= 1
      /\ Len(answered') = Len(answered) - 1
      /\ \A k \in 1 .. Len(answered) - 1 : answered'[k] = answered[k + 1]
  BY DequeueKept
<1>1. PICK c : c = Head(answered)
  OBVIOUS
<1>2. c = answered[1]
  BY <1>1, DequeueCases
<1>3. Seen => Seen'
  <2>1. \A j \in 1 .. Len(answered') : j + 1 \in 2 .. Len(answered) /\ answered'[j] = answered[j + 1]
    BY <1>0
  <2>2. CASE /\ known >= asked
             /\ \A k \in 1 .. Len(answered) : answered[k].op # "DISPLAY_INFO"
    <3>1. 1 \in 1 .. Len(answered)
      BY <1>0
    <3>2. c.op # "DISPLAY_INFO"
      BY <1>2, <2>2, <3>1
    <3>3. known' = known
      BY <1>1, <3>2 DEF Dequeue
    <3> QED BY <1>0, <2>1, <2>2, <3>3 DEF Seen
  <2>3. ASSUME NEW k \in 1 .. Len(answered),
               answered[k].op = "DISPLAY_INFO", answered[k].n >= asked,
               \A j \in k + 1 .. Len(answered) : answered[j].op # "DISPLAY_INFO"
        PROVE  Seen'
    <3>1. CASE k = 1
      <4>1. known' >= asked
        BY <1>1, <1>2, <2>3, <3>1 DEF Dequeue, DisplayAnswer
      <4>2. \A j \in 1 .. Len(answered') : answered'[j].op # "DISPLAY_INFO"
        <5>1. k + 1 = 2
          BY <3>1
        <5>2. \A j \in 2 .. Len(answered) : answered[j].op # "DISPLAY_INFO"
          BY <2>3, <5>1
        <5> QED BY <2>1, <5>2
      <4> QED BY <1>0, <4>1, <4>2 DEF Seen
    <3>2. CASE k # 1
      <4>1. k - 1 \in 1 .. Len(answered') /\ (k - 1) + 1 = k
        BY <1>0, <3>2
      <4>2. answered'[k - 1] = answered[k]
        BY <2>1, <4>1
      <4>3. ASSUME NEW j \in (k - 1) + 1 .. Len(answered') PROVE answered'[j].op # "DISPLAY_INFO"
        <5>1. j \in 1 .. Len(answered') /\ j + 1 \in k + 1 .. Len(answered)
          BY <1>0, <4>1
        <5> QED BY <2>1, <2>3, <5>1
      <4> QED BY <1>0, <2>3, <4>1, <4>2, <4>3 DEF Seen
    <3> QED BY <3>1, <3>2
  <2> QED BY <2>2, <2>3 DEF Seen
<1>4. Asking => Asking'
  BY <1>0, AskingKept
<1> QED BY <1>0, <1>3, <1>4 DEF DisplayInv, Asking

(***************************************************************************)
(* The guest never knows an older display than when it last asked, unless  *)
(* an answer is outstanding, for any number of changes, of questions in    *)
(* flight and of answers that come late: the host answers in order, and    *)
(* every answer counts, whether the probe still waits for one or not.      *)
(***************************************************************************)
THEOREM DisplaySafety == Spec => []DisplayAnswered
<1>1. Init => DisplayInv
  BY DEF Init, DisplayInv, Seen
<1>2. TypeInv /\ TypeInv' /\ DisplayInv /\ [Next]_vars => DisplayInv'
  <2> SUFFICES ASSUME TypeInv, TypeInv', DisplayInv, [Next]_vars
               PROVE  DisplayInv'
    OBVIOUS
  <2>1. ASSUME RingKept, UNCHANGED <<answered, device, dispVars>> PROVE DisplayInv'
    BY <2>1, DisplayKeeps DEF dispVars
  <2>2. CASE UNCHANGED vars
    <3>1. RingKept /\ UNCHANGED <<answered, device, dispVars>>
      BY <2>2, SameKept, TypeParts DEF vars, dispVars
    <3> QED BY <2>1, <3>1
  <2>3. CASE BootNext \/ WorkNext \/ DisplayChange
    BY <2>3, DisplayWork
  <2>4. ASSUME NEW t \in Thread, CallNext(t) \/ ThreadNext(t) PROVE DisplayInv'
    <3>1. RingKept /\ UNCHANGED <<answered, device, dispVars>>
      BY <2>4, CapsKept, CreateKept, UseKept DEF CallNext, ThreadNext
    <3> QED BY <2>1, <3>1
  <2>5. ASSUME NEW o \in Obj, CloseRef(o) PROVE DisplayInv'
    BY <2>1, <2>5, CloseKept
  <2>6. CASE HostRead
    BY <2>6, DisplayHostRead
  <2>7. CASE Dequeue
    BY <2>7, DisplayDequeue
  <2>8. CASE RemoveDevice
    <3>1. device' # "plugged" /\ UNCHANGED <<asked, display>>
      BY <2>8 DEF RemoveDevice, dispVars
    <3> QED BY <3>1 DEF DisplayInv
  <2> QED BY <2>2, <2>3, <2>4, <2>5, <2>6, <2>7, <2>8 DEF Next
<1>3. TypeInv /\ DisplayInv => DisplayAnswered
  <2> SUFFICES ASSUME TypeInv, DisplayInv, device = "plugged", ~(known >= asked)
               PROVE  \E c \in Range(ring \o answered) : c.op = "DISPLAY_INFO"
    BY DEF DisplayAnswered
  <2>1. ring \in Seq(Commands) /\ answered \in Seq(Commands)
    BY DEF TypeInv
  <2>2. \/ \E k \in 1 .. Len(ring) : ring[k].op = "DISPLAY_INFO"
        \/ \E k \in 1 .. Len(answered) : answered[k].op = "DISPLAY_INFO"
    BY DEF DisplayInv, Seen
  <2> QED BY <2>1, <2>2, RangeFacts
<1> QED BY <1>1, <1>2, <1>3, TypeCorrect, PTL DEF Spec
-----------------------------------------------------------------------------
(* How many commands of a queue hold a reference to an object.             *)
LEMMA CountFacts ==
  ASSUME NEW s \in Seq(Commands), NEW o
  PROVE  /\ IsFiniteSet({k \in 1 .. Len(s) : Holding(s[k], o)})
         /\ Count(s, o) \in Nat
         /\ Count(s, o) = 0 <=> \A k \in 1 .. Len(s) : ~Holding(s[k], o)
<1> DEFINE P == {k \in 1 .. Len(s) : Holding(s[k], o)}
<1>1. IsFiniteSet(1 .. Len(s))
  BY FS_Interval
<1>2. P \in SUBSET (1 .. Len(s))
  OBVIOUS
<1>3. IsFiniteSet(P)
  <2> HIDE DEF P
  <2> QED BY <1>1, <1>2, FS_Subset
<1>4. Cardinality(P) \in Nat /\ (Cardinality(P) = 0 <=> P = {})
  <2> HIDE DEF P
  <2> QED BY <1>3, FS_CardinalityType, FS_EmptySet
<1> QED BY <1>3, <1>4 DEF Count

LEMMA CountNone ==
  ASSUME NEW s \in Seq(Commands), NEW q \in Seq(Commands), NEW o,
         \A k \in 1 .. Len(q) : ~Holding(q[k], o)
  PROVE  Count(s \o q, o) = Count(s, o)
<1>1. /\ Len(s \o q) = Len(s) + Len(q) /\ Len(s) \in Nat /\ Len(q) \in Nat
      /\ \A k \in 1 .. Len(s) : (s \o q)[k] = s[k]
      /\ \A k \in Len(s) + 1 .. Len(s) + Len(q) : (s \o q)[k] = q[k - Len(s)]
  BY PushFacts
<1>2. PICK z : z = s \o q
  OBVIOUS
<1>3. ASSUME NEW k \in 1 .. Len(z), ~(k \in 1 .. Len(s)) PROVE ~Holding(z[k], o)
  <2>1. k - Len(s) \in 1 .. Len(q) /\ z[k] = q[k - Len(s)]
    BY <1>1, <1>2, <1>3
  <2> QED BY <2>1
<1>4. {k \in 1 .. Len(z) : Holding(z[k], o)} = {k \in 1 .. Len(s) : Holding(s[k], o)}
  <2>1. \A k \in 1 .. Len(s) : k \in 1 .. Len(z) /\ z[k] = s[k]
    BY <1>1, <1>2
  <2> QED BY <1>3, <2>1
<1> QED BY <1>2, <1>4 DEF Count

LEMMA CountOne ==
  ASSUME NEW s \in Seq(Commands), NEW c \in Commands, NEW o, NEW z \in Seq(Commands),
         Len(z) = Len(s) + 1, \A k \in 1 .. Len(s) : z[k] = s[k], z[Len(s) + 1] = c
  PROVE  Count(z, o) = Count(s, o) + One(Holding(c, o))
<1> DEFINE P == {k \in 1 .. Len(s) : Holding(s[k], o)}
           Q == {k \in 1 .. Len(z) : Holding(z[k], o)}
<1>0. Count(s, o) = Cardinality(P) /\ Count(z, o) = Cardinality(Q)
  BY DEF Count
<1>1. Len(s) \in Nat /\ IsFiniteSet(P) /\ Cardinality(P) \in Nat
  <2>1. Len(s) \in Nat
    OBVIOUS
  <2>2. IsFiniteSet(P) /\ Count(s, o) \in Nat
    BY CountFacts
  <2> QED BY <1>0, <2>1, <2>2
<1>2. CASE Holding(c, o)
  <2>1. Q = P \cup {Len(s) + 1}
    <3>1. \A k \in 1 .. Len(z) : k \in 1 .. Len(s) \/ k = Len(s) + 1
      BY <1>1
    <3>2. Len(s) + 1 \in 1 .. Len(z) /\ \A k \in 1 .. Len(s) : k \in 1 .. Len(z)
      BY <1>1
    <3>3. ASSUME NEW k \in Q PROVE k \in P \cup {Len(s) + 1}
      BY <3>1
    <3>4. ASSUME NEW k \in P \cup {Len(s) + 1} PROVE k \in Q
      BY <1>2, <3>2
    <3> QED BY <3>3, <3>4
  <2>2. Len(s) + 1 \notin P
    BY <1>1
  <2> HIDE DEF P, Q
  <2>3. Cardinality(Q) = Cardinality(P) + 1
    BY <1>1, <2>1, <2>2, FS_AddElement
  <2> QED BY <1>0, <1>2, <2>3 DEF One
<1>3. CASE ~Holding(c, o)
  <2>1. Q = P
    <3>1. \A k \in 1 .. Len(z) : k \in 1 .. Len(s) \/ k = Len(s) + 1
      BY <1>1
    <3>2. \A k \in 1 .. Len(s) : k \in 1 .. Len(z)
      BY <1>1
    <3>3. ASSUME NEW k \in Q PROVE k \in P
      BY <1>3, <3>1
    <3>4. ASSUME NEW k \in P PROVE k \in Q
      BY <3>2
    <3> QED BY <3>3, <3>4
  <2> HIDE DEF P, Q
  <2> QED BY <1>0, <1>1, <1>3, <2>1 DEF One
<1> QED BY <1>2, <1>3

LEMMA CountTail ==
  ASSUME NEW s \in Seq(Commands), s # <<>>, NEW o
  PROVE  Count(Tail(s), o) = Count(s, o) - One(Holding(Head(s), o))
<1>1. /\ Head(s) = s[1] /\ Len(s) \in Nat /\ Len(s) >= 1 /\ Tail(s) \in Seq(Commands)
      /\ Len(Tail(s)) = Len(s) - 1
      /\ \A k \in 1 .. Len(s) - 1 : Tail(s)[k] = s[k + 1]
  BY TailFacts
<1>2. PICK z \in Seq(Commands) : z = Tail(s)
  BY <1>1
<1> DEFINE P == {k \in 1 .. Len(s) : Holding(s[k], o)}
           Q == {k \in 1 .. Len(z) : Holding(z[k], o)}
           f == [k \in Q |-> k + 1]
<1>3. IsFiniteSet(P) /\ Cardinality(P) \in Nat /\ IsFiniteSet(Q) /\ Cardinality(Q) \in Nat
  BY CountFacts DEF Count
<1>4. IsFiniteSet(P \ {1}) /\ Cardinality(P \ {1}) = IF 1 \in P THEN Cardinality(P) - 1 ELSE Cardinality(P)
  <2> HIDE DEF P
  <2> QED BY <1>3, FS_RemoveElement
<1>5. \A k \in Q : k \in Nat /\ k + 1 \in P \ {1}
  BY <1>1, <1>2
<1>6. \A k \in P \ {1} : k - 1 \in Q /\ (k - 1) + 1 = k
  BY <1>1, <1>2
<1>7. f \in Bijection(Q, P \ {1})
  <2>1. f \in [Q -> P \ {1}]
    <3> HIDE DEF P, Q
    <3> QED BY <1>5
  <2>2. \A a, b \in Q : f[a] = f[b] => a = b
    <3> HIDE DEF P, Q
    <3> QED BY <1>5
  <2>3. \A k \in P \ {1} : \E a \in Q : f[a] = k
    <3> HIDE DEF P, Q
    <3> QED BY <1>6
  <2> HIDE DEF P, Q, f
  <2>4. DOMAIN f = Q
    BY <2>1
  <2>5. f \in Injection(Q, P \ {1})
    BY <2>1, <2>2, <2>4 DEF Injection, IsInjective
  <2>6. f \in Surjection(Q, P \ {1})
    BY <2>1, <2>3 DEF Surjection
  <2> QED BY <2>5, <2>6 DEF Bijection
<1>8. Cardinality(P \ {1}) = Cardinality(Q)
  <2>1. ExistsBijection(Q, P \ {1})
    BY <1>7 DEF ExistsBijection
  <2> HIDE DEF P, Q
  <2> QED BY <1>3, <2>1, FS_Bijection
<1>9. 1 \in P <=> Holding(s[1], o)
  BY <1>1
<1>10. Cardinality(Q) = Cardinality(P) - One(Holding(s[1], o))
  <2> HIDE DEF P, Q
  <2> QED BY <1>3, <1>4, <1>8, <1>9 DEF One
<1> QED BY <1>1, <1>2, <1>10 DEF Count
-----------------------------------------------------------------------------
About(c, o) == c.op \in OfObj /\ c.o = o
Bound(t, o) == Making(t, o) \/ Mapping(t, o)

(* Nothing about an object is added to the ring or taken from the answers. *)
RingSame(o) ==
  /\ Len(ring) \in Nat /\ Len(ring') \in Nat /\ Len(ring') >= Len(ring)
  /\ \A k \in 1 .. Len(ring) : ring'[k] = ring[k]
  /\ \A k \in 1 .. Len(ring') : k \notin 1 .. Len(ring) => ~About(ring'[k], o)
  /\ Count(ring', o) = Count(ring, o)

AnswersSame(o) ==
  /\ Len(answered) \in Nat /\ Len(answered') \in Nat
  /\ Count(answered', o) = Count(answered, o)
  /\ \A k \in 1 .. Len(answered') : About(answered'[k], o) =>
       \E d \in {0, 1} : k + d \in 1 .. Len(answered) /\ answered'[k] = answered[k + d]
  /\ \A k, j \in 1 .. Len(answered') : About(answered'[k], o) /\ About(answered'[j], o) /\ k # j =>
       \E m, n \in 1 .. Len(answered) :
          m # n /\ answered'[k] = answered[m] /\ answered'[j] = answered[n]

ThingSame(o) ==
  /\ obj'[o] = obj[o] /\ refs'[o] = refs[o]
  /\ handle'[o] = handle[o] /\ dmabuf'[o] = dmabuf[o] /\ vma'[o] = vma[o]

ThreadsSame(o) ==
  \A t \in Thread : th'[t] = th[t] \/ (~Bound(t, o) /\ ~Bound(t, o)')

LEMMA AboutFacts ==
  ASSUME NEW c, NEW o
  PROVE  /\ Holding(c, o) => About(c, o)
         /\ Ending(c, o) => About(c, o)
         /\ c.op = "MAP" /\ c.o = o => About(c, o) /\ Holding(c, o)
         /\ Holding(c, o) => ~Ending(c, o)
  BY DEF Holding, Ending, About, OfObj

LEMMA UsesKept ==
  ASSUME NEW o, ThreadsSame(o), handle'[o] = handle[o], dmabuf'[o] = dmabuf[o], vma'[o] = vma[o]
  PROVE  /\ \A t \in Thread : Making(t, o)' <=> Making(t, o)
         /\ \A t \in Thread : Mapping(t, o)' <=> Mapping(t, o)
         /\ \A t \in Thread : Making(t, o) => th'[t] = th[t]
         /\ Uses(o)' = Uses(o)
<1>1. ASSUME NEW t \in Thread
      PROVE  /\ Making(t, o)' <=> Making(t, o)
             /\ Mapping(t, o)' <=> Mapping(t, o)
             /\ Making(t, o) => th'[t] = th[t]
  BY DEF ThreadsSame, Bound, Making, Mapping
<1>2. HandleUse(o)' <=> HandleUse(o)
  BY <1>1 DEF HandleUse
<1>3. MapUse(o)' <=> MapUse(o)
  BY <1>1 DEF MapUse
<1>4. Uses(o)' = Uses(o)
  BY <1>2, <1>3 DEF Uses, One
<1> QED BY <1>1, <1>4

(* An object nobody touched is as well off as before.                      *)
LEMMA ObjectKept ==
  ASSUME TypeInv, NEW o \in Obj, ObjectOK(o),
         RingSame(o), AnswersSame(o), ThingSame(o), ThreadsSame(o), hostMap' = hostMap
  PROVE  ObjectOK(o)'
<1> USE DEF ThingSame
<1>0. /\ \A t \in Thread : Making(t, o)' <=> Making(t, o)
      /\ \A t \in Thread : Mapping(t, o)' <=> Mapping(t, o)
      /\ \A t \in Thread : Making(t, o) => th'[t] = th[t]
      /\ Uses(o)' = Uses(o)
  BY UsesKept
<1>1. Live(o)' <=> Live(o)
  BY DEF Live
<1>2. \A k \in 1 .. Len(ring') : About(ring'[k], o) => k \in 1 .. Len(ring) /\ ring'[k] = ring[k]
  BY DEF RingSame
<1>3. \A k \in 1 .. Len(answered') : About(answered'[k], o) =>
         \E j \in 1 .. Len(answered) : answered'[k] = answered[j]
  BY DEF AnswersSame
<1>4. RefOK(o)'
  <2>1. Count(ring, o)' = Count(ring, o) /\ Count(answered, o)' = Count(answered, o)
    BY DEF RingSame, AnswersSame, Count
  <2> QED BY <1>0, <1>1, <2>1 DEF RefOK, ObjectOK
<1>5. GoneOK(o)'
  <2>1. obj'[o].kind = "none" => obj'[o] = Fresh
    BY DEF ObjectOK, GoneOK
  <2>2. ASSUME ~Live(o)
        PROVE  /\ ~handle'[o] /\ ~vma'[o] /\ ~dmabuf'[o]
               /\ \A t \in Thread : ~Making(t, o)' /\ ~Mapping(t, o)'
    BY <1>0, <2>2 DEF ObjectOK, GoneOK
  <2>3. ASSUME ~Live(o)
        PROVE  /\ \A k \in 1 .. Len(ring') : ~Holding(ring'[k], o)
               /\ \A k \in 1 .. Len(answered') : ~Holding(answered'[k], o)
    BY <1>2, <1>3, <2>3, AboutFacts DEF ObjectOK, GoneOK
  <2>4. ~Live(o)' => /\ \A k \in 1 .. Len(ring') : ~Holding(ring[k], o)'
                     /\ \A k \in 1 .. Len(answered') : ~Holding(answered[k], o)'
    BY <1>1, <2>3 DEF Holding
  <2> QED BY <1>1, <2>1, <2>2, <2>4 DEF GoneOK
<1>6. MakeOK(o)'
  <2>1. ASSUME NEW t \in Thread, Making(t, o)
        PROVE  /\ ~handle'[o] /\ ~vma'[o] /\ ~dmabuf'[o]
               /\ \A u \in Thread : Making(u, o)' => u = t
               /\ \A u \in Thread : ~Mapping(u, o)'
               /\ th'[t].pc = "map" => obj'[o].range # NoRange
               /\ th'[t].pc \in {"node", "map"} =>
                    /\ obj'[o].map = "INITIALIZING"
                    /\ \A k \in 1 .. Len(ring') : ~(ring'[k].op = "MAP" /\ ring'[k].o = o)
                    /\ \A k \in 1 .. Len(answered') : ~(answered'[k].op = "MAP" /\ answered'[k].o = o)
    <3>1. th'[t] = th[t]
      BY <1>0, <2>1
    <3>2. /\ ~handle'[o] /\ ~vma'[o] /\ ~dmabuf'[o]
          /\ \A u \in Thread : Making(u, o)' => u = t
          /\ \A u \in Thread : ~Mapping(u, o)'
          /\ th'[t].pc = "map" => obj'[o].range # NoRange
          /\ th'[t].pc \in {"node", "map"} => obj'[o].map = "INITIALIZING"
      BY <1>0, <2>1, <3>1 DEF ObjectOK, MakeOK
    <3>3. ASSUME th'[t].pc \in {"node", "map"}
          PROVE  /\ \A k \in 1 .. Len(ring') : ~(ring'[k].op = "MAP" /\ ring'[k].o = o)
                 /\ \A k \in 1 .. Len(answered') : ~(answered'[k].op = "MAP" /\ answered'[k].o = o)
      BY <1>2, <1>3, <2>1, <3>1, <3>3, AboutFacts DEF ObjectOK, MakeOK
    <3> QED BY <3>2, <3>3
  <2>2. /\ \A t, u \in Thread : Mapping(t, o)' /\ Mapping(u, o)' => t = u
        /\ \A t \in Thread : Mapping(t, o)' => ~vma'[o]
    BY <1>0 DEF ObjectOK, MakeOK
  <2> QED BY <1>0, <2>1, <2>2 DEF MakeOK
<1>7. EndOK(o)'
  <2>1. \A k \in 1 .. Len(ring') : Ending(ring'[k], o) =>
           obj'[o].kind = "dying" /\ k \in 1 .. Len(ring) /\ ring'[k] = ring[k]
    BY <1>2, AboutFacts DEF ObjectOK, EndOK
  <2>2. \A k, j \in 1 .. Len(ring') :
          k < j /\ ring'[k].op = "UNREF" /\ ring'[k].o = o => ~Ending(ring'[j], o)
    <3>1. \A k \in 1 .. Len(ring') : ring'[k].op = "UNREF" /\ ring'[k].o = o => Ending(ring'[k], o)
      BY DEF Ending
    <3> QED BY <2>1, <3>1 DEF ObjectOK, EndOK
  <2>3. ASSUME NEW k \in 1 .. Len(answered'), Ending(answered'[k], o)
        PROVE  /\ obj'[o].kind = "dying"
               /\ \A j \in 1 .. Len(ring') : ~Ending(ring'[j], o)
               /\ \A j \in 1 .. Len(answered') : Ending(answered'[j], o) => j = k
    <3>1. About(answered'[k], o)
      BY <2>3, AboutFacts
    <3>2. PICK m \in 1 .. Len(answered) : answered'[k] = answered[m]
      BY <1>3, <3>1
    <3>3. obj'[o].kind = "dying" /\ \A j \in 1 .. Len(ring') : ~Ending(ring'[j], o)
      BY <2>1, <2>3, <3>2 DEF ObjectOK, EndOK
    <3>4. ASSUME NEW j \in 1 .. Len(answered'), Ending(answered'[j], o), j # k PROVE FALSE
      <4>1. About(answered'[j], o)
        BY <3>4, AboutFacts
      <4>2. PICK x, y \in 1 .. Len(answered) :
               x # y /\ answered'[k] = answered[x] /\ answered'[j] = answered[y]
        BY <3>1, <3>4, <4>1 DEF AnswersSame
      <4> QED BY <2>3, <3>4, <4>2 DEF ObjectOK, EndOK
    <3> QED BY <3>3, <3>4
  <2> QED BY <2>1, <2>2, <2>3 DEF EndOK, Ending
<1>8. BackOK(o)'
  <2>1. \A k \in 1 .. Len(ring') : ring'[k].op = "MAP" /\ ring'[k].o = o => obj'[o].range # NoRange
    BY <1>2, AboutFacts DEF ObjectOK, BackOK
  <2>2. \A k \in 1 .. Len(answered') : answered'[k].op = "MAP" /\ answered'[k].o = o =>
           /\ obj'[o].range # NoRange
           /\ answered'[k].n = 1 => hostMap'[obj'[o].range] = o
    BY <1>3, AboutFacts DEF ObjectOK, BackOK
  <2>3. Live(o) /\ (obj'[o].map = "OK" \/ vma'[o]) =>
           obj'[o].range # NoRange /\ hostMap'[obj'[o].range] = o
    BY DEF ObjectOK, BackOK
  <2> QED BY <1>1, <2>1, <2>2, <2>3 DEF BackOK
<1> QED BY <1>4, <1>5, <1>6, <1>7, <1>8 DEF ObjectOK

LEMMA RingStays ==
  ASSUME TypeInv, ring' = ring, NEW o PROVE RingSame(o)
  BY DEF TypeInv, RingSame

LEMMA RingPush ==
  ASSUME TypeInv, NEW q \in Seq(Commands), ring' = ring \o q, NEW o,
         \A k \in 1 .. Len(q) : ~About(q[k], o)
  PROVE  RingSame(o)
<1>1. ring \in Seq(Commands)
  BY DEF TypeInv
<1>2. /\ Len(ring') = Len(ring) + Len(q) /\ Len(ring) \in Nat /\ Len(q) \in Nat
      /\ \A k \in 1 .. Len(ring) : ring'[k] = ring[k]
      /\ \A k \in Len(ring) + 1 .. Len(ring) + Len(q) : ring'[k] = q[k - Len(ring)]
  BY <1>1, PushFacts
<1>3. ASSUME NEW k \in 1 .. Len(ring'), k \notin 1 .. Len(ring) PROVE ~About(ring'[k], o)
  <2>1. k - Len(ring) \in 1 .. Len(q) /\ ring'[k] = q[k - Len(ring)]
    BY <1>2, <1>3
  <2> QED BY <2>1
<1>4. Count(ring', o) = Count(ring, o)
  BY <1>1, CountNone, AboutFacts
<1> QED BY <1>2, <1>3, <1>4 DEF RingSame

LEMMA AnswersStay ==
  ASSUME TypeInv, answered' = answered, NEW o PROVE AnswersSame(o)
  BY DEF TypeInv, AnswersSame

LEMMA AnswersTail ==
  ASSUME TypeInv, answered # <<>>, answered' = Tail(answered), NEW o, ~Holding(Head(answered), o)
  PROVE  AnswersSame(o)
<1>1. answered \in Seq(Commands)
  BY DEF TypeInv
<1>2. /\ Len(answered) \in Nat /\ Len(answered) >= 1 /\ Len(answered') = Len(answered) - 1
      /\ \A k \in 1 .. Len(answered) - 1 : answered'[k] = answered[k + 1]
  BY <1>1, TailFacts
<1>3. Count(answered', o) = Count(answered, o)
  <2>1. Count(answered, o) \in Nat
    BY <1>1, CountFacts
  <2>2. Count(answered', o) = Count(answered, o) - One(Holding(Head(answered), o))
    BY <1>1, CountTail
  <2> QED BY <2>1, <2>2 DEF One
<1>4. \A k \in 1 .. Len(answered') : k + 1 \in 1 .. Len(answered) /\ answered'[k] = answered[k + 1]
  BY <1>2
<1>5. \A k, j \in 1 .. Len(answered') : k # j => k + 1 # j + 1
  BY <1>2
<1>6. Len(answered') \in Nat
  BY <1>2
<1> QED BY <1>2, <1>3, <1>4, <1>5, <1>6 DEF AnswersSame

(* What dropping a reference does while the device is there.               *)
LEMMA DropFacts ==
  ASSUME TypeInv, device = "plugged", NEW o \in Obj, NEW state \in [Obj -> Objects], Drop(o, 1, state)
  PROVE  /\ refs'[o] = refs[o] - 1 /\ \A p \in Obj : p # o => refs'[p] = refs[p]
         /\ \A p \in Obj : p # o => obj'[p] = state[p]
         /\ refs[o] > 1 => obj'[o] = state[o] /\ ring' = ring
         /\ ~(refs[o] > 1) =>
              /\ obj'[o] = [state[o] EXCEPT !.kind = "dying"] /\ obj'[o].kind = "dying"
              /\ \E q \in Seq(Commands) :
                   /\ ring' = ring \o q
                   /\ \A k \in 1 .. Len(q) : Ending(q[k], o)
                   /\ \A k, j \in 1 .. Len(q) : k < j => q[k].op # "UNREF"
<1>1. refs \in [Obj -> Int]
  BY DEF TypeInv
<1>2. refs'[o] = refs[o] - 1 /\ \A p \in Obj : p # o => refs'[p] = refs[p]
  BY <1>1 DEF Drop
<1>3. CASE refs[o] > 1
  BY <1>2, <1>3 DEF Drop
<1>4. CASE ~(refs[o] > 1)
  <2>1. obj' = [state EXCEPT ![o] = [state[o] EXCEPT !.kind = "dying"]]
    BY <1>4 DEF Drop
  <2>2. [state[o] EXCEPT !.kind = "dying"].kind = "dying"
    BY DEF Objects
  <2>3. /\ obj'[o] = [state[o] EXCEPT !.kind = "dying"] /\ obj'[o].kind = "dying"
        /\ \A p \in Obj : p # o => obj'[p] = state[p]
    BY <2>1, <2>2
  <2>4. \/ ring' = ring \o (<<CmdUnmap(o)>> \o <<CmdUnref(o)>>)
        \/ ring' = ring \o (<<>> \o <<CmdUnref(o)>>)
    BY <1>4 DEF Drop, Queue
  <2>5. \E q \in Seq(Commands) :
          /\ ring' = ring \o q
          /\ \A k \in 1 .. Len(q) : Ending(q[k], o)
          /\ \A k, j \in 1 .. Len(q) : k < j => q[k].op # "UNREF"
    <3>1. PICK c : c = CmdUnref(o)
      OBVIOUS
    <3>2. PICK d : d = CmdUnmap(o)
      OBVIOUS
    <3>3. Ending(c, o) /\ Ending(d, o) /\ d.op # "UNREF"
      BY <3>1, <3>2 DEF Ending, CmdUnref, CmdUnmap, Cmd
    <3>4. CASE ring' = ring \o (<<CmdUnmap(o)>> \o <<CmdUnref(o)>>)
      <4>1. PICK q : q = <<d>> \o <<c>>
        OBVIOUS
      <4>2. q \in Seq(Commands)
        BY <3>1, <3>2, <4>1, CmdFacts DEF CmdsOK
      <4>3. Len(q) = 2 /\ q[1] = d /\ q[2] = c
        BY <4>1
      <4>4. \A k \in 1 .. Len(q) : k = 1 \/ k = 2
        BY <4>3
      <4>5. \A k, j \in 1 .. Len(q) : k < j => k = 1
        BY <4>3, <4>4
      <4>6. ring' = ring \o q
        BY <3>1, <3>2, <3>4, <4>1
      <4> QED BY <3>3, <4>2, <4>3, <4>4, <4>5, <4>6
    <3>5. CASE ring' = ring \o (<<>> \o <<CmdUnref(o)>>)
      <4>1. PICK q : q = <<>> \o <<c>>
        OBVIOUS
      <4>2. q \in Seq(Commands)
        BY <3>1, <4>1, CmdFacts DEF CmdsOK
      <4>3. Len(q) = 1 /\ q[1] = c
        BY <4>1
      <4>4. \A k \in 1 .. Len(q) : k = 1
        BY <4>3
      <4>5. \A k, j \in 1 .. Len(q) : ~(k < j)
        BY <4>4
      <4>6. ring' = ring \o q
        BY <3>1, <3>5, <4>1
      <4> QED BY <3>3, <4>2, <4>3, <4>4, <4>5, <4>6
    <3> QED BY <2>4, <3>4, <3>5
  <2> QED BY <1>2, <1>4, <2>3, <2>5
<1> QED BY <1>3, <1>4

LEMMA DropOthers ==
  ASSUME TypeInv, device = "plugged", NEW o \in Obj, NEW state \in [Obj -> Objects],
         Drop(o, 1, state), NEW p \in Obj, p # o, state[p] = obj[p]
  PROVE  obj'[p] = obj[p] /\ refs'[p] = refs[p] /\ RingSame(p)
<1>0. (\A x \in Obj : x # o => refs'[x] = refs[x]) /\ (\A x \in Obj : x # o => obj'[x] = state[x])
  BY DropFacts, Zenon
<1>1. obj'[p] = obj[p] /\ refs'[p] = refs[p]
  BY <1>0
<1>2. CASE refs[o] > 1
  BY <1>1, <1>2, DropFacts, RingStays
<1>3. CASE ~(refs[o] > 1)
  <2>1. PICK q \in Seq(Commands) : ring' = ring \o q /\ \A k \in 1 .. Len(q) : Ending(q[k], o)
    BY <1>3, DropFacts
  <2>2. \A k \in 1 .. Len(q) : ~About(q[k], p)
    BY <2>1 DEF Ending, About
  <2> QED BY <1>1, <2>1, <2>2, RingPush
<1> QED BY <1>2, <1>3

LEMMA UsesFacts ==
  ASSUME NEW o
  PROVE  /\ Uses(o) \in Nat
         /\ Uses(o) = 0 => /\ ~handle[o] /\ ~vma[o] /\ ~dmabuf[o]
                           /\ \A t \in Thread : ~Making(t, o) /\ ~Mapping(t, o)
<1>1. Uses(o) \in Nat /\ (Uses(o) = 0 => ~HandleUse(o) /\ ~MapUse(o) /\ ~dmabuf[o])
  BY DEF Uses, One
<1> QED BY <1>1 DEF HandleUse, MapUse

LEMMA UsesFactsNext ==
  ASSUME NEW o
  PROVE  /\ Uses(o)' \in Nat
         /\ Uses(o)' = 0 => /\ ~handle'[o] /\ ~vma'[o] /\ ~dmabuf'[o]
                            /\ \A t \in Thread : ~Making(t, o)' /\ ~Mapping(t, o)'
<1>1. Uses(o)' \in Nat /\ (Uses(o)' = 0 => ~HandleUse(o)' /\ ~MapUse(o)' /\ ~dmabuf'[o])
  BY DEF Uses, One
<1> QED BY <1>1 DEF HandleUse, MapUse

(* An object that loses a reference: what is left of its users has one     *)
(* each, and without users it is on its way out.                           *)
LEMMA DropSelf ==
  ASSUME TypeInv, TypeInv', device = "plugged", NEW o \in Obj, NEW state \in [Obj -> Objects],
         Drop(o, 1, state), ObjectOK(o), Live(o), state[o].kind = obj[o].kind,
         refs[o] - 1 >= Uses(o)' + Count(ring, o) + Count(answered', o),
         \A k \in 1 .. Len(answered') : \E j \in 1 .. Len(answered) : answered'[k] = answered[j],
         refs[o] > 1 => MakeOK(o)' /\ BackOK(o)'
  PROVE  ObjectOK(o)'
<1>0. /\ ring \in Seq(Commands) /\ ring' \in Seq(Commands) /\ answered' \in Seq(Commands)
      /\ refs[o] \in Int /\ obj[o] \in Objects
  BY DEF TypeInv
<1>1. Uses(o)' \in Nat /\ Count(ring, o) \in Nat /\ Count(answered', o) \in Nat
  BY <1>0, UsesFactsNext, CountFacts
<1>2. /\ \A k \in 1 .. Len(ring) : ~Ending(ring[k], o)
      /\ \A k \in 1 .. Len(answered) : ~Ending(answered[k], o)
  BY DEF ObjectOK, EndOK, Live
<1>3. \A k \in 1 .. Len(answered') : ~Ending(answered'[k], o)
  BY <1>2
<1>4. Count(answered, o)' = Count(answered', o)
  BY DEF Count, Holding
<1>5. CASE refs[o] > 1
  <2>1. obj'[o] = state[o] /\ ring' = ring /\ refs'[o] = refs[o] - 1
    BY <1>5, DropFacts
  <2>2. RefOK(o)'
    <3>1. Count(ring, o)' = Count(ring, o)
      BY <2>1 DEF Count, Holding
    <3> QED BY <1>4, <2>1, <3>1 DEF RefOK
  <2>3. GoneOK(o)'
    BY <2>1 DEF GoneOK, Live
  <2>4. EndOK(o)'
    <3>1. \A k \in 1 .. Len(ring') : ~Ending(ring[k], o)'
      BY <1>2, <2>1 DEF Ending
    <3>2. \A k \in 1 .. Len(answered') : ~Ending(answered[k], o)'
      BY <1>3 DEF Ending
    <3> QED BY <3>1, <3>2 DEF EndOK
  <2> QED BY <1>5, <2>2, <2>3, <2>4 DEF ObjectOK
<1>6. CASE ~(refs[o] > 1)
  <2>1. /\ obj'[o].kind = "dying"
        /\ \E q \in Seq(Commands) :
             /\ ring' = ring \o q
             /\ \A k \in 1 .. Len(q) : Ending(q[k], o)
             /\ \A k, j \in 1 .. Len(q) : k < j => q[k].op # "UNREF"
    BY <1>6, DropFacts
  <2>2. PICK q \in Seq(Commands) :
             /\ ring' = ring \o q
             /\ \A k \in 1 .. Len(q) : Ending(q[k], o)
             /\ \A k, j \in 1 .. Len(q) : k < j => q[k].op # "UNREF"
    BY <2>1
  <2>3. Uses(o)' = 0 /\ Count(ring, o) = 0 /\ Count(answered', o) = 0
    <3>1. \A r \in Int : \A u, x, y \in Nat :
            r - 1 >= u + x + y /\ ~(r > 1) => u = 0 /\ x = 0 /\ y = 0
      OBVIOUS
    <3> QED BY <1>0, <1>1, <1>6, <3>1
  <2>4. /\ ~handle'[o] /\ ~vma'[o] /\ ~dmabuf'[o]
        /\ \A t \in Thread : ~Making(t, o)' /\ ~Mapping(t, o)'
    BY <2>3, UsesFactsNext
  <2>5. /\ \A k \in 1 .. Len(ring) : ~Holding(ring[k], o)
        /\ \A k \in 1 .. Len(answered') : ~Holding(answered'[k], o)
    BY <1>0, <2>3, CountFacts
  <2>6. /\ Len(ring') = Len(ring) + Len(q) /\ Len(ring) \in Nat /\ Len(q) \in Nat
        /\ \A k \in 1 .. Len(ring) : ring'[k] = ring[k]
        /\ \A k \in Len(ring) + 1 .. Len(ring) + Len(q) : ring'[k] = q[k - Len(ring)]
    BY <1>0, <2>2, PushFacts
  <2>7. ASSUME NEW k \in 1 .. Len(ring'), k \notin 1 .. Len(ring)
        PROVE  k - Len(ring) \in 1 .. Len(q) /\ ring'[k] = q[k - Len(ring)]
    BY <2>6, <2>7
  <2>8. \A k \in 1 .. Len(ring') : ~Holding(ring'[k], o)
    BY <2>2, <2>5, <2>6, <2>7, AboutFacts
  <2>9. \A k, j \in 1 .. Len(ring') :
          k < j /\ ring'[k].op = "UNREF" /\ ring'[k].o = o => ~Ending(ring'[j], o)
    <3> SUFFICES ASSUME NEW k \in 1 .. Len(ring'), NEW j \in 1 .. Len(ring'), k < j,
                        ring'[k].op = "UNREF", ring'[k].o = o
                 PROVE  FALSE
      OBVIOUS
    <3>1. Ending(ring'[k], o)
      BY DEF Ending
    <3>2. k \notin 1 .. Len(ring)
      BY <1>2, <2>6, <3>1
    <3>3. j \notin 1 .. Len(ring)
      BY <2>6, <3>2
    <3>4. k - Len(ring) \in 1 .. Len(q) /\ j - Len(ring) \in 1 .. Len(q) /\ ring'[k] = q[k - Len(ring)]
      BY <2>7, <3>2, <3>3
    <3>5. k - Len(ring) < j - Len(ring)
      BY <2>6
    <3> QED BY <2>2, <3>4, <3>5
  <2>10. ~Live(o)'
    BY <2>1 DEF Live
  <2>11. RefOK(o)'
    BY <2>10 DEF RefOK
  <2>12. GoneOK(o)'
    <3>1. /\ \A k \in 1 .. Len(ring') : ~Holding(ring[k], o)'
          /\ \A k \in 1 .. Len(answered') : ~Holding(answered[k], o)'
      BY <2>5, <2>8 DEF Holding
    <3> QED BY <2>1, <2>4, <3>1 DEF GoneOK
  <2>13. MakeOK(o)'
    BY <2>4 DEF MakeOK
  <2>14. EndOK(o)'
    <3>1. \A k, j \in 1 .. Len(ring') :
            k < j /\ ring'[k].op = "UNREF" /\ ring'[k].o = o => ~Ending(ring[j], o)'
      BY <2>9 DEF Ending
    <3>2. \A k \in 1 .. Len(answered') : ~Ending(answered[k], o)'
      BY <1>3 DEF Ending
    <3> QED BY <2>1, <3>1, <3>2 DEF EndOK
  <2>15. BackOK(o)'
    <3>1. /\ \A k \in 1 .. Len(ring') : ~(ring'[k].op = "MAP" /\ ring'[k].o = o)
          /\ \A k \in 1 .. Len(answered') : ~(answered'[k].op = "MAP" /\ answered'[k].o = o)
      BY <2>5, <2>8, AboutFacts
    <3> QED BY <2>10, <3>1 DEF BackOK
  <2> QED BY <2>11, <2>12, <2>13, <2>14, <2>15 DEF ObjectOK
<1> QED BY <1>5, <1>6
-----------------------------------------------------------------------------
(* The users of an object are users of a live one.                         *)
LEMMA LiveFacts ==
  ASSUME NEW o, ObjectOK(o)
  PROVE  /\ handle[o] \/ vma[o] \/ dmabuf[o] => Live(o)
         /\ \A t \in Thread : Making(t, o) \/ Mapping(t, o) => Live(o)
         /\ \A k \in 1 .. Len(ring) : Holding(ring[k], o) => Live(o)
         /\ \A k \in 1 .. Len(answered) : Holding(answered[k], o) => Live(o)
         /\ Live(o) => /\ \A k \in 1 .. Len(ring) : ~Ending(ring[k], o)
                       /\ \A k \in 1 .. Len(answered) : ~Ending(answered[k], o)
<1>1. /\ handle[o] \/ vma[o] \/ dmabuf[o] => Live(o)
      /\ \A t \in Thread : Making(t, o) \/ Mapping(t, o) => Live(o)
      /\ \A k \in 1 .. Len(ring) : Holding(ring[k], o) => Live(o)
      /\ \A k \in 1 .. Len(answered) : Holding(answered[k], o) => Live(o)
  BY DEF ObjectOK, GoneOK
<1>2. Live(o) => obj[o].kind # "dying"
  BY DEF Live
<1>3. Live(o) => /\ \A k \in 1 .. Len(ring) : ~Ending(ring[k], o)
                 /\ \A k \in 1 .. Len(answered) : ~Ending(answered[k], o)
  BY <1>2 DEF ObjectOK, EndOK
<1> QED BY <1>1, <1>3

LEMMA LiveSelf ==
  ASSUME NEW o, Live(o)', RefOK(o)', MakeOK(o)', BackOK(o)',
         \A k \in 1 .. Len(ring') : ~Ending(ring'[k], o),
         \A k \in 1 .. Len(answered') : ~Ending(answered'[k], o)
  PROVE  ObjectOK(o)'
<1>1. GoneOK(o)'
  BY DEF GoneOK, Live
<1>2. /\ \A k \in 1 .. Len(ring') : ~Ending(ring[k], o)'
      /\ \A k \in 1 .. Len(answered') : ~Ending(answered[k], o)'
  BY DEF Ending
<1>3. EndOK(o)'
  BY <1>2 DEF EndOK
<1> QED BY <1>1, <1>3 DEF ObjectOK

(* Threads that move leave the users of other objects alone.               *)
LEMMA MovesOthers ==
  ASSUME TypeInv, NEW t \in Thread, NEW p, ~Bound(t, p),
         \/ Return(t)
         \/ th[t].o # p /\ \E label : Goto(t, label)
         \/ \E pc, o, id : Begin(t, pc, o, id) /\ (o # p \/ pc \notin {"node", "map", "handle", "mmap"})
         \/ \E label : Goto(t, label) /\ label \notin {"node", "map", "handle", "mmap"}
  PROVE  ThreadsSame(p)
<1>1. th \in [Thread -> Places]
  BY DEF TypeInv
<1>2. \A u \in Thread : u # t => th'[u] = th[u]
  BY <1>1 DEF Return, Goto, Begin
<1>3. ~Bound(t, p)'
  <2>1. CASE Return(t)
    BY <1>1, <2>1 DEF Return, Idle, Bound, Making, Mapping
  <2>2. CASE th[t].o # p /\ \E label : Goto(t, label)
    BY <1>1, <2>2 DEF Goto, Bound, Making, Mapping, Places
  <2>3. CASE \E pc, o, id : Begin(t, pc, o, id) /\ (o # p \/ pc \notin {"node", "map", "handle", "mmap"})
    BY <1>1, <2>3 DEF Begin, Bound, Making, Mapping
  <2>4. CASE \E label : Goto(t, label) /\ label \notin {"node", "map", "handle", "mmap"}
    BY <1>1, <2>4 DEF Goto, Bound, Making, Mapping, Places
  <2> QED BY <2>1, <2>2, <2>3, <2>4
<1> QED BY <1>2, <1>3 DEF ThreadsSame

(* Steps that are not about any object.                                    *)
LEMMA ObjectQuiet ==
  ASSUME TypeInv, device = "plugged", ObjectInv, UNCHANGED <<objVars, answered, hostMap>>,
         \A o \in Obj : ThreadsSame(o),
         \/ ring' = ring
         \/ \E i \in Nat : Queue(<<CmdGetCapsetInfo(i)>>) \/ Queue(<<CmdGetCapset(i)>>)
         \/ Queue(<<CmdGetDisplayInfo>>)
  PROVE  ObjectInv'
<1> SUFFICES ASSUME NEW o \in Obj PROVE ObjectOK(o)'
  BY DEF ObjectInv
<1>1. RingSame(o)
  <2>1. CASE ring' = ring
    BY <2>1, RingStays
  <2>2. ASSUME NEW c, c.op \notin OfObj, <<c>> \in Seq(Commands), Queue(<<c>>) PROVE RingSame(o)
    <3>1. ring' = ring \o <<c>>
      BY <2>2 DEF Queue
    <3>2. PICK q \in Seq(Commands) : q = <<c>>
      BY <2>2
    <3>3. \A k \in 1 .. Len(q) : ~About(q[k], o)
      BY <2>2, <3>2 DEF About
    <3> QED BY <3>1, <3>2, <3>3, RingPush
  <2>3. CASE Queue(<<CmdGetDisplayInfo>>)
    <3>1. CmdGetDisplayInfo.op \notin OfObj
      BY DEF CmdGetDisplayInfo, Cmd, OfObj
    <3> QED BY <2>2, <2>3, <3>1, CmdFacts DEF CmdsOK
  <2>4. ASSUME NEW i \in Nat, Queue(<<CmdGetCapsetInfo(i)>>) \/ Queue(<<CmdGetCapset(i)>>)
        PROVE  RingSame(o)
    <3>1. CmdGetCapsetInfo(i).op \notin OfObj /\ CmdGetCapset(i).op \notin OfObj
      BY DEF CmdGetCapsetInfo, CmdGetCapset, Cmd, OfObj
    <3>2. <<CmdGetCapsetInfo(i)>> \in Seq(Commands) /\ <<CmdGetCapset(i)>> \in Seq(Commands)
      BY CmdFacts DEF CmdsOK
    <3> QED BY <2>2, <2>4, <3>1, <3>2
  <2> QED BY <2>1, <2>3, <2>4
<1>2. ThingSame(o) /\ AnswersSame(o)
  BY AnswersStay DEF objVars, ThingSame
<1> QED BY <1>1, <1>2, ObjectKept DEF ObjectInv

LEMMA ObjectWork ==
  ASSUME TypeInv, device = "plugged", ObjectInv, BootNext \/ WorkNext \/ DisplayChange
  PROVE  ObjectInv'
<1>1. UNCHANGED <<objVars, answered, hostMap, th>>
  BY WorkKept
<1>2. \A o \in Obj : ThreadsSame(o)
  BY <1>1 DEF ThreadsSame
<1>3. boot.i \in Nat
  BY DEF TypeInv
<1>4. \/ ring' = ring \/ Queue(<<CmdGetDisplayInfo>>) \/ Queue(<<CmdGetCapsetInfo(boot.i)>>)
  BY DEF BootNext, WorkNext, DisplayChange, GetDisplayInfo, BootSend, BootWait, BootDisplay, ConfigWork, ConfigClear
<1> QED BY <1>1, <1>2, <1>3, <1>4, ObjectQuiet

LEMMA ObjectCaps ==
  ASSUME TypeInv, device = "plugged", ObjectInv, NEW t \in Thread,
         GetCaps(t) \/ GetCapset(t) \/ GetCapsetQueue(t) \/ CapsDone(t) \/ GetUuid(t) \/ UuidDone(t)
  PROVE  ObjectInv'
<1>1. UNCHANGED <<objVars, answered, hostMap>>
  BY CapsKept, UseKept DEF GetUuid, UuidDone
<1>2. th[t].id \in Nat
  BY DEF TypeInv, Places
<1>3. ring' = ring \/ Queue(<<CmdGetCapset(th[t].id)>>)
  BY DEF GetCaps, GetCapset, GetCapsetQueue, CapsDone, GetUuid, UuidDone
<1>4. ASSUME NEW o \in Obj PROVE ThreadsSame(o)
  <2>1. th[t].pc \notin {"node", "map", "handle", "mmap"}
    BY DEF GetCaps, GetCapset, GetCapsetQueue, CapsDone, GetUuid, UuidDone, Begin, Idle
  <2>2. ~Bound(t, o)
    BY <2>1 DEF Bound, Making, Mapping
  <2>3. \/ Return(t) \/ Goto(t, "caps") \/ Goto(t, "capsQueue")
        \/ \E pc, p, id : Begin(t, pc, p, id) /\ pc \notin {"node", "map", "handle", "mmap"}
    BY DEF GetCaps, GetCapset, GetCapsetQueue, CapsDone, GetUuid, UuidDone
  <2> QED BY <2>2, <2>3, MovesOthers
<1> QED BY <1>1, <1>2, <1>3, <1>4, ObjectQuiet

(* Steps about one object.                                                 *)
LEMMA ObjectBut ==
  ASSUME TypeInv, device = "plugged", ObjectInv, NEW o \in Obj, ObjectOK(o)', hostMap' = hostMap,
         \A p \in Obj : p # o => RingSame(p) /\ AnswersSame(p) /\ ThingSame(p) /\ ThreadsSame(p)
  PROVE  ObjectInv'
<1>1. ASSUME NEW p \in Obj, p # o PROVE ObjectOK(p)'
  BY <1>1, ObjectKept DEF ObjectInv
<1> QED BY <1>1 DEF ObjectInv

(* A command about an object leaves the others alone.                      *)
LEMMA RingOne ==
  ASSUME TypeInv, TypeInv', device = "plugged", NEW o \in Obj, NEW c \in Commands, c.o = o, Queue(<<c>>),
         c.op \in {"MAP", "UUID"}
  PROVE  /\ \A p \in Obj : p # o => RingSame(p)
         /\ Count(ring', o) = Count(ring, o) + 1
         /\ Len(ring) \in Nat /\ Len(ring') = Len(ring) + 1
         /\ \A k \in 1 .. Len(ring) : ring'[k] = ring[k]
         /\ ring'[Len(ring) + 1] = c
<1>1. ring \in Seq(Commands) /\ ring' \in Seq(Commands) /\ ring' = ring \o <<c>>
  BY DEF Queue, TypeInv
<1>2. PICK q \in Seq(Commands) : q = <<c>>
  <2>1. <<c>> \in Seq(Commands)
    OBVIOUS
  <2> QED BY <2>1
<1>3. \A p \in Obj : p # o => \A k \in 1 .. Len(q) : ~About(q[k], p)
  BY <1>2 DEF About
<1>4. \A p \in Obj : p # o => RingSame(p)
  BY <1>1, <1>2, <1>3, RingPush
<1>5. /\ Len(ring) \in Nat /\ Len(ring') = Len(ring) + 1
      /\ \A k \in 1 .. Len(ring) : ring'[k] = ring[k]
      /\ ring'[Len(ring) + 1] = c
  BY <1>1
<1>6. Holding(c, o)
  BY DEF Holding
<1>7. Count(ring', o) = Count(ring, o) + One(Holding(c, o))
  BY <1>1, <1>5, CountOne
<1> QED BY <1>4, <1>5, <1>6, <1>7 DEF One

LEMMA ObjectCreate ==
  ASSUME TypeInv, TypeInv', device = "plugged", ObjectInv, NEW t \in Thread, CreateObj(t)
  PROVE  ObjectInv'
<1>1. PICK o \in Obj : o = CHOOSE p \in Obj : obj[p].kind = "none"
  BY DEF CreateObj
<1>2. obj[o].kind = "none"
  BY <1>1 DEF CreateObj
<1>3. PICK k \in {"blob", "cross", "plain"} :
        /\ Begin(t, IF k = "plain" THEN "handle" ELSE "node", o, 0)
        /\ obj' = [obj EXCEPT ![o].kind = k]
  BY <1>1 DEF CreateObj
<1>4. PICK pc \in {"node", "handle"} : Begin(t, pc, o, 0)
  BY <1>3
<1>5. refs' = [refs EXCEPT ![o] = 1] /\ UNCHANGED <<ring, answered, hostMap, handle, dmabuf, vma>>
  BY <1>1 DEF CreateObj
<1>6. /\ obj \in [Obj -> Objects] /\ refs \in [Obj -> Int] /\ th \in [Thread -> Places]
      /\ ring \in Seq(Commands) /\ answered \in Seq(Commands)
  BY DEF TypeInv
<1>7. ASSUME NEW p \in Obj, p # o
      PROVE  RingSame(p) /\ AnswersSame(p) /\ ThingSame(p) /\ ThreadsSame(p)
  <2>1. ~Bound(t, p)
    BY <1>4 DEF Begin, Idle, Bound, Making, Mapping
  <2>2. ThreadsSame(p)
    BY <1>4, <1>7, <2>1, MovesOthers
  <2>3. ThingSame(p)
    BY <1>3, <1>5, <1>6, <1>7 DEF ThingSame
  <2> QED BY <1>5, <2>2, <2>3, RingStays, AnswersStay
<1>8. ObjectOK(o)'
  <2>1. ObjectOK(o) /\ ~Live(o)
    BY <1>2 DEF ObjectInv, Live
  <2>2. /\ obj[o] = Fresh /\ ~handle[o] /\ ~vma[o] /\ ~dmabuf[o]
        /\ \A u \in Thread : ~Making(u, o) /\ ~Mapping(u, o)
        /\ \A j \in 1 .. Len(ring) : ~Holding(ring[j], o)
        /\ \A j \in 1 .. Len(answered) : ~Holding(answered[j], o)
    BY <1>2, <2>1 DEF ObjectOK, GoneOK
  <2>3. obj'[o].kind = k /\ obj'[o].map = "INITIALIZING" /\ obj'[o].range = NoRange
    BY <1>3, <1>6, <2>2 DEF Fresh, Objects
  <2>4. Live(o)'
    BY <2>3 DEF Live
  <2>5. Count(ring, o)' = 0 /\ Count(answered, o)' = 0
    <3>1. Count(ring, o) = 0 /\ Count(answered, o) = 0
      BY <1>6, <2>2, CountFacts
    <3> QED BY <1>5, <3>1 DEF Count, Holding
  <2>6. th'[t].o = o /\ th'[t].pc = pc /\ \A u \in Thread : u # t => th'[u] = th[u]
    BY <1>4, <1>6 DEF Begin
  <2>7. \A u \in Thread : ~Mapping(u, o)' /\ (Making(u, o)' => u = t)
    <3>1. ASSUME NEW u \in Thread, u # t PROVE ~Mapping(u, o)' /\ ~Making(u, o)'
      BY <2>2, <2>6, <3>1 DEF Mapping, Making
    <3>2. ~Mapping(t, o)'
      BY <2>6 DEF Mapping
    <3> QED BY <3>1, <3>2
  <2>8. RefOK(o)'
    <3>1. ~MapUse(o)' /\ ~dmabuf'[o]
      BY <1>5, <2>2, <2>7 DEF MapUse
    <3>2. Uses(o)' <= 1 /\ Uses(o)' \in Nat
      BY <3>1 DEF Uses, One
    <3>3. refs'[o] = 1
      BY <1>5, <1>6
    <3> QED BY <2>5, <3>2, <3>3 DEF RefOK
  <2>9. /\ \A j \in 1 .. Len(ring') : ~(ring'[j].op = "MAP" /\ ring'[j].o = o)
        /\ \A j \in 1 .. Len(answered') : ~(answered'[j].op = "MAP" /\ answered'[j].o = o)
    BY <1>5, <2>2, AboutFacts
  <2>10. MakeOK(o)'
    <3>1. ~handle'[o] /\ ~vma'[o] /\ ~dmabuf'[o]
      BY <1>5, <2>2
    <3>2. \A u \in Thread : Making(u, o)' => th'[u].pc # "map"
      BY <2>6, <2>7
    <3> QED BY <2>3, <2>7, <2>9, <3>1, <3>2 DEF MakeOK
  <2>11. BackOK(o)'
    <3>1. ~vma'[o]
      BY <1>5, <2>2
    <3> QED BY <2>3, <2>9, <3>1 DEF BackOK
  <2>12. /\ \A j \in 1 .. Len(ring') : ~Ending(ring'[j], o)
         /\ \A j \in 1 .. Len(answered') : ~Ending(answered'[j], o)
    BY <1>2, <1>5, <2>1 DEF ObjectOK, EndOK
  <2> QED BY <2>4, <2>8, <2>10, <2>11, <2>12, LiveSelf
<1> QED BY <1>5, <1>7, <1>8, ObjectBut

(* The thread that creates an object, and what that says of the object.    *)
LEMMA MakerFacts ==
  ASSUME TypeInv, ObjectInv, device = "plugged", NEW t \in Thread, NEW o \in Obj, Making(t, o)
  PROVE  /\ ObjectOK(o) /\ Live(o) /\ HandleUse(o) /\ ~MapUse(o)
         /\ ~handle[o] /\ ~vma[o] /\ ~dmabuf[o]
         /\ \A u \in Thread : ~Mapping(u, o) /\ (Making(u, o) => u = t)
         /\ \A k \in 1 .. Len(ring) : ~Ending(ring[k], o)
         /\ \A k \in 1 .. Len(answered) : ~Ending(answered[k], o)
<1>1. ObjectOK(o)
  BY DEF ObjectInv
<1>2. Live(o)
  BY <1>1, LiveFacts
<1>3. /\ ~handle[o] /\ ~vma[o] /\ ~dmabuf[o]
      /\ \A u \in Thread : ~Mapping(u, o) /\ (Making(u, o) => u = t)
  BY <1>1 DEF ObjectOK, MakeOK
<1>4. HandleUse(o) /\ ~MapUse(o)
  BY <1>3 DEF HandleUse, MapUse
<1> QED BY <1>1, <1>2, <1>3, <1>4, LiveFacts

(* The creator gives up: its reference was the handle's to be.             *)
LEMMA MakerDrops ==
  ASSUME TypeInv, TypeInv', device = "plugged", ObjectInv, NEW t \in Thread, NEW o \in Obj,
         Making(t, o), NEW state \in [Obj -> Objects], Drop(o, 1, state), Return(t),
         UNCHANGED <<handle, dmabuf, vma, answered, hostMap>>,
         \A p \in Obj : p # o => state[p] = obj[p],
         state[o].kind = obj[o].kind, state[o].map = obj[o].map,
         state[o].range = obj[o].range \/ th[t].pc = "map"
  PROVE  ObjectInv'
<1>0. /\ ObjectOK(o) /\ Live(o) /\ HandleUse(o) /\ ~MapUse(o)
      /\ ~handle[o] /\ ~vma[o] /\ ~dmabuf[o]
      /\ \A u \in Thread : ~Mapping(u, o) /\ (Making(u, o) => u = t)
  BY MakerFacts
<1>1. /\ refs[o] \in Int /\ th \in [Thread -> Places]
      /\ ring \in Seq(Commands) /\ answered \in Seq(Commands)
  BY DEF TypeInv
<1>2. ASSUME NEW p \in Obj, p # o
      PROVE  RingSame(p) /\ AnswersSame(p) /\ ThingSame(p) /\ ThreadsSame(p)
  <2>1. ~Bound(t, p)
    BY <1>2 DEF Making, Mapping, Bound
  <2>2. ThreadsSame(p)
    BY <2>1, MovesOthers
  <2>3. obj'[p] = obj[p] /\ refs'[p] = refs[p] /\ RingSame(p)
    BY <1>2, DropOthers
  <2> QED BY <2>2, <2>3, AnswersStay DEF ThingSame
<1>3. \A u \in Thread : ~Mapping(u, o)' /\ ~Making(u, o)'
  <2>1. \A u \in Thread : u # t => th'[u] = th[u]
    BY <1>1 DEF Return
  <2>2. th'[t].pc = "idle"
    BY <1>1 DEF Return, Idle
  <2>3. ASSUME NEW u \in Thread, u # t PROVE ~Mapping(u, o)' /\ ~Making(u, o)'
    BY <1>0, <2>1, <2>3 DEF Mapping, Making
  <2>4. ~Mapping(t, o)' /\ ~Making(t, o)'
    BY <2>2 DEF Mapping, Making
  <2> QED BY <2>3, <2>4
<1>4. Uses(o) = 1 /\ Uses(o)' = 0
  <2>1. ~HandleUse(o)' /\ ~MapUse(o)' /\ ~dmabuf'[o]
    BY <1>0, <1>3 DEF HandleUse, MapUse
  <2> QED BY <1>0, <2>1 DEF Uses, One
<1>5. refs[o] - 1 >= Uses(o)' + Count(ring, o) + Count(answered', o)
  <2>1. Count(ring, o) \in Nat /\ Count(answered, o) \in Nat
    BY <1>1, CountFacts
  <2>2. refs[o] >= Uses(o) + Count(ring, o) + Count(answered, o)
    BY <1>0 DEF ObjectOK, RefOK
  <2> QED BY <1>1, <1>4, <2>1, <2>2
<1>6. ASSUME refs[o] > 1 PROVE MakeOK(o)' /\ BackOK(o)'
  <2>1. obj'[o] = state[o] /\ ring' = ring
    BY <1>6, DropFacts
  <2>2. MakeOK(o)'
    BY <1>3 DEF MakeOK
  <2>3. CASE state[o].range = obj[o].range
    BY <1>0, <2>1, <2>2, <2>3 DEF ObjectOK, BackOK, Live
  <2>4. CASE th[t].pc = "map"
    <3>1. /\ obj[o].map = "INITIALIZING"
          /\ \A k \in 1 .. Len(ring) : ~(ring[k].op = "MAP" /\ ring[k].o = o)
          /\ \A k \in 1 .. Len(answered) : ~(answered[k].op = "MAP" /\ answered[k].o = o)
      BY <1>0, <2>4 DEF ObjectOK, MakeOK
    <3> QED BY <1>0, <2>1, <2>2, <3>1 DEF BackOK
  <2> QED BY <2>2, <2>3, <2>4
<1>7. \A k \in 1 .. Len(answered') : \E j \in 1 .. Len(answered) : answered'[k] = answered[j]
  OBVIOUS
<1>8. ObjectOK(o)'
  BY <1>0, <1>5, <1>6, <1>7, DropSelf
<1> QED BY <1>2, <1>8, ObjectBut

LEMMA ObjectInsertNode ==
  ASSUME TypeInv, TypeInv', device = "plugged", ObjectInv, NEW t \in Thread, InsertNode(t)
  PROVE  ObjectInv'
<1>0. /\ obj \in [Obj -> Objects] /\ refs \in [Obj -> Int] /\ th \in [Thread -> Places]
      /\ ring \in Seq(Commands) /\ answered \in Seq(Commands)
  BY DEF TypeInv
<1>1. th[t].pc = "node" /\ UNCHANGED <<handle, dmabuf, vma, answered, hostMap>>
  BY DEF InsertNode
<1>2. PICK o \in Obj : o = th[t].o
  BY <1>1 DEF TypeInv, ObjectPc
<1>3. Making(t, o)
  BY <1>1, <1>2 DEF Making
<1>4. CASE Drop(o, 1, obj) /\ Return(t)
  BY <1>0, <1>1, <1>3, <1>4, MakerDrops
<1>5. ASSUME NEW r \in BarRange, obj' = [obj EXCEPT ![o].range = r], Goto(t, "map"),
             UNCHANGED <<refs, ring>>
      PROVE  ObjectInv'
  <2>0. /\ ObjectOK(o) /\ Live(o) /\ HandleUse(o) /\ ~MapUse(o)
        /\ ~handle[o] /\ ~vma[o] /\ ~dmabuf[o]
        /\ \A u \in Thread : ~Mapping(u, o) /\ (Making(u, o) => u = t)
        /\ \A k \in 1 .. Len(ring) : ~Ending(ring[k], o)
        /\ \A k \in 1 .. Len(answered) : ~Ending(answered[k], o)
    BY <1>3, MakerFacts
  <2>1. ASSUME NEW p \in Obj, p # o
        PROVE  RingSame(p) /\ AnswersSame(p) /\ ThingSame(p) /\ ThreadsSame(p)
    <3>1. ~Bound(t, p) /\ th[t].o # p
      BY <1>2, <2>1 DEF Making, Mapping, Bound
    <3>2. ThreadsSame(p)
      BY <1>5, <3>1, MovesOthers
    <3>3. ThingSame(p)
      BY <1>0, <1>1, <1>5, <2>1 DEF ThingSame
    <3> QED BY <1>1, <1>5, <3>2, <3>3, RingStays, AnswersStay
  <2>2. /\ th'[t].o = o /\ th'[t].pc = "map"
        /\ \A u \in Thread : u # t => th'[u] = th[u]
    BY <1>0, <1>2, <1>5 DEF Goto, Places
  <2>3. \A u \in Thread : ~Mapping(u, o)' /\ (Making(u, o)' => u = t)
    <3>1. ASSUME NEW u \in Thread, u # t PROVE ~Mapping(u, o)' /\ ~Making(u, o)'
      BY <2>0, <2>2, <3>1 DEF Mapping, Making
    <3>2. ~Mapping(t, o)'
      BY <2>2 DEF Mapping
    <3> QED BY <3>1, <3>2
  <2>4. obj'[o].kind = obj[o].kind /\ obj'[o].map = obj[o].map /\ obj'[o].range = r /\ r # NoRange
    <3>1. obj'[o] = [obj[o] EXCEPT !.range = r] /\ obj[o] \in Objects
      BY <1>0, <1>5
    <3>2. r # NoRange
      BY WaitAssumption
    <3> QED BY <3>1, <3>2 DEF Objects
  <2>5. /\ obj[o].map = "INITIALIZING"
        /\ \A k \in 1 .. Len(ring) : ~(ring[k].op = "MAP" /\ ring[k].o = o)
        /\ \A k \in 1 .. Len(answered) : ~(answered[k].op = "MAP" /\ answered[k].o = o)
    BY <1>1, <1>3, <2>0 DEF ObjectOK, MakeOK
  <2>6. Live(o)'
    BY <2>0, <2>4 DEF Live
  <2>7. RefOK(o)'
    <3>1. ~MapUse(o)' /\ ~dmabuf'[o]
      BY <1>1, <2>0, <2>3 DEF MapUse
    <3>2. Uses(o)' <= Uses(o) /\ Uses(o)' \in Nat /\ Uses(o) \in Nat
      BY <2>0, <3>1 DEF Uses, One
    <3>3. Count(ring, o)' = Count(ring, o) /\ Count(answered, o)' = Count(answered, o)
      BY <1>1, <1>5 DEF Count, Holding
    <3>4. refs'[o] = refs[o] /\ refs[o] \in Int /\ refs[o] >= Uses(o) + Count(ring, o) + Count(answered, o)
      BY <1>0, <1>5, <2>0 DEF ObjectOK, RefOK
    <3>5. Count(ring, o) \in Nat /\ Count(answered, o) \in Nat
      BY <1>0, CountFacts
    <3>6. refs'[o] >= Uses(o)' + Count(ring, o)' + Count(answered, o)'
      BY <3>2, <3>3, <3>4, <3>5
    <3> QED BY <3>6 DEF RefOK
  <2>8. MakeOK(o)'
    <3>1. ~handle'[o] /\ ~vma'[o] /\ ~dmabuf'[o]
      BY <1>1, <2>0
    <3> QED BY <1>1, <1>5, <2>3, <2>4, <2>5, <3>1 DEF MakeOK
  <2>9. BackOK(o)'
    BY <1>1, <1>5, <2>0, <2>4, <2>5 DEF BackOK
  <2>10. ObjectOK(o)'
    BY <1>1, <1>5, <2>0, <2>6, <2>7, <2>8, <2>9, LiveSelf
  <2> QED BY <1>1, <2>1, <2>10, ObjectBut
<1> QED BY <1>2, <1>4, <1>5 DEF InsertNode

(* An object keeps a reference for each user if it gets as many new ones   *)
(* as users and commands are added.                                        *)
LEMMA RefGrows ==
  ASSUME TypeInv, TypeInv', NEW o \in Obj, ObjectOK(o), Live(o), answered' = answered,
         NEW u \in Nat, NEW r \in Nat,
         Uses(o)' <= Uses(o) + u, Count(ring', o) = Count(ring, o) + r, refs'[o] >= refs[o] + u + r
  PROVE  RefOK(o)'
<1>1. /\ ring \in Seq(Commands) /\ ring' \in Seq(Commands) /\ answered \in Seq(Commands)
      /\ refs[o] \in Int /\ refs'[o] \in Int
  BY DEF TypeInv
<1>2. Count(ring, o)' = Count(ring', o) /\ Count(answered, o)' = Count(answered, o)
  BY DEF Count, Holding
<1>3. Count(ring, o) \in Nat /\ Count(answered, o) \in Nat /\ Uses(o) \in Nat /\ Uses(o)' \in Nat
  BY <1>1, CountFacts, UsesFacts, UsesFactsNext
<1>4. refs[o] >= Uses(o) + Count(ring, o) + Count(answered, o)
  BY DEF ObjectOK, RefOK
<1>5. refs'[o] >= Uses(o)' + Count(ring, o)' + Count(answered, o)'
  <2>1. \A a, b \in Int : \A x, y, c, d \in Nat :
          /\ a >= x + c + d /\ y <= x + u /\ b >= a + u + r => b >= y + (c + r) + d
    OBVIOUS
  <2> QED BY <1>1, <1>2, <1>3, <1>4, <2>1
<1> QED BY <1>5 DEF RefOK

LEMMA ObjectSendMap ==
  ASSUME TypeInv, TypeInv', device = "plugged", ObjectInv, NEW t \in Thread, SendMap(t)
  PROVE  ObjectInv'
<1>0. /\ obj \in [Obj -> Objects] /\ refs \in [Obj -> Int] /\ th \in [Thread -> Places]
      /\ ring \in Seq(Commands) /\ answered \in Seq(Commands)
  BY DEF TypeInv
<1>1. th[t].pc = "map" /\ UNCHANGED <<handle, dmabuf, vma, answered, hostMap>>
  BY DEF SendMap
<1>2. PICK o \in Obj : o = th[t].o
  BY <1>1 DEF TypeInv, ObjectPc
<1>3. Making(t, o)
  BY <1>1, <1>2 DEF Making
<1>4. CASE Drop(o, 1, [obj EXCEPT ![o].range = NoRange]) /\ Return(t)
  <2>1. PICK state \in [Obj -> Objects] : state = [obj EXCEPT ![o].range = NoRange]
    BY <1>0, ObjectFields
  <2>2. /\ \A p \in Obj : p # o => state[p] = obj[p]
        /\ state[o].kind = obj[o].kind /\ state[o].map = obj[o].map
    <3>1. state[o] = [obj[o] EXCEPT !.range = NoRange] /\ obj[o] \in Objects
      BY <1>0, <2>1
    <3>2. \A p \in Obj : p # o => state[p] = obj[p]
      BY <1>0, <2>1
    <3> QED BY <3>1, <3>2 DEF Objects
  <2> QED BY <1>1, <1>3, <1>4, <2>1, <2>2, MakerDrops
<1>5. CASE /\ Queue(<<CmdMap(o)>>) /\ refs' = [refs EXCEPT ![o] = @ + 1]
           /\ Goto(t, "handle") /\ UNCHANGED obj
  <2>0. /\ ObjectOK(o) /\ Live(o) /\ HandleUse(o) /\ ~MapUse(o)
        /\ ~handle[o] /\ ~vma[o] /\ ~dmabuf[o]
        /\ \A u \in Thread : ~Mapping(u, o) /\ (Making(u, o) => u = t)
        /\ \A k \in 1 .. Len(ring) : ~Ending(ring[k], o)
        /\ \A k \in 1 .. Len(answered) : ~Ending(answered[k], o)
    BY <1>3, MakerFacts
  <2>1. PICK c \in Commands : c = CmdMap(o) /\ c.op = "MAP" /\ c.o = o
    <3>1. CmdMap(o) \in Commands /\ CmdMap(o).op = "MAP" /\ CmdMap(o).o = o
      BY DEF CmdMap, Cmd, Commands, Ops
    <3> QED BY <3>1
  <2>2. /\ \A p \in Obj : p # o => RingSame(p)
        /\ Count(ring', o) = Count(ring, o) + 1
        /\ Len(ring) \in Nat /\ Len(ring') = Len(ring) + 1
        /\ \A k \in 1 .. Len(ring) : ring'[k] = ring[k]
        /\ ring'[Len(ring) + 1] = c
    BY <1>5, <2>1, RingOne
  <2>3. ASSUME NEW p \in Obj, p # o
        PROVE  RingSame(p) /\ AnswersSame(p) /\ ThingSame(p) /\ ThreadsSame(p)
    <3>1. ~Bound(t, p) /\ th[t].o # p
      BY <1>2, <2>3 DEF Making, Mapping, Bound
    <3>2. ThreadsSame(p)
      BY <1>5, <3>1, MovesOthers
    <3>3. ThingSame(p)
      BY <1>0, <1>1, <1>5, <2>3 DEF ThingSame
    <3> QED BY <1>1, <2>2, <2>3, <3>2, <3>3, AnswersStay
  <2>4. /\ th'[t].o = o /\ th'[t].pc = "handle"
        /\ \A u \in Thread : u # t => th'[u] = th[u]
    BY <1>0, <1>2, <1>5 DEF Goto, Places
  <2>5. \A u \in Thread : ~Mapping(u, o)' /\ (Making(u, o)' => u = t)
    <3>1. ASSUME NEW u \in Thread, u # t PROVE ~Mapping(u, o)' /\ ~Making(u, o)'
      BY <2>0, <2>4, <3>1 DEF Mapping, Making
    <3>2. ~Mapping(t, o)'
      BY <2>4 DEF Mapping
    <3> QED BY <3>1, <3>2
  <2>6. Live(o)' /\ obj'[o] = obj[o]
    BY <1>5, <2>0 DEF Live
  <2>7. RefOK(o)'
    <3>1. ~MapUse(o)' /\ ~dmabuf'[o]
      BY <1>1, <2>0, <2>5 DEF MapUse
    <3>2. Uses(o)' <= Uses(o) + 0
      BY <2>0, <3>1 DEF Uses, One
    <3>3. refs'[o] >= refs[o] + 0 + 1
      BY <1>0, <1>5
    <3> QED BY <1>1, <2>0, <2>2, <3>2, <3>3, RefGrows
  <2>8. \A k \in 1 .. Len(ring') : k \in 1 .. Len(ring) \/ k = Len(ring) + 1
    BY <2>2
  <2>9. \A k \in 1 .. Len(ring') : ~Ending(ring'[k], o)
    <3>1. ~Ending(c, o)
      BY <2>1 DEF Ending
    <3> QED BY <2>0, <2>2, <2>8, <3>1
  <2>10. MakeOK(o)'
    <3>1. ~handle'[o] /\ ~vma'[o] /\ ~dmabuf'[o]
      BY <1>1, <2>0
    <3>2. \A u \in Thread : Making(u, o)' => th'[u].pc = "handle"
      BY <2>4, <2>5
    <3> QED BY <2>5, <3>1, <3>2 DEF MakeOK
  <2>11. BackOK(o)'
    <3>1. obj[o].range # NoRange
      BY <1>1, <1>3, <2>0 DEF ObjectOK, MakeOK
    <3>2. UNCHANGED <<answered, hostMap, vma>>
      BY <1>1
    <3> QED BY <2>0, <2>6, <3>1, <3>2 DEF ObjectOK, BackOK
  <2>12. ObjectOK(o)'
    BY <1>1, <2>0, <2>6, <2>7, <2>9, <2>10, <2>11, LiveSelf
  <2> QED BY <1>1, <2>3, <2>12, ObjectBut
<1> QED BY <1>2, <1>4, <1>5 DEF SendMap

(* A question for the uuid, if the object is one that asks.                *)
LEMMA RingAsk ==
  ASSUME TypeInv, TypeInv', device = "plugged", NEW o \in Obj, NEW ask \in BOOLEAN,
         Queue(IF ask THEN <<CmdAssignUuid(o)>> ELSE <<>>)
  PROVE  /\ \A p \in Obj : p # o => RingSame(p)
         /\ Count(ring', o) = Count(ring, o) + One(ask)
         /\ \A k \in 1 .. Len(ring') :
              \/ k \in 1 .. Len(ring) /\ ring'[k] = ring[k]
              \/ ring'[k].op = "UUID"
<1>1. CASE ask
  <2>1. PICK c \in Commands : c = CmdAssignUuid(o) /\ c.op = "UUID" /\ c.o = o
    <3>1. CmdAssignUuid(o) \in Commands /\ CmdAssignUuid(o).op = "UUID" /\ CmdAssignUuid(o).o = o
      BY DEF CmdAssignUuid, Cmd, Commands, Ops
    <3> QED BY <3>1
  <2>2. Queue(<<c>>)
    BY <1>1, <2>1
  <2>3. /\ \A p \in Obj : p # o => RingSame(p)
        /\ Count(ring', o) = Count(ring, o) + 1
        /\ Len(ring) \in Nat /\ Len(ring') = Len(ring) + 1
        /\ \A k \in 1 .. Len(ring) : ring'[k] = ring[k]
        /\ ring'[Len(ring) + 1] = c
    BY <2>1, <2>2, RingOne
  <2>4. \A k \in 1 .. Len(ring') : k \in 1 .. Len(ring) \/ k = Len(ring) + 1
    BY <2>3
  <2> QED BY <1>1, <2>1, <2>3, <2>4 DEF One
<1>2. CASE ~ask
  <2>1. ring' = ring /\ ring \in Seq(Commands)
    BY <1>2 DEF Queue, TypeInv
  <2>2. Count(ring, o) \in Nat
    BY <2>1, CountFacts
  <2>3. \A p \in Obj : p # o => RingSame(p)
    BY <2>1, RingStays
  <2> QED BY <1>2, <2>1, <2>2, <2>3 DEF One
<1> QED BY <1>1, <1>2

LEMMA ObjectCreateHandle ==
  ASSUME TypeInv, TypeInv', device = "plugged", ObjectInv, NEW t \in Thread, CreateHandle(t)
  PROVE  ObjectInv'
<1>0. /\ obj \in [Obj -> Objects] /\ refs \in [Obj -> Int] /\ th \in [Thread -> Places]
      /\ ring \in Seq(Commands) /\ answered \in Seq(Commands) /\ handle \in [Obj -> BOOLEAN]
  BY DEF TypeInv
<1>1. th[t].pc = "handle" /\ UNCHANGED <<dmabuf, vma, answered, hostMap>> /\ Return(t)
  BY DEF CreateHandle
<1>2. PICK o \in Obj : o = th[t].o
  BY <1>1 DEF TypeInv, ObjectPc
<1>3. Making(t, o)
  BY <1>1, <1>2 DEF Making
<1>4. CASE Drop(o, 1, [obj EXCEPT ![o].uuid = "ERR"]) /\ UNCHANGED handle
  <2>1. PICK state \in [Obj -> Objects] : state = [obj EXCEPT ![o].uuid = "ERR"]
    BY <1>0, ObjectFields
  <2>2. /\ \A p \in Obj : p # o => state[p] = obj[p]
        /\ state[o].kind = obj[o].kind /\ state[o].map = obj[o].map /\ state[o].range = obj[o].range
    <3>1. state[o] = [obj[o] EXCEPT !.uuid = "ERR"] /\ obj[o] \in Objects
      BY <1>0, <2>1
    <3>2. \A p \in Obj : p # o => state[p] = obj[p]
      BY <1>0, <2>1
    <3> QED BY <3>1, <3>2 DEF Objects
  <2> QED BY <1>1, <1>3, <1>4, <2>1, <2>2, MakerDrops
<1>5. ASSUME NEW ask \in BOOLEAN, ask = (obj[o].kind = "cross"),
             handle' = [handle EXCEPT ![o] = TRUE],
             Queue(IF ask THEN <<CmdAssignUuid(o)>> ELSE <<>>),
             refs' = [refs EXCEPT ![o] = IF ask THEN @ + 1 ELSE @], UNCHANGED obj
      PROVE  ObjectInv'
  <2>0. /\ ObjectOK(o) /\ Live(o) /\ HandleUse(o) /\ ~MapUse(o)
        /\ ~handle[o] /\ ~vma[o] /\ ~dmabuf[o]
        /\ \A u \in Thread : ~Mapping(u, o) /\ (Making(u, o) => u = t)
        /\ \A k \in 1 .. Len(ring) : ~Ending(ring[k], o)
        /\ \A k \in 1 .. Len(answered) : ~Ending(answered[k], o)
    BY <1>3, MakerFacts
  <2>1. /\ \A p \in Obj : p # o => RingSame(p)
        /\ Count(ring', o) = Count(ring, o) + One(ask)
        /\ \A k \in 1 .. Len(ring') :
             \/ k \in 1 .. Len(ring) /\ ring'[k] = ring[k]
             \/ ring'[k].op = "UUID"
    BY <1>5, RingAsk
  <2>2. ASSUME NEW p \in Obj, p # o
        PROVE  RingSame(p) /\ AnswersSame(p) /\ ThingSame(p) /\ ThreadsSame(p)
    <3>1. ~Bound(t, p) /\ th[t].o # p
      BY <1>2, <2>2 DEF Making, Mapping, Bound
    <3>2. ThreadsSame(p)
      BY <1>1, <3>1, MovesOthers
    <3>3. ThingSame(p)
      BY <1>0, <1>1, <1>5, <2>2 DEF ThingSame
    <3> QED BY <1>1, <2>1, <2>2, <3>2, <3>3, AnswersStay
  <2>3. \A u \in Thread : ~Mapping(u, o)' /\ ~Making(u, o)'
    <3>1. \A u \in Thread : u # t => th'[u] = th[u]
      BY <1>0, <1>1 DEF Return
    <3>2. th'[t].pc = "idle"
      BY <1>0, <1>1 DEF Return, Idle
    <3>3. ASSUME NEW u \in Thread, u # t PROVE ~Mapping(u, o)' /\ ~Making(u, o)'
      BY <2>0, <3>1, <3>3 DEF Mapping, Making
    <3>4. ~Mapping(t, o)' /\ ~Making(t, o)'
      BY <3>2 DEF Mapping, Making
    <3> QED BY <3>3, <3>4
  <2>4. Live(o)' /\ obj'[o] = obj[o]
    BY <1>5, <2>0 DEF Live
  <2>5. RefOK(o)'
    <3>1. ~MapUse(o)' /\ ~dmabuf'[o]
      BY <1>1, <2>0, <2>3 DEF MapUse
    <3>2. Uses(o)' <= Uses(o) + 0
      BY <2>0, <3>1 DEF Uses, One
    <3>3. One(ask) \in Nat /\ refs'[o] >= refs[o] + 0 + One(ask)
      BY <1>0, <1>5 DEF One
    <3> QED BY <1>1, <2>0, <2>1, <3>2, <3>3, RefGrows
  <2>6. \A k \in 1 .. Len(ring') : ~Ending(ring'[k], o)
    BY <2>0, <2>1 DEF Ending
  <2>7. MakeOK(o)'
    BY <2>3 DEF MakeOK
  <2>8. BackOK(o)'
    <3>1. UNCHANGED <<answered, hostMap, vma>>
      BY <1>1
    <3>2. \A k \in 1 .. Len(ring') : ring'[k].op = "MAP" /\ ring'[k].o = o => obj'[o].range # NoRange
      BY <2>0, <2>1, <2>4 DEF ObjectOK, BackOK
    <3> QED BY <2>0, <2>4, <3>1, <3>2 DEF ObjectOK, BackOK
  <2>9. ObjectOK(o)'
    BY <1>1, <2>0, <2>4, <2>5, <2>6, <2>7, <2>8, LiveSelf
  <2> QED BY <1>1, <2>2, <2>9, ObjectBut
<1> QED BY <1>2, <1>4, <1>5 DEF CreateHandle

(* A user that goes leaves a reference for each of the others.             *)
LEMMA RefFalls ==
  ASSUME TypeInv, NEW o \in Obj, ObjectOK(o), Live(o), answered' = answered,
         Uses(o)' <= Uses(o) - 1
  PROVE  refs[o] - 1 >= Uses(o)' + Count(ring, o) + Count(answered', o)
<1>1. ring \in Seq(Commands) /\ answered \in Seq(Commands) /\ refs[o] \in Int
  BY DEF TypeInv
<1>2. Count(ring, o) \in Nat /\ Count(answered, o) \in Nat /\ Uses(o) \in Nat /\ Uses(o)' \in Nat
  BY <1>1, CountFacts, UsesFacts, UsesFactsNext
<1>3. refs[o] >= Uses(o) + Count(ring, o) + Count(answered, o)
  BY DEF ObjectOK, RefOK
<1>4. \A a \in Int : \A x, y, c, d \in Nat : a >= x + c + d /\ y <= x - 1 => a - 1 >= y + c + d
  OBVIOUS
<1>5. Count(answered', o) = Count(answered, o)
  OBVIOUS
<1> QED BY <1>1, <1>2, <1>3, <1>4, <1>5

LEMMA ObjectCloseRef ==
  ASSUME TypeInv, TypeInv', device = "plugged", ObjectInv, NEW o \in Obj, CloseRef(o)
  PROVE  ObjectInv'
<1>0. /\ obj \in [Obj -> Objects] /\ handle \in [Obj -> BOOLEAN]
      /\ vma \in [Obj -> BOOLEAN] /\ dmabuf \in [Obj -> BOOLEAN]
  BY DEF TypeInv
<1>1. Drop(o, 1, obj) /\ UNCHANGED <<th, answered, hostMap>>
  BY DEF CloseRef
<1>2. ObjectOK(o)
  BY DEF ObjectInv
<1>3. \A t \in Thread : (Making(t, o)' <=> Making(t, o)) /\ (Mapping(t, o)' <=> Mapping(t, o))
  BY <1>1 DEF Making, Mapping
<1>4. \/ /\ handle[o] /\ ~handle'[o] /\ vma'[o] = vma[o] /\ dmabuf'[o] = dmabuf[o]
      \/ /\ vma[o] /\ ~vma'[o] /\ handle'[o] = handle[o] /\ dmabuf'[o] = dmabuf[o]
      \/ /\ dmabuf[o] /\ ~dmabuf'[o] /\ handle'[o] = handle[o] /\ vma'[o] = vma[o]
  BY <1>0 DEF CloseRef
<1>5. Live(o)
  BY <1>2, <1>4, LiveFacts
<1>6. \A t \in Thread : ~Making(t, o)
  BY <1>2, <1>4 DEF ObjectOK, MakeOK
<1>7. vma[o] => \A t \in Thread : ~Mapping(t, o)
  BY <1>2 DEF ObjectOK, MakeOK
<1>8. Uses(o)' <= Uses(o) - 1
  <2>1. /\ HandleUse(o) <=> handle[o]
        /\ HandleUse(o)' <=> handle'[o]
    BY <1>3, <1>6 DEF HandleUse
  <2>2. /\ vma'[o] = vma[o] => (MapUse(o)' <=> MapUse(o))
        /\ vma[o] /\ ~vma'[o] => MapUse(o) /\ ~MapUse(o)'
    BY <1>3, <1>7 DEF MapUse
  <2> QED BY <1>4, <2>1, <2>2 DEF Uses, One
<1>9. refs[o] - 1 >= Uses(o)' + Count(ring, o) + Count(answered', o)
  BY <1>1, <1>2, <1>5, <1>8, RefFalls
<1>10. ASSUME refs[o] > 1 PROVE MakeOK(o)' /\ BackOK(o)'
  <2>1. obj'[o] = obj[o] /\ ring' = ring
    BY <1>0, <1>1, <1>10, DropFacts
  <2>2. vma'[o] => vma[o]
    BY <1>4
  <2>3. MakeOK(o)'
    <3>1. \A t \in Thread : ~Making(t, o)'
      BY <1>3, <1>6
    <3>2. \A t, u \in Thread : Mapping(t, o)' /\ Mapping(u, o)' => t = u
      BY <1>2, <1>3 DEF ObjectOK, MakeOK
    <3>3. \A t \in Thread : Mapping(t, o)' => ~vma'[o]
      BY <1>2, <1>3, <2>2 DEF ObjectOK, MakeOK
    <3> QED BY <3>1, <3>2, <3>3 DEF MakeOK
  <2>4. BackOK(o)'
    BY <1>1, <1>2, <2>1, <2>2 DEF ObjectOK, BackOK, Live
  <2> QED BY <2>3, <2>4
<1>11. \A k \in 1 .. Len(answered') : \E j \in 1 .. Len(answered) : answered'[k] = answered[j]
  BY <1>1
<1>12. ObjectOK(o)'
  BY <1>0, <1>1, <1>2, <1>5, <1>9, <1>10, <1>11, DropSelf
<1>13. ASSUME NEW p \in Obj, p # o
       PROVE  RingSame(p) /\ AnswersSame(p) /\ ThingSame(p) /\ ThreadsSame(p)
  <2>1. obj'[p] = obj[p] /\ refs'[p] = refs[p] /\ RingSame(p)
    BY <1>0, <1>1, <1>13, DropOthers
  <2>2. handle'[p] = handle[p] /\ vma'[p] = vma[p] /\ dmabuf'[p] = dmabuf[p]
    BY <1>0, <1>13 DEF CloseRef
  <2>3. ThreadsSame(p)
    BY <1>1 DEF ThreadsSame
  <2> QED BY <1>1, <2>1, <2>2, <2>3, AnswersStay DEF ThingSame
<1> QED BY <1>1, <1>12, <1>13, ObjectBut

LEMMA ObjectMmap ==
  ASSUME TypeInv, TypeInv', device = "plugged", ObjectInv, NEW t \in Thread, Mmap(t)
  PROVE  ObjectInv'
<1>0. /\ refs \in [Obj -> Int] /\ th \in [Thread -> Places]
      /\ ring \in Seq(Commands) /\ answered \in Seq(Commands)
  BY DEF TypeInv
<1>1. PICK o \in Obj : /\ handle[o] /\ ~vma[o]
                       /\ \A u \in Thread : th[u].pc = "mmap" => th[u].o # o
                       /\ Begin(t, "mmap", o, 0)
                       /\ refs' = [refs EXCEPT ![o] = @ + 1]
  BY DEF Mmap
<1>2. UNCHANGED <<obj, handle, dmabuf, vma, ring, answered, hostMap>>
  BY DEF Mmap
<1>3. ObjectOK(o) /\ Live(o)
  BY <1>1, LiveFacts DEF ObjectInv
<1>4. ASSUME NEW p \in Obj, p # o
      PROVE  RingSame(p) /\ AnswersSame(p) /\ ThingSame(p) /\ ThreadsSame(p)
  <2>1. ~Bound(t, p)
    BY <1>1 DEF Begin, Idle, Bound, Making, Mapping
  <2>2. ThreadsSame(p)
    BY <1>1, <1>4, <2>1, MovesOthers
  <2>3. ThingSame(p)
    BY <1>0, <1>1, <1>2, <1>4 DEF ThingSame
  <2> QED BY <1>2, <2>2, <2>3, RingStays, AnswersStay
<1>5. /\ th'[t].o = o /\ th'[t].pc = "mmap"
      /\ \A u \in Thread : u # t => th'[u] = th[u]
  BY <1>0, <1>1 DEF Begin
<1>6. \A u \in Thread : ~Making(u, o) /\ ~Mapping(u, o)
  BY <1>1, <1>3 DEF ObjectOK, MakeOK, Mapping
<1>7. \A u \in Thread : ~Making(u, o)' /\ (Mapping(u, o)' => u = t)
  <2>1. ASSUME NEW u \in Thread, u # t PROVE ~Mapping(u, o)' /\ ~Making(u, o)'
    BY <1>5, <1>6, <2>1 DEF Mapping, Making
  <2>2. ~Making(t, o)'
    BY <1>5 DEF Making
  <2> QED BY <2>1, <2>2
<1>8. Live(o)' /\ obj'[o] = obj[o]
  BY <1>2, <1>3 DEF Live
<1>9. RefOK(o)'
  <2>1. HandleUse(o)' <=> HandleUse(o)
    BY <1>2, <1>6, <1>7 DEF HandleUse
  <2>2. Uses(o)' <= Uses(o) + 1
    BY <1>2, <2>1 DEF Uses, One
  <2>3. Count(ring', o) = Count(ring, o) + 0
    <3>1. Count(ring, o) \in Nat
      BY <1>0, CountFacts
    <3>2. Count(ring', o) = Count(ring, o)
      BY <1>2
    <3> QED BY <3>1, <3>2
  <2>4. refs'[o] >= refs[o] + 1 + 0
    BY <1>0, <1>1
  <2> QED BY <1>2, <1>3, <2>2, <2>3, <2>4, RefGrows
<1>10. MakeOK(o)'
  BY <1>1, <1>2, <1>7 DEF MakeOK
<1>11. BackOK(o)'
  BY <1>2, <1>3, <1>8 DEF ObjectOK, BackOK
<1>12. ObjectOK(o)'
  BY <1>2, <1>3, <1>8, <1>9, <1>10, <1>11, LiveSelf, LiveFacts
<1> QED BY <1>2, <1>4, <1>12, ObjectBut

LEMMA ObjectMmapDone ==
  ASSUME TypeInv, TypeInv', device = "plugged", ObjectInv, NEW t \in Thread, MmapDone(t)
  PROVE  ObjectInv'
<1>0. /\ obj \in [Obj -> Objects] /\ th \in [Thread -> Places] /\ vma \in [Obj -> BOOLEAN]
      /\ ring \in Seq(Commands) /\ answered \in Seq(Commands) /\ refs \in [Obj -> Int]
  BY DEF TypeInv
<1>1. th[t].pc = "mmap" /\ Return(t) /\ UNCHANGED <<handle, dmabuf, answered, hostMap>>
  BY DEF MmapDone
<1>2. PICK o \in Obj : o = th[t].o
  BY <1>1 DEF TypeInv, ObjectPc
<1>3. Mapping(t, o) /\ ObjectOK(o)
  BY <1>1, <1>2 DEF Mapping, ObjectInv
<1>4. Live(o)
  BY <1>3, LiveFacts
<1>5. ~vma[o] /\ \A u \in Thread : ~Making(u, o) /\ (Mapping(u, o) => u = t)
  BY <1>3 DEF ObjectOK, MakeOK
<1>6. \A u \in Thread : ~Mapping(u, o)' /\ ~Making(u, o)'
  <2>1. \A u \in Thread : u # t => th'[u] = th[u]
    BY <1>0, <1>1 DEF Return
  <2>2. th'[t].pc = "idle"
    BY <1>0, <1>1 DEF Return, Idle
  <2>3. ASSUME NEW u \in Thread, u # t PROVE ~Mapping(u, o)' /\ ~Making(u, o)'
    BY <1>5, <2>1, <2>3 DEF Mapping, Making
  <2>4. ~Mapping(t, o)' /\ ~Making(t, o)'
    BY <2>2 DEF Mapping, Making
  <2> QED BY <2>3, <2>4
<1>7. MapUse(o) /\ (HandleUse(o)' <=> HandleUse(o)) /\ (MapUse(o)' <=> vma'[o])
  BY <1>1, <1>3, <1>5, <1>6 DEF MapUse, HandleUse
<1>8. \A p \in Obj : p # o => ThreadsSame(p)
  <2>1. \A p \in Obj : p # o => ~Bound(t, p)
    BY <1>2 DEF Making, Mapping, Bound
  <2> QED BY <1>1, <2>1, MovesOthers
<1>9. CASE Drop(o, 1, obj) /\ vma' = vma
  <2>1. Uses(o)' <= Uses(o) - 1
    BY <1>1, <1>5, <1>7, <1>9 DEF Uses, One
  <2>2. refs[o] - 1 >= Uses(o)' + Count(ring, o) + Count(answered', o)
    BY <1>1, <1>3, <1>4, <2>1, RefFalls
  <2>3. ASSUME refs[o] > 1 PROVE MakeOK(o)' /\ BackOK(o)'
    <3>1. obj'[o] = obj[o] /\ ring' = ring
      BY <1>0, <1>9, <2>3, DropFacts
    <3>2. MakeOK(o)'
      BY <1>6 DEF MakeOK
    <3> QED BY <1>1, <1>3, <1>9, <3>1, <3>2 DEF ObjectOK, BackOK, Live
  <2>4. \A k \in 1 .. Len(answered') : \E j \in 1 .. Len(answered) : answered'[k] = answered[j]
    BY <1>1
  <2>5. ObjectOK(o)'
    BY <1>0, <1>3, <1>4, <1>9, <2>2, <2>3, <2>4, DropSelf
  <2>6. ASSUME NEW p \in Obj, p # o
        PROVE  RingSame(p) /\ AnswersSame(p) /\ ThingSame(p) /\ ThreadsSame(p)
    <3>1. obj'[p] = obj[p] /\ refs'[p] = refs[p] /\ RingSame(p)
      BY <1>0, <1>9, <2>6, DropOthers
    <3> QED BY <1>1, <1>8, <1>9, <2>6, <3>1, AnswersStay DEF ThingSame
  <2> QED BY <1>1, <2>5, <2>6, ObjectBut
<1>10. CASE /\ obj[o].map = "OK" /\ vma' = [vma EXCEPT ![o] = TRUE] /\ UNCHANGED <<refs, obj, ring>>
  <2>1. vma'[o]
    BY <1>0, <1>10
  <2>2. Live(o)' /\ obj'[o] = obj[o]
    BY <1>4, <1>10 DEF Live
  <2>3. RefOK(o)'
    <3>1. Uses(o)' <= Uses(o) + 0
      BY <1>1, <1>7, <2>1 DEF Uses, One
    <3>2. Count(ring, o) \in Nat /\ Count(ring', o) = Count(ring, o)
      BY <1>0, <1>10, CountFacts
    <3>3. Count(ring', o) = Count(ring, o) + 0
      BY <3>2
    <3>4. refs'[o] >= refs[o] + 0 + 0
      BY <1>0, <1>10
    <3> QED BY <1>1, <1>3, <1>4, <3>1, <3>3, <3>4, RefGrows
  <2>4. MakeOK(o)'
    BY <1>6 DEF MakeOK
  <2>5. BackOK(o)'
    BY <1>1, <1>3, <1>4, <1>10, <2>2 DEF ObjectOK, BackOK
  <2>6. ObjectOK(o)'
    BY <1>1, <1>3, <1>4, <1>10, <2>2, <2>3, <2>4, <2>5, LiveSelf, LiveFacts
  <2>7. ASSUME NEW p \in Obj, p # o
        PROVE  RingSame(p) /\ AnswersSame(p) /\ ThingSame(p) /\ ThreadsSame(p)
    <3>1. ThingSame(p)
      BY <1>0, <1>1, <1>10, <2>7 DEF ThingSame
    <3> QED BY <1>1, <1>8, <1>10, <2>7, <3>1, RingStays, AnswersStay
  <2> QED BY <1>1, <2>6, <2>7, ObjectBut
<1>11. obj[o].map \in {"INITIALIZING", "OK", "ERR"}
  BY <1>0 DEF Objects
<1> QED BY <1>2, <1>9, <1>10, <1>11 DEF MmapDone, MapReady

LEMMA ObjectExport ==
  ASSUME TypeInv, TypeInv', device = "plugged", ObjectInv, NEW t \in Thread, Export(t)
  PROVE  ObjectInv'
<1>0. /\ obj \in [Obj -> Objects] /\ refs \in [Obj -> Int] /\ dmabuf \in [Obj -> BOOLEAN]
      /\ ring \in Seq(Commands) /\ answered \in Seq(Commands)
  BY DEF TypeInv
<1>1. UNCHANGED <<handle, vma, th, answered, hostMap>>
  BY DEF Export
<1>2. PICK o \in Obj :
        /\ handle[o] /\ ~dmabuf[o]
        /\ \/ /\ dmabuf' = [dmabuf EXCEPT ![o] = TRUE]
              /\ refs' = [refs EXCEPT ![o] = IF obj[o].kind = "plain" THEN @ + 2 ELSE @ + 1]
              /\ obj' = [obj EXCEPT ![o].uuid = IF obj[o].kind = "blob" THEN "ERR" ELSE @]
              /\ Queue(IF obj[o].kind = "plain" THEN <<CmdAssignUuid(o)>> ELSE <<>>)
           \/ /\ obj[o].kind = "plain"
              /\ obj' = [obj EXCEPT ![o].uuid = "ERR"]
              /\ UNCHANGED <<dmabuf, refs, ring>>
  BY DEF Export
<1>3. ObjectOK(o) /\ Live(o)
  BY <1>2, LiveFacts DEF ObjectInv
<1>4. /\ obj'[o].kind = obj[o].kind /\ obj'[o].range = obj[o].range /\ obj'[o].map = obj[o].map
      /\ \A p \in Obj : p # o => obj'[p] = obj[p]
  BY <1>0, <1>2 DEF Objects
<1>5. \A u \in Thread : (Making(u, o)' <=> Making(u, o)) /\ (Mapping(u, o)' <=> Mapping(u, o))
  BY <1>1 DEF Making, Mapping
<1>6. \A u \in Thread : ~Making(u, o)
  BY <1>2, <1>3 DEF ObjectOK, MakeOK
<1>7. (HandleUse(o)' <=> HandleUse(o)) /\ (MapUse(o)' <=> MapUse(o))
  BY <1>1, <1>5 DEF HandleUse, MapUse
<1>8. Live(o)'
  BY <1>3, <1>4 DEF Live
<1>9. MakeOK(o)'
  <2>1. \A u \in Thread : ~Making(u, o)'
    BY <1>5, <1>6
  <2>2. \A u, v \in Thread : Mapping(u, o)' /\ Mapping(v, o)' => u = v
    BY <1>3, <1>5 DEF ObjectOK, MakeOK
  <2>3. \A u \in Thread : Mapping(u, o)' => ~vma'[o]
    BY <1>1, <1>3, <1>5 DEF ObjectOK, MakeOK
  <2> QED BY <2>1, <2>2, <2>3 DEF MakeOK
<1>10. \/ /\ dmabuf' = [dmabuf EXCEPT ![o] = TRUE] /\ refs'[o] = refs[o] + 1 + One(obj[o].kind = "plain")
          /\ Queue(IF obj[o].kind = "plain" THEN <<CmdAssignUuid(o)>> ELSE <<>>)
       \/ /\ dmabuf' = dmabuf /\ refs'[o] = refs[o] /\ ring' = ring
  <2>1. refs[o] \in Int
    BY <1>0
  <2> QED BY <1>0, <1>2, <2>1 DEF One
<1>11. /\ \A p \in Obj : p # o => RingSame(p)
       /\ \A k \in 1 .. Len(ring') :
              \/ k \in 1 .. Len(ring) /\ ring'[k] = ring[k]
              \/ ring'[k].op = "UUID"
       /\ RefOK(o)'
  <2>1. CASE /\ dmabuf' = [dmabuf EXCEPT ![o] = TRUE]
             /\ refs'[o] = refs[o] + 1 + One(obj[o].kind = "plain")
             /\ Queue(IF obj[o].kind = "plain" THEN <<CmdAssignUuid(o)>> ELSE <<>>)
    <3>1. PICK a \in BOOLEAN : a = (obj[o].kind = "plain")
      OBVIOUS
    <3>2. /\ \A p \in Obj : p # o => RingSame(p)
          /\ Count(ring', o) = Count(ring, o) + One(a)
          /\ \A k \in 1 .. Len(ring') :
               \/ k \in 1 .. Len(ring) /\ ring'[k] = ring[k]
               \/ ring'[k].op = "UUID"
      BY <2>1, <3>1, RingAsk
    <3>3. Uses(o)' <= Uses(o) + 1
      BY <1>2, <1>7 DEF Uses, One
    <3>4. One(a) \in Nat /\ refs[o] \in Int
      BY <1>0 DEF One
    <3>5. refs'[o] >= refs[o] + 1 + One(a)
      BY <2>1, <3>1, <3>4
    <3> QED BY <1>1, <1>3, <3>2, <3>3, <3>4, <3>5, RefGrows
  <2>2. CASE dmabuf' = dmabuf /\ refs'[o] = refs[o] /\ ring' = ring
    <3>1. Uses(o)' <= Uses(o) + 0
      BY <1>7, <2>2 DEF Uses, One
    <3>2. Count(ring, o) \in Nat /\ Count(ring', o) = Count(ring, o)
      BY <1>0, <2>2, CountFacts
    <3>3. Count(ring', o) = Count(ring, o) + 0
      BY <3>2
    <3>4. refs[o] \in Int
      BY <1>0
    <3>5. refs'[o] >= refs[o] + 0 + 0
      BY <2>2, <3>4
    <3>6. RefOK(o)'
      BY <1>1, <1>3, <3>1, <3>3, <3>5, RefGrows
    <3> QED BY <2>2, <3>6, RingStays
  <2> QED BY <1>10, <2>1, <2>2
<1>12. /\ \A k \in 1 .. Len(ring') : ~Ending(ring'[k], o)
       /\ \A k \in 1 .. Len(answered') : ~Ending(answered'[k], o)
  BY <1>1, <1>3, <1>11, LiveFacts DEF Ending
<1>13. BackOK(o)'
  <2>1. \A k \in 1 .. Len(ring') : ring'[k].op = "MAP" /\ ring'[k].o = o => obj'[o].range # NoRange
    BY <1>3, <1>4, <1>11 DEF ObjectOK, BackOK
  <2> QED BY <1>1, <1>3, <1>4, <2>1 DEF ObjectOK, BackOK
<1>14. ObjectOK(o)'
  BY <1>8, <1>9, <1>11, <1>12, <1>13, LiveSelf
<1>15. ASSUME NEW p \in Obj, p # o
       PROVE  RingSame(p) /\ AnswersSame(p) /\ ThingSame(p) /\ ThreadsSame(p)
  <2>1. refs'[p] = refs[p] /\ dmabuf'[p] = dmabuf[p]
    BY <1>0, <1>2, <1>15
  <2>2. ThreadsSame(p)
    BY <1>1 DEF ThreadsSame
  <2> QED BY <1>1, <1>4, <1>11, <1>15, <2>1, <2>2, AnswersStay DEF ThingSame
<1> QED BY <1>1, <1>14, <1>15, ObjectBut

(* The answer to a command that held a reference.                          *)
LEMMA AnswerDrops ==
  ASSUME TypeInv, TypeInv', device = "plugged", ObjectInv, NEW o \in Obj, answered # <<>>,
         NEW c \in Commands, c = answered[1], c = Head(answered), Holding(c, o),
         answered' = Tail(answered), NEW state \in [Obj -> Objects], Drop(o, 1, state),
         UNCHANGED <<handle, dmabuf, vma, th, hostMap>>,
         \A p \in Obj : p # o => state[p] = obj[p],
         state[o].kind = obj[o].kind, state[o].range = obj[o].range,
         \/ state[o].map = obj[o].map
         \/ c.op = "MAP" /\ (c.n = 1 \/ state[o].map # "OK")
  PROVE  ObjectInv'
<1>0. /\ ring \in Seq(Commands) /\ answered \in Seq(Commands) /\ refs[o] \in Int
  BY DEF TypeInv
<1>1. ObjectOK(o)
  BY DEF ObjectInv
<1>2. /\ Len(answered) \in Nat /\ Len(answered) >= 1 /\ Len(answered') = Len(answered) - 1
      /\ \A k \in 1 .. Len(answered) - 1 : answered'[k] = answered[k + 1]
  BY <1>0, TailFacts
<1>3. 1 \in 1 .. Len(answered)
  BY <1>2
<1>4. Live(o)
  BY <1>1, <1>3, LiveFacts
<1>5. \A k \in 1 .. Len(answered') : \E j \in 1 .. Len(answered) : answered'[k] = answered[j]
  <2>1. \A k \in 1 .. Len(answered') : k + 1 \in 1 .. Len(answered) /\ answered'[k] = answered[k + 1]
    BY <1>2
  <2> QED BY <2>1
<1>6. ThreadsSame(o)
  BY DEF ThreadsSame
<1>7. /\ \A t \in Thread : Making(t, o)' <=> Making(t, o)
      /\ \A t \in Thread : Mapping(t, o)' <=> Mapping(t, o)
      /\ Uses(o)' = Uses(o)
  BY <1>6, UsesKept
<1>8. refs[o] - 1 >= Uses(o)' + Count(ring, o) + Count(answered', o)
  <2>1. Count(answered', o) = Count(answered, o) - One(Holding(c, o))
    BY <1>0, CountTail
  <2>2. Count(ring, o) \in Nat /\ Count(answered, o) \in Nat /\ Uses(o) \in Nat
    BY <1>0, CountFacts, UsesFacts
  <2>3. refs[o] >= Uses(o) + Count(ring, o) + Count(answered, o)
    BY <1>1, <1>4 DEF ObjectOK, RefOK
  <2>4. Count(answered', o) = Count(answered, o) - 1
    BY <2>1 DEF One
  <2>5. \A a \in Int : \A x, y, z \in Nat : a >= x + y + z => a - 1 >= x + y + (z - 1)
    OBVIOUS
  <2> QED BY <1>0, <1>7, <2>2, <2>3, <2>4, <2>5
<1>9. ASSUME refs[o] > 1 PROVE MakeOK(o)' /\ BackOK(o)'
  <2>1. obj'[o] = state[o] /\ ring' = ring
    BY <1>9, DropFacts
  <2>2. \A k \in 1 .. Len(answered') : answered'[k].op = "MAP" /\ answered'[k].o = o =>
          \E j \in 1 .. Len(answered) : answered'[k] = answered[j] /\ answered[j].op = "MAP" /\ answered[j].o = o
    BY <1>5
  <2>3. ASSUME NEW t \in Thread, Making(t, o)
        PROVE  /\ ~handle'[o] /\ ~vma'[o] /\ ~dmabuf'[o]
               /\ \A u \in Thread : Making(u, o)' => u = t
               /\ \A u \in Thread : ~Mapping(u, o)'
               /\ th'[t].pc = "map" => obj'[o].range # NoRange
    BY <1>1, <1>7, <2>1, <2>3 DEF ObjectOK, MakeOK
  <2>4. ASSUME NEW t \in Thread, Making(t, o), th[t].pc \in {"node", "map"}
        PROVE  /\ obj'[o].map = "INITIALIZING"
               /\ \A k \in 1 .. Len(ring') : ~(ring'[k].op = "MAP" /\ ring'[k].o = o)
               /\ \A k \in 1 .. Len(answered') : ~(answered'[k].op = "MAP" /\ answered'[k].o = o)
    <3>1. /\ obj[o].map = "INITIALIZING"
          /\ \A k \in 1 .. Len(ring) : ~(ring[k].op = "MAP" /\ ring[k].o = o)
          /\ \A k \in 1 .. Len(answered) : ~(answered[k].op = "MAP" /\ answered[k].o = o)
      BY <1>1, <2>4 DEF ObjectOK, MakeOK
    <3>2. c.op # "MAP"
      BY <1>3, <3>1 DEF Holding
    <3> QED BY <2>1, <2>2, <3>1, <3>2
  <2>5. MakeOK(o)'
    <3>1. \A t, u \in Thread : Mapping(t, o)' /\ Mapping(u, o)' => t = u
      BY <1>1, <1>7 DEF ObjectOK, MakeOK
    <3>2. \A t \in Thread : Mapping(t, o)' => ~vma'[o]
      BY <1>1, <1>7 DEF ObjectOK, MakeOK
    <3> QED BY <1>7, <2>3, <2>4, <3>1, <3>2 DEF MakeOK
  <2>6. BackOK(o)'
    <3>1. \A k \in 1 .. Len(ring') : ring'[k].op = "MAP" /\ ring'[k].o = o => obj'[o].range # NoRange
      BY <1>1, <2>1 DEF ObjectOK, BackOK
    <3>2. \A k \in 1 .. Len(answered') : answered'[k].op = "MAP" /\ answered'[k].o = o =>
            /\ obj'[o].range # NoRange
            /\ answered'[k].n = 1 => hostMap'[obj'[o].range] = o
      BY <1>1, <2>1, <2>2 DEF ObjectOK, BackOK
    <3>3. c.op = "MAP" => /\ obj[o].range # NoRange
                          /\ c.n = 1 => hostMap[obj[o].range] = o
      BY <1>1, <1>3 DEF ObjectOK, BackOK, Holding
    <3>4. (obj[o].map = "OK" \/ vma[o]) => obj[o].range # NoRange /\ hostMap[obj[o].range] = o
      BY <1>1, <1>4 DEF ObjectOK, BackOK
    <3>5. (obj'[o].map = "OK" \/ vma'[o]) => obj'[o].range # NoRange /\ hostMap'[obj'[o].range] = o
      BY <2>1, <3>3, <3>4
    <3> QED BY <3>1, <3>2, <3>5 DEF BackOK
  <2> QED BY <2>5, <2>6
<1>10. ObjectOK(o)'
  BY <1>1, <1>4, <1>5, <1>8, <1>9, DropSelf
<1>11. ASSUME NEW p \in Obj, p # o
       PROVE  RingSame(p) /\ AnswersSame(p) /\ ThingSame(p) /\ ThreadsSame(p)
  <2>1. obj'[p] = obj[p] /\ refs'[p] = refs[p] /\ RingSame(p)
    BY <1>11, DropOthers
  <2>2. ~Holding(c, p)
    BY <1>11 DEF Holding
  <2>3. AnswersSame(p)
    BY <2>2, AnswersTail
  <2>4. ThreadsSame(p)
    BY DEF ThreadsSame
  <2> QED BY <2>1, <2>3, <2>4 DEF ThingSame
<1> QED BY <1>10, <1>11, ObjectBut

LEMMA ObjectDequeue ==
  ASSUME TypeInv, TypeInv', device = "plugged", ObjectInv, Dequeue
  PROVE  ObjectInv'
<1>0. /\ obj \in [Obj -> Objects] /\ ring \in Seq(Commands) /\ answered \in Seq(Commands)
  BY DEF TypeInv
<1>1. PICK c : c = Head(answered)
  OBVIOUS
<1>2. /\ answered # <<>> /\ c \in Commands /\ answered' = Tail(answered) /\ c = answered[1]
      /\ c.op \in OfObj => c.o \in Obj
      /\ \/ c.op = "MAP" /\ Drop(c.o, 1, MapAnswer(c.o, c.n))
         \/ c.op = "UUID" /\ Drop(c.o, 1, UuidAnswer(c.o, c.n))
         \/ c.op = "UNREF" /\ obj' = [obj EXCEPT ![c.o] = Fresh] /\ UNCHANGED <<refs, ring>>
         \/ c.op \notin {"MAP", "UUID", "UNREF"} /\ UNCHANGED <<obj, refs, ring>>
  BY <1>1, DequeueCases
<1>3. UNCHANGED <<handle, dmabuf, vma, th, hostMap>>
  BY DEF Dequeue
<1>4. \A p : ThreadsSame(p)
  BY <1>3 DEF ThreadsSame
<1>5. CASE c.op = "MAP" /\ Drop(c.o, 1, MapAnswer(c.o, c.n))
  <2>1. PICK o \in Obj : o = c.o
    BY <1>2, <1>5 DEF OfObj
  <2>2. PICK m \in {"OK", "ERR"} : m = IF c.n = 1 THEN "OK" ELSE "ERR"
    OBVIOUS
  <2>3. PICK state \in [Obj -> Objects] : state = [obj EXCEPT ![o].map = m]
    BY <1>0, <2>2, ObjectFields
  <2>4. /\ \A p \in Obj : p # o => state[p] = obj[p]
        /\ state[o].kind = obj[o].kind /\ state[o].range = obj[o].range /\ state[o].map = m
    <3>1. state[o] = [obj[o] EXCEPT !.map = m] /\ obj[o] \in Objects
      BY <1>0, <2>3
    <3>2. \A p \in Obj : p # o => state[p] = obj[p]
      BY <1>0, <2>3
    <3> QED BY <3>1, <3>2 DEF Objects
  <2>5. Drop(o, 1, state)
    BY <1>5, <2>1, <2>2, <2>3 DEF MapAnswer
  <2>6. c.n = 1 \/ state[o].map # "OK"
    BY <2>2, <2>4
  <2>7. Holding(c, o)
    BY <1>5, <2>1 DEF Holding
  <2> QED BY <1>1, <1>2, <1>3, <1>5, <2>4, <2>5, <2>6, <2>7, AnswerDrops
<1>6. CASE c.op = "UUID" /\ Drop(c.o, 1, UuidAnswer(c.o, c.n))
  <2>1. PICK o \in Obj : o = c.o
    BY <1>2, <1>6 DEF OfObj
  <2>2. PICK m \in {"OK", "ERR"} :
          m = IF c.n = 1 /\ obj[o].uuid = "INITIALIZING" THEN "OK" ELSE "ERR"
    OBVIOUS
  <2>3. PICK state \in [Obj -> Objects] : state = [obj EXCEPT ![o].uuid = m]
    BY <1>0, <2>2, ObjectFields
  <2>4. /\ \A p \in Obj : p # o => state[p] = obj[p]
        /\ state[o].kind = obj[o].kind /\ state[o].range = obj[o].range
        /\ state[o].map = obj[o].map
    <3>1. state[o] = [obj[o] EXCEPT !.uuid = m] /\ obj[o] \in Objects
      BY <1>0, <2>3
    <3>2. \A p \in Obj : p # o => state[p] = obj[p]
      BY <1>0, <2>3
    <3> QED BY <3>1, <3>2 DEF Objects
  <2>5. Drop(o, 1, state)
    <3>1. state = UuidAnswer(o, c.n)
      BY <2>2, <2>3 DEF UuidAnswer
    <3> QED BY <1>6, <2>1, <3>1
  <2>6. Holding(c, o)
    BY <1>6, <2>1 DEF Holding
  <2> QED BY <1>1, <1>2, <1>3, <1>6, <2>4, <2>5, <2>6, AnswerDrops
<1>7. CASE c.op = "UNREF" /\ obj' = [obj EXCEPT ![c.o] = Fresh] /\ UNCHANGED <<refs, ring>>
  <2>1. PICK o \in Obj : o = c.o
    BY <1>2, <1>7 DEF OfObj
  <2>2. /\ Len(answered) \in Nat /\ Len(answered) >= 1 /\ Len(answered') = Len(answered) - 1
        /\ \A k \in 1 .. Len(answered) - 1 : answered'[k] = answered[k + 1]
    BY <1>0, <1>2, TailFacts
  <2>3. 1 \in 1 .. Len(answered) /\ Ending(answered[1], o) /\ ObjectOK(o)
    BY <1>2, <1>7, <2>1, <2>2 DEF Ending, ObjectInv
  <2>4. /\ obj[o].kind = "dying" /\ \A j \in 1 .. Len(ring) : ~Ending(ring[j], o)
        /\ \A j \in 1 .. Len(answered) : Ending(answered[j], o) => j = 1
    BY <2>3 DEF ObjectOK, EndOK
  <2>5. ~Live(o)
    BY <2>4 DEF Live
  <2>6. /\ ~handle[o] /\ ~vma[o] /\ ~dmabuf[o]
        /\ \A t \in Thread : ~Making(t, o) /\ ~Mapping(t, o)
        /\ \A k \in 1 .. Len(ring) : ~Holding(ring[k], o)
        /\ \A k \in 1 .. Len(answered) : ~Holding(answered[k], o)
    BY <2>3, <2>5 DEF ObjectOK, GoneOK
  <2>7. \A k \in 1 .. Len(answered') : k + 1 \in 1 .. Len(answered) /\ answered'[k] = answered[k + 1] /\ k + 1 # 1
    BY <2>2
  <2>8. obj'[o] = Fresh /\ ~Live(o)' /\ obj'[o].kind = "none"
    BY <1>0, <1>7, <2>1 DEF Live, Fresh
  <2>9. /\ \A t \in Thread : ~Making(t, o)' /\ ~Mapping(t, o)'
        /\ ~handle'[o] /\ ~vma'[o] /\ ~dmabuf'[o]
    BY <1>3, <2>6 DEF Making, Mapping
  <2>10. /\ \A k \in 1 .. Len(ring') : ~Holding(ring[k], o)' /\ ~Ending(ring[k], o)'
         /\ \A k \in 1 .. Len(answered') : ~Holding(answered[k], o)' /\ ~Ending(answered[k], o)'
    <3>1. /\ \A k \in 1 .. Len(ring') : ~Holding(ring'[k], o) /\ ~Ending(ring'[k], o)
          /\ \A k \in 1 .. Len(answered') : ~Holding(answered'[k], o) /\ ~Ending(answered'[k], o)
      BY <1>7, <2>4, <2>6, <2>7
    <3> QED BY <3>1 DEF Holding, Ending
  <2>11. RefOK(o)' /\ GoneOK(o)' /\ MakeOK(o)'
    BY <2>8, <2>9, <2>10 DEF RefOK, GoneOK, MakeOK, Live, Fresh
  <2>12. EndOK(o)'
    BY <2>10 DEF EndOK
  <2>13. BackOK(o)'
    BY <2>8, <2>10 DEF BackOK, Holding
  <2>14. ObjectOK(o)'
    BY <2>11, <2>12, <2>13 DEF ObjectOK
  <2>15. ASSUME NEW p \in Obj, p # o
         PROVE  RingSame(p) /\ AnswersSame(p) /\ ThingSame(p) /\ ThreadsSame(p)
    <3>1. ThingSame(p)
      BY <1>0, <1>3, <1>7, <2>1, <2>15 DEF ThingSame
    <3>2. ~Holding(c, p)
      BY <1>7 DEF Holding
    <3> QED BY <1>1, <1>2, <1>4, <1>7, <3>1, <3>2, RingStays, AnswersTail
  <2> QED BY <1>3, <2>14, <2>15, ObjectBut
<1>8. CASE c.op \notin {"MAP", "UUID", "UNREF"} /\ UNCHANGED <<obj, refs, ring>>
  <2>1. ASSUME NEW p \in Obj PROVE ObjectOK(p)'
    <3>1. ~Holding(c, p)
      BY <1>8 DEF Holding
    <3>2. ThingSame(p)
      BY <1>3, <1>8 DEF ThingSame
    <3>3. RingSame(p) /\ AnswersSame(p)
      BY <1>1, <1>2, <1>8, <3>1, RingStays, AnswersTail
    <3> QED BY <1>3, <1>4, <3>2, <3>3, ObjectKept DEF ObjectInv
  <2> QED BY <2>1 DEF ObjectInv
<1> QED BY <1>2, <1>5, <1>6, <1>7, <1>8

(* What the host's step does to the queues and to its map, whichever       *)
(* command it read.                                                        *)
LEMMA HostFacts ==
  ASSUME TypeInv, TypeInv', HostRead, NEW c, c = Head(ring)
  PROVE  /\ c \in Commands /\ c = ring[1] /\ 1 \in 1 .. Len(ring) /\ (c.op \in OfObj => c.o \in Obj)
         /\ \A k \in 1 .. Len(ring') : k + 1 \in 1 .. Len(ring) /\ ring'[k] = ring[k + 1] /\ 1 < k + 1
         /\ \A k, j \in 1 .. Len(ring') : k < j => k + 1 < j + 1
         /\ Len(answered) \in Nat
         /\ \A k \in 1 .. Len(answered') :
              \/ k \in 1 .. Len(answered) /\ answered'[k] = answered[k]
              \/ /\ k = Len(answered) + 1 /\ answered'[k].op = c.op /\ c.op # "UNMAP"
                 /\ c.op # "CAPSET_INFO" => answered'[k].o = c.o
                 /\ c.op = "MAP" /\ answered'[k].n = 1 =>
                      hostMap' = [hostMap EXCEPT ![obj[c.o].range] = c.o]
         /\ \A p : /\ Count(ring', p) = Count(ring, p) - One(Holding(c, p))
                   /\ Count(answered', p) <= Count(answered, p) + One(Holding(c, p))
         /\ \/ hostMap' = hostMap
            \/ c.op = "MAP" /\ hostMap' = [hostMap EXCEPT ![obj[c.o].range] = c.o]
            \/ /\ c.op \in {"UNMAP", "UNREF"}
               /\ hostMap' = [r \in BarRange |-> IF hostMap[r] = c.o THEN NoObj ELSE hostMap[r]]
<1>0. ring \in Seq(Commands) /\ answered \in Seq(Commands) /\ answered' \in Seq(Commands)
  BY DEF TypeInv
<1>1. /\ ring # <<>> /\ c \in Commands /\ ring' = Tail(ring)
      /\ \/ /\ c.op = "UNMAP" /\ answered' = answered
            /\ hostMap' = [r \in BarRange |-> IF hostMap[r] = c.o THEN NoObj ELSE hostMap[r]]
         \/ c.op # "UNMAP" /\ \E a \in Commands : HostAnswers(c, a)
  BY HostCases
<1>2. /\ c = ring[1] /\ Len(ring) \in Nat /\ Len(ring) >= 1 /\ Len(ring') = Len(ring) - 1
      /\ \A k \in 1 .. Len(ring) - 1 : ring'[k] = ring[k + 1]
  BY <1>0, <1>1, TailFacts
<1>3. 1 \in 1 .. Len(ring) /\ (c.op \in OfObj => c.o \in Obj)
  BY <1>2 DEF TypeInv
<1>4. /\ \A k \in 1 .. Len(ring') : k + 1 \in 1 .. Len(ring) /\ ring'[k] = ring[k + 1] /\ 1 < k + 1
      /\ \A k, j \in 1 .. Len(ring') : k < j => k + 1 < j + 1
  BY <1>2
<1>5. \A p : Count(ring', p) = Count(ring, p) - One(Holding(c, p))
  BY <1>0, <1>1, CountTail
<1>6. Len(answered) \in Nat /\ \A p : Count(answered, p) \in Nat
  <2>1. Len(answered) \in Nat
    BY <1>0
  <2>2. ASSUME NEW p PROVE Count(answered, p) \in Nat
    BY <1>0, CountFacts
  <2> QED BY <2>1, <2>2
<1>7. CASE c.op = "UNMAP" /\ answered' = answered
           /\ hostMap' = [r \in BarRange |-> IF hostMap[r] = c.o THEN NoObj ELSE hostMap[r]]
  <2>1. \A p : Count(answered', p) <= Count(answered, p) + One(Holding(c, p))
    BY <1>6, <1>7 DEF One
  <2> QED BY <1>1, <1>2, <1>3, <1>4, <1>5, <1>6, <1>7, <2>1
<1>8. ASSUME c.op # "UNMAP", NEW a \in Commands, HostAnswers(c, a)
      PROVE  /\ \A k \in 1 .. Len(answered') :
                  \/ k \in 1 .. Len(answered) /\ answered'[k] = answered[k]
                  \/ /\ k = Len(answered) + 1 /\ answered'[k].op = c.op /\ c.op # "UNMAP"
                     /\ c.op # "CAPSET_INFO" => answered'[k].o = c.o
                     /\ c.op = "MAP" /\ answered'[k].n = 1 =>
                          hostMap' = [hostMap EXCEPT ![obj[c.o].range] = c.o]
             /\ \A p : Count(answered', p) <= Count(answered, p) + One(Holding(c, p))
             /\ \/ hostMap' = hostMap
                \/ c.op = "MAP" /\ hostMap' = [hostMap EXCEPT ![obj[c.o].range] = c.o]
                \/ /\ c.op \in {"UNMAP", "UNREF"}
                   /\ hostMap' = [r \in BarRange |-> IF hostMap[r] = c.o THEN NoObj ELSE hostMap[r]]
  <2>1. /\ a.op = c.op /\ answered' = Append(answered, a)
        /\ c.op # "CAPSET_INFO" => a.o = c.o
        /\ c.op = "MAP" => \/ a.n = 1 /\ hostMap' = [hostMap EXCEPT ![obj[c.o].range] = c.o]
                           \/ a.n = 0 /\ hostMap' = hostMap
    BY <1>8 DEF HostAnswers
  <2>2. /\ Len(answered') = Len(answered) + 1
        /\ \A k \in 1 .. Len(answered) : answered'[k] = answered[k]
        /\ answered'[Len(answered) + 1] = a
    BY <1>0, <2>1, AppendFacts
  <2>3. \A k \in 1 .. Len(answered') : k \in 1 .. Len(answered) \/ k = Len(answered) + 1
    BY <1>6, <2>2
  <2>4. \A p : One(Holding(a, p)) <= One(Holding(c, p))
    <3>1. \A p : Holding(a, p) => Holding(c, p)
      BY <2>1 DEF Holding
    <3> QED BY <3>1 DEF One
  <2>5. \A p : Count(answered', p) <= Count(answered, p) + One(Holding(c, p))
    <3> TAKE p
    <3>1. Count(answered', p) = Count(answered, p) + One(Holding(a, p))
      BY <1>0, <2>2, CountOne
    <3>2. One(Holding(a, p)) \in Nat /\ One(Holding(c, p)) \in Nat
      BY DEF One
    <3> QED BY <1>6, <2>4, <3>1, <3>2
  <2>6. \/ hostMap' = hostMap
        \/ c.op = "MAP" /\ hostMap' = [hostMap EXCEPT ![obj[c.o].range] = c.o]
        \/ /\ c.op \in {"UNMAP", "UNREF"}
           /\ hostMap' = [r \in BarRange |-> IF hostMap[r] = c.o THEN NoObj ELSE hostMap[r]]
    BY <1>8 DEF HostAnswers
  <2>7. a.n = 1 => a.n # 0
    OBVIOUS
  <2> QED BY <1>8, <2>1, <2>2, <2>3, <2>5, <2>6, <2>7
<1> QED BY <1>1, <1>2, <1>3, <1>4, <1>5, <1>6, <1>7, <1>8

LEMMA ObjectHostRead ==
  ASSUME TypeInv, TypeInv', device = "plugged", ObjectInv, RangeInv, HostRead
  PROVE  ObjectInv'
<1>0. /\ obj \in [Obj -> Objects] /\ ring \in Seq(Commands) /\ answered \in Seq(Commands)
      /\ ring' \in Seq(Commands) /\ answered' \in Seq(Commands)
      /\ refs \in [Obj -> Int] /\ hostMap \in [BarRange -> Obj \cup {NoObj}]
  BY DEF TypeInv
<1>1. UNCHANGED <<obj, refs, handle, dmabuf, vma, th>>
  BY DEF HostRead, objVars
<1>2. PICK c : c = Head(ring)
  OBVIOUS
<1>3. /\ c \in Commands /\ c = ring[1] /\ 1 \in 1 .. Len(ring) /\ (c.op \in OfObj => c.o \in Obj)
      /\ \A k \in 1 .. Len(ring') : k + 1 \in 1 .. Len(ring) /\ ring'[k] = ring[k + 1] /\ 1 < k + 1
      /\ \A k, j \in 1 .. Len(ring') : k < j => k + 1 < j + 1
      /\ Len(answered) \in Nat
      /\ \A k \in 1 .. Len(answered') :
           \/ k \in 1 .. Len(answered) /\ answered'[k] = answered[k]
           \/ /\ k = Len(answered) + 1 /\ answered'[k].op = c.op /\ c.op # "UNMAP"
              /\ c.op # "CAPSET_INFO" => answered'[k].o = c.o
              /\ c.op = "MAP" /\ answered'[k].n = 1 =>
                   hostMap' = [hostMap EXCEPT ![obj[c.o].range] = c.o]
      /\ \A p : /\ Count(ring', p) = Count(ring, p) - One(Holding(c, p))
                /\ Count(answered', p) <= Count(answered, p) + One(Holding(c, p))
      /\ \/ hostMap' = hostMap
         \/ c.op = "MAP" /\ hostMap' = [hostMap EXCEPT ![obj[c.o].range] = c.o]
         \/ /\ c.op \in {"UNMAP", "UNREF"}
            /\ hostMap' = [r \in BarRange |-> IF hostMap[r] = c.o THEN NoObj ELSE hostMap[r]]
  BY <1>2, HostFacts
<1> SUFFICES ASSUME NEW p \in Obj PROVE ObjectOK(p)'
  BY DEF ObjectInv
<1>4. ObjectOK(p)
  BY DEF ObjectInv
<1>5. ThreadsSame(p)
  BY <1>1 DEF ThreadsSame
<1>6. /\ \A t \in Thread : Making(t, p)' <=> Making(t, p)
      /\ \A t \in Thread : Mapping(t, p)' <=> Mapping(t, p)
      /\ Uses(p)' = Uses(p)
  BY <1>1, <1>5, UsesKept
<1>7. Live(p)' <=> Live(p)
  BY <1>1 DEF Live
<1>8. \A k \in 1 .. Len(answered') : About(answered'[k], p) =>
         \/ k \in 1 .. Len(answered) /\ answered'[k] = answered[k]
         \/ /\ k = Len(answered) + 1 /\ answered'[k].op = c.op /\ answered'[k].o = c.o /\ c.op # "UNMAP"
            /\ c.op = "MAP" /\ answered'[k].n = 1 =>
                 hostMap' = [hostMap EXCEPT ![obj[c.o].range] = c.o]
  BY <1>3 DEF About, OfObj
<1>9. RefOK(p)'
  <2>1. /\ Count(ring, p) \in Nat /\ Count(answered, p) \in Nat
        /\ Count(ring', p) \in Nat /\ Count(answered', p) \in Nat /\ Uses(p) \in Nat
    BY <1>0, CountFacts, UsesFacts
  <2>2. Count(ring, p)' = Count(ring', p) /\ Count(answered, p)' = Count(answered', p)
    BY DEF Count, Holding
  <2>3. /\ Count(ring', p) = Count(ring, p) - One(Holding(c, p))
        /\ Count(answered', p) <= Count(answered, p) + One(Holding(c, p))
    BY <1>3
  <2>4. One(Holding(c, p)) \in Nat /\ refs[p] \in Int
    BY <1>0 DEF One
  <2>5. \A r \in Int : \A u, x, y, z, w, i \in Nat :
          r >= u + x + y /\ z = x - i /\ w <= y + i => r >= u + z + w
    OBVIOUS
  <2>6. Live(p) => refs[p] >= Uses(p) + Count(ring', p) + Count(answered', p)
    BY <1>4, <2>1, <2>3, <2>4, <2>5 DEF ObjectOK, RefOK
  <2> QED BY <1>1, <1>6, <1>7, <2>2, <2>6 DEF RefOK
<1>10. /\ \A k \in 1 .. Len(ring') : Holding(ring'[k], p) => \E j \in 1 .. Len(ring) : Holding(ring[j], p)
       /\ \A k \in 1 .. Len(answered') : Holding(answered'[k], p) =>
            \/ \E j \in 1 .. Len(ring) : Holding(ring[j], p)
            \/ \E j \in 1 .. Len(answered) : Holding(answered[j], p)
  <2>1. \A k \in 1 .. Len(ring') : Holding(ring'[k], p) => \E j \in 1 .. Len(ring) : Holding(ring[j], p)
    BY <1>3
  <2>2. ASSUME NEW k \in 1 .. Len(answered'), Holding(answered'[k], p)
        PROVE  \/ \E j \in 1 .. Len(ring) : Holding(ring[j], p)
               \/ \E j \in 1 .. Len(answered) : Holding(answered[j], p)
    <3>1. CASE k \in 1 .. Len(answered) /\ answered'[k] = answered[k]
      BY <2>2, <3>1
    <3>2. CASE answered'[k].op = c.op /\ answered'[k].o = c.o
      <4>1. Holding(ring[1], p)
        BY <1>3, <2>2, <3>2 DEF Holding
      <4> QED BY <1>3, <4>1
    <3> QED BY <1>8, <2>2, <3>1, <3>2, AboutFacts
  <2> QED BY <2>1, <2>2
<1>11. GoneOK(p)'
  <2>1. obj'[p].kind = "none" => obj'[p] = Fresh
    BY <1>1, <1>4 DEF ObjectOK, GoneOK
  <2>2. ASSUME ~Live(p)
        PROVE  /\ ~handle'[p] /\ ~vma'[p] /\ ~dmabuf'[p]
               /\ \A t \in Thread : ~Making(t, p)' /\ ~Mapping(t, p)'
               /\ \A k \in 1 .. Len(ring') : ~Holding(ring'[k], p)
               /\ \A k \in 1 .. Len(answered') : ~Holding(answered'[k], p)
    BY <1>1, <1>4, <1>6, <1>10, <2>2 DEF ObjectOK, GoneOK
  <2>3. ~Live(p)' => /\ \A k \in 1 .. Len(ring') : ~Holding(ring[k], p)'
                     /\ \A k \in 1 .. Len(answered') : ~Holding(answered[k], p)'
    BY <1>7, <2>2 DEF Holding
  <2> QED BY <1>7, <2>1, <2>2, <2>3 DEF GoneOK, Fresh
<1>12. MakeOK(p)'
  <2>1. ASSUME NEW t \in Thread, Making(t, p), th[t].pc \in {"node", "map"}
        PROVE  /\ obj'[p].map = "INITIALIZING"
               /\ \A k \in 1 .. Len(ring') : ~(ring'[k].op = "MAP" /\ ring'[k].o = p)
               /\ \A k \in 1 .. Len(answered') : ~(answered'[k].op = "MAP" /\ answered'[k].o = p)
    <3>1. /\ obj[p].map = "INITIALIZING"
          /\ \A k \in 1 .. Len(ring) : ~(ring[k].op = "MAP" /\ ring[k].o = p)
          /\ \A k \in 1 .. Len(answered) : ~(answered[k].op = "MAP" /\ answered[k].o = p)
      BY <1>4, <2>1 DEF ObjectOK, MakeOK
    <3>2. ~(c.op = "MAP" /\ c.o = p)
      BY <1>3, <3>1
    <3> QED BY <1>1, <1>3, <1>8, <3>1, <3>2, AboutFacts
  <2>2. ASSUME NEW t \in Thread, Making(t, p)
        PROVE  /\ ~handle'[p] /\ ~vma'[p] /\ ~dmabuf'[p]
               /\ \A u \in Thread : Making(u, p)' => u = t
               /\ \A u \in Thread : ~Mapping(u, p)'
               /\ th'[t].pc = "map" => obj'[p].range # NoRange
    BY <1>1, <1>4, <1>6, <2>2 DEF ObjectOK, MakeOK
  <2>3. \A t, u \in Thread : Mapping(t, p)' /\ Mapping(u, p)' => t = u
    BY <1>4, <1>6 DEF ObjectOK, MakeOK
  <2>4. \A t \in Thread : Mapping(t, p)' => ~vma'[p]
    BY <1>1, <1>4, <1>6 DEF ObjectOK, MakeOK
  <2>5. th' = th
    BY <1>1
  <2> QED BY <1>6, <2>1, <2>2, <2>3, <2>4, <2>5 DEF MakeOK
<1>13. EndOK(p)'
  <2>0. /\ \A k \in 1 .. Len(ring) : Ending(ring[k], p) => obj[p].kind = "dying"
        /\ \A k \in 1 .. Len(answered) : Ending(answered[k], p) => obj[p].kind = "dying"
        /\ \A k, j \in 1 .. Len(ring) :
             k < j /\ ring[k].op = "UNREF" /\ ring[k].o = p => ~Ending(ring[j], p)
        /\ \A k \in 1 .. Len(answered) : Ending(answered[k], p) =>
             /\ \A j \in 1 .. Len(ring) : ~Ending(ring[j], p)
             /\ \A j \in 1 .. Len(answered) : Ending(answered[j], p) => j = k
    BY <1>4 DEF ObjectOK, EndOK
  <2>1. \A k \in 1 .. Len(ring') : Ending(ring'[k], p) => obj'[p].kind = "dying"
    BY <1>1, <1>3, <2>0
  <2>2. \A k, j \in 1 .. Len(ring') :
          k < j /\ ring'[k].op = "UNREF" /\ ring'[k].o = p => ~Ending(ring'[j], p)
    BY <1>3, <2>0
  <2>3. ASSUME NEW k \in 1 .. Len(answered'), Ending(answered'[k], p)
        PROVE  /\ obj'[p].kind = "dying"
               /\ \A j \in 1 .. Len(ring') : ~Ending(ring'[j], p)
               /\ \A j \in 1 .. Len(answered') : Ending(answered'[j], p) => j = k
    <3>0. \A j \in 1 .. Len(answered') : Ending(answered'[j], p) =>
            \/ j \in 1 .. Len(answered) /\ answered'[j] = answered[j]
            \/ j = Len(answered) + 1 /\ c.op = "UNREF" /\ c.o = p /\ Ending(c, p)
      BY <1>8, AboutFacts DEF Ending
    <3>1. CASE k \in 1 .. Len(answered) /\ answered'[k] = answered[k]
      <4>1. \A j \in 1 .. Len(ring) : ~Ending(ring[j], p)
        BY <2>0, <2>3, <3>1
      <4>2. ~Ending(c, p)
        BY <1>3, <4>1
      <4>3. \A j \in 1 .. Len(answered') : Ending(answered'[j], p) => j = k
        BY <2>0, <2>3, <3>0, <3>1, <4>2
      <4> QED BY <1>1, <1>3, <2>0, <2>3, <3>1, <4>1, <4>3
    <3>2. CASE k = Len(answered) + 1 /\ c.op = "UNREF" /\ c.o = p /\ Ending(c, p)
      <4>1. \A j \in 1 .. Len(answered) : ~Ending(answered[j], p)
        BY <1>3, <2>0, <3>2
      <4>2. \A j \in 1 .. Len(answered') : Ending(answered'[j], p) => j = k
        BY <3>0, <3>2, <4>1
      <4>3. \A j \in 1 .. Len(ring') : ~Ending(ring'[j], p)
        BY <1>3, <2>0, <3>2
      <4>4. obj[p].kind = "dying"
        BY <1>3, <2>0, <3>2
      <4> QED BY <1>1, <4>2, <4>3, <4>4
    <3> QED BY <2>3, <3>0, <3>1, <3>2
  <2>4. /\ \A k \in 1 .. Len(ring') : Ending(ring[k], p)' <=> Ending(ring'[k], p)
        /\ \A k \in 1 .. Len(answered') : Ending(answered[k], p)' <=> Ending(answered'[k], p)
    BY DEF Ending
  <2> QED BY <2>1, <2>2, <2>3, <2>4 DEF EndOK
<1>14. BackOK(p)'
  <2>0. /\ \A k \in 1 .. Len(ring) :
             ring[k].op = "MAP" /\ ring[k].o = p => obj[p].range # NoRange
        /\ \A k \in 1 .. Len(answered) :
             answered[k].op = "MAP" /\ answered[k].o = p =>
               /\ obj[p].range # NoRange
               /\ answered[k].n = 1 => hostMap[obj[p].range] = p
        /\ Live(p) /\ (obj[p].map = "OK" \/ vma[p]) =>
             obj[p].range # NoRange /\ hostMap[obj[p].range] = p
    BY <1>4 DEF ObjectOK, BackOK
  <2>1. ASSUME Live(p), obj[p].range # NoRange, hostMap[obj[p].range] = p
        PROVE  hostMap'[obj[p].range] = p
    <3>1. obj[p].range \in BarRange
      BY <1>0, <2>1 DEF Objects
    <3>2. CASE hostMap' = hostMap
      BY <2>1, <3>2
    <3>3. CASE c.op = "MAP" /\ hostMap' = [hostMap EXCEPT ![obj[c.o].range] = c.o]
      <4>1. PICK o \in Obj : o = c.o
        BY <1>3, <3>3 DEF OfObj
      <4>2. CASE o = p
        BY <1>0, <3>1, <3>3, <4>1, <4>2
      <4>3. CASE o # p
        <5>1. ObjectOK(o)
          BY DEF ObjectInv
        <5>2. obj[o].range # NoRange
          BY <1>3, <3>3, <4>1, <5>1 DEF ObjectOK, BackOK
        <5>3. obj[o].range # obj[p].range
          BY <4>3, <5>2 DEF RangeInv
        <5> QED BY <1>0, <2>1, <3>1, <3>3, <4>1, <5>3
      <4> QED BY <4>2, <4>3
    <3>4. CASE /\ c.op \in {"UNMAP", "UNREF"}
               /\ hostMap' = [r \in BarRange |-> IF hostMap[r] = c.o THEN NoObj ELSE hostMap[r]]
      <4>1. c.o # p
        BY <1>3, <1>4, <2>1, <3>4, LiveFacts DEF Ending
      <4> QED BY <2>1, <3>1, <3>4, <4>1
    <3> QED BY <1>3, <3>2, <3>3, <3>4
  <2>2. \A k \in 1 .. Len(ring') : ring'[k].op = "MAP" /\ ring'[k].o = p => obj'[p].range # NoRange
    BY <1>1, <1>3, <2>0
  <2>3. ASSUME NEW k \in 1 .. Len(answered'), answered'[k].op = "MAP", answered'[k].o = p
        PROVE  /\ obj'[p].range # NoRange
               /\ answered'[k].n = 1 => hostMap'[obj'[p].range] = p
    <3>0. About(answered'[k], p) /\ Holding(answered'[k], p)
      BY <2>3, AboutFacts
    <3>1. CASE k \in 1 .. Len(answered) /\ answered'[k] = answered[k]
      <4>1. Live(p)
        BY <1>4, <3>0, <3>1, LiveFacts
      <4> QED BY <1>1, <2>0, <2>1, <2>3, <3>1, <4>1
    <3>2. CASE /\ answered'[k].op = c.op /\ answered'[k].o = c.o
               /\ c.op = "MAP" /\ answered'[k].n = 1 =>
                    hostMap' = [hostMap EXCEPT ![obj[c.o].range] = c.o]
      <4>1. c.op = "MAP" /\ c.o = p
        BY <2>3, <3>2
      <4>2. obj[p].range # NoRange
        BY <1>3, <2>0, <4>1
      <4>3. obj[p].range \in BarRange
        BY <1>0, <4>2 DEF Objects
      <4> QED BY <1>0, <1>1, <3>2, <4>1, <4>2, <4>3
    <3> QED BY <1>8, <3>0, <3>1, <3>2
  <2>4. Live(p)' /\ (obj'[p].map = "OK" \/ vma'[p]) =>
          obj'[p].range # NoRange /\ hostMap'[obj'[p].range] = p
    BY <1>1, <1>7, <2>0, <2>1
  <2> QED BY <2>2, <2>3, <2>4 DEF BackOK
<1> QED BY <1>9, <1>11, <1>12, <1>13, <1>14 DEF ObjectOK

(* A node is given a range no other has, and only loses it again.          *)
LEMMA RangeKept ==
  ASSUME RangeInv, \A o \in Obj : obj'[o].range = obj[o].range \/ obj'[o].range = NoRange
  PROVE  RangeInv'
  BY DEF RangeInv

LEMMA RangeDrop ==
  ASSUME TypeInv, NEW o \in Obj, NEW state \in [Obj -> Objects], Drop(o, 1, state),
         \A p \in Obj : state[p].range = obj[p].range \/ state[p].range = NoRange
  PROVE  \A p \in Obj : obj'[p].range = obj[p].range \/ obj'[p].range = NoRange
<1>1. \/ obj' = state
      \/ obj' = [state EXCEPT ![o] = IF device = "plugged" THEN [@ EXCEPT !.kind = "dying"] ELSE Fresh]
  BY DEF Drop
<1> SUFFICES ASSUME NEW p \in Obj
             PROVE  obj'[p].range = state[p].range \/ obj'[p].range = NoRange
  OBVIOUS
<1>2. state[p] \in Objects
  OBVIOUS
<1>3. \/ obj'[p] = state[p] \/ obj'[p] = [state[p] EXCEPT !.kind = "dying"] \/ obj'[p] = Fresh
  BY <1>1
<1> QED BY <1>2, <1>3 DEF Objects, Fresh

LEMMA RangeStep ==
  ASSUME TypeInv, RangeInv, [Next]_vars
  PROVE  RangeInv'
<1>0. obj \in [Obj -> Objects]
  BY DEF TypeInv
<1>1. CASE obj' = obj
  BY <1>1 DEF RangeInv
<1>2. ASSUME NEW t \in Thread, CreateObj(t) PROVE RangeInv'
  <2>1. PICK o \in Obj : o = CHOOSE p \in Obj : obj[p].kind = "none"
    BY <1>2 DEF CreateObj
  <2>2. PICK k : obj' = [obj EXCEPT ![o].kind = k]
    BY <1>2, <2>1 DEF CreateObj
  <2>3. ASSUME NEW p \in Obj PROVE obj'[p].range = obj[p].range
    <3>1. obj'[p] = obj[p] \/ obj'[p] = [obj[p] EXCEPT !.kind = k]
      BY <1>0, <2>2
    <3>2. obj[p] \in Objects
      BY <1>0
    <3> QED BY <3>1, <3>2 DEF Objects
  <2> QED BY <2>3, RangeKept
<1>3. ASSUME NEW t \in Thread, InsertNode(t) PROVE RangeInv'
  <2>1. PICK o \in Obj : o = th[t].o
    BY <1>3 DEF InsertNode, TypeInv, ObjectPc
  <2>2. CASE Drop(o, 1, obj)
    BY <1>0, <2>2, RangeDrop, RangeKept
  <2>3. ASSUME NEW r \in BarRange, \A p \in Obj : obj[p].range # r, obj' = [obj EXCEPT ![o].range = r]
        PROVE  RangeInv'
    <3>1. obj'[o].range = r /\ \A p \in Obj : p # o => obj'[p] = obj[p]
      <4>1. obj'[o] = [obj[o] EXCEPT !.range = r] /\ obj[o] \in Objects
        BY <1>0, <2>3
      <4>2. \A p \in Obj : p # o => obj'[p] = obj[p]
        BY <1>0, <2>3
      <4> QED BY <4>1, <4>2 DEF Objects
    <3> QED BY <2>3, <3>1 DEF RangeInv
  <2> QED BY <1>3, <2>1, <2>2, <2>3 DEF InsertNode
<1>4. ASSUME NEW t \in Thread, SendMap(t) PROVE RangeInv'
  <2>1. PICK o \in Obj : o = th[t].o
    BY <1>4 DEF SendMap, TypeInv, ObjectPc
  <2>2. PICK state \in [Obj -> Objects] : state = [obj EXCEPT ![o].range = NoRange]
    BY <1>0, ObjectFields
  <2>3. ASSUME NEW p \in Obj PROVE state[p].range = obj[p].range \/ state[p].range = NoRange
    <3>1. state[p] = obj[p] \/ state[p] = [obj[p] EXCEPT !.range = NoRange]
      BY <1>0, <2>2
    <3>2. obj[p] \in Objects
      BY <1>0
    <3> QED BY <3>1, <3>2 DEF Objects
  <2>4. obj' = obj \/ Drop(o, 1, state)
    BY <1>4, <2>1, <2>2 DEF SendMap
  <2> QED BY <1>1, <2>3, <2>4, RangeDrop, RangeKept
<1>5. ASSUME NEW o \in Obj, NEW u, NEW state, state = [obj EXCEPT ![o].uuid = u], u \in {"INITIALIZING", "OK", "ERR"}
      PROVE  /\ state \in [Obj -> Objects]
             /\ \A p \in Obj : state[p].range = obj[p].range \/ state[p].range = NoRange
  <2>1. state \in [Obj -> Objects]
    BY <1>0, <1>5, ObjectFields
  <2>2. ASSUME NEW p \in Obj PROVE state[p].range = obj[p].range
    <3>1. state[p] = obj[p] \/ state[p] = [obj[p] EXCEPT !.uuid = u]
      BY <1>0, <1>5
    <3>2. obj[p] \in Objects
      BY <1>0
    <3> QED BY <3>1, <3>2 DEF Objects
  <2> QED BY <2>1, <2>2
<1>6. ASSUME NEW t \in Thread, CreateHandle(t) PROVE RangeInv'
  <2>1. PICK o \in Obj : o = th[t].o
    BY <1>6 DEF CreateHandle, TypeInv, ObjectPc
  <2>2. PICK state : state = [obj EXCEPT ![o].uuid = "ERR"]
    OBVIOUS
  <2>3. obj' = obj \/ Drop(o, 1, state)
    BY <1>6, <2>1, <2>2 DEF CreateHandle
  <2>4. /\ state \in [Obj -> Objects]
        /\ \A p \in Obj : state[p].range = obj[p].range \/ state[p].range = NoRange
    BY <1>5, <2>2
  <2> QED BY <1>1, <2>3, <2>4, RangeDrop, RangeKept
<1>7. ASSUME NEW o \in Obj, CloseRef(o) PROVE RangeInv'
  <2>1. Drop(o, 1, obj)
    BY <1>7 DEF CloseRef
  <2> QED BY <1>0, <2>1, RangeDrop, RangeKept
<1>8. ASSUME NEW t \in Thread, MmapDone(t) PROVE RangeInv'
  <2>1. PICK o \in Obj : o = th[t].o
    BY <1>8 DEF MmapDone, TypeInv, ObjectPc
  <2>2. obj' = obj \/ Drop(o, 1, obj)
    BY <1>8, <2>1 DEF MmapDone
  <2> QED BY <1>0, <1>1, <2>2, RangeDrop, RangeKept
<1>9. ASSUME NEW t \in Thread, Export(t) PROVE RangeInv'
  <2>1. PICK o \in Obj : \/ obj' = [obj EXCEPT ![o].uuid = IF obj[o].kind = "blob" THEN "ERR" ELSE @]
                         \/ obj' = [obj EXCEPT ![o].uuid = "ERR"]
    BY <1>9 DEF Export
  <2>2. obj[o].uuid \in {"INITIALIZING", "OK", "ERR"}
    BY <1>0 DEF Objects
  <2>3. PICK u \in {"INITIALIZING", "OK", "ERR"} : obj' = [obj EXCEPT ![o].uuid = u]
    BY <2>1, <2>2
  <2> QED BY <1>5, <2>3, RangeKept
<1>10. CASE Dequeue
  <2>1. PICK c : c = Head(answered)
    OBVIOUS
  <2>2. /\ c \in Commands /\ (c.op \in OfObj => c.o \in Obj)
        /\ \/ c.op = "MAP" /\ Drop(c.o, 1, MapAnswer(c.o, c.n))
           \/ c.op = "UUID" /\ Drop(c.o, 1, UuidAnswer(c.o, c.n))
           \/ c.op = "UNREF" /\ obj' = [obj EXCEPT ![c.o] = Fresh] /\ UNCHANGED <<refs, ring>>
           \/ c.op \notin {"MAP", "UUID", "UNREF"} /\ UNCHANGED <<obj, refs, ring>>
    BY <1>10, <2>1, DequeueCases
  <2>3. CASE c.op = "MAP" /\ Drop(c.o, 1, MapAnswer(c.o, c.n))
    <3>1. PICK o \in Obj : o = c.o
      BY <2>2, <2>3 DEF OfObj
    <3>2. PICK m \in {"OK", "ERR"} : m = IF c.n = 1 THEN "OK" ELSE "ERR"
      OBVIOUS
    <3>3. PICK state \in [Obj -> Objects] : state = [obj EXCEPT ![o].map = m]
      BY <1>0, <3>2, ObjectFields
    <3>4. ASSUME NEW p \in Obj PROVE state[p].range = obj[p].range
      <4>1. state[p] = obj[p] \/ state[p] = [obj[p] EXCEPT !.map = m]
        BY <1>0, <3>3
      <4>2. obj[p] \in Objects
        BY <1>0
      <4> QED BY <4>1, <4>2 DEF Objects
    <3>5. Drop(o, 1, state)
      BY <2>3, <3>1, <3>2, <3>3 DEF MapAnswer
    <3> QED BY <3>4, <3>5, RangeDrop, RangeKept
  <2>4. CASE c.op = "UUID" /\ Drop(c.o, 1, UuidAnswer(c.o, c.n))
    <3>1. PICK o \in Obj : o = c.o
      BY <2>2, <2>4 DEF OfObj
    <3>2. PICK m \in {"INITIALIZING", "OK", "ERR"} :
            m = IF c.n = 1 /\ obj[o].uuid = "INITIALIZING" THEN "OK" ELSE "ERR"
      OBVIOUS
    <3>3. PICK state : state = [obj EXCEPT ![o].uuid = m]
      OBVIOUS
    <3>4. /\ state \in [Obj -> Objects]
          /\ \A p \in Obj : state[p].range = obj[p].range \/ state[p].range = NoRange
      BY <1>5, <3>3
    <3>5. state = UuidAnswer(o, c.n)
      BY <3>2, <3>3 DEF UuidAnswer
    <3>6. Drop(o, 1, state)
      BY <2>4, <3>1, <3>5
    <3> QED BY <3>4, <3>6, RangeDrop, RangeKept
  <2>5. CASE c.op = "UNREF" /\ obj' = [obj EXCEPT ![c.o] = Fresh]
    <3>1. \A p \in Obj : obj'[p] = obj[p] \/ obj'[p] = Fresh
      BY <1>0, <2>5
    <3>2. Fresh.range = NoRange
      BY DEF Fresh
    <3> QED BY <3>1, <3>2, RangeKept
  <2> QED BY <1>1, <2>2, <2>3, <2>4, <2>5
<1>11. CASE HostRead \/ RemoveDevice \/ UNCHANGED vars
  BY <1>1, <1>11 DEF HostRead, RemoveDevice, objVars, vars
<1>12. CASE BootNext \/ WorkNext \/ DisplayChange
  BY <1>1, <1>12, WorkKept DEF objVars
<1>13. ASSUME NEW t \in Thread,
              \/ GetCaps(t) \/ GetCapset(t) \/ GetCapsetQueue(t) \/ CapsDone(t)
              \/ Mmap(t) \/ GetUuid(t) \/ UuidDone(t)
       PROVE  obj' = obj
  BY <1>13 DEF GetCaps, GetCapset, GetCapsetQueue, CapsDone, Mmap, GetUuid, UuidDone, objVars
<1>14. ASSUME NEW t \in Thread, CallNext(t) \/ ThreadNext(t) PROVE RangeInv'
  BY <1>1, <1>2, <1>3, <1>4, <1>6, <1>8, <1>9, <1>13, <1>14 DEF CallNext, ThreadNext
<1> QED BY <1>7, <1>10, <1>11, <1>12, <1>14 DEF Next
-----------------------------------------------------------------------------
(* While the device stays, every step leaves every object in order.        *)
LEMMA ObjectStep ==
  ASSUME TypeInv, TypeInv', RangeInv, ObjectInv, [Next]_vars
  PROVE  ObjectInv'
<1>0. device' = "plugged" => device = "plugged"
  <2>1. BootNext \/ WorkNext \/ DisplayChange => device' = device
    BY DEF BootNext, WorkNext, DisplayChange, BootSend, BootWait, BootDisplay, ConfigWork, ConfigClear
  <2>2. \A t \in Thread : CallNext(t) => device' = device
    BY DEF CallNext, GetCaps, CreateObj, Mmap, Export, GetUuid
  <2>3. \A t \in Thread : ThreadNext(t) => device' = device
    BY DEF ThreadNext, GetCapset, GetCapsetQueue, CapsDone, InsertNode, SendMap, CreateHandle,
           MmapDone, UuidDone
  <2>4. (\E o \in Obj : CloseRef(o)) \/ HostRead \/ Dequeue \/ UNCHANGED vars => device' = device
    BY DEF CloseRef, HostRead, Dequeue, vars
  <2>5. RemoveDevice => device' # "plugged"
    BY DEF RemoveDevice
  <2> QED BY <2>1, <2>2, <2>3, <2>4, <2>5 DEF Next
<1>1. CASE device' # "plugged"
  BY <1>1 DEF ObjectInv
<1>2. CASE device' = "plugged"
  <2>0. device = "plugged"
    BY <1>0, <1>2
  <2>1. CASE BootNext \/ WorkNext \/ DisplayChange
    BY <2>0, <2>1, ObjectWork
  <2>2. ASSUME NEW t \in Thread, CallNext(t) \/ ThreadNext(t) PROVE ObjectInv'
    <3>1. CASE GetCaps(t) \/ GetCapset(t) \/ GetCapsetQueue(t) \/ CapsDone(t) \/ GetUuid(t) \/ UuidDone(t)
      BY <2>0, <3>1, ObjectCaps
    <3>2. CASE CreateObj(t) \/ InsertNode(t) \/ SendMap(t) \/ CreateHandle(t)
      BY <2>0, <3>2, ObjectCreate, ObjectInsertNode, ObjectSendMap, ObjectCreateHandle
    <3>3. CASE Mmap(t) \/ MmapDone(t) \/ Export(t)
      BY <2>0, <3>3, ObjectMmap, ObjectMmapDone, ObjectExport
    <3> QED BY <2>2, <3>1, <3>2, <3>3 DEF CallNext, ThreadNext
  <2>3. ASSUME NEW o \in Obj, CloseRef(o) PROVE ObjectInv'
    BY <2>0, <2>3, ObjectCloseRef
  <2>4. CASE HostRead \/ Dequeue
    BY <2>0, <2>4, ObjectHostRead, ObjectDequeue
  <2>5. ~RemoveDevice
    BY <1>2 DEF RemoveDevice
  <2>6. CASE UNCHANGED vars
    <3>1. UNCHANGED <<obj, refs, handle, dmabuf, vma, th, ring, answered, hostMap>>
      BY <2>6 DEF vars
    <3>2. ASSUME NEW o \in Obj PROVE ObjectOK(o)'
      BY <2>0, <3>1, RingStays, AnswersStay, ObjectKept DEF ThingSame, ThreadsSame, ObjectInv
    <3> QED BY <3>2 DEF ObjectInv
  <2> QED BY <2>1, <2>2, <2>3, <2>4, <2>5, <2>6 DEF Next
<1> QED BY <1>1, <1>2

(***************************************************************************)
(* A mapped piece of the BAR shows the object it was mapped for, however   *)
(* creating, mapping, exporting, closing, answering and reusing of ranges  *)
(* interleave: whoever can get at an object holds a reference, so it is    *)
(* not unmapped or unref'ed before, and a range that is not free again is  *)
(* given to nobody else.                                                   *)
(***************************************************************************)
THEOREM MapSafety == Spec => []MappedIsBacked
<1>1. Init => ObjectInv /\ RangeInv
  <2> SUFFICES ASSUME Init PROVE ObjectInv /\ RangeInv
    OBVIOUS
  <2>1. /\ obj = [o \in Obj |-> Fresh] /\ th = [t \in Thread |-> Idle]
        /\ handle = [o \in Obj |-> FALSE] /\ dmabuf = [o \in Obj |-> FALSE]
        /\ vma = [o \in Obj |-> FALSE] /\ ring = <<>> /\ answered = <<>>
    BY DEF Init
  <2>2. Len(ring) = 0 /\ Len(answered) = 0
    BY <2>1
  <2>3. ASSUME NEW o \in Obj PROVE ObjectOK(o)
    <3>1. obj[o] = Fresh /\ ~Live(o) /\ obj[o].kind = "none"
      BY <2>1 DEF Live, Fresh
    <3>2. ~handle[o] /\ ~vma[o] /\ ~dmabuf[o]
      BY <2>1
    <3>3. \A t \in Thread : ~Making(t, o) /\ ~Mapping(t, o)
      BY <2>1 DEF Making, Mapping, Idle
    <3>4. RefOK(o) /\ GoneOK(o) /\ MakeOK(o)
      BY <2>2, <3>1, <3>2, <3>3 DEF RefOK, GoneOK, MakeOK
    <3>5. EndOK(o) /\ BackOK(o)
      BY <2>2, <3>1 DEF EndOK, BackOK
    <3> QED BY <3>4, <3>5 DEF ObjectOK
  <2>4. RangeInv
    BY <2>1 DEF RangeInv, Fresh
  <2> QED BY <2>3, <2>4 DEF ObjectInv
<1>2. TypeInv /\ TypeInv' /\ RangeInv /\ ObjectInv /\ [Next]_vars => ObjectInv' /\ RangeInv'
  BY ObjectStep, RangeStep
<1>3. TypeInv /\ ObjectInv => MappedIsBacked
  <2> SUFFICES ASSUME TypeInv, ObjectInv, device = "plugged", NEW o \in Obj, vma[o]
               PROVE  hostMap[obj[o].range] = o
    BY DEF MappedIsBacked
  <2>1. ObjectOK(o)
    BY DEF ObjectInv
  <2>2. Live(o)
    BY <2>1, LiveFacts
  <2> QED BY <2>1, <2>2 DEF ObjectOK, BackOK
<1> QED BY <1>1, <1>2, <1>3, TypeCorrect, PTL DEF Spec
=============================================================================
