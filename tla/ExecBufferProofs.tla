-------------------------- MODULE ExecBufferProofs --------------------------
(***************************************************************************)
(* Proofs about open files, their contexts and their submissions, for any  *)
(* threads, files, objects and requests.                                   *)
(***************************************************************************)
EXTENDS ExecBuffer, FiniteSetTheorems, WellFoundedInduction, TLAPS

Pcs == {"idle", "ctx", "params", "ctxQueue", "ctxSet", "create", "handle", "attach", "init", "deps",
        "inFence", "lock", "submit", "publish", "cleanup"}

FileState ==
  [id : CtxId \cup {0}, st : {"closed", "open", "closing", "destroyed"}, created : BOOLEAN, rings : BOOLEAN]

ThreadState ==
  [pc : Pcs, file : File \cup {NoFile}, op : {"NONE", "INIT", "SUBMIT", "TRANSFER", "DUMB", "CREATE", "OPEN"},
   req : Request \cup {NoRequest}]

SubmitState == [bos : SUBSET Bo, fd : Fd \cup {-1}, reset : BOOLEAN, job : Nat]

Commands ==
  [op : {"CTX_CREATE", "CTX_DESTROY", "ATTACH", "DETACH", "CREATE", "UNREF", "SUBMIT", "TRANSFER"},
   ctx : Nat, bos : SUBSET Bo, job : Nat]

Jobs == [line : (File \cup {NoFile}) \X Int, dep : Nat]

TypeInv ==
  /\ ctxInit \in BOOLEAN /\ plugged \in BOOLEAN
  /\ file \in [File -> FileState]
  /\ handles \in [File -> SUBSET Bo]
  /\ ctxLock \in [File -> Thread \cup {Nobody}]
  /\ ref \in [Bo -> Int]
  /\ resv \in [Bo -> Thread \cup {Nobody}]
  /\ resvFences \in [Bo -> SUBSET Nat]
  /\ sync \in Nat
  /\ fds \in [Fd -> {"file", "unused", "reserved"}]
  /\ th \in [Thread -> ThreadState]
  /\ sub \in [Thread -> SubmitState]
  /\ job \in Seq(Jobs) /\ emitted \in Seq(Nat)
  /\ signaled \subseteq Nat /\ published \subseteq Nat
  /\ ring \in Seq(Commands) /\ answered \in Seq(Commands) /\ running \in Seq(Commands)
  /\ putq \in Seq(SUBSET Bo)
  /\ hostCtx \subseteq Nat /\ hostRes \subseteq Bo /\ finished \subseteq Nat

(* Where an ioctl is, and what it has at that point: p is th[t], s sub[t]. *)
Holding == {"deps", "inFence", "lock", "submit", "publish"}

LocalOK(p, s) ==
  /\ p.pc = "idle" => p = Idle /\ s = NoSubmit
  /\ p.pc # "idle" => p.file \in File /\ p.op # "NONE"
  /\ p.op = "INIT" => p.pc \in {"ctx", "params", "ctxQueue", "ctxSet"}
  /\ p.pc = "params" => p.op = "INIT"
  /\ p.op = "DUMB" => p.pc \in {"create", "handle"}
  /\ p.op = "CREATE" => p.pc \in {"ctx", "ctxQueue", "ctxSet", "create", "handle"}
  /\ p.op = "OPEN" => p.pc \in {"ctx", "ctxQueue", "ctxSet", "handle", "attach"}
  /\ p.op \in {"SUBMIT", "TRANSFER"} =>
       /\ p.pc \in {"ctx", "ctxQueue", "ctxSet", "init", "cleanup"} \cup Holding
       /\ p.req \in Request /\ p.req.op = p.op
  /\ p.pc \in {"ctx", "params", "ctxQueue", "ctxSet", "create", "init"} /\ p.op # "OPEN" => s = NoSubmit
  /\ p.op \notin {"SUBMIT", "TRANSFER"} => s = [NoSubmit EXCEPT !.bos = s.bos]
  /\ p.op = "TRANSFER" => s.fd = -1 /\ ~s.reset
  /\ p.pc \in Holding => (s.job = 0 <=> ~Fenced(p.req)) /\ s.bos = p.req.bos

LocalInv ==
  \A t \in Thread : LocalOK(th[t], sub[t]) /\ (th[t].pc # "idle" => file[F(t)].st = "open")

FdInv ==
  /\ FdOwned
  /\ \A t, u \in Thread : sub[t].fd = sub[u].fd /\ sub[t].fd \in Fd \ {0} => t = u

(* A fence that is allocated and not queued yet.                           *)
Pending(t) == th[t].pc \in Holding \ {"publish"} /\ sub[t].job # 0

In(e, j) == \E m \in 1 .. Len(e) : e[m] = j
Before(e, j, k) == \E m, n \in 1 .. Len(e) : m < n /\ e[m] = j /\ e[n] = k
OnceEach(e) == \A m, n \in 1 .. Len(e) : e[m] = e[n] => m = n

(* j is a fence, and none that a thread may still queue.                   *)
Settled(j) == j \in 1 .. Len(job) /\ \A t \in Thread : Pending(t) => sub[t].job # j

EmitInv == OnceEach(emitted) /\ \A m \in 1 .. Len(emitted) : Settled(emitted[m])

GivenInv ==
  /\ \A j \in published : Settled(j)
  /\ sync # 0 => Settled(sync)
  /\ \A j \in 1 .. Len(job) : job[j].dep # 0 => Settled(job[j].dep)

HoldInv ==
  \A t \in Thread : th[t].pc \in Holding /\ sub[t].job # 0 =>
    /\ sub[t].job \in 1 .. Len(job)
    /\ job[sub[t].job].line = Timeline(t)
    /\ \A u \in Thread : th[u].pc \in Holding /\ sub[u].job = sub[t].job => u = t

JobInv == EmitInv /\ GivenInv /\ HoldInv

(* The host's commands with a fence, in the order they were queued.        *)
InOrder(e, q) ==
  \A k, l \in 1 .. Len(q) : k < l /\ q[k].job # 0 /\ q[l].job # 0 => Before(e, q[k].job, q[l].job)

Has(q, j) == \E k \in 1 .. Len(q) : q[k].job = j

OrderOK(e, q, g, fin) ==
  /\ InOrder(e, q) /\ InOrder(e, g)
  /\ \A k \in 1 .. Len(g), l \in 1 .. Len(q) : q[l].job # 0 => Before(e, g[k].job, q[l].job)
  /\ \A k \in 1 .. Len(g) : g[k].job # 0
  /\ \A j \in Nat : j # 0 /\ (Has(q, j) \/ Has(g, j)) <=> In(e, j) /\ j \notin fin
  /\ \A j \in fin : In(e, j)

(* On one timeline jobs finish in the order of their ids. *)
LineOK(e, fin, jobs) ==
  \A m, n \in 1 .. Len(e) :
    m < n /\ e[n] \in fin /\ jobs[e[m]].line = jobs[e[n]].line => e[m] \in fin

OrderInv == OrderOK(emitted, ring, running, finished) /\ LineOK(emitted, finished, job)

DoneInv ==
  /\ signaled \subseteq finished
  /\ \A k \in 1 .. Len(answered) : answered[k].job # 0 => answered[k].job \in finished

Listed(q) == \A k \in 1 .. Len(q) : q[k].job # 0 => \A b \in q[k].bos : q[k].job \in resvFences[b]

BusyInv == Listed(ring) /\ Listed(running)

(* A fence given to a job was finished, comes first on its timeline, or    *)
(* is never emitted.                                                       *)
DepOK(fin, e, jobs, j, d) ==
  \/ d \in fin
  \/ ~In(e, d)
  \/ /\ jobs[d].line = jobs[j].line
     /\ In(e, j) => Before(e, d, j)

DepInv == \A j \in 1 .. Len(job) : job[j].dep # 0 => DepOK(finished, emitted, job, j, job[j].dep)

(* What the host knows when it gets to the k-th command of q: x is made by *)
(* the commands on and taken by off, and h is what it knows now.           *)
Names(c) == IF c.op \in {"CTX_CREATE", "CTX_DESTROY"} THEN {c.ctx} ELSE c.bos
Is(c, op, x) == c.op = op /\ x \in Names(c)

ThereAt(on, off, h, q, x, k) ==
  \/ x \in h /\ \A l \in 1 .. Len(q) : l < k => ~Is(q[l], off, x)
  \/ \E m \in 1 .. Len(q) :
       /\ m < k /\ Is(q[m], on, x)
       /\ \A l \in 1 .. Len(q) : m < l /\ l < k => ~Is(q[l], off, x)

KnownAt(h, q, x, k) == ThereAt("CTX_CREATE", "CTX_DESTROY", h, q, x, k)

CtxUses == {"CTX_DESTROY", "ATTACH", "DETACH", "SUBMIT", "TRANSFER"}

KnownOK(h, q) ==
  \A k \in 1 .. Len(q) :
    /\ q[k].op = "CTX_CREATE" => ~KnownAt(h, q, q[k].ctx, k)
    /\ q[k].op \in CtxUses => KnownAt(h, q, q[k].ctx, k)

(* Context x is that of some file, from the moment CTX_CREATE is queued    *)
(* until CTX_DESTROY is.                                                   *)
Live(x) ==
  \E f \in File :
    /\ file[f].id = x /\ file[f].st \in {"open", "closing"}
    /\ file[f].created \/ \E t \in Thread : th[t].pc = "ctxSet" /\ F(t) = f

IdInv ==
  /\ \A f \in File : file[f].id = 0 <=> file[f].st = "closed"
  /\ \A f, g \in File : file[f].id = file[g].id /\ file[f].id # 0 => f = g

(* Who makes a context holds context_lock and finds it not made; whoever   *)
(* submits finds it made.                                                  *)
CtxOK(t) ==
  /\ th[t].pc \in {"params", "ctxQueue", "ctxSet"} => ctxLock[F(t)] = t /\ ~file[F(t)].created
  /\ th[t].op \in {"SUBMIT", "TRANSFER"} /\ th[t].pc \notin {"ctx", "ctxQueue", "ctxSet"} =>
       file[F(t)].created

LockInv == \A t \in Thread : CtxOK(t)

KnownInv ==
  /\ KnownOK(hostCtx, ring)
  /\ plugged => \A x \in Nat : KnownAt(hostCtx, ring, x, Len(ring) + 1) <=> Live(x)

(* The host has object b when it gets to a command that names it, and at   *)
(* the end of the queue as long as somebody has a reference.               *)
ResAt(h, q, b, k) == ThereAt("CREATE", "UNREF", h, q, b, k)

ResOK(b) ==
  /\ \A k \in 1 .. Len(ring) : b \in ring[k].bos => (ResAt(hostRes, ring, b, k) <=> ring[k].op # "CREATE")
  /\ plugged => (ResAt(hostRes, ring, b, Len(ring) + 1) <=> ref[b] > 0)

(* Who has a reference to b: a file with a handle, a thread that works on  *)
(* it (after it was queued its array has it), a command with an array and  *)
(* an array that waits for obj_free_work.                                  *)
HandlesOf(g, b) == {f \in File : b \in g[f]}
Works(p, s, b) == b \in s.bos /\ p.pc # "publish"
ThreadsOf(p, s, b) == {t \in Thread : Works(p[t], s[t], b)}
IsArray(c) == c.op # "UNREF" /\ (c.op = "CREATE" => c.job # 0)
Arrays(q, b) == {k \in 1 .. Len(q) : IsArray(q[k]) /\ b \in q[k].bos}
Puts(q, b) == {k \in 1 .. Len(q) : b \in q[k]}

Held(b) ==
  Cardinality(HandlesOf(handles, b)) + Cardinality(ThreadsOf(th, sub, b)) + Cardinality(Arrays(ring, b))
  + Cardinality(Arrays(running, b)) + Cardinality(Arrays(answered, b)) + Cardinality(Puts(putq, b))

CountOK(b) ==
  /\ IsFiniteSet(HandlesOf(handles, b)) /\ IsFiniteSet(ThreadsOf(th, sub, b))
  /\ ref[b] >= -1
  /\ Held(b) > 0 => Held(b) <= ref[b]

ArrayInv ==
  /\ \A k \in 1 .. Len(ring) : ring[k].op = "UNREF" => ring[k].job = 0
  /\ \A k \in 1 .. Len(running) : IsArray(running[k]) /\ running[k].job # 0
  /\ \A k \in 1 .. Len(answered) : IsArray(answered[k])

RefInv == ArrayInv /\ \A b \in Bo : ResOK(b) /\ CountOK(b)
-----------------------------------------------------------------------------
(* Sequences. *)
LEMMA PushFacts ==
  ASSUME NEW S, NEW q \in Seq(S), NEW s \in Seq(S)
  PROVE  /\ q \o s \in Seq(S) /\ Len(q \o s) = Len(q) + Len(s)
         /\ Len(q) \in Nat /\ Len(s) \in Nat
         /\ \A k \in 1 .. Len(q) : k \in 1 .. Len(q \o s) /\ (q \o s)[k] = q[k]
         /\ \A k \in 1 .. Len(s) :
              Len(q) + k \in 1 .. Len(q \o s) /\ (q \o s)[Len(q) + k] = s[k]
         /\ \A k \in 1 .. Len(q \o s) :
              \/ k \in 1 .. Len(q) /\ (q \o s)[k] = q[k]
              \/ k - Len(q) \in 1 .. Len(s) /\ k > Len(q) /\ (q \o s)[k] = s[k - Len(q)]
  OBVIOUS

LEMMA AppendFacts ==
  ASSUME NEW S, NEW q \in Seq(S), NEW x \in S
  PROVE  /\ Append(q, x) \in Seq(S) /\ Len(Append(q, x)) = Len(q) + 1 /\ Len(q) \in Nat
         /\ Append(q, x)[Len(q) + 1] = x /\ Len(q) + 1 \in 1 .. Len(Append(q, x))
         /\ \A k \in 1 .. Len(q) : k \in 1 .. Len(Append(q, x)) /\ Append(q, x)[k] = q[k]
         /\ \A k \in 1 .. Len(Append(q, x)) : k \in 1 .. Len(q) \/ k = Len(q) + 1
  OBVIOUS

LEMMA ReadFacts ==
  ASSUME NEW S, NEW q \in Seq(S), q # <<>>
  PROVE  /\ Tail(q) \in Seq(S) /\ Len(Tail(q)) = Len(q) - 1 /\ Len(q) \in Nat
         /\ Head(q) = q[1] /\ 1 \in 1 .. Len(q) /\ Head(q) \in S
         /\ \A k \in 1 .. Len(Tail(q)) : k + 1 \in 1 .. Len(q) /\ Tail(q)[k] = q[k + 1]
         /\ \A k \in 1 .. Len(q) :
              k = 1 \/ (k - 1 \in 1 .. Len(Tail(q)) /\ Tail(q)[k - 1] = q[k])
  OBVIOUS

(* Taking an element out keeps the order of the rest. *)
Skip(k, i) == IF k < i THEN k ELSE k + 1

LEMMA RemoveFacts ==
  ASSUME NEW S, NEW s \in Seq(S), NEW i \in 1 .. Len(s)
  PROVE  /\ RemoveAt(s, i) \in Seq(S) /\ Len(RemoveAt(s, i)) = Len(s) - 1 /\ Len(s) \in Nat
         /\ \A k \in 1 .. Len(RemoveAt(s, i)) :
              Skip(k, i) \in 1 .. Len(s) /\ RemoveAt(s, i)[k] = s[Skip(k, i)]
         /\ \A k \in 1 .. Len(s) :
              k = i \/ \E l \in 1 .. Len(RemoveAt(s, i)) : Skip(l, i) = k /\ RemoveAt(s, i)[l] = s[k]
<1> DEFINE a == SubSeq(s, 1, i - 1)
           b == SubSeq(s, i + 1, Len(s))
           r == a \o b
<1>0. Len(s) \in Nat /\ i \in Int /\ 1 <= i /\ i <= Len(s)
  OBVIOUS
<1>1. /\ a \in Seq(S) /\ Len(a) = i - 1
      /\ \A k \in 1 .. Len(a) : a[k] = s[k]
  OBVIOUS
<1>2. /\ b \in Seq(S) /\ Len(b) = Len(s) - i
      /\ \A k \in 1 .. Len(b) : b[k] = s[i + k]
  OBVIOUS
<1> HIDE DEF a, b
<1>3. a \in Seq(S) /\ b \in Seq(S)
  BY <1>1, <1>2
<1>4. /\ r \in Seq(S) /\ Len(r) = Len(a) + Len(b)
      /\ \A k \in 1 .. Len(r) :
           \/ k \in 1 .. Len(a) /\ r[k] = a[k]
           \/ k - Len(a) \in 1 .. Len(b) /\ k > Len(a) /\ r[k] = b[k - Len(a)]
  BY <1>3, PushFacts
<1> HIDE DEF r
<1>5. Len(r) = Len(s) - 1
  BY <1>0, <1>1, <1>2, <1>4
<1>6. ASSUME NEW k \in 1 .. Len(r)
      PROVE  Skip(k, i) \in 1 .. Len(s) /\ r[k] = s[Skip(k, i)]
  <2>0. k \in Int /\ 1 <= k /\ k <= Len(s) - 1
    BY <1>0, <1>5
  <2>1. CASE k < i
    <3>1. k \in 1 .. Len(a) /\ k \in 1 .. Len(s) /\ ~(k > Len(a))
      BY <1>0, <1>1, <2>0, <2>1
    <3>2. r[k] = a[k] /\ a[k] = s[k]
      BY <1>1, <1>4, <3>1
    <3> QED
      BY <2>1, <3>1, <3>2 DEF Skip
  <2>2. CASE ~(k < i)
    <3>1. k - Len(a) \in 1 .. Len(b) /\ r[k] = b[k - Len(a)]
      BY <1>0, <1>1, <1>4, <2>0, <2>2
    <3>2. i + (k - Len(a)) = k + 1 /\ k + 1 \in 1 .. Len(s)
      BY <1>0, <1>1, <2>0
    <3>3. b[k - Len(a)] = s[i + (k - Len(a))]
      BY <1>2, <3>1
    <3> QED
      BY <2>2, <3>1, <3>2, <3>3 DEF Skip
  <2> QED
    BY <2>1, <2>2
<1>7. RemoveAt(s, i) = r
  BY DEF RemoveAt, a, b, r
<1>8. ASSUME NEW k \in 1 .. Len(s), k # i
      PROVE  \E l \in 1 .. Len(r) : Skip(l, i) = k /\ r[l] = s[k]
  <2>1. CASE k < i
    <3>1. k \in 1 .. Len(r) /\ Skip(k, i) = k
      BY <1>0, <1>5, <2>1 DEF Skip
    <3> QED
      BY <1>6, <3>1
  <2>2. CASE k > i
    <3>1. k - 1 \in 1 .. Len(r) /\ Skip(k - 1, i) = k
      BY <1>0, <1>5, <2>2 DEF Skip
    <3> QED
      BY <1>6, <3>1
  <2> QED
    BY <1>0, <1>8, <2>1, <2>2
<1> QED
  BY <1>0, <1>4, <1>5, <1>6, <1>7, <1>8

LEMMA SkipFacts ==
  ASSUME NEW k \in Nat, NEW l \in Nat, NEW i \in Nat
  PROVE  /\ Skip(k, i) # i
         /\ k < l <=> Skip(k, i) < Skip(l, i)
         /\ Skip(k, i) = Skip(l, i) => k = l
  BY DEF Skip

(* A set of objects, one after the other. *)
LEMMA SetSeqFacts ==
  ASSUME NEW T \in SUBSET Bo
  PROVE  /\ SetToSeq(T) \in Seq(T) /\ DOMAIN SetToSeq(T) = 1 .. Len(SetToSeq(T))
         /\ \A k, l \in 1 .. Len(SetToSeq(T)) : SetToSeq(T)[k] = SetToSeq(T)[l] => k = l
         /\ \A b \in T : \E k \in 1 .. Len(SetToSeq(T)) : SetToSeq(T)[k] = b
<1>1. IsFiniteSet(T)
  BY ExecAssumption, FS_Subset
<1>2. Cardinality(T) \in Nat /\ ExistsBijection(1 .. Cardinality(T), T)
  BY <1>1, FS_CardinalityType
<1> DEFINE N == 1 .. Cardinality(T)
<1>3. PICK f \in [N -> T] : IsInjective(f)
  BY <1>2 DEF ExistsBijection, Bijection, Injection
<1>4. SetToSeq(T) \in [N -> T] /\ IsInjective(SetToSeq(T))
  <2> DEFINE g == CHOOSE x \in [N -> T] : IsInjective(x)
  <2>1. g \in [N -> T] /\ IsInjective(g)
    BY <1>3, Zenon
  <2> QED
    BY <2>1 DEF SetToSeq
<1> DEFINE s == SetToSeq(T)
<1>5. s \in [N -> T] /\ IsInjective(s)
  BY <1>4
<1> HIDE DEF s
<1>6. s \in Seq(T) /\ Len(s) = Cardinality(T) /\ DOMAIN s = 1 .. Len(s)
  BY <1>2, <1>5
<1>7. \A k, l \in 1 .. Len(s) : s[k] = s[l] => k = l
  BY <1>5, <1>6 DEF IsInjective
<1>8. s \in Injection(N, T)
  BY <1>5 DEF Injection
<1>9. Cardinality(N) = Cardinality(T)
  BY <1>2, FS_Interval
<1>10. s \in Surjection(N, T)
  BY <1>1, <1>8, <1>9, FS_Injection
<1>11. \A b \in T : \E k \in N : s[k] = b
  BY <1>10 DEF Surjection
<1> QED
  BY <1>6, <1>7, <1>11 DEF s

LEMMA LowestFacts ==
  ASSUME NEW T, T \subseteq Nat, T # {}
  PROVE  Lowest(T) \in T
<1> DEFINE R == OpToRel(<, Nat)
<1>1. IsWellFoundedOn(R, Nat)
  BY NatLessThanWellFounded DEF OpToRel
<1> HIDE DEF R
<1>2. PICK x \in T : \A y \in T : <<y, x>> \notin R
  BY <1>1, WFMin
<1>3. \A y \in T : ~(y < x)
  BY <1>2 DEF R, OpToRel
<1>4. \A y \in T : x <= y
  BY <1>2, <1>3
<1>5. (CHOOSE n \in T : \A m \in T : n <= m) \in T
  BY <1>2, <1>4, Zenon
<1> QED
  BY <1>5 DEF Lowest
-----------------------------------------------------------------------------
(* One thread moves. *)
Others(t) == \A u \in Thread : u # t => th'[u] = th[u] /\ sub'[u] = sub[u]

Moved(t) ==
  /\ th' \in [Thread -> ThreadState] /\ sub' \in [Thread -> SubmitState]
  /\ Others(t)
  /\ LocalOK(th'[t], sub'[t])

Keeps(t) == th'[t].file = F(t) /\ th'[t].op = th[t].op /\ th'[t].req = th[t].req

LEMMA Fields ==
  ASSUME TypeInv, NEW t \in Thread
  PROVE  /\ th[t] \in ThreadState /\ sub[t] \in SubmitState
         /\ th[t].pc \in Pcs /\ F(t) \in File \cup {NoFile} /\ th[t].req \in Request \cup {NoRequest}
         /\ th[t].op \in {"NONE", "INIT", "SUBMIT", "TRANSFER", "DUMB", "CREATE", "OPEN"}
         /\ sub[t].bos \subseteq Bo /\ sub[t].fd \in Fd \cup {-1} /\ sub[t].reset \in BOOLEAN
         /\ sub[t].job \in Nat
<1>1. th[t] \in ThreadState /\ sub[t] \in SubmitState
  BY DEF TypeInv
<1> QED
  BY <1>1 DEF ThreadState, SubmitState, F

LEMMA GotoFacts ==
  ASSUME TypeInv, NEW t \in Thread, NEW l \in Pcs, Goto(t, l)
  PROVE  /\ th' \in [Thread -> ThreadState] /\ \A u \in Thread : u # t => th'[u] = th[u]
         /\ th'[t] = [th[t] EXCEPT !.pc = l] /\ th'[t].pc = l /\ Keeps(t)
<1>1. th[t] \in ThreadState /\ th \in [Thread -> ThreadState]
  BY Fields DEF TypeInv
<1> DEFINE p == [th[t] EXCEPT !.pc = l]
<1>2. p \in ThreadState /\ p.pc = l /\ p.file = F(t) /\ p.op = th[t].op /\ p.req = th[t].req
  BY <1>1 DEF ThreadState, F
<1>3. th' = [th EXCEPT ![t] = p]
  BY DEF Goto
<1> HIDE DEF p
<1>4. th' \in [Thread -> ThreadState] /\ th'[t] = p /\ \A u \in Thread : u # t => th'[u] = th[u]
  BY <1>1, <1>2, <1>3
<1> QED
  BY <1>2, <1>4 DEF Keeps, p

LEMMA IdleType == Idle \in ThreadState /\ NoSubmit \in SubmitState
  BY DEF Idle, NoSubmit, ThreadState, SubmitState, Pcs

LEMMA ReturnFacts ==
  ASSUME TypeInv, NEW t \in Thread, Return(t)
  PROVE  th' \in [Thread -> ThreadState] /\ th'[t] = Idle /\ \A u \in Thread : u # t => th'[u] = th[u]
<1>1. th \in [Thread -> ThreadState] /\ Idle \in ThreadState
  BY IdleType DEF TypeInv
<1> QED
  BY <1>1 DEF Return

LEMMA SubFacts ==
  ASSUME TypeInv, NEW t \in Thread, NEW s \in SubmitState, sub' = [sub EXCEPT ![t] = s]
  PROVE  sub' \in [Thread -> SubmitState] /\ sub'[t] = s /\ \A u \in Thread : u # t => sub'[u] = sub[u]
  BY DEF TypeInv

(* A thread that only goes on. *)
LEMMA GoOn ==
  ASSUME TypeInv, LocalInv, NEW t \in Thread, NEW l \in Pcs, Goto(t, l), UNCHANGED sub,
         \A p \in ThreadState : p.pc = l /\ p.file = F(t) /\ p.op = th[t].op /\ p.req = th[t].req
                                  => LocalOK(p, sub[t])
  PROVE  Moved(t) /\ Keeps(t) /\ th'[t].pc = l /\ UNCHANGED sub
<1>1. sub' \in [Thread -> SubmitState]
  BY DEF TypeInv
<1>2. th' \in [Thread -> ThreadState] /\ th'[t] \in ThreadState
  BY GotoFacts
<1>3. LocalOK(th'[t], sub'[t])
  BY <1>2, GotoFacts DEF Keeps
<1> QED
  BY <1>1, <1>3, GotoFacts DEF Moved, Others

LEMMA MoveBack ==
  ASSUME TypeInv, NEW t \in Thread, Return(t), sub' = [sub EXCEPT ![t] = NoSubmit]
  PROVE  Moved(t) /\ th'[t] = Idle /\ sub'[t] = NoSubmit
<1>1. sub' \in [Thread -> SubmitState] /\ sub'[t] = NoSubmit /\ \A u \in Thread : u # t => sub'[u] = sub[u]
  BY IdleType, SubFacts
<1>2. LocalOK(Idle, NoSubmit)
  BY DEF LocalOK, Idle, NoSubmit, Holding
<1> QED
  BY <1>1, <1>2, ReturnFacts DEF Moved, Others

LEMMA LocalFacts ==
  ASSUME TypeInv, LocalInv, NEW t \in Thread
  PROVE  LocalOK(th[t], sub[t]) /\ (th[t].pc # "idle" => F(t) \in File /\ file[F(t)].st = "open")
  BY DEF LocalInv, LocalOK, F

(* With the context there, an ioctl goes on to what it is for. *)
LEMMA MoveAfterCtx ==
  ASSUME TypeInv, LocalInv, NEW t \in Thread, th[t].pc \in {"ctx", "ctxSet"}, UNCHANGED sub,
         IF th[t].op = "INIT" THEN Return(t) ELSE Goto(t, AfterCtx(t))
  PROVE  /\ Moved(t)
         /\ \/ th'[t] = Idle
            \/ Keeps(t) /\ th'[t].pc \in {"attach", "create", "init"}
<1>1. LocalOK(th[t], sub[t])
  BY LocalFacts
<1>2. CASE Return(t) /\ th[t].op = "INIT"
  <2>1. sub[t] = NoSubmit
    BY <1>1, <1>2 DEF LocalOK
  <2>2. sub' = [sub EXCEPT ![t] = NoSubmit]
    BY <2>1 DEF TypeInv
  <2> QED
    BY <1>2, <2>2, MoveBack
<1>3. CASE Goto(t, "attach") /\ th[t].op = "OPEN"
  <2>1. \A p \in ThreadState : p.pc = "attach" /\ p.file = F(t) /\ p.op = th[t].op /\ p.req = th[t].req
                                  => LocalOK(p, sub[t])
    BY <1>1, <1>3 DEF LocalOK, Holding, F
  <2> QED
    BY <1>3, <2>1, GoOn DEF Pcs
<1>4. CASE Goto(t, "create") /\ th[t].op = "CREATE"
  <2>1. \A p \in ThreadState : p.pc = "create" /\ p.file = F(t) /\ p.op = th[t].op /\ p.req = th[t].req
                                  => LocalOK(p, sub[t])
    BY <1>1, <1>4 DEF LocalOK, Holding, F
  <2> QED
    BY <1>4, <2>1, GoOn DEF Pcs
<1>5. CASE Goto(t, "init") /\ th[t].op \notin {"INIT", "OPEN", "CREATE"}
  <2>1. \A p \in ThreadState : p.pc = "init" /\ p.file = F(t) /\ p.op = th[t].op /\ p.req = th[t].req
                                  => LocalOK(p, sub[t])
    BY <1>1, <1>5 DEF LocalOK, Holding, F
  <2> QED
    BY <1>5, <2>1, GoOn DEF Pcs
<1> QED
  BY <1>2, <1>3, <1>4, <1>5 DEF AfterCtx

LEMMA MoveCtxLock ==
  ASSUME TypeInv, LocalInv, NEW t \in Thread, CtxLock(t)
  PROVE  /\ Moved(t) /\ UNCHANGED sub
         /\ \/ th'[t] = Idle
            \/ Keeps(t) /\ th'[t].pc \in {"attach", "create", "init", "params", "ctxQueue"}
<1>1. th[t].pc = "ctx" /\ UNCHANGED sub
  BY DEF CtxLock
<1>2. LocalOK(th[t], sub[t])
  BY LocalFacts
<1>3. CASE IF th[t].op = "INIT" THEN Return(t) ELSE Goto(t, AfterCtx(t))
  BY <1>1, <1>3, MoveAfterCtx
<1>4. CASE Goto(t, "params") /\ th[t].op = "INIT"
  <2>1. \A p \in ThreadState : p.pc = "params" /\ p.file = F(t) /\ p.op = th[t].op /\ p.req = th[t].req
                                  => LocalOK(p, sub[t])
    BY <1>1, <1>2, <1>4 DEF LocalOK, Holding, F
  <2> QED
    BY <1>1, <1>4, <2>1, GoOn DEF Pcs
<1>5. CASE Goto(t, "ctxQueue") /\ th[t].op # "INIT"
  <2>1. \A p \in ThreadState : p.pc = "ctxQueue" /\ p.file = F(t) /\ p.op = th[t].op /\ p.req = th[t].req
                                  => LocalOK(p, sub[t])
    BY <1>1, <1>2, <1>5 DEF LocalOK, Holding, F
  <2> QED
    BY <1>1, <1>5, <2>1, GoOn DEF Pcs
<1> QED
  BY <1>3, <1>4, <1>5 DEF CtxLock

LEMMA MoveCtxParams ==
  ASSUME TypeInv, LocalInv, NEW t \in Thread, CtxParams(t)
  PROVE  /\ Moved(t) /\ UNCHANGED sub
         /\ th'[t] = Idle \/ (Keeps(t) /\ th'[t].pc = "ctxQueue")
<1>1. th[t].pc = "params" /\ UNCHANGED sub
  BY DEF CtxParams
<1>2. LocalOK(th[t], sub[t])
  BY LocalFacts
<1>3. CASE Return(t)
  <2>1. sub[t] = NoSubmit
    BY <1>1, <1>2 DEF LocalOK
  <2>2. sub' = [sub EXCEPT ![t] = NoSubmit]
    BY <1>1, <2>1 DEF TypeInv
  <2> QED
    BY <1>1, <1>3, <2>2, MoveBack
<1>4. CASE Goto(t, "ctxQueue")
  <2>1. \A p \in ThreadState : p.pc = "ctxQueue" /\ p.file = F(t) /\ p.op = th[t].op /\ p.req = th[t].req
                                  => LocalOK(p, sub[t])
    BY <1>1, <1>2 DEF LocalOK, Holding, F
  <2> QED
    BY <1>1, <1>4, <2>1, GoOn DEF Pcs
<1> QED
  BY <1>3, <1>4 DEF CtxParams

LEMMA MoveCtxQueue ==
  ASSUME TypeInv, LocalInv, NEW t \in Thread, CtxQueue(t)
  PROVE  Moved(t) /\ UNCHANGED sub /\ Keeps(t) /\ th'[t].pc = "ctxSet"
<1>1. th[t].pc = "ctxQueue" /\ UNCHANGED sub /\ Goto(t, "ctxSet")
  BY DEF CtxQueue
<1>2. LocalOK(th[t], sub[t])
  BY LocalFacts
<1>3. \A p \in ThreadState : p.pc = "ctxSet" /\ p.file = F(t) /\ p.op = th[t].op /\ p.req = th[t].req
                                => LocalOK(p, sub[t])
  BY <1>1, <1>2 DEF LocalOK, Holding, F
<1> QED
  BY <1>1, <1>3, GoOn DEF Pcs

LEMMA MoveCtxSet ==
  ASSUME TypeInv, LocalInv, NEW t \in Thread, CtxSet(t)
  PROVE  /\ Moved(t) /\ UNCHANGED sub
         /\ th'[t] = Idle \/ (Keeps(t) /\ th'[t].pc \in {"attach", "create", "init"})
  BY MoveAfterCtx DEF CtxSet

LEMMA MoveCreate ==
  ASSUME TypeInv, LocalInv, NEW t \in Thread, NEW b \in Bo, th[t].pc = "create",
         sub' = [sub EXCEPT ![t].bos = {b}], Goto(t, "handle")
  PROVE  /\ Moved(t) /\ Keeps(t) /\ th'[t].pc = "handle" /\ sub[t] = NoSubmit
         /\ sub'[t].bos = {b} /\ sub'[t].job = 0 /\ sub'[t].fd = -1 /\ ~sub'[t].reset
         /\ th[t].op \in {"CREATE", "DUMB"}
<1>1. LocalOK(th[t], sub[t])
  BY LocalFacts
<1>2. sub[t] = NoSubmit /\ th[t].op \in {"CREATE", "DUMB"} /\ th[t].file \in File
  BY <1>1, Fields DEF LocalOK, Holding
<1> DEFINE s == [NoSubmit EXCEPT !.bos = {b}]
<1>3. sub' = [sub EXCEPT ![t] = s]
  BY <1>2
<1>4. s \in SubmitState /\ s.bos = {b} /\ s.job = 0 /\ s.fd = -1 /\ ~s.reset
  BY DEF NoSubmit, SubmitState
<1>5. s = [NoSubmit EXCEPT !.bos = s.bos]
  BY <1>4
<1> HIDE DEF s
<1>6. sub' \in [Thread -> SubmitState] /\ sub'[t] = s /\ \A u \in Thread : u # t => sub'[u] = sub[u]
  BY <1>3, <1>4, SubFacts
<1>7. /\ th' \in [Thread -> ThreadState] /\ \A u \in Thread : u # t => th'[u] = th[u]
      /\ th'[t].pc = "handle" /\ Keeps(t)
  BY GotoFacts DEF Pcs
<1>8. LocalOK(th'[t], s)
  BY <1>2, <1>5, <1>7 DEF LocalOK, Holding, Keeps, F
<1> QED
  BY <1>2, <1>4, <1>6, <1>7, <1>8 DEF Moved, Others

LEMMA MoveHandleCreate ==
  ASSUME TypeInv, LocalInv, NEW t \in Thread, HandleCreate(t)
  PROVE  /\ Moved(t) /\ sub[t].job = 0 /\ sub[t].fd = -1
         /\ \/ /\ UNCHANGED sub /\ th'[t].file = F(t) /\ th'[t].req = th[t].req /\ th'[t].op = "OPEN"
               /\ th'[t].pc \in {"attach", "ctx"}
            \/ th'[t] = Idle /\ sub'[t] = NoSubmit
<1>1. th[t].pc = "handle" /\ LocalOK(th[t], sub[t]) /\ th[t] \in ThreadState /\ sub[t] \in SubmitState
  BY LocalFacts, Fields DEF HandleCreate
<1>2. sub[t] = [NoSubmit EXCEPT !.bos = sub[t].bos] /\ th[t].file \in File
  BY <1>1 DEF LocalOK, Holding
<1>3. sub[t].job = 0 /\ sub[t].fd = -1
  BY <1>2 DEF NoSubmit
<1>4. CASE Return(t) /\ sub' = [sub EXCEPT ![t] = NoSubmit]
  BY <1>3, <1>4, MoveBack
<1>5. CASE UNCHANGED sub /\ th' = [th EXCEPT ![t].pc = IF ctxInit THEN "attach" ELSE "ctx", ![t].op = "OPEN"]
  <2> DEFINE p == [th[t] EXCEPT !.pc = IF ctxInit THEN "attach" ELSE "ctx", !.op = "OPEN"]
  <2>1. th' = [th EXCEPT ![t] = p]
    BY <1>5 DEF TypeInv
  <2>2. /\ p \in ThreadState /\ p.file = F(t) /\ p.req = th[t].req /\ p.op = "OPEN"
        /\ p.pc \in {"attach", "ctx"}
    BY <1>1 DEF ThreadState, Pcs, F
  <2> HIDE DEF p
  <2>3. th' \in [Thread -> ThreadState] /\ th'[t] = p /\ \A u \in Thread : u # t => th'[u] = th[u]
    BY <2>1, <2>2 DEF TypeInv
  <2>4. LocalOK(p, sub[t])
    BY <1>2, <2>2 DEF LocalOK, Holding, F
  <2> QED
    BY <1>3, <1>5, <2>2, <2>3, <2>4 DEF Moved, Others, TypeInv
<1> QED
  BY <1>4, <1>5 DEF HandleCreate

LEMMA MoveAttach ==
  ASSUME TypeInv, LocalInv, NEW t \in Thread, Attach(t)
  PROVE  Moved(t) /\ th'[t] = Idle /\ sub'[t] = NoSubmit
  BY MoveBack DEF Attach

(* The three ways out of virtio_gpu_init_submit. *)
InitDone(t) ==
  /\ BuflistKnown(t) /\ sub'[t].bos = th[t].req.bos /\ Get(th[t].req.bos)
  /\ sub'[t].job = (IF Fenced(th[t].req) THEN Len(job) + 1 ELSE 0)
  /\ \/ /\ th[t].req.outFence /\ sub'[t].fd \in Fd /\ fds[sub'[t].fd] = "unused"
        /\ fds' = [fds EXCEPT ![sub'[t].fd] = "reserved"]
     \/ sub'[t].fd = -1 /\ UNCHANGED fds

InitFailed(t) ==
  /\ th'[t].pc = "cleanup" /\ sub'[t].bos = {} /\ UNCHANGED <<ref, fds>>
  /\ sub'[t].fd \in {0, -1}

LEMMA MoveInitSubmit ==
  ASSUME TypeInv, LocalInv, NEW t \in Thread, InitSubmit(t)
  PROVE  /\ Moved(t) /\ Keeps(t) /\ th'[t].pc \in {"deps", "cleanup"} /\ sub[t] = NoSubmit
         /\ ~sub'[t].reset /\ sub'[t].job \in {0, Len(job) + 1}
         /\ th[t].op \in {"SUBMIT", "TRANSFER"} /\ th[t].req \in Request
         /\ InitFailed(t) \/ InitDone(t)
<1> DEFINE r == th[t].req
           free == {n \in Fd : fds[n] = "unused"}
           j == IF Fenced(r) THEN Len(job) + 1 ELSE 0
<1>1. th[t].pc = "init" /\ LocalOK(th[t], sub[t]) /\ th[t] \in ThreadState /\ sub[t] \in SubmitState
  BY LocalFacts, Fields DEF InitSubmit
<1>2. /\ sub[t] = NoSubmit /\ th[t].op \in {"SUBMIT", "TRANSFER"} /\ th[t].req \in Request
      /\ th[t].req.op = th[t].op /\ F(t) \in File
  BY <1>1, Fields DEF LocalOK, Holding, F
<1>3. r \in RequestType /\ (th[t].op = "TRANSFER" => ~r.event /\ ~r.outFence)
  BY <1>2, ExecAssumption
<1>4. j \in Nat /\ j \in {0, Len(job) + 1} /\ (j = 0 <=> ~Fenced(r)) /\ r.bos \subseteq Bo
  BY <1>3 DEF TypeInv, RequestType
<1> HIDE DEF r, j, free
<1>5. ASSUME NEW s \in SubmitState, ~s.reset, s.job \in {0, j}, sub' = [sub EXCEPT ![t] = s],
             th[t].op = "TRANSFER" => s.fd = -1,
             \/ Goto(t, "cleanup")
             \/ Goto(t, "deps") /\ s.job = j /\ s.bos = r.bos
      PROVE  Moved(t) /\ Keeps(t) /\ th'[t].pc \in {"deps", "cleanup"} /\ sub'[t] = s
  <2>1. sub' \in [Thread -> SubmitState] /\ sub'[t] = s /\ \A u \in Thread : u # t => sub'[u] = sub[u]
    BY <1>5, SubFacts
  <2>2. CASE Goto(t, "cleanup")
    <3>1. /\ th' \in [Thread -> ThreadState] /\ \A u \in Thread : u # t => th'[u] = th[u]
          /\ th'[t].pc = "cleanup" /\ Keeps(t)
      BY <2>2, GotoFacts DEF Pcs
    <3>2. LocalOK(th'[t], s)
      BY <1>2, <1>5, <3>1 DEF LocalOK, Holding, Keeps, F
    <3> QED
      BY <2>1, <3>1, <3>2 DEF Moved, Others
  <2>3. CASE Goto(t, "deps") /\ s.job = j /\ s.bos = r.bos
    <3>1. /\ th' \in [Thread -> ThreadState] /\ \A u \in Thread : u # t => th'[u] = th[u]
          /\ th'[t].pc = "deps" /\ Keeps(t)
      BY <2>3, GotoFacts DEF Pcs
    <3>2. LocalOK(th'[t], s)
      BY <1>2, <1>4, <1>5, <2>3, <3>1 DEF LocalOK, Holding, Keeps, F, r
    <3> QED
      BY <2>1, <3>1, <3>2 DEF Moved, Others
  <2> QED
    BY <1>5, <2>2, <2>3
<1>6. CASE /\ r.event /\ sub' = [sub EXCEPT ![t] = [NoSubmit EXCEPT !.fd = 0]]
           /\ Goto(t, "cleanup") /\ UNCHANGED <<ref, fds>>
  <2>1. PICK s : s = [NoSubmit EXCEPT !.fd = 0]
    OBVIOUS
  <2>2. s \in SubmitState /\ ~s.reset /\ s.job = 0 /\ s.bos = {} /\ s.fd = 0
    BY <2>1, ExecAssumption DEF NoSubmit, SubmitState
  <2>3. sub' = [sub EXCEPT ![t] = s] /\ th[t].op # "TRANSFER"
    BY <1>3, <1>6, <2>1
  <2>4. Moved(t) /\ Keeps(t) /\ th'[t].pc \in {"deps", "cleanup"} /\ sub'[t] = s
    BY <1>5, <1>6, <2>2, <2>3
  <2> QED
    BY <1>2, <1>6, <2>2, <2>4, GotoFacts DEF InitFailed, Pcs
<1> DEFINE Fill(bos, n) == sub' = [sub EXCEPT ![t] = [bos |-> bos, fd |-> n, reset |-> FALSE, job |-> j]]
<1>7. CASE Fill({}, -1) /\ Goto(t, "cleanup") /\ UNCHANGED <<ref, fds>>
  <2>1. PICK s : s = [bos |-> {}, fd |-> -1, reset |-> FALSE, job |-> j]
    OBVIOUS
  <2>2. s \in SubmitState /\ ~s.reset /\ s.job = j /\ s.bos = {} /\ s.fd = -1
    BY <1>4, <2>1 DEF SubmitState
  <2>3. sub' = [sub EXCEPT ![t] = s]
    BY <1>7, <2>1
  <2>4. Moved(t) /\ Keeps(t) /\ th'[t].pc \in {"deps", "cleanup"} /\ sub'[t] = s
    BY <1>5, <1>7, <2>2, <2>3
  <2> QED
    BY <1>2, <1>4, <1>7, <2>2, <2>4, GotoFacts DEF InitFailed, Pcs
<1>8. ASSUME NEW n \in Fd \cup {-1}, BuflistKnown(t), Get(r.bos), n \in Fd => r.outFence,
             \/ n \in free /\ fds' = [fds EXCEPT ![n] = "reserved"]
             \/ n = -1 /\ UNCHANGED fds,
             Goto(t, "cleanup") \/ Goto(t, "deps"),
             Fill(r.bos, n)
      PROVE  /\ Moved(t) /\ Keeps(t) /\ th'[t].pc \in {"deps", "cleanup"} /\ ~sub'[t].reset
             /\ sub'[t].job \in {0, Len(job) + 1} /\ InitDone(t)
  <2>1. PICK s : s = [bos |-> r.bos, fd |-> n, reset |-> FALSE, job |-> j]
    OBVIOUS
  <2>2. s \in SubmitState /\ ~s.reset /\ s.job = j /\ s.bos = r.bos /\ s.fd = n
    BY <1>4, <2>1 DEF SubmitState
  <2>3. th[t].op = "TRANSFER" => s.fd = -1
    BY <1>3, <1>8, <2>2
  <2>4. sub' = [sub EXCEPT ![t] = s]
    BY <1>8, <2>1
  <2>5. Moved(t) /\ Keeps(t) /\ th'[t].pc \in {"deps", "cleanup"} /\ sub'[t] = s
    BY <1>5, <1>8, <2>2, <2>3, <2>4
  <2>6. InitDone(t)
    BY <1>8, <2>2, <2>5, Zenon DEF InitDone, free, r, j
  <2> QED
    BY <1>4, <2>2, <2>5, <2>6
<1> HIDE DEF Fill
<1>9. free # {} => Lowest(free) \in free
  BY ExecAssumption, LowestFacts DEF free
<1>10. ParsePostDeps(t) => Goto(t, "deps") \/ Goto(t, "cleanup")
  BY DEF ParsePostDeps, Goto
<1>11. CASE /\ BuflistKnown(t) /\ Get(r.bos) /\ r.outFence /\ free # {}
            /\ fds' = [fds EXCEPT ![Lowest(free)] = "reserved"]
            /\ Fill(r.bos, Lowest(free)) /\ ParsePostDeps(t)
  <2>1. PICK n : n = Lowest(free)
    OBVIOUS
  <2>2. n \in free /\ n \in Fd \cup {-1} /\ fds' = [fds EXCEPT ![n] = "reserved"] /\ Fill(r.bos, n)
    BY <1>9, <1>11, <2>1 DEF free
  <2> QED
    BY <1>2, <1>8, <1>10, <1>11, <2>2
<1>12. CASE /\ BuflistKnown(t) /\ Get(r.bos) /\ Fill(r.bos, -1) /\ UNCHANGED fds
            /\ ParsePostDeps(t) \/ Goto(t, "cleanup")
  <2>1. -1 \notin Fd /\ -1 \in Fd \cup {-1}
    BY ExecAssumption
  <2> QED
    BY <1>2, <1>8, <1>10, <1>12, <2>1
<1> QED
  BY <1>6, <1>7, <1>11, <1>12, Zenon DEF InitSubmit, r, j, free, Fill

(* A submission on its way, from one of its steps to a later one. *)
LEMMA GoHolding ==
  ASSUME TypeInv, LocalInv, NEW t \in Thread, th[t].pc \in Holding,
         NEW l \in Holding \cup {"cleanup"}, Goto(t, l),
         NEW s \in SubmitState, sub' = [sub EXCEPT ![t] = s],
         s.bos = sub[t].bos /\ s.fd = sub[t].fd /\ s.job = sub[t].job,
         th[t].op = "TRANSFER" => s.reset = sub[t].reset
  PROVE  Moved(t) /\ Keeps(t) /\ th'[t].pc = l /\ sub'[t] = s
<1>1. LocalOK(th[t], sub[t])
  BY LocalFacts
<1>2. sub' \in [Thread -> SubmitState] /\ sub'[t] = s /\ \A u \in Thread : u # t => sub'[u] = sub[u]
  BY SubFacts
<1>3. /\ th' \in [Thread -> ThreadState] /\ \A u \in Thread : u # t => th'[u] = th[u]
      /\ th'[t].pc = l /\ Keeps(t)
  BY GotoFacts DEF Pcs, Holding
<1>4. /\ th[t].op \in {"SUBMIT", "TRANSFER"} /\ th[t].file \in File /\ th[t].req \in Request
      /\ th[t].req.op = th[t].op
  BY <1>1, Fields DEF LocalOK, Holding
<1>5. LocalOK(th'[t], s)
  <2>1. /\ th'[t].op = "TRANSFER" => s.fd = -1 /\ ~s.reset
        /\ (s.job = 0 <=> ~Fenced(th'[t].req)) /\ s.bos = th'[t].req.bos
    BY <1>1, <1>3, <1>4 DEF LocalOK, Keeps
  <2> QED
    BY <1>3, <1>4, <2>1 DEF LocalOK, Holding, Keeps, F
<1> QED
  BY <1>2, <1>3, <1>5 DEF Moved, Others

LEMMA HoldingFacts ==
  ASSUME TypeInv, LocalInv, NEW t \in Thread, th[t].pc \in Holding
  PROVE  /\ th[t].op \in {"SUBMIT", "TRANSFER"} /\ F(t) \in File /\ th[t].req \in Request
         /\ th[t].req.op = th[t].op /\ sub[t].bos = th[t].req.bos
         /\ sub[t].job = 0 <=> ~Fenced(th[t].req)
         /\ th[t].op = "TRANSFER" => ~th[t].req.inSync /\ sub[t].job # 0 /\ sub[t].fd = -1
<1>1. LocalOK(th[t], sub[t])
  BY LocalFacts
<1>2. /\ th[t].op \in {"SUBMIT", "TRANSFER"} /\ F(t) \in File /\ th[t].req \in Request
      /\ th[t].req.op = th[t].op /\ sub[t].bos = th[t].req.bos
      /\ sub[t].job = 0 <=> ~Fenced(th[t].req)
      /\ th[t].op = "TRANSFER" => sub[t].fd = -1
  BY <1>1, Fields DEF LocalOK, Holding, F
<1> QED
  BY <1>2, ExecAssumption DEF Fenced

LEMMA SameSub ==
  ASSUME TypeInv, NEW t \in Thread, UNCHANGED sub
  PROVE  sub' = [sub EXCEPT ![t] = sub[t]] /\ sub[t] \in SubmitState
  BY Fields DEF TypeInv

LEMMA MoveParseDeps ==
  ASSUME TypeInv, LocalInv, NEW t \in Thread, ParseDeps(t)
  PROVE  /\ Moved(t) /\ Keeps(t) /\ th'[t].pc \in {"inFence", "cleanup"}
         /\ sub'[t].bos = sub[t].bos /\ sub'[t].fd = sub[t].fd /\ sub'[t].job = sub[t].job
<1>1. th[t].pc = "deps" /\ th[t].pc \in Holding
  BY DEF ParseDeps, Holding
<1>2. CASE /\ th[t].req.inSync /\ sub' = [sub EXCEPT ![t].reset = TRUE] /\ Goto(t, "inFence")
  <2>1. PICK s : s = [sub[t] EXCEPT !.reset = TRUE]
    OBVIOUS
  <2>2. s \in SubmitState /\ s.bos = sub[t].bos /\ s.fd = sub[t].fd /\ s.job = sub[t].job
    BY <2>1, Fields DEF SubmitState
  <2>3. sub' = [sub EXCEPT ![t] = s] /\ th[t].op # "TRANSFER"
    BY <1>1, <1>2, <2>1, HoldingFacts
  <2>4. "inFence" \in Holding \cup {"cleanup"}
    BY DEF Holding
  <2>5. Moved(t) /\ Keeps(t) /\ th'[t].pc = "inFence" /\ sub'[t] = s
    BY <1>1, <1>2, <2>2, <2>3, <2>4, GoHolding
  <2> QED
    BY <2>2, <2>5
<1>3. CASE UNCHANGED sub /\ Goto(t, "inFence")
  BY <1>1, <1>3, SameSub, GoHolding DEF Holding
<1>4. CASE UNCHANGED sub /\ Goto(t, "cleanup")
  BY <1>1, <1>4, SameSub, GoHolding DEF Holding
<1> QED
  BY <1>2, <1>3, <1>4 DEF ParseDeps

LEMMA MoveWaitInFence ==
  ASSUME TypeInv, LocalInv, NEW t \in Thread, WaitInFence(t)
  PROVE  Moved(t) /\ Keeps(t) /\ UNCHANGED sub /\ th'[t].pc \in {"lock", "cleanup"}
<1>1. th[t].pc = "inFence" /\ th[t].pc \in Holding /\ UNCHANGED sub
  BY DEF WaitInFence, Holding
<1>2. CASE Goto(t, "lock")
  BY <1>1, <1>2, SameSub, GoHolding DEF Holding
<1>3. CASE Goto(t, "cleanup")
  BY <1>1, <1>3, SameSub, GoHolding DEF Holding
<1> QED
  BY <1>2, <1>3 DEF WaitInFence

LEMMA MoveLockResv ==
  ASSUME TypeInv, LocalInv, NEW t \in Thread, LockResv(t)
  PROVE  Moved(t) /\ Keeps(t) /\ UNCHANGED sub /\ th'[t].pc \in {"submit", "cleanup"}
<1>1. th[t].pc = "lock" /\ th[t].pc \in Holding /\ UNCHANGED sub
  BY DEF LockResv, Holding
<1>2. CASE Goto(t, "submit")
  BY <1>1, <1>2, SameSub, GoHolding DEF Holding
<1>3. CASE Goto(t, "cleanup")
  BY <1>1, <1>3, SameSub, GoHolding DEF Holding
<1> QED
  BY <1>2, <1>3 DEF LockResv

LEMMA MoveSubmit ==
  ASSUME TypeInv, LocalInv, NEW t \in Thread, Submit(t)
  PROVE  /\ Moved(t)
         /\ \/ th[t].op = "SUBMIT" /\ Keeps(t) /\ UNCHANGED sub /\ th'[t].pc = "publish"
            \/ th[t].op = "TRANSFER" /\ th'[t] = Idle /\ sub'[t] = NoSubmit
<1>1. th[t].pc = "submit" /\ th[t].pc \in Holding
  BY DEF Submit, Holding
<1>2. CASE th[t].op = "SUBMIT"
  <2>1. Goto(t, "publish") /\ UNCHANGED sub
    BY <1>2 DEF Submit
  <2> QED
    BY <1>1, <1>2, <2>1, SameSub, GoHolding DEF Holding
<1>3. CASE th[t].op = "TRANSFER"
  <2>1. Return(t) /\ sub' = [sub EXCEPT ![t] = NoSubmit]
    BY <1>3 DEF Submit
  <2> QED
    BY <1>3, <2>1, MoveBack
<1> QED
  BY <1>1, <1>2, <1>3, HoldingFacts

LEMMA MovePublish ==
  ASSUME TypeInv, LocalInv, NEW t \in Thread, Publish(t)
  PROVE  /\ Moved(t) /\ Keeps(t) /\ th'[t].pc = "cleanup" /\ th[t].op \in {"SUBMIT", "TRANSFER"}
         /\ sub'[t].bos = {} /\ sub'[t].fd = -1
<1>1. th[t].pc = "publish" /\ th[t].pc \in Holding /\ Goto(t, "cleanup")
  BY DEF Publish, Holding
<1>2. LocalOK(th[t], sub[t])
  BY LocalFacts
<1>3. PICK s : s = [sub[t] EXCEPT !.bos = {}, !.fd = -1]
  OBVIOUS
<1>4. s \in SubmitState /\ s.bos = {} /\ s.fd = -1 /\ s.reset = sub[t].reset
  BY <1>3, Fields DEF SubmitState
<1>5. sub' = [sub EXCEPT ![t] = s]
  BY <1>3 DEF Publish, TypeInv
<1>6. sub' \in [Thread -> SubmitState] /\ sub'[t] = s /\ \A u \in Thread : u # t => sub'[u] = sub[u]
  BY <1>4, <1>5, SubFacts
<1>7. /\ th' \in [Thread -> ThreadState] /\ \A u \in Thread : u # t => th'[u] = th[u]
      /\ th'[t].pc = "cleanup" /\ Keeps(t)
  BY <1>1, GotoFacts DEF Pcs
<1>8. LocalOK(th'[t], s)
  BY <1>1, <1>2, <1>4, <1>7, HoldingFacts DEF LocalOK, Holding, Keeps, F
<1> QED
  BY <1>1, <1>4, <1>6, <1>7, <1>8, HoldingFacts DEF Moved, Others

LEMMA MoveCleanupSubmit ==
  ASSUME TypeInv, LocalInv, NEW t \in Thread, CleanupSubmit(t)
  PROVE  /\ Moved(t) /\ th'[t] = Idle /\ sub'[t] = NoSubmit /\ th[t].op \in {"SUBMIT", "TRANSFER"}
         /\ F(t) \in File
<1>1. th[t].pc = "cleanup" /\ LocalOK(th[t], sub[t])
  BY LocalFacts DEF CleanupSubmit
<1>2. th[t].op \in {"SUBMIT", "TRANSFER"} /\ F(t) \in File
  BY <1>1, Fields DEF LocalOK, Holding, F
<1> QED
  BY <1>2, MoveBack DEF CleanupSubmit

(* An ioctl begins. *)
LEMMA BeginFacts ==
  ASSUME TypeInv, LocalInv, NEW t \in Thread, NEW f \in File, NEW op, NEW req, NEW l \in Pcs,
         op \in {"INIT", "SUBMIT", "TRANSFER", "DUMB", "CREATE", "OPEN"},
         req \in Request \cup {NoRequest}, Begin(t, f, op, req, l)
  PROVE  /\ th' \in [Thread -> ThreadState] /\ \A u \in Thread : u # t => th'[u] = th[u]
         /\ th[t] = Idle /\ sub[t] = NoSubmit /\ th[t].pc = "idle" /\ F(t) = NoFile /\ th[t].op = "NONE"
         /\ th'[t].pc = l /\ th'[t].file = f /\ th'[t].op = op /\ th'[t].req = req
         /\ file[f].st = "open" /\ plugged
<1>1. th[t] = Idle /\ file[f].st = "open" /\ plugged
  BY DEF Begin
<1>2. th[t].pc = "idle" /\ F(t) = NoFile /\ th[t].op = "NONE"
  BY <1>1 DEF Idle, F
<1>3. sub[t] = NoSubmit
  BY <1>2, LocalFacts DEF LocalOK
<1>4. PICK p : p = [pc |-> l, file |-> f, op |-> op, req |-> req]
  OBVIOUS
<1>5. p \in ThreadState /\ p.pc = l /\ p.file = f /\ p.op = op /\ p.req = req
  BY <1>4 DEF ThreadState
<1>6. th' = [th EXCEPT ![t] = p]
  BY <1>4 DEF Begin
<1>7. th' \in [Thread -> ThreadState] /\ th'[t] = p /\ \A u \in Thread : u # t => th'[u] = th[u]
  BY <1>5, <1>6 DEF TypeInv
<1> QED
  BY <1>1, <1>2, <1>3, <1>5, <1>7

LEMMA MoveCall ==
  ASSUME TypeInv, LocalInv, NEW t \in Thread, Call(t)
  PROVE  /\ Moved(t) /\ UNCHANGED sub /\ th'[t].pc \in {"ctx", "create"} /\ th[t].pc = "idle"
         /\ th'[t].file \in File /\ file[th'[t].file].st = "open" /\ th'[t].op \notin {"NONE", "OPEN"}
         /\ sub[t] = NoSubmit
<1>1. UNCHANGED sub
  BY DEF Call
<1>2. ASSUME NEW f \in File, NEW op, NEW req, NEW l \in {"ctx", "create"},
             Begin(t, f, op, req, l),
             \/ op \in {"INIT", "CREATE"} /\ l = "ctx" /\ req = NoRequest
             \/ op = "DUMB" /\ l = "create" /\ req = NoRequest
             \/ op \in {"SUBMIT", "TRANSFER"} /\ l = "ctx" /\ req \in Request /\ req.op = op
      PROVE  /\ Moved(t) /\ th'[t].pc \in {"ctx", "create"} /\ th[t].pc = "idle"
             /\ th'[t].file \in File /\ file[th'[t].file].st = "open" /\ th'[t].op \notin {"NONE", "OPEN"}
             /\ sub[t] = NoSubmit
  <2>1. /\ op \in {"INIT", "SUBMIT", "TRANSFER", "DUMB", "CREATE", "OPEN"} /\ l \in Pcs
        /\ req \in Request \cup {NoRequest} /\ op # "OPEN"
    BY <1>2 DEF Pcs
  <2>2. /\ th' \in [Thread -> ThreadState] /\ \A u \in Thread : u # t => th'[u] = th[u]
        /\ th[t] = Idle /\ sub[t] = NoSubmit /\ th[t].pc = "idle" /\ F(t) = NoFile /\ th[t].op = "NONE"
        /\ th'[t].pc = l /\ th'[t].file = f /\ th'[t].op = op /\ th'[t].req = req
        /\ file[f].st = "open" /\ plugged
    BY <1>2, <2>1, BeginFacts
  <2>3. LocalOK(th'[t], sub'[t])
    BY <1>1, <1>2, <2>2 DEF LocalOK, Holding, NoSubmit
  <2> QED
    BY <1>1, <1>2, <2>1, <2>2, <2>3 DEF Moved, Others, TypeInv
<1>3. PICK f \in File :
        \/ ContextInitIoctl(t, f) \/ ExecbufferIoctl(t, f) \/ TransferIoctl(t, f)
        \/ ModeDumbCreate(t, f) \/ ResourceCreateIoctl(t, f)
  BY DEF Call
<1>4. CASE ContextInitIoctl(t, f)
  BY <1>1, <1>2, <1>4 DEF ContextInitIoctl
<1>5. CASE ExecbufferIoctl(t, f)
  BY <1>1, <1>2, <1>5 DEF ExecbufferIoctl
<1>6. CASE TransferIoctl(t, f)
  BY <1>1, <1>2, <1>6 DEF TransferIoctl
<1>7. CASE ModeDumbCreate(t, f)
  BY <1>1, <1>2, <1>7 DEF ModeDumbCreate
<1>8. CASE ResourceCreateIoctl(t, f)
  BY <1>1, <1>2, <1>8 DEF ResourceCreateIoctl
<1> QED
  BY <1>3, <1>4, <1>5, <1>6, <1>7, <1>8

LEMMA MoveImport ==
  ASSUME TypeInv, LocalInv, NEW t \in Thread, Import(t)
  PROVE  /\ Moved(t) /\ th'[t].pc = "handle" /\ th[t].pc = "idle" /\ th'[t].op = "OPEN"
         /\ th'[t].file \in File /\ file[th'[t].file].st = "open" /\ sub[t] = NoSubmit
         /\ sub'[t].fd = -1 /\ sub'[t].job = 0
         /\ \E b \in Bo : sub'[t].bos = {b} /\ Get({b}) /\ \E g \in File : b \in handles[g]
<1>1. PICK f \in File, b \in Bo :
        /\ \E g \in File : b \in handles[g]
        /\ Begin(t, f, "OPEN", NoRequest, "handle")
        /\ sub' = [sub EXCEPT ![t].bos = {b}] /\ Get({b})
  BY DEF Import
<1>2. /\ th' \in [Thread -> ThreadState] /\ \A u \in Thread : u # t => th'[u] = th[u]
      /\ th[t] = Idle /\ sub[t] = NoSubmit /\ th[t].pc = "idle" /\ F(t) = NoFile /\ th[t].op = "NONE"
      /\ th'[t].pc = "handle" /\ th'[t].file = f /\ th'[t].op = "OPEN" /\ th'[t].req = NoRequest
      /\ file[f].st = "open" /\ plugged
  BY <1>1, BeginFacts DEF Pcs
<1>3. PICK s : s = [NoSubmit EXCEPT !.bos = {b}]
  OBVIOUS
<1>4. s \in SubmitState /\ s.bos = {b} /\ s.job = 0 /\ s.fd = -1
  BY <1>3 DEF NoSubmit, SubmitState
<1>5. s = [NoSubmit EXCEPT !.bos = s.bos]
  BY <1>3, <1>4
<1>6. sub' = [sub EXCEPT ![t] = s]
  BY <1>1, <1>2, <1>3
<1>7. sub' \in [Thread -> SubmitState] /\ sub'[t] = s /\ \A u \in Thread : u # t => sub'[u] = sub[u]
  BY <1>4, <1>6, SubFacts
<1>8. LocalOK(th'[t], s)
  BY <1>2, <1>5 DEF LocalOK, Holding
<1> QED
  BY <1>1, <1>2, <1>4, <1>7, <1>8 DEF Moved, Others
-----------------------------------------------------------------------------
(* Commands. *)
LEMMA CmdFacts ==
  ASSUME NEW op, NEW id \in Nat, NEW B \in SUBSET Bo, NEW j \in Nat,
         op \in {"CTX_CREATE", "CTX_DESTROY", "ATTACH", "DETACH", "CREATE", "UNREF", "SUBMIT", "TRANSFER"}
  PROVE  /\ Cmd(op, id, B, j) \in Commands
         /\ Cmd(op, id, B, j).op = op /\ Cmd(op, id, B, j).ctx = id
         /\ Cmd(op, id, B, j).bos = B /\ Cmd(op, id, B, j).job = j
  BY DEF Cmd, Commands

LEMMA CmdFields ==
  ASSUME NEW c \in Commands
  PROVE  /\ c.op \in {"CTX_CREATE", "CTX_DESTROY", "ATTACH", "DETACH", "CREATE", "UNREF", "SUBMIT", "TRANSFER"}
         /\ c.ctx \in Nat /\ c.bos \subseteq Bo /\ c.job \in Nat
  BY DEF Commands

LEMMA FileFields ==
  ASSUME TypeInv, NEW f \in File
  PROVE  /\ file[f] \in FileState /\ file[f].id \in Nat /\ file[f].created \in BOOLEAN
         /\ file[f].st \in {"closed", "open", "closing", "destroyed"} /\ handles[f] \subseteq Bo
<1>1. file[f] \in FileState /\ handles[f] \in SUBSET Bo
  BY DEF TypeInv
<1> QED
  BY <1>1, ExecAssumption DEF FileState

(* One command for each of a set of objects. *)
ForEach(op, id, T) == [i \in DOMAIN SetToSeq(T) |-> Cmd(op, id, {SetToSeq(T)[i]}, 0)]

Each(s, op, id, T) ==
  /\ s \in Seq(Commands)
  /\ \A k \in 1 .. Len(s) :
       s[k].op = op /\ s[k].ctx = id /\ s[k].job = 0 /\ \E b \in T : s[k].bos = {b}
  /\ \A k, l \in 1 .. Len(s) : s[k].bos = s[l].bos => k = l
  /\ \A b \in T : \E k \in 1 .. Len(s) : s[k].bos = {b}

LEMMA EachFacts ==
  ASSUME NEW op, NEW id \in Nat, NEW T \in SUBSET Bo, NEW s,
         op \in {"DETACH", "UNREF"},
         s = ForEach(op, id, T)
  PROVE  Each(s, op, id, T)
<1> DEFINE q == SetToSeq(T)
<1>1. /\ q \in Seq(T) /\ DOMAIN q = 1 .. Len(q) /\ Len(q) \in Nat
      /\ \A k, l \in 1 .. Len(q) : q[k] = q[l] => k = l
      /\ \A b \in T : \E k \in 1 .. Len(q) : q[k] = b
  BY SetSeqFacts
<1>2. s = [i \in DOMAIN q |-> Cmd(op, id, {q[i]}, 0)]
  BY DEF ForEach
<1> HIDE DEF q
<1>3. ASSUME NEW k \in 1 .. Len(q)
      PROVE  /\ s[k] \in Commands /\ s[k].op = op /\ s[k].ctx = id /\ s[k].job = 0
             /\ q[k] \in T /\ s[k].bos = {q[k]}
  <2>1. q[k] \in T
    BY <1>1
  <2>2. s[k] = Cmd(op, id, {q[k]}, 0)
    BY <1>1, <1>2
  <2>3. PICK B : B = {q[k]}
    OBVIOUS
  <2>4. B \in SUBSET Bo
    BY <2>1, <2>3
  <2>5. s[k] = Cmd(op, id, B, 0)
    BY <2>2, <2>3
  <2>6. s[k] \in Commands /\ s[k].op = op /\ s[k].ctx = id /\ s[k].job = 0 /\ s[k].bos = B
    BY <2>4, <2>5, CmdFacts
  <2> QED
    BY <2>1, <2>3, <2>6
<1>4. s \in [1 .. Len(q) -> Commands]
  BY <1>1, <1>2, <1>3
<1>5. s \in Seq(Commands) /\ Len(s) = Len(q)
  BY <1>1, <1>4
<1>6. ASSUME NEW k \in 1 .. Len(q), NEW l \in 1 .. Len(q), s[k].bos = s[l].bos
      PROVE  k = l
  <2>1. {q[k]} = {q[l]}
    BY <1>3, <1>6
  <2>2. q[k] = q[l]
    BY <2>1
  <2> QED
    BY <1>1, <2>2
<1>7. ASSUME NEW b \in T
      PROVE  \E k \in 1 .. Len(q) : s[k].bos = {b}
  <2>1. PICK k \in 1 .. Len(q) : q[k] = b
    BY <1>1
  <2>2. s[k].bos = {b}
    BY <1>3, <2>1
  <2> QED
    BY <2>2
<1>8. \A k \in 1 .. Len(s) :
        s[k].op = op /\ s[k].ctx = id /\ s[k].job = 0 /\ \E b \in T : s[k].bos = {b}
  BY <1>3, <1>5
<1> QED
  BY <1>5, <1>6, <1>7, <1>8, Zenon DEF Each

Dead(B) == {b \in B : ref[b] = 1}
Detaches(f, B) == [i \in DOMAIN SetToSeq(B) |-> CmdContextDetach(file[f].id, {SetToSeq(B)[i]})]

LEMMA UnrefFacts ==
  ASSUME NEW B \in SUBSET Bo
  PROVE  Each(Unrefs(B), "UNREF", 0, Dead(B))
<1>1. PICK T : T = Dead(B)
  OBVIOUS
<1>2. T \in SUBSET Bo
  BY <1>1 DEF Dead
<1>3. PICK s : s = Unrefs(B)
  OBVIOUS
<1>4. s = ForEach("UNREF", 0, T)
  BY <1>1, <1>3, Zenon DEF Unrefs, CmdUnrefResource, Dead, ForEach
<1>5. Each(s, "UNREF", 0, T)
  BY <1>2, <1>4, EachFacts
<1> QED
  BY <1>1, <1>3, <1>5

LEMMA DetachFacts ==
  ASSUME TypeInv, NEW f \in File, NEW B \in SUBSET Bo
  PROVE  Each(Detaches(f, B), "DETACH", file[f].id, B)
<1>1. PICK id : id = file[f].id
  OBVIOUS
<1>2. id \in Nat
  BY <1>1, FileFields
<1>3. PICK s : s = Detaches(f, B)
  OBVIOUS
<1>4. s = ForEach("DETACH", id, B)
  BY <1>1, <1>3, Zenon DEF Detaches, CmdContextDetach, ForEach
<1>5. Each(s, "DETACH", id, B)
  BY <1>2, <1>4, EachFacts
<1> QED
  BY <1>1, <1>3, <1>5

LEMMA QueueType ==
  ASSUME TypeInv, NEW s \in Seq(Commands), Queue(s)
  PROVE  ring' \in Seq(Commands)
  BY PushFacts DEF TypeInv, Queue

LEMMA OneCommand ==
  ASSUME NEW c \in Commands
  PROVE  <<c>> \in Seq(Commands) /\ Len(<<c>>) = 1 /\ <<c>>[1] = c
  OBVIOUS

LEMMA QueueUnrefs ==
  ASSUME TypeInv, NEW B \in SUBSET Bo, Queue(Unrefs(B))
  PROVE  ring' \in Seq(Commands)
<1>1. Unrefs(B) \in Seq(Commands)
  BY UnrefFacts DEF Each
<1> QED
  BY <1>1, QueueType

LEMMA RefType ==
  ASSUME TypeInv, NEW B, Put(B) \/ Get(B) \/ UNCHANGED ref
  PROVE  ref' \in [Bo -> Int]
  BY DEF TypeInv, Put, Get

LEMMA JobType ==
  ASSUME TypeInv
  PROVE  /\ \A n \in (File \cup {NoFile}) \X Int : FenceAlloc(n) \in Seq(Jobs)
         /\ Len(job) \in Nat
<1>1. ASSUME NEW n \in (File \cup {NoFile}) \X Int
      PROVE  FenceAlloc(n) \in Seq(Jobs)
  <2>1. [line |-> n, dep |-> 0] \in Jobs
    BY DEF Jobs
  <2> QED
    BY <2>1 DEF FenceAlloc, TypeInv
<1> QED
  BY <1>1 DEF TypeInv

LEMMA DepType ==
  ASSUME TypeInv, NEW j \in 1 .. Len(job), NEW d \in Nat
  PROVE  /\ [job EXCEPT ![j].dep = d] \in Seq(Jobs)
         /\ Len([job EXCEPT ![j].dep = d]) = Len(job)
         /\ [job EXCEPT ![j].dep = d][j].dep = d
         /\ \A k \in 1 .. Len(job) : [job EXCEPT ![j].dep = d][k].line = job[k].line
         /\ \A k \in 1 .. Len(job) : k # j => [job EXCEPT ![j].dep = d][k].dep = job[k].dep
<1>1. job \in Seq(Jobs) /\ job[j] \in Jobs
  BY DEF TypeInv
<1>2. PICK x : x = [job[j] EXCEPT !.dep = d]
  OBVIOUS
<1>3. x \in Jobs /\ x.dep = d /\ x.line = job[j].line
  BY <1>1, <1>2 DEF Jobs
<1>4. PICK y : y = [job EXCEPT ![j] = x]
  OBVIOUS
<1>5. [job EXCEPT ![j].dep = d] = y
  BY <1>2, <1>4
<1>6. y \in Seq(Jobs) /\ Len(y) = Len(job) /\ y[j] = x /\ \A k \in 1 .. Len(job) : k # j => y[k] = job[k]
  BY <1>1, <1>3, <1>4
<1> QED
  BY <1>3, <1>5, <1>6

LEMMA DepTyped ==
  ASSUME TypeInv, NEW j, NEW d \in Nat
  PROVE  [job EXCEPT ![j].dep = d] \in Seq(Jobs)
<1>1. CASE j \in 1 .. Len(job)
  BY <1>1, DepType
<1>2. CASE j \notin 1 .. Len(job)
  <2>1. job \in Seq(Jobs) /\ DOMAIN job = 1 .. Len(job)
    BY DEF TypeInv
  <2>2. [job EXCEPT ![j].dep = d] = job
    BY <1>2, <2>1
  <2> QED
    BY <2>1, <2>2
<1> QED
  BY <1>1, <1>2

LEMMA TimelineType ==
  ASSUME TypeInv, NEW t \in Thread, th[t].req \in Request
  PROVE  Timeline(t) \in (File \cup {NoFile}) \X Int
<1>1. F(t) \in File \cup {NoFile} /\ th[t].req.ring \in Int
  BY Fields, ExecAssumption DEF RequestType
<1> QED
  BY <1>1 DEF Timeline

LEMMA FenceType ==
  ASSUME TypeInv, NEW B, NEW j \in Nat
  PROVE  AddFence(B, j) \in [Bo -> SUBSET Nat]
  BY DEF TypeInv, AddFence

(* Files, one field at a time. *)
OtherFiles(f) == file' \in [File -> FileState] /\ \A g \in File : g # f => file'[g] = file[g]

LEMMA FileEdit ==
  ASSUME TypeInv, NEW f \in File
  PROVE  /\ \A r \in FileState : file' = [file EXCEPT ![f] = r] => OtherFiles(f) /\ file'[f] = r
         /\ file' = [file EXCEPT ![f].rings = TRUE] =>
              /\ OtherFiles(f) /\ file'[f].id = file[f].id /\ file'[f].st = file[f].st
              /\ file'[f].created = file[f].created
         /\ file' = [file EXCEPT ![f].created = TRUE] =>
              OtherFiles(f) /\ file'[f].id = file[f].id /\ file'[f].st = file[f].st /\ file'[f].created
         /\ \A x \in {"closed", "open", "closing", "destroyed"} : file' = [file EXCEPT ![f].st = x] =>
              /\ OtherFiles(f) /\ file'[f].id = file[f].id /\ file'[f].st = x
              /\ file'[f].created = file[f].created
<1>1. file \in [File -> FileState] /\ file[f] \in FileState
  BY DEF TypeInv
<1>2. ASSUME NEW r \in FileState, file' = [file EXCEPT ![f] = r]
      PROVE  OtherFiles(f) /\ file'[f] = r
  BY <1>1, <1>2 DEF OtherFiles
<1>3. ASSUME file' = [file EXCEPT ![f].rings = TRUE]
      PROVE  /\ OtherFiles(f) /\ file'[f].id = file[f].id /\ file'[f].st = file[f].st
             /\ file'[f].created = file[f].created
  <2>1. PICK r : r = [file[f] EXCEPT !.rings = TRUE]
    OBVIOUS
  <2>2. r \in FileState /\ r.id = file[f].id /\ r.st = file[f].st /\ r.created = file[f].created
    BY <1>1, <2>1 DEF FileState
  <2>3. file' = [file EXCEPT ![f] = r]
    BY <1>3, <2>1
  <2> QED
    BY <1>2, <2>2, <2>3
<1>4. ASSUME file' = [file EXCEPT ![f].created = TRUE]
      PROVE  OtherFiles(f) /\ file'[f].id = file[f].id /\ file'[f].st = file[f].st /\ file'[f].created
  <2>1. PICK r : r = [file[f] EXCEPT !.created = TRUE]
    OBVIOUS
  <2>2. r \in FileState /\ r.id = file[f].id /\ r.st = file[f].st /\ r.created = TRUE
    BY <1>1, <2>1 DEF FileState
  <2>3. file' = [file EXCEPT ![f] = r]
    BY <1>4, <2>1
  <2> QED
    BY <1>2, <2>2, <2>3
<1>5. ASSUME NEW x \in {"closed", "open", "closing", "destroyed"}, file' = [file EXCEPT ![f].st = x]
      PROVE  /\ OtherFiles(f) /\ file'[f].id = file[f].id /\ file'[f].st = x
             /\ file'[f].created = file[f].created
  <2>1. PICK r : r = [file[f] EXCEPT !.st = x]
    OBVIOUS
  <2>2. r \in FileState /\ r.id = file[f].id /\ r.st = x /\ r.created = file[f].created
    BY <1>1, <2>1 DEF FileState
  <2>3. file' = [file EXCEPT ![f] = r]
    BY <1>5, <2>1
  <2> QED
    BY <1>2, <2>2, <2>3
<1> QED
  BY <1>2, <1>3, <1>4, <1>5

LEMMA TypeThread ==
  ASSUME TypeInv, LocalInv, NEW t \in Thread, Call(t) \/ Import(t) \/ CtxLock(t) \/ CtxParams(t)
                                               \/ CtxQueue(t) \/ CtxSet(t)
  PROVE  TypeInv'
<1>1. CASE Call(t)
  BY <1>1, MoveCall DEF TypeInv, Call, fileVars, boVars, userVars, jobVars, hostVars, Moved
<1>2. CASE Import(t)
  <2>1. ref' \in [Bo -> Int]
    BY <1>2, RefType DEF Import
  <2> QED
    BY <1>2, <2>1, MoveImport DEF TypeInv, Import, fileVars, userVars, jobVars, hostVars, Moved
<1>3. CASE CtxLock(t)
  <2>1. ctxLock' \in [File -> Thread \cup {Nobody}]
    BY <1>3 DEF CtxLock, TypeInv
  <2> QED
    BY <1>3, <2>1, MoveCtxLock DEF TypeInv, CtxLock, boVars, userVars, jobVars, hostVars, Moved
<1>4. CASE CtxParams(t)
  <2>1. ctxLock' \in [File -> Thread \cup {Nobody}]
    BY <1>4 DEF CtxParams, TypeInv
  <2>2. F(t) \in File
    BY <1>4, LocalFacts DEF CtxParams
  <2>3. file' \in [File -> FileState]
    BY <1>4, <2>2, FileEdit DEF CtxParams, TypeInv, OtherFiles
  <2> QED
    BY <1>4, <2>1, <2>3, MoveCtxParams DEF TypeInv, CtxParams, boVars, userVars, jobVars, hostVars, Moved
<1>5. CASE CtxQueue(t)
  <2>1. th[t].pc = "ctxQueue"
    BY <1>5 DEF CtxQueue
  <2>2. F(t) \in File
    BY <2>1, LocalFacts
  <2>3. PICK c : c = CmdContextCreate(file[F(t)].id)
    OBVIOUS
  <2>4. c \in Commands
    BY <2>2, <2>3, CmdFacts, FileFields DEF CmdContextCreate
  <2>5. ring' \in Seq(Commands)
    BY <1>5, <2>3, <2>4, OneCommand, QueueType DEF CtxQueue
  <2> QED
    BY <1>5, <2>5, MoveCtxQueue DEF TypeInv, CtxQueue, fileVars, boVars, userVars, jobVars, hostVars, Moved
<1>6. CASE CtxSet(t)
  <2>1. ctxLock' \in [File -> Thread \cup {Nobody}]
    BY <1>6 DEF CtxSet, TypeInv
  <2>2. F(t) \in File
    BY <1>6, LocalFacts DEF CtxSet
  <2>3. file' \in [File -> FileState]
    BY <1>6, <2>2, FileEdit DEF CtxSet, OtherFiles
  <2> QED
    BY <1>6, <2>1, <2>3, MoveCtxSet DEF TypeInv, CtxSet, boVars, userVars, jobVars, hostVars, Moved
<1> QED
  BY <1>1, <1>2, <1>3, <1>4, <1>5, <1>6

LEMMA CreateFacts ==
  ASSUME TypeInv, LocalInv, NEW t \in Thread, Create(t)
  PROVE  \E b \in Bo :
           /\ ref[b] = -1 /\ Moved(t) /\ Keeps(t) /\ th'[t].pc = "handle" /\ sub[t] = NoSubmit
           /\ sub'[t].bos = {b} /\ sub'[t].job = 0 /\ sub'[t].fd = -1 /\ th[t].pc = "create"
           /\ \/ /\ th[t].op = "CREATE"
                 /\ Queue(<<CmdResourceCreate3d(b, Len(job) + 1)>>)
                 /\ ref' = [ref EXCEPT ![b] = 2]
                 /\ job' = FenceAlloc(<<NoFile, 0>>)
                 /\ emitted' = IF plugged THEN Append(emitted, Len(job) + 1) ELSE emitted
                 /\ resvFences' = IF plugged THEN AddFence({b}, Len(job) + 1) ELSE resvFences
              \/ /\ th[t].op = "DUMB"
                 /\ Queue(<<CmdCreateResource(b)>>)
                 /\ ref' = [ref EXCEPT ![b] = 1]
                 /\ UNCHANGED <<job, emitted, resvFences>>
<1>1. PICK b \in Bo, fenced \in BOOLEAN :
        /\ ref[b] = -1
        /\ fenced = (th[t].op = "CREATE")
        /\ LET j == IF fenced THEN Len(job) + 1 ELSE 0
           IN  /\ Queue(<<IF fenced THEN CmdResourceCreate3d(b, j) ELSE CmdCreateResource(b)>>)
               /\ ref' = [ref EXCEPT ![b] = IF fenced THEN 2 ELSE 1]
               /\ IF fenced
                  THEN /\ job' = FenceAlloc(<<NoFile, 0>>)
                       /\ emitted' = IF plugged THEN Append(emitted, j) ELSE emitted
                       /\ resvFences' = IF plugged THEN AddFence({b}, j) ELSE resvFences
                  ELSE UNCHANGED <<job, emitted, resvFences>>
        /\ sub' = [sub EXCEPT ![t].bos = {b}]
  BY Zenon DEF Create
<1>2. th[t].pc = "create" /\ Goto(t, "handle")
  BY DEF Create
<1>3. /\ Moved(t) /\ Keeps(t) /\ th'[t].pc = "handle" /\ sub[t] = NoSubmit
      /\ sub'[t].bos = {b} /\ sub'[t].job = 0 /\ sub'[t].fd = -1
      /\ th[t].op \in {"CREATE", "DUMB"}
  BY <1>1, <1>2, MoveCreate
<1>4. CASE th[t].op = "CREATE"
  <2>1. fenced = TRUE
    BY <1>1, <1>4
  <2>2. /\ Queue(<<CmdResourceCreate3d(b, Len(job) + 1)>>)
        /\ ref' = [ref EXCEPT ![b] = 2]
        /\ job' = FenceAlloc(<<NoFile, 0>>)
        /\ emitted' = IF plugged THEN Append(emitted, Len(job) + 1) ELSE emitted
        /\ resvFences' = IF plugged THEN AddFence({b}, Len(job) + 1) ELSE resvFences
    BY <1>1, <2>1, Zenon
  <2> QED
    BY <1>1, <1>2, <1>3, <1>4, <2>2, Zenon
<1>5. CASE th[t].op # "CREATE"
  <2>1. fenced = FALSE
    BY <1>1, <1>5
  <2>2. /\ Queue(<<CmdCreateResource(b)>>)
        /\ ref' = [ref EXCEPT ![b] = 1]
        /\ UNCHANGED <<job, emitted, resvFences>>
    BY <1>1, <2>1, Zenon
  <2>3. th[t].op = "DUMB"
    BY <1>3, <1>5
  <2> QED
    BY <1>1, <1>2, <1>3, <2>2, <2>3, Zenon
<1> QED
  BY <1>4, <1>5

LEMMA CreateMoves ==
  ASSUME TypeInv, LocalInv, NEW t \in Thread, Create(t)
  PROVE  /\ Moved(t) /\ Keeps(t) /\ th'[t].pc = "handle" /\ sub[t] = NoSubmit /\ th[t].pc = "create"
         /\ sub'[t].job = 0 /\ sub'[t].fd = -1
  BY CreateFacts, Zenon

LEMMA TypeObject ==
  ASSUME TypeInv, LocalInv, NEW t \in Thread, Create(t) \/ HandleCreate(t) \/ Attach(t)
  PROVE  TypeInv'
<1>1. CASE Create(t)
  <2>1. PICK b \in Bo :
          /\ Moved(t)
          /\ \/ /\ Queue(<<CmdResourceCreate3d(b, Len(job) + 1)>>)
                /\ ref' = [ref EXCEPT ![b] = 2]
                /\ job' = FenceAlloc(<<NoFile, 0>>)
                /\ emitted' = IF plugged THEN Append(emitted, Len(job) + 1) ELSE emitted
                /\ resvFences' = IF plugged THEN AddFence({b}, Len(job) + 1) ELSE resvFences
             \/ /\ Queue(<<CmdCreateResource(b)>>)
                /\ ref' = [ref EXCEPT ![b] = 1]
                /\ UNCHANGED <<job, emitted, resvFences>>
    BY <1>1, CreateFacts, Zenon
  <2>2. PICK j : j = Len(job) + 1
    OBVIOUS
  <2>3. j \in Nat /\ <<NoFile, 0>> \in (File \cup {NoFile}) \X Int
    BY <2>2, JobType
  <2>4. PICK c, d : c = CmdResourceCreate3d(b, j) /\ d = CmdCreateResource(b)
    OBVIOUS
  <2>5. c \in Commands /\ d \in Commands
    BY <2>3, <2>4, CmdFacts DEF CmdResourceCreate3d, CmdCreateResource
  <2>6. Queue(<<c>>) \/ Queue(<<d>>)
    BY <2>1, <2>2, <2>4, Zenon
  <2>7. ring' \in Seq(Commands)
    BY <2>5, <2>6, OneCommand, QueueType
  <2>8. job' \in Seq(Jobs)
    BY <2>1, <2>3, JobType DEF TypeInv
  <2>9. emitted' \in Seq(Nat) /\ resvFences' \in [Bo -> SUBSET Nat]
    <3>1. emitted \in Seq(Nat) /\ resvFences \in [Bo -> SUBSET Nat]
      BY DEF TypeInv
    <3>2. Append(emitted, j) \in Seq(Nat) /\ AddFence({b}, j) \in [Bo -> SUBSET Nat]
      BY <2>3, <3>1, FenceType
    <3> QED
      BY <2>1, <2>2, <3>1, <3>2
  <2>10. ref' \in [Bo -> Int]
    BY <2>1 DEF TypeInv
  <2> QED
    BY <1>1, <2>1, <2>7, <2>8, <2>9, <2>10 DEF TypeInv, Create, fileVars, userVars, hostVars, Moved
<1>2. CASE HandleCreate(t)
  <2>0. th[t].pc = "handle"
    BY <1>2 DEF HandleCreate
  <2>1. sub[t].bos \in SUBSET Bo /\ F(t) \in File
    BY <2>0, Fields, LocalFacts
  <2>2. handles' \in [File -> SUBSET Bo]
    BY <1>2, <2>1 DEF HandleCreate, TypeInv
  <2>3. ref' \in [Bo -> Int]
    BY <1>2, RefType DEF HandleCreate
  <2>4. ring' \in Seq(Commands)
    BY <1>2, <2>1, QueueUnrefs DEF HandleCreate, TypeInv
  <2> QED
    BY <1>2, <2>2, <2>3, <2>4, MoveHandleCreate DEF TypeInv, HandleCreate, userVars, jobVars, hostVars, Moved
<1>3. CASE Attach(t)
  <2>0. th[t].pc = "attach"
    BY <1>3 DEF Attach
  <2>1. sub[t].bos \in SUBSET Bo /\ F(t) \in File
    BY <2>0, Fields, LocalFacts
  <2>2. PICK c : c = CmdContextAttach(file[F(t)].id, sub[t].bos)
    OBVIOUS
  <2>3. c \in Commands
    BY <2>1, <2>2, CmdFacts, FileFields DEF CmdContextAttach
  <2>4. ref' \in [Bo -> Int]
    BY <1>3, RefType DEF Attach
  <2>5. ring' \in Seq(Commands)
    BY <1>3, <2>1, <2>2, <2>3, QueueUnrefs, QueueType, OneCommand DEF Attach
  <2> QED
    BY <1>3, <2>4, <2>5, MoveAttach DEF TypeInv, Attach, fileVars, userVars, jobVars, hostVars, Moved
<1> QED
  BY <1>1, <1>2, <1>3

(* A fence waited for is recorded with the submission's own. *)
DepGiven(t) ==
  \/ UNCHANGED job
  \/ \E d \in Nat :
       /\ (d # 0 /\ d = sync) \/ d \in published
       /\ d \in signaled \/ SkipWait(t, d)
       /\ sub[t].job # 0
       /\ job' = [job EXCEPT ![sub[t].job].dep = d]

LEMMA DepGivenFacts ==
  ASSUME TypeInv, NEW t \in Thread, ParseDeps(t) \/ WaitInFence(t)
  PROVE  DepGiven(t)
<1>1. sync \in Nat /\ published \subseteq Nat
  BY DEF TypeInv
<1>2. CASE ParseDeps(t)
  <2>1. \/ UNCHANGED job
        \/ /\ sync # 0 /\ (sync \in signaled \/ SkipWait(t, sync))
           /\ job' = IF sub[t].job = 0 THEN job ELSE [job EXCEPT ![sub[t].job].dep = sync]
    BY <1>2, Zenon DEF ParseDeps
  <2> QED
    BY <1>1, <2>1, Zenon DEF DepGiven
<1>3. CASE WaitInFence(t)
  <2>1. \/ UNCHANGED job
        \/ \E j \in published :
             /\ j \in signaled \/ SkipWait(t, j)
             /\ job' = IF sub[t].job = 0 THEN job ELSE [job EXCEPT ![sub[t].job].dep = j]
    BY <1>3, Zenon DEF WaitInFence
  <2> QED
    BY <1>1, <2>1, Zenon DEF DepGiven
<1> QED
  BY <1>2, <1>3

LEMMA DepGivenType ==
  ASSUME TypeInv, NEW t \in Thread, DepGiven(t)
  PROVE  job' \in Seq(Jobs)
<1>1. CASE UNCHANGED job
  BY <1>1 DEF TypeInv
<1>2. ASSUME NEW d \in Nat, job' = [job EXCEPT ![sub[t].job].dep = d]
      PROVE  job' \in Seq(Jobs)
  <2>1. PICK j : j = sub[t].job
    OBVIOUS
  <2>2. job' = [job EXCEPT ![j].dep = d]
    BY <1>2, <2>1
  <2> QED
    BY <2>2, DepTyped
<1> QED
  BY <1>1, <1>2 DEF DepGiven

LEMMA TypeSubmit ==
  ASSUME TypeInv, LocalInv, NEW t \in Thread,
         \/ InitSubmit(t) \/ ParseDeps(t) \/ WaitInFence(t) \/ LockResv(t)
         \/ Submit(t) \/ Publish(t) \/ CleanupSubmit(t)
  PROVE  TypeInv'
<1>1. CASE InitSubmit(t)
  <2>1. job' \in Seq(Jobs)
    BY <1>1, MoveInitSubmit, JobType, TimelineType DEF InitSubmit, TypeInv
  <2>2. ref' \in [Bo -> Int]
    BY <1>1, MoveInitSubmit, RefType DEF InitFailed, InitDone
  <2>3. fds' \in [Fd -> {"file", "unused", "reserved"}]
    BY <1>1, MoveInitSubmit DEF InitFailed, InitDone, TypeInv
  <2> QED
    BY <1>1, <2>1, <2>2, <2>3, MoveInitSubmit DEF TypeInv, InitSubmit, fileVars, hostVars, Moved
<1>2. CASE ParseDeps(t)
  <2>1. job' \in Seq(Jobs)
    BY <1>2, DepGivenFacts, DepGivenType
  <2> QED
    BY <1>2, <2>1, MoveParseDeps DEF TypeInv, ParseDeps, fileVars, boVars, userVars, hostVars, Moved
<1>3. CASE WaitInFence(t)
  <2>1. job' \in Seq(Jobs)
    BY <1>3, DepGivenFacts, DepGivenType
  <2> QED
    BY <1>3, <2>1, MoveWaitInFence DEF TypeInv, WaitInFence, fileVars, boVars, userVars, hostVars, Moved
<1>4. CASE LockResv(t)
  <2>1. resv' \in [Bo -> Thread \cup {Nobody}]
    BY <1>4 DEF LockResv, TypeInv
  <2> QED
    BY <1>4, <2>1, MoveLockResv DEF TypeInv, LockResv, fileVars, userVars, jobVars, hostVars, Moved
<1>5. CASE Submit(t)
  <2>0. th[t].pc \in Holding
    BY <1>5 DEF Submit, Holding
  <2>1. PICK c : c = Command(t)
    OBVIOUS
  <2>2. c \in Commands
    BY <2>0, <2>1, Fields, FileFields, HoldingFacts, CmdFacts DEF Command, CmdSubmit, CmdTransferHost3d
  <2>3. ring' \in Seq(Commands)
    BY <1>5, <2>1, <2>2, OneCommand, QueueType DEF Submit, TypeInv
  <2>4. PICK j : j = sub[t].job
    OBVIOUS
  <2>5. j \in Nat
    BY <2>4, Fields
  <2>6. emitted' \in Seq(Nat)
    <3>1. emitted \in Seq(Nat) /\ Append(emitted, j) \in Seq(Nat)
      BY <2>5 DEF TypeInv
    <3>2. emitted' = emitted \/ emitted' = Append(emitted, j)
      BY <1>5, <2>4, Zenon DEF Submit
    <3> QED
      BY <3>1, <3>2
  <2>7. resvFences' \in [Bo -> SUBSET Nat]
    BY <1>5, <2>4, <2>5, FenceType DEF Submit, TypeInv
  <2>8. resv' \in [Bo -> Thread \cup {Nobody}]
    BY <1>5 DEF Submit, Unlocked, TypeInv
  <2> QED
    BY <1>5, <2>3, <2>6, <2>7, <2>8, MoveSubmit DEF TypeInv, Submit, fileVars, userVars, hostVars, Moved
<1>6. CASE Publish(t)
  <2>1. sync' \in Nat /\ published' \subseteq Nat
    BY <1>6, Fields DEF Publish, HandOut, ProcessPostDeps, TypeInv
  <2>2. fds' \in [Fd -> {"file", "unused", "reserved"}]
    BY <1>6, Fields DEF Publish, HandOut, InstallOutFenceFd, TypeInv
  <2>3. th' \in [Thread -> ThreadState] /\ sub' \in [Thread -> SubmitState]
    BY <1>6, MovePublish DEF Moved
  <2>4. UNCHANGED <<ctxInit, plugged, fileVars, boVars, jobVars, calls, ring, answered, putq, hostVars>>
    BY <1>6 DEF Publish
  <2> QED
    BY <2>1, <2>2, <2>3, <2>4 DEF TypeInv, fileVars, boVars, jobVars, hostVars
<1>7. CASE CleanupSubmit(t)
  <2>1. sync' \in Nat
    BY <1>7 DEF CleanupSubmit, TypeInv
  <2>2. fds' \in [Fd -> {"file", "unused", "reserved"}]
    BY <1>7, Fields DEF CleanupSubmit, TypeInv
  <2>3. ring' \in Seq(Commands)
    BY <1>7, Fields, QueueUnrefs DEF CleanupSubmit
  <2>4. ref' \in [Bo -> Int]
    BY <1>7, RefType DEF CleanupSubmit
  <2> QED
    BY <1>7, <2>1, <2>2, <2>3, <2>4, MoveCleanupSubmit DEF TypeInv, CleanupSubmit, fileVars, jobVars, hostVars, Moved
<1> QED
  BY <1>1, <1>2, <1>3, <1>4, <1>5, <1>6, <1>7

LEMMA CloseHandlesFacts ==
  ASSUME TypeInv, NEW f \in File, NEW B \in SUBSET Bo, CloseHandles(f, B)
  PROVE  /\ handles' \in [File -> SUBSET Bo] /\ ref' \in [Bo -> Int] /\ ring' \in Seq(Commands)
         /\ handles'[f] = handles[f] \ B /\ \A g \in File : g # f => handles'[g] = handles[g]
         /\ \/ file[f].created /\ Queue(Detaches(f, B)) /\ UNCHANGED ref
            \/ ~file[f].created /\ Queue(Unrefs(B)) /\ Put(B)
<1>1. /\ handles' \in [File -> SUBSET Bo] /\ handles'[f] = handles[f] \ B
      /\ \A g \in File : g # f => handles'[g] = handles[g]
  BY DEF CloseHandles, TypeInv
<1>2. \/ file[f].created /\ Queue(Detaches(f, B)) /\ UNCHANGED ref
      \/ ~file[f].created /\ Queue(Unrefs(B)) /\ Put(B)
  BY Zenon DEF CloseHandles, Detaches
<1>3. ref' \in [Bo -> Int]
  BY <1>2, RefType
<1>4. Detaches(f, B) \in Seq(Commands)
  BY DetachFacts DEF Each
<1>5. ring' \in Seq(Commands)
  BY <1>2, <1>4, QueueType, QueueUnrefs
<1> QED
  BY <1>1, <1>2, <1>3, <1>5

LEMMA OpenFacts ==
  ASSUME TypeInv, NEW f \in File, OpenFile(f)
  PROVE  /\ OtherFiles(f) /\ file[f].st = "closed"
         /\ file'[f].st = "open" /\ ~file'[f].created /\ file'[f].id \in CtxId
         /\ \A g \in File : file[g].id # file'[f].id
<1>1. PICK i \in CtxId \ {file[g].id : g \in File} :
        file' = [file EXCEPT ![f] = [Closed EXCEPT !.id = i, !.st = "open"]]
  BY Zenon DEF OpenFile
<1>2. PICK r : r = [Closed EXCEPT !.id = i, !.st = "open"]
  OBVIOUS
<1>3. r \in FileState /\ r.st = "open" /\ ~r.created /\ r.id = i
  BY <1>1, <1>2 DEF Closed, FileState
<1>4. OtherFiles(f) /\ file'[f] = r
  BY <1>1, <1>2, <1>3, FileEdit
<1> QED
  BY <1>1, <1>3, <1>4 DEF OpenFile

LEMMA PostCloseFacts ==
  ASSUME TypeInv, NEW f \in File, PostClose(f)
  PROVE  /\ OtherFiles(f)
         /\ \/ /\ file[f].st = "closing" /\ file'[f].st = "destroyed"
               /\ file'[f].id = file[f].id /\ file'[f].created = file[f].created
               /\ Queue(IF file[f].created THEN <<CmdContextDestroy(file[f].id)>> ELSE <<>>)
            \/ /\ file[f].st = "destroyed" /\ UNCHANGED ring
               /\ file'[f].st = "closed" /\ file'[f].id = 0 /\ ~file'[f].created
<1>1. Closed \in FileState /\ Closed.st = "closed" /\ Closed.id = 0 /\ ~Closed.created
  BY DEF Closed, FileState
<1> QED
  BY <1>1, FileEdit DEF PostClose

LEMMA TypeFile ==
  ASSUME TypeInv, NEW f \in File,
         OpenFile(f) \/ CloseHandle(f) \/ CloseFile(f) \/ PostClose(f)
  PROVE  TypeInv'
<1>1. CASE OpenFile(f)
  <2>1. UNCHANGED <<ctxInit, plugged, handles, ctxLock, boVars, userVars, th, sub, jobVars, ring,
                    answered, putq, hostVars>>
    BY <1>1, Zenon DEF OpenFile
  <2> QED
    BY <1>1, <2>1, OpenFacts DEF TypeInv, OtherFiles, boVars, userVars, jobVars, hostVars
<1>2. CASE CloseHandle(f)
  <2>1. PICK b \in handles[f] : CloseHandles(f, {b})
    BY <1>2 DEF CloseHandle
  <2>2. {b} \in SUBSET Bo
    BY FileFields
  <2>3. handles' \in [File -> SUBSET Bo] /\ ref' \in [Bo -> Int] /\ ring' \in Seq(Commands)
    BY <2>1, <2>2, CloseHandlesFacts
  <2> QED
    BY <1>2, <2>3 DEF TypeInv, CloseHandle, userVars, jobVars, hostVars
<1>3. CASE CloseFile(f)
  <2>1. handles[f] \in SUBSET Bo
    BY FileFields
  <2>2. handles' \in [File -> SUBSET Bo] /\ ref' \in [Bo -> Int] /\ ring' \in Seq(Commands)
    BY <1>3, <2>1, CloseHandlesFacts DEF CloseFile
  <2>3. file' \in [File -> FileState]
    BY <1>3, FileEdit DEF CloseFile, OtherFiles
  <2> QED
    BY <1>3, <2>2, <2>3 DEF TypeInv, CloseFile, userVars, jobVars, hostVars
<1>4. CASE PostClose(f)
  <2>1. file' \in [File -> FileState]
    BY <1>4, PostCloseFacts DEF OtherFiles
  <2>2. PICK c : c = CmdContextDestroy(file[f].id)
    OBVIOUS
  <2>3. c \in Commands
    BY <2>2, CmdFacts, FileFields DEF CmdContextDestroy
  <2>4. <<c>> \in Seq(Commands) /\ <<>> \in Seq(Commands)
    BY <2>3, OneCommand
  <2>5. Queue(<<c>>) \/ Queue(<<>>) \/ UNCHANGED ring
    BY <1>4, <2>2, Zenon DEF PostClose
  <2>6. ring' \in Seq(Commands)
    BY <2>4, <2>5, QueueType DEF TypeInv
  <2> QED
    BY <1>4, <2>1, <2>6 DEF TypeInv, PostClose, boVars, userVars, jobVars, hostVars
<1> QED
  BY <1>1, <1>2, <1>3, <1>4

LEMMA TypeHost ==
  ASSUME TypeInv, HostRead \/ HostFinish \/ Dequeue \/ FreeWork \/ Unplug
  PROVE  TypeInv'
<1>1. CASE HostRead
  <2>1. ring \in Seq(Commands) /\ ring # <<>> /\ running \in Seq(Commands) /\ answered \in Seq(Commands)
    BY <1>1 DEF HostRead, TypeInv
  <2>2. PICK c : c = Head(ring)
    OBVIOUS
  <2>3. ring' \in Seq(Commands) /\ c \in Commands
    BY <1>1, <2>1, <2>2, ReadFacts DEF HostRead
  <2>4. Append(running, c) \in Seq(Commands) /\ Append(answered, c) \in Seq(Commands)
    BY <2>1, <2>3, AppendFacts
  <2>5. running' \in Seq(Commands) /\ answered' \in Seq(Commands)
    <3>1. (running' = running \/ running' = Append(running, c)) /\ (answered' = answered \/ answered' = Append(answered, c))
      BY <1>1, <2>2, Zenon DEF HostRead
    <3> QED
      BY <2>1, <2>4, <3>1
  <2>6. hostCtx' \subseteq Nat
    <3>1. hostCtx' \subseteq hostCtx \cup {c.ctx}
      BY <1>1, <2>2 DEF HostRead
    <3> QED
      BY <2>3, <3>1, CmdFields DEF TypeInv
  <2>7. hostRes' \subseteq Bo
    <3>1. hostRes' \subseteq hostRes \cup c.bos
      BY <1>1, <2>2 DEF HostRead
    <3> QED
      BY <2>3, <3>1, CmdFields DEF TypeInv
  <2> QED
    BY <1>1, <2>3, <2>5, <2>6, <2>7 DEF TypeInv, HostRead, fileVars, boVars, userVars, jobVars
<1>2. CASE HostFinish
  <2>1. PICK i \in DOMAIN running :
          /\ finished' = finished \cup {running[i].job}
          /\ answered' = Append(answered, running[i])
          /\ running' = RemoveAt(running, i)
    BY <1>2 DEF HostFinish
  <2>2. running \in Seq(Commands) /\ i \in 1 .. Len(running) /\ answered \in Seq(Commands)
    BY DEF TypeInv
  <2>3. running[i] \in Commands
    BY <2>2
  <2>4. running' \in Seq(Commands)
    BY <2>1, <2>2, RemoveFacts
  <2>5. answered' \in Seq(Commands) /\ finished' \subseteq Nat
    <3>1. PICK c : c = running[i]
      OBVIOUS
    <3>2. c \in Commands /\ c.job \in Nat
      BY <2>3, <3>1, CmdFields
    <3>3. answered' = Append(answered, c) /\ finished' = finished \cup {c.job}
      BY <2>1, <3>1
    <3> QED
      BY <2>2, <3>2, <3>3, AppendFacts DEF TypeInv
  <2> QED
    BY <1>2, <2>4, <2>5 DEF TypeInv, HostFinish, fileVars, boVars, userVars, jobVars
<1>3. CASE Dequeue
  <2>1. answered \in Seq(Commands) /\ answered # <<>>
    BY <1>3 DEF Dequeue, TypeInv
  <2>2. answered' \in Seq(Commands) /\ Head(answered) \in Commands
    BY <1>3, <2>1, ReadFacts DEF Dequeue
  <2>3. PICK c : c = Head(answered)
    OBVIOUS
  <2>4. putq' \in Seq(SUBSET Bo)
    <3>1. PICK B : B = c.bos
      OBVIOUS
    <3>2. B \in SUBSET Bo
      BY <2>2, <2>3, <3>1, CmdFields
    <3>3. putq' = putq \/ putq' = Append(putq, B)
      BY <1>3, <2>3, <3>1, Zenon DEF Dequeue
    <3>4. putq \in Seq(SUBSET Bo)
      BY DEF TypeInv
    <3> QED
      BY <3>2, <3>3, <3>4, AppendFacts
  <2>5. signaled' \subseteq Nat
    <3>1. Earlier(c.job) \subseteq Nat
      BY DEF Earlier, TypeInv
    <3> QED
      BY <1>3, <2>3, <3>1 DEF Dequeue, TypeInv
  <2> QED
    BY <1>3, <2>2, <2>4, <2>5 DEF TypeInv, Dequeue, fileVars, boVars, userVars, hostVars
<1>4. CASE FreeWork
  <2>1. putq \in Seq(SUBSET Bo) /\ putq # <<>>
    BY <1>4 DEF FreeWork, TypeInv
  <2>2. putq' \in Seq(SUBSET Bo) /\ Head(putq) \in SUBSET Bo
    BY <1>4, <2>1, ReadFacts DEF FreeWork
  <2>3. ring' \in Seq(Commands) /\ ref' \in [Bo -> Int]
    BY <1>4, <2>2, QueueUnrefs, RefType DEF FreeWork
  <2> QED
    BY <1>4, <2>2, <2>3 DEF TypeInv, FreeWork, fileVars, userVars, jobVars, hostVars
<1>5. CASE Unplug
  BY <1>5 DEF TypeInv, Unplug, fileVars, boVars, userVars, jobVars, hostVars
<1> QED
  BY <1>1, <1>2, <1>3, <1>4, <1>5

LEMMA TypeStep ==
  ASSUME TypeInv, LocalInv, [Next]_vars
  PROVE  TypeInv'
<1>1. CASE UNCHANGED vars
  BY <1>1 DEF TypeInv, vars
<1> QED
  BY <1>1, TypeThread, TypeObject, TypeSubmit, TypeFile, TypeHost
     DEF Next, ThreadNext, HostNext, WorkNext

(* What a file has that threads rely on. *)
SameFiles == \A f \in File : file'[f].st = file[f].st

LEMMA LocalKept ==
  ASSUME TypeInv, LocalInv, NEW t \in Thread, Moved(t), SameFiles,
         th'[t].pc # "idle" => th'[t].file \in File /\ file[th'[t].file].st = "open"
  PROVE  LocalInv'
<1> SUFFICES ASSUME NEW u \in Thread
             PROVE  /\ LocalOK(th'[u], sub'[u])
                    /\ th'[u].pc # "idle" => file'[th'[u].file].st = "open"
  BY DEF LocalInv, F
<1>1. CASE u = t
  BY <1>1 DEF Moved, SameFiles
<1>2. CASE u # t
  <2>1. th'[u] = th[u] /\ sub'[u] = sub[u]
    BY <1>2 DEF Moved, Others
  <2>2. LocalOK(th[u], sub[u]) /\ (th[u].pc # "idle" => th[u].file \in File /\ file[th[u].file].st = "open")
    BY LocalFacts DEF F
  <2> QED
    BY <2>1, <2>2 DEF SameFiles
<1> QED
  BY <1>1, <1>2

LEMMA FilesKept ==
  ASSUME TypeInv, LocalInv, NEW t \in Thread, Call(t) \/ Import(t) \/ ThreadNext(t)
  PROVE  SameFiles
<1>1. CASE CtxParams(t)
  <2>1. F(t) \in File
    BY <1>1, LocalFacts DEF CtxParams
  <2> QED
    BY <1>1, <2>1, FileEdit DEF CtxParams, OtherFiles, SameFiles
<1>2. CASE CtxSet(t)
  <2>1. F(t) \in File
    BY <1>2, LocalFacts DEF CtxSet
  <2> QED
    BY <1>2, <2>1, FileEdit DEF CtxSet, OtherFiles, SameFiles
<1>3. CASE UNCHANGED file
  BY <1>3 DEF SameFiles
<1>4. CASE Create(t) \/ HandleCreate(t) \/ Attach(t) \/ Call(t) \/ Import(t) \/ CtxLock(t) \/ CtxQueue(t)
  BY <1>3, <1>4 DEF Create, HandleCreate, Attach, Call, Import, CtxLock, CtxQueue, fileVars
<1>5. CASE InitSubmit(t) \/ ParseDeps(t) \/ WaitInFence(t) \/ LockResv(t)
  BY <1>3, <1>5 DEF InitSubmit, ParseDeps, WaitInFence, LockResv, fileVars
<1>6. CASE Submit(t) \/ Publish(t) \/ CleanupSubmit(t)
  BY <1>3, <1>6 DEF Submit, Publish, CleanupSubmit, fileVars
<1> QED
  BY <1>1, <1>2, <1>4, <1>5, <1>6 DEF ThreadNext

LEMMA ThreadMoves ==
  ASSUME TypeInv, LocalInv, NEW t \in Thread, ThreadNext(t)
  PROVE  /\ Moved(t) /\ th[t].pc # "idle"
         /\ th'[t].file = F(t) \/ th'[t] = Idle
<1>1. CASE CtxLock(t) \/ CtxParams(t) \/ CtxQueue(t) \/ CtxSet(t)
  BY <1>1, MoveCtxLock, MoveCtxParams, MoveCtxQueue, MoveCtxSet
     DEF CtxLock, CtxParams, CtxQueue, CtxSet, Keeps
<1>2. CASE Create(t)
  BY <1>2, CreateMoves DEF Keeps
<1>3. CASE HandleCreate(t) \/ Attach(t)
  BY <1>3, MoveHandleCreate, MoveAttach DEF HandleCreate, Attach
<1>4. CASE InitSubmit(t) \/ ParseDeps(t) \/ WaitInFence(t) \/ LockResv(t)
  <2>1. th[t].pc # "idle"
    BY <1>4 DEF InitSubmit, ParseDeps, WaitInFence, LockResv
  <2> QED
    BY <1>4, <2>1, MoveInitSubmit, MoveParseDeps, MoveWaitInFence, MoveLockResv DEF Keeps
<1>5. CASE Submit(t) \/ Publish(t) \/ CleanupSubmit(t)
  <2>1. th[t].pc # "idle"
    BY <1>5 DEF Submit, Publish, CleanupSubmit
  <2> QED
    BY <1>5, <2>1, MoveSubmit, MovePublish, MoveCleanupSubmit DEF Keeps
<1> QED
  BY <1>1, <1>2, <1>3, <1>4, <1>5 DEF ThreadNext

LEMMA LocalStep ==
  ASSUME TypeInv, LocalInv, [Next]_vars
  PROVE  LocalInv'
<1>1. ASSUME NEW t \in Thread, Call(t)
      PROVE  LocalInv'
  BY <1>1, MoveCall, FilesKept, LocalKept
<1>2. ASSUME NEW t \in Thread, Import(t)
      PROVE  LocalInv'
  BY <1>2, MoveImport, FilesKept, LocalKept
<1>3. ASSUME NEW t \in Thread, ThreadNext(t)
      PROVE  LocalInv'
  <2>1. Moved(t) /\ (th'[t].file = F(t) \/ th'[t] = Idle) /\ F(t) \in File /\ file[F(t)].st = "open"
    BY <1>3, ThreadMoves, LocalFacts
  <2>2. th'[t].pc # "idle" => th'[t].file = F(t)
    BY <2>1 DEF Idle
  <2> QED
    BY <1>3, <2>1, <2>2, FilesKept, LocalKept
<1>4. ASSUME NEW f \in File, UNCHANGED <<th, sub>>, OtherFiles(f), file[f].st = "open" => \A t \in Thread : F(t) # f
      PROVE  LocalInv'
  <2> SUFFICES ASSUME NEW u \in Thread
               PROVE  /\ LocalOK(th[u], sub[u])
                      /\ th[u].pc # "idle" => file'[F(u)].st = "open"
    BY <1>4 DEF LocalInv, F
  <2> QED
    BY <1>4, LocalFacts DEF OtherFiles
<1>5. ASSUME NEW f \in File, OpenFile(f) \/ PostClose(f)
      PROVE  LocalInv'
  <2>1. UNCHANGED <<th, sub>>
    BY <1>5, Zenon DEF OpenFile, PostClose
  <2> QED
    BY <1>4, <1>5, <2>1, OpenFacts, PostCloseFacts
<1>6. ASSUME NEW f \in File, CloseFile(f)
      PROVE  LocalInv'
  <2>1. OtherFiles(f)
    BY <1>6, FileEdit DEF CloseFile
  <2> QED
    BY <1>4, <1>6, <2>1 DEF CloseFile
<1>7. CASE UNCHANGED <<th, sub, file>>
  BY <1>7 DEF LocalInv, F
<1>8. ASSUME NEW f \in File, CloseHandle(f)
      PROVE  LocalInv'
  BY <1>7, <1>8 DEF CloseHandle
<1>9. CASE HostNext \/ WorkNext \/ Unplug
  <2>1. UNCHANGED <<th, sub, file>>
    BY <1>9, Zenon DEF HostNext, WorkNext, HostRead, HostFinish, Dequeue, FreeWork, Unplug, fileVars
  <2> QED
    BY <1>7, <2>1
<1>10. CASE UNCHANGED vars
  BY <1>7, <1>10 DEF vars
<1> QED
  BY <1>1, <1>2, <1>3, <1>5, <1>6, <1>8, <1>9, <1>10 DEF Next
-----------------------------------------------------------------------------
(* Reservation locks. *)
LEMMA LocksKept ==
  ASSUME TypeInv, LocksReleased, NEW t \in Thread, Moved(t), UNCHANGED resv,
         th[t].pc # "submit", th'[t].pc # "submit"
  PROVE  LocksReleased'
<1> SUFFICES ASSUME NEW b \in Bo, NEW u \in Thread
             PROVE  resv'[b] = u <=> th'[u].pc = "submit" /\ b \in sub'[u].bos
  BY DEF LocksReleased
<1>1. resv[b] = u <=> th[u].pc = "submit" /\ b \in sub[u].bos
  BY DEF LocksReleased
<1> QED
  BY <1>1 DEF Moved, Others

LEMMA LocksTaken ==
  ASSUME TypeInv, LocalInv, LocksReleased, NEW t \in Thread, LockResv(t)
  PROVE  LocksReleased'
<1>1. Moved(t) /\ Keeps(t) /\ UNCHANGED sub /\ th[t].pc = "lock"
  BY MoveLockResv DEF LockResv
<1>2. CASE Goto(t, "cleanup") /\ UNCHANGED resv
  BY <1>1, <1>2, GotoFacts, LocksKept DEF Pcs
<1>3. CASE /\ \A b \in sub[t].bos : resv[b] = Nobody
           /\ resv' = [b \in Bo |-> IF b \in sub[t].bos THEN t ELSE resv[b]]
           /\ Goto(t, "submit")
  <2>1. th'[t].pc = "submit"
    BY <1>3, GotoFacts DEF Pcs
  <2> SUFFICES ASSUME NEW b \in Bo, NEW u \in Thread
               PROVE  resv'[b] = u <=> th'[u].pc = "submit" /\ b \in sub'[u].bos
    BY DEF LocksReleased
  <2>2. resv[b] = u <=> th[u].pc = "submit" /\ b \in sub[u].bos
    BY DEF LocksReleased
  <2>3. resv'[b] = IF b \in sub[t].bos THEN t ELSE resv[b]
    BY <1>3
  <2>4. Nobody # u
    BY ExecAssumption
  <2>5. CASE u = t
    <3>1. resv[b] # t
      BY <1>1, <2>2, <2>5
    <3> QED
      BY <1>1, <2>1, <2>3, <2>5, <3>1
  <2>6. CASE u # t
    <3>1. th'[u] = th[u] /\ sub'[u] = sub[u]
      BY <1>1, <2>6 DEF Moved, Others
    <3> QED
      BY <1>3, <2>2, <2>3, <2>4, <2>6, <3>1
  <2> QED
    BY <2>5, <2>6
<1> QED
  BY <1>2, <1>3 DEF LockResv

LEMMA LocksDropped ==
  ASSUME TypeInv, LocalInv, LocksReleased, NEW t \in Thread, Submit(t)
  PROVE  LocksReleased'
<1>1. Moved(t) /\ th'[t].pc # "submit" /\ resv' = Unlocked(t)
  BY MoveSubmit DEF Submit, Idle
<1> SUFFICES ASSUME NEW b \in Bo, NEW u \in Thread
             PROVE  resv'[b] = u <=> th'[u].pc = "submit" /\ b \in sub'[u].bos
  BY DEF LocksReleased
<1>2. resv[b] = u <=> th[u].pc = "submit" /\ b \in sub[u].bos
  BY DEF LocksReleased
<1>3. resv'[b] = IF resv[b] = t THEN Nobody ELSE resv[b]
  BY <1>1 DEF Unlocked
<1>4. Nobody # u
  BY ExecAssumption
<1>5. CASE u = t
  BY <1>1, <1>3, <1>4, <1>5
<1>6. CASE u # t
  BY <1>1, <1>2, <1>3, <1>4, <1>6 DEF Moved, Others
<1> QED
  BY <1>5, <1>6

LEMMA LockStep ==
  ASSUME TypeInv, LocalInv, LocksReleased, [Next]_vars
  PROVE  LocksReleased'
<1>1. ASSUME NEW t \in Thread, Call(t) \/ Import(t)
      PROVE  LocksReleased'
  <2>1. UNCHANGED resv
    BY <1>1, Zenon DEF Call, Import, boVars
  <2> QED
    BY <1>1, <2>1, MoveCall, MoveImport, LocksKept
<1>2. ASSUME NEW t \in Thread, CtxLock(t) \/ CtxParams(t) \/ CtxQueue(t) \/ CtxSet(t)
      PROVE  LocksReleased'
  <2>1. UNCHANGED resv /\ th[t].pc # "submit"
    BY <1>2 DEF CtxLock, CtxParams, CtxQueue, CtxSet, boVars
  <2>2. Moved(t) /\ th'[t].pc # "submit"
    BY <1>2, MoveCtxLock, MoveCtxParams, MoveCtxQueue, MoveCtxSet DEF Idle
  <2> QED
    BY <2>1, <2>2, LocksKept
<1>3. ASSUME NEW t \in Thread, Create(t) \/ HandleCreate(t) \/ Attach(t)
      PROVE  LocksReleased'
  <2>1. UNCHANGED resv /\ th[t].pc # "submit"
    BY <1>3 DEF Create, HandleCreate, Attach
  <2>2. Moved(t) /\ th'[t].pc # "submit"
    BY <1>3, CreateMoves, MoveHandleCreate, MoveAttach DEF Idle
  <2> QED
    BY <2>1, <2>2, LocksKept
<1>4. ASSUME NEW t \in Thread, InitSubmit(t) \/ ParseDeps(t) \/ WaitInFence(t)
      PROVE  LocksReleased'
  <2>1. UNCHANGED resv /\ th[t].pc # "submit"
    BY <1>4 DEF InitSubmit, ParseDeps, WaitInFence, boVars
  <2>2. Moved(t) /\ th'[t].pc # "submit"
    BY <1>4, MoveInitSubmit, MoveParseDeps, MoveWaitInFence
  <2> QED
    BY <2>1, <2>2, LocksKept
<1>5. ASSUME NEW t \in Thread, Publish(t) \/ CleanupSubmit(t)
      PROVE  LocksReleased'
  <2>1. UNCHANGED resv /\ th[t].pc # "submit"
    BY <1>5 DEF Publish, CleanupSubmit, boVars
  <2>2. Moved(t) /\ th'[t].pc # "submit"
    BY <1>5, MovePublish, MoveCleanupSubmit DEF Idle
  <2> QED
    BY <2>1, <2>2, LocksKept
<1>6. CASE UNCHANGED <<th, sub, resv>>
  BY <1>6 DEF LocksReleased
<1>7. ASSUME NEW f \in File, OpenFile(f) \/ CloseHandle(f) \/ CloseFile(f) \/ PostClose(f)
      PROVE  LocksReleased'
  <2>1. UNCHANGED <<th, sub, resv>>
    BY <1>7, Zenon DEF OpenFile, CloseHandle, CloseFile, PostClose, boVars
  <2> QED
    BY <1>6, <2>1
<1>8. CASE HostNext \/ WorkNext \/ Unplug
  <2>1. UNCHANGED <<th, sub, resv>>
    BY <1>8, Zenon DEF HostNext, WorkNext, HostRead, HostFinish, Dequeue, FreeWork, Unplug, boVars
  <2> QED
    BY <1>6, <2>1
<1>9. CASE UNCHANGED vars
  BY <1>6, <1>9 DEF vars
<1> QED
  BY <1>1, <1>2, <1>3, <1>4, <1>5, <1>7, <1>8, <1>9, LocksTaken, LocksDropped DEF Next, ThreadNext
-----------------------------------------------------------------------------
(* Descriptor numbers. *)
LEMMA FdKept ==
  ASSUME TypeInv, FdInv, NEW t \in Thread, Moved(t), UNCHANGED fds, sub'[t].fd = sub[t].fd
  PROVE  FdInv'
<1>1. \A u \in Thread : sub'[u].fd = sub[u].fd
  BY DEF Moved, Others
<1> QED
  BY <1>1 DEF FdInv, FdOwned

LEMMA FdReserved ==
  ASSUME TypeInv, LocalInv, FdInv, NEW t \in Thread, InitSubmit(t)
  PROVE  FdInv'
<1>1. Moved(t) /\ sub[t].fd = -1 /\ (InitFailed(t) \/ InitDone(t)) /\ -1 \notin Fd
  BY MoveInitSubmit, ExecAssumption DEF NoSubmit
<1>2. PICK n : n = sub'[t].fd
  OBVIOUS
<1>3. \A u \in Thread : u # t => sub'[u].fd = sub[u].fd
  BY <1>1 DEF Moved, Others
<1>4. CASE n \in {0, -1} /\ UNCHANGED fds
  BY <1>1, <1>2, <1>3, <1>4 DEF FdInv, FdOwned
<1>5. CASE n \in Fd /\ fds[n] = "unused" /\ fds' = [fds EXCEPT ![n] = "reserved"]
  <2>1. fds'[n] = "reserved" /\ \A m \in Fd : m # n => fds'[m] = fds[m]
    BY <1>5 DEF TypeInv
  <2>2. n # 0 => \A u \in Thread : sub[u].fd # n
    BY <1>5 DEF FdInv, FdOwned
  <2>3. FdOwned'
    BY <1>1, <1>2, <1>3, <2>1, <2>2 DEF FdInv, FdOwned
  <2>4. ASSUME NEW u \in Thread, NEW w \in Thread, sub'[u].fd = sub'[w].fd, sub'[u].fd \in Fd \ {0}
        PROVE  u = w
    BY <1>1, <1>2, <1>3, <2>2, <2>4 DEF FdInv
  <2> QED
    BY <2>3, <2>4 DEF FdInv
<1> QED
  BY <1>1, <1>2, <1>4, <1>5 DEF InitFailed, InitDone

LEMMA FdReturned ==
  ASSUME TypeInv, LocalInv, FdInv, NEW t \in Thread, Publish(t) \/ CleanupSubmit(t)
  PROVE  FdInv'
<1>1. Moved(t) /\ sub'[t].fd = -1 /\ -1 \notin Fd
  BY MovePublish, MoveCleanupSubmit, ExecAssumption DEF NoSubmit
<1>2. \A u \in Thread : u # t => sub'[u].fd = sub[u].fd
  BY <1>1 DEF Moved, Others
<1>3. PICK x \in {"file", "unused"} : fds' = IF sub[t].fd >= 0 THEN [fds EXCEPT ![sub[t].fd] = x] ELSE fds
  BY DEF Publish, HandOut, InstallOutFenceFd, CleanupSubmit
<1>4. PICK n : n = sub[t].fd
  OBVIOUS
<1>5. n \in Fd \cup {-1} /\ (n \in Fd <=> n >= 0)
  <2>1. n \in Fd \cup {-1}
    BY <1>4, Fields
  <2> QED
    BY <2>1, ExecAssumption
<1>6. \A m \in Fd : m # n => fds'[m] = fds[m]
  BY <1>3, <1>4 DEF TypeInv
<1>7. n \in Fd => fds'[n] # "reserved"
  BY <1>3, <1>4, <1>5 DEF TypeInv
<1>8. \A u \in Thread : n \in Fd \ {0} /\ sub[u].fd = n => u = t
  BY <1>4 DEF FdInv
<1>9. FdOwned'
  <2> SUFFICES ASSUME NEW m \in Fd \ {0}
               PROVE  fds'[m] = "reserved" <=> \E u \in Thread : sub'[u].fd = m
    BY DEF FdOwned
  <2>1. fds[m] = "reserved" <=> \E u \in Thread : sub[u].fd = m
    BY DEF FdInv, FdOwned
  <2>2. CASE m = n
    BY <1>1, <1>2, <1>7, <1>8, <2>2
  <2>3. CASE m # n
    <3>1. fds'[m] = fds[m]
      BY <1>6, <2>3
    <3>2. (\E u \in Thread : sub'[u].fd = m) <=> \E u \in Thread : sub[u].fd = m
      BY <1>1, <1>2, <1>4, <2>3
    <3> QED
      BY <2>1, <3>1, <3>2
  <2> QED
    BY <2>2, <2>3
<1> QED
  BY <1>1, <1>2, <1>9 DEF FdInv

LEMMA FdStep ==
  ASSUME TypeInv, LocalInv, FdInv, [Next]_vars
  PROVE  FdInv'
<1>1. ASSUME NEW t \in Thread, Call(t) \/ Import(t)
      PROVE  FdInv'
  <2>1. UNCHANGED fds
    BY <1>1, Zenon DEF Call, Import, userVars
  <2>2. Moved(t) /\ sub'[t].fd = sub[t].fd
    BY <1>1, MoveCall, MoveImport DEF NoSubmit
  <2> QED
    BY <2>1, <2>2, FdKept
<1>2. ASSUME NEW t \in Thread, CtxLock(t) \/ CtxParams(t) \/ CtxQueue(t) \/ CtxSet(t)
      PROVE  FdInv'
  <2>1. UNCHANGED fds
    BY <1>2 DEF CtxLock, CtxParams, CtxQueue, CtxSet, userVars
  <2> QED
    BY <1>2, <2>1, MoveCtxLock, MoveCtxParams, MoveCtxQueue, MoveCtxSet, FdKept
<1>3. ASSUME NEW t \in Thread, Create(t) \/ HandleCreate(t) \/ Attach(t)
      PROVE  FdInv'
  <2>1. UNCHANGED fds
    BY <1>3 DEF Create, HandleCreate, Attach, userVars
  <2>2. CASE Create(t)
    BY <2>1, <2>2, CreateMoves, FdKept DEF NoSubmit
  <2>3. CASE HandleCreate(t)
    BY <2>1, <2>3, MoveHandleCreate, FdKept DEF NoSubmit
  <2>4. CASE Attach(t)
    <3>1. th[t].pc = "attach" /\ LocalOK(th[t], sub[t])
      BY <2>4, LocalFacts DEF Attach
    <3>2. sub[t] = [NoSubmit EXCEPT !.bos = sub[t].bos]
      BY <3>1, Fields DEF LocalOK, Holding
    <3>3. sub[t].fd = -1
      BY <3>2 DEF NoSubmit
    <3> QED
      BY <2>1, <2>4, <3>3, MoveAttach, FdKept DEF NoSubmit
  <2> QED
    BY <1>3, <2>2, <2>3, <2>4
<1>4. ASSUME NEW t \in Thread, ParseDeps(t) \/ WaitInFence(t) \/ LockResv(t)
      PROVE  FdInv'
  <2>1. UNCHANGED fds
    BY <1>4 DEF ParseDeps, WaitInFence, LockResv, userVars
  <2> QED
    BY <1>4, <2>1, MoveParseDeps, MoveWaitInFence, MoveLockResv, FdKept
<1>5. ASSUME NEW t \in Thread, Submit(t)
      PROVE  FdInv'
  <2>1. UNCHANGED fds /\ th[t].pc \in Holding
    BY <1>5 DEF Submit, userVars, Holding
  <2>2. Moved(t) /\ sub'[t].fd = sub[t].fd
    BY <1>5, <2>1, MoveSubmit, HoldingFacts DEF NoSubmit
  <2> QED
    BY <2>1, <2>2, FdKept
<1>6. CASE UNCHANGED <<sub, fds>>
  BY <1>6 DEF FdInv, FdOwned
<1>7. ASSUME NEW f \in File, OpenFile(f) \/ CloseHandle(f) \/ CloseFile(f) \/ PostClose(f)
      PROVE  FdInv'
  <2>1. UNCHANGED <<sub, fds>>
    BY <1>7, Zenon DEF OpenFile, CloseHandle, CloseFile, PostClose, userVars
  <2> QED
    BY <1>6, <2>1
<1>8. CASE HostNext \/ WorkNext \/ Unplug
  <2>1. UNCHANGED <<sub, fds>>
    BY <1>8, Zenon DEF HostNext, WorkNext, HostRead, HostFinish, Dequeue, FreeWork, Unplug, userVars
  <2> QED
    BY <1>6, <2>1
<1>9. CASE UNCHANGED vars
  BY <1>6, <1>9 DEF vars
<1> QED
  BY <1>1, <1>2, <1>3, <1>4, <1>5, <1>7, <1>8, <1>9, FdReserved, FdReturned DEF Next, ThreadNext
-----------------------------------------------------------------------------
(* The order in which fences are emitted. *)
LEMMA BeforeFacts ==
  ASSUME NEW e \in Seq(Nat), NEW a, NEW b, Before(e, a, b)
  PROVE  /\ In(e, a) /\ In(e, b)
         /\ OnceEach(e) => ~Before(e, b, a) /\ a # b
         /\ OnceEach(e) => \A m, n \in 1 .. Len(e) : e[m] = a /\ e[n] = b => m < n
<1>1. PICK m \in 1 .. Len(e), n \in 1 .. Len(e) : m < n /\ e[m] = a /\ e[n] = b
  BY DEF Before
<1>2. In(e, a) /\ In(e, b)
  BY <1>1 DEF In
<1>3. ASSUME OnceEach(e), NEW k \in 1 .. Len(e), NEW l \in 1 .. Len(e), e[k] = a, e[l] = b
      PROVE  k < l
  <2>1. k = m /\ l = n
    BY <1>1, <1>3 DEF OnceEach
  <2> QED
    BY <1>1, <2>1
<1>4. ASSUME OnceEach(e), Before(e, b, a)
      PROVE  FALSE
  <2>1. PICK k \in 1 .. Len(e), l \in 1 .. Len(e) : k < l /\ e[k] = b /\ e[l] = a
    BY <1>4 DEF Before
  <2>2. l < k
    BY <1>3, <1>4, <2>1
  <2> QED
    BY <2>1, <2>2
<1> QED
  BY <1>2, <1>3, <1>4

LEMMA EmitFacts ==
  ASSUME NEW e \in Seq(Nat), NEW j \in Nat
  PROVE  /\ \A a : In(Append(e, j), a) <=> In(e, a) \/ a = j
         /\ \A a, b : Before(e, a, b) => Before(Append(e, j), a, b)
         /\ \A a : In(e, a) => Before(Append(e, j), a, j)
         /\ OnceEach(e) /\ ~In(e, j) => OnceEach(Append(e, j))
<1>1. PICK x : x = Append(e, j)
  OBVIOUS
<1>2. /\ x \in Seq(Nat) /\ Len(x) = Len(e) + 1 /\ Len(e) \in Nat
      /\ x[Len(e) + 1] = j /\ Len(e) + 1 \in 1 .. Len(x)
      /\ \A k \in 1 .. Len(e) : k \in 1 .. Len(x) /\ x[k] = e[k]
      /\ \A k \in 1 .. Len(x) : k \in 1 .. Len(e) \/ k = Len(e) + 1
  BY <1>1, AppendFacts
<1>3. \A a : In(x, a) <=> In(e, a) \/ a = j
  BY <1>2 DEF In
<1>4. \A a, b : Before(e, a, b) => Before(x, a, b)
  BY <1>2 DEF Before
<1>5. ASSUME NEW a, In(e, a)
      PROVE  Before(x, a, j)
  <2>1. PICK m \in 1 .. Len(e) : e[m] = a
    BY <1>5 DEF In
  <2>2. m < Len(e) + 1
    BY <1>2
  <2> QED
    BY <1>2, <2>1, <2>2 DEF Before
<1>6. OnceEach(e) /\ ~In(e, j) => OnceEach(x)
  BY <1>2 DEF OnceEach, In
<1> QED
  BY <1>1, <1>3, <1>4, <1>5, <1>6

Plain(s) == s \in Seq(Commands) /\ \A k \in 1 .. Len(s) : s[k].job = 0

(* Commands without a fence do not matter, *)
LEMMA OrderPlain ==
  ASSUME NEW e \in Seq(Nat), NEW q \in Seq(Commands), NEW g \in Seq(Commands), NEW fin \in SUBSET Nat,
         NEW s, Plain(s), OrderOK(e, q, g, fin)
  PROVE  OrderOK(e, q \o s, g, fin)
<1>1. PICK x : x = q \o s
  OBVIOUS
<1>2. /\ x \in Seq(Commands) /\ Len(q) \in Nat
      /\ \A k \in 1 .. Len(q) : k \in 1 .. Len(x) /\ x[k] = q[k]
      /\ \A k \in 1 .. Len(x) : x[k].job # 0 => k \in 1 .. Len(q) /\ x[k] = q[k]
  <2>1. s \in Seq(Commands)
    BY DEF Plain
  <2>2. /\ x \in Seq(Commands) /\ Len(q) \in Nat
        /\ \A k \in 1 .. Len(q) : k \in 1 .. Len(x) /\ x[k] = q[k]
        /\ \A k \in 1 .. Len(x) :
              \/ k \in 1 .. Len(q) /\ x[k] = q[k]
              \/ k - Len(q) \in 1 .. Len(s) /\ k > Len(q) /\ x[k] = s[k - Len(q)]
    BY <1>1, <2>1, PushFacts
  <2> QED
    BY <2>2 DEF Plain
<1>3. InOrder(e, x)
  BY <1>2 DEF OrderOK, InOrder
<1>4. \A k \in 1 .. Len(g), l \in 1 .. Len(x) : x[l].job # 0 => Before(e, g[k].job, x[l].job)
  BY <1>2 DEF OrderOK
<1>5. \A j \in Nat : j # 0 => (Has(x, j) <=> Has(q, j))
  BY <1>2 DEF Has
<1>6. OrderOK(e, x, g, fin)
  BY <1>3, <1>4, <1>5 DEF OrderOK
<1> QED
  BY <1>1, <1>6

(* and one with a fence comes last, as its fence does. *)
LEMMA OrderFenced ==
  ASSUME NEW e \in Seq(Nat), NEW q \in Seq(Commands), NEW g \in Seq(Commands), NEW fin \in SUBSET Nat,
         NEW c \in Commands, c.job # 0, ~In(e, c.job), OrderOK(e, q, g, fin)
  PROVE  OrderOK(Append(e, c.job), q \o <<c>>, g, fin)
<1>1. PICK x, y, j : x = q \o <<c>> /\ y = Append(e, c.job) /\ j = c.job
  OBVIOUS
<1>2. j \in Nat /\ j # 0 /\ ~In(e, j) /\ y = Append(e, j)
  BY <1>1, CmdFields
<1>3. /\ \A a : In(y, a) <=> In(e, a) \/ a = j
      /\ \A a, b : Before(e, a, b) => Before(y, a, b)
      /\ \A a : In(e, a) => Before(y, a, j)
  BY <1>2, EmitFacts
<1>4. /\ x \in Seq(Commands) /\ Len(x) = Len(q) + 1 /\ Len(q) \in Nat
      /\ x[Len(q) + 1] = c /\ Len(q) + 1 \in 1 .. Len(x)
      /\ \A k \in 1 .. Len(q) : k \in 1 .. Len(x) /\ x[k] = q[k]
      /\ \A k \in 1 .. Len(x) : k \in 1 .. Len(q) \/ k = Len(q) + 1
  BY <1>1
<1>5. \A k \in 1 .. Len(q) : q[k].job # 0 => In(e, q[k].job)
  <2> SUFFICES ASSUME NEW k \in 1 .. Len(q), q[k].job # 0
               PROVE  In(e, q[k].job)
    OBVIOUS
  <2>1. q[k] \in Commands
    OBVIOUS
  <2>2. q[k].job \in Nat /\ Has(q, q[k].job)
    BY <2>1, CmdFields DEF Has
  <2> QED
    BY <2>2 DEF OrderOK
<1>6. \A k \in 1 .. Len(g) : In(e, g[k].job)
  <2> SUFFICES ASSUME NEW k \in 1 .. Len(g)
               PROVE  In(e, g[k].job)
    OBVIOUS
  <2>1. g[k] \in Commands
    OBVIOUS
  <2>2. g[k].job \in Nat /\ Has(g, g[k].job) /\ g[k].job # 0
    BY <2>1, CmdFields DEF Has, OrderOK
  <2> QED
    BY <2>2 DEF OrderOK
<1>7. InOrder(y, x)
  <2> SUFFICES ASSUME NEW k \in 1 .. Len(x), NEW l \in 1 .. Len(x), k < l, x[k].job # 0, x[l].job # 0
               PROVE  Before(y, x[k].job, x[l].job)
    BY DEF InOrder
  <2>1. k \in 1 .. Len(q) /\ x[k] = q[k]
    BY <1>4
  <2>2. CASE l \in 1 .. Len(q)
    <3>1. x[l] = q[l]
      BY <1>4, <2>2
    <3>2. Before(e, q[k].job, q[l].job)
      BY <2>1, <2>2, <3>1 DEF OrderOK, InOrder
    <3> QED
      BY <1>3, <2>1, <3>1, <3>2
  <2>3. CASE l = Len(q) + 1
    <3>1. x[l].job = j /\ In(e, q[k].job)
      BY <1>1, <1>4, <1>5, <2>1, <2>3
    <3> QED
      BY <1>3, <2>1, <3>1
  <2> QED
    BY <1>4, <2>2, <2>3
<1>8. InOrder(y, g)
  BY <1>3 DEF OrderOK, InOrder
<1>9. ASSUME NEW k \in 1 .. Len(g), NEW l \in 1 .. Len(x), x[l].job # 0
      PROVE  Before(y, g[k].job, x[l].job)
  <2>1. CASE l \in 1 .. Len(q)
    <3>1. x[l] = q[l]
      BY <1>4, <2>1
    <3>2. Before(e, g[k].job, q[l].job)
      BY <1>9, <2>1, <3>1 DEF OrderOK
    <3> QED
      BY <1>3, <3>1, <3>2
  <2>2. CASE l = Len(q) + 1
    BY <1>1, <1>3, <1>4, <1>6, <2>2
  <2> QED
    BY <1>4, <2>1, <2>2
<1>10. ASSUME NEW a \in Nat
       PROVE  a # 0 /\ (Has(x, a) \/ Has(g, a)) <=> In(y, a) /\ a \notin fin
  <2>1. Has(x, a) <=> Has(q, a) \/ a = j
    BY <1>1, <1>4 DEF Has
  <2>2. j \notin fin
    BY <1>2 DEF OrderOK
  <2>3. a # 0 /\ (Has(q, a) \/ Has(g, a)) <=> In(e, a) /\ a \notin fin
    BY DEF OrderOK
  <2> QED
    BY <1>2, <1>3, <2>1, <2>2, <2>3
<1>11. OrderOK(y, x, g, fin)
  BY <1>3, <1>7, <1>8, <1>9, <1>10 DEF OrderOK
<1> QED
  BY <1>1, <1>11

(* The host reads in order, *)
LEMMA OrderRead ==
  ASSUME NEW e \in Seq(Nat), NEW q \in Seq(Commands), NEW g \in Seq(Commands), NEW fin \in SUBSET Nat,
         q # <<>>, NEW h, h = (IF Head(q).job = 0 THEN g ELSE Append(g, Head(q))), OrderOK(e, q, g, fin)
  PROVE  OrderOK(e, Tail(q), h, fin)
<1>1. PICK x, c : x = Tail(q) /\ c = Head(q)
  OBVIOUS
<1>2. /\ x \in Seq(Commands) /\ Len(x) = Len(q) - 1 /\ Len(q) \in Nat
      /\ c = q[1] /\ 1 \in 1 .. Len(q) /\ c \in Commands
      /\ \A k \in 1 .. Len(x) : k + 1 \in 1 .. Len(q) /\ x[k] = q[k + 1]
      /\ \A k \in 1 .. Len(q) : k = 1 \/ (k - 1 \in 1 .. Len(x) /\ x[k - 1] = q[k])
  BY <1>1, ReadFacts
<1>3. InOrder(e, x)
  <2> SUFFICES ASSUME NEW k \in 1 .. Len(x), NEW l \in 1 .. Len(x), k < l, x[k].job # 0, x[l].job # 0
               PROVE  Before(e, x[k].job, x[l].job)
    BY DEF InOrder
  <2>1. k + 1 \in 1 .. Len(q) /\ l + 1 \in 1 .. Len(q) /\ k + 1 < l + 1 /\ x[k] = q[k + 1] /\ x[l] = q[l + 1]
    BY <1>2
  <2> QED
    BY <2>1 DEF OrderOK, InOrder
<1>4. \A j \in Nat : Has(q, j) <=> Has(x, j) \/ j = c.job
  <2> SUFFICES ASSUME NEW j \in Nat
               PROVE  Has(q, j) <=> Has(x, j) \/ j = c.job
    OBVIOUS
  <2>1. ASSUME Has(q, j)
        PROVE  Has(x, j) \/ j = c.job
    BY <1>2, <2>1 DEF Has
  <2>2. ASSUME Has(x, j)
        PROVE  Has(q, j)
    BY <1>2, <2>2 DEF Has
  <2>3. j = c.job => Has(q, j)
    BY <1>2 DEF Has
  <2> QED
    BY <2>1, <2>2, <2>3
<1>5. \A k \in 1 .. Len(g), l \in 1 .. Len(x) : x[l].job # 0 => Before(e, g[k].job, x[l].job)
  BY <1>2 DEF OrderOK
<1>6. CASE c.job = 0
  <2>1. h = g
    BY <1>1, <1>6
  <2>2. OrderOK(e, x, g, fin)
    BY <1>3, <1>4, <1>5, <1>6 DEF OrderOK
  <2> QED
    BY <1>1, <2>1, <2>2
<1>7. CASE c.job # 0
  <2>1. h = Append(g, c)
    BY <1>1, <1>7
  <2>2. /\ h \in Seq(Commands) /\ Len(h) = Len(g) + 1 /\ Len(g) \in Nat
        /\ h[Len(g) + 1] = c /\ Len(g) + 1 \in 1 .. Len(h)
        /\ \A k \in 1 .. Len(g) : k \in 1 .. Len(h) /\ h[k] = g[k]
        /\ \A k \in 1 .. Len(h) : k \in 1 .. Len(g) \/ k = Len(g) + 1
    BY <1>2, <2>1, AppendFacts
  <2>3. \A k \in 1 .. Len(g) : Before(e, g[k].job, c.job)
    BY <1>2, <1>7 DEF OrderOK
  <2>4. InOrder(e, h)
    <3> SUFFICES ASSUME NEW k \in 1 .. Len(h), NEW l \in 1 .. Len(h), k < l, h[k].job # 0, h[l].job # 0
                 PROVE  Before(e, h[k].job, h[l].job)
      BY DEF InOrder
    <3>1. k \in 1 .. Len(g) /\ h[k] = g[k]
      BY <2>2
    <3>2. CASE l \in 1 .. Len(g)
      BY <2>2, <3>1, <3>2 DEF OrderOK, InOrder
    <3>3. CASE l = Len(g) + 1
      BY <2>2, <2>3, <3>1, <3>3
    <3> QED
      BY <2>2, <3>2, <3>3
  <2>5. ASSUME NEW k \in 1 .. Len(h), NEW l \in 1 .. Len(x), x[l].job # 0
        PROVE  Before(e, h[k].job, x[l].job)
    <3>1. CASE k \in 1 .. Len(g)
      BY <1>5, <2>2, <2>5, <3>1
    <3>2. CASE k = Len(g) + 1
      <4>1. h[k] = q[1] /\ x[l] = q[l + 1] /\ l + 1 \in 1 .. Len(q) /\ 1 < l + 1
        BY <1>2, <2>2, <3>2
      <4> QED
        BY <1>2, <1>7, <2>5, <4>1 DEF OrderOK, InOrder
    <3> QED
      BY <2>2, <3>1, <3>2
  <2>6. \A k \in 1 .. Len(h) : h[k].job # 0
    BY <1>7, <2>2 DEF OrderOK
  <2>7. \A j \in Nat : Has(h, j) <=> Has(g, j) \/ j = c.job
    BY <2>2 DEF Has
  <2>8. \A j \in Nat : Has(x, j) \/ Has(h, j) <=> Has(q, j) \/ Has(g, j)
    BY <1>4, <2>7
  <2>9. OrderOK(e, x, h, fin)
    BY <1>3, <2>4, <2>5, <2>6, <2>8 DEF OrderOK
  <2> QED
    BY <1>1, <2>9
<1> QED
  BY <1>6, <1>7

(* and finishes each timeline in order. *)
LEMMA OrderFinish ==
  ASSUME NEW e \in Seq(Nat), NEW q \in Seq(Commands), NEW g \in Seq(Commands), NEW fin \in SUBSET Nat,
         NEW jobs, OrderOK(e, q, g, fin), LineOK(e, fin, jobs), OnceEach(e), NEW i \in 1 .. Len(g),
         \A k \in 1 .. i - 1 : jobs[g[k].job].line # jobs[g[i].job].line
  PROVE  /\ OrderOK(e, q, RemoveAt(g, i), fin \cup {g[i].job})
         /\ LineOK(e, fin \cup {g[i].job}, jobs)
<1> DEFINE x == RemoveAt(g, i)
<1>1. PICK j : j = g[i].job
  OBVIOUS
<1>2. /\ x \in Seq(Commands) /\ Len(x) = Len(g) - 1 /\ Len(g) \in Nat
      /\ \A k \in 1 .. Len(x) : Skip(k, i) \in 1 .. Len(g) /\ x[k] = g[Skip(k, i)]
      /\ \A k \in 1 .. Len(g) : k = i \/ \E l \in 1 .. Len(x) : Skip(l, i) = k /\ x[l] = g[k]
  BY RemoveFacts, Zenon
<1> HIDE DEF x
<1>3. g[i] \in Commands
  OBVIOUS
<1>4. j \in Nat /\ j # 0 /\ In(e, j) /\ j \notin fin
  <2>1. j \in Nat /\ j # 0 /\ Has(g, j)
    BY <1>1, <1>3, CmdFields DEF Has, OrderOK
  <2> QED
    BY <2>1 DEF OrderOK
<1>5. \A k \in 1 .. Len(g) : k # i => g[k].job # j
  <2> SUFFICES ASSUME NEW k \in 1 .. Len(g), k # i
               PROVE  g[k].job # j
    OBVIOUS
  <2>1. g[k].job # 0 /\ g[i].job # 0
    BY DEF OrderOK
  <2>2. Before(e, g[k].job, g[i].job) \/ Before(e, g[i].job, g[k].job)
    <3>1. k < i \/ i < k
      BY <1>2
    <3> QED
      BY <2>1, <3>1 DEF OrderOK, InOrder
  <2> QED
    BY <1>1, <2>2, BeforeFacts
<1>6. \A l \in 1 .. Len(q) : q[l].job # j
  BY <1>1, <1>4, BeforeFacts DEF OrderOK
<1>7. InOrder(e, x)
  <2> SUFFICES ASSUME NEW k \in 1 .. Len(x), NEW l \in 1 .. Len(x), k < l
               PROVE  Before(e, x[k].job, x[l].job)
    BY DEF InOrder
  <2>1. /\ Skip(k, i) \in 1 .. Len(g) /\ Skip(l, i) \in 1 .. Len(g)
        /\ x[k] = g[Skip(k, i)] /\ x[l] = g[Skip(l, i)]
    BY <1>2
  <2>2. Skip(k, i) < Skip(l, i)
    BY SkipFacts
  <2> QED
    BY <2>1, <2>2 DEF OrderOK, InOrder
<1>8. \A k \in 1 .. Len(x), l \in 1 .. Len(q) : q[l].job # 0 => Before(e, x[k].job, q[l].job)
  BY <1>2 DEF OrderOK
<1>9. \A k \in 1 .. Len(x) : x[k].job # 0
  BY <1>2 DEF OrderOK
<1>10. \A a \in Nat : Has(x, a) <=> Has(g, a) /\ a # j
  <2> SUFFICES ASSUME NEW a \in Nat
               PROVE  Has(x, a) <=> Has(g, a) /\ a # j
    OBVIOUS
  <2>1. ASSUME Has(x, a)
        PROVE  Has(g, a) /\ a # j
    <3>1. PICK k \in 1 .. Len(x) : x[k].job = a
      BY <2>1 DEF Has
    <3>2. Skip(k, i) # i /\ Skip(k, i) \in 1 .. Len(g) /\ x[k] = g[Skip(k, i)]
      BY <1>2, SkipFacts
    <3> QED
      BY <1>5, <3>1, <3>2 DEF Has
  <2>2. ASSUME Has(g, a), a # j
        PROVE  Has(x, a)
    <3>1. PICK k \in 1 .. Len(g) : g[k].job = a
      BY <2>2 DEF Has
    <3>2. k # i
      BY <1>1, <2>2, <3>1
    <3> QED
      BY <1>2, <3>1, <3>2 DEF Has
  <2> QED
    BY <2>1, <2>2
<1>11. ~Has(q, j)
  BY <1>6 DEF Has
<1>12. OrderOK(e, q, x, fin \cup {j})
  <2>1. \A a \in Nat : a # 0 /\ (Has(q, a) \/ Has(x, a)) <=> In(e, a) /\ a \notin fin \cup {j}
    BY <1>4, <1>10, <1>11 DEF OrderOK
  <2>2. \A a \in fin \cup {j} : In(e, a)
    BY <1>4 DEF OrderOK
  <2> QED
    BY <1>7, <1>8, <1>9, <2>1, <2>2 DEF OrderOK
<1>13. LineOK(e, fin \cup {j}, jobs)
  <2> SUFFICES ASSUME NEW m \in 1 .. Len(e), NEW n \in 1 .. Len(e), m < n, e[n] \in fin \cup {j},
                      jobs[e[m]].line = jobs[e[n]].line, e[m] \notin fin \cup {j}
               PROVE  FALSE
    BY DEF LineOK
  <2>1. e[n] = j
    BY DEF LineOK
  <2>2. e[m] \in Nat /\ In(e, e[m])
    BY DEF In
  <2>3. Has(q, e[m]) \/ Has(g, e[m])
    BY <2>2 DEF OrderOK
  <2>4. CASE Has(q, e[m])
    <3>1. PICK l \in 1 .. Len(q) : q[l].job = e[m] /\ q[l].job # 0
      BY <2>2, <2>4 DEF Has, OrderOK
    <3>2. Before(e, j, e[m])
      BY <1>1, <3>1 DEF OrderOK
    <3>3. n < m
      BY <2>1, <3>2, BeforeFacts
    <3> QED
      BY <3>3
  <2>5. CASE Has(g, e[m])
    <3>1. PICK k \in 1 .. Len(g) : g[k].job = e[m]
      BY <2>5 DEF Has
    <3>2. k # i
      BY <1>1, <3>1
    <3>3. ~(k < i)
      <4>1. k < i => k \in 1 .. i - 1
        OBVIOUS
      <4> QED
        BY <1>1, <2>1, <3>1, <4>1
    <3>4. Before(e, j, e[m])
      <4>1. i < k /\ g[i].job # 0 /\ g[k].job # 0
        BY <1>2, <3>2, <3>3 DEF OrderOK
      <4>2. Before(e, g[i].job, g[k].job)
        BY <4>1 DEF OrderOK, InOrder
      <4> QED
        BY <1>1, <3>1, <4>2
    <3>5. n < m
      BY <2>1, <3>4, BeforeFacts
    <3> QED
      BY <3>5
  <2> QED
    BY <2>3, <2>4, <2>5
<1> QED
  BY <1>1, <1>12, <1>13 DEF x
-----------------------------------------------------------------------------
(* Steps at which nothing is emitted, read or finished. *)
LinesKept ==
  /\ Len(job') >= Len(job)
  /\ \A j \in 1 .. Len(job) : job'[j].line = job[j].line

HoldKept(t) ==
  /\ th'[t].pc \in Holding => th[t].pc \in Holding /\ sub'[t].job = sub[t].job /\ Keeps(t)
  /\ th'[t].pc \in Holding \ {"publish"} => th[t].pc # "publish"

SettledKept == \A j \in Nat : Settled(j) => Settled(j)'

LEMMA SettledThread ==
  ASSUME TypeInv, TypeInv', LinesKept, NEW t \in Thread, Moved(t),
         HoldKept(t) \/ sub'[t].job \notin 1 .. Len(job)
  PROVE  SettledKept
<1> SUFFICES ASSUME NEW j \in Nat, Settled(j)
             PROVE  Settled(j)'
  BY DEF SettledKept
<1>1. j \in 1 .. Len(job) /\ j \in 1 .. Len(job')
  <2>1. Len(job) \in Nat /\ Len(job') \in Nat
    BY DEF TypeInv
  <2> QED
    BY <2>1 DEF Settled, LinesKept
<1>2. ASSUME NEW u \in Thread, Pending(u)'
      PROVE  sub'[u].job # j
  <2>1. CASE u # t
    <3>1. th'[u] = th[u] /\ sub'[u] = sub[u]
      BY <2>1 DEF Moved, Others
    <3> QED
      BY <1>2, <3>1 DEF Settled, Pending
  <2>2. CASE u = t /\ HoldKept(t)
    <3>1. Pending(t) /\ sub'[t].job = sub[t].job
      BY <1>2, <2>2 DEF Pending, HoldKept, Holding
    <3> QED
      BY <2>2, <3>1 DEF Settled
  <2>3. CASE u = t /\ sub'[t].job \notin 1 .. Len(job)
    BY <1>1, <2>3
  <2> QED
    BY <2>1, <2>2, <2>3
<1> QED
  BY <1>1, <1>2 DEF Settled

LEMMA SettledSame ==
  ASSUME UNCHANGED <<th, sub, job>>
  PROVE  SettledKept
  BY DEF SettledKept, Settled, Pending

LEMMA EmitSame ==
  ASSUME TypeInv, EmitInv, UNCHANGED emitted, SettledKept
  PROVE  EmitInv'
<1>1. \A m \in 1 .. Len(emitted) : emitted[m] \in Nat
  BY DEF TypeInv
<1> QED
  BY <1>1 DEF EmitInv, SettledKept

LEMMA GivenSame ==
  ASSUME TypeInv, GivenInv, UNCHANGED <<published, sync>>, SettledKept,
         \A j \in 1 .. Len(job') :
           job'[j].dep = 0 \/ (j \in 1 .. Len(job) /\ job'[j].dep = job[j].dep)
  PROVE  GivenInv'
<1>1. /\ \A j \in 1 .. Len(job) : job[j].dep \in Nat
      /\ published \subseteq Nat /\ sync \in Nat
  <2>1. \A j \in 1 .. Len(job) : job[j] \in Jobs
    BY DEF TypeInv
  <2> QED
    BY <2>1 DEF TypeInv, Jobs
<1> QED
  BY <1>1 DEF GivenInv, SettledKept

LEMMA HoldThread ==
  ASSUME TypeInv, TypeInv', HoldInv, LinesKept, NEW t \in Thread, Moved(t), HoldKept(t)
  PROVE  HoldInv'
<1>1. \A u \in Thread : th'[u].pc \in Holding =>
        th[u].pc \in Holding /\ sub'[u].job = sub[u].job /\ Timeline(u)' = Timeline(u)
  <2> SUFFICES ASSUME NEW u \in Thread, th'[u].pc \in Holding
               PROVE  th[u].pc \in Holding /\ sub'[u].job = sub[u].job /\ Timeline(u)' = Timeline(u)
    OBVIOUS
  <2>1. CASE u = t
    BY <2>1 DEF HoldKept, Keeps, Timeline, F
  <2>2. CASE u # t
    <3>1. th'[u] = th[u] /\ sub'[u] = sub[u]
      BY <2>2 DEF Moved, Others
    <3> QED
      BY <3>1 DEF Timeline, F
  <2> QED
    BY <2>1, <2>2
<1>2. Len(job) \in Nat /\ Len(job') \in Nat
  BY DEF TypeInv
<1> SUFFICES ASSUME NEW u \in Thread, th'[u].pc \in Holding, sub'[u].job # 0
             PROVE  /\ sub'[u].job \in 1 .. Len(job')
                    /\ job'[sub'[u].job].line = Timeline(u)'
                    /\ \A w \in Thread : th'[w].pc \in Holding /\ sub'[w].job = sub'[u].job => w = u
  BY DEF HoldInv
<1>3. /\ sub[u].job \in 1 .. Len(job)
      /\ job[sub[u].job].line = Timeline(u)
      /\ \A w \in Thread : th[w].pc \in Holding /\ sub[w].job = sub[u].job => w = u
  BY <1>1 DEF HoldInv
<1> QED
  BY <1>1, <1>2, <1>3 DEF LinesKept

LEMMA HoldSame ==
  ASSUME HoldInv, UNCHANGED <<th, sub, job>>
  PROVE  HoldInv'
  BY DEF HoldInv, Timeline, F

LEMMA PlainFacts ==
  /\ \A c \in Commands : c.job = 0 => Plain(<<c>>)
  /\ Plain(<<>>)
  /\ \A s, op, id, T : Each(s, op, id, T) => Plain(s)
<1>1. \A c \in Commands : c.job = 0 => Plain(<<c>>)
  BY OneCommand DEF Plain
<1>2. Plain(<<>>)
  BY DEF Plain
<1>3. \A s, op, id, T : Each(s, op, id, T) => Plain(s)
  BY DEF Each, Plain
<1> QED
  BY <1>1, <1>2, <1>3

PlainRing == UNCHANGED ring \/ \E s : Plain(s) /\ Queue(s)
Quiet == UNCHANGED <<emitted, running, finished, signaled, answered, resvFences>> /\ PlainRing

LEMMA QuietOrder ==
  ASSUME TypeInv, TypeInv', EmitInv, OrderInv, DoneInv, BusyInv, Quiet, LinesKept
  PROVE  OrderInv' /\ DoneInv' /\ BusyInv'
<1>1. emitted \in Seq(Nat) /\ ring \in Seq(Commands) /\ running \in Seq(Commands) /\ finished \in SUBSET Nat
  BY DEF TypeInv
<1>2. LineOK(emitted, finished, job')
  <2>1. \A m \in 1 .. Len(emitted) : job'[emitted[m]].line = job[emitted[m]].line
    BY DEF EmitInv, Settled, LinesKept
  <2> QED
    BY <2>1 DEF OrderInv, LineOK
<1>3. DoneInv'
  BY DEF DoneInv, Quiet
<1>4. Listed(running)'
  BY DEF BusyInv, Listed, Quiet
<1>5. CASE UNCHANGED ring
  BY <1>2, <1>3, <1>4, <1>5 DEF OrderInv, BusyInv, Listed, Quiet
<1>6. ASSUME NEW s, Plain(s), ring' = ring \o s
      PROVE  OrderInv' /\ BusyInv'
  <2>1. OrderOK(emitted, ring', running, finished)
    BY <1>1, <1>6, OrderPlain DEF OrderInv
  <2>2. Listed(ring)'
    <3> SUFFICES ASSUME NEW k \in 1 .. Len(ring'), ring'[k].job # 0, NEW b \in ring'[k].bos
                 PROVE  ring'[k].job \in resvFences[b]
      BY DEF Listed, Quiet
    <3>1. s \in Seq(Commands)
      BY <1>6 DEF Plain
    <3>2. \/ k \in 1 .. Len(ring) /\ ring'[k] = ring[k]
          \/ k - Len(ring) \in 1 .. Len(s) /\ ring'[k] = s[k - Len(ring)]
      BY <1>1, <1>6, <3>1, PushFacts
    <3> QED
      BY <1>6, <3>2 DEF Plain, BusyInv, Listed
  <2> QED
    BY <1>2, <1>4, <2>1, <2>2 DEF OrderInv, BusyInv, Quiet
<1> QED
  BY <1>3, <1>5, <1>6 DEF Quiet, PlainRing, Queue

LEMMA QuietDep ==
  ASSUME TypeInv, TypeInv', EmitInv, GivenInv, DepInv, Quiet, LinesKept,
         \A j \in 1 .. Len(job') :
           job'[j].dep = 0 \/ (j \in 1 .. Len(job) /\ job'[j].dep = job[j].dep)
  PROVE  DepInv'
<1> SUFFICES ASSUME NEW j \in 1 .. Len(job'), job'[j].dep # 0
             PROVE  DepOK(finished', emitted', job', j, job'[j].dep)
  BY DEF DepInv
<1>1. PICK d : d = job'[j].dep
  OBVIOUS
<1>2. j \in 1 .. Len(job) /\ d = job[j].dep /\ DepOK(finished, emitted, job, j, d) /\ Settled(d)
  BY <1>1 DEF DepInv, GivenInv
<1>3. job'[j].line = job[j].line /\ job'[d].line = job[d].line
  BY <1>2 DEF LinesKept, Settled
<1>4. DepOK(finished', emitted', job', j, d)
  BY <1>2, <1>3 DEF DepOK, Quiet
<1> QED
  BY <1>1, <1>4

WorkInv == JobInv /\ OrderInv /\ DoneInv /\ BusyInv /\ DepInv

LEMMA WorkQuiet ==
  ASSUME TypeInv, TypeInv', WorkInv, UNCHANGED <<job, published, sync>>, Quiet,
         \/ UNCHANGED <<th, sub>>
         \/ \E t \in Thread : Moved(t) /\ HoldKept(t)
  PROVE  WorkInv'
<1>1. LinesKept
  BY DEF LinesKept, TypeInv
<1>2. SettledKept /\ HoldInv'
  BY <1>1, SettledThread, SettledSame, HoldThread, HoldSame DEF WorkInv, JobInv
<1>3. EmitInv'
  BY <1>2, EmitSame DEF WorkInv, JobInv, Quiet
<1>4. GivenInv'
  BY <1>2, GivenSame DEF WorkInv, JobInv
<1> QED
  BY <1>1, <1>2, <1>3, <1>4, QuietOrder, QuietDep DEF WorkInv, JobInv

LEMMA QuietCtx ==
  ASSUME TypeInv, LocalInv, TypeInv', WorkInv, NEW t \in Thread,
         Call(t) \/ Import(t) \/ CtxLock(t) \/ CtxParams(t) \/ CtxQueue(t) \/ CtxSet(t)
  PROVE  WorkInv'
<1>1. /\ UNCHANGED <<job, published, sync>>
      /\ UNCHANGED <<emitted, running, finished, signaled, answered, resvFences>>
  BY Zenon DEF Call, Import, CtxLock, CtxParams, CtxQueue, CtxSet, boVars, userVars, jobVars, hostVars
<1>2. Moved(t) /\ th'[t].pc \notin Holding
  BY MoveCall, MoveImport, MoveCtxLock, MoveCtxParams, MoveCtxQueue, MoveCtxSet DEF Holding, Idle
<1>3. CASE CtxQueue(t)
  <2>1. F(t) \in File
    BY <1>3, LocalFacts DEF CtxQueue
  <2>2. PICK c : c = CmdContextCreate(file[F(t)].id)
    OBVIOUS
  <2>3. c \in Commands /\ c.job = 0
    BY <2>1, <2>2, CmdFacts, FileFields DEF CmdContextCreate
  <2>4. Plain(<<c>>) /\ Queue(<<c>>)
    BY <1>3, <2>2, <2>3, PlainFacts DEF CtxQueue
  <2>5. PlainRing
    BY <2>4 DEF PlainRing
  <2> QED
    BY <1>1, <1>2, <2>5, WorkQuiet DEF Quiet, HoldKept
<1>4. CASE Call(t) \/ Import(t) \/ CtxLock(t) \/ CtxParams(t) \/ CtxSet(t)
  <2>1. UNCHANGED ring
    BY <1>4, Zenon DEF Call, Import, CtxLock, CtxParams, CtxSet
  <2> QED
    BY <1>1, <1>2, <2>1, WorkQuiet DEF Quiet, PlainRing, HoldKept
<1> QED
  BY <1>3, <1>4

LEMMA PlainUnrefs ==
  ASSUME NEW B \in SUBSET Bo, Queue(Unrefs(B))
  PROVE  PlainRing
<1>1. Plain(Unrefs(B))
  BY UnrefFacts, PlainFacts
<1> QED
  BY <1>1 DEF PlainRing

LEMMA QuietObject ==
  ASSUME TypeInv, LocalInv, TypeInv', WorkInv, NEW t \in Thread,
         HandleCreate(t) \/ Attach(t) \/ LockResv(t)
  PROVE  WorkInv'
<1>1. /\ UNCHANGED <<job, published, sync>>
      /\ UNCHANGED <<emitted, running, finished, signaled, answered, resvFences>>
  BY Zenon DEF HandleCreate, Attach, LockResv, userVars, jobVars, hostVars
<1>2. Moved(t) /\ HoldKept(t)
  <2>1. CASE HandleCreate(t) \/ Attach(t)
    BY <2>1, MoveHandleCreate, MoveAttach DEF Holding, Idle, HoldKept
  <2>2. CASE LockResv(t)
    BY <2>2, MoveLockResv DEF LockResv, Holding, HoldKept
  <2> QED
    BY <2>1, <2>2
<1>3. PlainRing
  <2>1. sub[t].bos \in SUBSET Bo
    BY Fields
  <2>2. CASE HandleCreate(t)
    BY <2>1, <2>2, PlainUnrefs DEF HandleCreate, PlainRing
  <2>3. CASE Attach(t)
    <3>1. F(t) \in File
      BY <2>3, LocalFacts DEF Attach
    <3>2. PICK c : c = CmdContextAttach(file[F(t)].id, sub[t].bos)
      OBVIOUS
    <3>3. c \in Commands /\ c.job = 0
      BY <2>1, <3>1, <3>2, CmdFacts, FileFields DEF CmdContextAttach
    <3>4. Plain(<<c>>)
      BY <3>3, PlainFacts
    <3>5. Queue(<<c>>) \/ Queue(Unrefs(sub[t].bos))
      BY <2>3, <3>2, Zenon DEF Attach
    <3> QED
      BY <2>1, <3>4, <3>5, PlainUnrefs DEF PlainRing
  <2>4. CASE LockResv(t)
    BY <2>4 DEF LockResv, PlainRing
  <2> QED
    BY <2>2, <2>3, <2>4
<1> QED
  BY <1>1, <1>2, <1>3, WorkQuiet DEF Quiet

LEMMA QuietFile ==
  ASSUME TypeInv, LocalInv, TypeInv', WorkInv, NEW f \in File,
         OpenFile(f) \/ CloseHandle(f) \/ CloseFile(f) \/ PostClose(f)
  PROVE  WorkInv'
<1>1. /\ UNCHANGED <<job, published, sync, th, sub>>
      /\ UNCHANGED <<emitted, running, finished, signaled, answered, resvFences>>
  BY Zenon DEF OpenFile, CloseHandle, CloseFile, PostClose, boVars, userVars, jobVars, hostVars
<1>2. ASSUME NEW B \in SUBSET Bo, CloseHandles(f, B)
      PROVE  PlainRing
  <2>1. Plain(Detaches(f, B))
    BY DetachFacts, PlainFacts
  <2>2. Queue(Detaches(f, B)) \/ Queue(Unrefs(B))
    BY <1>2, CloseHandlesFacts
  <2> QED
    BY <2>1, <2>2, PlainUnrefs DEF PlainRing
<1>3. PlainRing
  <2>1. CASE OpenFile(f)
    BY <2>1, Zenon DEF OpenFile, PlainRing
  <2>2. CASE CloseHandle(f)
    <3>1. PICK b \in handles[f] : CloseHandles(f, {b})
      BY <2>2 DEF CloseHandle
    <3>2. {b} \in SUBSET Bo
      BY FileFields
    <3> QED
      BY <1>2, <3>1, <3>2
  <2>3. CASE CloseFile(f)
    BY <1>2, <2>3, FileFields DEF CloseFile
  <2>4. CASE PostClose(f)
    <3>1. PICK c : c = CmdContextDestroy(file[f].id)
      OBVIOUS
    <3>2. c \in Commands /\ c.job = 0
      BY <3>1, CmdFacts, FileFields DEF CmdContextDestroy
    <3>3. Plain(<<c>>) /\ Plain(<<>>)
      BY <3>2, PlainFacts
    <3>4. Queue(<<c>>) \/ Queue(<<>>) \/ UNCHANGED ring
      BY <2>4, <3>1, Zenon DEF PostClose
    <3> QED
      BY <3>3, <3>4 DEF PlainRing
  <2> QED
    BY <2>1, <2>2, <2>3, <2>4
<1> QED
  BY <1>1, <1>3, WorkQuiet DEF Quiet

LEMMA QuietWork ==
  ASSUME TypeInv, LocalInv, TypeInv', WorkInv, FreeWork \/ Unplug \/ UNCHANGED vars
  PROVE  WorkInv'
<1>1. /\ UNCHANGED <<job, published, sync, th, sub>>
      /\ UNCHANGED <<emitted, running, finished, signaled, answered, resvFences>>
  BY Zenon DEF FreeWork, Unplug, vars, boVars, userVars, jobVars, hostVars
<1>2. PlainRing
  <2>1. CASE FreeWork
    <3>1. putq \in Seq(SUBSET Bo) /\ putq # <<>> /\ Queue(Unrefs(Head(putq)))
      BY <2>1 DEF FreeWork, TypeInv
    <3>2. Head(putq) \in SUBSET Bo
      BY <3>1, ReadFacts
    <3> QED
      BY <3>1, <3>2, PlainUnrefs
  <2>2. CASE Unplug \/ UNCHANGED vars
    BY <2>2 DEF Unplug, vars, PlainRing
  <2> QED
    BY <2>1, <2>2
<1> QED
  BY <1>1, <1>2, WorkQuiet DEF Quiet

LEMMA WorkDeps ==
  ASSUME TypeInv, LocalInv, TypeInv', WorkInv, NEW t \in Thread, ParseDeps(t) \/ WaitInFence(t)
  PROVE  WorkInv'
<1>1. /\ UNCHANGED <<published, sync, ring>>
      /\ UNCHANGED <<emitted, running, finished, signaled, answered, resvFences>>
  BY Zenon DEF ParseDeps, WaitInFence, boVars, userVars, hostVars
<1>2. Moved(t) /\ HoldKept(t) /\ th[t].pc \in Holding \ {"publish"}
  BY MoveParseDeps, MoveWaitInFence DEF ParseDeps, WaitInFence, HoldKept, Holding
<1>3. Quiet
  BY <1>1 DEF Quiet, PlainRing
<1>4. CASE UNCHANGED job
  BY <1>1, <1>2, <1>3, <1>4, WorkQuiet
<1>5. ASSUME NEW d \in Nat, (d # 0 /\ d = sync) \/ d \in published, d \in signaled \/ SkipWait(t, d),
             sub[t].job # 0, job' = [job EXCEPT ![sub[t].job].dep = d]
      PROVE  WorkInv'
  <2>1. PICK i : i = sub[t].job
    OBVIOUS
  <2>2. i \in 1 .. Len(job) /\ job[i].line = Timeline(t) /\ i # 0
    BY <1>2, <1>5, <2>1 DEF WorkInv, JobInv, HoldInv
  <2>3. job' = [job EXCEPT ![i].dep = d]
    BY <1>5, <2>1
  <2>4. /\ Len(job') = Len(job) /\ job'[i].dep = d
        /\ \A k \in 1 .. Len(job) : job'[k].line = job[k].line
        /\ \A k \in 1 .. Len(job) : k # i => job'[k].dep = job[k].dep
    BY <2>2, <2>3, DepType
  <2>5. LinesKept
    BY <2>4 DEF LinesKept, TypeInv
  <2>6. SettledKept
    BY <1>2, <2>5, SettledThread
  <2>7. Settled(d)
    BY <1>5 DEF WorkInv, JobInv, GivenInv
  <2>8. EmitInv' /\ HoldInv'
    BY <1>1, <1>2, <2>5, <2>6, EmitSame, HoldThread DEF WorkInv, JobInv
  <2>9. GivenInv'
    <3>1. \A j \in published : Settled(j)'
      BY <2>6 DEF WorkInv, JobInv, GivenInv, SettledKept, TypeInv
    <3>3. \A x : x = sync /\ x # 0 => Settled(x)'
      BY <2>6 DEF WorkInv, JobInv, GivenInv, SettledKept, TypeInv
    <3>2. ASSUME NEW j \in 1 .. Len(job'), NEW x, x = job'[j].dep, x # 0
          PROVE  Settled(x)'
      <4>1. j \in 1 .. Len(job) /\ job[j] \in Jobs
        BY <2>4 DEF TypeInv
      <4>2. CASE j = i
        BY <2>4, <2>6, <2>7, <3>2, <4>2 DEF SettledKept
      <4>3. CASE j # i
        <5>1. x = job[j].dep /\ x \in Nat
          BY <2>4, <3>2, <4>1, <4>3 DEF Jobs
        <5>2. Settled(x)
          BY <3>2, <4>1, <5>1 DEF WorkInv, JobInv, GivenInv
        <5> QED
          BY <2>6, <5>1, <5>2 DEF SettledKept
      <4> QED
        BY <4>2, <4>3
    <3> QED
      BY <1>1, <3>1, <3>2, <3>3 DEF GivenInv
  <2>10. OrderInv' /\ DoneInv' /\ BusyInv'
    BY <1>3, <2>5, QuietOrder DEF WorkInv, JobInv
  <2>11. ASSUME NEW j \in 1 .. Len(job'), job'[j].dep # 0
         PROVE  DepOK(finished', emitted', job', j, job'[j].dep)
    <3>0. j \in 1 .. Len(job)
      BY <2>4
    <3>1. CASE j # i
      <4>1. PICK x : x = job[j].dep
        OBVIOUS
      <4>2. x = job'[j].dep /\ DepOK(finished, emitted, job, j, x) /\ Settled(x)
        BY <2>4, <2>11, <3>0, <3>1, <4>1 DEF WorkInv, DepInv, JobInv, GivenInv
      <4>3. job'[j].line = job[j].line /\ job'[x].line = job[x].line
        BY <2>4, <3>0, <4>2 DEF Settled
      <4> QED
        BY <1>1, <4>2, <4>3 DEF DepOK
    <3>2. CASE j = i
      <4>1. CASE d \in signaled
        BY <1>1, <2>4, <3>2, <4>1 DEF WorkInv, DoneInv, DepOK
      <4>2. CASE SkipWait(t, d)
        <5>1. d \in 1 .. Len(job)
          BY <2>7 DEF Settled
        <5>2. job[d].line = job[i].line
          BY <2>2, <4>2 DEF SkipWait
        <5>3. ~In(emitted, i)
          BY <1>2, <1>5, <2>1 DEF WorkInv, JobInv, EmitInv, Settled, Pending, In
        <5> QED
          BY <1>1, <2>2, <2>4, <3>2, <5>1, <5>2, <5>3 DEF DepOK
      <4> QED
        BY <1>5, <4>1, <4>2
    <3> QED
      BY <3>1, <3>2
  <2> QED
    BY <2>8, <2>9, <2>10, <2>11 DEF WorkInv, JobInv, DepInv
<1> QED
  BY <1>4, <1>5, DepGivenFacts DEF DepGiven

(* virtio_gpu_complete_submit hands out the fence of a command that was queued. *)
LEMMA WorkPublish ==
  ASSUME TypeInv, LocalInv, TypeInv', WorkInv, NEW t \in Thread, Publish(t)
  PROVE  WorkInv'
<1>1. /\ UNCHANGED <<job, ring>>
      /\ UNCHANGED <<emitted, running, finished, signaled, answered, resvFences>>
  BY Zenon DEF Publish, boVars, jobVars, hostVars
<1>2. Moved(t) /\ HoldKept(t) /\ th[t].pc = "publish" /\ th[t].pc \in Holding
  BY MovePublish DEF Publish, HoldKept, Holding
<1>3. Quiet
  BY <1>1 DEF Quiet, PlainRing
<1>4. LinesKept
  BY <1>1 DEF LinesKept, TypeInv
<1>5. SettledKept /\ HoldInv'
  BY <1>2, <1>4, SettledThread, HoldThread DEF WorkInv, JobInv
<1>6. PICK i : i = sub[t].job
  OBVIOUS
<1>7. th[t].req.outFence \/ th[t].req.outSync => Settled(i)
  <2> SUFFICES ASSUME th[t].req.outFence \/ th[t].req.outSync
               PROVE  Settled(i)
    OBVIOUS
  <2>1. i # 0
    BY <1>2, <1>6, HoldingFacts DEF Fenced
  <2>2. i \in 1 .. Len(job) /\ \A u \in Thread : th[u].pc \in Holding /\ sub[u].job = i => u = t
    BY <1>2, <1>6, <2>1 DEF WorkInv, JobInv, HoldInv
  <2> QED
    BY <1>2, <2>2 DEF Settled, Pending
<1>8. i \in Nat /\ (Settled(i) => Settled(i)')
  BY <1>5, <1>6, Fields DEF SettledKept
<1>9. \A j \in published : Settled(j)'
  BY <1>5 DEF WorkInv, JobInv, GivenInv, SettledKept, TypeInv
<1>10. \A j \in published' : Settled(j)'
  BY <1>6, <1>7, <1>8, <1>9 DEF Publish, HandOut
<1>11. (sync' = i /\ Settled(i)') \/ sync' = sync
  BY <1>6, <1>7, <1>8 DEF Publish, HandOut, ProcessPostDeps
<1>12. \A x : x = sync /\ x # 0 => Settled(x)'
  BY <1>5 DEF WorkInv, JobInv, GivenInv, SettledKept, TypeInv
<1>13. \A x : x = sync' /\ x # 0 => Settled(x)'
  BY <1>11, <1>12
<1>14. \A j \in 1 .. Len(job) : \A x : x = job[j].dep /\ x # 0 => Settled(x)'
  <2>1. \A j \in 1 .. Len(job) : job[j] \in Jobs
    BY DEF TypeInv
  <2>2. \A j \in 1 .. Len(job) : job[j].dep \in Nat
    BY <2>1 DEF Jobs
  <2> QED
    BY <1>5, <2>2 DEF WorkInv, JobInv, GivenInv, SettledKept
<1>15. GivenInv'
  BY <1>1, <1>10, <1>13, <1>14 DEF GivenInv
<1>16. EmitInv'
  BY <1>1, <1>5, EmitSame DEF WorkInv, JobInv
<1> QED
  BY <1>1, <1>3, <1>4, <1>5, <1>15, <1>16, QuietOrder, QuietDep DEF WorkInv, JobInv

LEMMA WorkCleanup ==
  ASSUME TypeInv, LocalInv, TypeInv', WorkInv, NEW t \in Thread, CleanupSubmit(t)
  PROVE  WorkInv'
<1>1. /\ UNCHANGED <<job, published>>
      /\ UNCHANGED <<emitted, running, finished, signaled, answered, resvFences>>
  BY Zenon DEF CleanupSubmit, boVars, jobVars, hostVars
<1>2. Moved(t) /\ HoldKept(t)
  BY MoveCleanupSubmit DEF HoldKept, Holding, Idle
<1>3. Quiet
  <2>1. sub[t].bos \in SUBSET Bo /\ Queue(Unrefs(sub[t].bos))
    BY Fields DEF CleanupSubmit
  <2> QED
    BY <1>1, <2>1, PlainUnrefs DEF Quiet
<1>4. LinesKept
  BY <1>1 DEF LinesKept, TypeInv
<1>5. SettledKept /\ HoldInv'
  BY <1>2, <1>4, SettledThread, HoldThread DEF WorkInv, JobInv
<1>6. EmitInv'
  BY <1>1, <1>5, EmitSame DEF WorkInv, JobInv
<1>7. GivenInv'
  <2>1. sync' = 0 \/ UNCHANGED sync
    BY DEF CleanupSubmit
  <2>2. UNCHANGED sync => GivenInv'
    BY <1>1, <1>5, GivenSame DEF WorkInv, JobInv
  <2>3. ASSUME sync' = 0
        PROVE  GivenInv'
    <3>1. \A j \in published : Settled(j)'
      BY <1>5 DEF WorkInv, JobInv, GivenInv, SettledKept, TypeInv
    <3>2. \A j \in 1 .. Len(job) : job[j] \in Jobs
      BY DEF TypeInv
    <3>3. \A j \in 1 .. Len(job) : job[j].dep \in Nat
      BY <3>2 DEF Jobs
    <3>4. \A j \in 1 .. Len(job) : \A x : x = job[j].dep /\ x # 0 => Settled(x)'
      BY <1>5, <3>3 DEF WorkInv, JobInv, GivenInv, SettledKept
    <3> QED
      BY <1>1, <2>3, <3>1, <3>4 DEF GivenInv
  <2> QED
    BY <2>1, <2>2, <2>3
<1> QED
  BY <1>1, <1>3, <1>4, <1>5, <1>6, <1>7, QuietOrder, QuietDep DEF WorkInv, JobInv
-----------------------------------------------------------------------------
(* A fence is allocated. *)
DepsKept ==
  \A j \in 1 .. Len(job') : job'[j].dep = 0 \/ (j \in 1 .. Len(job) /\ job'[j].dep = job[j].dep)

LEMMA AllocFacts ==
  ASSUME TypeInv, NEW n \in (File \cup {NoFile}) \X Int, job' = FenceAlloc(n)
  PROVE  /\ LinesKept /\ DepsKept /\ Len(job) \in Nat
         /\ Len(job') = Len(job) + 1 /\ job'[Len(job) + 1].line = n
<1>1. PICK x : x = [line |-> n, dep |-> 0]
  OBVIOUS
<1>2. x \in Jobs /\ x.line = n /\ x.dep = 0
  BY <1>1 DEF Jobs
<1>3. job \in Seq(Jobs) /\ job' = Append(job, x)
  BY <1>1 DEF TypeInv, FenceAlloc
<1>4. /\ Len(job') = Len(job) + 1 /\ Len(job) \in Nat /\ job'[Len(job) + 1] = x
      /\ \A k \in 1 .. Len(job) : k \in 1 .. Len(job') /\ job'[k] = job[k]
      /\ \A k \in 1 .. Len(job') : k \in 1 .. Len(job) \/ k = Len(job) + 1
  BY <1>2, <1>3, AppendFacts
<1>5. LinesKept
  BY <1>4 DEF LinesKept
<1>6. DepsKept
  BY <1>2, <1>4 DEF DepsKept
<1> QED
  BY <1>2, <1>4, <1>5, <1>6

LEMMA HoldNew ==
  ASSUME TypeInv, TypeInv', HoldInv, LinesKept, NEW t \in Thread, Moved(t),
         th'[t].pc \in Holding /\ sub'[t].job # 0 =>
           /\ sub'[t].job = Len(job) + 1 /\ Len(job') = Len(job) + 1
           /\ job'[Len(job) + 1].line = Timeline(t)'
  PROVE  HoldInv'
<1>1. ASSUME NEW u \in Thread, u # t
      PROVE  th'[u] = th[u] /\ sub'[u] = sub[u] /\ Timeline(u)' = Timeline(u)
  BY <1>1 DEF Moved, Others, Timeline, F
<1>2. Len(job) \in Nat /\ Len(job') \in Nat
  BY DEF TypeInv
<1> SUFFICES ASSUME NEW u \in Thread, th'[u].pc \in Holding, sub'[u].job # 0
             PROVE  /\ sub'[u].job \in 1 .. Len(job')
                    /\ job'[sub'[u].job].line = Timeline(u)'
                    /\ \A w \in Thread : th'[w].pc \in Holding /\ sub'[w].job = sub'[u].job => w = u
  BY DEF HoldInv
<1>3. ASSUME NEW w \in Thread, w # t, th'[w].pc \in Holding, sub'[w].job # 0
      PROVE  /\ sub'[w].job \in 1 .. Len(job) /\ job[sub'[w].job].line = Timeline(w)'
             /\ \A v \in Thread : th[v].pc \in Holding /\ sub[v].job = sub'[w].job => v = w
  BY <1>1, <1>3 DEF HoldInv
<1>4. CASE u = t
  <2>1. \A w \in Thread : th'[w].pc \in Holding /\ sub'[w].job = Len(job) + 1 => w = t
    BY <1>2, <1>3
  <2> QED
    BY <1>2, <1>4, <2>1
<1>5. CASE u # t
  <2>1. \A w \in Thread : th'[w].pc \in Holding /\ sub'[w].job = sub'[u].job => w = u
    <3> SUFFICES ASSUME NEW w \in Thread, th'[w].pc \in Holding, sub'[w].job = sub'[u].job
                 PROVE  w = u
      OBVIOUS
    <3>1. w # t
      BY <1>2, <1>3, <1>5
    <3> QED
      BY <1>1, <1>3, <1>5, <3>1
  <2> QED
    BY <1>2, <1>3, <1>5, <2>1 DEF LinesKept
<1> QED
  BY <1>4, <1>5

LEMMA WorkInit ==
  ASSUME TypeInv, LocalInv, TypeInv', WorkInv, NEW t \in Thread, InitSubmit(t)
  PROVE  WorkInv'
<1>1. /\ UNCHANGED <<published, sync, ring>>
      /\ UNCHANGED <<emitted, running, finished, signaled, answered, resvFences>>
      /\ job' = IF Fenced(th[t].req) THEN FenceAlloc(Timeline(t)) ELSE job
  BY Zenon DEF InitSubmit, hostVars
<1>2. /\ Moved(t) /\ Keeps(t) /\ sub'[t].job \in {0, Len(job) + 1} /\ th[t].req \in Request
      /\ InitFailed(t) \/ InitDone(t)
  BY MoveInitSubmit
<1>3. Quiet
  BY <1>1 DEF Quiet, PlainRing
<1>4. LinesKept /\ DepsKept /\ Len(job) \in Nat
      /\ (Fenced(th[t].req) => Len(job') = Len(job) + 1 /\ job'[Len(job) + 1].line = Timeline(t))
  <2>1. CASE Fenced(th[t].req)
    BY <1>1, <1>2, <2>1, TimelineType, AllocFacts
  <2>2. CASE ~Fenced(th[t].req)
    BY <1>1, <2>2 DEF LinesKept, DepsKept, TypeInv
  <2> QED
    BY <2>1, <2>2
<1>5. SettledKept
  BY <1>2, <1>4, SettledThread
<1>6. Timeline(t)' = Timeline(t)
  BY <1>2 DEF Keeps, Timeline, F
<1>7. HoldInv'
  <2>1. th'[t].pc \in Holding => sub'[t].job = (IF Fenced(th[t].req) THEN Len(job) + 1 ELSE 0)
    BY <1>2 DEF InitFailed, InitDone, Holding
  <2> QED
    BY <1>2, <1>4, <1>6, <2>1, HoldNew DEF WorkInv, JobInv
<1>8. EmitInv' /\ GivenInv'
  BY <1>1, <1>4, <1>5, EmitSame, GivenSame DEF WorkInv, JobInv, DepsKept
<1>9. OrderInv' /\ DoneInv' /\ BusyInv' /\ DepInv'
  BY <1>3, <1>4, QuietOrder, QuietDep DEF WorkInv, JobInv, DepsKept
<1> QED
  BY <1>7, <1>8, <1>9 DEF WorkInv, JobInv

(* A fenced command is queued: virtio_gpu_fence_emit and                   *)
(* virtio_gpu_array_add_fence.                                             *)
LEMMA WorkEmit ==
  ASSUME TypeInv, TypeInv', WorkInv, LinesKept, DepsKept, SettledKept, HoldInv', GivenInv',
         NEW c \in Commands, NEW j \in Nat, c.job = j, j # 0, ~Settled(j), Settled(j)',
         ring' = ring \o <<c>>, emitted' = Append(emitted, j), resvFences' = AddFence(c.bos, j),
         UNCHANGED <<running, finished, signaled, answered>>
  PROVE  WorkInv'
<1>1. emitted \in Seq(Nat) /\ ring \in Seq(Commands) /\ running \in Seq(Commands) /\ finished \in SUBSET Nat
  BY DEF TypeInv
<1>2. EmitInv /\ OnceEach(emitted) /\ ~In(emitted, j)
  BY DEF WorkInv, JobInv, EmitInv, In
<1>3. /\ Len(emitted') = Len(emitted) + 1 /\ Len(emitted) \in Nat /\ emitted'[Len(emitted) + 1] = j
      /\ \A k \in 1 .. Len(emitted) : k \in 1 .. Len(emitted') /\ emitted'[k] = emitted[k]
      /\ \A k \in 1 .. Len(emitted') : k \in 1 .. Len(emitted) \/ k = Len(emitted) + 1
  BY <1>1, AppendFacts
<1>4. EmitInv'
  <2>1. OnceEach(emitted')
    BY <1>1, <1>2, EmitFacts
  <2>2. ASSUME NEW m \in 1 .. Len(emitted'), NEW x, x = emitted'[m]
        PROVE  Settled(x)'
    <3>1. CASE m \in 1 .. Len(emitted)
      <4>1. x = emitted[m] /\ x \in Nat
        BY <1>1, <1>3, <2>2, <3>1
      <4>2. Settled(x)
        BY <1>2, <3>1, <4>1 DEF EmitInv
      <4> QED
        BY <4>1, <4>2 DEF SettledKept
    <3>2. CASE m = Len(emitted) + 1
      BY <1>3, <2>2, <3>2
    <3> QED
      BY <1>3, <3>1, <3>2
  <2> QED
    BY <2>1, <2>2 DEF EmitInv
<1>5. OrderInv'
  <2>1. OrderOK(emitted', ring', running, finished)
    BY <1>1, <1>2, OrderFenced DEF WorkInv, OrderInv
  <2>2. LineOK(emitted', finished, job')
    <3> SUFFICES ASSUME NEW m \in 1 .. Len(emitted'), NEW n \in 1 .. Len(emitted'), m < n,
                        emitted'[n] \in finished, job'[emitted'[m]].line = job'[emitted'[n]].line
                 PROVE  emitted'[m] \in finished
      BY DEF LineOK
    <3>1. j \notin finished
      BY <1>2 DEF WorkInv, OrderInv, OrderOK
    <3>2. n \in 1 .. Len(emitted) /\ m \in 1 .. Len(emitted)
      BY <1>3, <3>1
    <3>3. emitted'[n] = emitted[n] /\ emitted'[m] = emitted[m]
      BY <1>3, <3>2
    <3>4. emitted[n] \in 1 .. Len(job) /\ emitted[m] \in 1 .. Len(job)
      BY <1>2, <3>2 DEF EmitInv, Settled
    <3>5. job[emitted[m]].line = job[emitted[n]].line
      BY <3>3, <3>4 DEF LinesKept
    <3> QED
      BY <3>2, <3>3, <3>5 DEF WorkInv, OrderInv, LineOK
  <2> QED
    BY <2>1, <2>2 DEF OrderInv
<1>6. DoneInv'
  BY DEF WorkInv, DoneInv
<1>7. BusyInv'
  <2>1. \A b \in Bo : resvFences[b] \subseteq resvFences'[b] /\ (b \in c.bos => j \in resvFences'[b])
    BY DEF AddFence
  <2>2. Listed(running)'
    <3>1. \A k \in 1 .. Len(running) : running[k].bos \subseteq Bo
      BY <1>1, CmdFields
    <3> QED
      BY <2>1, <3>1 DEF WorkInv, BusyInv, Listed
  <2>3. Listed(ring)'
    <3> SUFFICES ASSUME NEW k \in 1 .. Len(ring'), ring'[k].job # 0, NEW b \in ring'[k].bos
                 PROVE  ring'[k].job \in resvFences'[b]
      BY DEF Listed
    <3>1. PICK s : s = <<c>>
      OBVIOUS
    <3>2. s \in Seq(Commands) /\ Len(s) = 1 /\ s[1] = c
      BY <3>1
    <3>3. \/ k \in 1 .. Len(ring) /\ ring'[k] = ring[k]
          \/ k - Len(ring) \in 1 .. Len(s) /\ ring'[k] = s[k - Len(ring)]
      BY <1>1, <3>1, <3>2, PushFacts
    <3>4. (k \in 1 .. Len(ring) /\ ring'[k] = ring[k]) \/ ring'[k] = c
      BY <3>2, <3>3
    <3>5. CASE k \in 1 .. Len(ring) /\ ring'[k] = ring[k]
      <4>1. ring[k] \in Commands
        BY <1>1, <3>5
      <4>2. b \in Bo
        BY <3>5, <4>1, CmdFields
      <4>3. ring[k].job \in resvFences[b]
        BY <3>5 DEF WorkInv, BusyInv, Listed
      <4> QED
        BY <2>1, <3>5, <4>2, <4>3
    <3>6. CASE ring'[k] = c
      BY <2>1, <3>6, CmdFields
    <3> QED
      BY <3>4, <3>5, <3>6
  <2> QED
    BY <2>2, <2>3 DEF BusyInv
<1>8. DepInv'
  <2> SUFFICES ASSUME NEW i \in 1 .. Len(job'), job'[i].dep # 0
               PROVE  DepOK(finished', emitted', job', i, job'[i].dep)
    BY DEF DepInv
  <2>1. PICK d : d = job'[i].dep
    OBVIOUS
  <2>2. i \in 1 .. Len(job) /\ d = job[i].dep /\ DepOK(finished, emitted, job, i, d) /\ Settled(d)
    BY <2>1 DEF WorkInv, JobInv, DepInv, GivenInv, DepsKept
  <2>3. job'[i].line = job[i].line /\ job'[d].line = job[d].line /\ d # j
    BY <2>2 DEF LinesKept, Settled
  <2>4. /\ In(emitted', d) <=> In(emitted, d)
        /\ In(emitted', i) <=> In(emitted, i) \/ i = j
        /\ Before(emitted, d, i) => Before(emitted', d, i)
        /\ In(emitted, d) => Before(emitted', d, j)
    BY <1>1, <2>3, EmitFacts
  <2>5. DepOK(finished', emitted', job', i, d)
    BY <2>2, <2>3, <2>4 DEF DepOK
  <2> QED
    BY <2>1, <2>5
<1> QED
  BY <1>4, <1>5, <1>6, <1>7, <1>8 DEF WorkInv, JobInv

LEMMA WorkCreate ==
  ASSUME TypeInv, LocalInv, TypeInv', WorkInv, NEW t \in Thread, Create(t)
  PROVE  WorkInv'
<1>1. UNCHANGED <<published, sync, plugged, running, finished, signaled, answered>>
  BY Zenon DEF Create, userVars, hostVars
<1>2. Moved(t) /\ HoldKept(t) /\ th'[t].pc = "handle"
  BY CreateMoves DEF HoldKept, Holding
<1>3. PICK b \in Bo :
        \/ /\ Queue(<<CmdResourceCreate3d(b, Len(job) + 1)>>)
           /\ job' = FenceAlloc(<<NoFile, 0>>)
           /\ emitted' = IF plugged THEN Append(emitted, Len(job) + 1) ELSE emitted
           /\ resvFences' = IF plugged THEN AddFence({b}, Len(job) + 1) ELSE resvFences
        \/ Queue(<<CmdCreateResource(b)>>) /\ UNCHANGED <<job, emitted, resvFences>>
  BY CreateFacts
<1>4. CASE Queue(<<CmdCreateResource(b)>>) /\ UNCHANGED <<job, emitted, resvFences>>
  <2>1. PICK c : c = CmdCreateResource(b)
    OBVIOUS
  <2>2. c \in Commands /\ c.job = 0
    BY <2>1, CmdFacts DEF CmdCreateResource
  <2>3. PlainRing
    BY <1>4, <2>1, <2>2, PlainFacts DEF PlainRing
  <2> QED
    BY <1>1, <1>2, <1>4, <2>3, WorkQuiet DEF Quiet
<1>5. ASSUME Queue(<<CmdResourceCreate3d(b, Len(job) + 1)>>), job' = FenceAlloc(<<NoFile, 0>>),
             emitted' = IF plugged THEN Append(emitted, Len(job) + 1) ELSE emitted,
             resvFences' = IF plugged THEN AddFence({b}, Len(job) + 1) ELSE resvFences
      PROVE  WorkInv'
  <2>1. LinesKept /\ DepsKept /\ Len(job) \in Nat /\ Len(job') = Len(job) + 1
    BY <1>5, AllocFacts
  <2>2. SettledKept /\ HoldInv'
    BY <1>2, <2>1, SettledThread, HoldThread DEF WorkInv, JobInv
  <2>3. GivenInv'
    BY <1>1, <2>1, <2>2, GivenSame DEF WorkInv, JobInv, DepsKept
  <2>4. CASE plugged
    <3>1. PICK j : j = Len(job) + 1
      OBVIOUS
    <3>2. j \in Nat /\ j # 0 /\ ~Settled(j) /\ j \in 1 .. Len(job')
      BY <2>1, <3>1 DEF Settled
    <3>3. PICK c : c = CmdResourceCreate3d(b, j)
      OBVIOUS
    <3>4. c \in Commands /\ c.job = j /\ c.bos = {b}
      BY <3>2, <3>3, CmdFacts DEF CmdResourceCreate3d
    <3>5. ASSUME NEW u \in Thread, Pending(u)'
          PROVE  sub'[u].job # j
      <4>1. u # t
        BY <1>2, <3>5 DEF Pending, Holding
      <4>2. th'[u] = th[u] /\ sub'[u] = sub[u]
        BY <1>2, <4>1 DEF Moved, Others
      <4>3. sub[u].job \in 1 .. Len(job)
        BY <3>5, <4>2 DEF WorkInv, JobInv, HoldInv, Pending, Holding
      <4> QED
        BY <2>1, <3>1, <4>2, <4>3
    <3>6. Settled(j)'
      BY <3>2, <3>5 DEF Settled
    <3>7. ring' = ring \o <<c>> /\ emitted' = Append(emitted, j) /\ resvFences' = AddFence(c.bos, j)
      BY <1>5, <2>4, <3>1, <3>3, <3>4 DEF Queue
    <3> QED
      BY <1>1, <2>1, <2>2, <2>3, <3>2, <3>4, <3>6, <3>7, WorkEmit
  <2>5. CASE ~plugged
    <3>1. Quiet
      BY <1>1, <1>5, <2>5 DEF Quiet, PlainRing, Queue
    <3>2. EmitInv'
      BY <2>2, <3>1, EmitSame DEF WorkInv, JobInv, Quiet
    <3> QED
      BY <2>1, <2>2, <2>3, <3>1, <3>2, QuietOrder, QuietDep DEF WorkInv, JobInv, DepsKept
  <2> QED
    BY <2>4, <2>5 DEF TypeInv
<1> QED
  BY <1>3, <1>4, <1>5

LEMMA WorkSubmit ==
  ASSUME TypeInv, LocalInv, TypeInv', WorkInv, NEW t \in Thread, Submit(t)
  PROVE  WorkInv'
<1>1. /\ UNCHANGED <<job, published, sync, plugged, running, finished, signaled, answered>>
      /\ th[t].pc = "submit"
  BY Zenon DEF Submit, userVars, hostVars
<1>2. Moved(t) /\ HoldKept(t) /\ th'[t].pc \in {"publish", "idle"}
  BY <1>1, MoveSubmit DEF HoldKept, Holding, Idle
<1>3. th[t].pc \in Holding /\ sub[t].bos \in SUBSET Bo /\ sub[t].job \in Nat
  BY <1>1, Fields DEF Holding
<1>4. CASE UNCHANGED <<ring, emitted, resvFences>>
  BY <1>1, <1>2, <1>4, WorkQuiet DEF Quiet, PlainRing
<1>5. ASSUME plugged, Queue(<<Command(t)>>),
             emitted' = IF sub[t].job = 0 THEN emitted ELSE Append(emitted, sub[t].job),
             resvFences' = AddFence(sub[t].bos, sub[t].job)
      PROVE  WorkInv'
  <2>1. PICK c : c = Command(t)
    OBVIOUS
  <2>2. c \in Commands /\ c.job = sub[t].job /\ c.bos = sub[t].bos
    <3>1. F(t) \in File /\ file[F(t)].id \in Nat
      BY <1>3, HoldingFacts, FileFields
    <3> QED
      BY <1>3, <2>1, <3>1, CmdFacts DEF Command, CmdSubmit, CmdTransferHost3d
  <2>3. ring' = ring \o <<c>>
    BY <1>5, <2>1 DEF Queue
  <2>4. CASE sub[t].job = 0
    <3>1. sub[t].bos = {}
      BY <1>3, <2>4, HoldingFacts DEF Fenced
    <3>2. resvFences' = resvFences
      BY <1>5, <3>1 DEF AddFence, TypeInv
    <3>3. PlainRing
      BY <1>5, <2>1, <2>2, <2>4, PlainFacts DEF PlainRing
    <3> QED
      BY <1>1, <1>2, <1>5, <2>4, <3>2, <3>3, WorkQuiet DEF Quiet
  <2>5. CASE sub[t].job # 0
    <3>1. PICK j : j = sub[t].job
      OBVIOUS
    <3>2. /\ j \in Nat /\ j # 0 /\ j \in 1 .. Len(job) /\ c.job = j
          /\ \A u \in Thread : th[u].pc \in Holding /\ sub[u].job = j => u = t
      BY <1>3, <2>2, <2>5, <3>1 DEF WorkInv, JobInv, HoldInv
    <3>3. ~Settled(j)
      BY <1>1, <2>5, <3>1 DEF Settled, Pending, Holding
    <3>4. ASSUME NEW u \in Thread, Pending(u)'
          PROVE  sub'[u].job # j
      <4>1. u # t
        BY <1>2, <3>4 DEF Pending, Holding
      <4>2. th'[u] = th[u] /\ sub'[u] = sub[u]
        BY <1>2, <4>1 DEF Moved, Others
      <4> QED
        BY <3>2, <3>4, <4>1, <4>2 DEF Pending
    <3>5. Settled(j)'
      BY <1>1, <3>2, <3>4 DEF Settled
    <3>6. LinesKept /\ DepsKept
      BY <1>1 DEF LinesKept, DepsKept, TypeInv
    <3>7. SettledKept /\ HoldInv'
      BY <1>2, <3>6, SettledThread, HoldThread DEF WorkInv, JobInv
    <3>8. GivenInv'
      BY <1>1, <3>6, <3>7, GivenSame DEF WorkInv, JobInv, DepsKept
    <3>9. emitted' = Append(emitted, j) /\ resvFences' = AddFence(c.bos, j)
      BY <1>5, <2>2, <2>5, <3>1
    <3> QED
      BY <1>1, <2>2, <2>3, <3>2, <3>3, <3>5, <3>6, <3>7, <3>8, <3>9, WorkEmit
  <2> QED
    BY <2>4, <2>5
<1> QED
  BY <1>4, <1>5 DEF Submit
-----------------------------------------------------------------------------
(* The host and the dequeue work. *)
LEMMA WorkHostRead ==
  ASSUME TypeInv, TypeInv', WorkInv, HostRead
  PROVE  WorkInv'
<1>1. UNCHANGED <<th, sub, job, published, sync, emitted, finished, signaled, resvFences>>
  BY Zenon DEF HostRead, boVars, userVars, jobVars
<1>2. JobInv'
  BY <1>1, SettledSame, EmitSame, GivenSame, HoldSame DEF WorkInv, JobInv
<1>3. /\ emitted \in Seq(Nat) /\ ring \in Seq(Commands) /\ running \in Seq(Commands)
      /\ answered \in Seq(Commands) /\ finished \in SUBSET Nat /\ ring # <<>>
  BY DEF TypeInv, HostRead
<1>4. PICK c : c = Head(ring)
  OBVIOUS
<1>5. /\ c \in Commands /\ c = ring[1] /\ 1 \in 1 .. Len(ring) /\ ring' = Tail(ring)
      /\ \A k \in 1 .. Len(ring') : k + 1 \in 1 .. Len(ring) /\ ring'[k] = ring[k + 1]
  BY <1>3, <1>4, ReadFacts DEF HostRead
<1>6. /\ running' = IF c.job = 0 THEN running ELSE Append(running, c)
      /\ answered' = answered \/ (c.job = 0 /\ answered' = Append(answered, c))
  BY <1>4 DEF HostRead
<1>7. OrderInv'
  <2>1. OrderOK(emitted, ring', running', finished)
    BY <1>3, <1>4, <1>5, <1>6, OrderRead DEF WorkInv, OrderInv
  <2> QED
    BY <1>1, <2>1 DEF WorkInv, OrderInv
<1>8. DoneInv'
  <2>1. CASE answered' = answered
    BY <1>1, <2>1 DEF WorkInv, DoneInv
  <2>2. CASE c.job = 0 /\ answered' = Append(answered, c)
    <3>1. \A k \in 1 .. Len(answered') : (k \in 1 .. Len(answered) /\ answered'[k] = answered[k]) \/ answered'[k] = c
      BY <1>3, <1>5, <2>2, AppendFacts
    <3> QED
      BY <1>1, <2>2, <3>1 DEF WorkInv, DoneInv
  <2> QED
    BY <1>6, <2>1, <2>2
<1>9. Listed(ring)'
  BY <1>1, <1>5 DEF WorkInv, BusyInv, Listed
<1>10. Listed(running)'
  <2>1. CASE c.job = 0
    BY <1>1, <1>6, <2>1 DEF WorkInv, BusyInv, Listed
  <2>2. CASE c.job # 0
    <3>1. \A k \in 1 .. Len(running') : (k \in 1 .. Len(running) /\ running'[k] = running[k]) \/ running'[k] = c
      BY <1>3, <1>5, <1>6, <2>2, AppendFacts
    <3>2. \A b \in c.bos : c.job \in resvFences[b]
      BY <1>5, <2>2 DEF WorkInv, BusyInv, Listed
    <3> QED
      BY <1>1, <3>1, <3>2 DEF WorkInv, BusyInv, Listed
  <2> QED
    BY <2>1, <2>2
<1>11. DepInv'
  BY <1>1 DEF WorkInv, DepInv
<1> QED
  BY <1>2, <1>7, <1>8, <1>9, <1>10, <1>11 DEF WorkInv, BusyInv

LEMMA WorkHostFinish ==
  ASSUME TypeInv, TypeInv', WorkInv, HostFinish
  PROVE  WorkInv'
<1>1. UNCHANGED <<th, sub, job, published, sync, emitted, ring, signaled, resvFences>>
  BY Zenon DEF HostFinish, boVars, userVars, jobVars
<1>2. JobInv'
  BY <1>1, SettledSame, EmitSame, GivenSame, HoldSame DEF WorkInv, JobInv
<1>3. /\ emitted \in Seq(Nat) /\ ring \in Seq(Commands) /\ running \in Seq(Commands)
      /\ answered \in Seq(Commands) /\ finished \in SUBSET Nat /\ DOMAIN running = 1 .. Len(running)
  BY DEF TypeInv
<1>4. PICK i \in 1 .. Len(running) :
        /\ \A k \in 1 .. i - 1 : job[running[k].job].line # job[running[i].job].line
        /\ finished' = finished \cup {running[i].job}
        /\ answered' = Append(answered, running[i])
        /\ running' = RemoveAt(running, i)
  BY <1>3 DEF HostFinish
<1>5. OrderInv'
  <2>1. /\ OrderOK(emitted, ring, running', finished')
        /\ LineOK(emitted, finished', job)
    BY <1>3, <1>4, OrderFinish DEF WorkInv, OrderInv, JobInv, EmitInv
  <2> QED
    BY <1>1, <2>1 DEF OrderInv
<1>6. DoneInv'
  <2>1. PICK c \in Commands : c = running[i]
    BY <1>3
  <2>2. \A k \in 1 .. Len(answered') : (k \in 1 .. Len(answered) /\ answered'[k] = answered[k]) \/ answered'[k] = c
    BY <1>3, <1>4, <2>1, AppendFacts
  <2> QED
    BY <1>1, <1>4, <2>1, <2>2 DEF WorkInv, DoneInv
<1>7. BusyInv'
  <2>1. \A k \in 1 .. Len(running') : \E l \in 1 .. Len(running) : running'[k] = running[l]
    <3>1. \A k \in 1 .. Len(running') : Skip(k, i) \in 1 .. Len(running) /\ running'[k] = running[Skip(k, i)]
      BY <1>3, <1>4, RemoveFacts
    <3> QED
      BY <3>1
  <2>2. Listed(running)'
    BY <1>1, <2>1 DEF WorkInv, BusyInv, Listed
  <2> QED
    BY <1>1, <2>2 DEF WorkInv, BusyInv, Listed
<1>8. DepInv'
  BY <1>1, <1>4 DEF WorkInv, DepInv, DepOK
<1> QED
  BY <1>2, <1>5, <1>6, <1>7, <1>8 DEF WorkInv

(* virtio_gpu_fence_event_process signals no fence whose job still runs. *)
LEMMA WorkDequeue ==
  ASSUME TypeInv, TypeInv', WorkInv, Dequeue
  PROVE  WorkInv'
<1>1. /\ UNCHANGED <<th, sub, job, published, sync, emitted, ring, running, finished, resvFences>>
      /\ answered' = Tail(answered) /\ answered # <<>>
  BY Zenon DEF Dequeue, boVars, userVars, hostVars
<1>2. JobInv'
  BY <1>1, SettledSame, EmitSame, GivenSame, HoldSame DEF WorkInv, JobInv
<1>3. answered \in Seq(Commands) /\ emitted \in Seq(Nat) /\ DOMAIN emitted = 1 .. Len(emitted)
  BY DEF TypeInv
<1>4. PICK c : c = Head(answered)
  OBVIOUS
<1>5. /\ c = answered[1] /\ 1 \in 1 .. Len(answered)
      /\ \A k \in 1 .. Len(answered') : k + 1 \in 1 .. Len(answered) /\ answered'[k] = answered[k + 1]
  BY <1>1, <1>3, <1>4, ReadFacts
<1>6. signaled' = IF c.job = 0 THEN signaled ELSE signaled \cup Earlier(c.job)
  BY <1>4 DEF Dequeue
<1>7. c.job # 0 => Earlier(c.job) \subseteq finished
  <2> SUFFICES ASSUME c.job # 0, NEW x \in Earlier(c.job)
               PROVE  x \in finished
    OBVIOUS
  <2>1. c.job \in finished
    BY <1>5 DEF WorkInv, DoneInv
  <2>2. PICK n \in 1 .. Len(emitted) :
          /\ x = emitted[n] /\ job[x].line = job[c.job].line
          /\ \E m \in n .. Len(emitted) : emitted[m] = c.job
    BY <1>3 DEF Earlier
  <2>3. PICK m \in n .. Len(emitted) : emitted[m] = c.job
    BY <2>2
  <2>4. m \in 1 .. Len(emitted) /\ (n = m \/ n < m)
    BY <1>3, <2>2, <2>3
  <2> QED
    BY <2>1, <2>2, <2>3, <2>4 DEF WorkInv, OrderInv, LineOK
<1>8. DoneInv'
  BY <1>1, <1>5, <1>6, <1>7 DEF WorkInv, DoneInv
<1>9. OrderInv' /\ BusyInv' /\ DepInv'
  BY <1>1 DEF WorkInv, OrderInv, BusyInv, Listed, DepInv
<1> QED
  BY <1>2, <1>8, <1>9 DEF WorkInv
-----------------------------------------------------------------------------
LEMMA WorkStep ==
  ASSUME TypeInv, LocalInv, TypeInv', WorkInv, [Next]_vars
  PROVE  WorkInv'
<1>1. ASSUME NEW t \in Thread, Call(t) \/ Import(t) \/ CtxLock(t) \/ CtxParams(t) \/ CtxQueue(t) \/ CtxSet(t)
      PROVE  WorkInv'
  BY <1>1, QuietCtx
<1>2. ASSUME NEW t \in Thread, HandleCreate(t) \/ Attach(t) \/ LockResv(t)
      PROVE  WorkInv'
  BY <1>2, QuietObject
<1>3. ASSUME NEW t \in Thread,
             \/ Create(t) \/ InitSubmit(t) \/ ParseDeps(t) \/ WaitInFence(t)
             \/ Submit(t) \/ Publish(t) \/ CleanupSubmit(t)
      PROVE  WorkInv'
  BY <1>3, WorkCreate, WorkInit, WorkDeps, WorkSubmit, WorkPublish, WorkCleanup
<1>4. ASSUME NEW f \in File, OpenFile(f) \/ CloseHandle(f) \/ CloseFile(f) \/ PostClose(f)
      PROVE  WorkInv'
  BY <1>4, QuietFile
<1>5. CASE HostRead \/ HostFinish \/ Dequeue
  BY <1>5, WorkHostRead, WorkHostFinish, WorkDequeue
<1>6. CASE FreeWork \/ Unplug \/ UNCHANGED vars
  BY <1>6, QuietWork
<1> QED
  BY <1>1, <1>2, <1>3, <1>4, <1>5, <1>6 DEF Next, ThreadNext, HostNext, WorkNext
-----------------------------------------------------------------------------
LEMMA InitType ==
  ASSUME Init
  PROVE  TypeInv
<1>1. Idle \in ThreadState /\ NoSubmit \in SubmitState /\ Closed \in FileState
  BY DEF Idle, NoSubmit, Closed, ThreadState, SubmitState, FileState, Pcs
<1>2. /\ file \in [File -> FileState] /\ th \in [Thread -> ThreadState] /\ sub \in [Thread -> SubmitState]
  BY <1>1 DEF Init
<1>3. /\ handles \in [File -> SUBSET Bo] /\ ctxLock \in [File -> Thread \cup {Nobody}]
      /\ ref \in [Bo -> Int] /\ resv \in [Bo -> Thread \cup {Nobody}] /\ resvFences \in [Bo -> SUBSET Nat]
      /\ fds \in [Fd -> {"file", "unused", "reserved"}]
  BY DEF Init
<1>4. /\ job \in Seq(Jobs) /\ emitted \in Seq(Nat) /\ putq \in Seq(SUBSET Bo)
      /\ ring \in Seq(Commands) /\ answered \in Seq(Commands) /\ running \in Seq(Commands)
  BY DEF Init
<1>5. /\ ctxInit \in BOOLEAN /\ plugged \in BOOLEAN /\ sync \in Nat
      /\ signaled \subseteq Nat /\ published \subseteq Nat
      /\ hostCtx \subseteq Nat /\ hostRes \subseteq Bo /\ finished \subseteq Nat
  BY DEF Init
<1> QED
  BY <1>2, <1>3, <1>4, <1>5 DEF TypeInv

LEMMA InitLocal ==
  ASSUME Init
  PROVE  LocalInv /\ LocksReleased /\ FdInv
<1>1. \A t \in Thread : th[t] = Idle /\ sub[t] = NoSubmit
  BY DEF Init
<1>2. Idle.pc = "idle" /\ Idle.op = "NONE" /\ NoSubmit.fd = -1 /\ NoSubmit.bos = {}
  BY DEF Idle, NoSubmit
<1>3. LocalOK(Idle, NoSubmit)
  BY DEF LocalOK, Idle, NoSubmit, Holding
<1>4. LocalInv
  BY <1>1, <1>2, <1>3 DEF LocalInv
<1>5. LocksReleased
  BY <1>1, <1>2, ExecAssumption DEF LocksReleased, Init
<1>6. -1 \notin Fd
  BY ExecAssumption
<1>7. FdInv
  BY <1>1, <1>2, <1>6 DEF FdInv, FdOwned, Init
<1> QED
  BY <1>4, <1>5, <1>7

LEMMA InitWork ==
  ASSUME Init
  PROVE  WorkInv
<1>1. /\ job = <<>> /\ emitted = <<>> /\ ring = <<>> /\ running = <<>> /\ answered = <<>>
      /\ signaled = {} /\ published = {} /\ finished = {} /\ sync = 0
      /\ \A t \in Thread : th[t].pc = "idle"
  BY DEF Init, Idle
<1>2. JobInv
  BY <1>1 DEF JobInv, EmitInv, GivenInv, HoldInv, OnceEach, Holding
<1>3. OrderInv
  BY <1>1 DEF OrderInv, OrderOK, LineOK, InOrder, Has, In
<1>4. DoneInv /\ BusyInv /\ DepInv
  BY <1>1 DEF DoneInv, BusyInv, Listed, DepInv
<1> QED
  BY <1>2, <1>3, <1>4 DEF WorkInv

LEMMA BusyFacts ==
  ASSUME TypeInv, WorkInv
  PROVE  BusyVisible
<1> SUFFICES ASSUME NEW c \in Range(ring) \cup Range(running), c.job # 0
             PROVE  c.job \notin signaled /\ \A b \in c.bos : ~WaitIsOver(b)
  BY DEF BusyVisible
<1>1. PICK q \in {ring, running} : c \in Range(q)
  OBVIOUS
<1>2. q \in Seq(Commands) /\ DOMAIN q = 1 .. Len(q)
  BY <1>1 DEF TypeInv
<1>3. PICK k \in 1 .. Len(q) : q[k] = c
  BY <1>1, <1>2 DEF Range
<1>4. c \in Commands /\ c.job \in Nat
  BY <1>2, <1>3, CmdFields
<1>5. Has(ring, c.job) \/ Has(running, c.job)
  BY <1>1, <1>3 DEF Has
<1>6. c.job \notin finished
  BY <1>4, <1>5 DEF WorkInv, OrderInv, OrderOK
<1>7. c.job \notin signaled
  BY <1>6 DEF WorkInv, DoneInv
<1>8. \A b \in c.bos : c.job \in resvFences[b]
  BY <1>1, <1>3 DEF WorkInv, BusyInv, Listed
<1> QED
  BY <1>7, <1>8 DEF WaitIsOver

LEMMA DepFacts ==
  ASSUME TypeInv, WorkInv
  PROVE  InFenceHonoured
<1> SUFFICES ASSUME NEW j \in finished, job[j].dep \in Range(emitted)
             PROVE  job[j].dep \in finished
  BY DEF InFenceHonoured
<1>1. PICK d : d = job[j].dep
  OBVIOUS
<1>2. emitted \in Seq(Nat) /\ DOMAIN emitted = 1 .. Len(emitted)
  BY DEF TypeInv
<1>3. PICK n \in 1 .. Len(emitted) : emitted[n] = d
  BY <1>1, <1>2 DEF Range
<1>4. In(emitted, d) /\ d # 0
  BY <1>3 DEF WorkInv, JobInv, EmitInv, Settled, In
<1>5. In(emitted, j) /\ j \in 1 .. Len(job)
  BY DEF WorkInv, OrderInv, OrderOK, JobInv, EmitInv, Settled, In
<1>6. d \in finished \/ (job[d].line = job[j].line /\ Before(emitted, d, j))
  BY <1>1, <1>4, <1>5 DEF WorkInv, DepInv, DepOK
<1>7. d \in finished
  BY <1>6 DEF WorkInv, OrderInv, LineOK, Before
<1> QED
  BY <1>1, <1>7
-----------------------------------------------------------------------------
LEMMA SpecLocal == Spec => [](TypeInv /\ LocalInv)
<1>1. Init => TypeInv /\ LocalInv
  BY InitType, InitLocal
<1>2. TypeInv /\ LocalInv /\ [Next]_vars => (TypeInv /\ LocalInv)'
  BY TypeStep, LocalStep
<1> QED
  BY <1>1, <1>2, PTL DEF Spec

(***************************************************************************)
(* Whatever way an execbuffer or a transfer ends (an interrupted wait, no  *)
(* memory for a fence slot or an sg_table, the device gone), only a thread *)
(* between virtio_gpu_array_lock_resv and virtio_gpu_queue holds           *)
(* reservation locks, and it holds those of all its objects.               *)
(***************************************************************************)
THEOREM LockSafety == Spec => []LocksReleased
<1>1. Init => LocksReleased
  BY InitLocal
<1>2. TypeInv /\ LocalInv /\ LocksReleased /\ [Next]_vars => LocksReleased'
  BY LockStep
<1> QED
  BY <1>1, <1>2, SpecLocal, PTL DEF Spec

(***************************************************************************)
(* The descriptor number of get_unused_fd_flags is in one submission, is   *)
(* installed or put back exactly once, and never both.                     *)
(***************************************************************************)
THEOREM FdSafety == Spec => []FdOwned
<1>1. Init => FdInv
  BY InitLocal
<1>2. TypeInv /\ LocalInv /\ FdInv /\ [Next]_vars => FdInv'
  BY FdStep
<1>3. FdInv => FdOwned
  BY DEF FdInv
<1> QED
  BY <1>1, <1>2, <1>3, SpecLocal, PTL DEF Spec

LEMMA SpecWork == Spec => [](TypeInv /\ WorkInv)
<1>1. Init => WorkInv
  BY InitWork
<1>2. TypeInv /\ LocalInv /\ TypeInv' /\ WorkInv /\ [Next]_vars => WorkInv'
  BY WorkStep
<1> QED
  BY <1>1, <1>2, SpecLocal, PTL DEF Spec

(***************************************************************************)
(* Whoever waits for an object by its reservation (DRM_VIRTGPU_WAIT) waits *)
(* for every fenced command on it that is queued or that the host works    *)
(* on: virtio_gpu_fence_event_process signals earlier fences of the same   *)
(* context only, and on one timeline the host finishes in order.           *)
(***************************************************************************)
THEOREM BusySafety == Spec => []BusyVisible
<1>1. TypeInv /\ WorkInv => BusyVisible
  BY BusyFacts
<1> QED
  BY <1>1, SpecWork, PTL

(***************************************************************************)
(* A job finishes after the job whose fence it was given, also where       *)
(* virtio_gpu_do_fence_wait skipped the wait for a fence of its own        *)
(* timeline.                                                               *)
(***************************************************************************)
THEOREM DepSafety == Spec => []InFenceHonoured
<1>1. TypeInv /\ WorkInv => InFenceHonoured
  BY DepFacts
<1> QED
  BY <1>1, SpecWork, PTL
-----------------------------------------------------------------------------
(* What the host will know, as commands are queued and read. *)
LEMMA TherePush ==
  ASSUME NEW on, NEW off, NEW q \in Seq(Commands), NEW s \in Seq(Commands), NEW h, NEW x,
         NEW k \in Nat, k <= Len(q) + 1
  PROVE  ThereAt(on, off, h, q \o s, x, k) <=> ThereAt(on, off, h, q, x, k)
<1>1. PICK p : p = q \o s
  OBVIOUS
<1>2. /\ Len(q) \in Nat /\ \A l \in 1 .. Len(q) : l \in 1 .. Len(p) /\ p[l] = q[l]
      /\ \A l \in 1 .. Len(p) : l \in 1 .. Len(q) \/ l > Len(q)
  BY <1>1, PushFacts
<1>3. \A l \in 1 .. Len(p) : l < k => l \in 1 .. Len(q) /\ p[l] = q[l]
  BY <1>2
<1>4. ThereAt(on, off, h, p, x, k) <=> ThereAt(on, off, h, q, x, k)
  BY <1>2, <1>3 DEF ThereAt
<1> QED
  BY <1>1, <1>4

(* Commands that neither make nor take x before the k-th. *)
LEMMA ThereMore ==
  ASSUME NEW on, NEW off, NEW q \in Seq(Commands), NEW s \in Seq(Commands), NEW h, NEW x,
         NEW k \in Nat, k > Len(q),
         \A l \in 1 .. Len(s) : Len(q) + l < k => ~Is(s[l], on, x) /\ ~Is(s[l], off, x)
  PROVE  ThereAt(on, off, h, q \o s, x, k) <=> ThereAt(on, off, h, q, x, Len(q) + 1)
<1>1. PICK p, n : p = q \o s /\ n = Len(q)
  OBVIOUS
<1>2. /\ n \in Nat /\ \A l \in 1 .. n : l \in 1 .. Len(p) /\ p[l] = q[l] /\ l < k /\ l < n + 1
      /\ \A l \in 1 .. Len(p) :
           \/ l \in 1 .. n /\ p[l] = q[l]
           \/ l > n /\ l - n \in 1 .. Len(s) /\ p[l] = s[l - n]
  BY <1>1, PushFacts
<1>3. \A l \in 1 .. Len(p) :
        l < k => (l \in 1 .. n /\ p[l] = q[l]) \/ ~(Is(p[l], off, x) \/ Is(p[l], on, x))
  <2> SUFFICES ASSUME NEW l \in 1 .. Len(p), l < k, l > n, l - n \in 1 .. Len(s), p[l] = s[l - n]
               PROVE  ~(Is(p[l], off, x) \/ Is(p[l], on, x))
    BY <1>2
  <2>1. Len(q) + (l - n) < k
    BY <1>1, <1>2
  <2> QED
    BY <2>1
<1>4. ThereAt(on, off, h, p, x, k) <=> ThereAt(on, off, h, q, x, n + 1)
  <2>1. ASSUME ThereAt(on, off, h, p, x, k)
        PROVE  ThereAt(on, off, h, q, x, n + 1)
    BY <1>1, <1>2, <1>3, <2>1 DEF ThereAt
  <2>2. ASSUME ThereAt(on, off, h, q, x, n + 1)
        PROVE  ThereAt(on, off, h, p, x, k)
    BY <1>1, <1>2, <1>3, <2>2 DEF ThereAt
  <2> QED
    BY <2>1, <2>2
<1> QED
  BY <1>1, <1>4

(* One command makes or takes x. *)
LEMMA ThereOnce ==
  ASSUME NEW on, NEW off, NEW q \in Seq(Commands), NEW s \in Seq(Commands), NEW h, NEW x,
         NEW i \in 1 .. Len(s), \A l \in 1 .. Len(s) : l # i => ~Is(s[l], on, x) /\ ~Is(s[l], off, x)
  PROVE  ThereAt(on, off, h, q \o s, x, Len(q \o s) + 1) <=>
           \/ Is(s[i], on, x)
           \/ ThereAt(on, off, h, q, x, Len(q) + 1) /\ ~Is(s[i], off, x)
<1>1. PICK p, n, e : p = q \o s /\ n = Len(q) /\ e = Len(q) + i
  OBVIOUS
<1>2. /\ n \in Nat /\ e \in 1 .. Len(p) /\ p[e] = s[i] /\ Len(p) \in Nat /\ Len(p) >= n
      /\ \A l \in 1 .. n : l \in 1 .. Len(p) /\ p[l] = q[l]
      /\ \A l \in 1 .. Len(p) :
           \/ l \in 1 .. n /\ p[l] = q[l]
           \/ l > n /\ l - n \in 1 .. Len(s) /\ p[l] = s[l - n]
  BY <1>1, PushFacts
<1>3. \A l \in 1 .. Len(p) : l \in Nat /\ l < Len(p) + 1
  BY <1>2
<1>4. ASSUME NEW l \in 1 .. Len(p), l # e, ~(l \in 1 .. n)
      PROVE  ~Is(p[l], off, x) /\ ~Is(p[l], on, x)
  <2>1. l > n /\ l - n \in 1 .. Len(s) /\ p[l] = s[l - n]
    BY <1>2, <1>4
  <2>2. l - n # i
    BY <1>1, <1>2, <1>3, <1>4, <2>1
  <2> QED
    BY <2>1, <2>2
<1>5. e > n /\ e \in Nat /\ \A l \in 1 .. n : l < n + 1 /\ l < e
  BY <1>1, <1>2
<1>6. ASSUME ThereAt(on, off, h, p, x, Len(p) + 1)
      PROVE  Is(s[i], on, x) \/ (ThereAt(on, off, h, q, x, n + 1) /\ ~Is(s[i], off, x))
  <2>1. CASE x \in h /\ \A l \in 1 .. Len(p) : l < Len(p) + 1 => ~Is(p[l], off, x)
    <3>1. \A l \in 1 .. Len(q) : ~Is(q[l], off, x)
      BY <1>1, <1>2, <1>3, <2>1
    <3> QED
      BY <1>2, <1>3, <2>1, <3>1 DEF ThereAt
  <2>2. ASSUME NEW m \in 1 .. Len(p), Is(p[m], on, x),
               \A l \in 1 .. Len(p) : m < l /\ l < Len(p) + 1 => ~Is(p[l], off, x)
        PROVE  Is(s[i], on, x) \/ (ThereAt(on, off, h, q, x, n + 1) /\ ~Is(s[i], off, x))
    <3>1. CASE m = e
      BY <1>2, <2>2, <3>1
    <3>2. CASE m \in 1 .. n
      <4>1. ~Is(s[i], off, x)
        BY <1>2, <1>3, <1>5, <2>2, <3>2
      <4>2. \A l \in 1 .. Len(q) : m < l => ~Is(q[l], off, x)
        BY <1>1, <1>2, <1>3, <2>2
      <4>3. Is(q[m], on, x) /\ m < n + 1 /\ m \in 1 .. Len(q)
        BY <1>1, <1>2, <1>5, <2>2, <3>2
      <4> QED
        BY <4>1, <4>2, <4>3 DEF ThereAt
    <3> QED
      BY <1>4, <2>2, <3>1, <3>2
  <2> QED
    BY <1>6, <2>1, <2>2 DEF ThereAt
<1>7. ASSUME Is(s[i], on, x)
      PROVE  ThereAt(on, off, h, p, x, Len(p) + 1)
  <2>1. \A l \in 1 .. Len(p) : e < l => ~Is(p[l], off, x)
    BY <1>3, <1>4, <1>5
  <2> QED
    BY <1>2, <1>3, <1>7, <2>1 DEF ThereAt
<1>8. ASSUME ThereAt(on, off, h, q, x, n + 1), ~Is(s[i], off, x)
      PROVE  ThereAt(on, off, h, p, x, Len(p) + 1)
  <2>0. \A l \in 1 .. Len(p) : (l \in 1 .. Len(q) /\ p[l] = q[l]) \/ ~Is(p[l], off, x)
    BY <1>1, <1>2, <1>4, <1>8
  <2>1. CASE x \in h /\ \A l \in 1 .. Len(q) : l < n + 1 => ~Is(q[l], off, x)
    <3>1. \A l \in 1 .. Len(p) : ~Is(p[l], off, x)
      BY <1>1, <1>5, <2>0, <2>1
    <3> QED
      BY <2>1, <3>1 DEF ThereAt
  <2>2. ASSUME NEW m \in 1 .. Len(q), Is(q[m], on, x),
               \A l \in 1 .. Len(q) : m < l /\ l < n + 1 => ~Is(q[l], off, x)
        PROVE  ThereAt(on, off, h, p, x, Len(p) + 1)
    <3>1. \A l \in 1 .. Len(p) : m < l => ~Is(p[l], off, x)
      BY <1>1, <1>5, <2>0, <2>2
    <3>2. m \in 1 .. Len(p) /\ Is(p[m], on, x) /\ m < Len(p) + 1
      BY <1>1, <1>2, <1>3, <2>2
    <3> QED
      BY <3>1, <3>2 DEF ThereAt
  <2> QED
    BY <1>8, <2>1, <2>2 DEF ThereAt
<1> QED
  BY <1>1, <1>6, <1>7, <1>8

LEMMA ThereRead ==
  ASSUME NEW on, NEW off, on # off, NEW q \in Seq(Commands), q # <<>>, NEW h, NEW g, NEW x,
         NEW k \in Nat, k >= 1,
         x \in g <=> (x \in h \/ Is(Head(q), on, x)) /\ ~Is(Head(q), off, x)
  PROVE  ThereAt(on, off, g, Tail(q), x, k) <=> ThereAt(on, off, h, q, x, k + 1)
<1>1. PICK p, c : p = Tail(q) /\ c = Head(q)
  OBVIOUS
<1>2. /\ Len(p) = Len(q) - 1 /\ Len(q) \in Nat /\ c = q[1] /\ 1 \in 1 .. Len(q)
      /\ \A l \in 1 .. Len(p) : l + 1 \in 1 .. Len(q) /\ p[l] = q[l + 1]
      /\ \A l \in 1 .. Len(q) : l = 1 \/ (l - 1 \in 1 .. Len(p) /\ p[l - 1] = q[l])
  BY <1>1, ReadFacts
<1>3. x \in g <=> (x \in h \/ Is(c, on, x)) /\ ~Is(c, off, x)
  BY <1>1
<1>4. ASSUME ThereAt(on, off, g, p, x, k)
      PROVE  ThereAt(on, off, h, q, x, k + 1)
  <2>1. CASE x \in g /\ \A l \in 1 .. Len(p) : l < k => ~Is(p[l], off, x)
    <3>1. \A l \in 1 .. Len(q) : l < k + 1 => ~Is(q[l], off, x)
      BY <1>2, <1>3, <2>1
    <3> QED
      BY <1>2, <1>3, <2>1, <3>1 DEF ThereAt
  <2>2. ASSUME NEW m \in 1 .. Len(p), m < k, Is(p[m], on, x),
               \A l \in 1 .. Len(p) : m < l /\ l < k => ~Is(p[l], off, x)
        PROVE  ThereAt(on, off, h, q, x, k + 1)
    <3>1. m + 1 \in 1 .. Len(q) /\ m + 1 < k + 1 /\ Is(q[m + 1], on, x)
      BY <1>2, <2>2
    <3>2. \A l \in 1 .. Len(q) : m + 1 < l /\ l < k + 1 => ~Is(q[l], off, x)
      BY <1>2, <2>2
    <3> QED
      BY <3>1, <3>2 DEF ThereAt
  <2> QED
    BY <1>4, <2>1, <2>2 DEF ThereAt
<1>5. ASSUME ThereAt(on, off, h, q, x, k + 1)
      PROVE  ThereAt(on, off, g, p, x, k)
  <2>1. CASE x \in h /\ \A l \in 1 .. Len(q) : l < k + 1 => ~Is(q[l], off, x)
    <3>1. \A l \in 1 .. Len(p) : l < k => ~Is(p[l], off, x)
      BY <1>2, <2>1
    <3>2. ~Is(c, off, x)
      BY <1>2, <2>1
    <3> QED
      BY <1>3, <2>1, <3>1, <3>2 DEF ThereAt
  <2>2. ASSUME NEW m \in 1 .. Len(q), m < k + 1, Is(q[m], on, x),
               \A l \in 1 .. Len(q) : m < l /\ l < k + 1 => ~Is(q[l], off, x)
        PROVE  ThereAt(on, off, g, p, x, k)
    <3>1. CASE m = 1
      <4>1. Is(c, on, x) /\ ~Is(c, off, x)
        BY <1>2, <2>2, <3>1 DEF Is
      <4>2. \A l \in 1 .. Len(p) : l < k => ~Is(p[l], off, x)
        BY <1>2, <2>2, <3>1
      <4> QED
        BY <1>3, <4>1, <4>2 DEF ThereAt
    <3>2. CASE m # 1
      <4>1. PICK n : n = m - 1
        OBVIOUS
      <4>2. n \in 1 .. Len(p) /\ p[n] = q[m] /\ n < k /\ m = n + 1 /\ n \in Int
        BY <1>2, <2>2, <3>2, <4>1
      <4>3. \A l \in 1 .. Len(p) : n < l /\ l < k => ~Is(p[l], off, x)
        BY <1>2, <2>2, <4>2
      <4> QED
        BY <2>2, <4>2, <4>3 DEF ThereAt
    <3> QED
      BY <3>1, <3>2
  <2> QED
    BY <1>5, <2>1, <2>2 DEF ThereAt
<1> QED
  BY <1>1, <1>4, <1>5

LiveKept == \A x \in Nat : Live(x)' <=> Live(x)

Used(s) ==
  /\ s \in Seq(Commands)
  /\ \A l \in 1 .. Len(s) :
       s[l].op \notin {"CTX_CREATE", "CTX_DESTROY"} /\ (s[l].op \in CtxUses => Live(s[l].ctx))

RingUsed == UNCHANGED ring \/ \E s : Used(s) /\ Queue(s)

LEMMA KnownSame ==
  ASSUME TypeInv, KnownInv, UNCHANGED <<hostCtx, plugged>>, LiveKept, RingUsed
  PROVE  KnownInv'
<1>1. CASE UNCHANGED ring
  BY <1>1 DEF KnownInv, LiveKept
<1>2. ASSUME NEW s, Used(s), plugged, ring' = ring \o s
      PROVE  KnownInv'
  <2>0. /\ ring \in Seq(Commands) /\ s \in Seq(Commands)
        /\ \A l \in 1 .. Len(s) : s[l].op \notin {"CTX_CREATE", "CTX_DESTROY"}
    BY <1>2 DEF TypeInv, Used
  <2>1. PICK q, h : q = ring' /\ h = hostCtx
    OBVIOUS
  <2>2. /\ q = ring \o s /\ Len(ring) \in Nat /\ Len(q) \in Nat /\ Len(q) >= Len(ring)
        /\ \A k \in 1 .. Len(q) :
             \/ k \in 1 .. Len(ring) /\ q[k] = ring[k]
             \/ k - Len(ring) \in 1 .. Len(s) /\ k > Len(ring) /\ q[k] = s[k - Len(ring)]
    BY <1>2, <2>0, <2>1, PushFacts
  <2>3. \A x : \A k \in Nat : k > Len(ring) => (KnownAt(h, q, x, k) <=> KnownAt(h, ring, x, Len(ring) + 1))
    <3>1. \A l \in 1 .. Len(s) : \A x : ~Is(s[l], "CTX_CREATE", x) /\ ~Is(s[l], "CTX_DESTROY", x)
      BY <2>0 DEF Is
    <3> QED
      BY <2>0, <2>2, <3>1, ThereMore DEF KnownAt
  <2>4. \A x : \A k \in Nat : k <= Len(ring) + 1 => (KnownAt(h, q, x, k) <=> KnownAt(h, ring, x, k))
    BY <2>0, <2>2, TherePush DEF KnownAt
  <2>5. KnownOK(h, q)
    <3> SUFFICES ASSUME NEW k \in 1 .. Len(q)
                 PROVE  /\ q[k].op = "CTX_CREATE" => ~KnownAt(h, q, q[k].ctx, k)
                        /\ q[k].op \in CtxUses => KnownAt(h, q, q[k].ctx, k)
      BY DEF KnownOK
    <3>1. CASE k \in 1 .. Len(ring) /\ q[k] = ring[k]
      <4>1. KnownAt(h, q, q[k].ctx, k) <=> KnownAt(h, ring, ring[k].ctx, k)
        BY <2>2, <2>4, <3>1
      <4> QED
        BY <2>1, <3>1, <4>1 DEF KnownInv, KnownOK
    <3>2. CASE k - Len(ring) \in 1 .. Len(s) /\ k > Len(ring) /\ q[k] = s[k - Len(ring)]
      <4>1. q[k].op \notin {"CTX_CREATE", "CTX_DESTROY"} /\ (q[k].op \in CtxUses => Live(q[k].ctx))
        BY <1>2, <3>2 DEF Used
      <4>2. q[k] \in Commands
        BY <2>0, <3>2
      <4>3. q[k].ctx \in Nat
        BY <4>2, CmdFields
      <4>4. Live(q[k].ctx) => KnownAt(h, ring, q[k].ctx, Len(ring) + 1)
        BY <1>2, <2>1, <4>3 DEF KnownInv
      <4> QED
        BY <2>2, <2>3, <3>2, <4>1, <4>4
    <3> QED
      BY <2>2, <3>1, <3>2
  <2>6. \A x \in Nat : KnownAt(h, q, x, Len(q) + 1) <=> Live(x)
    BY <1>2, <2>1, <2>2, <2>3 DEF KnownInv
  <2> QED
    BY <2>1, <2>5, <2>6 DEF KnownInv, LiveKept
<1>3. CASE ~plugged
  BY <1>1, <1>3 DEF RingUsed, Queue
<1> QED
  BY <1>1, <1>2, <1>3 DEF RingUsed, Queue

(* CTX_CREATE of a context that is nobody's, CTX_DESTROY of one that is. *)
LEMMA KnownChanged ==
  ASSUME TypeInv, KnownInv, UNCHANGED <<hostCtx, plugged>>, NEW c \in Commands, Queue(<<c>>),
         \/ /\ c.op = "CTX_CREATE" /\ ~Live(c.ctx)
            /\ \A x \in Nat : Live(x)' <=> Live(x) \/ x = c.ctx
         \/ /\ c.op = "CTX_DESTROY" /\ Live(c.ctx)
            /\ \A x \in Nat : Live(x)' <=> Live(x) /\ x # c.ctx
  PROVE  KnownInv'
<1>1. CASE ~plugged
  BY <1>1 DEF KnownInv, Queue
<1>2. CASE plugged
  <2>1. PICK s : s = <<c>>
    OBVIOUS
  <2>2. s \in Seq(Commands) /\ Len(s) = 1 /\ s[1] = c /\ ring \in Seq(Commands)
    BY <2>1 DEF TypeInv
  <2>3. PICK q, h : q = ring' /\ h = hostCtx
    OBVIOUS
  <2>4. q = ring \o <<c>> /\ q = ring \o s
    BY <1>2, <2>1, <2>3 DEF Queue
  <2>5. /\ Len(ring) \in Nat /\ Len(q) = Len(ring) + 1
        /\ \A k \in 1 .. Len(q) :
             \/ k \in 1 .. Len(ring) /\ q[k] = ring[k]
             \/ k - Len(ring) \in 1 .. Len(s) /\ k > Len(ring) /\ q[k] = s[k - Len(ring)]
    BY <2>2, <2>4, PushFacts
  <2>6. \A x : KnownAt(h, q, x, Len(q) + 1) <=>
          Is(c, "CTX_CREATE", x) \/ (KnownAt(h, ring, x, Len(ring) + 1) /\ ~Is(c, "CTX_DESTROY", x))
    <3>0. PICK i : i = 1
      OBVIOUS
    <3>1. i \in 1 .. Len(s) /\ s[i] = c /\ \A l \in 1 .. Len(s) : l = i
      BY <2>2, <3>0
    <3> SUFFICES ASSUME NEW x
                 PROVE  KnownAt(h, q, x, Len(q) + 1) <=>
                          Is(c, "CTX_CREATE", x) \/ (KnownAt(h, ring, x, Len(ring) + 1) /\ ~Is(c, "CTX_DESTROY", x))
      OBVIOUS
    <3>2. \A l \in 1 .. Len(s) : l # i => ~Is(s[l], "CTX_CREATE", x) /\ ~Is(s[l], "CTX_DESTROY", x)
      BY <3>1
    <3>3. PICK on, off : on = "CTX_CREATE" /\ off = "CTX_DESTROY"
      OBVIOUS
    <3>4. ThereAt(on, off, h, ring \o s, x, Len(ring \o s) + 1) <=>
            Is(s[i], on, x) \/ (ThereAt(on, off, h, ring, x, Len(ring) + 1) /\ ~Is(s[i], off, x))
      BY <2>2, <3>1, <3>2, <3>3, ThereOnce
    <3> QED
      BY <2>4, <3>1, <3>3, <3>4 DEF KnownAt
  <2>7. \A x : \A k \in Nat : k <= Len(ring) + 1 => (KnownAt(h, q, x, k) <=> KnownAt(h, ring, x, k))
    BY <2>2, <2>4, TherePush DEF KnownAt
  <2>8. \A x \in Nat : KnownAt(h, ring, x, Len(ring) + 1) <=> Live(x)
    BY <1>2, <2>3 DEF KnownInv
  <2>9. c.ctx \in Nat
    BY CmdFields
  <2>10. KnownOK(h, q)
    <3> SUFFICES ASSUME NEW k \in 1 .. Len(q)
                 PROVE  /\ q[k].op = "CTX_CREATE" => ~KnownAt(h, q, q[k].ctx, k)
                        /\ q[k].op \in CtxUses => KnownAt(h, q, q[k].ctx, k)
      BY DEF KnownOK
    <3>1. CASE k \in 1 .. Len(ring) /\ q[k] = ring[k]
      <4>1. KnownAt(h, q, q[k].ctx, k) <=> KnownAt(h, ring, ring[k].ctx, k)
        BY <2>5, <2>7, <3>1
      <4> QED
        BY <2>3, <3>1, <4>1 DEF KnownInv, KnownOK
    <3>2. CASE k = Len(ring) + 1 /\ q[k] = c
      <4>1. KnownAt(h, q, c.ctx, k) <=> Live(c.ctx)
        BY <2>5, <2>7, <2>8, <2>9, <3>2
      <4> QED
        BY <3>2, <4>1 DEF CtxUses
    <3> QED
      BY <2>2, <2>5, <3>1, <3>2
  <2>11. \A x \in Nat : KnownAt(h, q, x, Len(q) + 1) <=> Live(x)'
    BY <2>6, <2>8, <2>9 DEF Is, Names
  <2> QED
    BY <2>3, <2>10, <2>11 DEF KnownInv
<1> QED
  BY <1>1, <1>2 DEF TypeInv

LEMMA KnownHost ==
  ASSUME TypeInv, KnownInv, HostRead
  PROVE  KnownInv'
<1>1. UNCHANGED <<plugged, file, th>> /\ ring # <<>> /\ ring' = Tail(ring)
  BY Zenon DEF HostRead, fileVars
<1>2. ring \in Seq(Commands)
  BY DEF TypeInv
<1>3. PICK q, h, c : q = ring' /\ h = hostCtx' /\ c = Head(ring)
  OBVIOUS
<1>4. /\ q = Tail(ring) /\ Len(q) = Len(ring) - 1 /\ Len(ring) \in Nat
      /\ \A k \in 1 .. Len(q) : k + 1 \in 1 .. Len(ring) /\ q[k] = ring[k + 1]
  BY <1>1, <1>2, <1>3, ReadFacts
<1>5. \A x : x \in h <=> (x \in hostCtx \/ Is(c, "CTX_CREATE", x)) /\ ~Is(c, "CTX_DESTROY", x)
  <2>1. h = CASE c.op = "CTX_CREATE"  -> hostCtx \cup {c.ctx}
              [] c.op = "CTX_DESTROY" -> hostCtx \ {c.ctx}
              [] OTHER                -> hostCtx
    BY <1>3, Zenon DEF HostRead
  <2> QED
    BY <2>1 DEF Is, Names
<1>6. \A x : \A k \in Nat : k >= 1 => (KnownAt(h, q, x, k) <=> KnownAt(hostCtx, ring, x, k + 1))
  BY <1>1, <1>2, <1>3, <1>4, <1>5, ThereRead DEF KnownAt
<1>7. KnownOK(h, q)
  <2> SUFFICES ASSUME NEW k \in 1 .. Len(q)
               PROVE  /\ q[k].op = "CTX_CREATE" => ~KnownAt(h, q, q[k].ctx, k)
                      /\ q[k].op \in CtxUses => KnownAt(h, q, q[k].ctx, k)
    BY DEF KnownOK
  <2>1. k \in Nat /\ k >= 1 /\ k + 1 \in 1 .. Len(ring) /\ q[k] = ring[k + 1]
    BY <1>4
  <2>2. KnownAt(h, q, q[k].ctx, k) <=> KnownAt(hostCtx, ring, ring[k + 1].ctx, k + 1)
    BY <1>6, <2>1
  <2> QED
    BY <2>1, <2>2 DEF KnownInv, KnownOK
<1>8. ASSUME plugged, NEW x \in Nat
      PROVE  KnownAt(h, q, x, Len(q) + 1) <=> Live(x)
  <2>1. Len(q) + 1 \in Nat /\ Len(q) + 1 >= 1 /\ (Len(q) + 1) + 1 = Len(ring) + 1
    <3>1. Len(ring) >= 1
      BY <1>1, <1>2, ReadFacts
    <3> QED
      BY <1>4, <3>1
  <2>2. KnownAt(h, q, x, Len(q) + 1) <=> KnownAt(hostCtx, ring, x, Len(ring) + 1)
    BY <1>6, <2>1
  <2> QED
    BY <1>8, <2>2 DEF KnownInv
<1>9. \A x : Live(x)' <=> Live(x)
  BY <1>1 DEF Live, F
<1> QED
  BY <1>1, <1>3, <1>7, <1>8, <1>9 DEF KnownInv
-----------------------------------------------------------------------------
(* Steps that leave files and their locks alone. *)
CtxStill(t) ==
  /\ Moved(t)
  /\ th[t].pc # "ctxSet" /\ th'[t].pc \notin {"params", "ctxQueue", "ctxSet"}
  /\ th'[t].op \in {"SUBMIT", "TRANSFER"} /\ th'[t].pc \notin {"ctx", "ctxQueue", "ctxSet"} =>
       /\ th[t].op = th'[t].op /\ th[t].pc \notin {"ctx", "ctxQueue", "ctxSet"}
       /\ th'[t].file = F(t)

CtxInv == IdInv /\ LockInv /\ KnownInv

LEMMA CtxQuiet ==
  ASSUME TypeInv, CtxInv, UNCHANGED <<file, ctxLock, plugged, hostCtx>>, RingUsed,
         UNCHANGED th \/ \E t \in Thread : CtxStill(t)
  PROVE  CtxInv'
<1>1. IdInv'
  BY DEF CtxInv, IdInv
<1>2. CASE UNCHANGED th
  <2>1. LockInv'
    BY <1>2 DEF CtxInv, LockInv, CtxOK, F
  <2>2. LiveKept
    BY <1>2 DEF LiveKept, Live, F
  <2> QED
    BY <1>1, <2>1, <2>2, KnownSame DEF CtxInv
<1>3. ASSUME NEW t \in Thread, CtxStill(t)
      PROVE  CtxInv'
  <2>1. \A u \in Thread : u # t => th'[u] = th[u]
    BY <1>3 DEF CtxStill, Moved, Others
  <2>2. CtxOK(t)'
    BY <1>3 DEF CtxStill, CtxInv, LockInv, CtxOK, F
  <2>3. \A u \in Thread : u # t => CtxOK(u)'
    BY <2>1 DEF CtxInv, LockInv, CtxOK, F
  <2>4. \A u \in Thread : \A f : (th'[u].pc = "ctxSet" /\ F(u)' = f) <=> (th[u].pc = "ctxSet" /\ F(u) = f)
    BY <1>3, <2>1 DEF CtxStill, F
  <2>5. LiveKept
    BY <2>4 DEF LiveKept, Live
  <2> QED
    BY <1>1, <2>2, <2>3, <2>5, KnownSame DEF CtxInv, LockInv
<1> QED
  BY <1>2, <1>3

LEMMA UsedFacts ==
  /\ \A c \in Commands :
       c.op \notin {"CTX_CREATE", "CTX_DESTROY"} /\ (c.op \in CtxUses => Live(c.ctx)) => Used(<<c>>)
  /\ Used(<<>>)
  /\ \A s, op, id, T :
       Each(s, op, id, T) /\ (op = "UNREF" \/ (op = "DETACH" /\ Live(id))) => Used(s)
<1>1. ASSUME NEW c \in Commands, c.op \notin {"CTX_CREATE", "CTX_DESTROY"}, c.op \in CtxUses => Live(c.ctx)
      PROVE  Used(<<c>>)
  <2>1. PICK s : s = <<c>>
    OBVIOUS
  <2>2. s \in Seq(Commands) /\ Len(s) = 1 /\ s[1] = c
    BY <2>1
  <2>3. Used(s)
    BY <1>1, <2>2 DEF Used
  <2> QED
    BY <2>1, <2>3
<1>2. Used(<<>>)
  BY DEF Used
<1>3. ASSUME NEW s, NEW op, NEW id, NEW T, Each(s, op, id, T), op = "UNREF" \/ (op = "DETACH" /\ Live(id))
      PROVE  Used(s)
  BY <1>3 DEF Each, Used, CtxUses
<1> QED
  BY <1>1, <1>2, <1>3

LEMMA UsedUnrefs ==
  ASSUME NEW B \in SUBSET Bo, Queue(Unrefs(B))
  PROVE  RingUsed
<1>1. PICK s : s = Unrefs(B)
  OBVIOUS
<1>2. Each(s, "UNREF", 0, Dead(B))
  BY <1>1, UnrefFacts
<1> QED
  BY <1>1, <1>2, UsedFacts DEF RingUsed

LEMMA LiveFile ==
  ASSUME NEW f \in File, file[f].st \in {"open", "closing"}, file[f].created
  PROVE  Live(file[f].id)
  BY DEF Live

(* One command, of no context or of the one of a file that has it. *)
LEMMA UsedOne ==
  ASSUME NEW op, NEW id \in Nat, NEW B \in SUBSET Bo, NEW j \in Nat, Queue(<<Cmd(op, id, B, j)>>),
         op \in {"CREATE", "ATTACH", "SUBMIT", "TRANSFER"}, op # "CREATE" => Live(id)
  PROVE  RingUsed
<1>1. PICK c : c = Cmd(op, id, B, j)
  OBVIOUS
<1>2. c \in Commands /\ c.op = op /\ c.ctx = id
  BY <1>1, CmdFacts
<1>3. Used(<<c>>)
  BY <1>2, UsedFacts DEF CtxUses
<1> QED
  BY <1>1, <1>3 DEF RingUsed

LEMMA CtxCalls ==
  ASSUME TypeInv, LocalInv, CtxInv, NEW t \in Thread, Call(t) \/ Import(t)
  PROVE  CtxInv'
<1>1. UNCHANGED <<file, ctxLock, plugged, hostCtx, ring>>
  BY Zenon DEF Call, Import, fileVars, hostVars
<1>2. CASE Call(t)
  <2>1. /\ Moved(t) /\ th'[t].pc \in {"ctx", "create"} /\ th[t].pc = "idle"
    BY <1>2, MoveCall
  <2>2. th'[t].op \in {"SUBMIT", "TRANSFER"} => th'[t].pc = "ctx"
    BY <2>1 DEF Moved, LocalOK, Holding
  <2>3. CtxStill(t)
    BY <2>1, <2>2 DEF CtxStill
  <2> QED
    BY <1>1, <2>3, CtxQuiet DEF RingUsed
<1>3. CASE Import(t)
  <2>1. CtxStill(t)
    BY <1>3, MoveImport DEF CtxStill
  <2> QED
    BY <1>1, <2>1, CtxQuiet DEF RingUsed
<1> QED
  BY <1>2, <1>3

LEMMA CtxObject ==
  ASSUME TypeInv, LocalInv, CtxInv, NEW t \in Thread, Create(t) \/ HandleCreate(t) \/ Attach(t)
  PROVE  CtxInv'
<1>1. UNCHANGED <<file, ctxLock, plugged, hostCtx>>
  BY Zenon DEF Create, HandleCreate, Attach, fileVars, hostVars
<1>2. th[t].pc # "idle" /\ sub[t].bos \in SUBSET Bo
  BY Fields DEF Create, HandleCreate, Attach
<1>3. F(t) \in File /\ file[F(t)].st = "open" /\ LocalOK(th[t], sub[t])
  BY <1>2, LocalFacts
<1>4. CASE Create(t)
  <2>1. th[t].op \notin {"SUBMIT", "TRANSFER"}
    BY <1>3, <1>4, CreateMoves DEF LocalOK, Holding
  <2>2. CtxStill(t)
    BY <1>4, <2>1, CreateMoves DEF CtxStill, Keeps
  <2>3. PICK b \in Bo : \/ Queue(<<CmdResourceCreate3d(b, Len(job) + 1)>>)
                        \/ Queue(<<CmdCreateResource(b)>>)
    BY <1>4, CreateFacts
  <2>4. RingUsed
    <3>1. {b} \in SUBSET Bo /\ Len(job) + 1 \in Nat
      BY DEF TypeInv
    <3> QED
      BY <2>3, <3>1, UsedOne DEF CmdResourceCreate3d, CmdCreateResource
  <2> QED
    BY <1>1, <2>2, <2>4, CtxQuiet
<1>5. CASE HandleCreate(t)
  <2>0. th[t].pc = "handle"
    BY <1>5 DEF HandleCreate
  <2>1. CtxStill(t)
    BY <1>5, <2>0, MoveHandleCreate DEF CtxStill, Idle
  <2>2. Queue(Unrefs(sub[t].bos)) \/ UNCHANGED ring
    BY <1>5, Zenon DEF HandleCreate
  <2>3. RingUsed
    BY <1>2, <2>2, UsedUnrefs DEF RingUsed
  <2> QED
    BY <1>1, <2>1, <2>3, CtxQuiet
<1>6. CASE Attach(t)
  <2>0. Moved(t) /\ th'[t] = Idle /\ th[t].pc # "ctxSet"
    <3>1. th[t].pc = "attach"
      BY <1>6 DEF Attach
    <3> QED
      BY <1>6, <3>1, MoveAttach
  <2>1. CtxStill(t)
    BY <2>0 DEF CtxStill, Idle
  <2>2. \/ file[F(t)].created /\ Queue(<<CmdContextAttach(file[F(t)].id, sub[t].bos)>>)
        \/ Queue(Unrefs(sub[t].bos))
    BY <1>6, Zenon DEF Attach
  <2>3. ASSUME file[F(t)].created, Queue(<<CmdContextAttach(file[F(t)].id, sub[t].bos)>>)
        PROVE  RingUsed
    <3>1. PICK id : id = file[F(t)].id
      OBVIOUS
    <3>2. id \in Nat /\ Live(id)
      BY <1>3, <2>3, <3>1, LiveFile, FileFields
    <3> QED
      BY <1>2, <2>3, <3>1, <3>2, UsedOne DEF CmdContextAttach
  <2>4. RingUsed
    BY <1>2, <2>2, <2>3, UsedUnrefs
  <2> QED
    BY <1>1, <2>1, <2>4, CtxQuiet
<1> QED
  BY <1>4, <1>5, <1>6

LEMMA CtxSubmit ==
  ASSUME TypeInv, LocalInv, CtxInv, NEW t \in Thread,
         \/ InitSubmit(t) \/ ParseDeps(t) \/ WaitInFence(t) \/ LockResv(t)
         \/ Submit(t) \/ Publish(t) \/ CleanupSubmit(t)
  PROVE  CtxInv'
<1>1. UNCHANGED <<file, ctxLock, plugged, hostCtx>>
  BY Zenon DEF InitSubmit, ParseDeps, WaitInFence, LockResv, Submit, Publish, CleanupSubmit, fileVars, hostVars
<1>2. th[t].pc \in {"init", "deps", "inFence", "lock", "submit", "publish", "cleanup"}
  BY DEF InitSubmit, ParseDeps, WaitInFence, LockResv, Submit, Publish, CleanupSubmit
<1>3. /\ Moved(t)
      /\ \/ th'[t] = Idle
         \/ Keeps(t) /\ th'[t].pc \in {"deps", "inFence", "lock", "submit", "publish", "cleanup"}
  BY MoveInitSubmit, MoveParseDeps, MoveWaitInFence, MoveLockResv, MoveSubmit, MovePublish, MoveCleanupSubmit
<1>4. CtxStill(t)
  BY <1>2, <1>3 DEF CtxStill, Keeps, Idle
<1>5. F(t) \in File /\ file[F(t)].st = "open" /\ LocalOK(th[t], sub[t]) /\ sub[t].bos \in SUBSET Bo
  BY <1>2, LocalFacts, Fields
<1>6. RingUsed
  <2>1. \/ UNCHANGED ring
        \/ Queue(Unrefs(sub[t].bos))
        \/ Submit(t) /\ Queue(<<Command(t)>>)
    BY Zenon DEF InitSubmit, ParseDeps, WaitInFence, LockResv, Submit, Publish, CleanupSubmit
  <2>2. ASSUME Submit(t), Queue(<<Command(t)>>)
        PROVE  RingUsed
    <3>1. th[t].pc \in Holding /\ th[t].pc = "submit"
      BY <2>2 DEF Submit, Holding
    <3>2. th[t].op \in {"SUBMIT", "TRANSFER"}
      BY <3>1, HoldingFacts
    <3>3. file[F(t)].created
      BY <3>1, <3>2 DEF CtxInv, LockInv, CtxOK
    <3>4. PICK id, j : id = file[F(t)].id /\ j = sub[t].job
      OBVIOUS
    <3>5. id \in Nat /\ Live(id) /\ j \in Nat
      BY <1>5, <3>3, <3>4, LiveFile, FileFields, Fields
    <3>6. Queue(<<Cmd("SUBMIT", id, sub[t].bos, j)>>) \/ Queue(<<Cmd("TRANSFER", id, sub[t].bos, j)>>)
      BY <2>2, <3>4 DEF Command, CmdSubmit, CmdTransferHost3d
    <3> QED
      BY <1>5, <3>5, <3>6, UsedOne
  <2> QED
    BY <1>5, <2>1, <2>2, UsedUnrefs DEF RingUsed
<1> QED
  BY <1>1, <1>4, <1>6, CtxQuiet

(* A thread makes the context of its file. *)
LEMMA LockMoved ==
  ASSUME TypeInv, LocalInv, LockInv, NEW t \in Thread, Moved(t), CtxOK(t)',
         \A u \in Thread : u # t /\ th[u].pc # "idle" =>
           /\ file[F(u)].created => file'[F(u)].created
           /\ ctxLock[F(u)] = u => ctxLock'[F(u)] = u /\ file'[F(u)].created = file[F(u)].created
  PROVE  LockInv'
<1>1. ASSUME NEW u \in Thread, u # t
      PROVE  CtxOK(u)'
  <2>1. th'[u] = th[u] /\ F(u)' = F(u)
    BY <1>1 DEF Moved, Others, F
  <2>2. CASE th[u].pc = "idle"
    <3>0. th[u] = Idle
      BY <2>2, LocalFacts DEF LocalOK
    <3>1. th[u].op = "NONE"
      BY <3>0 DEF Idle
    <3> QED
      BY <2>1, <2>2, <3>1 DEF CtxOK
  <2>3. CASE th[u].pc # "idle"
    BY <1>1, <2>1, <2>3 DEF LockInv, CtxOK
  <2> QED
    BY <2>2, <2>3
<1> QED
  BY <1>1 DEF LockInv

LEMMA CtxMake ==
  ASSUME TypeInv, LocalInv, CtxInv, NEW t \in Thread, CtxLock(t) \/ CtxParams(t)
  PROVE  CtxInv'
<1>1. UNCHANGED <<plugged, hostCtx, ring>>
  BY Zenon DEF CtxLock, CtxParams, hostVars
<1>2. /\ Moved(t) /\ th[t].pc \in {"ctx", "params"}
      /\ \/ th'[t] = Idle
         \/ Keeps(t) /\ th'[t].pc \in {"attach", "create", "init", "params", "ctxQueue"}
  BY MoveCtxLock, MoveCtxParams DEF CtxLock, CtxParams
<1>3. F(t) \in File /\ ctxLock \in [File -> Thread \cup {Nobody}]
  BY <1>2, LocalFacts DEF TypeInv
<1>4. /\ file' \in [File -> FileState]
      /\ \A f \in File : /\ file'[f].id = file[f].id /\ file'[f].st = file[f].st
                         /\ file'[f].created = file[f].created
  BY <1>3, FileEdit DEF CtxLock, CtxParams, OtherFiles, TypeInv
<1>5. IdInv'
  BY <1>4 DEF CtxInv, IdInv
<1>6. LiveKept
  <2>1. \A u \in Thread : \A f : (th'[u].pc = "ctxSet" /\ F(u)' = f) <=> (th[u].pc = "ctxSet" /\ F(u) = f)
    BY <1>2 DEF Moved, Others, F, Idle
  <2> QED
    BY <1>4, <2>1 DEF LiveKept, Live
<1>7. ctxLock[F(t)] \in {Nobody, t} /\ \A f \in File : f # F(t) => ctxLock'[f] = ctxLock[f]
  BY <1>3 DEF CtxLock, CtxParams, CtxInv, LockInv, CtxOK
<1>8. CtxOK(t)'
  <2>1. CASE th'[t] = Idle
    BY <2>1 DEF CtxOK, Idle
  <2>2. CASE Keeps(t) /\ th'[t].pc \in {"attach", "create", "init", "params", "ctxQueue"}
    <3>1. F(t)' = F(t) /\ file'[F(t)].created = file[F(t)].created
      BY <1>3, <1>4, <2>2 DEF Keeps, F
    <3>2. CASE CtxLock(t)
      <4>1. CASE file[F(t)].created
        <5>1. th'[t].pc \in {"attach", "create", "init"}
          BY <3>2, <4>1, MoveAfterCtx, <2>2 DEF CtxLock, Idle
        <5> QED
          BY <3>1, <4>1, <5>1 DEF CtxOK
      <4>2. CASE ~file[F(t)].created
        <5>1. /\ ctxLock' = [ctxLock EXCEPT ![F(t)] = t]
              /\ Goto(t, IF th[t].op = "INIT" THEN "params" ELSE "ctxQueue")
          BY <3>2, <4>2, Zenon DEF CtxLock
        <5>2. ctxLock'[F(t)] = t
          BY <1>3, <5>1
        <5>3. th'[t].pc \in {"params", "ctxQueue"} /\ (th'[t].pc = "params" => th'[t].op = "INIT")
          <6>1. th'[t].pc \in {"params", "ctxQueue"}
            BY <5>1 DEF Goto, TypeInv, ThreadState
          <6> QED
            BY <1>2, <6>1 DEF Moved, LocalOK
        <5> QED
          BY <3>1, <4>2, <5>2, <5>3 DEF CtxOK
      <4> QED
        BY <4>1, <4>2
    <3>3. CASE CtxParams(t)
      <4>1. th[t].pc = "params" /\ th'[t].pc = "ctxQueue"
        BY <2>2, <3>3, MoveCtxParams DEF CtxParams, Idle
      <4>2. UNCHANGED ctxLock
        BY <3>3, <4>1 DEF CtxParams, Return, Idle, TypeInv
      <4> QED
        BY <3>1, <4>1, <4>2 DEF CtxInv, LockInv, CtxOK
    <3> QED
      BY <3>2, <3>3
  <2> QED
    BY <1>2, <2>1, <2>2
<1>9. LockInv'
  <2>1. ASSUME NEW u \in Thread, u # t, th[u].pc # "idle"
        PROVE  /\ file[F(u)].created => file'[F(u)].created
               /\ ctxLock[F(u)] = u => ctxLock'[F(u)] = u /\ file'[F(u)].created = file[F(u)].created
    <3>1. F(u) \in File
      BY <2>1, LocalFacts
    <3>2. u # Nobody
      BY ExecAssumption
    <3> QED
      BY <1>4, <1>7, <2>1, <3>1, <3>2
  <2> QED
    BY <1>2, <1>8, <2>1, LockMoved DEF CtxInv
<1>10. KnownInv'
  BY <1>1, <1>6, KnownSame DEF CtxInv, RingUsed
<1> QED
  BY <1>5, <1>9, <1>10 DEF CtxInv

LEMMA CtxQueued ==
  ASSUME TypeInv, LocalInv, CtxInv, NEW t \in Thread, CtxQueue(t)
  PROVE  CtxInv'
<1>1. UNCHANGED <<plugged, hostCtx, file, ctxLock>> /\ th[t].pc = "ctxQueue"
  BY Zenon DEF CtxQueue, hostVars, fileVars
<1>2. Moved(t) /\ Keeps(t) /\ th'[t].pc = "ctxSet"
  BY MoveCtxQueue
<1>3. F(t) \in File /\ file[F(t)].st = "open" /\ ctxLock[F(t)] = t /\ ~file[F(t)].created
  BY <1>1, LocalFacts DEF CtxInv, LockInv, CtxOK
<1>4. PICK f \in File : f = F(t)
  BY <1>3
<1>5. PICK c : c = CmdContextCreate(file[f].id)
  OBVIOUS
<1>6. c \in Commands /\ c.op = "CTX_CREATE" /\ c.ctx = file[f].id /\ c.ctx \in Nat /\ Queue(<<c>>)
  BY <1>4, <1>5, CmdFacts, FileFields DEF CmdContextCreate, CtxQueue
<1>7. \A u \in Thread : u # t => th'[u] = th[u]
  BY <1>2 DEF Moved, Others
<1>8. file[f].id # 0
  BY <1>3, <1>4 DEF CtxInv, IdInv
<1>9. ~Live(c.ctx)
  <2> SUFFICES ASSUME NEW g \in File, file[g].id = file[f].id,
                      file[g].created \/ \E u \in Thread : th[u].pc = "ctxSet" /\ F(u) = g
               PROVE  FALSE
    BY <1>6 DEF Live
  <2>1. g = f
    BY <1>8 DEF CtxInv, IdInv
  <2>2. PICK u \in Thread : th[u].pc = "ctxSet" /\ F(u) = f
    BY <1>3, <1>4, <2>1
  <2>3. ctxLock[f] = u
    BY <2>2 DEF CtxInv, LockInv, CtxOK
  <2> QED
    BY <1>1, <1>3, <1>4, <2>2, <2>3
<1>10. ASSUME NEW x \in Nat
       PROVE  Live(x)' <=> Live(x) \/ x = c.ctx
  <2>1. \A u \in Thread : \A g : (th'[u].pc = "ctxSet" /\ F(u)' = g) <=>
          (th[u].pc = "ctxSet" /\ F(u) = g) \/ (u = t /\ g = f)
    BY <1>1, <1>2, <1>4, <1>7 DEF Keeps, F
  <2>2. ASSUME Live(x)'
        PROVE  Live(x) \/ x = c.ctx
    BY <1>1, <1>6, <2>1, <2>2 DEF Live
  <2>3. ASSUME Live(x)
        PROVE  Live(x)'
    BY <1>1, <2>1, <2>3 DEF Live
  <2>4. ASSUME x = c.ctx
        PROVE  Live(x)'
    BY <1>1, <1>3, <1>4, <1>6, <2>1, <2>4 DEF Live
  <2> QED
    BY <2>2, <2>3, <2>4
<1>11. KnownInv'
  BY <1>1, <1>6, <1>9, <1>10, KnownChanged DEF CtxInv
<1>12. LockInv'
  <2>1. CtxOK(t)'
    BY <1>1, <1>2, <1>3 DEF CtxOK, Keeps, F
  <2> QED
    BY <1>1, <1>2, <2>1, LockMoved DEF CtxInv
<1>13. IdInv'
  BY <1>1 DEF CtxInv, IdInv
<1> QED
  BY <1>11, <1>12, <1>13 DEF CtxInv

LEMMA CtxMade ==
  ASSUME TypeInv, LocalInv, CtxInv, NEW t \in Thread, CtxSet(t)
  PROVE  CtxInv'
<1>1. /\ UNCHANGED <<plugged, hostCtx, ring>> /\ th[t].pc = "ctxSet"
      /\ file' = [file EXCEPT ![F(t)].created = TRUE]
      /\ ctxLock' = [ctxLock EXCEPT ![F(t)] = Nobody]
  BY Zenon DEF CtxSet, hostVars
<1>2. /\ Moved(t)
      /\ th'[t] = Idle \/ (Keeps(t) /\ th'[t].pc \in {"attach", "create", "init"})
  BY MoveCtxSet
<1>3. F(t) \in File /\ file[F(t)].st = "open" /\ ctxLock[F(t)] = t
  BY <1>1, LocalFacts DEF CtxInv, LockInv, CtxOK
<1>4. PICK f \in File : f = F(t)
  BY <1>3
<1>5. /\ OtherFiles(f) /\ file'[f].id = file[f].id /\ file'[f].st = file[f].st /\ file'[f].created
      /\ \A g \in File : g # f => ctxLock'[g] = ctxLock[g]
  <2>1. ctxLock \in [File -> Thread \cup {Nobody}]
    BY DEF TypeInv
  <2>2. \A g \in File : g # f => ctxLock'[g] = ctxLock[g]
    BY <1>1, <1>4, <2>1
  <2> QED
    BY <1>1, <1>4, <2>2, FileEdit
<1>6. \A u \in Thread : u # t => th'[u] = th[u]
  BY <1>2 DEF Moved, Others
<1>7. \A g \in File : file'[g].id = file[g].id /\ file'[g].st = file[g].st
  BY <1>5 DEF OtherFiles
<1>8. IdInv'
  BY <1>7 DEF CtxInv, IdInv
<1>9. \A g \in File : (file'[g].created \/ \E u \in Thread : th'[u].pc = "ctxSet" /\ F(u)' = g) <=>
                      (file[g].created \/ \E u \in Thread : th[u].pc = "ctxSet" /\ F(u) = g)
  <2> SUFFICES ASSUME NEW g \in File
               PROVE  (file'[g].created \/ \E u \in Thread : th'[u].pc = "ctxSet" /\ F(u)' = g) <=>
                      (file[g].created \/ \E u \in Thread : th[u].pc = "ctxSet" /\ F(u) = g)
    OBVIOUS
  <2>1. CASE g = f
    BY <1>1, <1>4, <1>5, <2>1
  <2>2. CASE g # f
    <3>1. \A u \in Thread : (th'[u].pc = "ctxSet" /\ F(u)' = g) <=> (th[u].pc = "ctxSet" /\ F(u) = g)
      BY <1>2, <1>4, <1>6, <2>2 DEF F, Idle
    <3> QED
      BY <1>5, <2>2, <3>1 DEF OtherFiles
  <2> QED
    BY <2>1, <2>2
<1>10. LiveKept
  BY <1>7, <1>9 DEF LiveKept, Live
<1>11. LockInv'
  <2>1. CtxOK(t)'
    BY <1>2, <1>4, <1>5 DEF CtxOK, Keeps, F, Idle
  <2>2. ASSUME NEW u \in Thread, u # t, th[u].pc # "idle"
        PROVE  /\ file[F(u)].created => file'[F(u)].created
               /\ ctxLock[F(u)] = u => ctxLock'[F(u)] = u /\ file'[F(u)].created = file[F(u)].created
    <3>1. F(u) \in File
      BY <2>2, LocalFacts
    <3> QED
      BY <1>3, <1>4, <1>5, <2>2, <3>1 DEF OtherFiles
  <2> QED
    BY <1>2, <2>1, <2>2, LockMoved DEF CtxInv
<1>12. KnownInv'
  BY <1>1, <1>10, KnownSame DEF CtxInv, RingUsed
<1> QED
  BY <1>8, <1>11, <1>12 DEF CtxInv

(* Files come and go. *)
LEMMA LockFile ==
  ASSUME TypeInv, LocalInv, LockInv, UNCHANGED <<th, ctxLock>>, NEW f \in File, OtherFiles(f),
         file[f].st # "open" \/ file'[f].created = file[f].created
  PROVE  LockInv'
<1> SUFFICES ASSUME NEW u \in Thread
             PROVE  CtxOK(u)'
  BY DEF LockInv
<1>1. F(u)' = F(u)
  BY DEF F
<1>2. CASE th[u].pc = "idle"
  <2>0. th[u] = Idle
    BY <1>2, LocalFacts DEF LocalOK
  <2> QED
    BY <2>0 DEF CtxOK, Idle
<1>3. CASE th[u].pc # "idle"
  <2>1. F(u) \in File /\ file[F(u)].st = "open"
    BY <1>3, LocalFacts
  <2>2. file'[F(u)].created = file[F(u)].created
    BY <2>1 DEF OtherFiles
  <2> QED
    BY <1>1, <2>2 DEF LockInv, CtxOK
<1> QED
  BY <1>2, <1>3

(* No thread works for a file that is not open. *)
LEMMA NoMaker ==
  ASSUME TypeInv, LocalInv, NEW f \in File, file[f].st # "open"
  PROVE  \A t \in Thread : ~(th[t].pc = "ctxSet" /\ F(t) = f)
  BY LocalFacts

LEMMA CtxOpen ==
  ASSUME TypeInv, LocalInv, CtxInv, NEW f \in File, OpenFile(f)
  PROVE  CtxInv'
<1>1. UNCHANGED <<plugged, hostCtx, ring, th, ctxLock>>
  BY Zenon DEF OpenFile, hostVars
<1>2. /\ OtherFiles(f) /\ file[f].st = "closed"
      /\ file'[f].st = "open" /\ ~file'[f].created /\ file'[f].id \in CtxId
      /\ \A g \in File : file[g].id # file'[f].id
  BY OpenFacts
<1>3. file'[f].id # 0 /\ file[f].id = 0
  BY <1>2, ExecAssumption DEF CtxInv, IdInv
<1>4. IdInv'
  BY <1>2, <1>3 DEF CtxInv, IdInv, OtherFiles
<1>5. LockInv'
  BY <1>1, <1>2, LockFile DEF CtxInv
<1>6. LiveKept
  <2>1. \A u \in Thread : ~(th[u].pc = "ctxSet" /\ F(u) = f) /\ F(u)' = F(u)
    BY <1>1, <1>2, NoMaker DEF F
  <2> QED
    BY <1>1, <1>2, <2>1 DEF LiveKept, Live, OtherFiles
<1> QED
  BY <1>1, <1>4, <1>5, <1>6, KnownSame DEF CtxInv, RingUsed

LEMMA CtxClose ==
  ASSUME TypeInv, LocalInv, CtxInv, NEW f \in File, CloseHandle(f) \/ CloseFile(f)
  PROVE  CtxInv'
<1>1. UNCHANGED <<plugged, hostCtx, th, ctxLock>> /\ file[f].st = "open"
  BY Zenon DEF CloseHandle, CloseFile, hostVars
<1>2. PICK B \in SUBSET Bo : CloseHandles(f, B)
  <2>1. handles[f] \in SUBSET Bo
    BY FileFields
  <2> QED
    BY <2>1 DEF CloseHandle, CloseFile
<1>3. RingUsed
  <2>1. \/ file[f].created /\ Queue(Detaches(f, B))
        \/ Queue(Unrefs(B))
    BY <1>2, CloseHandlesFacts
  <2>2. ASSUME file[f].created, Queue(Detaches(f, B))
        PROVE  RingUsed
    <3>1. PICK s, id : s = Detaches(f, B) /\ id = file[f].id
      OBVIOUS
    <3>2. Each(s, "DETACH", id, B)
      BY <3>1, DetachFacts
    <3>3. Live(id)
      BY <1>1, <2>2, <3>1, LiveFile
    <3> QED
      BY <2>2, <3>1, <3>2, <3>3, UsedFacts DEF RingUsed
  <2> QED
    BY <2>1, <2>2, UsedUnrefs
<1>4. CASE UNCHANGED file
  BY <1>1, <1>3, <1>4, CtxQuiet
<1>5. CASE file' = [file EXCEPT ![f].st = "closing"]
  <2>1. /\ OtherFiles(f) /\ file'[f].id = file[f].id /\ file'[f].st = "closing"
        /\ file'[f].created = file[f].created
    BY <1>5, FileEdit
  <2>2. IdInv'
    BY <1>1, <2>1 DEF CtxInv, IdInv, OtherFiles
  <2>3. LockInv'
    BY <1>1, <2>1, LockFile DEF CtxInv
  <2>4. LiveKept
    <3>1. /\ \A u \in Thread : F(u)' = F(u)
          /\ \A g \in File : /\ file'[g].id = file[g].id /\ file'[g].created = file[g].created
                             /\ file'[g].st \in {"open", "closing"} <=> file[g].st \in {"open", "closing"}
      BY <1>1, <2>1 DEF OtherFiles, F
    <3> QED
      BY <1>1, <3>1 DEF LiveKept, Live
  <2> QED
    BY <1>1, <1>3, <2>2, <2>3, <2>4, KnownSame DEF CtxInv
<1> QED
  BY <1>4, <1>5 DEF CloseHandle, CloseFile

LEMMA CtxPostClose ==
  ASSUME TypeInv, LocalInv, CtxInv, NEW f \in File, PostClose(f)
  PROVE  CtxInv'
<1>1. UNCHANGED <<plugged, hostCtx, th, ctxLock>>
  BY Zenon DEF PostClose, hostVars
<1>2. OtherFiles(f) /\ file[f].st # "open"
  BY PostCloseFacts
<1>3. LockInv'
  BY <1>1, <1>2, LockFile DEF CtxInv
<1>4. \A u \in Thread : ~(th[u].pc = "ctxSet" /\ F(u) = f) /\ F(u)' = F(u)
  BY <1>1, <1>2, NoMaker DEF F
<1>5. CASE /\ file[f].st = "closing" /\ file'[f].st = "destroyed"
           /\ file'[f].id = file[f].id /\ file'[f].created = file[f].created
           /\ Queue(IF file[f].created THEN <<CmdContextDestroy(file[f].id)>> ELSE <<>>)
  <2>1. IdInv'
    BY <1>2, <1>5 DEF CtxInv, IdInv, OtherFiles
  <2>2. CASE ~file[f].created
    <3>1. LiveKept
      BY <1>1, <1>2, <1>4, <1>5, <2>2 DEF LiveKept, Live, OtherFiles
    <3>2. RingUsed
      BY <1>5, <2>2, UsedFacts DEF RingUsed
    <3> QED
      BY <1>1, <1>3, <2>1, <3>1, <3>2, KnownSame DEF CtxInv
  <2>3. CASE file[f].created
    <3>1. PICK c : c = CmdContextDestroy(file[f].id)
      OBVIOUS
    <3>2. c \in Commands /\ c.op = "CTX_DESTROY" /\ c.ctx = file[f].id /\ Queue(<<c>>)
      BY <1>5, <2>3, <3>1, CmdFacts, FileFields DEF CmdContextDestroy
    <3>3. Live(c.ctx) /\ c.ctx # 0
      BY <1>5, <2>3, <3>2, LiveFile DEF CtxInv, IdInv
    <3>4. ASSUME NEW x \in Nat
          PROVE  Live(x)' <=> Live(x) /\ x # c.ctx
      <4>1. ASSUME Live(x)'
            PROVE  Live(x) /\ x # c.ctx
        <5>1. PICK g \in File :
                /\ file'[g].id = x /\ file'[g].st \in {"open", "closing"}
                /\ file'[g].created \/ \E u \in Thread : th[u].pc = "ctxSet" /\ F(u) = g
          BY <1>1, <1>4, <4>1 DEF Live
        <5>2. g # f /\ file'[g] = file[g]
          BY <1>2, <1>5, <5>1 DEF OtherFiles
        <5>3. file[g].id # file[f].id
          BY <3>2, <3>3, <5>2 DEF CtxInv, IdInv
        <5> QED
          BY <3>2, <5>1, <5>2, <5>3 DEF Live
      <4>2. ASSUME Live(x), x # c.ctx
            PROVE  Live(x)'
        <5>1. PICK g \in File :
                /\ file[g].id = x /\ file[g].st \in {"open", "closing"}
                /\ file[g].created \/ \E u \in Thread : th[u].pc = "ctxSet" /\ F(u) = g
          BY <4>2 DEF Live
        <5>2. g # f /\ file'[g] = file[g]
          BY <1>2, <3>2, <4>2, <5>1 DEF OtherFiles
        <5> QED
          BY <1>1, <1>4, <5>1, <5>2 DEF Live
      <4> QED
        BY <4>1, <4>2
    <3>5. KnownInv'
      BY <1>1, <3>2, <3>3, <3>4, KnownChanged DEF CtxInv
    <3> QED
      BY <1>3, <2>1, <3>5 DEF CtxInv
  <2> QED
    BY <2>2, <2>3
<1>6. CASE /\ file[f].st = "destroyed" /\ UNCHANGED ring
           /\ file'[f].st = "closed" /\ file'[f].id = 0 /\ ~file'[f].created
  <2>1. IdInv'
    BY <1>2, <1>6 DEF CtxInv, IdInv, OtherFiles
  <2>2. LiveKept
    BY <1>1, <1>2, <1>4, <1>6 DEF LiveKept, Live, OtherFiles
  <2> QED
    BY <1>1, <1>3, <1>6, <2>1, <2>2, KnownSame DEF CtxInv, RingUsed
<1> QED
  BY <1>5, <1>6, PostCloseFacts

LEMMA CtxHost ==
  ASSUME TypeInv, CtxInv, HostRead \/ HostFinish \/ Dequeue \/ FreeWork \/ Unplug \/ UNCHANGED vars
  PROVE  CtxInv'
<1>1. UNCHANGED <<file, ctxLock, th>>
  BY Zenon DEF HostRead, HostFinish, Dequeue, FreeWork, Unplug, vars, fileVars
<1>2. IdInv' /\ LockInv'
  BY <1>1 DEF CtxInv, IdInv, LockInv, CtxOK, F
<1>3. CASE HostRead
  BY <1>2, <1>3, KnownHost DEF CtxInv
<1>4. CASE HostFinish \/ Dequeue \/ UNCHANGED vars
  <2>1. UNCHANGED <<plugged, hostCtx, ring>>
    BY <1>4, Zenon DEF HostFinish, Dequeue, vars, hostVars
  <2> QED
    BY <1>1, <2>1, CtxQuiet DEF RingUsed
<1>5. CASE FreeWork
  <2>1. UNCHANGED <<plugged, hostCtx>> /\ putq # <<>> /\ Queue(Unrefs(Head(putq)))
    BY <1>5, Zenon DEF FreeWork, hostVars
  <2>2. Head(putq) \in SUBSET Bo
    BY <2>1, ReadFacts DEF TypeInv
  <2> QED
    BY <1>1, <2>1, <2>2, UsedUnrefs, CtxQuiet
<1>6. CASE Unplug
  <2>1. UNCHANGED <<hostCtx, ring>> /\ plugged' = FALSE
    BY <1>6, Zenon DEF Unplug, hostVars
  <2> QED
    BY <1>2, <2>1 DEF CtxInv, KnownInv
<1> QED
  BY <1>3, <1>4, <1>5, <1>6

LEMMA CtxStep ==
  ASSUME TypeInv, LocalInv, CtxInv, [Next]_vars
  PROVE  CtxInv'
<1>1. ASSUME NEW t \in Thread, Call(t) \/ Import(t) \/ ThreadNext(t)
      PROVE  CtxInv'
  BY <1>1, CtxCalls, CtxMake, CtxQueued, CtxMade, CtxObject, CtxSubmit DEF ThreadNext
<1>2. ASSUME NEW f \in File, OpenFile(f) \/ CloseHandle(f) \/ CloseFile(f) \/ PostClose(f)
      PROVE  CtxInv'
  BY <1>2, CtxOpen, CtxClose, CtxPostClose
<1> QED
  BY <1>1, <1>2, CtxHost DEF Next, HostNext, WorkNext

LEMMA InitCtx ==
  ASSUME Init
  PROVE  CtxInv
<1>1. \A f \in File : file[f].id = 0 /\ file[f].st = "closed"
  BY DEF Init, Closed
<1>2. \A t \in Thread : th[t].pc = "idle" /\ th[t].op = "NONE"
  BY DEF Init, Idle
<1>3. ring = <<>> /\ hostCtx = {}
  BY DEF Init
<1>4. IdInv /\ LockInv
  BY <1>1, <1>2 DEF IdInv, LockInv, CtxOK
<1>5. \A x : ~Live(x)
  BY <1>1 DEF Live
<1>6. KnownInv
  BY <1>3, <1>5 DEF KnownInv, KnownOK, KnownAt, ThereAt
<1> QED
  BY <1>4, <1>6 DEF CtxInv

(***************************************************************************)
(* For any number of files, threads and context ids: the host is sent a    *)
(* command for a context only between its CTX_CREATE and its CTX_DESTROY,  *)
(* and never a second CTX_CREATE, though virtio_gpu_gem_object_open and    *)
(* _close read context_created without context_lock and ids are reused     *)
(* after virtio_gpu_driver_postclose.                                      *)
(***************************************************************************)
THEOREM ContextSafety == Spec => []ContextKnown
<1>1. Init => CtxInv
  BY InitCtx
<1>2. TypeInv /\ LocalInv /\ CtxInv /\ [Next]_vars => CtxInv'
  BY CtxStep
<1>3. TypeInv /\ CtxInv => ContextKnown
  <2> SUFFICES ASSUME TypeInv, CtxInv, ring # <<>>, NEW c, c = Head(ring)
               PROVE  /\ c.op = "CTX_CREATE" => c.ctx \notin hostCtx
                      /\ c.op \in CtxUses => c.ctx \in hostCtx
    BY DEF ContextKnown, CtxUses
  <2>1. 1 \in 1 .. Len(ring) /\ c = ring[1]
    BY ReadFacts DEF TypeInv
  <2>2. \A x : KnownAt(hostCtx, ring, x, 1) <=> x \in hostCtx
    BY DEF KnownAt, ThereAt
  <2> QED
    BY <2>1, <2>2 DEF CtxInv, KnownInv, KnownOK
<1> QED
  BY <1>1, <1>2, <1>3, SpecLocal, PTL DEF Spec
-----------------------------------------------------------------------------
(* Counting. *)
One(p) == IF p THEN 1 ELSE 0

LEMMA CardTyped ==
  ASSUME NEW n \in Nat, NEW P \in SUBSET (1 .. n)
  PROVE  IsFiniteSet(P) /\ Cardinality(P) \in Nat
<1>1. IsFiniteSet(1 .. n)
  BY FS_Interval
<1> QED
  BY <1>1, FS_Subset, FS_CardinalityType

(* Sets that differ in x at most. *)
LEMMA CardChanged ==
  ASSUME NEW P, NEW Q, IsFiniteSet(P), NEW x, \A y : y # x => (y \in P <=> y \in Q)
  PROVE  /\ IsFiniteSet(Q) /\ Cardinality(P) \in Nat /\ Cardinality(Q) \in Nat
         /\ Cardinality(Q) = Cardinality(P) + One(x \in Q) - One(x \in P)
<1>1. CASE (x \in P) = (x \in Q)
  <2>1. P = Q
    BY <1>1
  <2> QED
    BY <2>1, FS_CardinalityType DEF One
<1>2. CASE x \in P /\ x \notin Q
  <2>1. Q = P \ {x}
    BY <1>2
  <2>2. IsFiniteSet(Q) /\ Cardinality(Q) = Cardinality(P) - 1
    BY <1>2, <2>1, FS_RemoveElement
  <2> QED
    BY <1>2, <2>2, FS_CardinalityType DEF One
<1>3. CASE x \notin P /\ x \in Q
  <2>1. Q = P \cup {x}
    BY <1>3
  <2>2. IsFiniteSet(Q) /\ Cardinality(Q) = Cardinality(P) + 1
    BY <1>3, <2>1, FS_AddElement
  <2> QED
    BY <1>3, <2>2, FS_CardinalityType DEF One
<1> QED
  BY <1>1, <1>2, <1>3

(* The places in a sequence once the i-th element is gone. *)
LEMMA CardSkipped ==
  ASSUME NEW n \in Nat, NEW i \in 1 .. n, NEW P \in SUBSET (1 .. n), NEW Q \in SUBSET (1 .. n - 1),
         \A k \in 1 .. n - 1 : k \in Q <=> Skip(k, i) \in P
  PROVE  Cardinality(Q) = Cardinality(P) - One(i \in P)
<1>1. PICK T : T = P \ {i}
  OBVIOUS
<1>2. IsFiniteSet(P) /\ Cardinality(P) \in Nat
  BY CardTyped
<1>3. n - 1 \in Nat /\ i \in Nat
  OBVIOUS
<1>4. IsFiniteSet(Q) /\ Cardinality(Q) \in Nat
  BY <1>3, CardTyped
<1>5. Cardinality(T) = Cardinality(P) - One(i \in P)
  <2>1. Cardinality(T) = IF i \in P THEN Cardinality(P) - 1 ELSE Cardinality(P)
    BY <1>1, <1>2, FS_RemoveElement, Zenon
  <2> QED
    BY <1>2, <2>1 DEF One
<1>6. PICK f : f = [k \in Q |-> Skip(k, i)]
  OBVIOUS
<1>7. \A k \in Q : k \in Nat /\ k \in 1 .. n - 1 /\ Skip(k, i) \in T /\ f[k] = Skip(k, i)
  BY <1>1, <1>3, <1>6, SkipFacts
<1>8. \A m \in T : \E k \in Q : f[k] = m
  <2> SUFFICES ASSUME NEW m \in T
               PROVE  \E k \in Q : f[k] = m
    OBVIOUS
  <2>1. m \in 1 .. n /\ m # i /\ m \in P
    BY <1>1
  <2>2. PICK k : k = IF m < i THEN m ELSE m - 1
    OBVIOUS
  <2>3. k \in 1 .. n - 1 /\ Skip(k, i) = m
    BY <2>1, <2>2 DEF Skip
  <2>4. k \in Q
    BY <2>1, <2>3
  <2> QED
    BY <1>7, <2>3, <2>4
<1>9. f \in [Q -> T] /\ DOMAIN f = Q
  BY <1>6, <1>7
<1>10. \A k, l \in Q : f[k] = f[l] => k = l
  BY <1>3, <1>7, SkipFacts
<1>11. f \in Injection(Q, T)
  BY <1>9, <1>10 DEF Injection, IsInjective
<1>12. f \in Surjection(Q, T)
  BY <1>8, <1>9 DEF Surjection
<1>13. ExistsBijection(Q, T)
  BY <1>11, <1>12 DEF ExistsBijection, Bijection
<1> QED
  BY <1>4, <1>5, <1>13, FS_Bijection

(* The commands of a queue that have an array with b. *)
LEMMA ArraysTyped ==
  ASSUME NEW q \in Seq(Commands), NEW b
  PROVE  IsFiniteSet(Arrays(q, b)) /\ Cardinality(Arrays(q, b)) \in Nat
<1>1. Len(q) \in Nat /\ Arrays(q, b) \in SUBSET (1 .. Len(q))
  BY DEF Arrays
<1> QED
  BY <1>1, CardTyped

LEMMA PutsTyped ==
  ASSUME NEW q \in Seq(SUBSET Bo), NEW b
  PROVE  IsFiniteSet(Puts(q, b)) /\ Cardinality(Puts(q, b)) \in Nat
<1>1. Len(q) \in Nat /\ Puts(q, b) \in SUBSET (1 .. Len(q))
  BY DEF Puts
<1> QED
  BY <1>1, CardTyped

NotIn(s, b) == \A l \in 1 .. Len(s) : b \notin s[l].bos
OnlyAt(s, i, b) == i \in 1 .. Len(s) /\ b \in s[i].bos /\ \A l \in 1 .. Len(s) : l # i => b \notin s[l].bos

LEMMA ArraysNone ==
  ASSUME NEW q \in Seq(Commands), NEW s \in Seq(Commands), NEW b, NotIn(s, b)
  PROVE  Arrays(q \o s, b) = Arrays(q, b)
<1>1. PICK p : p = q \o s
  OBVIOUS
<1>2. /\ \A k \in 1 .. Len(q) : k \in 1 .. Len(p) /\ p[k] = q[k]
      /\ \A k \in 1 .. Len(p) :
           \/ k \in 1 .. Len(q) /\ p[k] = q[k]
           \/ k - Len(q) \in 1 .. Len(s) /\ k > Len(q) /\ p[k] = s[k - Len(q)]
  BY <1>1, PushFacts
<1>3. Arrays(p, b) = Arrays(q, b)
  BY <1>2 DEF Arrays, NotIn
<1> QED
  BY <1>1, <1>3

LEMMA ArraysOnce ==
  ASSUME NEW q \in Seq(Commands), NEW s \in Seq(Commands), NEW b, NEW i, OnlyAt(s, i, b)
  PROVE  Cardinality(Arrays(q \o s, b)) = Cardinality(Arrays(q, b)) + One(IsArray(s[i]))
<1>1. PICK p, e : p = q \o s /\ e = Len(q) + i
  OBVIOUS
<1>2. /\ \A k \in 1 .. Len(q) : k \in 1 .. Len(p) /\ p[k] = q[k]
      /\ \A k \in 1 .. Len(s) : Len(q) + k \in 1 .. Len(p) /\ p[Len(q) + k] = s[k]
      /\ \A k \in 1 .. Len(p) :
           \/ k \in 1 .. Len(q) /\ p[k] = q[k]
           \/ k - Len(q) \in 1 .. Len(s) /\ k > Len(q) /\ p[k] = s[k - Len(q)]
      /\ Len(q) \in Nat
  BY <1>1, PushFacts
<1>3. e \in 1 .. Len(p) /\ p[e] = s[i] /\ i \in Nat /\ i >= 1 /\ e \notin 1 .. Len(q)
  BY <1>1, <1>2 DEF OnlyAt
<1>4. PICK P, Q : P = Arrays(q, b) /\ Q = Arrays(p, b)
  OBVIOUS
<1>5. ASSUME NEW k, k # e
      PROVE  k \in P <=> k \in Q
  <2>1. ASSUME k \in 1 .. Len(p), ~(k \in 1 .. Len(q))
        PROVE  b \notin p[k].bos
    <3>1. k - Len(q) \in 1 .. Len(s) /\ k > Len(q) /\ p[k] = s[k - Len(q)]
      BY <1>2, <2>1
    <3>2. k - Len(q) # i
      BY <1>1, <1>2, <1>3, <1>5, <2>1, <3>1
    <3> QED
      BY <3>1, <3>2 DEF OnlyAt
  <2> QED
    BY <1>2, <1>4, <2>1 DEF Arrays
<1>6. e \notin P /\ (e \in Q <=> IsArray(s[i]))
  BY <1>3, <1>4 DEF Arrays, OnlyAt
<1>7. IsFiniteSet(P)
  BY <1>4, ArraysTyped
<1>8. Cardinality(P) \in Nat /\ Cardinality(Q) = Cardinality(P) + One(e \in Q) - One(e \in P)
  BY <1>5, <1>7, CardChanged
<1> QED
  BY <1>1, <1>4, <1>6, <1>8 DEF One

LEMMA ArraysAppend ==
  ASSUME NEW q \in Seq(Commands), NEW c \in Commands, NEW b
  PROVE  Cardinality(Arrays(Append(q, c), b)) = Cardinality(Arrays(q, b)) + One(IsArray(c) /\ b \in c.bos)
<1>1. PICK p, e : p = Append(q, c) /\ e = Len(q) + 1
  OBVIOUS
<1>2. /\ \A k \in 1 .. Len(q) : k \in 1 .. Len(p) /\ p[k] = q[k]
      /\ \A k \in 1 .. Len(p) : k \in 1 .. Len(q) \/ k = e
      /\ e \in 1 .. Len(p) /\ p[e] = c /\ e \notin 1 .. Len(q)
  BY <1>1, AppendFacts
<1>3. PICK P, Q : P = Arrays(q, b) /\ Q = Arrays(p, b)
  OBVIOUS
<1>4. \A k : k # e => (k \in P <=> k \in Q)
  BY <1>2, <1>3 DEF Arrays
<1>5. e \notin P /\ (e \in Q <=> IsArray(c) /\ b \in c.bos)
  BY <1>2, <1>3 DEF Arrays
<1>6. IsFiniteSet(P)
  BY <1>3, ArraysTyped
<1>7. Cardinality(P) \in Nat /\ Cardinality(Q) = Cardinality(P) + One(e \in Q) - One(e \in P)
  BY <1>4, <1>6, CardChanged
<1> QED
  BY <1>1, <1>3, <1>5, <1>7 DEF One

LEMMA PutsAppend ==
  ASSUME NEW q \in Seq(SUBSET Bo), NEW B \in SUBSET Bo, NEW b
  PROVE  Cardinality(Puts(Append(q, B), b)) = Cardinality(Puts(q, b)) + One(b \in B)
<1>1. PICK p, e : p = Append(q, B) /\ e = Len(q) + 1
  OBVIOUS
<1>2. /\ \A k \in 1 .. Len(q) : k \in 1 .. Len(p) /\ p[k] = q[k]
      /\ \A k \in 1 .. Len(p) : k \in 1 .. Len(q) \/ k = e
      /\ e \in 1 .. Len(p) /\ p[e] = B /\ e \notin 1 .. Len(q)
  BY <1>1, AppendFacts
<1>3. PICK P, Q : P = Puts(q, b) /\ Q = Puts(p, b)
  OBVIOUS
<1>4. \A k : k # e => (k \in P <=> k \in Q)
  BY <1>2, <1>3 DEF Puts
<1>5. e \notin P /\ (e \in Q <=> b \in B)
  BY <1>2, <1>3 DEF Puts
<1>6. IsFiniteSet(P)
  BY <1>3, PutsTyped
<1>7. Cardinality(P) \in Nat /\ Cardinality(Q) = Cardinality(P) + One(e \in Q) - One(e \in P)
  BY <1>4, <1>6, CardChanged
<1> QED
  BY <1>1, <1>3, <1>5, <1>7 DEF One

(* The i-th command is taken out. *)
LEMMA ArraysGone ==
  ASSUME NEW q \in Seq(Commands), NEW b, NEW i \in 1 .. Len(q), NEW p \in Seq(Commands),
         Len(p) = Len(q) - 1, \A k \in 1 .. Len(p) : p[k] = q[Skip(k, i)] /\ Skip(k, i) \in 1 .. Len(q)
  PROVE  Cardinality(Arrays(p, b)) = Cardinality(Arrays(q, b)) - One(IsArray(q[i]) /\ b \in q[i].bos)
<1>1. PICK P, Q, n : P = Arrays(q, b) /\ Q = Arrays(p, b) /\ n = Len(q)
  OBVIOUS
<1>2. n \in Nat /\ P \in SUBSET (1 .. n) /\ Q \in SUBSET (1 .. n - 1)
  BY <1>1 DEF Arrays
<1>3. \A k \in 1 .. n - 1 : k \in Q <=> Skip(k, i) \in P
  BY <1>1 DEF Arrays
<1>4. i \in P <=> IsArray(q[i]) /\ b \in q[i].bos
  BY <1>1 DEF Arrays
<1>5. Cardinality(Q) = Cardinality(P) - One(i \in P)
  BY <1>1, <1>2, <1>3, CardSkipped
<1> QED
  BY <1>1, <1>4, <1>5 DEF One

LEMMA ArraysTail ==
  ASSUME NEW q \in Seq(Commands), NEW b, q # <<>>
  PROVE  Cardinality(Arrays(Tail(q), b)) = Cardinality(Arrays(q, b)) - One(IsArray(Head(q)) /\ b \in Head(q).bos)
<1>1. PICK p, c : p = Tail(q) /\ c = Head(q)
  OBVIOUS
<1>2. /\ p \in Seq(Commands) /\ Len(p) = Len(q) - 1 /\ c = q[1] /\ 1 \in 1 .. Len(q)
      /\ \A k \in 1 .. Len(p) : k + 1 \in 1 .. Len(q) /\ p[k] = q[k + 1]
  BY <1>1, ReadFacts
<1>3. \A k \in 1 .. Len(p) : Skip(k, 1) = k + 1
  BY DEF Skip
<1>4. Cardinality(Arrays(p, b)) = Cardinality(Arrays(q, b)) - One(IsArray(q[1]) /\ b \in q[1].bos)
  BY <1>2, <1>3, ArraysGone
<1> QED
  BY <1>1, <1>2, <1>4

LEMMA PutsTail ==
  ASSUME NEW q \in Seq(SUBSET Bo), NEW b, q # <<>>
  PROVE  Cardinality(Puts(Tail(q), b)) = Cardinality(Puts(q, b)) - One(b \in Head(q))
<1>1. PICK p, c : p = Tail(q) /\ c = Head(q)
  OBVIOUS
<1>2. /\ Len(p) = Len(q) - 1 /\ c = q[1] /\ 1 \in 1 .. Len(q) /\ Len(q) \in Nat
      /\ \A k \in 1 .. Len(p) : k + 1 \in 1 .. Len(q) /\ p[k] = q[k + 1]
  BY <1>1, ReadFacts
<1>3. PICK P, Q, n : P = Puts(q, b) /\ Q = Puts(p, b) /\ n = Len(q)
  OBVIOUS
<1>4. n \in Nat /\ P \in SUBSET (1 .. n) /\ Q \in SUBSET (1 .. n - 1) /\ 1 \in 1 .. n
  BY <1>2, <1>3 DEF Puts
<1>5. \A k \in 1 .. n - 1 : k \in Q <=> Skip(k, 1) \in P
  BY <1>2, <1>3 DEF Puts, Skip
<1>6. Cardinality(Q) = Cardinality(P) - One(1 \in P)
  <2>1. PICK i : i = 1
    OBVIOUS
  <2>2. i \in 1 .. n /\ \A k \in 1 .. n - 1 : k \in Q <=> Skip(k, i) \in P
    BY <1>4, <1>5, <2>1
  <2>3. Cardinality(Q) = Cardinality(P) - One(i \in P)
    BY <1>4, <2>2, CardSkipped
  <2> QED
    BY <2>1, <2>3
<1>7. 1 \in P <=> b \in c
  BY <1>2, <1>3 DEF Puts
<1> QED
  BY <1>1, <1>3, <1>6, <1>7 DEF One

(* Handles and threads: one file, one thread changes. *)
LEMMA HandlesChanged ==
  ASSUME NEW g, NEW h, NEW f \in File, NEW b, \A e \in File : e # f => h[e] = g[e],
         IsFiniteSet(HandlesOf(g, b))
  PROVE  /\ IsFiniteSet(HandlesOf(h, b))
         /\ Cardinality(HandlesOf(h, b)) = Cardinality(HandlesOf(g, b)) + One(b \in h[f]) - One(b \in g[f])
<1>1. PICK P, Q : P = HandlesOf(g, b) /\ Q = HandlesOf(h, b)
  OBVIOUS
<1>2. \A y : y # f => (y \in P <=> y \in Q)
  BY <1>1 DEF HandlesOf
<1>3. (f \in P <=> b \in g[f]) /\ (f \in Q <=> b \in h[f])
  BY <1>1 DEF HandlesOf
<1>4. /\ IsFiniteSet(Q) /\ Cardinality(P) \in Nat
      /\ Cardinality(Q) = Cardinality(P) + One(f \in Q) - One(f \in P)
  BY <1>1, <1>2, CardChanged
<1> QED
  BY <1>1, <1>3, <1>4 DEF One

LEMMA ThreadsChanged ==
  ASSUME NEW t \in Thread, NEW b, Others(t), IsFiniteSet(ThreadsOf(th, sub, b))
  PROVE  /\ IsFiniteSet(ThreadsOf(th', sub', b))
         /\ Cardinality(ThreadsOf(th', sub', b)) =
              Cardinality(ThreadsOf(th, sub, b)) + One(Works(th'[t], sub'[t], b)) - One(Works(th[t], sub[t], b))
<1>1. PICK P, Q : P = ThreadsOf(th, sub, b) /\ Q = ThreadsOf(th', sub', b)
  OBVIOUS
<1>2. \A y : y # t => (y \in P <=> y \in Q)
  BY <1>1 DEF ThreadsOf, Others
<1>3. (t \in P <=> Works(th[t], sub[t], b)) /\ (t \in Q <=> Works(th'[t], sub'[t], b))
  BY <1>1 DEF ThreadsOf
<1>4. /\ IsFiniteSet(Q) /\ Cardinality(P) \in Nat
      /\ Cardinality(Q) = Cardinality(P) + One(t \in Q) - One(t \in P)
  BY <1>1, <1>2, CardChanged
<1> QED
  BY <1>1, <1>3, <1>4 DEF One

(* Each count is a number, and whoever is counted has a reference. *)
LEMMA HeldTyped ==
  ASSUME TypeInv, NEW b, IsFiniteSet(HandlesOf(handles, b)), IsFiniteSet(ThreadsOf(th, sub, b))
  PROVE  /\ Cardinality(HandlesOf(handles, b)) \in Nat /\ Cardinality(ThreadsOf(th, sub, b)) \in Nat
         /\ Cardinality(Arrays(ring, b)) \in Nat /\ Cardinality(Arrays(running, b)) \in Nat
         /\ Cardinality(Arrays(answered, b)) \in Nat /\ Cardinality(Puts(putq, b)) \in Nat
         /\ Held(b) \in Nat
<1>1. Cardinality(HandlesOf(handles, b)) \in Nat /\ Cardinality(ThreadsOf(th, sub, b)) \in Nat
  BY FS_CardinalityType
<1>2. /\ Cardinality(Arrays(ring, b)) \in Nat /\ Cardinality(Arrays(running, b)) \in Nat
      /\ Cardinality(Arrays(answered, b)) \in Nat
  BY ArraysTyped DEF TypeInv
<1>3. Cardinality(Puts(putq, b)) \in Nat
  BY PutsTyped DEF TypeInv
<1> QED
  BY <1>1, <1>2, <1>3 DEF Held

LEMMA HeldNext ==
  ASSUME TypeInv', NEW b, IsFiniteSet(HandlesOf(handles', b)), IsFiniteSet(ThreadsOf(th', sub', b))
  PROVE  /\ Cardinality(HandlesOf(handles', b)) \in Nat /\ Cardinality(ThreadsOf(th', sub', b)) \in Nat
         /\ Cardinality(Arrays(ring', b)) \in Nat /\ Cardinality(Arrays(running', b)) \in Nat
         /\ Cardinality(Arrays(answered', b)) \in Nat /\ Cardinality(Puts(putq', b)) \in Nat
         /\ Held(b)' \in Nat
         /\ Held(b)' = Cardinality(HandlesOf(handles', b)) + Cardinality(ThreadsOf(th', sub', b))
                       + Cardinality(Arrays(ring', b)) + Cardinality(Arrays(running', b))
                       + Cardinality(Arrays(answered', b)) + Cardinality(Puts(putq', b))
         /\ IsFiniteSet(HandlesOf(handles, b))' /\ IsFiniteSet(ThreadsOf(th, sub, b))'
<1>1. Cardinality(HandlesOf(handles', b)) \in Nat /\ Cardinality(ThreadsOf(th', sub', b)) \in Nat
  BY FS_CardinalityType
<1>2. ring' \in Seq(Commands) /\ running' \in Seq(Commands) /\ answered' \in Seq(Commands) /\ putq' \in Seq(SUBSET Bo)
  BY DEF TypeInv
<1>3. /\ Cardinality(Arrays(ring', b)) \in Nat /\ Cardinality(Arrays(running', b)) \in Nat
      /\ Cardinality(Arrays(answered', b)) \in Nat /\ Cardinality(Puts(putq', b)) \in Nat
  BY <1>2, ArraysTyped, PutsTyped
<1>4. /\ HandlesOf(handles, b)' = HandlesOf(handles', b) /\ ThreadsOf(th, sub, b)' = ThreadsOf(th', sub', b)
      /\ Arrays(ring, b)' = Arrays(ring', b) /\ Arrays(running, b)' = Arrays(running', b)
      /\ Arrays(answered, b)' = Arrays(answered', b) /\ Puts(putq, b)' = Puts(putq', b)
  BY DEF HandlesOf, ThreadsOf, Works, Arrays, IsArray, Puts
<1>5. Held(b)' = Cardinality(HandlesOf(handles', b)) + Cardinality(ThreadsOf(th', sub', b))
                 + Cardinality(Arrays(ring', b)) + Cardinality(Arrays(running', b))
                 + Cardinality(Arrays(answered', b)) + Cardinality(Puts(putq', b))
  BY <1>4 DEF Held
<1>6. IsFiniteSet(HandlesOf(handles, b))' /\ IsFiniteSet(ThreadsOf(th, sub, b))'
  BY <1>4
<1>7. Held(b)' \in Nat
  BY <1>1, <1>3, <1>5
<1> QED
  BY <1>1, <1>3, <1>5, <1>6, <1>7

LEMMA HeldBy ==
  ASSUME TypeInv, NEW b \in Bo, CountOK(b)
  PROVE  /\ \A f \in File : b \in handles[f] => Held(b) > 0 /\ ref[b] > 0
         /\ \A t \in Thread : Works(th[t], sub[t], b) => Held(b) > 0 /\ ref[b] > 0
         /\ \A k \in 1 .. Len(putq) : b \in putq[k] => Held(b) > 0 /\ ref[b] > 0
<1>0. ref[b] \in Int
  BY DEF TypeInv
<1>1. /\ Cardinality(HandlesOf(handles, b)) \in Nat /\ Cardinality(ThreadsOf(th, sub, b)) \in Nat
      /\ Cardinality(Arrays(ring, b)) \in Nat /\ Cardinality(Arrays(running, b)) \in Nat
      /\ Cardinality(Arrays(answered, b)) \in Nat /\ Cardinality(Puts(putq, b)) \in Nat
      /\ Held(b) \in Nat
  BY HeldTyped DEF CountOK
<1>2. /\ IsFiniteSet(HandlesOf(handles, b)) /\ IsFiniteSet(ThreadsOf(th, sub, b)) /\ IsFiniteSet(Puts(putq, b))
      /\ putq \in Seq(SUBSET Bo)
  BY PutsTyped DEF CountOK, TypeInv
<1>3. ASSUME NEW f \in File, b \in handles[f]
      PROVE  Cardinality(HandlesOf(handles, b)) # 0
  <2>1. f \in HandlesOf(handles, b)
    BY <1>3 DEF HandlesOf
  <2> QED
    BY <1>2, <2>1, FS_EmptySet
<1>4. ASSUME NEW t \in Thread, Works(th[t], sub[t], b)
      PROVE  Cardinality(ThreadsOf(th, sub, b)) # 0
  <2>1. t \in ThreadsOf(th, sub, b)
    BY <1>4 DEF ThreadsOf
  <2> QED
    BY <1>2, <2>1, FS_EmptySet
<1>5. ASSUME NEW k \in 1 .. Len(putq), b \in putq[k]
      PROVE  Cardinality(Puts(putq, b)) # 0
  <2>1. k \in Puts(putq, b)
    BY <1>5 DEF Puts
  <2> QED
    BY <1>2, <2>1, FS_EmptySet
<1>6. \/ Cardinality(HandlesOf(handles, b)) # 0 \/ Cardinality(ThreadsOf(th, sub, b)) # 0
      \/ Cardinality(Puts(putq, b)) # 0
      => Held(b) > 0
  <2>1. \A c1, c2, c3, c4, c5, c6 \in Nat :
          c1 # 0 \/ c2 # 0 \/ c6 # 0 => c1 + c2 + c3 + c4 + c5 + c6 > 0
    OBVIOUS
  <2> QED
    BY <1>1, <2>1 DEF Held
<1>7. Held(b) > 0 => ref[b] > 0
  BY <1>0, <1>1 DEF CountOK
<1> QED
  BY <1>3, <1>4, <1>5, <1>6, <1>7

(* The count goes up by no more than the references do. *)
LEMMA CountStep ==
  ASSUME TypeInv, TypeInv', NEW b \in Bo, CountOK(b),
         IsFiniteSet(HandlesOf(handles', b)), IsFiniteSet(ThreadsOf(th', sub', b)),
         Held(b)' <= Held(b) + (ref'[b] - ref[b]),
         Held(b) > 0 \/ ref'[b] = ref[b]
  PROVE  CountOK(b)'
<1>1. ref[b] \in Int /\ ref'[b] \in Int
  BY DEF TypeInv
<1>2. Held(b) \in Nat
  BY HeldTyped DEF CountOK
<1>3. IsFiniteSet(HandlesOf(handles, b))' /\ IsFiniteSet(ThreadsOf(th, sub, b))' /\ Held(b)' \in Nat
  BY HeldNext
<1>5. ref'[b] >= -1 /\ (Held(b)' > 0 => Held(b)' <= ref'[b])
  BY <1>1, <1>2, <1>3 DEF CountOK
<1> QED
  BY <1>3, <1>5 DEF CountOK

(* Commands that do not name b. *)
LEMMA ResNone ==
  ASSUME TypeInv, NEW b \in Bo, ResOK(b), UNCHANGED <<plugged, hostRes>>, ref'[b] > 0 <=> ref[b] > 0,
         NEW s \in Seq(Commands), NotIn(s, b), Queue(s) \/ UNCHANGED ring
  PROVE  ResOK(b)' /\ Arrays(ring', b) = Arrays(ring, b)
<1>1. CASE UNCHANGED ring
  BY <1>1 DEF ResOK
<1>2. CASE ring' = ring \o s
  <2>1. PICK q, h : q = ring' /\ h = hostRes
    OBVIOUS
  <2>2. ring \in Seq(Commands) /\ q = ring \o s /\ Len(ring) \in Nat
    BY <1>2, <2>1 DEF TypeInv
  <2>3. /\ Len(q) \in Nat /\ Len(q) >= Len(ring)
        /\ \A k \in 1 .. Len(q) :
             \/ k \in 1 .. Len(ring) /\ q[k] = ring[k]
             \/ k - Len(ring) \in 1 .. Len(s) /\ k > Len(ring) /\ q[k] = s[k - Len(ring)]
    BY <2>2, PushFacts
  <2>4. ASSUME NEW k \in Nat, k <= Len(ring) + 1
        PROVE  ResAt(h, q, b, k) <=> ResAt(h, ring, b, k)
    BY <2>2, <2>4, TherePush DEF ResAt
  <2>5. ResAt(h, q, b, Len(q) + 1) <=> ResAt(h, ring, b, Len(ring) + 1)
    <3>1. \A l \in 1 .. Len(s) : ~Is(s[l], "CREATE", b) /\ ~Is(s[l], "UNREF", b)
      BY DEF NotIn, Is, Names
    <3>2. PICK k \in Nat : k = Len(q) + 1 /\ k > Len(ring)
      BY <2>2, <2>3
    <3>3. PICK on, off : on = "CREATE" /\ off = "UNREF"
      OBVIOUS
    <3>4. ThereAt(on, off, h, ring \o s, b, k) <=> ThereAt(on, off, h, ring, b, Len(ring) + 1)
      BY <2>2, <3>1, <3>2, <3>3, ThereMore
    <3> QED
      BY <2>2, <3>2, <3>3, <3>4 DEF ResAt
  <2>6. ASSUME NEW k \in 1 .. Len(q), b \in q[k].bos
        PROVE  ResAt(h, q, b, k) <=> q[k].op # "CREATE"
    <3>1. k \in 1 .. Len(ring) /\ q[k] = ring[k]
      BY <2>3, <2>6 DEF NotIn
    <3>2. k \in Nat /\ k <= Len(ring) + 1
      BY <2>2, <3>1
    <3> QED
      BY <2>1, <2>4, <2>6, <3>1, <3>2 DEF ResOK
  <2>7. ResOK(b)'
    BY <2>1, <2>5, <2>6 DEF ResOK
  <2> QED
    BY <1>2, <2>2, <2>7, ArraysNone
<1> QED
  BY <1>1, <1>2 DEF Queue

(* One command names b: it makes b, takes b or uses b. *)
Suits(b, c) ==
  \/ c.op = "CREATE" /\ ~(ref[b] > 0) /\ ref'[b] > 0
  \/ c.op = "UNREF" /\ ref[b] > 0 /\ ~(ref'[b] > 0)
  \/ c.op \notin {"CREATE", "UNREF", "CTX_CREATE", "CTX_DESTROY"} /\ ref[b] > 0 /\ ref'[b] > 0

LEMMA ResOnce ==
  ASSUME TypeInv, NEW b \in Bo, ResOK(b), UNCHANGED <<plugged, hostRes>>, plugged,
         NEW s \in Seq(Commands), NEW i, OnlyAt(s, i, b), Suits(b, s[i]), Queue(s)
  PROVE  /\ ResOK(b)'
         /\ Cardinality(Arrays(ring', b)) = Cardinality(Arrays(ring, b)) + One(IsArray(s[i]))
<1>1. PICK q, h : q = ring' /\ h = hostRes
  OBVIOUS
<1>2. ring \in Seq(Commands) /\ q = ring \o s /\ Len(ring) \in Nat /\ i \in 1 .. Len(s)
  BY <1>1 DEF TypeInv, Queue, OnlyAt
<1>3. /\ Len(q) \in Nat /\ Len(q) >= Len(ring)
      /\ \A k \in 1 .. Len(q) :
           \/ k \in 1 .. Len(ring) /\ q[k] = ring[k]
           \/ k - Len(ring) \in 1 .. Len(s) /\ k > Len(ring) /\ q[k] = s[k - Len(ring)]
  BY <1>2, PushFacts
<1>4. ResAt(h, ring, b, Len(ring) + 1) <=> ref[b] > 0
  BY <1>1 DEF ResOK
<1>5. \A l \in 1 .. Len(s) : l # i => ~Is(s[l], "CREATE", b) /\ ~Is(s[l], "UNREF", b)
  BY DEF OnlyAt, Is, Names
<1>6. PICK on, off : on = "CREATE" /\ off = "UNREF"
  OBVIOUS
<1>7. ThereAt(on, off, h, q, b, Len(q) + 1) <=>
        Is(s[i], on, b) \/ (ThereAt(on, off, h, ring, b, Len(ring) + 1) /\ ~Is(s[i], off, b))
  BY <1>2, <1>5, <1>6, ThereOnce
<1>8. (Is(s[i], on, b) <=> s[i].op = "CREATE") /\ (Is(s[i], off, b) <=> s[i].op = "UNREF")
  BY <1>6 DEF Is, Names, OnlyAt
<1>9. ResAt(h, q, b, Len(q) + 1) <=> ref'[b] > 0
  BY <1>4, <1>6, <1>7, <1>8 DEF Suits, ResAt
<1>10. ASSUME NEW k \in 1 .. Len(q), b \in q[k].bos
       PROVE  ResAt(h, q, b, k) <=> q[k].op # "CREATE"
  <2>1. CASE k \in 1 .. Len(ring) /\ q[k] = ring[k]
    <3>1. k \in Nat /\ k <= Len(ring) + 1
      BY <1>2, <2>1
    <3>2. ResAt(h, q, b, k) <=> ResAt(h, ring, b, k)
      BY <1>2, <3>1, TherePush DEF ResAt
    <3> QED
      BY <1>1, <1>10, <2>1, <3>2 DEF ResOK
  <2>2. CASE k - Len(ring) \in 1 .. Len(s) /\ k > Len(ring) /\ q[k] = s[k - Len(ring)]
    <3>1. k - Len(ring) = i /\ q[k] = s[i]
      BY <1>10, <2>2 DEF OnlyAt
    <3>2. k \in Nat /\ \A l \in 1 .. Len(s) : Len(ring) + l < k => l # i
      BY <1>2, <1>3, <2>2, <3>1
    <3>3. \A l \in 1 .. Len(s) : Len(ring) + l < k => ~Is(s[l], on, b) /\ ~Is(s[l], off, b)
      BY <1>5, <1>6, <3>2
    <3>4. ThereAt(on, off, h, ring \o s, b, k) <=> ThereAt(on, off, h, ring, b, Len(ring) + 1)
      BY <1>2, <2>2, <3>2, <3>3, ThereMore
    <3> QED
      BY <1>2, <1>4, <1>6, <3>1, <3>4 DEF ResAt, Suits
  <2> QED
    BY <1>3, <2>1, <2>2
<1>11. ResOK(b)'
  BY <1>1, <1>9, <1>10 DEF ResOK
<1> QED
  BY <1>1, <1>2, <1>11, ArraysOnce

(* With the device gone. *)
LEMMA ResGone ==
  ASSUME NEW b, ResOK(b), UNCHANGED <<ring, hostRes>>, ~plugged'
  PROVE  ResOK(b)'
  BY DEF ResOK

LEMMA EachOnce ==
  ASSUME NEW s, NEW op, NEW id, NEW T, Each(s, op, id, T), NEW b
  PROVE  /\ s \in Seq(Commands)
         /\ b \in T => \E i \in 1 .. Len(s) : OnlyAt(s, i, b) /\ s[i].op = op
         /\ b \notin T => NotIn(s, b)
<1>1. /\ s \in Seq(Commands)
      /\ \A k \in 1 .. Len(s) : s[k].op = op /\ \E d \in T : s[k].bos = {d}
      /\ \A k, l \in 1 .. Len(s) : s[k].bos = s[l].bos => k = l
      /\ \A d \in T : \E k \in 1 .. Len(s) : s[k].bos = {d}
  BY Zenon DEF Each
<1>2. ASSUME b \in T
      PROVE  \E i \in 1 .. Len(s) : OnlyAt(s, i, b) /\ s[i].op = op
  <2>1. PICK i \in 1 .. Len(s) : s[i].bos = {b}
    BY <1>1, <1>2
  <2>2. ASSUME NEW l \in 1 .. Len(s), l # i, b \in s[l].bos
        PROVE  FALSE
    <3>1. PICK d \in T : s[l].bos = {d}
      BY <1>1
    <3>2. s[l].bos = s[i].bos
      BY <2>1, <2>2, <3>1
    <3> QED
      BY <1>1, <2>2, <3>2
  <2>3. OnlyAt(s, i, b)
    BY <2>1, <2>2 DEF OnlyAt
  <2> QED
    BY <1>1, <2>3
<1>3. ASSUME b \notin T
      PROVE  NotIn(s, b)
  <2> SUFFICES ASSUME NEW l \in 1 .. Len(s), b \in s[l].bos
               PROVE  FALSE
    BY DEF NotIn
  <2>1. PICK d \in T : s[l].bos = {d}
    BY <1>1
  <2> QED
    BY <1>3, <2>1
<1> QED
  BY <1>1, <1>2, <1>3

(* drm_gem_object_put for each of B. *)
LEMMA ResPut ==
  ASSUME TypeInv, TypeInv', NEW b \in Bo, ResOK(b), UNCHANGED <<plugged, hostRes>>,
         NEW B \in SUBSET Bo, Queue(Unrefs(B)), Put(B), b \in B => ref[b] > 0
  PROVE  /\ ResOK(b)' /\ ref'[b] = ref[b] - One(b \in B)
         /\ Cardinality(Arrays(ring', b)) = Cardinality(Arrays(ring, b))
<1>1. ref[b] \in Int /\ ref'[b] = ref[b] - One(b \in B)
  BY DEF TypeInv, Put, One
<1>2. PICK s : s = Unrefs(B)
  OBVIOUS
<1>3. Each(s, "UNREF", 0, Dead(B)) /\ s \in Seq(Commands)
  <2>1. Each(s, "UNREF", 0, Dead(B))
    BY <1>2, UnrefFacts
  <2> QED
    BY <2>1, EachOnce
<1>4. CASE ~plugged
  BY <1>1, <1>4, ResGone DEF Queue
<1>5. CASE b \in Dead(B) /\ plugged
  <2>1. ref[b] = 1 /\ ref'[b] = 0
    BY <1>1, <1>5 DEF Dead, One
  <2>3. PICK i \in 1 .. Len(s) : OnlyAt(s, i, b) /\ s[i].op = "UNREF"
    BY <1>3, <1>5, EachOnce
  <2>4. /\ ResOK(b)'
        /\ Cardinality(Arrays(ring', b)) = Cardinality(Arrays(ring, b)) + One(IsArray(s[i]))
    BY <1>2, <1>3, <1>5, <2>1, <2>3, ResOnce DEF Suits
  <2>5. Cardinality(Arrays(ring, b)) \in Nat /\ One(IsArray(s[i])) = 0
    BY <2>3, ArraysTyped DEF TypeInv, IsArray, One
  <2> QED
    BY <1>1, <2>4, <2>5
<1>6. CASE b \notin Dead(B)
  <2>1. NotIn(s, b)
    BY <1>3, <1>6, EachOnce
  <2>2. ref'[b] > 0 <=> ref[b] > 0
    BY <1>1, <1>6 DEF Dead, One
  <2>3. ResOK(b)' /\ Arrays(ring', b) = Arrays(ring, b)
    BY <1>2, <1>3, <2>1, <2>2, ResNone
  <2> QED
    BY <1>1, <2>3
<1> QED
  BY <1>4, <1>5, <1>6

(* One command. *)
LEMMA ResSend ==
  ASSUME TypeInv, NEW b \in Bo, ResOK(b), UNCHANGED <<plugged, hostRes>>,
         NEW c \in Commands, Queue(<<c>>),
         IF b \in c.bos THEN Suits(b, c) ELSE ref'[b] > 0 <=> ref[b] > 0
  PROVE  /\ ResOK(b)'
         /\ Cardinality(Arrays(ring', b)) <= Cardinality(Arrays(ring, b)) + One(IsArray(c) /\ b \in c.bos)
<1>0. Cardinality(Arrays(ring, b)) \in Nat
  BY ArraysTyped DEF TypeInv
<1>1. PICK s : s = <<c>>
  OBVIOUS
<1>2. s \in Seq(Commands) /\ Len(s) = 1 /\ s[1] = c
  BY <1>1
<1>3. CASE ~plugged
  BY <1>0, <1>3, ResGone DEF Queue, One
<1>4. CASE b \in c.bos /\ plugged
  <2>0. PICK i : i = 1
    OBVIOUS
  <2>1. OnlyAt(s, i, b) /\ s[i] = c
    BY <1>2, <1>4, <2>0 DEF OnlyAt
  <2>2. ResOK(b)' /\ Cardinality(Arrays(ring', b)) = Cardinality(Arrays(ring, b)) + One(IsArray(s[i]))
    BY <1>1, <1>2, <1>4, <2>1, ResOnce
  <2> QED
    BY <1>0, <1>4, <2>1, <2>2 DEF One
<1>5. CASE b \notin c.bos
  <2>1. NotIn(s, b)
    BY <1>2, <1>5 DEF NotIn
  <2>2. ResOK(b)' /\ Arrays(ring', b) = Arrays(ring, b)
    BY <1>1, <1>2, <1>5, <2>1, ResNone
  <2> QED
    BY <1>0, <2>2 DEF One
<1> QED
  BY <1>3, <1>4, <1>5

(* A detach for each of B. *)
LEMMA ResDetach ==
  ASSUME TypeInv, NEW b \in Bo, ResOK(b), UNCHANGED <<plugged, hostRes, ref>>, NEW f \in File,
         NEW B \in SUBSET Bo, Queue(Detaches(f, B)), b \in B => ref[b] > 0
  PROVE  /\ ResOK(b)'
         /\ Cardinality(Arrays(ring', b)) <= Cardinality(Arrays(ring, b)) + One(b \in B)
<1>0. Cardinality(Arrays(ring, b)) \in Nat
  BY ArraysTyped DEF TypeInv
<1>1. PICK s, id : s = Detaches(f, B) /\ id = file[f].id
  OBVIOUS
<1>2. Each(s, "DETACH", id, B) /\ s \in Seq(Commands)
  <2>1. Each(s, "DETACH", id, B)
    BY <1>1, DetachFacts
  <2> QED
    BY <2>1, EachOnce
<1>3. CASE ~plugged
  BY <1>0, <1>3, ResGone DEF Queue, One
<1>4. CASE b \in B /\ plugged
  <2>2. PICK i \in 1 .. Len(s) : OnlyAt(s, i, b) /\ s[i].op = "DETACH"
    BY <1>2, <1>4, EachOnce
  <2>3. Suits(b, s[i])
    BY <1>4, <2>2 DEF Suits
  <2>4. ResOK(b)' /\ Cardinality(Arrays(ring', b)) = Cardinality(Arrays(ring, b)) + One(IsArray(s[i]))
    BY <1>1, <1>2, <1>4, <2>2, <2>3, ResOnce
  <2> QED
    BY <1>0, <1>4, <2>4 DEF One
<1>5. CASE b \notin B
  <2>1. NotIn(s, b)
    BY <1>2, <1>5, EachOnce
  <2>2. ResOK(b)' /\ Arrays(ring', b) = Arrays(ring, b)
    BY <1>1, <1>2, <2>1, ResNone
  <2> QED
    BY <1>0, <2>2 DEF One
<1> QED
  BY <1>3, <1>4, <1>5
-----------------------------------------------------------------------------
(* Arrays and references, step by step. *)
ArrayRing == PlainRing \/ \E c \in Commands : c.op # "UNREF" /\ Queue(<<c>>)

LEMMA ArrayKept ==
  ASSUME TypeInv, ArrayInv, UNCHANGED <<running, answered>>, ArrayRing
  PROVE  ArrayInv'
<1>1. CASE UNCHANGED ring
  BY <1>1 DEF ArrayInv, IsArray
<1>2. ASSUME NEW s \in Seq(Commands), Queue(s), \A l \in 1 .. Len(s) : s[l].op = "UNREF" => s[l].job = 0
      PROVE  ArrayInv'
  <2>1. CASE ring' = ring \o s
    <3>1. PICK q : q = ring'
      OBVIOUS
    <3>2. ring \in Seq(Commands) /\ q = ring \o s
      BY <2>1, <3>1 DEF TypeInv
    <3>3. \A k \in 1 .. Len(q) :
            \/ k \in 1 .. Len(ring) /\ q[k] = ring[k]
            \/ k - Len(ring) \in 1 .. Len(s) /\ q[k] = s[k - Len(ring)]
      BY <3>2, PushFacts
    <3>4. \A k \in 1 .. Len(q) : q[k].op = "UNREF" => q[k].job = 0
      BY <1>2, <3>3 DEF ArrayInv
    <3> QED
      BY <3>1, <3>4 DEF ArrayInv, IsArray
  <2> QED
    BY <1>1, <1>2, <2>1 DEF Queue
<1>3. CASE PlainRing
  BY <1>1, <1>2, <1>3 DEF PlainRing, Plain
<1>4. ASSUME NEW c \in Commands, c.op # "UNREF", Queue(<<c>>)
      PROVE  ArrayInv'
  <2>1. PICK s : s = <<c>>
    OBVIOUS
  <2>2. s \in Seq(Commands) /\ \A l \in 1 .. Len(s) : s[l] = c
    BY <2>1
  <2>3. Queue(s) /\ \A l \in 1 .. Len(s) : s[l].op = "UNREF" => s[l].job = 0
    BY <1>4, <2>1, <2>2
  <2> QED
    BY <1>2, <2>2, <2>3
<1> QED
  BY <1>3, <1>4 DEF ArrayRing

(* A thread takes a step: n commands with b are queued. *)
LEMMA CountThread ==
  ASSUME TypeInv, TypeInv', NEW t \in Thread, Others(t), NEW b \in Bo, CountOK(b),
         UNCHANGED <<handles, running, answered, putq>>,
         NEW n \in Nat, Cardinality(Arrays(ring', b)) <= Cardinality(Arrays(ring, b)) + n,
         n + One(Works(th'[t], sub'[t], b)) <= One(Works(th[t], sub[t], b)) + (ref'[b] - ref[b]),
         Held(b) > 0 \/ ref'[b] = ref[b]
  PROVE  CountOK(b)'
<1>1. /\ IsFiniteSet(HandlesOf(handles', b)) /\ IsFiniteSet(ThreadsOf(th', sub', b))
      /\ Cardinality(ThreadsOf(th', sub', b)) =
           Cardinality(ThreadsOf(th, sub, b)) + One(Works(th'[t], sub'[t], b)) - One(Works(th[t], sub[t], b))
  BY ThreadsChanged DEF CountOK
<1>2. PICK w, x, d : w = One(Works(th[t], sub[t], b)) /\ x = One(Works(th'[t], sub'[t], b)) /\ d = ref'[b] - ref[b]
  OBVIOUS
<1>3. w \in Nat /\ x \in Nat /\ d \in Int
  BY <1>2 DEF One, TypeInv
<1>4. PICK h, c, a, r, s, p : /\ h = Cardinality(HandlesOf(handles, b)) /\ c = Cardinality(ThreadsOf(th, sub, b))
                              /\ a = Cardinality(Arrays(ring, b)) /\ r = Cardinality(Arrays(running, b))
                              /\ s = Cardinality(Arrays(answered, b)) /\ p = Cardinality(Puts(putq, b))
  OBVIOUS
<1>5. h \in Nat /\ c \in Nat /\ a \in Nat /\ r \in Nat /\ s \in Nat /\ p \in Nat /\ Held(b) = h + c + a + r + s + p
  BY <1>4, HeldTyped DEF CountOK, Held
<1>6. PICK e : e = Cardinality(Arrays(ring', b))
  OBVIOUS
<1>7. e \in Nat /\ Held(b)' = h + (c + x - w) + e + r + s + p
  BY <1>1, <1>2, <1>4, <1>6, HeldNext
<1>8. e <= a + n /\ n + x <= w + d
  BY <1>2, <1>4, <1>6
<1>9. Held(b)' <= Held(b) + d
  BY <1>3, <1>5, <1>7, <1>8
<1> QED
  BY <1>1, <1>2, <1>9, CountStep

(* Steps that leave the references alone. *)
LEMMA RefQuiet ==
  ASSUME TypeInv, TypeInv', RefInv, NEW t \in Thread, Others(t),
         UNCHANGED <<plugged, hostRes, ref, handles, running, answered, putq>>,
         \A b \in Bo : Works(th'[t], sub'[t], b) => Works(th[t], sub[t], b),
         NEW s \in Seq(Commands), Queue(s) \/ UNCHANGED ring,
         \A l \in 1 .. Len(s) : s[l].bos = {} /\ s[l].job = 0
  PROVE  RefInv'
<1>1. ArrayInv'
  BY ArrayKept DEF RefInv, ArrayRing, PlainRing, Plain
<1>2. ASSUME NEW b \in Bo
      PROVE  ResOK(b)' /\ CountOK(b)'
  <2>1. ResOK(b) /\ CountOK(b) /\ ref[b] \in Int
    BY DEF RefInv, TypeInv
  <2>2. NotIn(s, b)
    BY DEF NotIn
  <2>3. ResOK(b)' /\ Arrays(ring', b) = Arrays(ring, b)
    BY <2>1, <2>2, ResNone
  <2>4. Cardinality(Arrays(ring, b)) \in Nat
    BY ArraysTyped DEF TypeInv
  <2>5. PICK n \in Nat : n = 0
    OBVIOUS
  <2>6. Cardinality(Arrays(ring', b)) <= Cardinality(Arrays(ring, b)) + n
    BY <2>3, <2>4, <2>5
  <2>7. n + One(Works(th'[t], sub'[t], b)) <= One(Works(th[t], sub[t], b)) + (ref'[b] - ref[b])
    BY <2>1, <2>5 DEF One
  <2>8. CountOK(b)'
    BY <2>1, <2>6, <2>7, CountThread
  <2> QED
    BY <2>3, <2>8
<1> QED
  BY <1>1, <1>2 DEF RefInv

LEMMA RefCtx ==
  ASSUME TypeInv, LocalInv, TypeInv', RefInv, NEW t \in Thread,
         Call(t) \/ CtxLock(t) \/ CtxParams(t) \/ CtxQueue(t) \/ CtxSet(t)
  PROVE  RefInv'
<1>1. UNCHANGED <<plugged, hostRes, ref, handles, running, answered, putq>>
  BY Zenon DEF Call, CtxLock, CtxParams, CtxQueue, CtxSet, fileVars, boVars, hostVars
<1>2. Moved(t) /\ UNCHANGED sub
  BY MoveCall, MoveCtxLock, MoveCtxParams, MoveCtxQueue, MoveCtxSet
<1>3. th[t].pc # "publish"
  BY MoveCall DEF CtxLock, CtxParams, CtxQueue, CtxSet
<1>4. \A b \in Bo : Works(th'[t], sub'[t], b) => Works(th[t], sub[t], b)
  BY <1>2, <1>3 DEF Works
<1>5. CASE UNCHANGED ring
  <2>1. PICK s : s = <<>>
    OBVIOUS
  <2>2. s \in Seq(Commands) /\ \A l \in 1 .. Len(s) : s[l].bos = {} /\ s[l].job = 0
    BY <2>1
  <2> QED
    BY <1>1, <1>2, <1>4, <1>5, <2>2, RefQuiet DEF Moved
<1>6. CASE CtxQueue(t)
  <2>1. F(t) \in File
    BY <1>6, LocalFacts DEF CtxQueue
  <2>2. PICK c : c = CmdContextCreate(file[F(t)].id)
    OBVIOUS
  <2>3. {} \in SUBSET Bo /\ file[F(t)].id \in Nat
    BY <2>1, FileFields
  <2>4. c \in Commands /\ c.bos = {} /\ c.job = 0
    BY <2>2, <2>3, CmdFacts DEF CmdContextCreate
  <2>5. PICK s : s = <<c>>
    OBVIOUS
  <2>6. s \in Seq(Commands) /\ Queue(s) /\ \A l \in 1 .. Len(s) : s[l] = c
    BY <1>6, <2>2, <2>4, <2>5 DEF CtxQueue
  <2> QED
    BY <1>1, <1>2, <1>4, <2>4, <2>6, RefQuiet DEF Moved
<1> QED
  BY <1>5, <1>6, Zenon DEF Call, CtxLock, CtxParams, CtxSet

LEMMA RefWait ==
  ASSUME TypeInv, LocalInv, TypeInv', RefInv, NEW t \in Thread,
         ParseDeps(t) \/ WaitInFence(t) \/ LockResv(t) \/ Publish(t)
  PROVE  RefInv'
<1>1. UNCHANGED <<plugged, hostRes, ref, handles, running, answered, putq, ring>>
  BY Zenon DEF ParseDeps, WaitInFence, LockResv, Publish, fileVars, boVars, hostVars
<1>2. Moved(t) /\ (sub'[t].bos = {} \/ (sub'[t].bos = sub[t].bos /\ th[t].pc # "publish"))
  BY MoveParseDeps, MoveWaitInFence, MoveLockResv, MovePublish DEF ParseDeps, WaitInFence, LockResv, Publish
<1>3. \A b \in Bo : Works(th'[t], sub'[t], b) => Works(th[t], sub[t], b)
  BY <1>2 DEF Works
<1>4. PICK s : s = <<>>
  OBVIOUS
<1>5. s \in Seq(Commands) /\ \A l \in 1 .. Len(s) : s[l].bos = {} /\ s[l].job = 0
  BY <1>4
<1> QED
  BY <1>1, <1>2, <1>3, <1>5, RefQuiet DEF Moved

LEMMA PutPlain ==
  ASSUME NEW B \in SUBSET Bo, Queue(Unrefs(B))
  PROVE  PlainRing
<1>1. PICK s : s = Unrefs(B)
  OBVIOUS
<1>2. Each(s, "UNREF", 0, Dead(B))
  BY <1>1, UnrefFacts
<1>3. Plain(s)
  BY <1>2, PlainFacts
<1> QED
  BY <1>1, <1>3 DEF PlainRing

(* A thread drops the references it holds. *)
LEMMA RefThreadPut ==
  ASSUME TypeInv, TypeInv', RefInv, NEW t \in Thread, Others(t),
         UNCHANGED <<plugged, hostRes, handles, running, answered, putq>>,
         th[t].pc # "publish", sub'[t].bos = {}, Queue(Unrefs(sub[t].bos)), Put(sub[t].bos)
  PROVE  RefInv'
<1>1. PICK B \in SUBSET Bo : B = sub[t].bos
  BY Fields
<1>2. ArrayInv'
  BY <1>1, ArrayKept, PutPlain DEF RefInv, ArrayRing
<1>3. ASSUME NEW b \in Bo
      PROVE  ResOK(b)' /\ CountOK(b)'
  <2>1. ResOK(b) /\ CountOK(b) /\ ref[b] \in Int /\ ref'[b] \in Int
    BY DEF RefInv, TypeInv
  <2>2. (Works(th[t], sub[t], b) <=> b \in B) /\ ~Works(th'[t], sub'[t], b)
    BY <1>1 DEF Works
  <2>3. b \in B => Held(b) > 0 /\ ref[b] > 0
    BY <2>1, <2>2, HeldBy
  <2>4. /\ ResOK(b)' /\ ref'[b] = ref[b] - One(b \in B)
        /\ Cardinality(Arrays(ring', b)) = Cardinality(Arrays(ring, b))
    BY <1>1, <2>1, <2>3, ResPut
  <2>5. Cardinality(Arrays(ring, b)) \in Nat
    BY ArraysTyped DEF TypeInv
  <2>6. PICK n \in Nat : n = 0
    OBVIOUS
  <2>7. Cardinality(Arrays(ring', b)) <= Cardinality(Arrays(ring, b)) + n
    BY <2>4, <2>5, <2>6
  <2>8. n + One(Works(th'[t], sub'[t], b)) <= One(Works(th[t], sub[t], b)) + (ref'[b] - ref[b])
    BY <2>1, <2>2, <2>4, <2>6 DEF One
  <2>9. Held(b) > 0 \/ ref'[b] = ref[b]
    BY <2>1, <2>3, <2>4 DEF One
  <2>10. CountOK(b)'
    BY <2>1, <2>7, <2>8, <2>9, CountThread
  <2> QED
    BY <2>4, <2>10
<1> QED
  BY <1>2, <1>3 DEF RefInv

(* A command takes over the references a thread holds. *)
LEMMA RefThreadSend ==
  ASSUME TypeInv, TypeInv', RefInv, NEW t \in Thread, Others(t),
         UNCHANGED <<plugged, hostRes, ref, handles, running, answered, putq>>,
         th[t].pc # "publish", sub'[t].bos = {} \/ th'[t].pc = "publish",
         NEW c \in Commands, Queue(<<c>>), c.bos = sub[t].bos, c.op \in {"ATTACH", "SUBMIT", "TRANSFER"}
  PROVE  RefInv'
<1>1. ArrayInv'
  BY ArrayKept DEF RefInv, ArrayRing
<1>2. ASSUME NEW b \in Bo
      PROVE  ResOK(b)' /\ CountOK(b)'
  <2>1. ResOK(b) /\ CountOK(b) /\ ref[b] \in Int /\ ref'[b] = ref[b]
    BY DEF RefInv, TypeInv
  <2>2. (Works(th[t], sub[t], b) <=> b \in c.bos) /\ ~Works(th'[t], sub'[t], b)
    BY DEF Works
  <2>3. b \in c.bos => ref[b] > 0
    BY <2>1, <2>2, HeldBy
  <2>4. IF b \in c.bos THEN Suits(b, c) ELSE ref'[b] > 0 <=> ref[b] > 0
    BY <2>1, <2>3 DEF Suits
  <2>5. /\ ResOK(b)'
        /\ Cardinality(Arrays(ring', b)) <= Cardinality(Arrays(ring, b)) + One(IsArray(c) /\ b \in c.bos)
    BY <2>1, <2>4, ResSend
  <2>6. PICK n : n = One(IsArray(c) /\ b \in c.bos)
    OBVIOUS
  <2>7. n \in Nat /\ n + One(Works(th'[t], sub'[t], b)) <= One(Works(th[t], sub[t], b)) + (ref'[b] - ref[b])
    BY <2>1, <2>2, <2>6 DEF One
  <2>8. CountOK(b)'
    BY <2>1, <2>5, <2>6, <2>7, CountThread
  <2> QED
    BY <2>5, <2>8
<1> QED
  BY <1>1, <1>2 DEF RefInv

(* A thread takes references to objects somebody else holds. *)
LEMMA RefThreadGet ==
  ASSUME TypeInv, TypeInv', RefInv, NEW t \in Thread, Others(t),
         UNCHANGED <<plugged, hostRes, ring, handles, running, answered, putq>>,
         NEW B \in SUBSET Bo, Get(B), sub[t].bos = {}, sub'[t].bos = B,
         \A b \in B : \E f \in File : b \in handles[f]
  PROVE  RefInv'
<1>1. ArrayInv'
  BY ArrayKept DEF RefInv, ArrayRing, PlainRing
<1>2. ASSUME NEW b \in Bo
      PROVE  ResOK(b)' /\ CountOK(b)'
  <2>1. ResOK(b) /\ CountOK(b) /\ ref[b] \in Int /\ ref'[b] = ref[b] + One(b \in B)
    BY DEF RefInv, TypeInv, Get, One
  <2>2. b \in B => Held(b) > 0 /\ ref[b] > 0
    BY <2>1, HeldBy
  <2>3. ref'[b] > 0 <=> ref[b] > 0
    BY <2>1, <2>2 DEF One
  <2>4. ResOK(b)'
    BY <2>1, <2>3 DEF ResOK
  <2>5. PICK n \in Nat : n = 0
    OBVIOUS
  <2>6. Cardinality(Arrays(ring, b)) \in Nat /\ ring' = ring
    BY ArraysTyped DEF TypeInv
  <2>7. Cardinality(Arrays(ring', b)) <= Cardinality(Arrays(ring, b)) + n
    BY <2>5, <2>6
  <2>8. n + One(Works(th'[t], sub'[t], b)) <= One(Works(th[t], sub[t], b)) + (ref'[b] - ref[b])
    BY <2>1, <2>5 DEF One, Works
  <2>9. Held(b) > 0 \/ ref'[b] = ref[b]
    BY <2>1, <2>2 DEF One
  <2>10. CountOK(b)'
    BY <2>1, <2>7, <2>8, <2>9, CountThread
  <2> QED
    BY <2>4, <2>10
<1> QED
  BY <1>1, <1>2 DEF RefInv

(* The handles of a file change. *)
LEMMA CountFile ==
  ASSUME TypeInv, TypeInv', NEW f \in File, \A e \in File : e # f => handles'[e] = handles[e],
         NEW b \in Bo, CountOK(b), ThreadsOf(th', sub', b) = ThreadsOf(th, sub, b),
         UNCHANGED <<running, answered, putq>>,
         NEW n \in Nat, Cardinality(Arrays(ring', b)) <= Cardinality(Arrays(ring, b)) + n,
         n + One(b \in handles'[f]) <= One(b \in handles[f]) + (ref'[b] - ref[b]),
         Held(b) > 0 \/ ref'[b] = ref[b]
  PROVE  CountOK(b)'
<1>0. PICK g, i : g = handles /\ i = handles'
  OBVIOUS
<1>1. /\ IsFiniteSet(HandlesOf(i, b)) /\ IsFiniteSet(ThreadsOf(th', sub', b))
      /\ Cardinality(HandlesOf(i, b)) = Cardinality(HandlesOf(g, b)) + One(b \in i[f]) - One(b \in g[f])
  BY <1>0, HandlesChanged DEF CountOK
<1>2. PICK w, x, d : w = One(b \in g[f]) /\ x = One(b \in i[f]) /\ d = ref'[b] - ref[b]
  OBVIOUS
<1>3. w \in Nat /\ x \in Nat /\ d \in Int
  BY <1>2 DEF One, TypeInv
<1>4. PICK h, c, a, r, s, p : /\ h = Cardinality(HandlesOf(handles, b)) /\ c = Cardinality(ThreadsOf(th, sub, b))
                              /\ a = Cardinality(Arrays(ring, b)) /\ r = Cardinality(Arrays(running, b))
                              /\ s = Cardinality(Arrays(answered, b)) /\ p = Cardinality(Puts(putq, b))
  OBVIOUS
<1>5. h \in Nat /\ c \in Nat /\ a \in Nat /\ r \in Nat /\ s \in Nat /\ p \in Nat /\ Held(b) = h + c + a + r + s + p
  BY <1>4, HeldTyped DEF CountOK, Held
<1>6. PICK e : e = Cardinality(Arrays(ring', b))
  OBVIOUS
<1>7. e \in Nat /\ Held(b)' = (h + x - w) + c + e + r + s + p
  BY <1>0, <1>1, <1>2, <1>4, <1>6, HeldNext
<1>8. e <= a + n /\ n + x <= w + d
  BY <1>0, <1>2, <1>4, <1>6
<1>9. Held(b)' <= Held(b) + d
  BY <1>3, <1>5, <1>7, <1>8
<1> QED
  BY <1>0, <1>1, <1>2, <1>9, CountStep

LEMMA RefCreate ==
  ASSUME TypeInv, LocalInv, TypeInv', RefInv, NEW t \in Thread, Create(t)
  PROVE  RefInv'
<1>1. UNCHANGED <<plugged, hostRes, handles, running, answered, putq>>
  BY Zenon DEF Create, fileVars, hostVars
<1>2. PICK b \in Bo :
        /\ ref[b] = -1 /\ Moved(t) /\ sub[t] = NoSubmit /\ sub'[t].bos = {b}
        /\ \/ Queue(<<CmdResourceCreate3d(b, Len(job) + 1)>>) /\ ref' = [ref EXCEPT ![b] = 2]
           \/ Queue(<<CmdCreateResource(b)>>) /\ ref' = [ref EXCEPT ![b] = 1]
  BY CreateFacts
<1>3. PICK c \in Commands :
        /\ c.op = "CREATE" /\ c.bos = {b} /\ Queue(<<c>>)
        /\ ref' = [ref EXCEPT ![b] = 1 + One(IsArray(c))]
  <2>1. {b} \in SUBSET Bo /\ Len(job) + 1 \in Nat /\ Len(job) \in Nat /\ 0 \in Nat
    BY DEF TypeInv
  <2>2. CASE Queue(<<CmdResourceCreate3d(b, Len(job) + 1)>>) /\ ref' = [ref EXCEPT ![b] = 2]
    <3>1. PICK B, j, c : B = {b} /\ j = Len(job) + 1 /\ c = Cmd("CREATE", 0, B, j)
      OBVIOUS
    <3>2. c \in Commands /\ c.op = "CREATE" /\ c.bos = {b} /\ c.job = j /\ j # 0
      BY <2>1, <3>1, CmdFacts
    <3>3. Queue(<<c>>)
      BY <2>2, <3>1 DEF CmdResourceCreate3d
    <3>4. 1 + One(IsArray(c)) = 2
      BY <3>2 DEF IsArray, One
    <3> QED
      BY <2>2, <3>2, <3>3, <3>4
  <2>3. CASE Queue(<<CmdCreateResource(b)>>) /\ ref' = [ref EXCEPT ![b] = 1]
    <3>1. PICK B, c : B = {b} /\ c = Cmd("CREATE", 0, B, 0)
      OBVIOUS
    <3>2. c \in Commands /\ c.op = "CREATE" /\ c.bos = {b} /\ c.job = 0
      BY <2>1, <3>1, CmdFacts
    <3>3. Queue(<<c>>)
      BY <2>3, <3>1 DEF CmdCreateResource
    <3>4. 1 + One(IsArray(c)) = 1
      BY <3>2 DEF IsArray, One
    <3> QED
      BY <2>3, <3>2, <3>3, <3>4
  <2> QED
    BY <1>2, <2>2, <2>3
<1>4. ArrayInv'
  BY <1>1, <1>3, ArrayKept DEF RefInv, ArrayRing
<1>5. Others(t)
  BY <1>2 DEF Moved
<1>6. ASSUME NEW d \in Bo, d # b
      PROVE  ResOK(d)' /\ CountOK(d)'
  <2>1. ResOK(d) /\ CountOK(d) /\ ref[d] \in Int /\ ref'[d] = ref[d]
    BY <1>3, <1>6 DEF RefInv, TypeInv
  <2>2. ~Works(th[t], sub[t], d) /\ ~Works(th'[t], sub'[t], d) /\ d \notin c.bos
    BY <1>2, <1>3, <1>6 DEF Works, NoSubmit
  <2>3. /\ ResOK(d)'
        /\ Cardinality(Arrays(ring', d)) <= Cardinality(Arrays(ring, d)) + One(IsArray(c) /\ d \in c.bos)
    BY <1>1, <1>3, <2>1, <2>2, ResSend
  <2>4. PICK n : n = One(IsArray(c) /\ d \in c.bos)
    OBVIOUS
  <2>5. n \in Nat /\ n + One(Works(th'[t], sub'[t], d)) <= One(Works(th[t], sub[t], d)) + (ref'[d] - ref[d])
    BY <2>1, <2>2, <2>4 DEF One
  <2>6. CountOK(d)'
    BY <1>1, <1>5, <2>1, <2>3, <2>4, <2>5, CountThread
  <2> QED
    BY <2>3, <2>6
<1>7. ResOK(b)' /\ CountOK(b)'
  <2>1. ResOK(b) /\ CountOK(b) /\ ref \in [Bo -> Int]
    BY DEF RefInv, TypeInv
  <2>2. ref'[b] = 1 + One(IsArray(c)) /\ One(IsArray(c)) \in {0, 1}
    BY <1>3, <2>1 DEF One
  <2>3. Suits(b, c)
    BY <1>2, <1>3, <2>2 DEF Suits
  <2>4. /\ ResOK(b)'
        /\ Cardinality(Arrays(ring', b)) <= Cardinality(Arrays(ring, b)) + One(IsArray(c) /\ b \in c.bos)
    BY <1>1, <1>3, <2>1, <2>3, ResSend
  <2>5. One(IsArray(c) /\ b \in c.bos) = One(IsArray(c))
    BY <1>3 DEF One
  <2>6. /\ IsFiniteSet(HandlesOf(handles', b)) /\ IsFiniteSet(ThreadsOf(th', sub', b))
        /\ Cardinality(ThreadsOf(th', sub', b)) =
             Cardinality(ThreadsOf(th, sub, b)) + One(Works(th'[t], sub'[t], b)) - One(Works(th[t], sub[t], b))
    BY <1>1, <1>5, <2>1, ThreadsChanged DEF CountOK
  <2>7. One(Works(th[t], sub[t], b)) = 0 /\ One(Works(th'[t], sub'[t], b)) \in {0, 1}
    BY <1>2 DEF Works, One, NoSubmit
  <2>8. PICK h, x, a, r, s, p : /\ h = Cardinality(HandlesOf(handles, b)) /\ x = Cardinality(ThreadsOf(th, sub, b))
                                /\ a = Cardinality(Arrays(ring, b)) /\ r = Cardinality(Arrays(running, b))
                                /\ s = Cardinality(Arrays(answered, b)) /\ p = Cardinality(Puts(putq, b))
    OBVIOUS
  <2>9. /\ h \in Nat /\ x \in Nat /\ a \in Nat /\ r \in Nat /\ s \in Nat /\ p \in Nat
        /\ Held(b) = h + x + a + r + s + p /\ Held(b) \in Nat
    BY <2>1, <2>8, HeldTyped DEF CountOK, Held
  <2>10. Held(b) = 0
    BY <1>2, <2>1, <2>9 DEF CountOK
  <2>11. h = 0 /\ x = 0 /\ a = 0 /\ r = 0 /\ s = 0 /\ p = 0
    BY <2>9, <2>10
  <2>12. PICK e, w, v : e = Cardinality(Arrays(ring', b)) /\ w = One(Works(th'[t], sub'[t], b)) /\ v = One(IsArray(c))
    OBVIOUS
  <2>13. /\ e \in Nat /\ Held(b)' = h + w + e + r + s + p
         /\ IsFiniteSet(HandlesOf(handles, b))' /\ IsFiniteSet(ThreadsOf(th, sub, b))'
    <3>1. w \in Int /\ Cardinality(ThreadsOf(th', sub', b)) = 0 + w - 0
      BY <2>6, <2>7, <2>8, <2>11, <2>12
    <3>2. Cardinality(ThreadsOf(th', sub', b)) = w
      BY <3>1
    <3> QED
      BY <1>1, <2>6, <2>8, <2>12, <3>2, HeldNext
  <2>14. e <= v /\ w \in {0, 1} /\ v \in {0, 1} /\ ref'[b] = 1 + v
    BY <2>2, <2>4, <2>5, <2>7, <2>8, <2>11, <2>12
  <2>15. Held(b)' <= ref'[b] /\ ref'[b] >= -1
    BY <2>11, <2>13, <2>14
  <2> QED
    BY <2>4, <2>13, <2>15 DEF CountOK
<1> QED
  BY <1>4, <1>6, <1>7 DEF RefInv

LEMMA RefHandle ==
  ASSUME TypeInv, LocalInv, TypeInv', RefInv, NEW t \in Thread, HandleCreate(t)
  PROVE  RefInv'
<1>1. UNCHANGED <<plugged, hostRes, running, answered, putq>> /\ th[t].pc = "handle"
  BY Zenon DEF HandleCreate, hostVars
<1>2. F(t) \in File /\ sub[t].bos \in SUBSET Bo /\ Moved(t) /\ Others(t)
  BY <1>1, LocalFacts, Fields, MoveHandleCreate DEF Moved
<1>3. CASE /\ handles' = [handles EXCEPT ![F(t)] = @ \cup sub[t].bos] /\ Get(sub[t].bos)
           /\ th'[t].pc \in {"attach", "ctx"} /\ UNCHANGED <<sub, ring>>
  <2>1. PICK f \in File, B \in SUBSET Bo : f = F(t) /\ B = sub[t].bos
    BY <1>2
  <2>2. ArrayInv'
    BY <1>1, <1>3, ArrayKept DEF RefInv, ArrayRing, PlainRing
  <2>3. handles'[f] = handles[f] \cup B /\ \A e \in File : e # f => handles'[e] = handles[e]
    BY <1>3, <2>1 DEF TypeInv
  <2>4. ASSUME NEW b \in Bo
        PROVE  ResOK(b)' /\ CountOK(b)'
    <3>1. ResOK(b) /\ CountOK(b) /\ ref[b] \in Int /\ ref'[b] = ref[b] + One(b \in B)
      BY <1>3, <2>1 DEF RefInv, TypeInv, Get, One
    <3>2. b \in B => Works(th[t], sub[t], b)
      BY <1>1, <2>1 DEF Works
    <3>3. b \in B => Held(b) > 0 /\ ref[b] > 0
      BY <3>1, <3>2, HeldBy
    <3>4. ref'[b] > 0 <=> ref[b] > 0
      BY <3>1, <3>3 DEF One
    <3>5. ResOK(b)'
      BY <1>1, <1>3, <3>1, <3>4 DEF ResOK
    <3>6. PICK n \in Nat : n = 0
      OBVIOUS
    <3>7. Cardinality(Arrays(ring, b)) \in Nat
      BY ArraysTyped DEF TypeInv
    <3>8. Cardinality(Arrays(ring', b)) <= Cardinality(Arrays(ring, b)) + n
      BY <1>3, <3>6, <3>7
    <3>9. n + One(b \in handles'[f]) <= One(b \in handles[f]) + (ref'[b] - ref[b])
      BY <2>3, <3>1, <3>6 DEF One
    <3>10. Held(b) > 0 \/ ref'[b] = ref[b]
      BY <3>1, <3>3 DEF One
    <3>11. ThreadsOf(th', sub', b) = ThreadsOf(th, sub, b)
      <4>1. ASSUME NEW u \in Thread
            PROVE  Works(th'[u], sub'[u], b) <=> Works(th[u], sub[u], b)
        BY <1>1, <1>2, <1>3 DEF Works, Others
      <4> QED
        BY <4>1 DEF ThreadsOf
    <3>12. CountOK(b)'
      BY <1>1, <2>3, <3>1, <3>8, <3>9, <3>10, <3>11, CountFile
    <3> QED
      BY <3>5, <3>12
  <2> QED
    BY <2>2, <2>4 DEF RefInv
<1>4. CASE UNCHANGED handles /\ sub'[t].bos = {} /\ Queue(Unrefs(sub[t].bos)) /\ Put(sub[t].bos)
  BY <1>1, <1>2, <1>4, RefThreadPut
<1>5. CASE UNCHANGED handles /\ sub'[t].bos = {} /\ UNCHANGED <<ring, ref>>
  <2>1. PICK s : s = <<>>
    OBVIOUS
  <2>2. s \in Seq(Commands) /\ \A l \in 1 .. Len(s) : s[l].bos = {} /\ s[l].job = 0
    BY <2>1
  <2>3. \A b \in Bo : Works(th'[t], sub'[t], b) => Works(th[t], sub[t], b)
    BY <1>5 DEF Works
  <2> QED
    BY <1>1, <1>2, <1>5, <2>2, <2>3, RefQuiet
<1>6. \/ /\ handles' = [handles EXCEPT ![F(t)] = @ \cup sub[t].bos] /\ Get(sub[t].bos)
         /\ UNCHANGED <<sub, ring>>
         /\ th' = [th EXCEPT ![t].pc = IF ctxInit THEN "attach" ELSE "ctx", ![t].op = "OPEN"]
      \/ /\ UNCHANGED handles /\ sub' = [sub EXCEPT ![t] = NoSubmit]
         /\ \/ Queue(Unrefs(sub[t].bos)) /\ Put(sub[t].bos)
            \/ UNCHANGED <<ring, ref>>
  BY Zenon DEF HandleCreate
<1>7. ASSUME th' = [th EXCEPT ![t].pc = IF ctxInit THEN "attach" ELSE "ctx", ![t].op = "OPEN"]
      PROVE  th'[t].pc \in {"attach", "ctx"}
  BY <1>7 DEF TypeInv, ThreadState
<1>8. sub' = [sub EXCEPT ![t] = NoSubmit] => sub'[t].bos = {}
  BY DEF TypeInv, NoSubmit
<1> QED
  BY <1>3, <1>4, <1>5, <1>6, <1>7, <1>8

LEMMA RefAttach ==
  ASSUME TypeInv, LocalInv, TypeInv', RefInv, NEW t \in Thread, Attach(t)
  PROVE  RefInv'
<1>1. UNCHANGED <<plugged, hostRes, handles, running, answered, putq>> /\ th[t].pc = "attach"
  BY Zenon DEF Attach, fileVars, hostVars
<1>2. F(t) \in File /\ sub[t].bos \in SUBSET Bo /\ Moved(t) /\ Others(t) /\ sub'[t].bos = {}
  BY <1>1, LocalFacts, Fields, MoveAttach DEF Moved, NoSubmit
<1>3. CASE Queue(<<CmdContextAttach(file[F(t)].id, sub[t].bos)>>) /\ UNCHANGED ref
  <2>1. PICK id, B, c : id = file[F(t)].id /\ B = sub[t].bos /\ c = Cmd("ATTACH", id, B, 0)
    OBVIOUS
  <2>2. id \in Nat /\ B \in SUBSET Bo
    BY <1>2, <2>1, FileFields
  <2>3. c \in Commands /\ c.op = "ATTACH" /\ c.bos = B
    BY <2>1, <2>2, CmdFacts
  <2>4. Queue(<<c>>)
    BY <1>3, <2>1 DEF CmdContextAttach
  <2> QED
    BY <1>1, <1>2, <1>3, <2>1, <2>3, <2>4, RefThreadSend
<1>4. CASE Queue(Unrefs(sub[t].bos)) /\ Put(sub[t].bos)
  BY <1>1, <1>2, <1>4, RefThreadPut
<1>5. \/ Queue(<<CmdContextAttach(file[F(t)].id, sub[t].bos)>>) /\ UNCHANGED ref
      \/ Queue(Unrefs(sub[t].bos)) /\ Put(sub[t].bos)
  BY Zenon DEF Attach
<1> QED
  BY <1>3, <1>4, <1>5

LEMMA RefImport ==
  ASSUME TypeInv, LocalInv, TypeInv', RefInv, NEW t \in Thread, Import(t)
  PROVE  RefInv'
<1>1. UNCHANGED <<plugged, hostRes, ring, handles, running, answered, putq>>
  BY Zenon DEF Import, fileVars, hostVars
<1>2. PICK b \in Bo : sub'[t].bos = {b} /\ Get({b}) /\ \E g \in File : b \in handles[g]
  BY MoveImport
<1>3. Others(t) /\ sub[t].bos = {}
  BY MoveImport DEF Moved, NoSubmit
<1>4. PICK B : B = {b}
  OBVIOUS
<1>5. B \in SUBSET Bo /\ Get(B) /\ sub'[t].bos = B /\ \A d \in B : \E f \in File : d \in handles[f]
  BY <1>2, <1>4
<1> QED
  BY <1>1, <1>3, <1>5, RefThreadGet

LEMMA RefInit ==
  ASSUME TypeInv, LocalInv, TypeInv', RefInv, NEW t \in Thread, InitSubmit(t)
  PROVE  RefInv'
<1>1. UNCHANGED <<plugged, hostRes, ring, handles, running, answered, putq>> /\ th[t].pc = "init"
  BY Zenon DEF InitSubmit, fileVars, hostVars
<1>2. Others(t) /\ sub[t].bos = {} /\ th[t].req \in Request /\ (InitFailed(t) \/ InitDone(t))
  BY MoveInitSubmit DEF Moved, NoSubmit
<1>3. F(t) \in File
  BY <1>1, LocalFacts
<1>4. CASE InitFailed(t)
  <2>1. PICK s : s = <<>>
    OBVIOUS
  <2>2. s \in Seq(Commands) /\ \A l \in 1 .. Len(s) : s[l].bos = {} /\ s[l].job = 0
    BY <2>1
  <2>3. \A b \in Bo : Works(th'[t], sub'[t], b) => Works(th[t], sub[t], b)
    BY <1>4 DEF InitFailed, Works
  <2>4. UNCHANGED ref
    BY <1>4 DEF InitFailed
  <2> QED
    BY <1>1, <1>2, <2>2, <2>3, <2>4, RefQuiet
<1>5. CASE InitDone(t)
  <2>1. PICK B : B = th[t].req.bos
    OBVIOUS
  <2>2. B \subseteq handles[F(t)] /\ Get(B) /\ sub'[t].bos = B
    BY <1>5, <2>1 DEF InitDone, BuflistKnown
  <2>3. B \in SUBSET Bo /\ \A b \in B : \E f \in File : b \in handles[f]
    BY <1>3, <2>2, FileFields
  <2> QED
    BY <1>1, <1>2, <2>2, <2>3, RefThreadGet
<1> QED
  BY <1>2, <1>4, <1>5

LEMMA RefSubmit ==
  ASSUME TypeInv, LocalInv, TypeInv', RefInv, NEW t \in Thread, Submit(t)
  PROVE  RefInv'
<1>1. UNCHANGED <<plugged, hostRes, ref, handles, running, answered, putq>> /\ th[t].pc = "submit"
  BY Zenon DEF Submit, fileVars, hostVars
<1>2. F(t) \in File /\ sub[t].bos \in SUBSET Bo /\ sub[t].job \in Nat
  BY <1>1, LocalFacts, Fields
<1>3. Others(t) /\ (sub'[t].bos = {} \/ th'[t].pc = "publish")
  BY MoveSubmit DEF Moved, NoSubmit
<1>4. CASE UNCHANGED ring
  <2>1. PICK s : s = <<>>
    OBVIOUS
  <2>2. s \in Seq(Commands) /\ \A l \in 1 .. Len(s) : s[l].bos = {} /\ s[l].job = 0
    BY <2>1
  <2>3. \A b \in Bo : Works(th'[t], sub'[t], b) => Works(th[t], sub[t], b)
    BY <1>3 DEF Works
  <2> QED
    BY <1>1, <1>3, <1>4, <2>2, <2>3, RefQuiet
<1>5. CASE Queue(<<Command(t)>>)
  <2>1. PICK id, B, j : id = file[F(t)].id /\ B = sub[t].bos /\ j = sub[t].job
    OBVIOUS
  <2>2. id \in Nat /\ B \in SUBSET Bo /\ j \in Nat
    BY <1>2, <2>1, FileFields
  <2>3. PICK op \in {"SUBMIT", "TRANSFER"} : Command(t) = Cmd(op, id, B, j)
    BY <2>1 DEF Command, CmdSubmit, CmdTransferHost3d
  <2>4. PICK c : c = Cmd(op, id, B, j)
    OBVIOUS
  <2>5. c \in Commands /\ c.op = op /\ c.bos = B
    BY <2>2, <2>4, CmdFacts
  <2>6. Queue(<<c>>)
    BY <1>5, <2>3, <2>4
  <2> QED
    BY <1>1, <1>3, <2>1, <2>5, <2>6, RefThreadSend
<1> QED
  BY <1>4, <1>5, Zenon DEF Submit

LEMMA RefCleanup ==
  ASSUME TypeInv, LocalInv, TypeInv', RefInv, NEW t \in Thread, CleanupSubmit(t)
  PROVE  RefInv'
<1>1. /\ UNCHANGED <<plugged, hostRes, handles, running, answered, putq>> /\ th[t].pc = "cleanup"
      /\ Queue(Unrefs(sub[t].bos)) /\ Put(sub[t].bos)
  BY Zenon DEF CleanupSubmit, fileVars, hostVars
<1>2. Others(t) /\ sub'[t].bos = {}
  BY MoveCleanupSubmit DEF Moved, NoSubmit
<1> QED
  BY <1>1, <1>2, RefThreadPut

(* Files. *)
LEMMA RefClose ==
  ASSUME TypeInv, TypeInv', RefInv, NEW f \in File, NEW B \in SUBSET Bo, B \subseteq handles[f],
         CloseHandles(f, B), UNCHANGED <<plugged, hostRes, running, answered, putq, th, sub>>
  PROVE  RefInv'
<1>1. /\ handles'[f] = handles[f] \ B /\ \A g \in File : g # f => handles'[g] = handles[g]
      /\ \/ Queue(Detaches(f, B)) /\ UNCHANGED ref
         \/ Queue(Unrefs(B)) /\ Put(B)
  BY CloseHandlesFacts
<1>2. ArrayInv'
  <2>1. ASSUME Queue(Detaches(f, B))
        PROVE  PlainRing
    <3>1. PICK s : s = Detaches(f, B)
      OBVIOUS
    <3>2. Each(s, "DETACH", file[f].id, B)
      BY <3>1, DetachFacts
    <3>3. Plain(s)
      BY <3>2, PlainFacts
    <3> QED
      BY <2>1, <3>1, <3>3 DEF PlainRing
  <2>2. PlainRing
    BY <1>1, <2>1, PutPlain
  <2> QED
    BY <2>2, ArrayKept DEF RefInv, ArrayRing
<1>3. ASSUME NEW b \in Bo
      PROVE  ResOK(b)' /\ CountOK(b)'
  <2>1. ResOK(b) /\ CountOK(b) /\ ref[b] \in Int /\ Cardinality(Arrays(ring, b)) \in Nat
    BY ArraysTyped DEF RefInv, TypeInv
  <2>2. b \in B => Held(b) > 0 /\ ref[b] > 0
    BY <2>1, HeldBy
  <2>3. PICK n \in Nat :
          /\ ResOK(b)' /\ Cardinality(Arrays(ring', b)) <= Cardinality(Arrays(ring, b)) + n
          /\ n + One(b \in handles'[f]) <= One(b \in handles[f]) + (ref'[b] - ref[b])
          /\ Held(b) > 0 \/ ref'[b] = ref[b]
    <3>1. CASE Queue(Detaches(f, B)) /\ UNCHANGED ref
      <4>1. /\ ResOK(b)'
            /\ Cardinality(Arrays(ring', b)) <= Cardinality(Arrays(ring, b)) + One(b \in B)
        BY <2>1, <2>2, <3>1, ResDetach
      <4>2. PICK n : n = One(b \in B)
        OBVIOUS
      <4>3. n \in Nat /\ n + One(b \in handles'[f]) <= One(b \in handles[f]) + (ref'[b] - ref[b])
        BY <1>1, <2>1, <3>1, <4>2 DEF One
      <4> QED
        BY <3>1, <4>1, <4>2, <4>3
    <3>2. CASE Queue(Unrefs(B)) /\ Put(B)
      <4>1. /\ ResOK(b)' /\ ref'[b] = ref[b] - One(b \in B)
            /\ Cardinality(Arrays(ring', b)) = Cardinality(Arrays(ring, b))
        BY <2>1, <2>2, <3>2, ResPut
      <4>2. Cardinality(Arrays(ring', b)) <= Cardinality(Arrays(ring, b)) + 0
        BY <2>1, <4>1
      <4>3. 0 + One(b \in handles'[f]) <= One(b \in handles[f]) + (ref'[b] - ref[b])
        BY <1>1, <2>1, <4>1 DEF One
      <4>4. Held(b) > 0 \/ ref'[b] = ref[b]
        BY <2>1, <2>2, <4>1 DEF One
      <4> QED
        BY <4>1, <4>2, <4>3, <4>4
    <3> QED
      BY <1>1, <3>1, <3>2
  <2>4. ThreadsOf(th', sub', b) = ThreadsOf(th, sub, b)
    OBVIOUS
  <2>5. CountOK(b)'
    BY <1>1, <2>1, <2>3, <2>4, CountFile
  <2> QED
    BY <2>3, <2>5
<1> QED
  BY <1>2, <1>3 DEF RefInv

(* The queues change. *)
Waiting(q, r, a, p, b) ==
  Cardinality(Arrays(q, b)) + Cardinality(Arrays(r, b)) + Cardinality(Arrays(a, b)) + Cardinality(Puts(p, b))

LEMMA CountQueues ==
  ASSUME TypeInv, TypeInv', NEW b \in Bo, CountOK(b), UNCHANGED <<handles, th, sub>>,
         Waiting(ring', running', answered', putq', b) <=
           Waiting(ring, running, answered, putq, b) + (ref'[b] - ref[b]),
         Held(b) > 0 \/ ref'[b] = ref[b]
  PROVE  CountOK(b)'
<1>1. IsFiniteSet(HandlesOf(handles', b)) /\ IsFiniteSet(ThreadsOf(th', sub', b))
  BY DEF CountOK
<1>2. PICK h, c, w, d, v : /\ h = Cardinality(HandlesOf(handles, b)) /\ c = Cardinality(ThreadsOf(th, sub, b))
                           /\ w = Waiting(ring, running, answered, putq, b) /\ d = ref'[b] - ref[b]
                           /\ v = Waiting(ring', running', answered', putq', b)
  OBVIOUS
<1>3. d \in Int
  BY <1>2 DEF TypeInv
<1>4. h \in Nat /\ c \in Nat /\ w \in Nat /\ Held(b) = h + c + w
  BY <1>2, HeldTyped DEF CountOK, Held, Waiting
<1>5. v \in Nat /\ Held(b)' = h + c + v
  BY <1>1, <1>2, HeldNext DEF Waiting
<1>6. Held(b)' <= Held(b) + d
  BY <1>2, <1>3, <1>4, <1>5
<1> QED
  BY <1>1, <1>2, <1>6, CountStep

(* Nothing that holds a reference moves. *)
LEMMA RefStill ==
  ASSUME TypeInv, TypeInv', RefInv,
         UNCHANGED <<hostRes, ref, handles, th, sub, running, answered, putq>>,
         UNCHANGED plugged \/ ~plugged',
         NEW s \in Seq(Commands), Queue(s) \/ UNCHANGED ring, plugged' \/ UNCHANGED ring,
         \A l \in 1 .. Len(s) : s[l].bos = {} /\ s[l].job = 0
  PROVE  RefInv'
<1>1. ArrayInv'
  BY ArrayKept DEF RefInv, ArrayRing, PlainRing, Plain
<1>2. ASSUME NEW b \in Bo
      PROVE  ResOK(b)' /\ CountOK(b)'
  <2>1. ResOK(b) /\ CountOK(b) /\ ref[b] \in Int /\ Cardinality(Arrays(ring, b)) \in Nat
    BY ArraysTyped DEF RefInv, TypeInv
  <2>2. NotIn(s, b)
    BY DEF NotIn
  <2>3. ResOK(b)' /\ Arrays(ring', b) = Arrays(ring, b)
    <3>1. CASE UNCHANGED ring /\ ~plugged'
      BY <2>1, <3>1, ResGone
    <3>2. CASE UNCHANGED plugged
      BY <2>1, <2>2, <3>2, ResNone
    <3> QED
      BY <3>1, <3>2
  <2>4. Waiting(ring, running, answered, putq, b) \in Nat
    BY HeldTyped, <2>1 DEF Waiting, CountOK
  <2>5. Waiting(ring', running', answered', putq', b) = Waiting(ring, running, answered, putq, b)
    BY <2>3 DEF Waiting
  <2>6. Waiting(ring', running', answered', putq', b) <=
          Waiting(ring, running, answered, putq, b) + (ref'[b] - ref[b])
    BY <2>1, <2>4, <2>5
  <2>7. CountOK(b)'
    BY <2>1, <2>6, CountQueues
  <2> QED
    BY <2>3, <2>7
<1> QED
  BY <1>1, <1>2 DEF RefInv

LEMMA RefFile ==
  ASSUME TypeInv, TypeInv', RefInv, NEW f \in File,
         OpenFile(f) \/ CloseHandle(f) \/ CloseFile(f) \/ PostClose(f)
  PROVE  RefInv'
<1>1. CASE CloseHandle(f) \/ CloseFile(f)
  <2>1. UNCHANGED <<plugged, hostRes, running, answered, putq, th, sub>>
    BY <1>1, Zenon DEF CloseHandle, CloseFile, hostVars
  <2>2. PICK B : B \subseteq handles[f] /\ CloseHandles(f, B)
    <3>1. CASE CloseHandle(f)
      <4>1. PICK b \in handles[f] : CloseHandles(f, {b})
        BY <3>1, Zenon DEF CloseHandle
      <4> QED
        BY <4>1
    <3>2. CASE CloseFile(f)
      BY <3>2, Zenon DEF CloseFile
    <3> QED
      BY <1>1, <3>1, <3>2
  <2>3. B \in SUBSET Bo
    BY <2>2, FileFields
  <2> QED
    BY <2>1, <2>2, <2>3, RefClose
<1>2. CASE OpenFile(f) \/ PostClose(f)
  <2>1. UNCHANGED <<plugged, hostRes, ref, handles, th, sub, running, answered, putq>>
    BY <1>2, Zenon DEF OpenFile, PostClose, boVars, hostVars
  <2>2. \/ UNCHANGED ring
        \/ Queue(IF file[f].created THEN <<CmdContextDestroy(file[f].id)>> ELSE <<>>)
    BY <1>2, Zenon DEF OpenFile, PostClose
  <2>3. PICK s : s = IF file[f].created THEN <<CmdContextDestroy(file[f].id)>> ELSE <<>>
    OBVIOUS
  <2>4. PICK c : c = CmdContextDestroy(file[f].id)
    OBVIOUS
  <2>5. {} \in SUBSET Bo /\ file[f].id \in Nat
    BY FileFields
  <2>6. c \in Commands /\ c.bos = {} /\ c.job = 0
    BY <2>4, <2>5, CmdFacts DEF CmdContextDestroy
  <2>7. s \in Seq(Commands) /\ \A l \in 1 .. Len(s) : s[l] = c
    <3>1. s = <<c>> \/ s = <<>>
      BY <2>3, <2>4
    <3>2. CASE s = <<c>>
      BY <2>6, <3>2
    <3>3. CASE s = <<>>
      BY <3>3
    <3> QED
      BY <3>1, <3>2, <3>3
  <2>8. Queue(s) \/ UNCHANGED ring
    BY <2>2, <2>3
  <2>9. plugged' \/ UNCHANGED ring
    BY <2>1, <2>8 DEF Queue
  <2> QED
    BY <2>1, <2>6, <2>7, <2>8, <2>9, RefStill
<1> QED
  BY <1>1, <1>2

LEMMA RefUnplug ==
  ASSUME TypeInv, TypeInv', RefInv, Unplug \/ UNCHANGED vars
  PROVE  RefInv'
<1>1. /\ UNCHANGED <<ring, hostRes, ref, handles, th, sub, running, answered, putq>>
      /\ UNCHANGED plugged \/ ~plugged'
  BY Zenon DEF Unplug, vars, fileVars, boVars, hostVars
<1>2. PICK s : s = <<>>
  OBVIOUS
<1>3. s \in Seq(Commands) /\ \A l \in 1 .. Len(s) : s[l].bos = {} /\ s[l].job = 0
  BY <1>2
<1> QED
  BY <1>1, <1>3, RefStill

(* obj_free_work and the dequeue work. *)
LEMMA RefFree ==
  ASSUME TypeInv, TypeInv', RefInv, FreeWork
  PROVE  RefInv'
<1>1. /\ UNCHANGED <<plugged, hostRes, handles, th, sub, running, answered>> /\ putq # <<>>
      /\ putq' = Tail(putq) /\ Queue(Unrefs(Head(putq))) /\ Put(Head(putq))
  BY Zenon DEF FreeWork, fileVars, hostVars
<1>2. PICK B : B = Head(putq)
  OBVIOUS
<1>3. putq \in Seq(SUBSET Bo)
  BY DEF TypeInv
<1>4. B \in SUBSET Bo /\ 1 \in 1 .. Len(putq) /\ B = putq[1]
  BY <1>1, <1>2, <1>3, ReadFacts
<1>5. Queue(Unrefs(B)) /\ Put(B)
  BY <1>1, <1>2
<1>6. ArrayInv'
  BY <1>1, <1>4, <1>5, ArrayKept, PutPlain DEF RefInv, ArrayRing
<1>7. ASSUME NEW b \in Bo
      PROVE  ResOK(b)' /\ CountOK(b)'
  <2>1. ResOK(b) /\ CountOK(b) /\ ref[b] \in Int
    BY DEF RefInv, TypeInv
  <2>2. b \in B => Held(b) > 0 /\ ref[b] > 0
    BY <1>4, <2>1, HeldBy
  <2>3. /\ ResOK(b)' /\ ref'[b] = ref[b] - One(b \in B)
        /\ Cardinality(Arrays(ring', b)) = Cardinality(Arrays(ring, b))
    BY <1>1, <1>4, <1>5, <2>1, <2>2, ResPut
  <2>4. Cardinality(Puts(putq', b)) = Cardinality(Puts(putq, b)) - One(b \in B)
    BY <1>1, <1>2, <1>3, PutsTail
  <2>5. PICK a, r, s, p, v : /\ a = Cardinality(Arrays(ring, b)) /\ r = Cardinality(Arrays(running, b))
                             /\ s = Cardinality(Arrays(answered, b)) /\ p = Cardinality(Puts(putq, b))
                             /\ v = One(b \in B)
    OBVIOUS
  <2>6. a \in Nat /\ r \in Nat /\ s \in Nat /\ p \in Nat /\ v \in Int
    BY <2>1, <2>5, HeldTyped DEF CountOK, One
  <2>7. /\ Waiting(ring, running, answered, putq, b) = a + r + s + p
        /\ Waiting(ring', running', answered', putq', b) = a + r + s + (p - v)
        /\ ref'[b] = ref[b] - v
    BY <1>1, <2>3, <2>4, <2>5 DEF Waiting
  <2>8. Waiting(ring', running', answered', putq', b) <=
          Waiting(ring, running, answered, putq, b) + (ref'[b] - ref[b])
    BY <2>1, <2>6, <2>7
  <2>9. Held(b) > 0 \/ ref'[b] = ref[b]
    BY <2>1, <2>2, <2>3 DEF One
  <2>10. CountOK(b)'
    BY <1>1, <2>1, <2>8, <2>9, CountQueues
  <2> QED
    BY <2>3, <2>10
<1> QED
  BY <1>6, <1>7 DEF RefInv

LEMMA RefDequeue ==
  ASSUME TypeInv, TypeInv', RefInv, Dequeue
  PROVE  RefInv'
<1>1. /\ UNCHANGED <<plugged, hostRes, ref, handles, th, sub, ring, running>> /\ answered # <<>>
      /\ answered' = Tail(answered)
      /\ putq' = IF Head(answered).bos = {} THEN putq ELSE Append(putq, Head(answered).bos)
  BY Zenon DEF Dequeue, fileVars, boVars, hostVars
<1>2. PICK c, q : c = Head(answered) /\ q = answered'
  OBVIOUS
<1>3. answered \in Seq(Commands) /\ putq \in Seq(SUBSET Bo)
  BY DEF TypeInv
<1>4. /\ c \in Commands /\ 1 \in 1 .. Len(answered) /\ c = answered[1]
      /\ \A k \in 1 .. Len(q) : k + 1 \in 1 .. Len(answered) /\ q[k] = answered[k + 1]
  BY <1>1, <1>2, <1>3, ReadFacts
<1>5. c.bos \in SUBSET Bo /\ IsArray(c)
  BY <1>4 DEF Commands, RefInv, ArrayInv
<1>6. ArrayInv'
  <2>1. \A k \in 1 .. Len(q) : IsArray(q[k])
    BY <1>4 DEF RefInv, ArrayInv
  <2> QED
    BY <1>1, <1>2, <2>1 DEF RefInv, ArrayInv, IsArray
<1>7. ASSUME NEW b \in Bo
      PROVE  ResOK(b)' /\ CountOK(b)'
  <2>1. ResOK(b) /\ CountOK(b) /\ ref[b] \in Int /\ ref'[b] = ref[b]
    BY <1>1 DEF RefInv, TypeInv
  <2>2. ResOK(b)'
    BY <1>1, <2>1 DEF ResOK
  <2>3. Cardinality(Arrays(answered', b)) = Cardinality(Arrays(answered, b)) - One(b \in c.bos)
    <3>1. Cardinality(Arrays(Tail(answered), b)) =
            Cardinality(Arrays(answered, b)) - One(IsArray(Head(answered)) /\ b \in Head(answered).bos)
      BY <1>1, <1>3, ArraysTail
    <3>2. One(IsArray(Head(answered)) /\ b \in Head(answered).bos) = One(b \in c.bos)
      BY <1>2, <1>5 DEF One
    <3> QED
      BY <1>1, <3>1, <3>2
  <2>4. PICK a, r, s, p, v : /\ a = Cardinality(Arrays(ring, b)) /\ r = Cardinality(Arrays(running, b))
                             /\ s = Cardinality(Arrays(answered, b)) /\ p = Cardinality(Puts(putq, b))
                             /\ v = One(b \in c.bos)
    OBVIOUS
  <2>5. a \in Nat /\ r \in Nat /\ s \in Nat /\ p \in Nat /\ v \in Int
    BY <2>1, <2>4, HeldTyped DEF CountOK, One
  <2>6. Cardinality(Puts(putq', b)) = p + v
    <3>1. CASE c.bos = {}
      BY <1>1, <1>2, <2>4, <2>5, <3>1 DEF One
    <3>2. CASE c.bos # {}
      <4>1. PICK B \in SUBSET Bo : B = c.bos
        BY <1>5
      <4>2. putq' = Append(putq, B)
        BY <1>1, <1>2, <3>2, <4>1
      <4> QED
        BY <1>3, <2>4, <4>1, <4>2, PutsAppend
    <3> QED
      BY <3>1, <3>2
  <2>7. /\ Waiting(ring, running, answered, putq, b) = a + r + s + p
        /\ Waiting(ring', running', answered', putq', b) = a + r + (s - v) + (p + v)
    BY <1>1, <2>3, <2>4, <2>6 DEF Waiting
  <2>8. Waiting(ring', running', answered', putq', b) <=
          Waiting(ring, running, answered, putq, b) + (ref'[b] - ref[b])
    BY <2>1, <2>5, <2>7
  <2>9. CountOK(b)'
    BY <1>1, <2>1, <2>8, CountQueues
  <2> QED
    BY <2>2, <2>9
<1> QED
  BY <1>6, <1>7 DEF RefInv

(* The host. *)
LEMMA ResRead ==
  ASSUME TypeInv, NEW b \in Bo, ResOK(b), UNCHANGED <<plugged, ref>>, HostRead
  PROVE  ResOK(b)'
<1>1. ring # <<>> /\ ring' = Tail(ring) /\ ring \in Seq(Commands)
  BY Zenon DEF HostRead, TypeInv
<1>2. PICK q, h, c : q = ring' /\ h = hostRes' /\ c = Head(ring)
  OBVIOUS
<1>3. /\ q = Tail(ring) /\ Len(q) = Len(ring) - 1 /\ Len(ring) \in Nat /\ Len(ring) >= 1
      /\ \A k \in 1 .. Len(q) : k + 1 \in 1 .. Len(ring) /\ q[k] = ring[k + 1]
  BY <1>1, <1>2, ReadFacts
<1>4. b \in h <=> (b \in hostRes \/ Is(c, "CREATE", b)) /\ ~Is(c, "UNREF", b)
  <2>1. h = CASE c.op = "CREATE" -> hostRes \cup c.bos
              [] c.op = "UNREF"  -> hostRes \ c.bos
              [] OTHER           -> hostRes
    BY <1>2, Zenon DEF HostRead
  <2> QED
    BY <2>1 DEF Is, Names
<1>5. ASSUME NEW k \in Nat, k >= 1
      PROVE  ResAt(h, q, b, k) <=> ResAt(hostRes, ring, b, k + 1)
  BY <1>1, <1>2, <1>3, <1>4, <1>5, ThereRead DEF ResAt
<1>6. ASSUME NEW k \in 1 .. Len(q), b \in q[k].bos
      PROVE  ResAt(h, q, b, k) <=> q[k].op # "CREATE"
  <2>1. k \in Nat /\ k >= 1 /\ k + 1 \in 1 .. Len(ring) /\ q[k] = ring[k + 1]
    BY <1>3
  <2> QED
    BY <1>5, <1>6, <2>1 DEF ResOK
<1>7. ResAt(h, q, b, Len(q) + 1) <=> ResAt(hostRes, ring, b, Len(ring) + 1)
  <2>1. PICK k \in Nat : k = Len(q) + 1 /\ k >= 1 /\ k + 1 = Len(ring) + 1
    BY <1>3
  <2> QED
    BY <1>5, <2>1
<1> QED
  BY <1>2, <1>6, <1>7 DEF ResOK

LEMMA RefRead ==
  ASSUME TypeInv, TypeInv', RefInv, HostRead
  PROVE  RefInv'
<1>1. UNCHANGED <<plugged, ref, handles, th, sub, putq>> /\ ring # <<>> /\ ring' = Tail(ring)
  BY Zenon DEF HostRead, fileVars, boVars
<1>2. PICK c, q : c = Head(ring) /\ q = ring'
  OBVIOUS
<1>3. ring \in Seq(Commands) /\ running \in Seq(Commands) /\ answered \in Seq(Commands)
  BY DEF TypeInv
<1>4. /\ c \in Commands /\ 1 \in 1 .. Len(ring) /\ c = ring[1]
      /\ \A k \in 1 .. Len(q) : k + 1 \in 1 .. Len(ring) /\ q[k] = ring[k + 1]
  BY <1>1, <1>2, <1>3, ReadFacts
<1>5. /\ running' = IF c.job = 0 THEN running ELSE Append(running, c)
      /\ answered' = IF c.job = 0 /\ c.op \in {"ATTACH", "DETACH", "SUBMIT"}
                     THEN Append(answered, c) ELSE answered
  BY <1>2, Zenon DEF HostRead
<1>6. c.job # 0 => IsArray(c)
  BY <1>4 DEF RefInv, ArrayInv, IsArray
<1>7. c.op \in {"ATTACH", "DETACH", "SUBMIT"} => IsArray(c)
  BY DEF IsArray
<1>8. ArrayInv'
  <2>1. \A k \in 1 .. Len(q) : q[k].op = "UNREF" => q[k].job = 0
    BY <1>4 DEF RefInv, ArrayInv
  <2>2. PICK r, a : r = running' /\ a = answered'
    OBVIOUS
  <2>3. \A k \in 1 .. Len(r) : IsArray(r[k]) /\ r[k].job # 0
    <3>1. CASE c.job = 0
      BY <1>5, <2>2, <3>1 DEF RefInv, ArrayInv
    <3>2. CASE c.job # 0
      <4>1. r = Append(running, c)
        BY <1>5, <2>2, <3>2
      <4>2. /\ r[Len(running) + 1] = c
            /\ \A k \in 1 .. Len(running) : r[k] = running[k]
            /\ \A k \in 1 .. Len(r) : k \in 1 .. Len(running) \/ k = Len(running) + 1
        BY <1>3, <1>4, <4>1, AppendFacts
      <4> QED
        BY <1>6, <3>2, <4>2 DEF RefInv, ArrayInv
    <3> QED
      BY <3>1, <3>2
  <2>4. \A k \in 1 .. Len(a) : IsArray(a[k])
    <3>1. CASE a = answered
      BY <3>1 DEF RefInv, ArrayInv
    <3>2. CASE a = Append(answered, c) /\ IsArray(c)
      <4>2. /\ a[Len(answered) + 1] = c
            /\ \A k \in 1 .. Len(answered) : a[k] = answered[k]
            /\ \A k \in 1 .. Len(a) : k \in 1 .. Len(answered) \/ k = Len(answered) + 1
        BY <1>3, <1>4, <3>2, AppendFacts
      <4> QED
        BY <3>2, <4>2 DEF RefInv, ArrayInv
    <3> QED
      BY <1>5, <1>7, <2>2, <3>1, <3>2
  <2> QED
    BY <1>2, <2>1, <2>2, <2>3, <2>4 DEF ArrayInv, IsArray
<1>9. ASSUME NEW b \in Bo
      PROVE  ResOK(b)' /\ CountOK(b)'
  <2>1. ResOK(b) /\ CountOK(b) /\ ref[b] \in Int /\ ref'[b] = ref[b]
    BY <1>1 DEF RefInv, TypeInv
  <2>2. ResOK(b)'
    BY <1>1, <2>1, ResRead
  <2>3. PICK a, r, s, p, v : /\ a = Cardinality(Arrays(ring, b)) /\ r = Cardinality(Arrays(running, b))
                             /\ s = Cardinality(Arrays(answered, b)) /\ p = Cardinality(Puts(putq, b))
                             /\ v = One(IsArray(c) /\ b \in c.bos)
    OBVIOUS
  <2>4. a \in Nat /\ r \in Nat /\ s \in Nat /\ p \in Nat /\ v \in Nat
    BY <2>1, <2>3, HeldTyped DEF CountOK, One
  <2>5. Cardinality(Arrays(ring', b)) = a - v
    BY <1>1, <1>2, <1>3, <2>3, ArraysTail
  <2>6. /\ Cardinality(Arrays(Append(running, c), b)) = r + v
        /\ Cardinality(Arrays(Append(answered, c), b)) = s + v
    BY <1>3, <1>4, <2>3, ArraysAppend
  <2>7. \/ Cardinality(Arrays(running', b)) = r /\ Cardinality(Arrays(answered', b)) = s
        \/ Cardinality(Arrays(running', b)) = r + v /\ Cardinality(Arrays(answered', b)) = s
        \/ Cardinality(Arrays(running', b)) = r /\ Cardinality(Arrays(answered', b)) = s + v
    BY <1>5, <2>3, <2>6
  <2>8. PICK x, y : x = Cardinality(Arrays(running', b)) /\ y = Cardinality(Arrays(answered', b))
    OBVIOUS
  <2>9. /\ Waiting(ring, running, answered, putq, b) = a + r + s + p
        /\ Waiting(ring', running', answered', putq', b) = (a - v) + x + y + p
        /\ x \in Nat /\ y \in Nat /\ x + y <= r + s + v
    <3>1. (x = r /\ y = s) \/ (x = r + v /\ y = s) \/ (x = r /\ y = s + v)
      BY <2>7, <2>8
    <3>2. x \in Nat /\ y \in Nat /\ x + y <= r + s + v
      BY <2>4, <3>1
    <3>3. Waiting(ring, running, answered, putq, b) = a + r + s + p
      BY <2>3 DEF Waiting
    <3>4. Waiting(ring', running', answered', putq', b) = (a - v) + x + y + p
      BY <1>1, <2>3, <2>5, <2>8 DEF Waiting
    <3> QED
      BY <3>2, <3>3, <3>4
  <2>10. Waiting(ring', running', answered', putq', b) <=
           Waiting(ring, running, answered, putq, b) + (ref'[b] - ref[b])
    BY <2>1, <2>4, <2>9
  <2>11. CountOK(b)'
    BY <1>1, <2>1, <2>10, CountQueues
  <2> QED
    BY <2>2, <2>11
<1> QED
  BY <1>8, <1>9 DEF RefInv

LEMMA RefFinish ==
  ASSUME TypeInv, TypeInv', RefInv, HostFinish
  PROVE  RefInv'
<1>1. UNCHANGED <<plugged, hostRes, ref, handles, th, sub, putq, ring>>
  BY Zenon DEF HostFinish, fileVars, boVars
<1>2. PICK i \in DOMAIN running : answered' = Append(answered, running[i]) /\ running' = RemoveAt(running, i)
  BY Zenon DEF HostFinish
<1>3. ring \in Seq(Commands) /\ running \in Seq(Commands) /\ answered \in Seq(Commands) /\ i \in 1 .. Len(running)
  BY <1>2 DEF TypeInv
<1>4. PICK c, q, a : c = running[i] /\ q = running' /\ a = answered'
  OBVIOUS
<1>5. /\ q \in Seq(Commands) /\ Len(q) = Len(running) - 1
      /\ \A k \in 1 .. Len(q) : q[k] = running[Skip(k, i)] /\ Skip(k, i) \in 1 .. Len(running)
  BY <1>2, <1>3, <1>4, RemoveFacts
<1>6. c \in Commands /\ IsArray(c) /\ a = Append(answered, c)
  BY <1>2, <1>3, <1>4 DEF RefInv, ArrayInv
<1>7. ArrayInv'
  <2>1. \A k \in 1 .. Len(q) : IsArray(q[k]) /\ q[k].job # 0
    BY <1>5 DEF RefInv, ArrayInv
  <2>2. /\ a[Len(answered) + 1] = c
        /\ \A k \in 1 .. Len(answered) : a[k] = answered[k]
        /\ \A k \in 1 .. Len(a) : k \in 1 .. Len(answered) \/ k = Len(answered) + 1
    BY <1>3, <1>6, AppendFacts
  <2>3. \A k \in 1 .. Len(a) : IsArray(a[k])
    BY <1>6, <2>2 DEF RefInv, ArrayInv
  <2> QED
    BY <1>1, <1>4, <2>1, <2>3 DEF RefInv, ArrayInv, IsArray
<1>8. ASSUME NEW b \in Bo
      PROVE  ResOK(b)' /\ CountOK(b)'
  <2>1. ResOK(b) /\ CountOK(b) /\ ref[b] \in Int /\ ref'[b] = ref[b]
    BY <1>1 DEF RefInv, TypeInv
  <2>2. ResOK(b)'
    BY <1>1, <2>1 DEF ResOK
  <2>3. PICK e, r, s, p, v : /\ e = Cardinality(Arrays(ring, b)) /\ r = Cardinality(Arrays(running, b))
                             /\ s = Cardinality(Arrays(answered, b)) /\ p = Cardinality(Puts(putq, b))
                             /\ v = One(IsArray(c) /\ b \in c.bos)
    OBVIOUS
  <2>4. e \in Nat /\ r \in Nat /\ s \in Nat /\ p \in Nat /\ v \in Nat
    BY <2>1, <2>3, HeldTyped DEF CountOK, One
  <2>5. Cardinality(Arrays(q, b)) = r - v
    <3>1. PICK g \in Seq(Commands) : g = running /\ i \in 1 .. Len(g)
      BY <1>3
    <3>2. /\ Len(q) = Len(g) - 1
          /\ \A k \in 1 .. Len(q) : q[k] = g[Skip(k, i)] /\ Skip(k, i) \in 1 .. Len(g)
      BY <1>5, <3>1
    <3>3. Cardinality(Arrays(q, b)) = Cardinality(Arrays(g, b)) - One(IsArray(g[i]) /\ b \in g[i].bos)
      BY <1>5, <3>1, <3>2, ArraysGone
    <3> QED
      BY <1>4, <2>3, <3>1, <3>3
  <2>6. Cardinality(Arrays(a, b)) = s + v
    BY <1>3, <1>6, <2>3, ArraysAppend
  <2>7. /\ Waiting(ring, running, answered, putq, b) = e + r + s + p
        /\ Waiting(ring', running', answered', putq', b) = e + (r - v) + (s + v) + p
    BY <1>1, <1>4, <2>3, <2>5, <2>6 DEF Waiting
  <2>8. Waiting(ring', running', answered', putq', b) <=
          Waiting(ring, running, answered, putq, b) + (ref'[b] - ref[b])
    BY <2>1, <2>4, <2>7
  <2>9. CountOK(b)'
    BY <1>1, <2>1, <2>8, CountQueues
  <2> QED
    BY <2>2, <2>9
<1> QED
  BY <1>7, <1>8 DEF RefInv

LEMMA RefStep ==
  ASSUME TypeInv, LocalInv, TypeInv', RefInv, [Next]_vars
  PROVE  RefInv'
<1>1. ASSUME NEW t \in Thread, Call(t) \/ Import(t) \/ ThreadNext(t)
      PROVE  RefInv'
  BY <1>1, RefCtx, RefImport, RefCreate, RefHandle, RefAttach, RefInit, RefWait, RefSubmit, RefCleanup
     DEF ThreadNext
<1> QED
  BY <1>1, RefFile, RefRead, RefFinish, RefDequeue, RefFree, RefUnplug DEF Next, HostNext, WorkNext

LEMMA InitRef ==
  ASSUME Init
  PROVE  RefInv
<1>1. /\ handles = [f \in File |-> {}] /\ ref = [b \in Bo |-> -1] /\ sub = [t \in Thread |-> NoSubmit]
      /\ ring = <<>> /\ running = <<>> /\ answered = <<>> /\ putq = <<>> /\ hostRes = {}
  BY DEF Init
<1>2. ArrayInv
  BY <1>1 DEF ArrayInv
<1>3. ASSUME NEW b \in Bo
      PROVE  ResOK(b) /\ CountOK(b)
  <2>1. HandlesOf(handles, b) = {} /\ ThreadsOf(th, sub, b) = {}
    BY <1>1 DEF HandlesOf, ThreadsOf, Works, NoSubmit
  <2>2. Len(ring) = 0 /\ Len(running) = 0 /\ Len(answered) = 0 /\ Len(putq) = 0 /\ ref[b] = -1
    BY <1>1
  <2>3. Arrays(ring, b) = {} /\ Arrays(running, b) = {} /\ Arrays(answered, b) = {} /\ Puts(putq, b) = {}
    BY <2>2 DEF Arrays, Puts
  <2>4. IsFiniteSet({}) /\ Cardinality({}) = 0
    BY FS_EmptySet
  <2>5. Held(b) = 0
    BY <2>1, <2>3, <2>4 DEF Held
  <2>6. CountOK(b)
    BY <2>1, <2>2, <2>4, <2>5 DEF CountOK
  <2>7. ResOK(b)
    BY <1>1, <2>2 DEF ResOK, ResAt, ThereAt
  <2> QED
    BY <2>6, <2>7
<1> QED
  BY <1>2, <1>3 DEF RefInv

(***************************************************************************)
(* No command names a resource after its RESOURCE_UNREF. Each handle, each *)
(* thread at work, each array in a command and each array that waits for   *)
(* obj_free_work has a reference of its own (RefInv counts them), so the   *)
(* reference that drm_gem_object_put finds to be the last one is, and the  *)
(* unref it queues comes after every command that names the object.        *)
(***************************************************************************)
THEOREM UnrefSafety == Spec => []UnrefLast
<1>1. Init => RefInv
  BY InitRef
<1>2. TypeInv /\ LocalInv /\ TypeInv' /\ RefInv /\ [Next]_vars => RefInv'
  BY RefStep
<1>3. TypeInv /\ RefInv => UnrefLast
  <2> SUFFICES ASSUME TypeInv, RefInv, ring # <<>>, NEW c, c = Head(ring), NEW b \in c.bos
               PROVE  b \in (IF c.op = "CREATE" THEN Bo \ hostRes ELSE hostRes)
    BY DEF UnrefLast
  <2>1. 1 \in 1 .. Len(ring) /\ c = ring[1] /\ c \in Commands
    BY ReadFacts DEF TypeInv
  <2>2. b \in Bo
    BY <2>1 DEF Commands
  <2>3. ResAt(hostRes, ring, b, 1) <=> b \in hostRes
    BY DEF ResAt, ThereAt
  <2>4. ResAt(hostRes, ring, b, 1) <=> c.op # "CREATE"
    BY <2>1, <2>2 DEF RefInv, ResOK
  <2> QED
    BY <2>2, <2>3, <2>4
<1> QED
  BY <1>1, <1>2, <1>3, SpecLocal, PTL DEF Spec
=============================================================================
