---------------------------- MODULE ScanoutProofs ---------------------------
(***************************************************************************)
(* Proofs about the CRTC and the imported objects it shows, for any        *)
(* objects, any number of commits and of moves.                            *)
(***************************************************************************)
EXTENDS Scanout, FiniteSetTheorems, TLAPS

Ops == {"SCANOUT", "FLUSH", "TRANSFER", "ATTACH", "DETACH", "UNREF"}

Shown == Obj \cup {None}

Command == [op : Ops, o : Shown, n : Nat, fence : Nat]

Import ==
  [life : {"none", "held", "released", "freed"}, pins : Int, sgt : Nat, attached : BOOLEAN,
   lock : {"none", "exporter", "free"}, fence : Nat, kept : BOOLEAN]

Commit ==
  [op : {"primary", "cursor"}, fb : Shown, active : BOOLEAN, old : Shown, modeset : BOOLEAN,
   pc : {"modeset", "update", "cursor", "wait", "ping", "flush"}, fence : Nat]

TypeInv ==
  /\ plugged \in BOOLEAN
  /\ cur \in [fb : Shown, cursor : Shown \ Imported, active : BOOLEAN]
  /\ needsModeset \in BOOLEAN
  /\ prep \subseteq Commit /\ tail \subseteq Commit
  /\ trash \in Seq(Imported)
  /\ imp \in [Imported -> Import]
  /\ gen \in [Imported -> Nat \ {0}]
  /\ ring \in Seq(Command)
  /\ cursorRing \in Seq([o : Shown, image : Nat])
  /\ answered \in Seq(Nat)
  /\ signaled \subseteq Nat /\ fences \in Nat
  /\ hostScan \in Shown
  /\ backing \in [Imported -> Nat]
  /\ uploaded \in Nat

(* One commit is prepared and one carried out at a time, and the latter's  *)
(* state is the current one.                                               *)
CommitInv ==
  /\ \A c, d \in prep : c = d
  /\ \A c, d \in tail : c = d
  /\ \A c \in prep :
       /\ c.old = None /\ c.fence = 0
       /\ IF c.op = "primary" THEN c.pc = "modeset"
          ELSE c.pc = "cursor" /\ ~c.modeset /\ c.fb \notin Imported
  /\ \A c \in tail :
       IF c.op = "primary"
       THEN c.pc \in {"modeset", "update", "flush"} /\ c.fb = cur.fb /\ c.active = cur.active
       ELSE /\ c.pc \in {"cursor", "wait", "ping", "flush"} /\ ~c.modeset
            /\ c.fb \notin Imported /\ c.old \notin Imported

Is(c, ops, i)    == c.op \in ops /\ c.o = i
Free(q, ops, i)  == \A k \in 1 .. Len(q) : ~Is(q[k], ops, i)

(* What is in the ring: current pages, but for an object that kept its     *)
(* old ones, and fences that were allocated.                               *)
RingInv ==
  /\ \A k \in 1 .. Len(ring) :
       /\ ring[k].op \in {"DETACH", "UNREF"} => ring[k].n = 0
       /\ ring[k].op = "ATTACH" =>
            /\ ring[k].o \in Imported /\ ring[k].n # 0
            /\ ring[k].n = gen[ring[k].o] \/ imp[ring[k].o].kept
       /\ ring[k].op \in {"DETACH", "UNREF"} => ring[k].o \in Imported
       /\ ring[k].fence <= fences
  /\ \A k \in 1 .. Len(answered) : answered[k] <= fences
  /\ \A f \in signaled : f <= fences

(* The host neither has the object's pages nor will hear of them.          *)
Quiet(i) == backing[i] = 0 /\ Free(ring, {"ATTACH", "DETACH"}, i)

Back(f) == f \in signaled \/ \E k \in 1 .. Len(answered) : answered[k] = f

(* A detach on its way is the last the host hears of the pages.            *)
DetachInv(i) ==
  LET f == imp[i].fence
  IN  /\ f <= fences
      /\ Back(f) => Quiet(i)
      /\ \A k \in 1 .. Len(ring) : ring[k].fence = f =>
           /\ Is(ring[k], {"DETACH"}, i)
           /\ \A l \in 1 .. Len(ring) : l > k => ~Is(ring[l], {"ATTACH", "DETACH"}, i)

AttachInv(i) ==
  /\ backing[i] # 0 \/ ~Free(ring, {"ATTACH"}, i)
  /\ Free(ring, {"DETACH", "UNREF"}, i)

Page(i) ==
  /\ backing[i] \in {0, gen[i]} \/ imp[i].kept
  /\ imp[i].lock = "none" /\ imp[i].life # "freed" =>
       (imp[i].attached <=> imp[i].sgt # 0 \/ imp[i].kept)
  /\ imp[i].lock # "none" /\ imp[i].attached => imp[i].fence = 0
  /\ ~imp[i].attached /\ (imp[i].lock = "none" \/ imp[i].fence = 0) =>
       Quiet(i) \/ (imp[i].life = "freed" /\ imp[i].kept)
  /\ imp[i].lock # "none" /\ imp[i].fence # 0 => DetachInv(i)
  /\ imp[i].attached => AttachInv(i)

PageInv == \A i \in Imported : Page(i)

Life(i) ==
  /\ imp[i].life \in {"none", "freed"} => ~imp[i].attached /\ imp[i].lock = "none"
  /\ imp[i].life # "freed" => Free(ring, {"UNREF"}, i)

LifeInv == \A i \in Imported : Life(i)

(* Who holds a pin: one for each place a framebuffer of the primary plane  *)
(* is in.                                                                  *)
Bit(b) == IF b THEN 1 ELSE 0
Places(q, i) == {k \in 1 .. Len(q) : q[k] = i}

PinsOf(i) ==
  Bit(cur.fb = i) + Bit(\E c \in prep : c.op = "primary" /\ c.fb = i)
  + Bit(\E c \in tail : c.op = "primary" /\ c.old = i) + Cardinality(Places(trash, i))

PinInv == \A i \in Imported : imp[i].pins = PinsOf(i)

UseInv ==
  \A i \in Imported :
    /\ InUse(i) => imp[i].attached
    /\ imp[i].lock # "none" => ~InUse(i)
    /\ imp[i].lock = "free" => imp[i].life = "released"

(* x is on the screen of a host that shows h when it gets to the k-th      *)
(* command of q, or has read all of it.                                    *)
ShownAt(h, q, x, k) ==
  \/ h = x /\ \A l \in 1 .. Len(q) : l < k => q[l].op # "SCANOUT"
  \/ \E m \in 1 .. Len(q) :
       /\ m < k /\ Is(q[m], {"SCANOUT"}, x)
       /\ \A l \in 1 .. Len(q) : m < l /\ l < k => q[l].op # "SCANOUT"

Final(h, q, x) == ShownAt(h, q, x, Len(q) + 1)

Finally(x) == Final(hostScan, ring, x)

Early == \E c \in tail : c.pc \in {"modeset", "update"}

FollowInv ==
  plugged =>
    /\ ~Early => \/ Finally(IF cur.active THEN cur.fb ELSE None)
                 \/ needsModeset
                 \/ \E c \in tail : c.modeset
    /\ \A c \in tail : c.pc \in {"modeset", "update"} =>
         \/ Finally(IF c.active THEN c.old ELSE None)
         \/ needsModeset
         \/ c.modeset
    /\ \A i \in Imported : Finally(i) =>
         \/ cur.fb = i
         \/ \E c \in tail : c.pc \in {"modeset", "update"} /\ c.old = i

(* Nothing is shown or flushed before its pages are attached, or detached  *)
(* while it is on the screen.                                              *)
Show(i) ==
  /\ hostScan = i => backing[i] # 0
  /\ \A k \in 1 .. Len(ring) : Is(ring[k], {"SCANOUT", "FLUSH"}, i) =>
       /\ backing[i] # 0 \/ \E l \in 1 .. Len(ring) : l < k /\ Is(ring[l], {"ATTACH"}, i)
       /\ \A l \in 1 .. Len(ring) : l < k => ~Is(ring[l], {"DETACH", "UNREF"}, i)
  /\ \A k \in 1 .. Len(ring) :
       Is(ring[k], {"DETACH", "UNREF"}, i) => ~ShownAt(hostScan, ring, i, k)

ShowInv == \A i \in Imported : Show(i)

Upload(c) == c.op = "TRANSFER" /\ c.fence # 0

(* Uploads reach the host in the order of their fences, and a commit that  *)
(* has waited for one has it there.                                        *)
UploadRing ==
  /\ uploaded <= fences
  /\ \A k \in 1 .. Len(ring) : Upload(ring[k]) => uploaded < ring[k].fence
  /\ \A k, l \in 1 .. Len(ring) :
       k < l /\ Upload(ring[k]) /\ Upload(ring[l]) => ring[k].fence < ring[l].fence

UploadWait(c) ==
  /\ c.pc = "wait" =>
       /\ c.fence # 0 /\ c.fence <= fences
       /\ Back(c.fence) => c.fence <= uploaded
       /\ \A k \in 1 .. Len(ring) : ring[k].fence = c.fence => ring[k].op = "TRANSFER"
  /\ c.pc = "ping" => c.fence <= uploaded
  /\ c.pc = "cursor" => c.fence = 0

UploadInv ==
  /\ UploadRing
  /\ \A c \in tail : UploadWait(c)
  /\ \A k \in 1 .. Len(cursorRing) : cursorRing[k].image <= uploaded
-----------------------------------------------------------------------------
(* Queues: commands are put at the end and read from the front. *)
LEMMA PushFacts ==
  ASSUME NEW S, NEW q \in Seq(S), NEW s \in Seq(S)
  PROVE  /\ q \o s \in Seq(S) /\ Len(q \o s) = Len(q) + Len(s)
         /\ Len(q) \in Nat /\ Len(s) \in Nat
         /\ \A k \in 1 .. Len(q) : k \in 1 .. Len(q \o s) /\ (q \o s)[k] = q[k]
         /\ \A k \in 1 .. Len(s) :
              Len(q) + k \in 1 .. Len(q \o s) /\ (q \o s)[Len(q) + k] = s[k]
         /\ \A k \in 1 .. Len(q \o s) :
              \/ k \in 1 .. Len(q) /\ (q \o s)[k] = q[k]
              \/ k - Len(q) \in 1 .. Len(s) /\ k > Len(q) /\ (q \o s)[k] = s[k - Len(q)]
  OBVIOUS

LEMMA PushNone ==
  ASSUME NEW S, NEW q \in Seq(S)
  PROVE  q = q \o <<>>
  OBVIOUS

LEMMA ReadFacts ==
  ASSUME NEW S, NEW q \in Seq(S), q # <<>>
  PROVE  /\ Tail(q) \in Seq(S) /\ Len(Tail(q)) = Len(q) - 1 /\ Len(q) \in Nat
         /\ Head(q) = q[1] /\ 1 \in 1 .. Len(q) /\ Head(q) \in S
         /\ \A k \in 1 .. Len(Tail(q)) : k + 1 \in 1 .. Len(q) /\ Tail(q)[k] = q[k + 1]
         /\ \A k \in 1 .. Len(q) :
              k = 1 \/ (k - 1 \in 1 .. Len(Tail(q)) /\ Tail(q)[k - 1] = q[k])
  OBVIOUS

LEMMA PushFree ==
  ASSUME NEW q \in Seq(Command), NEW s \in Seq(Command), NEW ops, NEW i
  PROVE  Free(q \o s, ops, i) <=> Free(q, ops, i) /\ Free(s, ops, i)
<1> DEFINE r == q \o s
<1>1. /\ \A k \in 1 .. Len(q) : k \in 1 .. Len(r) /\ r[k] = q[k]
      /\ \A k \in 1 .. Len(s) : Len(q) + k \in 1 .. Len(r) /\ r[Len(q) + k] = s[k]
      /\ \A k \in 1 .. Len(r) :
           \/ k \in 1 .. Len(q) /\ r[k] = q[k]
           \/ k - Len(q) \in 1 .. Len(s) /\ k > Len(q) /\ r[k] = s[k - Len(q)]
  BY PushFacts
<1> HIDE DEF r
<1>2. ASSUME Free(r, ops, i) PROVE Free(q, ops, i) /\ Free(s, ops, i)
  <2>1. Free(q, ops, i)
    BY <1>1, <1>2 DEF Free
  <2>2. ASSUME NEW k \in 1 .. Len(s) PROVE ~Is(s[k], ops, i)
    <3>1. Len(q) + k \in 1 .. Len(r) /\ r[Len(q) + k] = s[k]
      BY <1>1
    <3>2. ~Is(r[Len(q) + k], ops, i)
      BY <1>2, <3>1 DEF Free
    <3> QED
      BY <3>1, <3>2
  <2> QED
    BY <2>1, <2>2 DEF Free
<1>3. ASSUME Free(q, ops, i), Free(s, ops, i) PROVE Free(r, ops, i)
  BY <1>1, <1>3 DEF Free
<1> QED
  BY <1>2, <1>3 DEF r

LEMMA ReadFree ==
  ASSUME NEW q \in Seq(Command), q # <<>>, NEW ops, NEW i
  PROVE  Free(q, ops, i) <=> ~Is(Head(q), ops, i) /\ Free(Tail(q), ops, i)
<1> DEFINE r == Tail(q)
<1>1. /\ Head(q) = q[1] /\ 1 \in 1 .. Len(q)
      /\ \A k \in 1 .. Len(r) : k + 1 \in 1 .. Len(q) /\ r[k] = q[k + 1]
      /\ \A k \in 1 .. Len(q) : k = 1 \/ (k - 1 \in 1 .. Len(r) /\ r[k - 1] = q[k])
  BY ReadFacts
<1> HIDE DEF r
<1>2. ASSUME Free(q, ops, i) PROVE ~Is(Head(q), ops, i) /\ Free(r, ops, i)
  <2>1. ASSUME NEW k \in 1 .. Len(r) PROVE ~Is(r[k], ops, i)
    <3>1. k + 1 \in 1 .. Len(q) /\ r[k] = q[k + 1]
      BY <1>1
    <3> QED
      BY <1>2, <3>1 DEF Free
  <2> QED
    BY <1>1, <1>2, <2>1 DEF Free
<1>3. ASSUME ~Is(Head(q), ops, i), Free(r, ops, i) PROVE Free(q, ops, i)
  BY <1>1, <1>3 DEF Free
<1> QED
  BY <1>2, <1>3 DEF r

(* What is shown at an old place does not depend on what is put behind.    *)
LEMMA PushShown ==
  ASSUME NEW q \in Seq(Command), NEW s \in Seq(Command), NEW h, NEW x, NEW k \in 1 .. Len(q) + 1
  PROVE  ShownAt(h, q \o s, x, k) <=> ShownAt(h, q, x, k)
<1> DEFINE r == q \o s
<1>1. /\ Len(q) \in Nat
      /\ \A l \in 1 .. Len(q) : l \in 1 .. Len(r) /\ r[l] = q[l]
      /\ \A l \in 1 .. Len(r) :
           \/ l \in 1 .. Len(q) /\ r[l] = q[l]
           \/ l - Len(q) \in 1 .. Len(s) /\ l > Len(q) /\ r[l] = s[l - Len(q)]
  BY PushFacts
<1> HIDE DEF r
<1>2. \A l \in 1 .. Len(r) : l < k => l \in 1 .. Len(q) /\ r[l] = q[l]
  BY <1>1
<1> QED
  BY <1>1, <1>2 DEF ShownAt, r

LEMMA FinalKeep ==
  ASSUME NEW q \in Seq(Command), NEW s \in Seq(Command), NEW h, NEW x,
         \A l \in 1 .. Len(s) : s[l].op # "SCANOUT"
  PROVE  Final(h, q \o s, x) <=> Final(h, q, x)
<1> DEFINE r == q \o s
<1>1. /\ Len(q) \in Nat /\ Len(s) \in Nat /\ Len(r) = Len(q) + Len(s)
      /\ \A l \in 1 .. Len(q) : l \in 1 .. Len(r) /\ r[l] = q[l]
      /\ \A l \in 1 .. Len(r) :
           \/ l \in 1 .. Len(q) /\ r[l] = q[l]
           \/ l - Len(q) \in 1 .. Len(s) /\ l > Len(q) /\ r[l] = s[l - Len(q)]
  BY PushFacts
<1> HIDE DEF r
<1>2. \A l \in 1 .. Len(r) : (l \in 1 .. Len(q) /\ r[l] = q[l]) \/ r[l].op # "SCANOUT"
  BY <1>1
<1>3. \A l \in 1 .. Len(r) : l < Len(r) + 1
  BY <1>1
<1>4. \A l \in 1 .. Len(q) : l < Len(q) + 1
  BY <1>1
<1>5. ASSUME Final(h, r, x) PROVE Final(h, q, x)
  BY <1>1, <1>2, <1>3, <1>4, <1>5 DEF Final, ShownAt, Is
<1>6. ASSUME Final(h, q, x) PROVE Final(h, r, x)
  BY <1>1, <1>2, <1>3, <1>4, <1>6 DEF Final, ShownAt, Is
<1> QED
  BY <1>5, <1>6 DEF r

LEMMA FinalScan ==
  ASSUME NEW q \in Seq(Command), NEW s \in Seq(Command), NEW h, NEW x, NEW p \in 1 .. Len(s),
         s[p].op = "SCANOUT", \A l \in 1 .. Len(s) : l > p => s[l].op # "SCANOUT"
  PROVE  Final(h, q \o s, x) <=> x = s[p].o
<1> DEFINE r == q \o s
           m == Len(q) + p
<1>1. /\ Len(q) \in Nat /\ Len(s) \in Nat /\ Len(r) = Len(q) + Len(s)
      /\ \A l \in 1 .. Len(r) :
           \/ l \in 1 .. Len(q) /\ r[l] = q[l]
           \/ l - Len(q) \in 1 .. Len(s) /\ l > Len(q) /\ r[l] = s[l - Len(q)]
  BY PushFacts
<1>2. m \in 1 .. Len(r) /\ r[m] = s[p]
  BY PushFacts
<1> HIDE DEF r
<1>3. \A l \in 1 .. Len(r) : l > m => r[l].op # "SCANOUT"
  <2> SUFFICES ASSUME NEW l \in 1 .. Len(r), l > m PROVE r[l].op # "SCANOUT"
    OBVIOUS
  <2>1. l - Len(q) \in 1 .. Len(s) /\ r[l] = s[l - Len(q)]
    BY <1>1
  <2>2. l - Len(q) > p
    BY <1>1
  <2> QED
    BY <2>1, <2>2
<1>4. m \in Nat /\ \A l \in 1 .. Len(r) : l < Len(r) + 1
  BY <1>1
<1> HIDE DEF m
<1>5. ASSUME Final(h, r, x) PROVE x = s[p].o
  <2>1. CASE h = x /\ \A l \in 1 .. Len(r) : l < Len(r) + 1 => r[l].op # "SCANOUT"
    BY <1>2, <1>4, <2>1
  <2>2. CASE \E n \in 1 .. Len(r) :
               /\ n < Len(r) + 1 /\ Is(r[n], {"SCANOUT"}, x)
               /\ \A l \in 1 .. Len(r) : n < l /\ l < Len(r) + 1 => r[l].op # "SCANOUT"
    <3>1. PICK n \in 1 .. Len(r) :
               /\ n < Len(r) + 1 /\ Is(r[n], {"SCANOUT"}, x)
               /\ \A l \in 1 .. Len(r) : n < l /\ l < Len(r) + 1 => r[l].op # "SCANOUT"
      BY <2>2
    <3>2. ~(n < m)
      BY <1>2, <1>4, <3>1
    <3>3. ~(n > m)
      BY <1>3, <3>1 DEF Is
    <3>4. n = m
      BY <1>1, <1>4, <3>2, <3>3
    <3> QED
      BY <1>2, <3>1, <3>4 DEF Is
  <2> QED
    BY <1>5, <2>1, <2>2 DEF Final, ShownAt
<1>6. ASSUME x = s[p].o PROVE Final(h, r, x)
  BY <1>2, <1>3, <1>4, <1>6 DEF Final, ShownAt, Is
<1> QED
  BY <1>5, <1>6 DEF r

ScanAfter(h, c) == IF c.op = "SCANOUT" THEN c.o ELSE h

LEMMA ReadShown ==
  ASSUME NEW q \in Seq(Command), q # <<>>, NEW h, NEW x, NEW k \in Nat \ {0}
  PROVE  ShownAt(ScanAfter(h, Head(q)), Tail(q), x, k) <=> ShownAt(h, q, x, k + 1)
<1> DEFINE r == Tail(q)
           g == ScanAfter(h, Head(q))
<1>1. /\ Head(q) = q[1] /\ 1 \in 1 .. Len(q) /\ Len(q) \in Nat
      /\ \A l \in 1 .. Len(r) : l + 1 \in 1 .. Len(q) /\ r[l] = q[l + 1]
      /\ \A l \in 1 .. Len(q) : l = 1 \/ (l - 1 \in 1 .. Len(r) /\ r[l - 1] = q[l])
      /\ Len(r) \in Nat
  BY ReadFacts
<1>2. g = IF q[1].op = "SCANOUT" THEN q[1].o ELSE h
  BY <1>1 DEF ScanAfter
<1> HIDE DEF r, g
<1>3. 1 < k + 1 /\ \A l \in 1 .. Len(q) : l # 1 => 1 < l
  BY <1>1
<1>4. ASSUME NEW a \in Nat, \A l \in 1 .. Len(r) : a < l /\ l < k => r[l].op # "SCANOUT",
             NEW l \in 1 .. Len(q), a + 1 < l, l < k + 1
      PROVE  q[l].op # "SCANOUT"
  <2>1. l # 1
    BY <1>1, <1>4
  <2>2. l - 1 \in 1 .. Len(r) /\ r[l - 1] = q[l]
    BY <1>1, <2>1
  <2>3. a < l - 1 /\ l - 1 < k
    BY <1>1, <1>4
  <2> QED
    BY <1>4, <2>2, <2>3
<1>5. ASSUME NEW a \in Nat, \A l \in 1 .. Len(q) : a + 1 < l /\ l < k + 1 => q[l].op # "SCANOUT",
             NEW l \in 1 .. Len(r), a < l, l < k
      PROVE  r[l].op # "SCANOUT"
  <2>1. l + 1 \in 1 .. Len(q) /\ r[l] = q[l + 1]
    BY <1>1
  <2>2. a + 1 < l + 1 /\ l + 1 < k + 1
    BY <1>1, <1>5
  <2> QED
    BY <1>5, <2>1, <2>2
<1>6. ASSUME ShownAt(g, r, x, k) PROVE ShownAt(h, q, x, k + 1)
  <2>1. CASE g = x /\ \A l \in 1 .. Len(r) : l < k => r[l].op # "SCANOUT"
    <3>1. \A l \in 1 .. Len(q) : 0 + 1 < l /\ l < k + 1 => q[l].op # "SCANOUT"
      BY <1>4, <2>1
    <3>2. CASE q[1].op = "SCANOUT"
      BY <1>1, <1>2, <1>3, <2>1, <3>1, <3>2 DEF ShownAt, Is
    <3>3. CASE q[1].op # "SCANOUT"
      BY <1>1, <1>2, <1>3, <2>1, <3>1, <3>3 DEF ShownAt
    <3> QED
      BY <3>2, <3>3
  <2>2. CASE \E m \in 1 .. Len(r) :
               /\ m < k /\ Is(r[m], {"SCANOUT"}, x)
               /\ \A l \in 1 .. Len(r) : m < l /\ l < k => r[l].op # "SCANOUT"
    <3>1. PICK m \in 1 .. Len(r) :
               /\ m < k /\ Is(r[m], {"SCANOUT"}, x)
               /\ \A l \in 1 .. Len(r) : m < l /\ l < k => r[l].op # "SCANOUT"
      BY <2>2
    <3>2. m \in Nat /\ m + 1 \in 1 .. Len(q) /\ r[m] = q[m + 1] /\ m + 1 < k + 1
      BY <1>1, <3>1
    <3>3. \A l \in 1 .. Len(q) : m + 1 < l /\ l < k + 1 => q[l].op # "SCANOUT"
      BY <1>4, <3>1, <3>2
    <3> QED
      BY <3>1, <3>2, <3>3 DEF ShownAt
  <2> QED
    BY <1>6, <2>1, <2>2 DEF ShownAt
<1>7. ASSUME ShownAt(h, q, x, k + 1) PROVE ShownAt(g, r, x, k)
  <2>1. CASE h = x /\ \A l \in 1 .. Len(q) : l < k + 1 => q[l].op # "SCANOUT"
    <3>1. \A l \in 1 .. Len(r) : 0 < l /\ l < k => r[l].op # "SCANOUT"
      BY <1>5, <2>1
    <3>2. \A l \in 1 .. Len(r) : 0 < l
      BY <1>1
    <3> QED
      BY <1>1, <1>2, <1>3, <2>1, <3>1, <3>2 DEF ShownAt
  <2>2. CASE \E m \in 1 .. Len(q) :
               /\ m < k + 1 /\ Is(q[m], {"SCANOUT"}, x)
               /\ \A l \in 1 .. Len(q) : m < l /\ l < k + 1 => q[l].op # "SCANOUT"
    <3>1. PICK m \in 1 .. Len(q) :
               /\ m < k + 1 /\ Is(q[m], {"SCANOUT"}, x)
               /\ \A l \in 1 .. Len(q) : m < l /\ l < k + 1 => q[l].op # "SCANOUT"
      BY <2>2
    <3>2. CASE m = 1
      <4>1. \A l \in 1 .. Len(r) : 0 < l /\ l < k => r[l].op # "SCANOUT"
        <5>1. \A l \in 1 .. Len(q) : 0 + 1 < l /\ l < k + 1 => q[l].op # "SCANOUT"
          BY <3>1, <3>2
        <5> QED
          BY <1>5, <5>1
      <4>2. \A l \in 1 .. Len(r) : l < k => r[l].op # "SCANOUT"
        BY <1>1, <4>1
      <4>3. g = x
        BY <1>2, <3>1, <3>2 DEF Is
      <4> QED
        BY <4>2, <4>3 DEF ShownAt
    <3>3. CASE m # 1
      <4>1. m - 1 \in 1 .. Len(r) /\ r[m - 1] = q[m] /\ (m - 1) + 1 = m /\ m - 1 < k /\ m - 1 \in Nat
        BY <1>1, <3>1, <3>3
      <4>2. \A l \in 1 .. Len(r) : m - 1 < l /\ l < k => r[l].op # "SCANOUT"
        BY <1>5, <3>1, <4>1
      <4> QED
        BY <3>1, <4>1, <4>2 DEF ShownAt
    <3> QED
      BY <3>2, <3>3
  <2> QED
    BY <1>7, <2>1, <2>2 DEF ShownAt
<1> QED
  BY <1>6, <1>7 DEF r, g

LEMMA ReadFinal ==
  ASSUME NEW q \in Seq(Command), q # <<>>, NEW h, NEW x
  PROVE  Final(ScanAfter(h, Head(q)), Tail(q), x) <=> Final(h, q, x)
<1>1. Len(Tail(q)) + 1 \in Nat \ {0} /\ (Len(Tail(q)) + 1) + 1 = Len(q) + 1
  BY ReadFacts
<1> DEFINE k == Len(Tail(q)) + 1
<1>2. k \in Nat \ {0} /\ k + 1 = Len(q) + 1
  BY <1>1
<1> HIDE DEF k
<1>3. ShownAt(ScanAfter(h, Head(q)), Tail(q), x, k) <=> ShownAt(h, q, x, k + 1)
  BY <1>2, ReadShown
<1> QED
  BY <1>2, <1>3 DEF Final, k
-----------------------------------------------------------------------------
(* Types. *)
LEMMA CmdFacts ==
  ASSUME NEW op \in Ops, NEW o \in Shown, NEW n \in Nat, NEW f \in Nat
  PROVE  /\ Cmd(op, o, n, f) \in Command /\ <<Cmd(op, o, n, f)>> \in Seq(Command)
         /\ Cmd(op, o, n, f).op = op /\ Cmd(op, o, n, f).o = o
         /\ Cmd(op, o, n, f).n = n /\ Cmd(op, o, n, f).fence = f
  BY DEF Cmd, Command

LEMMA QueueType ==
  ASSUME TypeInv, NEW cmds \in Seq(Command), Queue(cmds)
  PROVE  ring' \in Seq(Command)
  BY DEF Queue, TypeInv

LEMMA ShownFacts == Imported \subseteq Shown /\ Dumb \subseteq Shown /\ None \in Shown
                    /\ None \notin Imported /\ None \notin Dumb /\ Imported \cap Dumb = {}
                    /\ Obj \subseteq Shown
  BY ScanoutAssumption DEF Shown, Obj

(* The commands of a plane update: an upload, a scanout, a flush, as far as*)
(* there is memory.                                                        *)
UpdateCommands(o, new, f) ==
  {u \o (IF new THEN <<SetScanout(o)>> ELSE <<>>) \o r : u \in UpdateDumbBo(o), r \in ResourceFlush(o, f)}

LEMMA UpdateFacts ==
  ASSUME NEW o \in Obj, NEW new \in BOOLEAN, NEW f \in Nat,
         NEW s \in UpdateCommands(o, new, f)
  PROVE  /\ s \in Seq(Command)
         /\ \A k \in 1 .. Len(s) :
              \/ s[k] = Cmd("TRANSFER", o, 0, 0)
              \/ s[k] = Cmd("SCANOUT", o, 0, 0)
              \/ s[k] = Cmd("FLUSH", o, 0, f)
         /\ ~new => \A k \in 1 .. Len(s) : s[k].op # "SCANOUT"
         /\ new => \E p \in 1 .. Len(s) :
                     /\ s[p] = Cmd("SCANOUT", o, 0, 0)
                     /\ \A l \in 1 .. Len(s) : l > p => s[l].op # "SCANOUT"
<1> DEFINE t == Cmd("TRANSFER", o, 0, 0)
           c == Cmd("SCANOUT", o, 0, 0)
           d == Cmd("FLUSH", o, 0, f)
<1>1. /\ t \in Command /\ c \in Command /\ d \in Command
      /\ t.op # "SCANOUT" /\ d.op # "SCANOUT"
  BY CmdFacts, ShownFacts DEF Ops
<1>0. PICK u \in UpdateDumbBo(o), r \in ResourceFlush(o, f) :
        s = u \o (IF new THEN <<SetScanout(o)>> ELSE <<>>) \o r
  BY DEF UpdateCommands
<1>2. /\ u = <<t>> \/ u = <<>>
      /\ SetScanout(o) = c
      /\ r = <<d>> \/ r = <<>>
  BY DEF UpdateDumbBo, SetScanout, ResourceFlush, CmdTransferToHost2d, CmdSetScanout,
         CmdSetScanoutBlob, CmdResourceFlush
<1> HIDE DEF t, c, d
<1> DEFINE A == u
           B == IF new THEN <<c>> ELSE <<>>
           D == r
<1>3. /\ A \in Seq(Command) /\ \A k \in 1 .. Len(A) : A[k] = t
      /\ B \in Seq(Command) /\ (\A k \in 1 .. Len(B) : B[k] = c) /\ Len(B) = (IF new THEN 1 ELSE 0)
      /\ D \in Seq(Command) /\ (\A k \in 1 .. Len(D) : D[k] = d)
  <2>a. ASSUME NEW e \in Command, NEW q, q = <<e>> \/ q = <<>>
        PROVE  q \in Seq(Command) /\ \A k \in 1 .. Len(q) : q[k] = e
    <3>1. CASE q = <<e>>
      BY <3>1
    <3>2. CASE q = <<>>
      BY <3>2
    <3> QED
      BY <2>a, <3>1, <3>2
  <2>1. A \in Seq(Command) /\ \A k \in 1 .. Len(A) : A[k] = t
    BY <1>1, <1>2, <2>a
  <2>2. B \in Seq(Command) /\ (\A k \in 1 .. Len(B) : B[k] = c) /\ Len(B) = (IF new THEN 1 ELSE 0)
    <3>1. CASE new
      <4>1. B = <<c>>
        BY <3>1
      <4> QED
        BY <1>1, <3>1, <4>1
    <3>2. CASE ~new
      <4>1. B = <<>>
        BY <3>2
      <4> QED
        BY <3>2, <4>1
    <3> QED
      BY <3>1, <3>2
  <2>3. D \in Seq(Command) /\ (\A k \in 1 .. Len(D) : D[k] = d)
    BY <1>1, <1>2, <2>a
  <2> QED
    BY <2>1, <2>2, <2>3
<1>4. s = (A \o B) \o D
  BY <1>0, <1>2
<1> HIDE DEF A, B, D
<1> DEFINE AB == A \o B
<1>5. A \in Seq(Command) /\ B \in Seq(Command) /\ D \in Seq(Command)
  BY <1>3
<1>6. /\ AB \in Seq(Command) /\ Len(AB) = Len(A) + Len(B) /\ Len(A) \in Nat
      /\ \A k \in 1 .. Len(B) : Len(A) + k \in 1 .. Len(AB) /\ AB[Len(A) + k] = B[k]
      /\ \A k \in 1 .. Len(AB) :
           \/ k \in 1 .. Len(A) /\ AB[k] = A[k]
           \/ k - Len(A) \in 1 .. Len(B) /\ k > Len(A) /\ AB[k] = B[k - Len(A)]
  BY <1>5
<1> HIDE DEF AB
<1>7. /\ s \in Seq(Command) /\ Len(s) = Len(AB) + Len(D)
      /\ \A k \in 1 .. Len(AB) : k \in 1 .. Len(s) /\ s[k] = AB[k]
      /\ \A k \in 1 .. Len(s) :
           \/ k \in 1 .. Len(AB) /\ s[k] = AB[k]
           \/ k - Len(AB) \in 1 .. Len(D) /\ k > Len(AB) /\ s[k] = D[k - Len(AB)]
  <2>1. AB \in Seq(Command)
    BY <1>6
  <2>2. s = AB \o D
    BY <1>4 DEF AB
  <2>3. D \in Seq(Command)
    BY <1>3
  <2>4. /\ AB \o D \in Seq(Command) /\ Len(AB \o D) = Len(AB) + Len(D)
        /\ \A k \in 1 .. Len(AB) : k \in 1 .. Len(AB \o D) /\ (AB \o D)[k] = AB[k]
        /\ \A k \in 1 .. Len(AB \o D) :
             \/ k \in 1 .. Len(AB) /\ (AB \o D)[k] = AB[k]
             \/ k - Len(AB) \in 1 .. Len(D) /\ k > Len(AB) /\ (AB \o D)[k] = D[k - Len(AB)]
    BY <2>1, <2>3
  <2> QED
    BY <2>2, <2>4, Zenon
<1>8. \A k \in 1 .. Len(s) :
        \/ k \in 1 .. Len(A) /\ s[k] = t
        \/ k - Len(A) \in 1 .. Len(B) /\ s[k] = c
        \/ k > Len(AB) /\ s[k] = d
  BY <1>3, <1>6, <1>7
<1>9. ASSUME ~new PROVE \A k \in 1 .. Len(s) : s[k].op # "SCANOUT"
  <2>1. Len(B) = 0
    BY <1>3, <1>9
  <2>2. \A k \in 1 .. Len(s) : s[k] = t \/ s[k] = d
    BY <1>6, <1>8, <2>1
  <2> QED
    BY <1>1, <2>2
<1>10. ASSUME new PROVE \E p \in 1 .. Len(s) :
                     /\ s[p] = c
                     /\ \A l \in 1 .. Len(s) : l > p => s[l].op # "SCANOUT"
  <2> DEFINE p == Len(A) + 1
  <2>1. Len(B) = 1 /\ 1 \in 1 .. Len(B) /\ Len(AB) = p /\ B[1] = c
    BY <1>3, <1>6, <1>10
  <2>2. p \in 1 .. Len(AB) /\ AB[p] = c
    BY <1>6, <2>1
  <2>3. p \in 1 .. Len(s) /\ s[p] = c
    BY <1>7, <2>2
  <2>4. \A l \in 1 .. Len(s) : l > p => s[l] = d
    BY <1>6, <1>8, <2>1
  <2> HIDE DEF p
  <2> QED
    BY <1>1, <2>3, <2>4
<1> QED
  BY <1>7, <1>8, <1>9, <1>10 DEF t, c, d

LEMMA InitCommands ==
  /\ \A i \in Imported, n \in Nat :
       <<CmdAttachBacking(i, n)>> \in Seq(Command) /\ <<CmdResourceCreateBlob(i, n)>> \in Seq(Command)
  /\ \A i \in Imported, f \in Nat : <<CmdDetachBacking(i, f)>> \in Seq(Command)
  /\ \A i \in Imported : <<CmdUnref(i)>> \in Seq(Command)
  /\ <<CmdSetScanout(None)>> \in Seq(Command)
  /\ \A o \in Shown, f \in Nat : <<CmdTransferToHost2d(o, f)>> \in Seq(Command)
  BY CmdFacts, ShownFacts DEF Ops, CmdAttachBacking, CmdResourceCreateBlob, CmdDetachBacking,
     CmdUnref, CmdSetScanout, CmdTransferToHost2d

(* Edits of one object's record. *)
LEMMA EditPins ==
  ASSUME NEW m \in [Imported -> Import], NEW i \in Imported, NEW d \in Int, NEW n,
         n = [m EXCEPT ![i].pins = d]
  PROVE  /\ n \in [Imported -> Import] /\ \A j \in Imported : j # i => n[j] = m[j]
         /\ n[i].life = m[i].life /\ n[i].pins = d /\ n[i].sgt = m[i].sgt
         /\ n[i].attached = m[i].attached /\ n[i].lock = m[i].lock /\ n[i].fence = m[i].fence
         /\ n[i].kept = m[i].kept
<1> DEFINE r == [m[i] EXCEPT !.pins = d]
<1>1. n = [m EXCEPT ![i] = r]
  OBVIOUS
<1>2. m[i] \in Import
  OBVIOUS
<1>3. /\ r \in Import /\ r.life = m[i].life /\ r.pins = d /\ r.sgt = m[i].sgt
      /\ r.attached = m[i].attached /\ r.lock = m[i].lock /\ r.fence = m[i].fence
      /\ r.kept = m[i].kept
  BY <1>2 DEF Import
<1> HIDE DEF r
<1> QED
  BY <1>1, <1>3

LEMMA EditLife ==
  ASSUME NEW m \in [Imported -> Import], NEW i \in Imported, NEW n,
         n = [m EXCEPT ![i].life = "released"]
  PROVE  /\ n \in [Imported -> Import] /\ \A j \in Imported : j # i => n[j] = m[j]
         /\ n[i].life = "released" /\ n[i].pins = m[i].pins /\ n[i].sgt = m[i].sgt
         /\ n[i].attached = m[i].attached /\ n[i].lock = m[i].lock /\ n[i].fence = m[i].fence
         /\ n[i].kept = m[i].kept
<1> DEFINE r == [m[i] EXCEPT !.life = "released"]
<1>1. n = [m EXCEPT ![i] = r]
  OBVIOUS
<1>2. m[i] \in Import
  OBVIOUS
<1>3. /\ r \in Import /\ r.life = "released" /\ r.pins = m[i].pins /\ r.sgt = m[i].sgt
      /\ r.attached = m[i].attached /\ r.lock = m[i].lock /\ r.fence = m[i].fence
      /\ r.kept = m[i].kept
  BY <1>2 DEF Import
<1> HIDE DEF r
<1> QED
  BY <1>1, <1>3

LEMMA UnknownType ==
  /\ Unknown \in Import
  /\ \A l \in {"held", "freed"} :
       LET x == [Unknown EXCEPT !.life = l]
       IN  x \in Import /\ x.life = l /\ x.pins = 0 /\ x.sgt = 0 /\ ~x.attached
           /\ x.lock = "none" /\ x.fence = 0 /\ ~x.kept
  /\ \A b \in BOOLEAN :
       LET x == [Unknown EXCEPT !.life = "freed", !.kept = b]
       IN  x \in Import /\ x.life = "freed" /\ x.pins = 0 /\ x.sgt = 0 /\ ~x.attached
           /\ x.lock = "none" /\ x.fence = 0 /\ x.kept = b
<1>1. Unknown \in Import
  BY DEF Unknown, Import
<1>2. /\ Unknown.pins = 0 /\ Unknown.sgt = 0 /\ ~Unknown.attached /\ Unknown.lock = "none"
      /\ Unknown.fence = 0 /\ ~Unknown.kept
  BY DEF Unknown
<1> QED
  BY <1>1, <1>2 DEF Import
-----------------------------------------------------------------------------
(* What each operation does to the object and the ring. *)
LEMMA UnmapFacts ==
  ASSUME TypeInv, NEW i \in Imported, NEW who \in {"exporter", "free"}, Unmap(i, who)
  PROVE  /\ imp' \in [Imported -> Import] /\ \A j \in Imported : j # i => imp'[j] = imp[j]
         /\ imp[i].lock = "none"
         /\ imp'[i].life = imp[i].life /\ imp'[i].pins = imp[i].pins /\ imp'[i].sgt = imp[i].sgt
         /\ imp'[i].lock = who /\ imp'[i].kept = imp[i].kept
         /\ \/ /\ imp[i].attached /\ ~imp'[i].attached
               /\ imp'[i].fence = fences + 1 /\ fences' = fences + 1
               /\ Queue(<<CmdDetachBacking(i, fences + 1)>>)
            \/ /\ imp'[i].attached = imp[i].attached /\ imp'[i].fence = 0
               /\ UNCHANGED <<ring, fences>>
<1>0. /\ imp \in [Imported -> Import] /\ imp[i] \in Import /\ fences \in Nat /\ fences + 1 \in Nat
      /\ imp[i].lock = "none"
  BY DEF TypeInv, Unmap
<1>1. CASE /\ imp[i].attached
           /\ imp' = [imp EXCEPT ![i].attached = FALSE, ![i].lock = who, ![i].fence = fences + 1]
           /\ fences' = fences + 1
           /\ Queue(<<CmdDetachBacking(i, fences + 1)>>)
  <2> DEFINE r == [imp[i] EXCEPT !.attached = FALSE, !.lock = who, !.fence = fences + 1]
  <2>2. imp' = [imp EXCEPT ![i] = r]
    BY <1>0, <1>1
  <2>3. /\ r \in Import /\ r.life = imp[i].life /\ r.pins = imp[i].pins /\ r.sgt = imp[i].sgt
        /\ ~r.attached /\ r.lock = who /\ r.fence = fences + 1 /\ r.kept = imp[i].kept
    BY <1>0 DEF Import
  <2> HIDE DEF r
  <2>4. imp'[i] = r /\ imp' \in [Imported -> Import] /\ \A j \in Imported : j # i => imp'[j] = imp[j]
    BY <1>0, <2>2, <2>3
  <2> QED
    BY <1>0, <1>1, <2>3, <2>4
<1>2. CASE imp' = [imp EXCEPT ![i].lock = who, ![i].fence = 0] /\ UNCHANGED <<ring, fences>>
  <2> DEFINE r == [imp[i] EXCEPT !.lock = who, !.fence = 0]
  <2>2. imp' = [imp EXCEPT ![i] = r]
    BY <1>0, <1>2
  <2>3. /\ r \in Import /\ r.life = imp[i].life /\ r.pins = imp[i].pins /\ r.sgt = imp[i].sgt
        /\ r.attached = imp[i].attached /\ r.lock = who /\ r.fence = 0 /\ r.kept = imp[i].kept
    BY <1>0 DEF Import
  <2> HIDE DEF r
  <2>4. imp'[i] = r /\ imp' \in [Imported -> Import] /\ \A j \in Imported : j # i => imp'[j] = imp[j]
    BY <1>0, <2>2, <2>3
  <2> QED
    BY <1>0, <1>2, <2>3, <2>4
<1> QED
  BY <1>1, <1>2 DEF Unmap

LEMMA PrepareFacts ==
  ASSUME TypeInv, NEW i \in Imported, PrepareImported(i)
  PROVE  /\ imp' \in [Imported -> Import] /\ \A j \in Imported : j # i => imp'[j] = imp[j]
         /\ imp[i].lock = "none"
         /\ imp'[i].life = imp[i].life /\ imp'[i].pins = imp[i].pins + 1
         /\ imp'[i].lock = "none" /\ imp'[i].fence = imp[i].fence
         /\ imp'[i].kept = imp[i].kept
         /\ \/ /\ imp[i].sgt # 0 /\ UNCHANGED ring
               /\ imp'[i].sgt = imp[i].sgt /\ imp'[i].attached = imp[i].attached
            \/ /\ imp[i].sgt = 0 /\ Queue(ObjectAttach(i))
               /\ imp'[i].sgt = gen[i] /\ imp'[i].attached
<1>0. imp \in [Imported -> Import] /\ imp[i] \in Import /\ gen[i] \in Nat /\ imp[i].pins + 1 \in Int
  BY DEF TypeInv, Import
<1>1. CASE imp[i].sgt # 0
  <2>1. imp' = [imp EXCEPT ![i].pins = imp[i].pins + 1] /\ UNCHANGED ring /\ imp[i].lock = "none"
    BY <1>1 DEF PrepareImported
  <2>2. /\ imp' \in [Imported -> Import] /\ \A j \in Imported : j # i => imp'[j] = imp[j]
        /\ imp'[i].life = imp[i].life /\ imp'[i].pins = imp[i].pins + 1 /\ imp'[i].sgt = imp[i].sgt
        /\ imp'[i].attached = imp[i].attached /\ imp'[i].lock = imp[i].lock
        /\ imp'[i].fence = imp[i].fence /\ imp'[i].kept = imp[i].kept
    BY <1>0, <2>1, EditPins
  <2> QED
    BY <1>1, <2>1, <2>2
<1>2. CASE imp[i].sgt = 0
  <2> DEFINE p == [imp[i] EXCEPT !.pins = imp[i].pins + 1]
             x == [p EXCEPT !.sgt = gen[i], !.attached = TRUE]
  <2>0. ImportSgt(i, p) = x
    BY DEF ImportSgt
  <2>1. imp' = [imp EXCEPT ![i] = x] /\ Queue(ObjectAttach(i)) /\ imp[i].lock = "none"
    <3>1. imp' = [imp EXCEPT ![i] = ImportSgt(i, p)] /\ Queue(ObjectAttach(i)) /\ imp[i].lock = "none"
      BY <1>2 DEF PrepareImported
    <3> QED
      BY <2>0, <3>1
  <2>2. /\ p \in Import /\ p.life = imp[i].life /\ p.pins = imp[i].pins + 1
        /\ p.lock = imp[i].lock /\ p.fence = imp[i].fence /\ p.kept = imp[i].kept
    BY <1>0 DEF Import
  <2> HIDE DEF p
  <2>3. /\ x \in Import /\ x.life = p.life /\ x.pins = p.pins /\ x.sgt = gen[i] /\ x.attached
        /\ x.lock = p.lock /\ x.fence = p.fence /\ x.kept = p.kept
    BY <1>0, <2>2 DEF Import
  <2> HIDE DEF x
  <2> QED
    BY <1>0, <1>2, <2>1, <2>2, <2>3
<1> QED
  BY <1>1, <1>2

LEMMA AttachCommand ==
  ASSUME TypeInv, NEW i \in Imported
  PROVE  ObjectAttach(i) \in Seq(Command)
<1>1. gen[i] \in Nat
  BY DEF TypeInv
<1> QED
  BY <1>1, InitCommands DEF ObjectAttach

LEMMA ImportFacts ==
  ASSUME TypeInv, NEW i \in Imported, ImportObj(i)
  PROVE  /\ imp' \in [Imported -> Import] /\ \A j \in Imported : j # i => imp'[j] = imp[j]
         /\ imp[i].life = "none" /\ plugged
         /\ imp'[i].life = "held" /\ imp'[i].pins = 0 /\ imp'[i].sgt = gen[i]
         /\ imp'[i].attached /\ imp'[i].lock = "none" /\ ~imp'[i].kept
         /\ Queue(<<CmdResourceCreateBlob(i, gen[i])>>)
<1> DEFINE p == [Unknown EXCEPT !.life = "held"]
           x == [p EXCEPT !.sgt = gen[i], !.attached = TRUE]
<1>0. imp \in [Imported -> Import] /\ gen[i] \in Nat
  BY DEF TypeInv
<1>1. /\ imp' = [imp EXCEPT ![i] = x] /\ imp[i].life = "none" /\ plugged
      /\ Queue(<<CmdResourceCreateBlob(i, gen[i])>>)
  BY DEF ImportObj, ImportSgt
<1>2. p \in Import /\ p.life = "held" /\ p.pins = 0 /\ p.lock = "none" /\ ~p.kept
  BY UnknownType
<1> HIDE DEF p
<1>3. /\ x \in Import /\ x.life = p.life /\ x.pins = p.pins /\ x.sgt = gen[i] /\ x.attached
      /\ x.lock = p.lock /\ x.kept = p.kept
  BY <1>0, <1>2 DEF Import
<1> HIDE DEF x
<1> QED
  BY <1>0, <1>1, <1>2, <1>3

LEMMA MoveFacts ==
  ASSUME TypeInv, NEW i \in Imported, Move(i)
  PROVE  /\ imp' \in [Imported -> Import] /\ \A j \in Imported : j # i => imp'[j] = imp[j]
         /\ imp'[i].life = imp[i].life /\ imp'[i].pins = imp[i].pins /\ imp'[i].sgt = 0
         /\ imp'[i].attached = imp[i].attached /\ imp'[i].lock = "none"
         /\ imp'[i].kept = imp[i].attached
         /\ gen' \in [Imported -> Nat \ {0}] /\ gen'[i] = gen[i] + 1
         /\ \A j \in Imported : j # i => gen'[j] = gen[j]
<1>0. imp \in [Imported -> Import] /\ gen \in [Imported -> Nat \ {0}]
  BY DEF TypeInv
<1>1. /\ imp' = [imp EXCEPT ![i].sgt = 0, ![i].lock = "none", ![i].kept = imp[i].attached]
      /\ gen' = [gen EXCEPT ![i] = @ + 1]
  BY DEF Move
<1> DEFINE r == [imp[i] EXCEPT !.sgt = 0, !.lock = "none", !.kept = imp[i].attached]
<1>2. imp' = [imp EXCEPT ![i] = r] /\ imp[i] \in Import /\ imp[i].attached \in BOOLEAN
  BY <1>0, <1>1 DEF Import
<1>3. /\ r \in Import /\ r.life = imp[i].life /\ r.pins = imp[i].pins /\ r.sgt = 0
      /\ r.attached = imp[i].attached /\ r.lock = "none" /\ r.kept = imp[i].attached
  BY <1>2 DEF Import
<1> HIDE DEF r
<1>4. imp'[i] = r /\ imp' \in [Imported -> Import] /\ \A j \in Imported : j # i => imp'[j] = imp[j]
  BY <1>0, <1>2, <1>3
<1>5. /\ gen' \in [Imported -> Nat \ {0}] /\ gen'[i] = gen[i] + 1
      /\ \A j \in Imported : j # i => gen'[j] = gen[j]
  BY <1>0, <1>1
<1> QED
  BY <1>3, <1>4, <1>5

(* virtgpu_dma_buf_free_obj, once the host has answered.                   *)
Freed(i) ==
  /\ imp[i].lock = "free"
  /\ Unmapped(i)
  /\ imp' = [imp EXCEPT ![i] = [Unknown EXCEPT !.life = "freed", !.kept = imp[i].attached]]
  /\ gen' = [gen EXCEPT ![i] = @ + 1]
  /\ Queue(<<CmdUnref(i)>>)
  /\ UNCHANGED fences

LEMMA FreedFacts ==
  ASSUME TypeInv, NEW i \in Imported, Freed(i)
  PROVE  /\ imp' \in [Imported -> Import] /\ \A j \in Imported : j # i => imp'[j] = imp[j]
         /\ imp'[i].life = "freed" /\ imp'[i].pins = 0 /\ imp'[i].sgt = 0
         /\ ~imp'[i].attached /\ imp'[i].lock = "none" /\ imp'[i].kept = imp[i].attached
         /\ gen' \in [Imported -> Nat \ {0}] /\ gen'[i] = gen[i] + 1
         /\ \A j \in Imported : j # i => gen'[j] = gen[j]
<1> DEFINE p == [Unknown EXCEPT !.life = "freed", !.kept = imp[i].attached]
<1>0. imp \in [Imported -> Import] /\ gen \in [Imported -> Nat \ {0}]
  BY DEF TypeInv
<1>1. imp' = [imp EXCEPT ![i] = p] /\ gen' = [gen EXCEPT ![i] = @ + 1]
  BY DEF Freed
<1>2. /\ p \in Import /\ p.life = "freed" /\ p.pins = 0 /\ p.sgt = 0 /\ ~p.attached
      /\ p.lock = "none" /\ p.kept = imp[i].attached
  <2>1. imp[i] \in Import /\ imp[i].attached \in BOOLEAN
    BY <1>0 DEF Import
  <2> QED
    BY <2>1, UnknownType
<1> HIDE DEF p
<1> QED
  BY <1>0, <1>1, <1>2

LEMMA FreeObjCases ==
  ASSUME NEW i \in Imported, FreeObj(i)
  PROVE  /\ \/ imp[i].life = "released" /\ ~InUse(i) /\ Unmap(i, "free") /\ UNCHANGED gen
            \/ Freed(i)
         /\ UNCHANGED <<plugged, commitVars, cursorRing, answered, signaled, hostVars>>
  BY DEF FreeObj, Freed

LEMMA ObjTypeStep ==
  ASSUME TypeInv, NEW i \in Imported,
         ImportObj(i) \/ ReleaseObj(i) \/ MoveNotify(i) \/ Move(i) \/ FreeObj(i)
  PROVE  TypeInv'
<1> USE DEF commitVars, hostVars
<1>1. CASE ImportObj(i)
  <2>1. gen[i] \in Nat
    BY DEF TypeInv
  <2>2. ring' \in Seq(Command) /\ imp' \in [Imported -> Import]
    BY <1>1, <2>1, InitCommands, ImportFacts, QueueType
  <2> QED
    BY <1>1, <2>2 DEF ImportObj, TypeInv
<1>2. CASE ReleaseObj(i)
  <2>1. imp' \in [Imported -> Import]
    BY <1>2, EditLife DEF ReleaseObj, TypeInv
  <2> QED
    BY <1>2, <2>1 DEF ReleaseObj, TypeInv
<1>a. ASSUME NEW who \in {"exporter", "free"}, Unmap(i, who)
      PROVE  imp' \in [Imported -> Import] /\ ring' \in Seq(Command) /\ fences' \in Nat
  <2>1. fences \in Nat /\ fences + 1 \in Nat /\ ring \in Seq(Command)
    BY DEF TypeInv
  <2>2. <<CmdDetachBacking(i, fences + 1)>> \in Seq(Command)
    BY <2>1, InitCommands
  <2> QED
    BY <1>a, <2>1, <2>2, UnmapFacts, QueueType
<1>3. CASE MoveNotify(i)
  <2>1. imp' \in [Imported -> Import] /\ ring' \in Seq(Command) /\ fences' \in Nat
    BY <1>3, <1>a DEF MoveNotify
  <2> QED
    BY <1>3, <2>1 DEF MoveNotify, TypeInv
<1>4. CASE Move(i)
  <2>1. imp' \in [Imported -> Import] /\ gen' \in [Imported -> Nat \ {0}]
    BY <1>4, MoveFacts
  <2> QED
    BY <1>4, <2>1 DEF Move, TypeInv
<1>5. CASE FreeObj(i)
  <2>1. CASE Unmap(i, "free") /\ gen' = gen
    <3>1. imp' \in [Imported -> Import] /\ ring' \in Seq(Command) /\ fences' \in Nat
      BY <2>1, <1>a
    <3> QED
      BY <1>5, <2>1, <3>1 DEF FreeObj, TypeInv
  <2>2. CASE Freed(i)
    <3>1. ring' \in Seq(Command)
      BY <2>2, InitCommands, QueueType DEF Freed
    <3>2. imp' \in [Imported -> Import] /\ gen' \in [Imported -> Nat \ {0}] /\ fences' = fences
      BY <2>2, FreedFacts DEF Freed
    <3> QED
      BY <1>5, <3>1, <3>2 DEF FreeObj, TypeInv
  <2> QED
    BY <1>5, <2>1, <2>2, FreeObjCases
<1> QED
  BY <1>1, <1>2, <1>3, <1>4, <1>5

LEMMA PrepareTypeStep ==
  ASSUME TypeInv, PreparePrimary \/ PrepareCursor
  PROVE  TypeInv'
<1>1. CASE PreparePrimary
  <2>1. PICK fb \in Obj \cup {None}, active \in BOOLEAN, newMode \in BOOLEAN :
          /\ prep' = {[op |-> "primary", fb |-> fb, active |-> active, old |-> None,
                       modeset |-> newMode, pc |-> "modeset", fence |-> 0]}
          /\ IF fb \in Imported THEN PrepareImported(fb) ELSE UNCHANGED <<imp, ring>>
    BY <1>1 DEF PreparePrimary
  <2>2. prep' \subseteq Commit
    BY <2>1 DEF Commit, Shown
  <2>3. imp' \in [Imported -> Import] /\ ring' \in Seq(Command)
    <3>1. CASE fb \in Imported
      BY <2>1, <3>1, PrepareFacts, AttachCommand, QueueType DEF TypeInv
    <3>2. CASE fb \notin Imported
      BY <2>1, <3>2 DEF TypeInv
    <3> QED
      BY <3>1, <3>2
  <2> QED
    BY <1>1, <2>2, <2>3 DEF PreparePrimary, TypeInv, hostVars
<1>2. CASE PrepareCursor
  <2>1. prep' \subseteq Commit
    BY <1>2, ShownFacts DEF PrepareCursor, Commit
  <2> QED
    BY <1>2, <2>1 DEF PrepareCursor, TypeInv, hostVars
<1> QED
  BY <1>1, <1>2

LEMMA CommitEdit ==
  ASSUME NEW c \in Commit, NEW l \in {"modeset", "update", "cursor", "wait", "ping", "flush"},
         NEW f \in Nat
  PROVE  [c EXCEPT !.pc = l] \in Commit /\ [c EXCEPT !.pc = l, !.fence = f] \in Commit
  BY DEF Commit

(* The three ways of a plane update. *)
LEMMA UpdateCases ==
  ASSUME TypeInv, PrimaryPlaneUpdate
  PROVE  \E c \in tail :
           /\ c \in Commit /\ c.pc = "update"
           /\ \/ /\ c.fb = None \/ ~c.active
                 /\ Queue(<<CmdSetScanout(None)>>)
                 /\ tail' = {[c EXCEPT !.pc = "flush"]}
                 /\ UNCHANGED <<needsModeset, fences>>
              \/ /\ c.fb # None /\ c.active /\ c.fb = c.old
                 /\ tail' = {[c EXCEPT !.pc = "flush"]}
                 /\ UNCHANGED <<ring, needsModeset, fences>>
              \/ \E f \in Nat :
                 /\ c.fb # None /\ c.active
                 /\ f = IF c.fb \in Imported THEN fences + 1 ELSE 0
                 /\ \E q \in UpdateCommands(c.fb, NewScanout(c), f) : Queue(q)
                 /\ needsModeset' = IF NewScanout(c) THEN FALSE ELSE needsModeset
                 /\ fences' = IF f = 0 THEN fences ELSE f
                 /\ tail' = {[c EXCEPT !.pc = "flush", !.fence = f]}
<1>1. PICK c \in tail :
       /\ c.pc = "update"
       /\ \/ /\ c.fb = None \/ ~c.active
             /\ Queue(<<CmdSetScanout(None)>>)
             /\ tail' = {[c EXCEPT !.pc = "flush"]}
             /\ UNCHANGED <<needsModeset, fences>>
          \/ /\ c.fb # None /\ c.active /\ c.fb = c.old
             /\ tail' = {[c EXCEPT !.pc = "flush"]}
             /\ UNCHANGED <<ring, needsModeset, fences>>
          \/ /\ c.fb # None /\ c.active
             /\ LET f == IF c.fb \in Imported THEN fences + 1 ELSE 0
                IN  /\ \E u \in UpdateDumbBo(c.fb), r \in ResourceFlush(c.fb, f) :
                         Queue(u \o (IF NewScanout(c) THEN <<SetScanout(c.fb)>> ELSE <<>>) \o r)
                    /\ needsModeset' = IF NewScanout(c) THEN FALSE ELSE needsModeset
                    /\ fences' = IF f = 0 THEN fences ELSE f
                    /\ tail' = {[c EXCEPT !.pc = "flush", !.fence = f]}
  BY DEF PrimaryPlaneUpdate
<1>2. c \in Commit
  BY DEF TypeInv
<1> DEFINE f == IF c.fb \in Imported THEN fences + 1 ELSE 0
<1>3. f \in Nat
  BY DEF TypeInv
<1>5. CASE /\ c.fb # None /\ c.active
           /\ \E u \in UpdateDumbBo(c.fb), r \in ResourceFlush(c.fb, f) :
                Queue(u \o (IF NewScanout(c) THEN <<SetScanout(c.fb)>> ELSE <<>>) \o r)
           /\ needsModeset' = IF NewScanout(c) THEN FALSE ELSE needsModeset
           /\ fences' = IF f = 0 THEN fences ELSE f
           /\ tail' = {[c EXCEPT !.pc = "flush", !.fence = f]}
  <2>1. \E q \in UpdateCommands(c.fb, NewScanout(c), f) : Queue(q)
    <3>1. PICK u \in UpdateDumbBo(c.fb), r \in ResourceFlush(c.fb, f) :
            Queue(u \o (IF NewScanout(c) THEN <<SetScanout(c.fb)>> ELSE <<>>) \o r)
      BY <1>5
    <3>2. u \o (IF NewScanout(c) THEN <<SetScanout(c.fb)>> ELSE <<>>) \o r
            \in UpdateCommands(c.fb, NewScanout(c), f)
      BY DEF UpdateCommands
    <3> QED
      BY <3>1, <3>2, Zenon
  <2>2. f = IF c.fb \in Imported THEN fences + 1 ELSE 0
    OBVIOUS
  <2> HIDE DEF f
  <2> QED
    BY <1>1, <1>2, <1>3, <1>5, <2>1, <2>2, Zenon
<1> QED
  BY <1>1, <1>2, <1>5, Zenon

(* A swap: the prepared commit takes the place of the current state. *)
LEMMA SwapCases ==
  ASSUME TypeInv, CommitInv, Swap
  PROVE  \E c \in prep, d \in Commit :
           /\ tail = {} /\ tail' = {d} /\ prep = {c} /\ prep' = {}
           /\ d.op = c.op /\ d.fb = c.fb /\ d.active = c.active /\ d.pc = c.pc /\ d.fence = c.fence
           /\ cur' \in [fb : Shown, cursor : Shown \ Imported, active : BOOLEAN]
           /\ \/ /\ c.op = "cursor" /\ d.old = cur.cursor /\ d.modeset = c.modeset
                 /\ cur'.fb = cur.fb /\ cur'.active = cur.active
              \/ /\ c.op = "primary" /\ d.old = cur.fb /\ d.modeset = (c.modeset \/ c.active # cur.active)
                 /\ cur'.fb = c.fb /\ cur'.active = c.active
<1>1. PICK c \in prep :
       IF c.op = "cursor"
       THEN /\ tail' = {[c EXCEPT !.old = cur.cursor]}
            /\ cur' = [cur EXCEPT !.cursor = c.fb]
       ELSE /\ tail' = {[c EXCEPT !.old = cur.fb,
                                  !.modeset = c.modeset \/ c.active # cur.active]}
            /\ cur' = [cur EXCEPT !.fb = c.fb, !.active = c.active]
  BY DEF Swap
<1>2. c \in Commit /\ cur \in [fb : Shown, cursor : Shown \ Imported, active : BOOLEAN]
  BY DEF TypeInv
<1>3. prep = {c} /\ tail = {} /\ prep' = {}
  BY DEF CommitInv, Swap
<1>4. CASE c.op = "cursor"
  <2> DEFINE d == [c EXCEPT !.old = cur.cursor]
  <2>1. /\ d \in Commit /\ d.op = c.op /\ d.fb = c.fb /\ d.active = c.active /\ d.pc = c.pc
        /\ d.fence = c.fence /\ d.old = cur.cursor /\ d.modeset = c.modeset
    BY <1>2 DEF Commit
  <2>2. c.fb \in Shown \ Imported
    BY <1>2, <1>4 DEF CommitInv, Commit
  <2>3. /\ cur' \in [fb : Shown, cursor : Shown \ Imported, active : BOOLEAN]
        /\ cur'.fb = cur.fb /\ cur'.active = cur.active
    BY <1>1, <1>2, <1>4, <2>2
  <2>4. tail' = {d}
    BY <1>1, <1>4
  <2> HIDE DEF d
  <2> QED
    BY <1>3, <1>4, <2>1, <2>3, <2>4
<1>5. CASE c.op # "cursor"
  <2> DEFINE d == [c EXCEPT !.old = cur.fb, !.modeset = c.modeset \/ c.active # cur.active]
  <2>0. c.op = "primary" /\ c.fb \in Shown /\ c.active \in BOOLEAN /\ cur.fb \in Shown
        /\ (c.modeset \/ c.active # cur.active) \in BOOLEAN
    BY <1>2, <1>5 DEF Commit
  <2>1. /\ d \in Commit /\ d.op = c.op /\ d.fb = c.fb /\ d.active = c.active /\ d.pc = c.pc
        /\ d.fence = c.fence /\ d.old = cur.fb /\ d.modeset = (c.modeset \/ c.active # cur.active)
    BY <1>2, <2>0 DEF Commit
  <2>3. /\ cur' \in [fb : Shown, cursor : Shown \ Imported, active : BOOLEAN]
        /\ cur'.fb = c.fb /\ cur'.active = c.active
    BY <1>1, <1>2, <1>5, <2>0
  <2>4. tail' = {d}
    BY <1>1, <1>5
  <2> HIDE DEF d
  <2> QED
    BY <1>3, <2>0, <2>1, <2>3, <2>4
<1> QED
  BY <1>4, <1>5

LEMMA TailTypeStep ==
  ASSUME TypeInv, CommitInv, Swap \/ TailNext \/ CleanupFb
  PROVE  TypeInv'
<1> USE DEF hostVars
<1>0. fences \in Nat /\ fences + 1 \in Nat /\ trash \in Seq(Imported) /\ imp \in [Imported -> Import]
      /\ ring \in Seq(Command) /\ \A c \in tail : c \in Commit
  BY DEF TypeInv
<1>1. CASE Swap
  <2>1. cur' \in [fb : Shown, cursor : Shown \ Imported, active : BOOLEAN]
        /\ prep' \subseteq Commit /\ tail' \subseteq Commit
    BY <1>1, SwapCases
  <2> QED
    BY <1>1, <2>1 DEF Swap, TypeInv
<1>2. CASE TailModeset
  <2>1. PICK c \in tail :
          /\ Queue(IF c.modeset THEN <<CmdSetScanout(None)>> ELSE <<>>)
          /\ tail' = {[c EXCEPT !.pc = "update"]}
    BY <1>2 DEF TailModeset
  <2>2. (IF c.modeset THEN <<CmdSetScanout(None)>> ELSE <<>>) \in Seq(Command)
    BY InitCommands
  <2>3. ring' \in Seq(Command) /\ tail' \subseteq Commit
    BY <1>0, <2>1, <2>2, QueueType, CommitEdit
  <2> QED
    BY <1>2, <2>3 DEF TailModeset, TypeInv
<1>3. CASE PrimaryPlaneUpdate
  <2>1. ring' \in Seq(Command) /\ tail' \subseteq Commit /\ needsModeset' \in BOOLEAN /\ fences' \in Nat
    <3>1. PICK c \in tail :
           /\ c \in Commit /\ c.pc = "update"
           /\ \/ /\ c.fb = None \/ ~c.active
                 /\ Queue(<<CmdSetScanout(None)>>)
                 /\ tail' = {[c EXCEPT !.pc = "flush"]}
                 /\ UNCHANGED <<needsModeset, fences>>
              \/ /\ c.fb # None /\ c.active /\ c.fb = c.old
                 /\ tail' = {[c EXCEPT !.pc = "flush"]}
                 /\ UNCHANGED <<ring, needsModeset, fences>>
              \/ \E f \in Nat :
                 /\ c.fb # None /\ c.active
                 /\ f = IF c.fb \in Imported THEN fences + 1 ELSE 0
                 /\ \E q \in UpdateCommands(c.fb, NewScanout(c), f) : Queue(q)
                 /\ needsModeset' = IF NewScanout(c) THEN FALSE ELSE needsModeset
                 /\ fences' = IF f = 0 THEN fences ELSE f
                 /\ tail' = {[c EXCEPT !.pc = "flush", !.fence = f]}
      BY <1>3, UpdateCases
    <3>2. CASE /\ Queue(<<CmdSetScanout(None)>>)
               /\ tail' = {[c EXCEPT !.pc = "flush"]}
               /\ UNCHANGED <<needsModeset, fences>>
      BY <1>0, <3>1, <3>2, InitCommands, QueueType, CommitEdit DEF TypeInv
    <3>3. CASE /\ tail' = {[c EXCEPT !.pc = "flush"]}
               /\ UNCHANGED <<ring, needsModeset, fences>>
      BY <1>0, <3>1, <3>3, CommitEdit DEF TypeInv
    <3>4. CASE \E f \in Nat :
                 /\ c.fb # None /\ c.active
                 /\ \E q \in UpdateCommands(c.fb, NewScanout(c), f) : Queue(q)
                 /\ needsModeset' = IF NewScanout(c) THEN FALSE ELSE needsModeset
                 /\ fences' = IF f = 0 THEN fences ELSE f
                 /\ tail' = {[c EXCEPT !.pc = "flush", !.fence = f]}
      <4>1. PICK f \in Nat :
                 /\ c.fb # None /\ c.active
                 /\ \E q \in UpdateCommands(c.fb, NewScanout(c), f) : Queue(q)
                 /\ needsModeset' = IF NewScanout(c) THEN FALSE ELSE needsModeset
                 /\ fences' = IF f = 0 THEN fences ELSE f
                 /\ tail' = {[c EXCEPT !.pc = "flush", !.fence = f]}
        BY <3>4
      <4>2. \A q \in UpdateCommands(c.fb, NewScanout(c), f) : q \in Seq(Command)
        <5>1. c.fb \in Obj /\ NewScanout(c) \in BOOLEAN
          BY <3>1, <4>1 DEF Commit, Shown, NewScanout, TypeInv
        <5> QED
          BY <5>1, UpdateFacts
      <4>3. ring' \in Seq(Command)
        BY <4>1, <4>2, QueueType
      <4>4. tail' \subseteq Commit
        BY <3>1, <4>1, CommitEdit
      <4> QED
        BY <1>0, <4>1, <4>3, <4>4 DEF TypeInv
    <3> QED
      BY <3>1, <3>2, <3>3, <3>4
  <2> QED
    BY <1>3, <2>1 DEF PrimaryPlaneUpdate, TypeInv
<1>4. CASE AtomicFlush
  <2>1. tail' = {} /\ needsModeset' \in BOOLEAN /\ trash' \in Seq(Imported)
    BY <1>0, <1>4 DEF AtomicFlush, Commit
  <2> QED
    BY <1>4, <2>1 DEF AtomicFlush, TypeInv
<1>5. CASE CleanupFb
  <2>1. trash' \in Seq(Imported)
    BY <1>0, <1>5 DEF CleanupFb
  <2>2. imp' \in [Imported -> Import]
    <3> DEFINE o == Head(trash)
    <3>1. imp[o] \in Import /\ o \in Imported
      BY <1>0, <1>5 DEF CleanupFb
    <3>2. imp[o].pins - 1 \in Int
      BY <3>1 DEF Import
    <3>3. imp' = [imp EXCEPT ![o].pins = imp[o].pins - 1]
      BY <1>5 DEF CleanupFb
    <3> HIDE DEF o
    <3> QED
      BY <1>0, <3>1, <3>2, <3>3, EditPins
  <2> QED
    BY <1>5, <2>1, <2>2 DEF CleanupFb, TypeInv
<1>6. CASE CursorUpload
  <2>1. PICK c \in tail :
          \/ /\ fences' = fences + 1
             /\ Queue(<<CmdTransferToHost2d(c.fb, fences + 1)>>)
             /\ tail' = {[c EXCEPT !.pc = "wait", !.fence = fences + 1]}
          \/ /\ tail' = {[c EXCEPT !.pc = "flush"]} \/ tail' = {[c EXCEPT !.pc = "ping"]}
             /\ UNCHANGED <<fences, ring>>
    BY <1>6 DEF CursorUpload
  <2>2. <<CmdTransferToHost2d(c.fb, fences + 1)>> \in Seq(Command) /\ c \in Commit
    BY <1>0, InitCommands DEF Commit
  <2>3. ring' \in Seq(Command) /\ fences' \in Nat
    BY <1>0, <2>1, <2>2, QueueType
  <2>a. /\ [c EXCEPT !.pc = "ping"] \in Commit /\ [c EXCEPT !.pc = "flush"] \in Commit
        /\ \A f \in Nat : [c EXCEPT !.pc = "wait", !.fence = f] \in Commit
    BY <2>2 DEF Commit
  <2>b. [c EXCEPT !.pc = "wait", !.fence = fences + 1] \in Commit
    BY <1>0, <2>a
  <2>4. tail' \subseteq Commit
    BY <2>1, <2>a, <2>b
  <2> QED
    BY <1>6, <2>3, <2>4 DEF CursorUpload, TypeInv
<1>7. CASE CursorWait
  <2>1. tail' \subseteq Commit
    <3>1. PICK c \in tail : \/ tail' = {[c EXCEPT !.pc = "ping"]}
                           \/ tail' = {[c EXCEPT !.pc = "ping", !.fence = 0]}
      BY <1>7 DEF CursorWait
    <3>2. [c EXCEPT !.pc = "ping"] \in Commit /\ [c EXCEPT !.pc = "ping", !.fence = 0] \in Commit
      BY <1>0 DEF Commit
    <3> QED
      BY <3>1, <3>2
  <2> QED
    BY <1>7, <2>1 DEF CursorWait, TypeInv
<1>8. CASE CursorPing
  <2>1. PICK c \in tail :
          QueueCursor([o |-> c.fb, image |-> c.fence]) /\ tail' = {[c EXCEPT !.pc = "flush"]}
    BY <1>8 DEF CursorPing
  <2>2. tail' \subseteq Commit
    BY <1>0, <2>1, CommitEdit
  <2> DEFINE e == [o |-> c.fb, image |-> c.fence]
             S == [o : Shown, image : Nat]
  <2>3. e \in S /\ cursorRing \in Seq(S)
    BY <1>0, <2>1 DEF Commit, TypeInv
  <2>b. cursorRing' = Append(cursorRing, e) \/ cursorRing' = cursorRing
    BY <2>1 DEF QueueCursor
  <2> HIDE DEF e, S
  <2>c. cursorRing' \in Seq(S)
    BY <2>3, <2>b
  <2>4. cursorRing' \in Seq([o : Shown, image : Nat])
    BY <2>c DEF S
  <2> QED
    BY <1>8, <2>2, <2>4 DEF CursorPing, TypeInv
<1> QED
  BY <1>1, <1>2, <1>3, <1>4, <1>5, <1>6, <1>7, <1>8 DEF TailNext

(* The host reads a command. *)
LEMMA HostReadFacts ==
  ASSUME TypeInv, RingInv, HostRead
  PROVE  /\ ring # <<>> /\ ring' = Tail(ring) /\ Head(ring) \in Command /\ Head(ring) = ring[1]
         /\ hostScan' = ScanAfter(hostScan, Head(ring))
         /\ backing' \in [Imported -> Nat]
         /\ \A j \in Imported :
              backing'[j] = IF Is(Head(ring), {"ATTACH", "DETACH", "UNREF"}, j) THEN Head(ring).n
                            ELSE backing[j]
         /\ uploaded' = IF Head(ring).op = "TRANSFER" /\ Head(ring).fence # 0 THEN Head(ring).fence
                        ELSE uploaded
         /\ answered' = IF Head(ring).fence = 0 THEN answered ELSE Append(answered, Head(ring).fence)
         /\ Head(ring).op \in {"ATTACH", "DETACH", "UNREF"} => Head(ring).o \in Imported
<1>0. ring # <<>> /\ ring \in Seq(Command) /\ backing \in [Imported -> Nat]
  BY DEF HostRead, TypeInv
<1>1. Head(ring) \in Command /\ Head(ring) = ring[1] /\ 1 \in 1 .. Len(ring)
  BY <1>0, ReadFacts
<1> DEFINE c == Head(ring)
<1>2. c.op \in {"ATTACH", "DETACH", "UNREF"} => c.o \in Imported
  BY <1>1 DEF RingInv
<1>3. /\ hostScan' = (IF c.op = "SCANOUT" THEN c.o ELSE hostScan)
      /\ backing'  = (IF c.op \in {"ATTACH", "DETACH", "UNREF"}
                        THEN [backing EXCEPT ![c.o] = c.n] ELSE backing)
      /\ uploaded' = (IF c.op = "TRANSFER" /\ c.fence # 0 THEN c.fence ELSE uploaded)
      /\ answered' = (IF c.fence = 0 THEN answered ELSE Append(answered, c.fence))
      /\ ring' = Tail(ring)
  BY DEF HostRead
<1>4. c \in Command /\ c.n \in Nat
  BY <1>1 DEF Command
<1> HIDE DEF c
<1>5. backing' \in [Imported -> Nat]
  BY <1>0, <1>2, <1>3, <1>4
<1>6. \A j \in Imported :
              backing'[j] = IF Is(c, {"ATTACH", "DETACH", "UNREF"}, j) THEN c.n ELSE backing[j]
  BY <1>0, <1>2, <1>3, <1>4 DEF Is
<1> QED
  BY <1>0, <1>1, <1>2, <1>3, <1>5, <1>6 DEF c, ScanAfter

LEMMA HostTypeStep ==
  ASSUME TypeInv, RingInv, HostRead \/ HostCursor \/ Dequeue \/ Unplug
  PROVE  TypeInv'
<1> USE DEF hostVars, commitVars
<1>1. CASE HostRead
  <2>1. Head(ring) \in Command /\ ring \in Seq(Command) /\ ring # <<>> /\ answered \in Seq(Nat)
    BY <1>1, HostReadFacts DEF TypeInv
  <2>2. Head(ring).o \in Shown /\ Head(ring).fence \in Nat /\ Tail(ring) \in Seq(Command)
    BY <2>1 DEF Command
  <2>3. hostScan' \in Shown /\ uploaded' \in Nat /\ answered' \in Seq(Nat) /\ ring' \in Seq(Command)
        /\ backing' \in [Imported -> Nat]
    <3>1. /\ ring' = Tail(ring)
          /\ hostScan' = ScanAfter(hostScan, Head(ring))
          /\ backing' \in [Imported -> Nat]
          /\ uploaded' = (IF Head(ring).op = "TRANSFER" /\ Head(ring).fence # 0 THEN Head(ring).fence
                          ELSE uploaded)
          /\ answered' = IF Head(ring).fence = 0 THEN answered ELSE Append(answered, Head(ring).fence)
      BY <1>1, HostReadFacts
    <3>2. hostScan \in Shown /\ uploaded \in Nat
      BY DEF TypeInv
    <3>3. hostScan' \in Shown /\ uploaded' \in Nat
      BY <2>2, <3>1, <3>2 DEF ScanAfter
    <3>4. answered' \in Seq(Nat)
      BY <2>1, <2>2, <3>1
    <3> QED
      BY <2>2, <3>1, <3>3, <3>4
  <2> QED
    BY <1>1, <2>3 DEF HostRead, TypeInv
<1>2. CASE HostCursor
  BY <1>2 DEF HostCursor, TypeInv
<1>3. CASE Dequeue
  <2>1. answered \in Seq(Nat) /\ answered # <<>>
    BY <1>3 DEF Dequeue, TypeInv
  <2>2. Head(answered) \in Nat /\ Tail(answered) \in Seq(Nat)
    BY <2>1
  <2> QED
    BY <1>3, <2>2 DEF Dequeue, TypeInv
<1>4. CASE Unplug
  BY <1>4 DEF Unplug, TypeInv
<1> QED
  BY <1>1, <1>2, <1>3, <1>4

LEMMA TypeStep ==
  ASSUME TypeInv, CommitInv, RingInv, [Next]_vars
  PROVE  TypeInv'
<1>1. CASE UNCHANGED vars
  BY <1>1 DEF vars, TypeInv
<1> QED
  BY <1>1, ObjTypeStep, PrepareTypeStep, TailTypeStep, HostTypeStep DEF Next
-----------------------------------------------------------------------------
(* Commits. *)
LEMMA TailEdit ==
  ASSUME TypeInv, CommitInv, NEW c \in tail, NEW d \in Commit, tail' = {d},
         d.op = c.op, d.fb = c.fb, d.active = c.active, d.old = c.old, d.modeset = c.modeset,
         c.op = "primary" => d.pc \in {"modeset", "update", "flush"},
         c.op = "cursor" => d.pc \in {"cursor", "wait", "ping", "flush"},
         UNCHANGED <<cur, prep>>
  PROVE  CommitInv'
<1>1. c.op \in {"primary", "cursor"}
  BY DEF TypeInv, Commit
<1>2. \A x, y \in tail' : x = y
  OBVIOUS
<1>3. IF d.op = "primary"
      THEN d.pc \in {"modeset", "update", "flush"} /\ d.fb = cur'.fb /\ d.active = cur'.active
      ELSE /\ d.pc \in {"cursor", "wait", "ping", "flush"} /\ ~d.modeset
           /\ d.fb \notin Imported /\ d.old \notin Imported
  BY <1>1 DEF CommitInv
<1>4. \A x \in tail' :
      IF x.op = "primary"
      THEN x.pc \in {"modeset", "update", "flush"} /\ x.fb = cur'.fb /\ x.active = cur'.active
      ELSE /\ x.pc \in {"cursor", "wait", "ping", "flush"} /\ ~x.modeset
           /\ x.fb \notin Imported /\ x.old \notin Imported
  BY <1>3
<1> QED
  BY <1>2, <1>4, Zenon DEF CommitInv

(* What a step of the commit at work leaves of it. *)
LEMMA TailFacts ==
  ASSUME TypeInv, CommitInv, TailNext
  PROVE  \E c \in tail :
           /\ tail = {c} /\ c \in Commit /\ UNCHANGED <<cur, prep>>
           /\ \/ AtomicFlush /\ tail' = {} /\ c.pc = "flush"
              \/ \E d \in Commit :
                   /\ tail' = {d} /\ d.op = c.op /\ d.fb = c.fb /\ d.active = c.active /\ d.old = c.old
                   /\ d.modeset = c.modeset
                   /\ \/ TailModeset /\ c.pc = "modeset" /\ d.pc = "update"
                      \/ PrimaryPlaneUpdate /\ c.pc = "update" /\ d.pc = "flush"
                      \/ CursorUpload /\ c.pc = "cursor" /\ d.pc \in {"wait", "ping", "flush"}
                      \/ CursorWait /\ c.pc = "wait" /\ d.pc = "ping"
                      \/ CursorPing /\ c.pc = "ping" /\ d.pc = "flush"
<1>0. \A c \in tail : c \in Commit /\ tail = {c}
  BY DEF TypeInv, CommitInv
<1>b. fences \in Nat /\ fences + 1 \in Nat
  BY DEF TypeInv
<1>1. CASE TailModeset
  <2>1. PICK c \in tail : c.pc = "modeset" /\ tail' = {[c EXCEPT !.pc = "update"]}
    BY <1>1 DEF TailModeset
  <2>2. UNCHANGED <<cur, prep>>
    BY <1>1 DEF TailModeset
  <2>3. PICK d : d = [c EXCEPT !.pc = "update"]
    OBVIOUS
  <2>4. /\ d \in Commit /\ d.op = c.op /\ d.fb = c.fb /\ d.active = c.active /\ d.old = c.old
        /\ d.modeset = c.modeset /\ d.pc = "update"
    BY <1>0, <2>3 DEF Commit
  <2> QED
    BY <1>0, <1>1, <2>1, <2>2, <2>3, <2>4
<1>2. CASE PrimaryPlaneUpdate
  <2>1. PICK c \in tail : /\ c.pc = "update"
                          /\ \E f \in Nat : \/ tail' = {[c EXCEPT !.pc = "flush"]}
                                            \/ tail' = {[c EXCEPT !.pc = "flush", !.fence = f]}
    BY <1>2, UpdateCases
  <2>2. UNCHANGED <<cur, prep>>
    BY <1>2 DEF PrimaryPlaneUpdate
  <2>a. PICK f \in Nat : \E d : tail' = {d} /\ d \in {[c EXCEPT !.pc = "flush"], [c EXCEPT !.pc = "flush", !.fence = f]}
    BY <2>1
  <2>3. PICK d : tail' = {d} /\ d \in {[c EXCEPT !.pc = "flush"], [c EXCEPT !.pc = "flush", !.fence = f]}
    BY <2>a
  <2>4. /\ d \in Commit /\ d.op = c.op /\ d.fb = c.fb /\ d.active = c.active /\ d.old = c.old
        /\ d.modeset = c.modeset /\ d.pc = "flush"
    BY <1>0, <2>3 DEF Commit
  <2> QED
    BY <1>0, <1>2, <2>1, <2>2, <2>3, <2>4
<1>3. CASE AtomicFlush
  BY <1>0, <1>3 DEF AtomicFlush
<1>4. CASE CursorUpload
  <2>1. PICK c \in tail : /\ c.pc = "cursor"
                          /\ \/ tail' = {[c EXCEPT !.pc = "wait", !.fence = fences + 1]}
                             \/ tail' = {[c EXCEPT !.pc = "flush"]}
                             \/ tail' = {[c EXCEPT !.pc = "ping"]}
    BY <1>4 DEF CursorUpload
  <2>2. UNCHANGED <<cur, prep>>
    BY <1>4 DEF CursorUpload
  <2>a. PICK f \in Nat, l \in {"wait", "ping", "flush"} : \E d :
           tail' = {d} /\ d \in {[c EXCEPT !.pc = l], [c EXCEPT !.pc = l, !.fence = f]}
    BY <1>b, <2>1
  <2>3. PICK d : tail' = {d} /\ d \in {[c EXCEPT !.pc = l], [c EXCEPT !.pc = l, !.fence = f]}
    BY <2>a
  <2>4. /\ d \in Commit /\ d.op = c.op /\ d.fb = c.fb /\ d.active = c.active /\ d.old = c.old
        /\ d.modeset = c.modeset /\ d.pc = l
    BY <1>0, <2>3 DEF Commit
  <2> QED
    BY <1>0, <1>4, <2>1, <2>2, <2>3, <2>4
<1>5. CASE CursorWait
  <2>1. PICK c \in tail : /\ c.pc = "wait"
                          /\ \/ tail' = {[c EXCEPT !.pc = "ping", !.fence = 0]}
                             \/ tail' = {[c EXCEPT !.pc = "ping"]}
    BY <1>5 DEF CursorWait
  <2>2. UNCHANGED <<cur, prep>>
    BY <1>5 DEF CursorWait
  <2>a. PICK f \in Nat : \E d :
           tail' = {d} /\ d \in {[c EXCEPT !.pc = "ping"], [c EXCEPT !.pc = "ping", !.fence = f]}
    BY <1>b, <2>1
  <2>3. PICK d : tail' = {d} /\ d \in {[c EXCEPT !.pc = "ping"], [c EXCEPT !.pc = "ping", !.fence = f]}
    BY <2>a
  <2>4. /\ d \in Commit /\ d.op = c.op /\ d.fb = c.fb /\ d.active = c.active /\ d.old = c.old
        /\ d.modeset = c.modeset /\ d.pc = "ping"
    BY <1>0, <2>3 DEF Commit
  <2> QED
    BY <1>0, <1>5, <2>1, <2>2, <2>3, <2>4
<1>6. CASE CursorPing
  <2>1. PICK c \in tail : c.pc = "ping" /\ tail' = {[c EXCEPT !.pc = "flush"]}
    BY <1>6 DEF CursorPing
  <2>2. UNCHANGED <<cur, prep>>
    BY <1>6 DEF CursorPing
  <2>3. PICK d : d = [c EXCEPT !.pc = "flush"]
    OBVIOUS
  <2>4. /\ d \in Commit /\ d.op = c.op /\ d.fb = c.fb /\ d.active = c.active /\ d.old = c.old
        /\ d.modeset = c.modeset /\ d.pc = "flush"
    BY <1>0, <2>3 DEF Commit
  <2> QED
    BY <1>0, <1>6, <2>1, <2>2, <2>3, <2>4
<1> QED
  BY <1>1, <1>2, <1>3, <1>4, <1>5, <1>6 DEF TailNext

LEMMA CommitStep ==
  ASSUME TypeInv, CommitInv, [Next]_vars
  PROVE  CommitInv'
<1>1. CASE UNCHANGED <<cur, prep, tail>>
  BY <1>1 DEF CommitInv
<1>2. CASE PreparePrimary
  <2>1. PICK fb \in Obj \cup {None}, active \in BOOLEAN, newMode \in BOOLEAN :
          prep' = {[op |-> "primary", fb |-> fb, active |-> active, old |-> None,
                       modeset |-> newMode, pc |-> "modeset", fence |-> 0]}
    BY <1>2 DEF PreparePrimary
  <2>2. /\ \A c, d \in prep' : c = d
        /\ \A c \in prep' :
             /\ c.old = None /\ c.fence = 0
             /\ IF c.op = "primary" THEN c.pc = "modeset"
                ELSE c.pc = "cursor" /\ ~c.modeset /\ c.fb \notin Imported
    BY <2>1
  <2>3. UNCHANGED <<cur, tail>>
    BY <1>2 DEF PreparePrimary
  <2> QED
    BY <2>2, <2>3 DEF CommitInv
<1>3. CASE PrepareCursor
  <2>1. PICK fb \in Dumb \cup {None} :
          prep' = {[op |-> "cursor", fb |-> fb, active |-> FALSE, old |-> None, modeset |-> FALSE,
                    pc |-> "cursor", fence |-> 0]}
    BY <1>3 DEF PrepareCursor
  <2>2. /\ \A c, d \in prep' : c = d
        /\ \A c \in prep' :
             /\ c.old = None /\ c.fence = 0
             /\ IF c.op = "primary" THEN c.pc = "modeset"
                ELSE c.pc = "cursor" /\ ~c.modeset /\ c.fb \notin Imported
    BY <2>1, ShownFacts
  <2>3. UNCHANGED <<cur, tail>>
    BY <1>3 DEF PrepareCursor
  <2> QED
    BY <2>2, <2>3 DEF CommitInv
<1>4. CASE Swap
  <2>1. PICK c \in prep, d \in Commit :
           /\ tail = {} /\ tail' = {d} /\ prep = {c} /\ prep' = {}
           /\ d.op = c.op /\ d.fb = c.fb /\ d.active = c.active /\ d.pc = c.pc /\ d.fence = c.fence
           /\ cur' \in [fb : Shown, cursor : Shown \ Imported, active : BOOLEAN]
           /\ \/ /\ c.op = "cursor" /\ d.old = cur.cursor /\ d.modeset = c.modeset
                 /\ cur'.fb = cur.fb /\ cur'.active = cur.active
              \/ /\ c.op = "primary" /\ d.old = cur.fb /\ d.modeset = (c.modeset \/ c.active # cur.active)
                 /\ cur'.fb = c.fb /\ cur'.active = c.active
    BY <1>4, SwapCases
  <2>2. cur.cursor \notin Imported
    BY DEF TypeInv
  <2>3. IF d.op = "primary"
        THEN d.pc \in {"modeset", "update", "flush"} /\ d.fb = cur'.fb /\ d.active = cur'.active
        ELSE /\ d.pc \in {"cursor", "wait", "ping", "flush"} /\ ~d.modeset
             /\ d.fb \notin Imported /\ d.old \notin Imported
    BY <2>1, <2>2 DEF CommitInv
  <2>4. \A x \in tail' :
         IF x.op = "primary"
         THEN x.pc \in {"modeset", "update", "flush"} /\ x.fb = cur'.fb /\ x.active = cur'.active
         ELSE /\ x.pc \in {"cursor", "wait", "ping", "flush"} /\ ~x.modeset
              /\ x.fb \notin Imported /\ x.old \notin Imported
    BY <2>1, <2>3
  <2>5. (\A x, y \in tail' : x = y) /\ prep' = {}
    BY <2>1
  <2> QED
    BY <2>4, <2>5 DEF CommitInv
<1>5. CASE TailNext
  <2>1. PICK c \in tail :
           /\ tail = {c} /\ c \in Commit /\ UNCHANGED <<cur, prep>>
           /\ \/ AtomicFlush /\ tail' = {} /\ c.pc = "flush"
              \/ \E d \in Commit :
                   /\ tail' = {d} /\ d.op = c.op /\ d.fb = c.fb /\ d.active = c.active /\ d.old = c.old
                   /\ d.modeset = c.modeset
                   /\ \/ TailModeset /\ c.pc = "modeset" /\ d.pc = "update"
                      \/ PrimaryPlaneUpdate /\ c.pc = "update" /\ d.pc = "flush"
                      \/ CursorUpload /\ c.pc = "cursor" /\ d.pc \in {"wait", "ping", "flush"}
                      \/ CursorWait /\ c.pc = "wait" /\ d.pc = "ping"
                      \/ CursorPing /\ c.pc = "ping" /\ d.pc = "flush"
    BY <1>5, TailFacts
  <2>2. CASE tail' = {}
    BY <2>1, <2>2 DEF CommitInv
  <2>3. ASSUME NEW d \in Commit, tail' = {d}, d.op = c.op, d.fb = c.fb, d.active = c.active,
               d.old = c.old, d.modeset = c.modeset,
               \/ c.pc \in {"modeset", "update"} /\ d.pc \in {"update", "flush"}
               \/ c.pc \in {"cursor", "wait", "ping"} /\ d.pc \in {"wait", "ping", "flush"}
        PROVE  CommitInv'
    <3>1. /\ c.op = "primary" => d.pc \in {"modeset", "update", "flush"}
          /\ c.op = "cursor" => d.pc \in {"cursor", "wait", "ping", "flush"}
      BY <2>3 DEF CommitInv
    <3> QED
      BY <2>1, <2>3, <3>1, TailEdit
  <2> QED
    BY <2>1, <2>2, <2>3
<1> QED
  BY <1>1, <1>2, <1>3, <1>4, <1>5 DEF Next, vars, commitVars, ImportObj, ReleaseObj, MoveNotify, Move,
     FreeObj, CleanupFb, HostRead, HostCursor, Dequeue, Unplug
-----------------------------------------------------------------------------
(***************************************************************************)
(* The steps of the driver as an imported object sees them: commands are   *)
(* put behind the others; and the object stays as it is, is attached,      *)
(* locked and detached, for which there may be no memory, or unlocked when *)
(* the host has answered.                                                  *)
(***************************************************************************)
Sent(s) ==
  /\ s \in Seq(Command) /\ ring' = ring \o s
  /\ fences' \in Nat /\ fences <= fences'
  /\ \A k \in 1 .. Len(s) : s[k].fence = 0 \/ (fences < s[k].fence /\ s[k].fence <= fences')
  /\ UNCHANGED <<answered, signaled, backing, hostScan, uploaded>>

Same(j) ==
  /\ imp'[j].sgt = imp[j].sgt \/ (imp[j].attached /\ imp[j].kept)
  /\ imp'[j].attached = imp[j].attached /\ imp'[j].kept = imp[j].kept
  /\ imp'[j].lock = imp[j].lock /\ imp'[j].fence = imp[j].fence
  /\ imp'[j].life = imp[j].life \/ (imp[j].life = "held" /\ imp'[j].life = "released")
  /\ gen'[j] = gen[j]

Plain(s) ==
  \A k \in 1 .. Len(s) :
    /\ s[k].op \in {"SCANOUT", "FLUSH", "TRANSFER"} /\ (Upload(s[k]) => Len(s) = 1)
    /\ s[k].op # "TRANSFER" => s[k].o \in {None, cur.fb}

StepPlain == \E s : Sent(s) /\ Plain(s) /\ \A j \in Imported : Same(j)

StepAttach(i) ==
  /\ Sent(<<Cmd("ATTACH", i, gen[i], 0)>>) /\ fences' = fences
  /\ \A j \in Imported : j # i => Same(j)
  /\ gen'[i] = gen[i] /\ ~imp[i].kept /\ ~imp'[i].kept
  /\ imp[i].lock = "none" /\ ~imp[i].attached /\ imp[i].life \in {"none", "held"}
  /\ imp'[i].lock = "none" /\ imp'[i].attached /\ imp'[i].life = "held" /\ imp'[i].sgt # 0

StepDetach(i) ==
  \E s :
  /\ Sent(s)
  /\ \A j \in Imported : j # i => Same(j)
  /\ gen'[i] = gen[i]
  /\ imp[i].lock = "none" /\ imp[i].life \in {"held", "released"}
  /\ imp[i].pins = 0 \/ ~InUse(i)
  /\ imp'[i].lock # "none" /\ imp'[i].life = imp[i].life /\ imp'[i].kept = imp[i].kept
  /\ \/ /\ imp[i].attached /\ ~imp'[i].attached
        /\ imp'[i].fence = fences + 1 /\ fences' = fences + 1
        /\ \/ plugged /\ s = <<Cmd("DETACH", i, 0, fences + 1)>>
           \/ ~plugged /\ s = <<>>
     \/ /\ imp'[i].attached = imp[i].attached /\ imp'[i].fence = 0
        /\ fences' = fences /\ s = <<>>

StepUnlock(i) ==
  \E s :
  /\ Sent(s) /\ fences' = fences
  /\ \A j \in Imported : j # i => Same(j)
  /\ imp[i].lock # "none" /\ Unmapped(i)
  /\ gen'[i] = gen[i] + 1
  /\ imp'[i].sgt = 0 /\ imp'[i].kept = imp[i].attached /\ imp'[i].lock = "none"
  /\ \/ /\ imp[i].lock = "exporter" /\ s = <<>> /\ imp'[i].life = imp[i].life
        /\ imp'[i].attached = imp[i].attached
     \/ /\ imp[i].lock = "free" /\ imp'[i].life = "freed" /\ ~imp'[i].attached
        /\ (plugged /\ s = <<Cmd("UNREF", i, 0, 0)>>) \/ (~plugged /\ s = <<>>)

LEMMA FreeSingle ==
  ASSUME NEW c, NEW ops, NEW j
  PROVE  Free(<<c>>, ops, j) <=> ~Is(c, ops, j)
  BY DEF Free

LEMMA FreeEmpty ==
  ASSUME NEW ops, NEW j
  PROVE  Free(<<>>, ops, j)
  BY DEF Free

LEMMA SentNothing ==
  ASSUME TypeInv, UNCHANGED <<ring, fences, answered, signaled, backing, hostScan, uploaded>>
  PROVE  Sent(<<>>)
<1>1. ring' = ring \o <<>>
  BY PushNone DEF TypeInv
<1> QED
  BY <1>1 DEF Sent, TypeInv

LEMMA SentQueue ==
  ASSUME TypeInv, NEW s \in Seq(Command), Queue(s), fences' \in Nat, fences <= fences',
         \A k \in 1 .. Len(s) : s[k].fence = 0 \/ (fences < s[k].fence /\ s[k].fence <= fences'),
         UNCHANGED <<answered, signaled, backing, hostScan, uploaded>>
  PROVE  (plugged /\ Sent(s)) \/ (~plugged /\ Sent(<<>>))
<1>1. CASE plugged
  BY <1>1 DEF Queue, Sent
<1>2. CASE ~plugged
  <2>1. ring' = ring \o <<>>
    BY <1>2, PushNone DEF TypeInv, Queue
  <2> QED
    BY <1>2, <2>1 DEF Sent
<1> QED
  BY <1>1, <1>2

LEMMA OneSent ==
  ASSUME TypeInv, NEW op \in Ops, NEW o \in Shown, NEW n \in Nat, NEW f \in Nat,
         Queue(<<Cmd(op, o, n, f)>>), fences' \in Nat, fences <= fences',
         f = 0 \/ (fences < f /\ f <= fences'),
         UNCHANGED <<answered, signaled, backing, hostScan, uploaded>>
  PROVE  (plugged /\ Sent(<<Cmd(op, o, n, f)>>)) \/ (~plugged /\ Sent(<<>>))
<1> DEFINE c == Cmd(op, o, n, f)
<1>1. c \in Command /\ c.fence = f /\ Queue(<<c>>)
  BY CmdFacts
<1> HIDE DEF c
<1>2. /\ <<c>> \in Seq(Command)
      /\ \A k \in 1 .. Len(<<c>>) : <<c>>[k].fence = 0 \/ (fences < <<c>>[k].fence /\ <<c>>[k].fence <= fences')
  BY <1>1
<1>3. PICK s : s = <<c>>
  OBVIOUS
<1>4. (plugged /\ Sent(s)) \/ (~plugged /\ Sent(<<>>))
  BY <1>1, <1>2, <1>3, SentQueue
<1> QED
  BY <1>3, <1>4 DEF c

LEMMA ObjKind ==
  ASSUME TypeInv, PageInv, LifeInv, NEW i \in Imported,
         ImportObj(i) \/ ReleaseObj(i) \/ MoveNotify(i) \/ Move(i) \/ FreeObj(i)
  PROVE  StepPlain \/ StepAttach(i) \/ StepDetach(i) \/ StepUnlock(i)
<1> USE DEF hostVars
<1>0. /\ fences \in Nat /\ fences + 1 \in Nat /\ gen[i] \in Nat /\ gen[i] # 0 /\ 0 \in Nat /\ i \in Shown
      /\ fences <= fences /\ fences < fences + 1 /\ fences <= fences + 1 /\ fences + 1 <= fences + 1
  BY ShownFacts DEF TypeInv
<1>1. CASE ImportObj(i)
  <2>1. /\ imp[i].life = "none" /\ plugged /\ Queue(<<Cmd("ATTACH", i, gen[i], 0)>>)
        /\ imp'[i].life = "held" /\ imp'[i].sgt = gen[i] /\ imp'[i].attached /\ imp'[i].lock = "none" /\ ~imp'[i].kept
        /\ \A j \in Imported : j # i => imp'[j] = imp[j]
    BY <1>1, ImportFacts DEF CmdResourceCreateBlob
  <2>2. imp[i].lock = "none" /\ ~imp[i].attached
    BY <2>1 DEF LifeInv, Life
  <2>6. ~imp[i].kept
    BY <2>1, <2>2 DEF PageInv, Page
  <2>3. UNCHANGED <<answered, signaled, backing, hostScan, uploaded, fences, gen>>
    BY <1>1 DEF ImportObj
  <2>4. Sent(<<Cmd("ATTACH", i, gen[i], 0)>>)
    BY <1>0, <2>1, <2>3, OneSent DEF Ops
  <2>5. \A j \in Imported : j # i => Same(j)
    BY <2>1, <2>3 DEF Same
  <2> QED
    BY <1>0, <2>1, <2>2, <2>3, <2>4, <2>5, <2>6 DEF StepAttach
<1>2. CASE ReleaseObj(i)
  <2>1. /\ imp' = [imp EXCEPT ![i].life = "released"] /\ imp[i].life = "held"
        /\ UNCHANGED <<ring, answered, signaled, backing, hostScan, uploaded, fences, gen>>
        /\ imp \in [Imported -> Import]
    BY <1>2 DEF ReleaseObj, TypeInv
  <2>2. /\ \A j \in Imported : j # i => imp'[j] = imp[j]
        /\ imp'[i].life = "released" /\ imp'[i].pins = imp[i].pins /\ imp'[i].sgt = imp[i].sgt
        /\ imp'[i].attached = imp[i].attached /\ imp'[i].lock = imp[i].lock /\ imp'[i].fence = imp[i].fence
        /\ imp'[i].kept = imp[i].kept
    BY <2>1, EditLife
  <2>3. \A j \in Imported : Same(j)
    BY <2>1, <2>2 DEF Same
  <2>4. Sent(<<>>) /\ Plain(<<>>)
    BY <2>1, SentNothing DEF Plain
  <2> QED
    BY <2>3, <2>4 DEF StepPlain
<1>a. ASSUME NEW who \in {"exporter", "free"}, Unmap(i, who), imp[i].life \in {"held", "released"},
             imp[i].pins = 0 \/ ~InUse(i),
             UNCHANGED <<answered, signaled, backing, hostScan, uploaded, gen>>
      PROVE  StepDetach(i)
  <2>1. /\ \A j \in Imported : j # i => imp'[j] = imp[j]
        /\ imp[i].lock = "none" /\ imp'[i].life = imp[i].life /\ imp'[i].lock = who
        /\ imp'[i].kept = imp[i].kept
        /\ \/ /\ imp[i].attached /\ ~imp'[i].attached /\ imp'[i].fence = fences + 1 /\ fences' = fences + 1
              /\ Queue(<<CmdDetachBacking(i, fences + 1)>>)
           \/ imp'[i].attached = imp[i].attached /\ imp'[i].fence = 0 /\ UNCHANGED <<ring, fences>>
    BY <1>a, UnmapFacts
  <2>2. \A j \in Imported : j # i => Same(j)
    BY <1>a, <2>1 DEF Same
  <2>3. who # "none"
    OBVIOUS
  <2>4. CASE /\ imp[i].attached /\ ~imp'[i].attached /\ imp'[i].fence = fences + 1 /\ fences' = fences + 1
             /\ Queue(<<CmdDetachBacking(i, fences + 1)>>)
    <3>1. PICK f \in Nat : f = fences + 1
      BY <1>0
    <3>2. Queue(<<Cmd("DETACH", i, 0, f)>>)
      BY <2>4, <3>1 DEF CmdDetachBacking
    <3>3. (plugged /\ Sent(<<Cmd("DETACH", i, 0, f)>>)) \/ (~plugged /\ Sent(<<>>))
      BY <1>0, <1>a, <2>4, <3>1, <3>2, OneSent DEF Ops
    <3> QED
      BY <1>a, <2>1, <2>2, <2>3, <2>4, <3>1, <3>3 DEF StepDetach
  <2>5. CASE imp'[i].attached = imp[i].attached /\ imp'[i].fence = 0 /\ UNCHANGED <<ring, fences>>
    <3>1. Sent(<<>>)
      BY <1>a, <2>5, SentNothing
    <3> QED
      BY <1>a, <2>1, <2>2, <2>3, <2>5, <3>1 DEF StepDetach
  <2> QED
    BY <2>1, <2>4, <2>5
<1>3. CASE MoveNotify(i)
  BY <1>3, <1>a DEF MoveNotify
<1>4. CASE Move(i)
  <2>1. /\ \A j \in Imported : j # i => imp'[j] = imp[j] /\ gen'[j] = gen[j]
        /\ imp'[i].life = imp[i].life /\ imp'[i].sgt = 0
        /\ imp'[i].attached = imp[i].attached /\ imp'[i].kept = imp[i].attached
        /\ imp'[i].lock = "none" /\ gen'[i] = gen[i] + 1
    BY <1>4, MoveFacts
  <2>2. /\ imp[i].lock = "exporter" /\ Unmapped(i)
        /\ UNCHANGED <<ring, answered, signaled, backing, hostScan, uploaded, fences>>
    BY <1>4 DEF Move
  <2>4. \A j \in Imported : j # i => Same(j)
    BY <2>1 DEF Same
  <2>5. Sent(<<>>)
    BY <2>2, SentNothing
  <2> QED
    BY <2>1, <2>2, <2>4, <2>5 DEF StepUnlock
<1>5. CASE FreeObj(i)
  <2>1. UNCHANGED <<answered, signaled, backing, hostScan, uploaded>>
    BY <1>5 DEF FreeObj
  <2>2. CASE imp[i].life = "released" /\ ~InUse(i) /\ Unmap(i, "free") /\ UNCHANGED gen
    BY <1>a, <2>1, <2>2
  <2>3. CASE Freed(i)
    <3>1. /\ \A j \in Imported : j # i => imp'[j] = imp[j] /\ gen'[j] = gen[j]
          /\ imp'[i].life = "freed" /\ imp'[i].sgt = 0
          /\ ~imp'[i].attached /\ imp'[i].kept = imp[i].attached
          /\ imp'[i].lock = "none" /\ gen'[i] = gen[i] + 1
      BY <2>3, FreedFacts
    <3>2. /\ imp[i].lock = "free" /\ Unmapped(i) /\ fences' = fences
          /\ Queue(<<Cmd("UNREF", i, 0, 0)>>)
      BY <2>3 DEF Freed, CmdUnref
    <3>3. (plugged /\ Sent(<<Cmd("UNREF", i, 0, 0)>>)) \/ (~plugged /\ Sent(<<>>))
      BY <1>0, <2>1, <3>2, OneSent DEF Ops
    <3>4. \A j \in Imported : j # i => Same(j)
      BY <3>1 DEF Same
    <3> QED
      BY <3>1, <3>2, <3>3, <3>4 DEF StepUnlock
  <2> QED
    BY <1>5, <2>2, <2>3, FreeObjCases
<1> QED
  BY <1>1, <1>2, <1>3, <1>4, <1>5

(* What the steps of a commit send. *)
LEMMA ModesetSent ==
  ASSUME TypeInv, CommitInv, TailModeset
  PROVE  \E c \in tail : \E s :
           /\ Sent(s) /\ c.pc = "modeset" /\ fences' = fences
           /\ \/ s = <<>> /\ (~plugged \/ ~c.modeset)
              \/ plugged /\ c.modeset /\ s = <<Cmd("SCANOUT", None, 0, 0)>>
<1>1. PICK c \in tail :
       /\ c.pc = "modeset"
       /\ Queue(IF c.modeset THEN <<CmdSetScanout(None)>> ELSE <<>>)
  BY DEF TailModeset
<1>2. UNCHANGED <<fences, answered, signaled, backing, hostScan, uploaded>>
  BY DEF TailModeset, hostVars
<1>3. fences \in Nat /\ fences <= fences /\ 0 \in Nat /\ None \in Shown
  BY ShownFacts DEF TypeInv
<1>4. CASE c.modeset
  <2>1. Queue(<<Cmd("SCANOUT", None, 0, 0)>>)
    BY <1>1, <1>4 DEF CmdSetScanout
  <2>2. (plugged /\ Sent(<<Cmd("SCANOUT", None, 0, 0)>>)) \/ (~plugged /\ Sent(<<>>))
    BY <1>2, <1>3, <2>1, OneSent DEF Ops
  <2> QED
    BY <1>1, <1>2, <1>4, <2>2
<1>5. CASE ~c.modeset
  <2>1. ring' = ring
    BY <1>1, <1>5, PushNone DEF Queue, TypeInv
  <2> QED
    BY <1>1, <1>2, <1>5, <2>1, SentNothing
<1> QED
  BY <1>4, <1>5

LEMMA UpdateSent ==
  ASSUME TypeInv, CommitInv, PrimaryPlaneUpdate
  PROVE  \E c \in tail : \E s :
           /\ Sent(s) /\ c.pc = "update" /\ c \in Commit
           /\ \/ ~plugged /\ s = <<>>
              \/ /\ plugged
                 /\ c.fb = None \/ ~c.active
                 /\ s = <<Cmd("SCANOUT", None, 0, 0)>> /\ needsModeset' = needsModeset
              \/ /\ plugged /\ c.fb # None /\ c.active /\ c.fb = c.old
                 /\ s = <<>> /\ needsModeset' = needsModeset
              \/ \E f \in Nat :
                 /\ plugged /\ c.fb # None /\ c.active
                 /\ s \in UpdateCommands(c.fb, NewScanout(c), f)
                 /\ needsModeset' = IF NewScanout(c) THEN FALSE ELSE needsModeset
<1>0. fences \in Nat /\ fences + 1 \in Nat /\ fences <= fences /\ fences < fences + 1 /\ 0 \in Nat
      /\ fences <= fences + 1 /\ fences + 1 <= fences + 1 /\ fences + 1 # 0 /\ None \in Shown
  BY ShownFacts DEF TypeInv
<1>1. PICK c \in tail :
           /\ c \in Commit /\ c.pc = "update"
           /\ \/ /\ c.fb = None \/ ~c.active
                 /\ Queue(<<CmdSetScanout(None)>>)
                 /\ tail' = {[c EXCEPT !.pc = "flush"]}
                 /\ UNCHANGED <<needsModeset, fences>>
              \/ /\ c.fb # None /\ c.active /\ c.fb = c.old
                 /\ tail' = {[c EXCEPT !.pc = "flush"]}
                 /\ UNCHANGED <<ring, needsModeset, fences>>
              \/ \E f \in Nat :
                 /\ c.fb # None /\ c.active
                 /\ f = IF c.fb \in Imported THEN fences + 1 ELSE 0
                 /\ \E q \in UpdateCommands(c.fb, NewScanout(c), f) : Queue(q)
                 /\ needsModeset' = IF NewScanout(c) THEN FALSE ELSE needsModeset
                 /\ fences' = IF f = 0 THEN fences ELSE f
                 /\ tail' = {[c EXCEPT !.pc = "flush", !.fence = f]}
  BY UpdateCases
<1>2. UNCHANGED <<answered, signaled, backing, hostScan, uploaded>>
  BY DEF PrimaryPlaneUpdate, hostVars
<1>3. CASE /\ c.fb = None \/ ~c.active
           /\ Queue(<<CmdSetScanout(None)>>)
           /\ UNCHANGED <<needsModeset, fences>>
  <2>1. Queue(<<Cmd("SCANOUT", None, 0, 0)>>)
    BY <1>3 DEF CmdSetScanout
  <2>2. (plugged /\ Sent(<<Cmd("SCANOUT", None, 0, 0)>>)) \/ (~plugged /\ Sent(<<>>))
    BY <1>0, <1>2, <1>3, <2>1, OneSent DEF Ops
  <2> QED
    BY <1>1, <1>3, <2>2
<1>4. CASE /\ c.fb # None /\ c.active /\ c.fb = c.old
           /\ UNCHANGED <<ring, needsModeset, fences>>
  <2>1. Sent(<<>>)
    BY <1>2, <1>4, SentNothing
  <2> QED
    BY <1>1, <1>4, <2>1
<1>5. ASSUME NEW f \in Nat, c.fb # None, c.active,
             f = IF c.fb \in Imported THEN fences + 1 ELSE 0,
             \E q \in UpdateCommands(c.fb, NewScanout(c), f) : Queue(q),
             needsModeset' = IF NewScanout(c) THEN FALSE ELSE needsModeset,
             fences' = IF f = 0 THEN fences ELSE f
      PROVE  \E s : /\ Sent(s)
                    /\ \/ ~plugged /\ s = <<>>
                       \/ plugged /\ s \in UpdateCommands(c.fb, NewScanout(c), f)
  <2>1. PICK s \in UpdateCommands(c.fb, NewScanout(c), f) : Queue(s)
    BY <1>5
  <2>2. c.fb \in Obj /\ NewScanout(c) \in BOOLEAN
    BY <1>1, <1>5 DEF Commit, Shown, NewScanout, TypeInv
  <2>3. /\ s \in Seq(Command)
        /\ \A k \in 1 .. Len(s) :
              \/ s[k] = Cmd("TRANSFER", c.fb, 0, 0)
              \/ s[k] = Cmd("SCANOUT", c.fb, 0, 0)
              \/ s[k] = Cmd("FLUSH", c.fb, 0, f)
    BY <2>1, <2>2, UpdateFacts
  <2>4. \A k \in 1 .. Len(s) : s[k].fence = 0 \/ s[k].fence = f
    BY <2>3 DEF Cmd
  <2>5. fences' \in Nat /\ fences <= fences' /\ (f = 0 \/ (fences < f /\ f <= fences'))
    BY <1>0, <1>5
  <2>6. \A k \in 1 .. Len(s) : s[k].fence = 0 \/ (fences < s[k].fence /\ s[k].fence <= fences')
    BY <2>4, <2>5
  <2>7. Queue(s)
    BY <1>5, <2>1
  <2>8. (plugged /\ Sent(s)) \/ (~plugged /\ Sent(<<>>))
    BY <1>2, <2>3, <2>5, <2>6, <2>7, SentQueue
  <2> QED
    BY <2>1, <2>8
<1>6. CASE \E f \in Nat :
                 /\ c.fb # None /\ c.active
                 /\ f = IF c.fb \in Imported THEN fences + 1 ELSE 0
                 /\ \E q \in UpdateCommands(c.fb, NewScanout(c), f) : Queue(q)
                 /\ needsModeset' = IF NewScanout(c) THEN FALSE ELSE needsModeset
                 /\ fences' = IF f = 0 THEN fences ELSE f
  <2>1. PICK f \in Nat :
                 /\ c.fb # None /\ c.active
                 /\ f = IF c.fb \in Imported THEN fences + 1 ELSE 0
                 /\ \E q \in UpdateCommands(c.fb, NewScanout(c), f) : Queue(q)
                 /\ needsModeset' = IF NewScanout(c) THEN FALSE ELSE needsModeset
                 /\ fences' = IF f = 0 THEN fences ELSE f
    BY <1>6
  <2>2. PICK s : /\ Sent(s)
                 /\ \/ ~plugged /\ s = <<>>
                    \/ plugged /\ s \in UpdateCommands(c.fb, NewScanout(c), f)
    BY <1>5, <2>1
  <2> QED
    BY <1>1, <2>1, <2>2, Zenon
<1> QED
  BY <1>1, <1>3, <1>4, <1>6

LEMMA UploadSent ==
  ASSUME TypeInv, CommitInv, CursorUpload
  PROVE  \E c \in tail : \E s :
           /\ Sent(s) /\ c.pc = "cursor"
           /\ \/ s = <<>> /\ fences' = fences /\ tail' = {[c EXCEPT !.pc = "ping"]}
              \/ s = <<>> /\ fences' = fences /\ tail' = {[c EXCEPT !.pc = "flush"]}
              \/ /\ fences' = fences + 1 /\ tail' = {[c EXCEPT !.pc = "wait", !.fence = fences + 1]}
                 /\ s = <<>> \/ s = <<Cmd("TRANSFER", c.fb, 0, fences + 1)>>
<1>0. fences \in Nat /\ fences + 1 \in Nat /\ fences <= fences /\ fences < fences + 1 /\ 0 \in Nat
      /\ fences <= fences + 1 /\ fences + 1 <= fences + 1 /\ fences + 1 # 0
  BY DEF TypeInv
<1>1. PICK c \in tail :
       /\ c.pc = "cursor"
       /\ \/ /\ fences' = fences + 1
             /\ Queue(<<CmdTransferToHost2d(c.fb, fences + 1)>>)
             /\ tail' = {[c EXCEPT !.pc = "wait", !.fence = fences + 1]}
          \/ /\ tail' = {[c EXCEPT !.pc = "flush"]} \/ tail' = {[c EXCEPT !.pc = "ping"]}
             /\ UNCHANGED <<fences, ring>>
  BY DEF CursorUpload
<1>2. UNCHANGED <<answered, signaled, backing, hostScan, uploaded>>
  BY DEF CursorUpload, hostVars
<1>3. c.fb \in Shown
  BY DEF TypeInv, Commit
<1>4. CASE /\ fences' = fences + 1
           /\ Queue(<<CmdTransferToHost2d(c.fb, fences + 1)>>)
           /\ tail' = {[c EXCEPT !.pc = "wait", !.fence = fences + 1]}
  <2>1. PICK f \in Nat : f = fences + 1
    BY <1>0
  <2>2. Queue(<<Cmd("TRANSFER", c.fb, 0, f)>>) /\ fences' = f
    BY <1>1, <1>4, <2>1 DEF CmdTransferToHost2d
  <2>3. (plugged /\ Sent(<<Cmd("TRANSFER", c.fb, 0, f)>>)) \/ (~plugged /\ Sent(<<>>))
    BY <1>0, <1>2, <1>3, <2>1, <2>2, OneSent DEF Ops
  <2> QED
    BY <1>1, <1>4, <2>1, <2>3
<1>5. CASE /\ tail' = {[c EXCEPT !.pc = "flush"]} \/ tail' = {[c EXCEPT !.pc = "ping"]}
           /\ UNCHANGED <<fences, ring>>
  <2>1. Sent(<<>>)
    BY <1>1, <1>2, <1>5, SentNothing
  <2> QED
    BY <1>1, <1>5, <2>1
<1> QED
  BY <1>1, <1>4, <1>5

LEMMA PlainCommands ==
  /\ Plain(<<>>)
  /\ \A o, n, f : Plain(<<Cmd("SCANOUT", None, n, f)>>) /\ Plain(<<Cmd("TRANSFER", o, n, f)>>)
  BY DEF Plain, Cmd, Upload

LEMMA UpdatePlain ==
  ASSUME TypeInv, NEW c \in Commit, c.fb # None, c.fb = cur.fb, NEW f \in Nat,
         NEW s \in UpdateCommands(c.fb, NewScanout(c), f)
  PROVE  Plain(s)
<1>1. c.fb \in Obj /\ NewScanout(c) \in BOOLEAN
  BY DEF Commit, Shown, NewScanout, TypeInv
<1>3. \A k \in 1 .. Len(s) :
              \/ s[k] = Cmd("TRANSFER", c.fb, 0, 0)
              \/ s[k] = Cmd("SCANOUT", c.fb, 0, 0)
              \/ s[k] = Cmd("FLUSH", c.fb, 0, f)
  BY <1>1, UpdateFacts
<1> QED
  BY <1>3 DEF Plain, Cmd, Upload

LEMMA CommitKind ==
  ASSUME TypeInv, CommitInv, PageInv, LifeInv,
         PreparePrimary \/ PrepareCursor \/ Swap \/ TailNext \/ CleanupFb \/ HostCursor \/ Unplug
           \/ UNCHANGED vars
  PROVE  StepPlain \/ \E i \in Imported : StepAttach(i)
<1> USE DEF hostVars, commitVars
<1>a. ASSUME NEW s, Sent(s), Plain(s), UNCHANGED <<imp, gen>> PROVE StepPlain
  BY <1>a DEF StepPlain, Same
<1>b. ASSUME UNCHANGED <<ring, fences, answered, signaled, backing, hostScan, uploaded, imp, gen>>
      PROVE  StepPlain
  BY <1>a, <1>b, SentNothing, PlainCommands
<1>1. CASE PreparePrimary
  <2>1. PICK fb \in Obj \cup {None} :
          /\ fb \in Imported => imp[fb].life = "held"
          /\ IF fb \in Imported THEN PrepareImported(fb) ELSE UNCHANGED <<imp, ring>>
    BY <1>1 DEF PreparePrimary
  <2>2. plugged /\ UNCHANGED <<fences, answered, signaled, backing, hostScan, uploaded, gen>>
    BY <1>1 DEF PreparePrimary
  <2>3. CASE fb \notin Imported
    BY <1>b, <2>1, <2>2, <2>3
  <2>4. CASE fb \in Imported
    <3>1. /\ \A j \in Imported : j # fb => imp'[j] = imp[j]
          /\ imp[fb].lock = "none" /\ imp[fb].life = "held"
          /\ imp'[fb].life = imp[fb].life
          /\ imp'[fb].lock = "none" /\ imp'[fb].fence = imp[fb].fence
          /\ imp'[fb].kept = imp[fb].kept
          /\ \/ /\ imp[fb].sgt # 0 /\ UNCHANGED ring
                /\ imp'[fb].sgt = imp[fb].sgt /\ imp'[fb].attached = imp[fb].attached
             \/ /\ imp[fb].sgt = 0 /\ Queue(ObjectAttach(fb))
                /\ imp'[fb].sgt = gen[fb] /\ imp'[fb].attached
      BY <2>1, <2>4, PrepareFacts
    <3>2. \A j \in Imported : j # fb => Same(j)
      BY <2>2, <3>1 DEF Same
    <3>3. CASE UNCHANGED ring /\ imp'[fb].sgt = imp[fb].sgt /\ imp'[fb].attached = imp[fb].attached
      <4>1. \A j \in Imported : Same(j)
        BY <2>2, <3>1, <3>2, <3>3 DEF Same
      <4> QED
        BY <2>2, <3>3, <4>1, SentNothing, PlainCommands DEF StepPlain
    <3>4. CASE /\ imp[fb].sgt = 0 /\ Queue(ObjectAttach(fb))
               /\ imp'[fb].sgt = gen[fb] /\ imp'[fb].attached
      <4>0. imp[fb].attached <=> imp[fb].kept
        BY <2>4, <3>1, <3>4 DEF PageInv, Page
      <4>1. CASE imp[fb].attached
        <5>1. ring' = ring
          BY <3>4, <4>1, PushNone DEF Queue, ObjectAttach, TypeInv
        <5>2. imp[fb].attached \in BOOLEAN /\ imp'[fb].attached \in BOOLEAN
          BY <2>1, <2>4, PrepareFacts DEF TypeInv, Import
        <5>3. \A j \in Imported : Same(j)
          BY <2>2, <3>1, <3>2, <3>4, <4>0, <4>1, <5>2 DEF Same
        <5> QED
          BY <2>2, <5>1, <5>3, SentNothing, PlainCommands DEF StepPlain
      <4>2. CASE ~imp[fb].attached
        <5>2. Queue(<<Cmd("ATTACH", fb, gen[fb], 0)>>)
          BY <3>4, <4>2 DEF ObjectAttach, CmdAttachBacking
        <5>3. fences \in Nat /\ fences <= fences /\ gen[fb] \in Nat /\ gen[fb] # 0 /\ fb \in Shown /\ 0 \in Nat
          BY <2>4, ShownFacts DEF TypeInv
        <5>4. Sent(<<Cmd("ATTACH", fb, gen[fb], 0)>>)
          BY <2>2, <5>2, <5>3, OneSent DEF Ops
        <5>5. StepAttach(fb)
          BY <2>2, <3>1, <3>2, <3>4, <4>0, <4>2, <5>3, <5>4 DEF StepAttach
        <5> QED
          BY <2>4, <5>5
      <4> QED
        BY <4>1, <4>2
    <3> QED
      BY <3>1, <3>3, <3>4
  <2> QED
    BY <2>3, <2>4
<1>2. CASE PrepareCursor \/ Swap \/ AtomicFlush \/ CursorWait \/ CursorPing \/ HostCursor \/ Unplug
           \/ UNCHANGED vars
  BY <1>2, <1>b DEF PrepareCursor, Swap, AtomicFlush, CursorWait, CursorPing, HostCursor, Unplug, vars
<1>3. CASE TailModeset
  BY <1>3, <1>a, ModesetSent, PlainCommands DEF TailModeset
<1>4. CASE PrimaryPlaneUpdate
  <2>1. UNCHANGED <<imp, gen>>
    BY <1>4 DEF PrimaryPlaneUpdate
  <2>2. \E s : Sent(s) /\ Plain(s)
    <3>1. \A c \in tail : c.pc = "update" => c.fb = cur.fb
      BY DEF CommitInv
    <3> QED
      BY <1>4, <3>1, UpdateSent, UpdatePlain, PlainCommands
  <2> QED
    BY <1>a, <2>1, <2>2
<1>5. CASE CursorUpload
  BY <1>5, <1>a, UploadSent, PlainCommands DEF CursorUpload
<1>6. CASE CleanupFb
  <2>1. UNCHANGED <<ring, fences, answered, signaled, backing, hostScan, uploaded, gen>>
    BY <1>6 DEF CleanupFb
  <2> DEFINE o == Head(trash)
  <2>2. imp[o] \in Import /\ o \in Imported /\ imp \in [Imported -> Import]
    BY <1>6 DEF CleanupFb, TypeInv
  <2>3. imp[o].pins - 1 \in Int
    BY <2>2 DEF Import
  <2>4. imp' = [imp EXCEPT ![o].pins = imp[o].pins - 1]
    BY <1>6 DEF CleanupFb
  <2> HIDE DEF o
  <2>5. /\ \A j \in Imported : j # o => imp'[j] = imp[j]
        /\ imp'[o].life = imp[o].life /\ imp'[o].sgt = imp[o].sgt
        /\ imp'[o].attached = imp[o].attached /\ imp'[o].lock = imp[o].lock
        /\ imp'[o].fence = imp[o].fence /\ imp'[o].kept = imp[o].kept
    BY <2>2, <2>3, <2>4, EditPins
  <2>6. \A j \in Imported : Same(j)
    BY <2>1, <2>5 DEF Same
  <2> QED
    BY <2>1, <2>6, SentNothing, PlainCommands DEF StepPlain
<1> QED
  BY <1>1, <1>2, <1>3, <1>4, <1>5, <1>6 DEF TailNext

LEMMA StepKinds ==
  ASSUME TypeInv, CommitInv, PageInv, LifeInv, [Next]_vars
  PROVE  \/ HostRead \/ Dequeue \/ StepPlain
         \/ \E i \in Imported : StepAttach(i) \/ StepDetach(i) \/ StepUnlock(i)
  BY ObjKind, CommitKind DEF Next
-----------------------------------------------------------------------------
(* Pages. *)
LEMMA RingSent ==
  ASSUME TypeInv, RingInv, NEW s, Sent(s),
         \A k \in 1 .. Len(s) :
            /\ s[k].op \in {"DETACH", "UNREF"} => s[k].n = 0 /\ s[k].o \in Imported
            /\ s[k].op = "ATTACH" => s[k].o \in Imported /\ s[k].n # 0 /\ s[k].n = gen'[s[k].o],
         \A i \in Imported :
            \/ gen'[i] = gen[i] /\ (imp[i].kept => imp'[i].kept)
            \/ imp'[i].kept
            \/ Free(ring, {"ATTACH"}, i)
  PROVE  RingInv'
<1>0. ring \in Seq(Command) /\ s \in Seq(Command) /\ fences \in Nat /\ fences' \in Nat /\ fences <= fences'
  BY DEF TypeInv, Sent
<1>1. /\ ring' = ring \o s /\ answered' = answered /\ signaled' = signaled
      /\ \A k \in 1 .. Len(s) : s[k].fence = 0 \/ (fences < s[k].fence /\ s[k].fence <= fences')
  BY DEF Sent
<1>2. \A k \in 1 .. Len(ring \o s) :
              \/ k \in 1 .. Len(ring) /\ (ring \o s)[k] = ring[k]
              \/ k - Len(ring) \in 1 .. Len(s) /\ k > Len(ring) /\ (ring \o s)[k] = s[k - Len(ring)]
  BY <1>0, PushFacts
<1>3. ASSUME NEW k \in 1 .. Len(ring')
      PROVE  /\ ring'[k].op \in {"DETACH", "UNREF"} => ring'[k].n = 0
             /\ ring'[k].op = "ATTACH" =>
                  /\ ring'[k].o \in Imported /\ ring'[k].n # 0
                  /\ ring'[k].n = gen'[ring'[k].o] \/ imp'[ring'[k].o].kept
             /\ ring'[k].op \in {"DETACH", "UNREF"} => ring'[k].o \in Imported
             /\ ring'[k].fence <= fences'
  <2>1. CASE k \in 1 .. Len(ring) /\ ring'[k] = ring[k]
    <3> DEFINE c == ring[k]
    <3>a. c \in Command
      BY <1>0, <2>1
    <3>b. c.fence \in Nat
      BY <3>a DEF Command
    <3>1. /\ c.op \in {"DETACH", "UNREF"} => c.n = 0
          /\ c.op = "ATTACH" => c.o \in Imported /\ c.n # 0 /\ (c.n = gen[c.o] \/ imp[c.o].kept)
          /\ c.op \in {"DETACH", "UNREF"} => c.o \in Imported
          /\ c.fence <= fences /\ c.fence \in Nat
      BY <2>1, <3>b DEF RingInv
    <3>2. c.op = "ATTACH" => ~Free(ring, {"ATTACH"}, c.o)
      BY <2>1 DEF Free, Is
    <3>3. ring'[k] = c
      BY <2>1
    <3> HIDE DEF c
    <3>4. c.fence <= fences'
      BY <1>0, <3>1
    <3> QED
      BY <3>1, <3>2, <3>3, <3>4
  <2>2. CASE k - Len(ring) \in 1 .. Len(s) /\ ring'[k] = s[k - Len(ring)]
    <3>1. PICK l \in 1 .. Len(s) : ring'[k] = s[l]
      BY <2>2
    <3>2. s[l].fence <= fences'
      BY <1>0, <1>1
    <3> QED
      BY <3>1, <3>2
  <2> QED
    BY <1>1, <1>2, <2>1, <2>2
<1>4. /\ \A k \in 1 .. Len(answered) : answered[k] <= fences'
      /\ \A f \in signaled : f <= fences'
  BY <1>0 DEF RingInv, TypeInv
<1> QED
  BY <1>1, <1>3, <1>4 DEF RingInv

(* An object nothing is sent about. *)
LEMMA PageKeep ==
  ASSUME TypeInv, RingInv, NEW j \in Imported, Page(j), NEW s, Sent(s), Same(j),
         Free(s, {"ATTACH", "DETACH", "UNREF"}, j)
  PROVE  Page(j)'
<1>0. ring \in Seq(Command) /\ s \in Seq(Command) /\ fences \in Nat /\ fences' \in Nat /\ fences <= fences'
      /\ imp[j].fence \in Nat
  BY DEF TypeInv, Sent, Import
<1>1. /\ ring' = ring \o s /\ answered' = answered /\ signaled' = signaled /\ backing' = backing
      /\ \A k \in 1 .. Len(s) : s[k].fence = 0 \/ (fences < s[k].fence /\ s[k].fence <= fences')
  BY DEF Sent
<1>2. Free(s, {"ATTACH", "DETACH"}, j) /\ Free(s, {"ATTACH"}, j) /\ Free(s, {"DETACH", "UNREF"}, j)
  BY DEF Free, Is
<1>3. Quiet(j) => Quiet(j)'
  BY <1>0, <1>1, <1>2, PushFree DEF Quiet
<1>4. AttachInv(j) => AttachInv(j)'
  <2>1. gen'[j] = gen[j]
    BY DEF Same
  <2>2. /\ Free(ring \o s, {"ATTACH"}, j) => Free(ring, {"ATTACH"}, j)
        /\ Free(ring, {"DETACH", "UNREF"}, j) => Free(ring \o s, {"DETACH", "UNREF"}, j)
    BY <1>0, <1>2, PushFree
  <2> QED
    BY <1>1, <2>1, <2>2 DEF AttachInv
<1>5. ASSUME DetachInv(j), imp[j].fence # 0 PROVE DetachInv(j)'
  <2>1. PICK f \in Nat : f = imp[j].fence /\ f # 0
    BY <1>0, <1>5
  <2>2. imp'[j].fence = f
    BY <2>1 DEF Same
  <2>3. /\ f <= fences /\ (Back(f) => Quiet(j))
        /\ \A k \in 1 .. Len(ring) : ring[k].fence = f =>
             /\ Is(ring[k], {"DETACH"}, j)
             /\ \A l \in 1 .. Len(ring) : l > k => ~Is(ring[l], {"ATTACH", "DETACH"}, j)
    BY <1>5, <2>1 DEF DetachInv
  <2>4. f <= fences' /\ (Back(f)' => Quiet(j)')
    BY <1>0, <1>1, <1>3, <2>3 DEF Back
  <2>5. \A k \in 1 .. Len(ring \o s) :
              \/ k \in 1 .. Len(ring) /\ (ring \o s)[k] = ring[k]
              \/ k - Len(ring) \in 1 .. Len(s) /\ k > Len(ring) /\ (ring \o s)[k] = s[k - Len(ring)]
    BY <1>0, PushFacts
  <2>6. ASSUME NEW k \in 1 .. Len(ring'), ring'[k].fence = f
        PROVE  /\ Is(ring'[k], {"DETACH"}, j)
               /\ \A l \in 1 .. Len(ring') : l > k => ~Is(ring'[l], {"ATTACH", "DETACH"}, j)
    <3>1. k \in 1 .. Len(ring) /\ ring'[k] = ring[k]
      BY <1>0, <1>1, <2>1, <2>3, <2>5, <2>6
    <3>2. Is(ring[k], {"DETACH"}, j)
          /\ \A l \in 1 .. Len(ring) : l > k => ~Is(ring[l], {"ATTACH", "DETACH"}, j)
      BY <2>3, <2>6, <3>1
    <3>3. ASSUME NEW l \in 1 .. Len(ring'), l > k PROVE ~Is(ring'[l], {"ATTACH", "DETACH"}, j)
      <4>1. CASE l \in 1 .. Len(ring) /\ ring'[l] = ring[l]
        BY <3>2, <3>3, <4>1
      <4>2. CASE l - Len(ring) \in 1 .. Len(s) /\ ring'[l] = s[l - Len(ring)]
        BY <1>2, <4>2 DEF Free
      <4> QED
        BY <1>1, <2>5, <4>1, <4>2
    <3> QED
      BY <3>1, <3>2, <3>3
  <2> QED
    BY <2>2, <2>4, <2>6 DEF DetachInv
<1>6. /\ imp'[j].sgt = imp[j].sgt \/ (imp[j].attached /\ imp[j].kept)
      /\ imp'[j].attached = imp[j].attached /\ imp'[j].kept = imp[j].kept
      /\ imp'[j].life = "freed" <=> imp[j].life = "freed"
      /\ imp'[j].lock = imp[j].lock /\ imp'[j].fence = imp[j].fence /\ gen'[j] = gen[j]
  BY DEF Same
<1> QED
  BY <1>1, <1>3, <1>4, <1>5, <1>6 DEF Page

LEMMA PlainFree ==
  ASSUME NEW s, Plain(s), NEW j
  PROVE  Free(s, {"ATTACH", "DETACH", "UNREF"}, j)
  BY DEF Plain, Free, Is

LEMMA PlainPage ==
  ASSUME TypeInv, RingInv, PageInv, StepPlain
  PROVE  PageInv' /\ RingInv'
<1>1. PICK s : Sent(s) /\ Plain(s) /\ \A j \in Imported : Same(j)
  BY DEF StepPlain
<1>2. PageInv'
  BY <1>1, PageKeep, PlainFree DEF PageInv
<1>3. \A k \in 1 .. Len(s) : s[k].op \notin {"DETACH", "UNREF", "ATTACH"}
  BY <1>1 DEF Plain
<1>4. \A i \in Imported : gen'[i] = gen[i] /\ imp'[i].kept = imp[i].kept
  BY <1>1 DEF Same
<1> QED
  BY <1>1, <1>2, <1>3, <1>4, RingSent

LEMMA CmdFields ==
  ASSUME NEW op, NEW o, NEW n, NEW f
  PROVE  /\ Cmd(op, o, n, f).op = op /\ Cmd(op, o, n, f).o = o
         /\ Cmd(op, o, n, f).n = n /\ Cmd(op, o, n, f).fence = f
  BY DEF Cmd

LEMMA AttachPage ==
  ASSUME TypeInv, RingInv, PageInv, LifeInv, NEW i \in Imported, StepAttach(i)
  PROVE  PageInv' /\ RingInv'
<1>0. gen[i] # 0
  BY DEF TypeInv
<1>1. PICK c : c = Cmd("ATTACH", i, gen[i], 0)
  OBVIOUS
<1>2. c.op = "ATTACH" /\ c.o = i /\ c.n = gen[i] /\ c.n # 0 /\ Sent(<<c>>) /\ gen'[i] = gen[i]
  <2>1. Sent(<<c>>) /\ gen'[i] = gen[i]
    BY <1>1 DEF StepAttach
  <2>2. c.op = "ATTACH" /\ c.o = i /\ c.n = gen[i]
    BY <1>1, CmdFields
  <2> QED
    BY <1>0, <2>1, <2>2
<1>3. \A j \in Imported : gen'[j] = gen[j] /\ (imp[j].kept => imp'[j].kept)
  BY DEF StepAttach, Same
<1>4. RingInv'
  <2>1. PICK s : s = <<c>>
    OBVIOUS
  <2>2. \A k \in 1 .. Len(s) : s[k] = c
    BY <2>1
  <2> QED
    BY <1>2, <1>3, <2>1, <2>2, RingSent
<1>5. ASSUME NEW j \in Imported, j # i PROVE Page(j)'
  <2>1. Free(<<c>>, {"ATTACH", "DETACH", "UNREF"}, j) /\ Same(j) /\ Page(j)
    BY <1>2, <1>5, FreeSingle DEF Is, StepAttach, PageInv
  <2> QED
    BY <1>2, <2>1, PageKeep
<1>6. Page(i)'
  <2>1. /\ ~imp[i].kept /\ ~imp'[i].kept
        /\ imp[i].lock = "none" /\ ~imp[i].attached /\ imp[i].life \in {"none", "held"}
        /\ imp'[i].lock = "none" /\ imp'[i].attached /\ imp'[i].life = "held" /\ imp'[i].sgt # 0
    BY DEF StepAttach
  <2>2. Quiet(i) /\ Free(ring, {"UNREF"}, i)
    BY <2>1 DEF PageInv, Page, LifeInv, Life
  <2>3. Free(ring, {"DETACH", "UNREF"}, i)
    BY <2>2 DEF Quiet, Free, Is
  <2>a. PICK s : s = <<c>>
    OBVIOUS
  <2>4. ring \in Seq(Command) /\ s \in Seq(Command) /\ ring' = ring \o s /\ backing' = backing
    BY <1>2, <2>a DEF TypeInv, Sent
  <2>5. Free(s, {"DETACH", "UNREF"}, i) /\ ~Free(s, {"ATTACH"}, i)
    BY <1>2, <2>a, FreeSingle DEF Is
  <2>6. Free(ring', {"DETACH", "UNREF"}, i) /\ ~Free(ring', {"ATTACH"}, i)
    BY <2>3, <2>4, <2>5, PushFree
  <2>7. AttachInv(i)' /\ backing'[i] \in {0, gen'[i]}
    BY <2>2, <2>4, <2>6 DEF AttachInv, Quiet
  <2> QED
    BY <2>1, <2>7 DEF Page
<1> QED
  BY <1>4, <1>5, <1>6 DEF PageInv

LEMMA DetachPage ==
  ASSUME TypeInv, RingInv, PageInv, LifeInv, NEW i \in Imported, StepDetach(i)
  PROVE  PageInv' /\ RingInv'
<1>1. PICK s :
       /\ Sent(s)
       /\ \A j \in Imported : j # i => Same(j)
       /\ gen'[i] = gen[i]
       /\ imp[i].lock = "none" /\ imp'[i].lock # "none" /\ imp'[i].kept = imp[i].kept
       /\ imp[i].life \in {"held", "released"}
       /\ \/ /\ imp[i].attached /\ ~imp'[i].attached
             /\ imp'[i].fence = fences + 1 /\ fences' = fences + 1
             /\ \/ plugged /\ s = <<Cmd("DETACH", i, 0, fences + 1)>>
                \/ ~plugged /\ s = <<>>
          \/ imp'[i].attached = imp[i].attached /\ imp'[i].fence = 0 /\ s = <<>>
  BY DEF StepDetach
<1>2. \A j \in Imported : gen'[j] = gen[j] /\ imp'[j].kept = imp[j].kept
  BY <1>1 DEF Same
<1>3. /\ \A k \in 1 .. Len(s) : Is(s[k], {"DETACH"}, i) /\ s[k].n = 0 /\ s[k].op = "DETACH"
      /\ Len(s) <= 1
  <2>1. CASE s = <<>>
    BY <2>1
  <2>2. CASE s = <<Cmd("DETACH", i, 0, fences + 1)>>
    BY <2>2, CmdFields DEF Is
  <2> QED
    BY <1>1, <2>1, <2>2
<1>4. RingInv'
  BY <1>1, <1>2, <1>3, RingSent DEF Is
<1>5. ASSUME NEW j \in Imported, j # i PROVE Page(j)'
  <2>1. Free(s, {"ATTACH", "DETACH", "UNREF"}, j) /\ Same(j) /\ Page(j)
    BY <1>1, <1>3, <1>5 DEF Is, PageInv, Free
  <2> QED
    BY <1>1, <2>1, PageKeep
<1>6. Page(i)'
  <2>0. ring \in Seq(Command) /\ s \in Seq(Command) /\ ring' = ring \o s /\ backing' = backing
        /\ fences \in Nat /\ answered' = answered /\ signaled' = signaled /\ Len(s) \in Nat
    BY <1>1 DEF TypeInv, Sent
  <2>1. backing'[i] \in {0, gen'[i]} \/ imp'[i].kept
    BY <1>1, <2>0 DEF PageInv, Page
  <2>2. CASE imp'[i].attached = imp[i].attached /\ imp'[i].fence = 0 /\ s = <<>>
    <3>2. ring' = ring
      BY <2>0, <2>2, PushNone
    <3>3. CASE imp[i].attached
      <4>1. AttachInv(i)
        BY <3>3 DEF PageInv, Page
      <4>2. AttachInv(i)'
        BY <2>0, <3>2, <4>1 DEF AttachInv
      <4> QED
        BY <1>1, <2>1, <2>2, <3>3, <4>2 DEF Page
    <3>4. CASE ~imp[i].attached
      <4>1. Quiet(i)
        BY <1>1, <3>4 DEF PageInv, Page
      <4>2. Quiet(i)'
        BY <2>0, <3>2, <4>1 DEF Quiet
      <4> QED
        BY <1>1, <2>1, <2>2, <3>4, <4>2 DEF Page
    <3> QED
      BY <3>3, <3>4
  <2>3. CASE imp[i].attached /\ ~imp'[i].attached /\ imp'[i].fence = fences + 1 /\ fences' = fences + 1
    <3>0. PICK f \in Nat : f = fences + 1
      BY <2>0
    <3>a. f \notin signaled /\ \A k \in 1 .. Len(answered) : answered[k] # f
      BY <2>0, <3>0 DEF RingInv, TypeInv
    <3>1. ~Back(f)'
      BY <2>0, <3>a DEF Back
    <3>2. /\ Len(ring) \in Nat /\ Len(ring \o s) = Len(ring) + Len(s)
          /\ \A k \in 1 .. Len(ring \o s) :
              \/ k \in 1 .. Len(ring) /\ (ring \o s)[k] = ring[k]
              \/ k - Len(ring) \in 1 .. Len(s) /\ k > Len(ring) /\ (ring \o s)[k] = s[k - Len(ring)]
      BY <2>0, PushFacts
    <3>3. ASSUME NEW k \in 1 .. Len(ring'), ring'[k].fence = f
          PROVE  /\ Is(ring'[k], {"DETACH"}, i)
                 /\ \A l \in 1 .. Len(ring') : l > k => ~Is(ring'[l], {"ATTACH", "DETACH"}, i)
      <4>1. CASE k \in 1 .. Len(ring) /\ ring'[k] = ring[k]
        <5>0. ring[k] \in Command /\ ring[k].fence <= fences
          BY <2>0, <4>1 DEF RingInv
        <5>1. ring[k].fence \in Nat
          BY <5>0 DEF Command
        <5> QED
          BY <2>0, <3>0, <3>3, <4>1, <5>0, <5>1
      <4>2. CASE k - Len(ring) \in 1 .. Len(s) /\ ring'[k] = s[k - Len(ring)]
        <5>1. Is(ring'[k], {"DETACH"}, i)
          BY <1>3, <4>2
        <5>2. k >= Len(ring) + 1 /\ Len(ring') <= Len(ring) + 1
          BY <1>3, <2>0, <3>2, <4>2
        <5>3. \A l \in 1 .. Len(ring') : ~(l > k)
          BY <2>0, <3>2, <5>2
        <5> QED
          BY <5>1, <5>3
      <4> QED
        BY <2>0, <3>2, <4>1, <4>2
    <3>4. DetachInv(i)'
      <4>1. imp'[i].fence = f /\ f <= fences'
        BY <2>3, <3>0
      <4> QED
        BY <3>1, <3>3, <4>1 DEF DetachInv
    <3>5. imp'[i].fence # 0
      BY <2>0, <2>3
    <3> QED
      BY <1>1, <2>1, <3>4, <3>5 DEF Page
  <2> QED
    BY <1>1, <2>2, <2>3
<1> QED
  BY <1>4, <1>5, <1>6 DEF PageInv

(* The wait before the exporter moves or frees the pages is for the host.  *)
LEMMA UnmappedQuiet ==
  ASSUME TypeInv, PageInv, LifeInv, NEW i \in Imported, imp[i].lock # "none", Unmapped(i),
         ~imp[i].attached
  PROVE  Quiet(i)
<1>1. imp[i].life # "freed" /\ Page(i)
  BY DEF LifeInv, Life, PageInv
<1> QED
  BY <1>1 DEF Page, Unmapped, DetachInv, Back

LEMMA UnlockPage ==
  ASSUME TypeInv, RingInv, PageInv, LifeInv, NEW i \in Imported, StepUnlock(i)
  PROVE  PageInv' /\ RingInv'
<1>1. PICK s :
       /\ Sent(s)
       /\ \A j \in Imported : j # i => Same(j)
       /\ imp[i].lock # "none" /\ Unmapped(i)
       /\ imp'[i].sgt = 0 /\ imp'[i].kept = imp[i].attached /\ imp'[i].lock = "none"
       /\ \/ s = <<>> /\ imp'[i].life = imp[i].life /\ imp'[i].attached = imp[i].attached
          \/ /\ imp'[i].life = "freed" /\ ~imp'[i].attached
             /\ s = <<Cmd("UNREF", i, 0, 0)>> \/ s = <<>>
  BY DEF StepUnlock
<1>2. ~imp[i].attached => Quiet(i)
  BY <1>1, UnmappedQuiet
<1>3. \A k \in 1 .. Len(s) : Is(s[k], {"UNREF"}, i) /\ s[k].n = 0 /\ s[k].op = "UNREF"
  <2>1. CASE s = <<>>
    BY <2>1
  <2>2. CASE s = <<Cmd("UNREF", i, 0, 0)>>
    BY <2>2, CmdFields DEF Is
  <2> QED
    BY <1>1, <2>1, <2>2
<1>4. RingInv'
  <2>1. \A j \in Imported :
          \/ gen'[j] = gen[j] /\ imp'[j].kept = imp[j].kept
          \/ imp'[j].kept
          \/ Free(ring, {"ATTACH"}, j)
    BY <1>1, <1>2 DEF Same, Quiet, Free, Is
  <2> QED
    BY <1>1, <1>3, <2>1, RingSent DEF Is
<1>5. ASSUME NEW j \in Imported, j # i PROVE Page(j)'
  <2>1. Free(s, {"ATTACH", "DETACH", "UNREF"}, j) /\ Same(j) /\ Page(j)
    BY <1>1, <1>3, <1>5 DEF Is, PageInv, Free
  <2> QED
    BY <1>1, <2>1, PageKeep
<1>6. Page(i)'
  <2>2. ring \in Seq(Command) /\ s \in Seq(Command) /\ ring' = ring \o s /\ backing' = backing
    BY <1>1 DEF TypeInv, Sent
  <2>3. CASE ~imp[i].attached
    <3>1. Free(s, {"ATTACH", "DETACH"}, i)
      BY <1>3 DEF Free, Is
    <3>2. Quiet(i)'
      BY <1>2, <2>2, <2>3, <3>1, PushFree DEF Quiet
    <3> QED
      BY <1>1, <2>3, <3>2 DEF Page, Quiet
  <2>4. CASE imp[i].attached /\ imp'[i].life = "freed" /\ ~imp'[i].attached
    BY <1>1, <2>4 DEF Page
  <2>5. CASE imp[i].attached /\ s = <<>> /\ imp'[i].attached = imp[i].attached
    <3>1. ring' = ring
      BY <2>2, <2>5, PushNone
    <3>2. AttachInv(i)
      BY <2>5 DEF PageInv, Page
    <3>3. AttachInv(i)'
      BY <2>2, <3>1, <3>2 DEF AttachInv
    <3> QED
      BY <1>1, <2>5, <3>3 DEF Page
  <2> QED
    BY <1>1, <2>3, <2>4, <2>5
<1> QED
  BY <1>4, <1>5, <1>6 DEF PageInv

LEMMA AnswerBack ==
  ASSUME NEW q \in Seq(Nat), NEW f \in Nat, NEW g \in Nat
  PROVE  (\E k \in 1 .. Len(Append(q, f)) : Append(q, f)[k] = g)
           <=> (g = f \/ \E k \in 1 .. Len(q) : q[k] = g)
<1> DEFINE r == Append(q, f)
<1>1. /\ Len(q) \in Nat /\ Len(r) = Len(q) + 1 /\ r[Len(q) + 1] = f
      /\ \A k \in 1 .. Len(q) : r[k] = q[k]
  OBVIOUS
<1> HIDE DEF r
<1>2. /\ \A k \in 1 .. Len(q) : k \in 1 .. Len(r)
      /\ \A k \in 1 .. Len(r) : k \in 1 .. Len(q) \/ k = Len(q) + 1
      /\ Len(q) + 1 \in 1 .. Len(r)
  BY <1>1
<1>3. (\E k \in 1 .. Len(r) : r[k] = g) => (g = f \/ \E k \in 1 .. Len(q) : q[k] = g)
  BY <1>1, <1>2
<1>4. (g = f \/ \E k \in 1 .. Len(q) : q[k] = g) => (\E k \in 1 .. Len(r) : r[k] = g)
  BY <1>1, <1>2
<1> QED
  BY <1>3, <1>4 DEF r

LEMMA TakeBack ==
  ASSUME NEW q \in Seq(Nat), q # <<>>, NEW g
  PROVE  (\E k \in 1 .. Len(q) : q[k] = g)
           <=> (g = Head(q) \/ \E k \in 1 .. Len(Tail(q)) : Tail(q)[k] = g)
<1> DEFINE r == Tail(q)
<1>1. /\ Head(q) = q[1] /\ 1 \in 1 .. Len(q)
      /\ \A k \in 1 .. Len(r) : k + 1 \in 1 .. Len(q) /\ r[k] = q[k + 1]
      /\ \A k \in 1 .. Len(q) : k = 1 \/ (k - 1 \in 1 .. Len(r) /\ r[k - 1] = q[k])
  BY ReadFacts
<1> HIDE DEF r
<1>2. ASSUME NEW k \in 1 .. Len(q), q[k] = g
      PROVE  g = Head(q) \/ \E l \in 1 .. Len(r) : r[l] = g
  BY <1>1, <1>2
<1>3. ASSUME NEW k \in 1 .. Len(r), r[k] = g PROVE \E l \in 1 .. Len(q) : q[l] = g
  BY <1>1, <1>3
<1>4. g = Head(q) => \E l \in 1 .. Len(q) : q[l] = g
  BY <1>1
<1> QED
  BY <1>2, <1>3, <1>4 DEF r

(* What comes back when the host reads a command. *)
LEMMA ReadBack ==
  ASSUME TypeInv, RingInv, HostRead, NEW f \in Nat, f # 0
  PROVE  Back(f)' <=> (Back(f) \/ Head(ring).fence = f)
<1>1. /\ Head(ring) \in Command
      /\ answered' = IF Head(ring).fence = 0 THEN answered ELSE Append(answered, Head(ring).fence)
  BY HostReadFacts
<1>2. Head(ring).fence \in Nat /\ answered \in Seq(Nat)
  BY <1>1 DEF Command, TypeInv
<1>3. signaled' = signaled
  BY DEF HostRead
<1>4. PICK g \in Nat : g = Head(ring).fence
  BY <1>2
<1>5. CASE g = 0
  BY <1>1, <1>3, <1>4, <1>5 DEF Back
<1>6. CASE g # 0
  <2>1. answered' = Append(answered, g)
    BY <1>1, <1>4, <1>6
  <2>2. (\E k \in 1 .. Len(answered') : answered'[k] = f) <=> (f = g \/ \E k \in 1 .. Len(answered) : answered[k] = f)
    BY <1>2, <2>1, AnswerBack
  <2> QED
    BY <1>3, <1>4, <2>2 DEF Back
<1> QED
  BY <1>5, <1>6

LEMMA DequeueBack ==
  ASSUME TypeInv, Dequeue, NEW f
  PROVE  Back(f)' <=> Back(f)
<1>1. /\ answered \in Seq(Nat) /\ answered # <<>> /\ signaled' = signaled \cup {Head(answered)}
      /\ answered' = Tail(answered)
  BY DEF TypeInv, Dequeue
<1>2. (\E k \in 1 .. Len(answered) : answered[k] = f)
        <=> (f = Head(answered) \/ \E k \in 1 .. Len(Tail(answered)) : Tail(answered)[k] = f)
  BY <1>1, TakeBack
<1> QED
  BY <1>1, <1>2 DEF Back

LEMMA ReadRing ==
  ASSUME TypeInv, RingInv, HostRead
  PROVE  RingInv'
<1>0. ring \in Seq(Command) /\ ring # <<>> /\ ring' = Tail(ring) /\ UNCHANGED <<imp, gen, fences, signaled>>
      /\ answered \in Seq(Nat)
  BY DEF TypeInv, HostRead
<1>1. \A k \in 1 .. Len(Tail(ring)) : k + 1 \in 1 .. Len(ring) /\ Tail(ring)[k] = ring[k + 1]
  BY <1>0, ReadFacts
<1>2. ASSUME NEW k \in 1 .. Len(ring')
      PROVE  /\ ring'[k].op \in {"DETACH", "UNREF"} => ring'[k].n = 0
             /\ ring'[k].op = "ATTACH" =>
                  /\ ring'[k].o \in Imported /\ ring'[k].n # 0
                  /\ ring'[k].n = gen'[ring'[k].o] \/ imp'[ring'[k].o].kept
             /\ ring'[k].op \in {"DETACH", "UNREF"} => ring'[k].o \in Imported
             /\ ring'[k].fence <= fences'
  <2>1. PICK l \in 1 .. Len(ring) : ring'[k] = ring[l]
    BY <1>0, <1>1
  <2> QED
    BY <1>0, <2>1 DEF RingInv
<1>3. ASSUME NEW k \in 1 .. Len(answered') PROVE answered'[k] <= fences'
  <2>1. /\ Head(ring) = ring[1] /\ 1 \in 1 .. Len(ring) /\ Head(ring) \in Command
        /\ answered' = IF Head(ring).fence = 0 THEN answered ELSE Append(answered, Head(ring).fence)
    BY <1>0, HostReadFacts, ReadFacts
  <2>2. Head(ring).fence <= fences
    BY <2>1 DEF RingInv
  <2>3. PICK g \in Nat : g = Head(ring).fence
    BY <2>1 DEF Command
  <2>4. CASE g = 0
    BY <1>0, <1>3, <2>1, <2>3, <2>4 DEF RingInv
  <2>5. CASE g # 0
    <3>1. answered' = Append(answered, g)
      BY <2>1, <2>3, <2>5
    <3>2. (k \in 1 .. Len(answered) /\ answered'[k] = answered[k]) \/ answered'[k] = g
      BY <1>0, <1>3, <3>1
    <3> QED
      BY <1>0, <2>2, <2>3, <3>2 DEF RingInv
  <2> QED
    BY <2>4, <2>5
<1>4. \A f \in signaled' : f <= fences'
  BY <1>0 DEF RingInv
<1> QED
  BY <1>2, <1>3, <1>4 DEF RingInv

LEMMA ReadPage ==
  ASSUME TypeInv, RingInv, PageInv, HostRead, NEW j \in Imported
  PROVE  Page(j)'
<1> DEFINE c == Head(ring)
<1>0. ring \in Seq(Command) /\ ring # <<>> /\ ring' = Tail(ring) /\ UNCHANGED <<gen, fences, imp, signaled>>
      /\ gen[j] \in Nat /\ imp[j].fence \in Nat /\ Page(j)
  BY DEF TypeInv, HostRead, Import, PageInv
<1>1. /\ backing'[j] = IF Is(c, {"ATTACH", "DETACH", "UNREF"}, j) THEN c.n ELSE backing[j]
      /\ c = ring[1] /\ c \in Command
  BY HostReadFacts
<1>a. 1 \in 1 .. Len(ring)
  BY <1>0, ReadFacts
<1>2. /\ Is(c, {"DETACH", "UNREF"}, j) => c.n = 0
      /\ Is(c, {"ATTACH"}, j) => c.n # 0 /\ (c.n = gen[j] \/ imp[j].kept)
  BY <1>1, <1>a DEF RingInv, Is
<1>b. Is(c, {"ATTACH", "DETACH", "UNREF"}, j) <=> Is(c, {"ATTACH"}, j) \/ Is(c, {"DETACH", "UNREF"}, j)
  BY DEF Is
<1>3. \A ops : Free(ring, ops, j) <=> ~Is(c, ops, j) /\ Free(ring', ops, j)
  BY <1>0, ReadFree
<1> HIDE DEF c
<1>4. backing'[j] \in {0, gen'[j]} \/ imp'[j].kept
  BY <1>0, <1>1, <1>2, <1>b DEF Page
<1>5. Quiet(j) => Quiet(j)'
  <2> SUFFICES ASSUME Quiet(j) PROVE Quiet(j)'
    OBVIOUS
  <2>1. ~Is(c, {"ATTACH", "DETACH"}, j) /\ Free(ring', {"ATTACH", "DETACH"}, j) /\ backing[j] = 0
    BY <1>3 DEF Quiet
  <2>2. ~Is(c, {"ATTACH"}, j)
    BY <2>1 DEF Is
  <2> QED
    BY <1>1, <1>2, <1>b, <2>1, <2>2 DEF Quiet
<1>6. AttachInv(j) => AttachInv(j)'
  <2> SUFFICES ASSUME AttachInv(j) PROVE AttachInv(j)'
    OBVIOUS
  <2>1. ~Is(c, {"DETACH", "UNREF"}, j) /\ Free(ring', {"DETACH", "UNREF"}, j)
    BY <1>3 DEF AttachInv
  <2>2. backing[j] # 0 \/ Is(c, {"ATTACH"}, j) \/ ~Free(ring', {"ATTACH"}, j)
    BY <1>3 DEF AttachInv
  <2>3. backing'[j] # 0 \/ ~Free(ring', {"ATTACH"}, j)
    BY <1>1, <1>2, <1>b, <2>1, <2>2
  <2> QED
    BY <1>0, <2>1, <2>3 DEF AttachInv
<1>7. ASSUME DetachInv(j), imp[j].fence # 0 PROVE DetachInv(j)'
  <2>1. PICK f \in Nat : f = imp[j].fence /\ f # 0
    BY <1>0, <1>7
  <2>2. /\ f <= fences /\ (Back(f) => Quiet(j))
        /\ \A k \in 1 .. Len(ring) : ring[k].fence = f =>
             /\ Is(ring[k], {"DETACH"}, j)
             /\ \A l \in 1 .. Len(ring) : l > k => ~Is(ring[l], {"ATTACH", "DETACH"}, j)
    BY <1>7, <2>1 DEF DetachInv
  <2>3. \A k \in 1 .. Len(ring') : k + 1 \in 1 .. Len(ring) /\ ring'[k] = ring[k + 1] /\ k \in Nat
    BY <1>0, ReadFacts
  <2>4. ASSUME c.fence = f PROVE Quiet(j)'
    <3>1. Is(c, {"DETACH"}, j) /\ \A l \in 1 .. Len(ring) : l > 1 => ~Is(ring[l], {"ATTACH", "DETACH"}, j)
      BY <1>1, <1>a, <2>2, <2>4
    <3>2. ASSUME NEW k \in 1 .. Len(ring') PROVE ~Is(ring'[k], {"ATTACH", "DETACH"}, j)
      <4>1. k + 1 \in 1 .. Len(ring) /\ k + 1 > 1 /\ ring'[k] = ring[k + 1]
        BY <2>3
      <4> QED
        BY <3>1, <4>1
    <3>3. backing'[j] = 0
      BY <1>1, <1>2, <3>1 DEF Is
    <3> QED
      BY <3>2, <3>3 DEF Quiet, Free
  <2>5. Back(f)' => Quiet(j)'
    BY <1>5, <2>1, <2>2, <2>4, ReadBack DEF c
  <2>6. ASSUME NEW k \in 1 .. Len(ring'), ring'[k].fence = f
        PROVE  /\ Is(ring'[k], {"DETACH"}, j)
               /\ \A l \in 1 .. Len(ring') : l > k => ~Is(ring'[l], {"ATTACH", "DETACH"}, j)
    <3>1. k + 1 \in 1 .. Len(ring) /\ ring'[k] = ring[k + 1] /\ k \in Nat
      BY <2>3
    <3>2. /\ Is(ring[k + 1], {"DETACH"}, j)
          /\ \A l \in 1 .. Len(ring) : l > k + 1 => ~Is(ring[l], {"ATTACH", "DETACH"}, j)
      BY <2>2, <2>6, <3>1
    <3>3. ASSUME NEW l \in 1 .. Len(ring'), l > k PROVE ~Is(ring'[l], {"ATTACH", "DETACH"}, j)
      <4>1. l + 1 \in 1 .. Len(ring) /\ ring'[l] = ring[l + 1] /\ l \in Nat
        BY <2>3
      <4>2. l + 1 > k + 1
        BY <3>1, <3>3, <4>1
      <4> QED
        BY <3>2, <4>1, <4>2
    <3> QED
      BY <3>1, <3>2, <3>3
  <2> QED
    BY <1>0, <2>1, <2>2, <2>5, <2>6 DEF DetachInv
<1> QED
  BY <1>0, <1>4, <1>5, <1>6, <1>7 DEF Page

LEMMA DequeuePage ==
  ASSUME TypeInv, RingInv, PageInv, Dequeue
  PROVE  PageInv' /\ RingInv'
<1>0. UNCHANGED <<imp, gen, ring, fences, backing>> /\ answered \in Seq(Nat) /\ answered # <<>>
      /\ signaled' = signaled \cup {Head(answered)} /\ answered' = Tail(answered)
  BY DEF Dequeue, hostVars, TypeInv
<1>1. RingInv'
  <2>1. /\ Head(answered) = answered[1] /\ 1 \in 1 .. Len(answered)
        /\ \A k \in 1 .. Len(Tail(answered)) :
             k + 1 \in 1 .. Len(answered) /\ Tail(answered)[k] = answered[k + 1]
    BY <1>0, ReadFacts
  <2>2. \A f \in signaled' : f <= fences
    BY <1>0, <2>1 DEF RingInv
  <2>3. \A k \in 1 .. Len(answered') : answered'[k] <= fences
    BY <1>0, <2>1 DEF RingInv
  <2> QED
    BY <1>0, <2>2, <2>3 DEF RingInv
<1>2. ASSUME NEW j \in Imported PROVE Page(j)'
  <2>1. DetachInv(j) => DetachInv(j)'
    <3>1. PICK f : f = imp[j].fence
      OBVIOUS
    <3>2. Back(f)' <=> Back(f)
      BY DequeueBack
    <3>3. Quiet(j)' <=> Quiet(j)
      BY <1>0 DEF Quiet
    <3> QED
      BY <1>0, <3>1, <3>2, <3>3 DEF DetachInv
  <2> QED
    BY <1>0, <2>1 DEF PageInv, Page, Quiet, AttachInv
<1> QED
  BY <1>1, <1>2 DEF PageInv

LEMMA PageStep ==
  ASSUME TypeInv, CommitInv, RingInv, PageInv, LifeInv, [Next]_vars
  PROVE  PageInv' /\ RingInv'
<1>1. CASE HostRead
  BY <1>1, ReadPage, ReadRing DEF PageInv
<1> QED
  BY <1>1, StepKinds, PlainPage, AttachPage, DetachPage, UnlockPage, DequeuePage

LEMMA LifeStep ==
  ASSUME TypeInv, CommitInv, RingInv, PageInv, LifeInv, [Next]_vars
  PROVE  LifeInv'
<1>0. ring \in Seq(Command)
  BY DEF TypeInv
<1>a. ASSUME NEW j \in Imported, NEW s, Sent(s), Same(j), Free(s, {"UNREF"}, j) PROVE Life(j)'
  <2>1. Free(ring, {"UNREF"}, j) => Free(ring', {"UNREF"}, j)
    BY <1>0, <1>a, PushFree DEF Sent
  <2> QED
    BY <1>a, <2>1 DEF Same, LifeInv, Life
<1>1. CASE HostRead
  <2>1. ring # <<>> /\ ring' = Tail(ring) /\ imp' = imp
    BY <1>1 DEF HostRead
  <2>2. \A j : Free(ring, {"UNREF"}, j) => Free(ring', {"UNREF"}, j)
    BY <1>0, <2>1, ReadFree
  <2> QED
    BY <2>1, <2>2 DEF LifeInv, Life
<1>2. CASE Dequeue
  BY <1>2 DEF Dequeue, LifeInv, Life
<1>3. CASE StepPlain
  <2>1. PICK s : Sent(s) /\ Plain(s) /\ \A j \in Imported : Same(j)
    BY <1>3 DEF StepPlain
  <2>2. \A j : Free(s, {"UNREF"}, j)
    BY <2>1 DEF Plain, Free, Is
  <2> QED
    BY <1>a, <2>1, <2>2 DEF LifeInv
<1>4. ASSUME NEW i \in Imported, StepAttach(i) PROVE LifeInv'
  <2>1. PICK s : s = <<Cmd("ATTACH", i, gen[i], 0)>> /\ Sent(s)
    BY <1>4 DEF StepAttach
  <2>2. \A j : Free(s, {"UNREF"}, j)
    BY <2>1, CmdFields, FreeSingle DEF Is
  <2>3. Free(ring, {"UNREF"}, i)
    BY <1>4 DEF StepAttach, LifeInv, Life
  <2>a. s \in Seq(Command) /\ ring' = ring \o s
    BY <2>1 DEF Sent
  <2>4. Free(ring', {"UNREF"}, i)
    BY <1>0, <2>a, <2>2, <2>3, PushFree
  <2>5. Life(i)'
    BY <1>4, <2>4 DEF StepAttach, Life
  <2>6. \A j \in Imported : j # i => Same(j)
    BY <1>4 DEF StepAttach
  <2> QED
    BY <1>a, <2>1, <2>2, <2>5, <2>6 DEF LifeInv
<1>5. ASSUME NEW i \in Imported, StepDetach(i) PROVE LifeInv'
  <2>1. PICK s : /\ Sent(s) /\ (s = <<Cmd("DETACH", i, 0, fences + 1)>> \/ s = <<>>)
                 /\ \A j \in Imported : j # i => Same(j)
                 /\ imp[i].life \in {"held", "released"} /\ imp'[i].life = imp[i].life
    BY <1>5 DEF StepDetach
  <2>2. \A j : Free(s, {"UNREF"}, j)
    BY <2>1, CmdFields, FreeSingle, FreeEmpty DEF Is
  <2>3. Free(ring, {"UNREF"}, i)
    BY <2>1 DEF LifeInv, Life
  <2>4. Free(ring', {"UNREF"}, i)
    BY <1>0, <2>1, <2>2, <2>3, PushFree DEF Sent
  <2>5. Life(i)'
    BY <2>1, <2>4 DEF Life
  <2> QED
    BY <1>a, <2>1, <2>2, <2>5 DEF LifeInv
<1>6. ASSUME NEW i \in Imported, StepUnlock(i) PROVE LifeInv'
  <2>1. PICK s : /\ Sent(s) /\ (s = <<Cmd("UNREF", i, 0, 0)>> \/ s = <<>>)
                 /\ \A j \in Imported : j # i => Same(j)
                 /\ imp[i].lock # "none" /\ imp'[i].lock = "none"
                 /\ \/ imp'[i].life = "freed" /\ ~imp'[i].attached
                    \/ imp'[i].life = imp[i].life /\ s = <<>>
    BY <1>6 DEF StepUnlock
  <2>2. \A j : j # i => Free(s, {"UNREF"}, j)
    BY <2>1, CmdFields, FreeSingle, FreeEmpty DEF Is
  <2>3. CASE imp'[i].life = "freed" /\ ~imp'[i].attached
    <3>1. Life(i)'
      BY <2>1, <2>3 DEF Life
    <3> QED
      BY <1>a, <2>1, <2>2, <3>1 DEF LifeInv
  <2>4. CASE imp'[i].life = imp[i].life /\ s = <<>>
    <3>1. ring' = ring
      BY <1>0, <2>1, <2>4, PushNone DEF Sent
    <3>2. Life(i)'
      BY <2>1, <2>4, <3>1 DEF Life, LifeInv
    <3> QED
      BY <1>a, <2>1, <2>2, <3>2 DEF LifeInv
  <2> QED
    BY <2>1, <2>3, <2>4
<1> QED
  BY <1>1, <1>2, <1>3, <1>4, <1>5, <1>6, StepKinds

Core == TypeInv /\ CommitInv /\ RingInv /\ PageInv /\ LifeInv

LEMMA CoreInit ==
  ASSUME Init
  PROVE  Core
<1>1. TypeInv
  <2>1. imp \in [Imported -> Import]
    BY UnknownType DEF Init
  <2>2. cur \in [fb : Shown, cursor : Shown \ Imported, active : BOOLEAN]
    BY ShownFacts DEF Init
  <2>3. gen \in [Imported -> Nat \ {0}] /\ backing \in [Imported -> Nat]
    BY DEF Init
  <2>4. /\ trash \in Seq(Imported) /\ ring \in Seq(Command) /\ answered \in Seq(Nat)
        /\ cursorRing \in Seq([o : Shown, image : Nat])
    BY DEF Init
  <2>5. /\ plugged \in BOOLEAN /\ needsModeset \in BOOLEAN /\ prep \subseteq Commit /\ tail \subseteq Commit
        /\ signaled \subseteq Nat /\ fences \in Nat /\ hostScan \in Shown /\ uploaded \in Nat
    BY ShownFacts DEF Init
  <2> QED
    BY <2>1, <2>2, <2>3, <2>4, <2>5 DEF TypeInv
<1>2. CommitInv /\ RingInv
  BY DEF Init, CommitInv, RingInv
<1>3. \A i \in Imported : /\ imp[i].life = "none" /\ ~imp[i].attached /\ imp[i].lock = "none"
                          /\ imp[i].sgt = 0 /\ backing[i] = 0 /\ ~imp[i].kept
  BY DEF Init, Unknown
<1>4. ring = <<>>
  BY DEF Init
<1>5. PageInv
  BY <1>3, <1>4, FreeEmpty DEF PageInv, Page, Quiet
<1>6. LifeInv
  BY <1>3, <1>4, FreeEmpty DEF LifeInv, Life
<1> QED
  BY <1>1, <1>2, <1>5, <1>6 DEF Core

LEMMA CoreStep ==
  ASSUME Core, [Next]_vars
  PROVE  Core'
  BY TypeStep, CommitStep, PageStep, LifeStep DEF Core

LEMMA CoreAlways == Spec => []Core
<1>1. Init => Core
  BY CoreInit
<1>2. Core /\ [Next]_vars => Core'
  BY CoreStep
<1> QED
  BY <1>1, <1>2, PTL DEF Spec

(***************************************************************************)
(* The host never holds pages the exporter has taken back, for any objects *)
(* and any number of commits, imports and moves, but for an object whose   *)
(* last unmap had no memory for its detach: virtgpu_dma_buf_unmap waits for*)
(* the answer to the last command about them.                              *)
(***************************************************************************)
THEOREM PageSafety == Spec => []NoStalePages
<1>1. Core => NoStalePages
  BY DEF Core, PageInv, Page, NoStalePages
<1> QED
  BY <1>1, CoreAlways, PTL
-----------------------------------------------------------------------------
(* Cursor images. *)
LEMMA UploadSentRing ==
  ASSUME Core, UploadRing, NEW s, Sent(s), \A k \in 1 .. Len(s) : Upload(s[k]) => Len(s) = 1
  PROVE  UploadRing'
<1>0. ring \in Seq(Command) /\ s \in Seq(Command) /\ fences \in Nat /\ fences' \in Nat /\ fences <= fences'
      /\ uploaded \in Nat /\ uploaded <= fences
  BY DEF TypeInv, Sent, Core, UploadRing
<1>1. /\ ring' = ring \o s /\ uploaded' = uploaded
      /\ \A k \in 1 .. Len(s) : s[k].fence = 0 \/ (fences < s[k].fence /\ s[k].fence <= fences')
  BY DEF Sent
<1>2. /\ Len(ring) \in Nat
      /\ \A k \in 1 .. Len(ring \o s) :
              \/ k \in 1 .. Len(ring) /\ (ring \o s)[k] = ring[k]
              \/ k - Len(ring) \in 1 .. Len(s) /\ k > Len(ring) /\ (ring \o s)[k] = s[k - Len(ring)]
  BY <1>0, PushFacts
<1>3. \A k \in 1 .. Len(ring) : ring[k].fence \in Nat /\ ring[k].fence <= fences
  <2>1. \A k \in 1 .. Len(ring) : ring[k] \in Command
    BY <1>0
  <2> QED
    BY <2>1 DEF Core, RingInv, Command
<1>4. \A k \in 1 .. Len(s) : s[k].fence \in Nat
  <2>1. \A k \in 1 .. Len(s) : s[k] \in Command
    BY <1>0
  <2> QED
    BY <2>1 DEF Command
<1>5. \A k \in 1 .. Len(ring') :
         \/ k \in 1 .. Len(ring) /\ ring'[k] = ring[k]
         \/ /\ k - Len(ring) \in 1 .. Len(s) /\ k > Len(ring)
            /\ Upload(ring'[k]) => fences < ring'[k].fence /\ ring'[k].fence \in Nat /\ Len(s) = 1
  BY <1>1, <1>2, <1>4 DEF Upload
<1>6. ASSUME NEW k \in 1 .. Len(ring'), Upload(ring'[k]) PROVE uploaded < ring'[k].fence
  <2>1. CASE k \in 1 .. Len(ring) /\ ring'[k] = ring[k]
    BY <1>6, <2>1 DEF UploadRing
  <2>2. CASE fences < ring'[k].fence /\ ring'[k].fence \in Nat
    BY <1>0, <2>2
  <2> QED
    BY <1>5, <1>6, <2>1, <2>2
<1>7. ASSUME NEW k \in 1 .. Len(ring'), NEW l \in 1 .. Len(ring'), k < l,
             Upload(ring'[k]), Upload(ring'[l])
      PROVE  ring'[k].fence < ring'[l].fence
  <2>1. CASE l \in 1 .. Len(ring) /\ ring'[l] = ring[l]
    <3>1. k \in 1 .. Len(ring) /\ ring'[k] = ring[k]
      BY <1>2, <1>5, <1>7, <2>1
    <3> QED
      BY <1>7, <2>1, <3>1 DEF UploadRing
  <2>2. CASE l - Len(ring) \in 1 .. Len(s) /\ Len(s) = 1 /\ fences < ring'[l].fence /\ ring'[l].fence \in Nat
    <3>1. k \in 1 .. Len(ring) /\ ring'[k] = ring[k]
      BY <1>2, <1>5, <1>7, <2>2
    <3> QED
      BY <1>0, <1>3, <2>2, <3>1
  <2> QED
    BY <1>5, <1>7, <2>1, <2>2
<1>8. uploaded' <= fences'
  BY <1>0, <1>1
<1> QED
  BY <1>1, <1>6, <1>7, <1>8 DEF UploadRing

LEMMA KindRing ==
  ASSUME Core, UploadRing, [Next]_vars
  PROVE  HostRead \/ Dequeue \/ (UploadRing' /\ \E s : Sent(s))
<1>1. CASE StepPlain
  BY <1>1, UploadSentRing DEF StepPlain, Plain
<1>2. ASSUME NEW i \in Imported, StepAttach(i) PROVE UploadRing' /\ \E s : Sent(s)
  <2>1. PICK s : Sent(s) /\ s = <<Cmd("ATTACH", i, gen[i], 0)>>
    BY <1>2 DEF StepAttach
  <2>2. Len(s) = 1
    BY <2>1
  <2> QED
    BY <2>1, <2>2, UploadSentRing
<1>3. ASSUME NEW i \in Imported, StepDetach(i) \/ StepUnlock(i) PROVE UploadRing' /\ \E s : Sent(s)
  <2>1. PICK s : /\ Sent(s)
                 /\ s = <<Cmd("DETACH", i, 0, fences + 1)>> \/ s = <<>> \/ s = <<Cmd("UNREF", i, 0, 0)>>
    BY <1>3 DEF StepDetach, StepUnlock
  <2>2. \A k \in 1 .. Len(s) : Len(s) = 1
    BY <2>1
  <2> QED
    BY <2>1, <2>2, UploadSentRing
<1> QED
  BY <1>1, <1>2, <1>3, StepKinds DEF Core

(* A commit at work that the step leaves alone. *)
LEMMA WaitKeep ==
  ASSUME Core, NEW c \in Commit, UploadWait(c), NEW s, Sent(s)
  PROVE  UploadWait(c)'
<1>0. ring \in Seq(Command) /\ s \in Seq(Command) /\ fences \in Nat /\ fences' \in Nat /\ fences <= fences'
      /\ c.fence \in Nat
  BY DEF TypeInv, Sent, Core, Commit
<1>1. /\ ring' = ring \o s /\ uploaded' = uploaded /\ answered' = answered /\ signaled' = signaled
      /\ \A k \in 1 .. Len(s) : s[k].fence = 0 \/ (fences < s[k].fence /\ s[k].fence <= fences')
  BY DEF Sent
<1>2. \A k \in 1 .. Len(ring \o s) :
              \/ k \in 1 .. Len(ring) /\ (ring \o s)[k] = ring[k]
              \/ k - Len(ring) \in 1 .. Len(s) /\ k > Len(ring) /\ (ring \o s)[k] = s[k - Len(ring)]
  BY <1>0, PushFacts
<1>3. CASE c.pc = "wait"
  <2>0. c.fence # 0 /\ c.fence <= fences /\ (Back(c.fence) => c.fence <= uploaded)
        /\ \A k \in 1 .. Len(ring) : ring[k].fence = c.fence => ring[k].op = "TRANSFER"
    BY <1>3 DEF UploadWait
  <2>1. ASSUME NEW k \in 1 .. Len(ring'), ring'[k].fence = c.fence PROVE ring'[k].op = "TRANSFER"
    <3>0. ASSUME k - Len(ring) \in 1 .. Len(s), ring'[k] = s[k - Len(ring)] PROVE FALSE
      <4>1. PICK l \in 1 .. Len(s) : ring'[k] = s[l]
        BY <3>0
      <4>2. c.fence = 0 \/ fences < c.fence
        BY <1>1, <2>1, <4>1
      <4> QED
        BY <1>0, <2>0, <4>2
    <3>1. k \in 1 .. Len(ring) /\ ring'[k] = ring[k]
      BY <1>1, <1>2, <3>0
    <3> QED
      BY <2>0, <2>1, <3>1
  <2>2. c.fence <= fences'
    BY <1>0, <2>0
  <2>3. Back(c.fence)' => c.fence <= uploaded'
    BY <1>1, <2>0 DEF Back
  <2> QED
    BY <1>3, <2>0, <2>1, <2>2, <2>3 DEF UploadWait
<1>4. CASE c.pc # "wait"
  BY <1>1, <1>4 DEF UploadWait
<1> QED
  BY <1>3, <1>4

LEMMA TailWait ==
  ASSUME Core, UploadInv, TailNext, NEW d \in tail'
  PROVE  UploadWait(d)'
<1>0. TypeInv /\ CommitInv /\ fences \in Nat /\ uploaded \in Nat
  BY DEF Core, TypeInv
<1>1. PICK c \in tail :
           /\ tail = {c} /\ c \in Commit
           /\ \/ AtomicFlush /\ tail' = {} /\ c.pc = "flush"
              \/ \E e \in Commit :
                   /\ tail' = {e}
                   /\ \/ TailModeset /\ c.pc = "modeset" /\ e.pc = "update"
                      \/ PrimaryPlaneUpdate /\ c.pc = "update" /\ e.pc = "flush"
                      \/ CursorUpload /\ c.pc = "cursor" /\ e.pc \in {"wait", "ping", "flush"}
                      \/ CursorWait /\ c.pc = "wait" /\ e.pc = "ping"
                      \/ CursorPing /\ c.pc = "ping" /\ e.pc = "flush"
  BY <1>0, TailFacts
<1>2. /\ d \in Commit
      /\ \/ c.pc = "modeset" /\ d.pc = "update"
         \/ c.pc = "update" /\ d.pc = "flush"
         \/ CursorUpload /\ c.pc = "cursor" /\ d.pc \in {"wait", "ping", "flush"}
         \/ CursorWait /\ c.pc = "wait" /\ d.pc = "ping"
         \/ c.pc = "ping" /\ d.pc = "flush"
  BY <1>1
<1>3. CASE d.pc \in {"update", "flush"}
  BY <1>3 DEF UploadWait
<1>a. c.fence \in Nat /\ UploadWait(c)
  BY <1>1 DEF Commit, UploadInv
<1>4. CASE CursorUpload /\ c.pc = "cursor" /\ d.pc \in {"wait", "ping"}
  <2>1. PICK e \in tail : \E s :
           /\ Sent(s) /\ e.pc = "cursor"
           /\ \/ s = <<>> /\ fences' = fences /\ tail' = {[e EXCEPT !.pc = "ping"]}
              \/ s = <<>> /\ fences' = fences /\ tail' = {[e EXCEPT !.pc = "flush"]}
              \/ /\ fences' = fences + 1 /\ tail' = {[e EXCEPT !.pc = "wait", !.fence = fences + 1]}
                 /\ s = <<>> \/ s = <<Cmd("TRANSFER", e.fb, 0, fences + 1)>>
    BY <1>0, <1>4, UploadSent
  <2>2. PICK s :
           /\ Sent(s)
           /\ \/ s = <<>> /\ fences' = fences /\ d = [c EXCEPT !.pc = "ping"]
              \/ /\ fences' = fences + 1 /\ d = [c EXCEPT !.pc = "wait", !.fence = fences + 1]
                 /\ s = <<>> \/ s = <<Cmd("TRANSFER", c.fb, 0, fences + 1)>>
    <3>1. e = c
      BY <1>1
    <3>2. [c EXCEPT !.pc = "flush"].pc = "flush"
      BY <1>1 DEF Commit
    <3>3. tail' # {[c EXCEPT !.pc = "flush"]}
      BY <1>4, <3>2
    <3> QED
      BY <2>1, <3>1, <3>3
  <2>3. CASE d = [c EXCEPT !.pc = "ping"]
    <3>1. d.fence = 0 /\ d.pc = "ping"
      BY <1>1, <1>4, <1>a, <2>3 DEF Commit, UploadWait
    <3>2. uploaded' = uploaded
      BY <2>2 DEF Sent
    <3> QED
      BY <1>0, <3>1, <3>2 DEF UploadWait
  <2>4. CASE /\ fences' = fences + 1 /\ d = [c EXCEPT !.pc = "wait", !.fence = fences + 1]
             /\ s = <<>> \/ s = <<Cmd("TRANSFER", c.fb, 0, fences + 1)>>
    <3>1. PICK f \in Nat : f = fences + 1
      BY <1>0
    <3>2. d.pc = "wait" /\ d.fence = f
      BY <1>1, <2>4, <3>1 DEF Commit
    <3>3. f # 0 /\ f <= fences'
      BY <1>0, <2>4, <3>1
    <3>4. ~Back(f)'
      <4>1. f \notin signaled /\ \A k \in 1 .. Len(answered) : answered[k] # f
        BY <1>0, <3>1 DEF Core, RingInv, TypeInv
      <4> QED
        BY <2>2, <4>1 DEF Back, Sent
    <3>5. ring \in Seq(Command) /\ s \in Seq(Command) /\ ring' = ring \o s
      BY <1>0, <2>2 DEF TypeInv, Sent
    <3>6. \A k \in 1 .. Len(ring \o s) :
              \/ k \in 1 .. Len(ring) /\ (ring \o s)[k] = ring[k]
              \/ k - Len(ring) \in 1 .. Len(s) /\ k > Len(ring) /\ (ring \o s)[k] = s[k - Len(ring)]
      BY <3>5, PushFacts
    <3>7. \A k \in 1 .. Len(s) : s[k].op = "TRANSFER"
      BY <2>4, CmdFields
    <3>8. ASSUME NEW k \in 1 .. Len(ring'), ring'[k].fence = f PROVE ring'[k].op = "TRANSFER"
      <4>1. CASE k \in 1 .. Len(ring) /\ ring'[k] = ring[k]
        <5>1. ring[k] \in Command /\ ring[k].fence <= fences
          BY <3>5, <4>1 DEF Core, RingInv
        <5>2. ring[k].fence \in Nat
          BY <5>1 DEF Command
        <5> QED
          BY <1>0, <3>1, <3>8, <4>1, <5>1, <5>2
      <4>2. CASE k - Len(ring) \in 1 .. Len(s) /\ ring'[k] = s[k - Len(ring)]
        BY <3>7, <4>2
      <4> QED
        BY <3>5, <3>6, <4>1, <4>2
    <3> QED
      BY <3>2, <3>3, <3>4, <3>8 DEF UploadWait
  <2> QED
    BY <2>2, <2>3, <2>4
<1>5. CASE CursorWait /\ c.pc = "wait"
  <2>1. /\ UNCHANGED <<ring, fences, answered, signaled, uploaded>>
        /\ \/ c.fence \in signaled /\ d = [c EXCEPT !.pc = "ping"]
           \/ d = [c EXCEPT !.pc = "ping", !.fence = 0]
    BY <1>1, <1>5 DEF CursorWait, hostVars
  <2>2. /\ d.pc = "ping"
        /\ d.fence = 0 \/ (d.fence = c.fence /\ c.fence \in signaled)
    BY <1>1, <2>1 DEF Commit
  <2>3. c.fence \in signaled => c.fence <= uploaded
    BY <1>5, <1>a DEF UploadWait, Back
  <2>4. d.fence <= uploaded'
    BY <1>0, <2>1, <2>2, <2>3
  <2> QED
    BY <2>2, <2>4 DEF UploadWait
<1> QED
  BY <1>2, <1>3, <1>4, <1>5

LEMMA ReadUpload ==
  ASSUME Core, UploadInv, HostRead
  PROVE  UploadInv'
<1> DEFINE c == Head(ring)
<1>0. ring \in Seq(Command) /\ ring # <<>> /\ ring' = Tail(ring) /\ UNCHANGED <<fences, tail, cursorRing>>
      /\ fences \in Nat /\ uploaded \in Nat /\ TypeInv /\ RingInv
  BY DEF Core, TypeInv, HostRead, commitVars
<1>1. uploaded' = (IF c.op = "TRANSFER" /\ c.fence # 0 THEN c.fence ELSE uploaded)
      /\ c = ring[1] /\ c \in Command
  BY <1>0, HostReadFacts
<1>2. c.fence \in Nat
  BY <1>1 DEF Command
<1>3. /\ 1 \in 1 .. Len(ring)
      /\ \A k \in 1 .. Len(ring') : k + 1 \in 1 .. Len(ring) /\ ring'[k] = ring[k + 1] /\ 1 < k + 1
  BY <1>0, ReadFacts
<1>4. c.fence <= fences
  BY <1>0, <1>1, <1>3 DEF RingInv
<1> HIDE DEF c
<1>5. uploaded <= uploaded' /\ uploaded' <= fences' /\ uploaded' \in Nat
  <2>1. Upload(c) => uploaded < c.fence
    BY <1>1, <1>3 DEF UploadInv, UploadRing
  <2> QED
    BY <1>0, <1>1, <1>2, <1>4, <2>1 DEF Upload, UploadInv, UploadRing
<1>6. ASSUME NEW k \in 1 .. Len(ring'), Upload(ring'[k]) PROVE uploaded' < ring'[k].fence
  <2>1. PICK m \in 1 .. Len(ring) : m = k + 1 /\ ring'[k] = ring[m] /\ 1 < m
    BY <1>3
  <2>2. uploaded < ring[m].fence /\ (Upload(c) => c.fence < ring[m].fence)
    BY <1>1, <1>3, <1>6, <2>1 DEF UploadInv, UploadRing
  <2> QED
    BY <1>1, <2>1, <2>2 DEF Upload
<1>7. ASSUME NEW k \in 1 .. Len(ring'), NEW l \in 1 .. Len(ring'), k < l,
             Upload(ring'[k]), Upload(ring'[l])
      PROVE  ring'[k].fence < ring'[l].fence
  <2>1. k + 1 \in 1 .. Len(ring) /\ ring'[k] = ring[k + 1] /\ l + 1 \in 1 .. Len(ring) /\ ring'[l] = ring[l + 1]
        /\ k + 1 < l + 1
    BY <1>3, <1>7
  <2> QED
    BY <1>7, <2>1 DEF UploadInv, UploadRing
<1>8. ASSUME NEW d \in tail PROVE UploadWait(d)'
  <2>0. d.fence \in Nat /\ UploadWait(d)
    BY <1>0 DEF TypeInv, Commit, UploadInv
  <2>1. CASE d.pc = "wait"
    <3>0. /\ d.fence # 0 /\ d.fence <= fences
          /\ Back(d.fence) => d.fence <= uploaded
          /\ \A k \in 1 .. Len(ring) : ring[k].fence = d.fence => ring[k].op = "TRANSFER"
      BY <2>0, <2>1 DEF UploadWait
    <3>1. Back(d.fence)' <=> (Back(d.fence) \/ c.fence = d.fence)
      BY <1>0, <2>0, <3>0, ReadBack DEF c
    <3>2. c.fence = d.fence => uploaded' = d.fence
      BY <1>1, <1>3, <3>0
    <3>3. Back(d.fence)' => d.fence <= uploaded'
      BY <1>0, <1>5, <2>0, <3>0, <3>1, <3>2
    <3>4. ASSUME NEW k \in 1 .. Len(ring'), ring'[k].fence = d.fence PROVE ring'[k].op = "TRANSFER"
      BY <1>3, <3>0, <3>4
    <3> QED
      BY <1>0, <2>1, <3>0, <3>3, <3>4 DEF UploadWait
  <2>2. CASE d.pc # "wait"
    BY <1>0, <1>5, <2>0, <2>2 DEF UploadWait
  <2> QED
    BY <2>1, <2>2
<1>9. \A k \in 1 .. Len(cursorRing) : cursorRing[k].image <= uploaded'
  <2> DEFINE S == [o : Shown, image : Nat]
  <2>0. cursorRing \in Seq(S)
    BY <1>0 DEF TypeInv
  <2> HIDE DEF S
  <2>a. \A k \in 1 .. Len(cursorRing) : cursorRing[k] \in S
    BY <2>0
  <2>1. \A k \in 1 .. Len(cursorRing) : cursorRing[k] \in [o : Shown, image : Nat]
    BY <2>a DEF S
  <2>2. \A k \in 1 .. Len(cursorRing) : cursorRing[k].image \in Nat
    BY <2>1
  <2>3. \A k \in 1 .. Len(cursorRing) : cursorRing[k].image <= uploaded
    BY DEF UploadInv
  <2> QED
    BY <1>0, <1>5, <2>2, <2>3
<1> QED
  BY <1>0, <1>5, <1>6, <1>7, <1>8, <1>9 DEF UploadInv, UploadRing

LEMMA UploadStep ==
  ASSUME Core, UploadInv, [Next]_vars
  PROVE  UploadInv'
<1>0. TypeInv /\ CommitInv /\ UploadRing /\ \A c \in tail : c \in Commit /\ UploadWait(c)
  BY DEF Core, TypeInv, UploadInv
<1>1. CASE HostRead
  BY <1>1, ReadUpload
<1>2. CASE Dequeue
  <2>1. UNCHANGED <<tail, ring, cursorRing, fences, uploaded>>
    BY <1>2 DEF Dequeue, hostVars, commitVars
  <2>2. \A f : Back(f)' <=> Back(f)
    BY <1>0, <1>2, DequeueBack
  <2>3. \A c \in tail : UploadWait(c)'
    <3> SUFFICES ASSUME NEW c \in tail PROVE UploadWait(c)'
      OBVIOUS
    <3>1. UploadWait(c)
      BY <1>0
    <3>2. PICK f : f = c.fence
      OBVIOUS
    <3>3. Back(f)' <=> Back(f)
      BY <2>2
    <3> QED
      BY <2>1, <3>1, <3>2, <3>3 DEF UploadWait
  <2> QED
    BY <1>0, <2>1, <2>3 DEF UploadInv, UploadRing
<1>3. CASE ~HostRead /\ ~Dequeue
  <2>0. UploadRing' /\ \E s : Sent(s)
    BY <1>0, <1>3, KindRing
  <2>1. uploaded' = uploaded
    BY <2>0 DEF Sent
  <2>2. \A c \in tail' : UploadWait(c)'
    <3>1. CASE tail' = tail
      BY <1>0, <2>0, <3>1, WaitKeep
    <3>2. CASE Swap
      <4>1. PICK c \in prep, d \in Commit : tail' = {d} /\ d.pc = c.pc /\ d.fence = c.fence
        BY <1>0, <3>2, SwapCases
      <4>2. c.fence = 0 /\ c.pc \in {"modeset", "cursor"}
        BY <1>0 DEF CommitInv
      <4> QED
        BY <4>1, <4>2 DEF UploadWait
    <3>3. CASE TailNext
      BY <3>3, TailWait
    <3> QED
      BY <1>3, <3>1, <3>2, <3>3 DEF Next, vars, commitVars, ImportObj, ReleaseObj, MoveNotify, Move,
         FreeObj, CleanupFb, HostCursor, Unplug, PreparePrimary, PrepareCursor
  <2>3. \A k \in 1 .. Len(cursorRing') : cursorRing'[k].image <= uploaded
    <3>0. /\ cursorRing \in Seq([o : Shown, image : Nat])
          /\ \A k \in 1 .. Len(cursorRing) : cursorRing[k].image <= uploaded
      BY <1>0 DEF TypeInv, UploadInv
    <3>1. CASE cursorRing' = cursorRing
      BY <3>0, <3>1
    <3>2. CASE HostCursor
      <4>1. cursorRing # <<>> /\ cursorRing' = Tail(cursorRing)
        BY <3>2 DEF HostCursor
      <4>2. \A k \in 1 .. Len(cursorRing') : k + 1 \in 1 .. Len(cursorRing) /\ cursorRing'[k] = cursorRing[k + 1]
        BY <3>0, <4>1, ReadFacts
      <4> QED
        BY <3>0, <4>2
    <3>3. CASE CursorPing
      <4>1. PICK c \in tail : c.pc = "ping" /\ QueueCursor([o |-> c.fb, image |-> c.fence])
        BY <3>3 DEF CursorPing
      <4>2. c.fence <= uploaded
        BY <1>0, <4>1 DEF UploadWait
      <4>3. PICK e : e = [o |-> c.fb, image |-> c.fence]
        OBVIOUS
      <4>4. e.image = c.fence
        BY <4>3
      <4>5. cursorRing' = Append(cursorRing, e) \/ cursorRing' = cursorRing
        BY <4>1, <4>3 DEF QueueCursor
      <4>6. CASE cursorRing' = Append(cursorRing, e)
        <5>1. \A k \in 1 .. Len(cursorRing') :
                 (k \in 1 .. Len(cursorRing) /\ cursorRing'[k] = cursorRing[k]) \/ cursorRing'[k] = e
          BY <3>0, <4>6
        <5> QED
          BY <3>0, <4>2, <4>4, <5>1
      <4> QED
        BY <3>1, <4>5, <4>6
    <3> QED
      BY <1>3, <3>1, <3>2, <3>3 DEF Next, vars, ImportObj, ReleaseObj, MoveNotify, Move,
         FreeObj, CleanupFb, Unplug, PreparePrimary, PrepareCursor, Swap, TailNext, TailModeset,
         PrimaryPlaneUpdate, AtomicFlush, CursorUpload, CursorWait
  <2> QED
    BY <2>0, <2>1, <2>2, <2>3 DEF UploadInv
<1> QED
  BY <1>1, <1>2, <1>3

(***************************************************************************)
(* A cursor the host is told to show has been uploaded, though the image   *)
(* travels on another queue: virtio_gpu_cursor_plane_update waits for the  *)
(* fence of the transfer (unless a signal cuts the wait short).            *)
(***************************************************************************)
THEOREM CursorSafety == Spec => []CursorUploaded
<1>1. Init => UploadInv
  BY DEF Init, UploadInv, UploadRing
<1>2. Core /\ UploadInv /\ [Next]_vars => UploadInv'
  BY UploadStep
<1>3. Core /\ UploadInv => CursorUploaded
  BY DEF Core, TypeInv, UploadInv, CursorUploaded
<1> QED
  BY <1>1, <1>2, <1>3, CoreAlways, PTL DEF Spec
-----------------------------------------------------------------------------
(* Pins and references. *)
LEMMA PlacesFacts ==
  ASSUME NEW q \in Seq(Imported), NEW i
  PROVE  /\ IsFiniteSet(Places(q, i)) /\ Cardinality(Places(q, i)) \in Nat
         /\ Cardinality(Places(q, i)) = 0 <=> i \notin Range(q)
<1>1. Len(q) \in Nat /\ DOMAIN q = 1 .. Len(q)
  OBVIOUS
<1>2. IsFiniteSet(1 .. Len(q))
  BY <1>1, FS_Interval
<1>3. Places(q, i) \in SUBSET (1 .. Len(q))
  BY DEF Places
<1>4. IsFiniteSet(Places(q, i))
  BY <1>2, <1>3, FS_Subset
<1>5. Cardinality(Places(q, i)) \in Nat /\ (Cardinality(Places(q, i)) = 0 <=> Places(q, i) = {})
  BY <1>4, FS_CardinalityType, FS_EmptySet
<1>6. Places(q, i) = {} <=> i \notin Range(q)
  BY <1>1 DEF Places, Range
<1> QED
  BY <1>4, <1>5, <1>6

LEMMA PlacesAppend ==
  ASSUME NEW q \in Seq(Imported), NEW x \in Imported, NEW i
  PROVE  Cardinality(Places(Append(q, x), i)) = Cardinality(Places(q, i)) + Bit(x = i)
<1> DEFINE r == Append(q, x)
           n == Len(q) + 1
<1>1. /\ Len(q) \in Nat /\ Len(r) = n /\ r[n] = x /\ r \in Seq(Imported)
      /\ \A k \in 1 .. Len(q) : r[k] = q[k]
  OBVIOUS
<1>2. /\ \A k \in 1 .. Len(q) : k \in 1 .. Len(r) /\ k # n
      /\ \A k \in 1 .. Len(r) : k \in 1 .. Len(q) \/ k = n
      /\ n \in 1 .. Len(r) /\ n \notin 1 .. Len(q)
  BY <1>1
<1> HIDE DEF r, n
<1>3. IsFiniteSet(Places(q, i)) /\ Cardinality(Places(q, i)) \in Nat
  BY PlacesFacts
<1>4. CASE x = i
  <2>1. Places(r, i) = Places(q, i) \cup {n} /\ n \notin Places(q, i)
    BY <1>1, <1>2, <1>4 DEF Places
  <2>2. Cardinality(Places(r, i)) = Cardinality(Places(q, i)) + 1
    BY <1>3, <2>1, FS_AddElement
  <2> QED
    BY <1>4, <2>2 DEF Bit, r
<1>5. CASE x # i
  <2>1. Places(r, i) = Places(q, i)
    BY <1>1, <1>2, <1>5 DEF Places
  <2> QED
    BY <1>3, <1>5, <2>1 DEF Bit, r
<1> QED
  BY <1>4, <1>5

LEMMA PlacesTail ==
  ASSUME NEW q \in Seq(Imported), q # <<>>, NEW i
  PROVE  Cardinality(Places(q, i)) = Cardinality(Places(Tail(q), i)) + Bit(Head(q) = i)
<1> DEFINE r == Tail(q)
           P == Places(r, i)
           Q == Places(q, i) \ {1}
           f == [k \in P |-> k + 1]
<1>1. /\ Head(q) = q[1] /\ 1 \in 1 .. Len(q) /\ r \in Seq(Imported) /\ Len(q) \in Nat /\ Len(r) \in Nat
      /\ \A k \in 1 .. Len(r) : k + 1 \in 1 .. Len(q) /\ r[k] = q[k + 1]
      /\ \A k \in 1 .. Len(q) : k = 1 \/ (k - 1 \in 1 .. Len(r) /\ r[k - 1] = q[k])
  BY ReadFacts
<1> HIDE DEF r
<1>2. f \in Bijection(P, Q)
  <2>1. ASSUME NEW k \in P PROVE k + 1 \in Q
    <3>1. k \in 1 .. Len(r) /\ r[k] = i
      BY <2>1 DEF Places
    <3>2. k + 1 \in 1 .. Len(q) /\ q[k + 1] = i /\ k + 1 # 1
      BY <1>1, <3>1
    <3> QED
      BY <3>2 DEF Places
  <2>2. ASSUME NEW k \in Q PROVE k - 1 \in P /\ (k - 1) + 1 = k
    <3>1. k \in 1 .. Len(q) /\ q[k] = i /\ k # 1
      BY <2>2 DEF Places
    <3>2. k - 1 \in 1 .. Len(r) /\ r[k - 1] = i /\ (k - 1) + 1 = k
      BY <1>1, <3>1
    <3> QED
      BY <3>2 DEF Places
  <2>3. \A k \in P : k \in Nat
    BY <1>1 DEF Places
  <2> HIDE DEF P, Q
  <2>4. f \in [P -> Q]
    BY <2>1
  <2>5. \A a, b \in P : f[a] = f[b] => a = b
    BY <2>3
  <2>6. \A y \in Q : \E k \in P : f[k] = y
    BY <2>2
  <2> QED
    BY <2>4, <2>5, <2>6 DEF Bijection, Injection, Surjection, IsInjective
<1>3. IsFiniteSet(P) /\ Cardinality(P) \in Nat
  BY <1>1, PlacesFacts
<1>4. ExistsBijection(P, Q)
  BY <1>2 DEF ExistsBijection
<1> HIDE DEF f
<1>5. IsFiniteSet(Q) /\ Cardinality(Q) = Cardinality(P)
  BY <1>3, <1>4, FS_Bijection
<1>6. IsFiniteSet(Places(q, i)) /\ Cardinality(Places(q, i)) \in Nat
  BY PlacesFacts
<1>7. Cardinality(Q) = IF 1 \in Places(q, i) THEN Cardinality(Places(q, i)) - 1 ELSE Cardinality(Places(q, i))
  BY <1>6, FS_RemoveElement
<1>8. 1 \in Places(q, i) <=> Head(q) = i
  BY <1>1 DEF Places
<1> QED
  BY <1>3, <1>5, <1>6, <1>7, <1>8 DEF Bit, r

PrepPins(i) == Bit(\E c \in prep : c.op = "primary" /\ c.fb = i)
TailPins(i) == Bit(\E c \in tail : c.op = "primary" /\ c.old = i)

LEMMA PinsAre ==
  ASSUME TypeInv, NEW i
  PROVE  /\ PinsOf(i) = Bit(cur.fb = i) + PrepPins(i) + TailPins(i) + Cardinality(Places(trash, i))
         /\ Bit(cur.fb = i) \in {0, 1} /\ PrepPins(i) \in {0, 1} /\ TailPins(i) \in {0, 1}
         /\ Cardinality(Places(trash, i)) \in Nat /\ trash \in Seq(Imported)
<1>1. trash \in Seq(Imported)
  BY DEF TypeInv
<1>2. Cardinality(Places(trash, i)) \in Nat
  BY <1>1, PlacesFacts
<1> QED
  BY <1>1, <1>2 DEF PinsOf, PrepPins, TailPins, Bit

(* A framebuffer is pinned as long as a plane state refers to it. *)
LEMMA PinZero ==
  ASSUME TypeInv, CommitInv, NEW i \in Imported
  PROVE  PinsOf(i) = 0 <=> ~InUse(i)
<1>1. /\ PinsOf(i) = Bit(cur.fb = i) + PrepPins(i) + TailPins(i) + Cardinality(Places(trash, i))
      /\ Bit(cur.fb = i) \in {0, 1} /\ PrepPins(i) \in {0, 1} /\ TailPins(i) \in {0, 1}
      /\ Cardinality(Places(trash, i)) \in Nat /\ trash \in Seq(Imported)
  BY PinsAre
<1>2. Cardinality(Places(trash, i)) = 0 <=> i \notin Range(trash)
  BY <1>1, PlacesFacts
<1>3. (Bit(cur.fb = i) = 0) <=> cur.fb # i
  BY DEF Bit
<1>4. PrepPins(i) = 0 <=> \A c \in prep : ~(c.op = "primary" /\ c.fb = i)
  BY DEF Bit, PrepPins
<1>5. TailPins(i) = 0 <=> \A c \in tail : ~(c.op = "primary" /\ c.old = i)
  BY DEF Bit, TailPins
<1>6. PinsOf(i) = 0 <=> /\ Bit(cur.fb = i) = 0 /\ PrepPins(i) = 0 /\ TailPins(i) = 0
                        /\ Cardinality(Places(trash, i)) = 0
  BY <1>1
<1>7. i # None /\ \A c \in prep \cup tail : c.op \in {"primary", "cursor"}
  BY ShownFacts DEF TypeInv, Commit
<1>8. \A c \in prep : (c.fb = i => c.op = "primary") /\ c.old # i
  BY <1>7 DEF CommitInv
<1>9. \A c \in tail : (c.fb = i => cur.fb = i) /\ (c.old = i => c.op = "primary")
  BY <1>7 DEF CommitInv
<1>10. ASSUME PinsOf(i) = 0, InUse(i) PROVE FALSE
  <2>1. cur.fb # i /\ i \notin Range(trash)
    BY <1>2, <1>3, <1>6, <1>10
  <2>2. \A c \in prep : ~(c.op = "primary" /\ c.fb = i)
    BY <1>4, <1>6, <1>10
  <2>3. \A c \in tail : ~(c.op = "primary" /\ c.old = i)
    BY <1>5, <1>6, <1>10
  <2> QED
    BY <1>8, <1>9, <1>10, <2>1, <2>2, <2>3 DEF InUse
<1>11. ASSUME ~InUse(i) PROVE PinsOf(i) = 0
  <2>1. cur.fb # i /\ i \notin Range(trash) /\ \A c \in prep \cup tail : c.fb # i /\ c.old # i
    BY <1>11 DEF InUse
  <2> QED
    BY <1>2, <1>3, <1>4, <1>5, <1>6, <2>1
<1> QED
  BY <1>10, <1>11

LEMMA PinsSame ==
  ASSUME UNCHANGED <<cur, prep, tail, trash>>, NEW i
  PROVE  PinsOf(i)' = PinsOf(i)
  BY DEF PinsOf

LEMMA PinObjStep ==
  ASSUME Core, PinInv, UseInv, NEW i \in Imported,
         ImportObj(i) \/ ReleaseObj(i) \/ MoveNotify(i) \/ Move(i) \/ FreeObj(i)
  PROVE  PinInv'
<1>0. TypeInv /\ CommitInv /\ PageInv /\ LifeInv
  BY DEF Core
<1>1. UNCHANGED <<cur, prep, tail, trash>>
  BY DEF ImportObj, ReleaseObj, MoveNotify, Move, FreeObj, commitVars
<1>2. \A j \in Imported : PinsOf(j)' = PinsOf(j)
  BY <1>1, PinsSame
<1>3. ASSUME \A j \in Imported : j # i => imp'[j] = imp[j], imp'[i].pins = imp[i].pins PROVE PinInv'
  BY <1>2, <1>3 DEF PinInv
<1>4. ASSUME \A j \in Imported : j # i => imp'[j] = imp[j], imp'[i].pins = 0, ~InUse(i) PROVE PinInv'
  <2>1. PinsOf(i) = 0
    BY <1>0, <1>4, PinZero
  <2> QED
    BY <1>2, <1>4, <2>1 DEF PinInv
<1>5. CASE ImportObj(i)
  <2>1. imp[i].life = "none" /\ imp'[i].pins = 0 /\ \A j \in Imported : j # i => imp'[j] = imp[j]
    BY <1>0, <1>5, ImportFacts
  <2>2. ~InUse(i)
    BY <1>0, <2>1 DEF LifeInv, Life, UseInv
  <2> QED
    BY <1>4, <2>1, <2>2
<1>6. CASE ReleaseObj(i)
  <2>1. imp' = [imp EXCEPT ![i].life = "released"] /\ imp \in [Imported -> Import]
    BY <1>0, <1>6 DEF ReleaseObj, TypeInv
  <2>2. imp'[i].pins = imp[i].pins /\ \A j \in Imported : j # i => imp'[j] = imp[j]
    BY <2>1, EditLife
  <2> QED
    BY <1>3, <2>2
<1>7. CASE MoveNotify(i)
  BY <1>0, <1>3, <1>7, UnmapFacts DEF MoveNotify
<1>8. CASE Move(i)
  BY <1>0, <1>3, <1>8, MoveFacts
<1>9. CASE FreeObj(i)
  <2>1. CASE Unmap(i, "free")
    BY <1>0, <1>3, <2>1, UnmapFacts
  <2>2. CASE Freed(i)
    <3>1. imp[i].lock = "free"
      BY <2>2 DEF Freed
    <3>2. ~InUse(i)
      BY <3>1 DEF UseInv
    <3> QED
      BY <1>0, <1>4, <2>2, <3>2, FreedFacts
  <2> QED
    BY <1>9, <2>1, <2>2, FreeObjCases
<1> QED
  BY <1>5, <1>6, <1>7, <1>8, <1>9

LEMMA PinPrepare ==
  ASSUME Core, PinInv, PreparePrimary
  PROVE  PinInv'
<1>0. TypeInv /\ CommitInv
  BY DEF Core
<1>1. PICK fb \in Obj \cup {None}, active \in BOOLEAN, newMode \in BOOLEAN :
          /\ prep' = {[op |-> "primary", fb |-> fb, active |-> active, old |-> None,
                       modeset |-> newMode, pc |-> "modeset", fence |-> 0]}
          /\ IF fb \in Imported THEN PrepareImported(fb) ELSE UNCHANGED <<imp, ring>>
  BY DEF PreparePrimary
<1>2. prep = {} /\ UNCHANGED <<cur, tail, trash>>
  BY DEF PreparePrimary
<1>3. ASSUME NEW j \in Imported PROVE PinsOf(j)' = PinsOf(j) + Bit(fb = j)
  <2>1. PrepPins(j) = 0
    BY <1>2 DEF PrepPins, Bit
  <2>2. (\E c \in prep' : c.op = "primary" /\ c.fb = j) <=> fb = j
    BY <1>1
  <2>3. PrepPins(j)' = Bit(fb = j)
    BY <2>2 DEF PrepPins, Bit
  <2>4. /\ PinsOf(j) = Bit(cur.fb = j) + PrepPins(j) + TailPins(j) + Cardinality(Places(trash, j))
        /\ Bit(cur.fb = j) \in {0, 1} /\ TailPins(j) \in {0, 1}
        /\ Cardinality(Places(trash, j)) \in Nat
    BY <1>0, PinsAre
  <2>5. PinsOf(j)' = Bit(cur.fb = j) + PrepPins(j)' + TailPins(j) + Cardinality(Places(trash, j))
    BY <1>2 DEF PinsOf, PrepPins, TailPins
  <2>6. Bit(fb = j) \in {0, 1}
    BY DEF Bit
  <2> QED
    BY <2>1, <2>3, <2>4, <2>5, <2>6
<1>4. CASE fb \in Imported
  <2>1. imp'[fb].pins = imp[fb].pins + 1 /\ \A j \in Imported : j # fb => imp'[j] = imp[j]
    BY <1>0, <1>1, <1>4, PrepareFacts
  <2>2. \A j \in Imported : imp[j].pins \in Int
    BY <1>0 DEF TypeInv, Import
  <2>3. ASSUME NEW j \in Imported PROVE imp'[j].pins = PinsOf(j)'
    <3>1. imp[j].pins = PinsOf(j) /\ PinsOf(j)' = PinsOf(j) + Bit(fb = j)
      BY <1>3 DEF PinInv
    <3>2. CASE j = fb
      BY <2>1, <3>1, <3>2 DEF Bit
    <3>3. CASE j # fb
      <4>1. Bit(fb = j) = 0
        BY <3>3 DEF Bit
      <4> QED
        BY <2>1, <2>2, <3>1, <3>3, <4>1
    <3> QED
      BY <3>2, <3>3
  <2> QED
    BY <2>3 DEF PinInv
<1>5. CASE fb \notin Imported
  <2>2. \A j \in Imported : imp[j].pins \in Int
    BY <1>0 DEF TypeInv, Import
  <2>3. ASSUME NEW j \in Imported PROVE imp'[j].pins = PinsOf(j)'
    <3>1. imp[j].pins = PinsOf(j) /\ PinsOf(j)' = PinsOf(j) + Bit(fb = j)
      BY <1>3 DEF PinInv
    <3>2. Bit(fb = j) = 0 /\ imp' = imp
      BY <1>1, <1>5 DEF Bit
    <3> QED
      BY <2>2, <3>1, <3>2
  <2> QED
    BY <2>3 DEF PinInv
<1> QED
  BY <1>4, <1>5

LEMMA PinTailStep ==
  ASSUME Core, PinInv, PrepareCursor \/ Swap \/ TailNext
  PROVE  PinInv'
<1>0. TypeInv /\ CommitInv /\ imp' = imp
  BY DEF Core, PrepareCursor, Swap, TailNext, TailModeset, PrimaryPlaneUpdate, AtomicFlush, CursorUpload,
         CursorWait, CursorPing
<1> SUFFICES ASSUME NEW j \in Imported PROVE PinsOf(j)' = PinsOf(j)
  BY <1>0 DEF PinInv
<1>1. /\ PinsOf(j) = Bit(cur.fb = j) + PrepPins(j) + TailPins(j) + Cardinality(Places(trash, j))
      /\ Bit(cur.fb = j) \in {0, 1} /\ PrepPins(j) \in {0, 1} /\ TailPins(j) \in {0, 1}
      /\ Cardinality(Places(trash, j)) \in Nat /\ trash \in Seq(Imported)
  BY <1>0, PinsAre
<1>2. PinsOf(j)' = Bit(cur'.fb = j) + PrepPins(j)' + TailPins(j)' + Cardinality(Places(trash', j))
  BY DEF PinsOf, PrepPins, TailPins
<1>3. CASE PrepareCursor
  <2>1. prep = {} /\ UNCHANGED <<cur, tail, trash>> /\ \A c \in prep' : c.op = "cursor"
    BY <1>3 DEF PrepareCursor
  <2>2. PrepPins(j)' = PrepPins(j) /\ TailPins(j)' = TailPins(j)
    BY <2>1 DEF PrepPins, TailPins, Bit
  <2> QED
    BY <1>1, <1>2, <2>1, <2>2
<1>4. CASE Swap
  <2>1. PICK c \in prep, d \in Commit :
           /\ tail = {} /\ tail' = {d} /\ prep = {c} /\ prep' = {}
           /\ d.op = c.op /\ d.fb = c.fb
           /\ \/ /\ c.op = "cursor" /\ d.old = cur.cursor /\ cur'.fb = cur.fb
              \/ /\ c.op = "primary" /\ d.old = cur.fb /\ cur'.fb = c.fb
    BY <1>0, <1>4, SwapCases
  <2>2. trash' = trash
    BY <1>4 DEF Swap
  <2>3. TailPins(j) = 0 /\ PrepPins(j)' = 0
    BY <2>1 DEF TailPins, PrepPins, Bit
  <2>4. CASE c.op = "cursor"
    <3>1. PrepPins(j) = 0 /\ TailPins(j)' = 0 /\ cur'.fb = cur.fb
      BY <2>1, <2>4 DEF TailPins, PrepPins, Bit
    <3> QED
      BY <1>1, <1>2, <2>2, <2>3, <3>1
  <2>5. CASE c.op = "primary"
    <3>1. PrepPins(j) = Bit(cur'.fb = j) /\ TailPins(j)' = Bit(cur.fb = j)
      BY <2>1, <2>5 DEF TailPins, PrepPins, Bit
    <3> QED
      BY <1>1, <1>2, <2>2, <2>3, <3>1
  <2> QED
    BY <2>1, <2>4, <2>5
<1>5. CASE TailNext
  <2>1. PICK c \in tail :
           /\ tail = {c} /\ c \in Commit /\ UNCHANGED <<cur, prep>>
           /\ \/ AtomicFlush /\ tail' = {} /\ c.pc = "flush"
              \/ \E d \in Commit :
                   /\ tail' = {d} /\ d.op = c.op /\ d.fb = c.fb /\ d.active = c.active /\ d.old = c.old
                   /\ d.modeset = c.modeset
                   /\ \/ TailModeset /\ c.pc = "modeset" /\ d.pc = "update"
                      \/ PrimaryPlaneUpdate /\ c.pc = "update" /\ d.pc = "flush"
                      \/ CursorUpload /\ c.pc = "cursor" /\ d.pc \in {"wait", "ping", "flush"}
                      \/ CursorWait /\ c.pc = "wait" /\ d.pc = "ping"
                      \/ CursorPing /\ c.pc = "ping" /\ d.pc = "flush"
    BY <1>0, <1>5, TailFacts
  <2>2. PrepPins(j)' = PrepPins(j) /\ cur' = cur
    BY <2>1 DEF PrepPins
  <2>3. CASE AtomicFlush /\ tail' = {}
    <3>1. TailPins(j)' = 0
      BY <2>3 DEF TailPins, Bit
    <3>2. trash' = IF c.op = "primary" /\ c.old \in Imported THEN Append(trash, c.old) ELSE trash
      BY <2>1, <2>3 DEF AtomicFlush
    <3>4. CASE c.op = "primary" /\ c.old \in Imported
      <4>1. TailPins(j) = Bit(c.old = j)
        BY <2>1, <3>4 DEF TailPins, Bit
      <4>2. Cardinality(Places(trash', j)) = Cardinality(Places(trash, j)) + Bit(c.old = j)
        BY <1>1, <3>2, <3>4, PlacesAppend
      <4> QED
        BY <1>1, <1>2, <2>2, <3>1, <4>1, <4>2
    <3>5. CASE ~(c.op = "primary" /\ c.old \in Imported)
      <4>1. TailPins(j) = 0 /\ trash' = trash
        BY <2>1, <3>2, <3>5 DEF TailPins, Bit
      <4> QED
        BY <1>1, <1>2, <2>2, <3>1, <4>1
    <3> QED
      BY <3>4, <3>5
  <2>4. ASSUME NEW d \in Commit, tail' = {d}, d.op = c.op, d.old = c.old, trash' = trash
        PROVE  PinsOf(j)' = PinsOf(j)
    <3>1. TailPins(j)' = TailPins(j)
      BY <2>1, <2>4 DEF TailPins, Bit
    <3> QED
      BY <1>1, <1>2, <2>2, <2>4, <3>1
  <2>5. AtomicFlush \/ trash' = trash
    BY <1>5 DEF TailNext, TailModeset, PrimaryPlaneUpdate, CursorUpload, CursorWait, CursorPing
  <2>6. AtomicFlush => tail' = {}
    BY DEF AtomicFlush
  <2> QED
    BY <2>1, <2>3, <2>4, <2>5, <2>6
<1> QED
  BY <1>3, <1>4, <1>5

LEMMA PinCleanup ==
  ASSUME Core, PinInv, CleanupFb
  PROVE  PinInv'
<1>0. TypeInv /\ trash \in Seq(Imported) /\ trash # <<>> /\ trash' = Tail(trash) /\ UNCHANGED <<cur, prep, tail>>
  BY DEF Core, TypeInv, CleanupFb
<1>1. PICK o : o = Head(trash)
  OBVIOUS
<1>2. ASSUME NEW j \in Imported PROVE PinsOf(j) = PinsOf(j)' + Bit(o = j) /\ PinsOf(j)' \in Int
  <2>1. /\ PinsOf(j) = Bit(cur.fb = j) + PrepPins(j) + TailPins(j) + Cardinality(Places(trash, j))
        /\ Bit(cur.fb = j) \in {0, 1} /\ PrepPins(j) \in {0, 1} /\ TailPins(j) \in {0, 1}
    BY <1>0, PinsAre
  <2>2. PinsOf(j)' = Bit(cur.fb = j) + PrepPins(j) + TailPins(j) + Cardinality(Places(trash', j))
    BY <1>0 DEF PinsOf, PrepPins, TailPins
  <2>3. Cardinality(Places(trash, j)) = Cardinality(Places(trash', j)) + Bit(o = j)
    BY <1>0, <1>1, PlacesTail
  <2>4. trash' \in Seq(Imported)
    BY <1>0
  <2>5. Cardinality(Places(trash', j)) \in Nat /\ Bit(o = j) \in {0, 1}
    BY <2>4, PlacesFacts DEF Bit
  <2> QED
    BY <2>1, <2>2, <2>3, <2>5
<1>a. o \in Imported
  BY <1>0, <1>1
<1>3. PinInv'
  <2>0. imp \in [Imported -> Import] /\ imp[o] \in Import
    BY <1>0, <1>a DEF TypeInv
  <2>1. imp' = [imp EXCEPT ![o].pins = imp[o].pins - 1]
    BY <1>1 DEF CleanupFb
  <2>2. imp[o].pins - 1 \in Int /\ imp[o].pins \in Int
    BY <2>0 DEF Import
  <2>3. imp'[o].pins = imp[o].pins - 1 /\ \A j \in Imported : j # o => imp'[j] = imp[j]
    BY <1>a, <2>0, <2>1, <2>2, EditPins
  <2>4. ASSUME NEW j \in Imported PROVE imp'[j].pins = PinsOf(j)'
    <3>1. imp[j].pins = PinsOf(j)
      BY DEF PinInv
    <3>2. CASE j = o
      BY <1>2, <2>2, <2>3, <3>1, <3>2 DEF Bit
    <3>3. CASE j # o
      <4>1. Bit(o = j) = 0
        BY <3>3 DEF Bit
      <4> QED
        BY <1>2, <2>3, <3>1, <3>3, <4>1
    <3> QED
      BY <3>2, <3>3
  <2> QED
    BY <2>4 DEF PinInv
<1> QED
  BY <1>3

LEMMA PinStep ==
  ASSUME Core, PinInv, UseInv, [Next]_vars
  PROVE  PinInv'
<1>1. CASE UNCHANGED <<cur, prep, tail, trash, imp>>
  BY <1>1, PinsSame DEF PinInv
<1>2. CASE HostRead \/ HostCursor \/ Dequeue \/ Unplug \/ UNCHANGED vars
  BY <1>1, <1>2 DEF HostRead, HostCursor, Dequeue, Unplug, vars, commitVars
<1> QED
  BY <1>2, PinObjStep, PinPrepare, PinTailStep, PinCleanup DEF Next

LEMMA UseSame ==
  ASSUME UNCHANGED <<cur, prep, tail, trash>>, NEW j
  PROVE  InUse(j)' <=> InUse(j)
  BY DEF InUse

LEMMA UseObjStep ==
  ASSUME Core, PinInv, UseInv, NEW i \in Imported,
         ImportObj(i) \/ ReleaseObj(i) \/ MoveNotify(i) \/ Move(i) \/ FreeObj(i)
  PROVE  UseInv'
<1>0. TypeInv /\ CommitInv /\ PageInv /\ LifeInv
  BY DEF Core
<1>1. UNCHANGED <<cur, prep, tail, trash>>
  BY DEF ImportObj, ReleaseObj, MoveNotify, Move, FreeObj, commitVars
<1>2. \A j \in Imported : InUse(j)' <=> InUse(j)
  BY <1>1, UseSame
<1>3. ASSUME \A j \in Imported : j # i => imp'[j] = imp[j],
             InUse(i) => imp'[i].attached,
             imp'[i].lock # "none" => ~InUse(i),
             imp'[i].lock = "free" => imp'[i].life = "released"
      PROVE  UseInv'
  BY <1>2, <1>3 DEF UseInv
<1>5. CASE ImportObj(i)
  BY <1>0, <1>3, <1>5, ImportFacts
<1>6. CASE ReleaseObj(i)
  <2>1. imp' = [imp EXCEPT ![i].life = "released"] /\ imp \in [Imported -> Import]
    BY <1>0, <1>6 DEF ReleaseObj, TypeInv
  <2>2. /\ imp'[i].attached = imp[i].attached /\ imp'[i].lock = imp[i].lock /\ imp'[i].life = "released"
        /\ \A j \in Imported : j # i => imp'[j] = imp[j]
    BY <2>1, EditLife
  <2> QED
    BY <1>3, <2>2 DEF UseInv
<1>7. CASE MoveNotify(i)
  <2>1. imp[i].pins = 0
    BY <1>7 DEF MoveNotify
  <2>2. ~InUse(i)
    BY <1>0, <2>1, PinZero DEF PinInv
  <2>3. imp'[i].lock = "exporter" /\ \A j \in Imported : j # i => imp'[j] = imp[j]
    BY <1>0, <1>7, UnmapFacts DEF MoveNotify
  <2> QED
    BY <1>3, <2>2, <2>3
<1>8. CASE Move(i)
  <2>1. imp'[i].lock = "none" /\ imp'[i].attached = imp[i].attached
        /\ \A j \in Imported : j # i => imp'[j] = imp[j]
    BY <1>0, <1>8, MoveFacts
  <2> QED
    BY <1>3, <2>1 DEF UseInv
<1>9. CASE FreeObj(i)
  <2>1. CASE Unmap(i, "free") /\ imp[i].life = "released" /\ ~InUse(i)
    BY <1>0, <1>3, <2>1, UnmapFacts
  <2>2. CASE Freed(i)
    <3>1. imp[i].lock = "free"
      BY <2>2 DEF Freed
    <3>2. ~InUse(i)
      BY <3>1 DEF UseInv
    <3> QED
      BY <1>0, <1>3, <2>2, <3>2, FreedFacts
  <2> QED
    BY <1>9, <2>1, <2>2, FreeObjCases
<1> QED
  BY <1>5, <1>6, <1>7, <1>8, <1>9

LEMMA UseStep ==
  ASSUME Core, PinInv, UseInv, [Next]_vars
  PROVE  UseInv'
<1>0. TypeInv /\ CommitInv /\ PageInv /\ LifeInv
  BY DEF Core
<1>1. ASSUME \A j \in Imported : InUse(j)' => InUse(j), UNCHANGED imp PROVE UseInv'
  BY <1>1 DEF UseInv
<1>2. CASE HostRead \/ HostCursor \/ Dequeue \/ Unplug \/ UNCHANGED vars
  <2>1. UNCHANGED <<cur, prep, tail, trash, imp>>
    BY <1>2 DEF HostRead, HostCursor, Dequeue, Unplug, vars, commitVars
  <2> QED
    BY <1>1, <2>1, UseSame
<1>3. CASE PreparePrimary
  <2>1. PICK fb \in Obj \cup {None}, active \in BOOLEAN, newMode \in BOOLEAN :
          /\ fb \in Imported => imp[fb].life = "held"
          /\ prep' = {[op |-> "primary", fb |-> fb, active |-> active, old |-> None,
                       modeset |-> newMode, pc |-> "modeset", fence |-> 0]}
          /\ IF fb \in Imported THEN PrepareImported(fb) ELSE UNCHANGED <<imp, ring>>
    BY <1>3 DEF PreparePrimary
  <2>2. prep = {} /\ UNCHANGED <<cur, tail, trash>>
    BY <1>3 DEF PreparePrimary
  <2>3. \A j \in Imported : InUse(j)' => InUse(j) \/ j = fb
    BY <2>1, <2>2, ShownFacts DEF InUse
  <2>4. CASE fb \in Imported
    <3>1. /\ imp[fb].lock = "none" /\ imp'[fb].lock = "none"
          /\ \A j \in Imported : j # fb => imp'[j] = imp[j]
          /\ \/ /\ imp[fb].sgt # 0 /\ imp'[fb].attached = imp[fb].attached
             \/ imp'[fb].attached
      BY <1>0, <2>1, <2>4, PrepareFacts
    <3>2. imp'[fb].attached
      BY <1>0, <2>1, <2>4, <3>1 DEF PageInv, Page
    <3>3. ASSUME NEW j \in Imported
          PROVE  /\ InUse(j)' => imp'[j].attached
                 /\ imp'[j].lock # "none" => ~InUse(j)'
                 /\ imp'[j].lock = "free" => imp'[j].life = "released"
      <4>1. CASE j = fb
        BY <3>1, <3>2, <4>1
      <4>2. CASE j # fb
        BY <2>3, <3>1, <4>2 DEF UseInv
      <4> QED
        BY <4>1, <4>2
    <3> QED
      BY <3>3 DEF UseInv
  <2>5. CASE fb \notin Imported
    BY <1>1, <2>1, <2>3, <2>5
  <2> QED
    BY <2>4, <2>5
<1>4. CASE PrepareCursor
  <2>1. prep = {} /\ UNCHANGED <<cur, tail, trash, imp>> /\ \A c \in prep' : c.fb \notin Imported /\ c.old = None
    BY <1>4, ShownFacts DEF PrepareCursor
  <2>2. \A j \in Imported : InUse(j)' => InUse(j)
    BY <2>1, ShownFacts DEF InUse
  <2> QED
    BY <1>1, <2>1, <2>2
<1>5. CASE Swap
  <2>1. PICK c \in prep, d \in Commit :
           /\ tail = {} /\ tail' = {d} /\ prep = {c} /\ prep' = {}
           /\ d.op = c.op /\ d.fb = c.fb
           /\ \/ /\ c.op = "cursor" /\ d.old = cur.cursor /\ cur'.fb = cur.fb
              \/ /\ c.op = "primary" /\ d.old = cur.fb /\ cur'.fb = c.fb
    BY <1>0, <1>5, SwapCases
  <2>2. UNCHANGED <<trash, imp>> /\ cur.cursor \notin Imported
    BY <1>0, <1>5 DEF Swap, TypeInv
  <2>3. \A j \in Imported : InUse(j)' => InUse(j)
    BY <2>1, <2>2 DEF InUse
  <2> QED
    BY <1>1, <2>2, <2>3
<1>6. CASE TailNext
  <2>0. imp' = imp
    BY <1>6 DEF TailNext, TailModeset, PrimaryPlaneUpdate, AtomicFlush, CursorUpload, CursorWait, CursorPing
  <2>1. PICK c \in tail :
           /\ tail = {c} /\ UNCHANGED <<cur, prep>> /\ c \in Commit
           /\ \/ AtomicFlush /\ tail' = {}
              \/ \E d \in Commit : tail' = {d} /\ d.fb = c.fb /\ d.old = c.old
    BY <1>0, <1>6, TailFacts
  <2>2. \A j \in Imported : j \in Range(trash') => j \in Range(trash) \/ j = c.old
    <3>1. CASE trash' = trash
      BY <3>1
    <3>2. CASE c.old \in Imported /\ trash' = Append(trash, c.old)
      <4>1. trash \in Seq(Imported) /\ c.old \in Imported
        BY <1>0, <3>2 DEF TypeInv
      <4>2. DOMAIN trash = 1 .. Len(trash) /\ DOMAIN trash' = 1 .. Len(trash')
        BY <3>2, <4>1
      <4>3. \A k \in 1 .. Len(trash') : (k \in 1 .. Len(trash) /\ trash'[k] = trash[k]) \/ trash'[k] = c.old
        BY <3>2, <4>1
      <4> QED
        BY <4>2, <4>3 DEF Range
    <3>3. trash' = trash \/ (c.old \in Imported /\ trash' = Append(trash, c.old))
      BY <1>6, <2>1 DEF TailNext, TailModeset, PrimaryPlaneUpdate, AtomicFlush, CursorUpload, CursorWait,
                        CursorPing
    <3> QED
      BY <3>1, <3>2, <3>3
  <2>3. \A j \in Imported : InUse(j)' => InUse(j)
    BY <2>1, <2>2 DEF InUse
  <2> QED
    BY <1>1, <2>0, <2>3
<1>7. CASE CleanupFb
  <2>1. /\ trash \in Seq(Imported) /\ trash # <<>> /\ trash' = Tail(trash) /\ UNCHANGED <<cur, prep, tail>>
        /\ imp \in [Imported -> Import]
    BY <1>0, <1>7 DEF TypeInv, CleanupFb
  <2>2. \A j : j \in Range(trash') => j \in Range(trash)
    <3>1. DOMAIN trash = 1 .. Len(trash) /\ DOMAIN trash' = 1 .. Len(trash')
      BY <2>1
    <3>2. \A k \in 1 .. Len(trash') : k + 1 \in 1 .. Len(trash) /\ trash'[k] = trash[k + 1]
      BY <2>1, ReadFacts
    <3> QED
      BY <3>1, <3>2 DEF Range
  <2>3. \A j \in Imported : InUse(j)' => InUse(j)
    BY <2>1, <2>2 DEF InUse
  <2>4. \A j \in Imported : imp'[j].attached = imp[j].attached /\ imp'[j].lock = imp[j].lock
                            /\ imp'[j].life = imp[j].life
    <3>1. PICK o \in Imported : o = Head(trash)
      BY <2>1
    <3>2. imp' = [imp EXCEPT ![o].pins = imp[o].pins - 1] /\ imp[o] \in Import
      BY <1>7, <2>1, <3>1 DEF CleanupFb
    <3>3. imp[o].pins - 1 \in Int
      BY <3>2 DEF Import
    <3> QED
      BY <2>1, <3>2, <3>3, EditPins
  <2> QED
    BY <2>3, <2>4 DEF UseInv
<1> QED
  BY <1>2, <1>3, <1>4, <1>5, <1>6, <1>7, UseObjStep DEF Next
-----------------------------------------------------------------------------
(* What is on the screen. *)
LEMMA SentFinal ==
  ASSUME TypeInv, NEW s, Sent(s), \A l \in 1 .. Len(s) : s[l].op # "SCANOUT", NEW x
  PROVE  Final(hostScan', ring', x) <=> Final(hostScan, ring, x)
<1>1. ring \in Seq(Command) /\ s \in Seq(Command) /\ ring' = ring \o s /\ hostScan' = hostScan
  BY DEF TypeInv, Sent
<1> QED
  BY <1>1, FinalKeep

LEMMA SentScan ==
  ASSUME TypeInv, NEW s, Sent(s), NEW p \in 1 .. Len(s), s[p].op = "SCANOUT",
         \A l \in 1 .. Len(s) : l > p => s[l].op # "SCANOUT", NEW x
  PROVE  Final(hostScan', ring', x) <=> x = s[p].o
<1>1. ring \in Seq(Command) /\ s \in Seq(Command) /\ ring' = ring \o s /\ hostScan' = hostScan
  BY DEF TypeInv, Sent
<1> QED
  BY <1>1, FinalScan

LEMMA SentBlank ==
  ASSUME TypeInv, Sent(<<Cmd("SCANOUT", None, 0, 0)>>), NEW x
  PROVE  Final(hostScan', ring', x) <=> x = None
<1>1. PICK s : s = <<Cmd("SCANOUT", None, 0, 0)>>
  OBVIOUS
<1>2. 1 \in 1 .. Len(s) /\ s[1].op = "SCANOUT" /\ s[1].o = None /\ \A l \in 1 .. Len(s) : ~(l > 1)
  BY <1>1, CmdFields
<1> QED
  BY <1>1, <1>2, SentScan

LEMMA SentNone ==
  ASSUME TypeInv, Sent(<<>>), NEW x
  PROVE  Final(hostScan', ring', x) <=> Final(hostScan, ring, x)
<1>1. PICK s : s = <<>>
  OBVIOUS
<1>2. \A l \in 1 .. Len(s) : s[l].op # "SCANOUT"
  BY <1>1
<1> QED
  BY <1>1, <1>2, SentFinal

LEMMA QueueFinal ==
  ASSUME TypeInv, NEW c \in Command, c.op # "SCANOUT", Queue(<<c>>), hostScan' = hostScan, NEW x
  PROVE  Final(hostScan', ring', x) <=> Final(hostScan, ring, x)
<1>1. PICK s : s = <<c>>
  OBVIOUS
<1>2. s \in Seq(Command) /\ ring \in Seq(Command) /\ \A l \in 1 .. Len(s) : s[l].op # "SCANOUT"
  BY <1>1 DEF TypeInv
<1>3. ring' = ring \o s \/ ring' = ring
  BY <1>1 DEF Queue
<1>4. CASE ring' = ring \o s
  <2>1. Final(hostScan, ring \o s, x) <=> Final(hostScan, ring, x)
    BY <1>2, FinalKeep
  <2> QED
    BY <1>4, <2>1
<1>5. CASE ring' = ring
  BY <1>5
<1> QED
  BY <1>3, <1>4, <1>5

(* Only two steps of a commit change what the host will show. *)
LEMMA FinalSame ==
  ASSUME Core, [Next]_vars, ~TailModeset, ~PrimaryPlaneUpdate, NEW x
  PROVE  Final(hostScan', ring', x) <=> Final(hostScan, ring, x)
<1>0. TypeInv /\ RingInv /\ CommitInv /\ fences \in Nat /\ fences + 1 \in Nat /\ 0 \in Nat
      /\ \A i \in Imported : gen[i] \in Nat /\ i \in Shown
  BY ShownFacts DEF Core, TypeInv
<1>a. ASSUME NEW op \in Ops \ {"SCANOUT"}, NEW o \in Shown, NEW n \in Nat, NEW f \in Nat,
             Queue(<<Cmd(op, o, n, f)>>), hostScan' = hostScan
      PROVE  Final(hostScan', ring', x) <=> Final(hostScan, ring, x)
  <2>1. PICK c : c = Cmd(op, o, n, f)
    OBVIOUS
  <2>2. c \in Command /\ c.op # "SCANOUT" /\ Queue(<<c>>)
    BY <1>a, <2>1, CmdFacts
  <2> QED
    BY <1>0, <1>a, <2>2, QueueFinal
<1>1. CASE UNCHANGED <<ring, hostScan>>
  BY <1>1
<1>2. CASE HostRead
  <2>1. /\ ring \in Seq(Command) /\ ring # <<>> /\ ring' = Tail(ring)
        /\ hostScan' = ScanAfter(hostScan, Head(ring))
    BY <1>0, <1>2, HostReadFacts DEF TypeInv
  <2> QED
    BY <2>1, ReadFinal
<1>3. ASSUME NEW i \in Imported, ImportObj(i)
      PROVE  Final(hostScan', ring', x) <=> Final(hostScan, ring, x)
  <2>1. Queue(<<Cmd("ATTACH", i, gen[i], 0)>>) /\ hostScan' = hostScan
    BY <1>3 DEF ImportObj, CmdResourceCreateBlob, hostVars
  <2> QED
    BY <1>0, <1>a, <2>1 DEF Ops
<1>b. ASSUME NEW i \in Imported, NEW who, Unmap(i, who), hostScan' = hostScan
      PROVE  Final(hostScan', ring', x) <=> Final(hostScan, ring, x)
  <2>1. CASE UNCHANGED ring
    BY <1>b, <2>1
  <2>2. CASE Queue(<<CmdDetachBacking(i, fences + 1)>>)
    <3>1. PICK f \in Nat : f = fences + 1
      BY <1>0
    <3>2. Queue(<<Cmd("DETACH", i, 0, f)>>)
      BY <2>2, <3>1 DEF CmdDetachBacking
    <3> QED
      BY <1>0, <1>a, <1>b, <3>2 DEF Ops
  <2> QED
    BY <1>b, <2>1, <2>2 DEF Unmap
<1>4. ASSUME NEW i \in Imported, MoveNotify(i) \/ FreeObj(i)
      PROVE  Final(hostScan', ring', x) <=> Final(hostScan, ring, x)
  <2>1. hostScan' = hostScan
    BY <1>4 DEF MoveNotify, FreeObj, hostVars
  <2>2. CASE \E who : Unmap(i, who)
    BY <1>b, <2>1, <2>2
  <2>3. CASE Freed(i)
    <3>1. Queue(<<Cmd("UNREF", i, 0, 0)>>)
      BY <2>3 DEF Freed, CmdUnref
    <3> QED
      BY <1>0, <1>a, <2>1, <3>1 DEF Ops
  <2> QED
    BY <1>4, <2>2, <2>3, FreeObjCases DEF MoveNotify
<1>5. CASE PreparePrimary
  <2>1. hostScan' = hostScan
    BY <1>5 DEF PreparePrimary, hostVars
  <2>2. CASE UNCHANGED ring
    BY <2>1, <2>2
  <2>3. ASSUME NEW i \in Imported, Queue(ObjectAttach(i))
        PROVE  Final(hostScan', ring', x) <=> Final(hostScan, ring, x)
    <3>1. CASE imp[i].attached
      <4>1. ring' = ring
        BY <1>0, <2>3, <3>1, PushNone DEF Queue, ObjectAttach, TypeInv
      <4> QED
        BY <2>1, <4>1
    <3>2. CASE ~imp[i].attached
      <4>1. Queue(<<Cmd("ATTACH", i, gen[i], 0)>>)
        BY <2>3, <3>2 DEF ObjectAttach, CmdAttachBacking
      <4> QED
        BY <1>0, <1>a, <2>1, <4>1 DEF Ops
    <3> QED
      BY <3>1, <3>2
  <2> QED
    BY <1>5, <2>2, <2>3 DEF PreparePrimary, PrepareImported
<1>6. CASE CursorUpload
  <2>1. hostScan' = hostScan
    BY <1>6 DEF CursorUpload, hostVars
  <2>2. PICK c \in tail : UNCHANGED ring \/ Queue(<<CmdTransferToHost2d(c.fb, fences + 1)>>)
    BY <1>6 DEF CursorUpload
  <2>3. CASE Queue(<<CmdTransferToHost2d(c.fb, fences + 1)>>)
    <3>1. PICK f \in Nat : f = fences + 1
      BY <1>0
    <3>2. Queue(<<Cmd("TRANSFER", c.fb, 0, f)>>)
      BY <2>3, <3>1 DEF CmdTransferToHost2d
    <3>3. c.fb \in Shown
      BY <1>0 DEF TypeInv, Commit
    <3> QED
      BY <1>0, <1>a, <2>1, <3>2, <3>3 DEF Ops
  <2> QED
    BY <2>1, <2>2, <2>3
<1> QED
  BY <1>1, <1>2, <1>3, <1>4, <1>5, <1>6 DEF Next, vars, ReleaseObj, Move, PrepareCursor, Swap, TailNext,
     AtomicFlush, CursorWait, CursorPing, CleanupFb, HostCursor, Dequeue, Unplug, hostVars

LEMMA FollowModeset ==
  ASSUME Core, FollowInv, TailModeset, plugged
  PROVE  FollowInv'
<1>0. TypeInv /\ CommitInv /\ None \notin Imported
  BY ShownFacts DEF Core
<1>1. PICK c \in tail :
           /\ tail = {c} /\ c \in Commit /\ UNCHANGED <<cur, prep>>
           /\ \/ AtomicFlush /\ tail' = {} /\ c.pc = "flush"
              \/ \E d \in Commit :
                   /\ tail' = {d} /\ d.op = c.op /\ d.fb = c.fb /\ d.active = c.active /\ d.old = c.old
                   /\ d.modeset = c.modeset
                   /\ \/ TailModeset /\ c.pc = "modeset" /\ d.pc = "update"
                      \/ PrimaryPlaneUpdate /\ c.pc = "update" /\ d.pc = "flush"
                      \/ CursorUpload /\ c.pc = "cursor" /\ d.pc \in {"wait", "ping", "flush"}
                      \/ CursorWait /\ c.pc = "wait" /\ d.pc = "ping"
                      \/ CursorPing /\ c.pc = "ping" /\ d.pc = "flush"
  BY <1>0, TailFacts DEF TailNext
<1>2. PICK e \in tail : \E s :
           /\ Sent(s) /\ e.pc = "modeset" /\ fences' = fences
           /\ \/ s = <<>> /\ (~plugged \/ ~e.modeset)
              \/ plugged /\ e.modeset /\ s = <<Cmd("SCANOUT", None, 0, 0)>>
  BY <1>0, ModesetSent
<1>3. e = c /\ c.pc = "modeset"
  BY <1>1, <1>2
<1>4. PICK d \in Commit :
           /\ tail' = {d} /\ d.active = c.active /\ d.old = c.old /\ d.modeset = c.modeset /\ d.pc = "update"
  BY <1>1, <1>3
<1>5. UNCHANGED <<plugged, needsModeset, cur>>
  BY DEF TailModeset
<1>6. /\ \/ Final(hostScan, ring, IF c.active THEN c.old ELSE None)
         \/ needsModeset
         \/ c.modeset
      /\ \A i \in Imported : Final(hostScan, ring, i) => cur.fb = i \/ c.old = i
  BY <1>1, <1>3 DEF FollowInv, Finally
<1>7. CASE c.modeset /\ Sent(<<Cmd("SCANOUT", None, 0, 0)>>)
  <2>1. \A i \in Imported : ~Final(hostScan', ring', i)
    BY <1>0, <1>7, SentBlank
  <2> QED
    BY <1>4, <1>7, <2>1 DEF FollowInv, Finally, Early
<1>8. CASE Sent(<<>>)
  <2>1. \A x : Final(hostScan', ring', x) <=> Final(hostScan, ring, x)
    BY <1>0, <1>8, SentNone
  <2>2. /\ \/ Final(hostScan', ring', IF d.active THEN d.old ELSE None)
           \/ needsModeset'
           \/ d.modeset
        /\ \A i \in Imported : Final(hostScan', ring', i) => cur'.fb = i \/ d.old = i
    BY <1>4, <1>5, <1>6, <2>1
  <2> QED
    BY <1>4, <2>2 DEF FollowInv, Finally, Early
<1> QED
  BY <1>2, <1>3, <1>7, <1>8

LEMMA FollowUpdate ==
  ASSUME Core, FollowInv, PrimaryPlaneUpdate, plugged
  PROVE  FollowInv'
<1>0. TypeInv /\ CommitInv /\ None \notin Imported /\ needsModeset \in BOOLEAN
  BY ShownFacts DEF Core, TypeInv
<1>1. PICK c \in tail :
           /\ tail = {c} /\ c \in Commit /\ UNCHANGED <<cur, prep>>
           /\ \/ AtomicFlush /\ tail' = {} /\ c.pc = "flush"
              \/ \E d \in Commit :
                   /\ tail' = {d} /\ d.op = c.op /\ d.fb = c.fb /\ d.active = c.active /\ d.old = c.old
                   /\ d.modeset = c.modeset
                   /\ \/ TailModeset /\ c.pc = "modeset" /\ d.pc = "update"
                      \/ PrimaryPlaneUpdate /\ c.pc = "update" /\ d.pc = "flush"
                      \/ CursorUpload /\ c.pc = "cursor" /\ d.pc \in {"wait", "ping", "flush"}
                      \/ CursorWait /\ c.pc = "wait" /\ d.pc = "ping"
                      \/ CursorPing /\ c.pc = "ping" /\ d.pc = "flush"
  BY <1>0, TailFacts DEF TailNext
<1>2. PICK e \in tail : \E s :
           /\ Sent(s) /\ e.pc = "update" /\ e \in Commit
           /\ \/ ~plugged /\ s = <<>>
              \/ /\ plugged
                 /\ e.fb = None \/ ~e.active
                 /\ s = <<Cmd("SCANOUT", None, 0, 0)>> /\ needsModeset' = needsModeset
              \/ /\ plugged /\ e.fb # None /\ e.active /\ e.fb = e.old
                 /\ s = <<>> /\ needsModeset' = needsModeset
              \/ \E f \in Nat :
                 /\ plugged /\ e.fb # None /\ e.active
                 /\ s \in UpdateCommands(e.fb, NewScanout(e), f)
                 /\ needsModeset' = IF NewScanout(e) THEN FALSE ELSE needsModeset
  BY <1>0, UpdateSent
<1>3. e = c /\ c.pc = "update" /\ c.op = "primary"
  BY <1>0, <1>1, <1>2 DEF CommitInv
<1>4. PICK d \in Commit : tail' = {d} /\ d.pc = "flush" /\ d.modeset = c.modeset
  BY <1>1, <1>3
<1>5. UNCHANGED <<plugged, cur>> /\ c.fb = cur.fb /\ c.active = cur.active
  BY <1>0, <1>3 DEF PrimaryPlaneUpdate, CommitInv
<1>6. /\ \/ Final(hostScan, ring, IF c.active THEN c.old ELSE None)
         \/ needsModeset
         \/ c.modeset
      /\ \A i \in Imported : Final(hostScan, ring, i) => cur.fb = i \/ c.old = i
  BY <1>1, <1>3 DEF FollowInv, Finally
<1>7. ASSUME \/ Final(hostScan', ring', IF cur'.active THEN cur'.fb ELSE None)
             \/ needsModeset'
             \/ d.modeset,
             \A i \in Imported : Final(hostScan', ring', i) => cur'.fb = i
      PROVE  FollowInv'
  BY <1>4, <1>7 DEF FollowInv, Finally, Early
<1>8. CASE (c.fb = None \/ ~c.active) /\ Sent(<<Cmd("SCANOUT", None, 0, 0)>>)
  <2>1. \A x : Final(hostScan', ring', x) <=> x = None
    BY <1>0, <1>8, SentBlank
  <2>2. (IF cur'.active THEN cur'.fb ELSE None) = None
    BY <1>5, <1>8
  <2> QED
    BY <1>0, <1>7, <2>1, <2>2
<1>9. CASE c.fb # None /\ c.active /\ c.fb = c.old /\ Sent(<<>>) /\ needsModeset' = needsModeset
  <2>1. \A x : Final(hostScan', ring', x) <=> Final(hostScan, ring, x)
    BY <1>0, <1>9, SentNone
  <2> QED
    BY <1>4, <1>5, <1>6, <1>7, <1>9, <2>1
<1>10. ASSUME NEW f \in Nat, NEW s, Sent(s), c.fb # None, c.active,
              s \in UpdateCommands(c.fb, NewScanout(c), f),
              needsModeset' = IF NewScanout(c) THEN FALSE ELSE needsModeset
       PROVE  FollowInv'
  <2>1. c.fb \in Obj /\ NewScanout(c) \in BOOLEAN
    BY <1>0, <1>1, <1>10 DEF Commit, Shown, NewScanout, TypeInv
  <2>2. /\ ~NewScanout(c) => \A k \in 1 .. Len(s) : s[k].op # "SCANOUT"
        /\ NewScanout(c) => \E p \in 1 .. Len(s) :
                     /\ s[p] = Cmd("SCANOUT", c.fb, 0, 0)
                     /\ \A l \in 1 .. Len(s) : l > p => s[l].op # "SCANOUT"
    BY <1>10, <2>1, UpdateFacts
  <2>3. CASE NewScanout(c)
    <3>1. PICK p \in 1 .. Len(s) : /\ s[p] = Cmd("SCANOUT", c.fb, 0, 0)
                                   /\ \A l \in 1 .. Len(s) : l > p => s[l].op # "SCANOUT"
      BY <2>2, <2>3
    <3>2. s[p].op = "SCANOUT" /\ s[p].o = c.fb
      BY <3>1, CmdFields
    <3>3. \A x : Final(hostScan', ring', x) <=> x = c.fb
      BY <1>0, <1>10, <3>1, <3>2, SentScan
    <3> QED
      BY <1>5, <1>7, <1>10, <3>3
  <2>4. CASE ~NewScanout(c)
    <3>1. \A x : Final(hostScan', ring', x) <=> Final(hostScan, ring, x)
      BY <1>0, <1>10, <2>2, <2>4, SentFinal
    <3>2. c.fb = c.old /\ needsModeset' = needsModeset
      BY <1>10, <2>4 DEF NewScanout
    <3>3. (IF cur'.active THEN cur'.fb ELSE None) = c.old /\ (IF c.active THEN c.old ELSE None) = c.old
      BY <1>5, <1>10, <3>2
    <3>4. \/ Final(hostScan', ring', IF cur'.active THEN cur'.fb ELSE None)
          \/ needsModeset'
          \/ d.modeset
      BY <1>4, <1>6, <3>1, <3>2, <3>3
    <3>5. \A i \in Imported : Final(hostScan', ring', i) => cur'.fb = i
      BY <1>5, <1>6, <3>1, <3>2
    <3> QED
      BY <1>7, <3>4, <3>5
  <2> QED
    BY <2>3, <2>4
<1> QED
  BY <1>2, <1>3, <1>8, <1>9, <1>10

LEMMA FollowStep ==
  ASSUME Core, FollowInv, [Next]_vars
  PROVE  FollowInv'
<1>0. TypeInv /\ CommitInv /\ None \notin Imported
  BY ShownFacts DEF Core
<1> SUFFICES ASSUME plugged' PROVE FollowInv'
  BY DEF FollowInv
<1>a. plugged
  BY DEF Next, vars, ImportObj, ReleaseObj, MoveNotify, Move, FreeObj, PreparePrimary, PrepareCursor, Swap,
     TailNext, TailModeset, PrimaryPlaneUpdate, AtomicFlush, CursorUpload, CursorWait, CursorPing,
     CleanupFb, HostRead, HostCursor, Dequeue, Unplug
<1>1. CASE TailModeset
  BY <1>1, <1>a, FollowModeset
<1>2. CASE PrimaryPlaneUpdate
  BY <1>2, <1>a, FollowUpdate
<1>3. CASE ~TailModeset /\ ~PrimaryPlaneUpdate
  <2>1. \A x : Final(hostScan', ring', x) <=> Final(hostScan, ring, x)
    BY <1>3, FinalSame
  <2>2. /\ ~Early => \/ Final(hostScan, ring, IF cur.active THEN cur.fb ELSE None)
                     \/ needsModeset
                     \/ \E c \in tail : c.modeset
        /\ \A c \in tail : c.pc \in {"modeset", "update"} =>
             \/ Final(hostScan, ring, IF c.active THEN c.old ELSE None)
             \/ needsModeset
             \/ c.modeset
        /\ \A i \in Imported : Final(hostScan, ring, i) =>
             \/ cur.fb = i
             \/ \E c \in tail : c.pc \in {"modeset", "update"} /\ c.old = i
    BY <1>a DEF FollowInv, Finally
  <2>3. CASE UNCHANGED <<cur, tail, needsModeset>>
    BY <2>1, <2>2, <2>3 DEF FollowInv, Finally, Early
  <2>4. CASE Swap
    <3>1. PICK c \in prep, d \in Commit :
           /\ tail = {} /\ tail' = {d} /\ prep = {c} /\ prep' = {}
           /\ d.op = c.op /\ d.fb = c.fb /\ d.active = c.active /\ d.pc = c.pc /\ d.fence = c.fence
           /\ cur' \in [fb : Shown, cursor : Shown \ Imported, active : BOOLEAN]
           /\ \/ /\ c.op = "cursor" /\ d.old = cur.cursor /\ d.modeset = c.modeset
                 /\ cur'.fb = cur.fb /\ cur'.active = cur.active
              \/ /\ c.op = "primary" /\ d.old = cur.fb /\ d.modeset = (c.modeset \/ c.active # cur.active)
                 /\ cur'.fb = c.fb /\ cur'.active = c.active
      BY <1>0, <2>4, SwapCases
    <3>2. needsModeset' = needsModeset /\ ~Early
      BY <2>4, <3>1 DEF Swap, Early
    <3>3. /\ Final(hostScan, ring, IF cur.active THEN cur.fb ELSE None) \/ needsModeset
          /\ \A i \in Imported : Final(hostScan, ring, i) => cur.fb = i
      BY <2>2, <3>1, <3>2
    <3>4. CASE c.op = "cursor"
      <4>1. d.pc = "cursor" /\ cur'.fb = cur.fb /\ cur'.active = cur.active
        BY <1>0, <3>1, <3>4 DEF CommitInv
      <4>2. /\ Final(hostScan', ring', IF cur'.active THEN cur'.fb ELSE None) \/ needsModeset'
            /\ \A i \in Imported : Final(hostScan', ring', i) => cur'.fb = i
        BY <2>1, <3>2, <3>3, <4>1
      <4> QED
        BY <3>1, <4>1, <4>2 DEF FollowInv, Finally, Early
    <3>5. CASE c.op = "primary"
      <4>1. d.pc = "modeset" /\ d.old = cur.fb /\ (d.modeset \/ d.active = cur.active)
        BY <1>0, <3>1, <3>5 DEF CommitInv
      <4>2. /\ \/ Final(hostScan', ring', IF d.active THEN d.old ELSE None)
               \/ needsModeset'
               \/ d.modeset
            /\ \A i \in Imported : Final(hostScan', ring', i) => d.old = i
        BY <2>1, <3>2, <3>3, <4>1
      <4> QED
        BY <3>1, <4>1, <4>2 DEF FollowInv, Finally, Early
    <3> QED
      BY <3>1, <3>4, <3>5
  <2>5. CASE TailNext
    <3>1. PICK c \in tail :
           /\ tail = {c} /\ c \in Commit /\ UNCHANGED <<cur, prep>>
           /\ \/ AtomicFlush /\ tail' = {} /\ c.pc = "flush"
              \/ \E d \in Commit :
                   /\ tail' = {d} /\ d.op = c.op /\ d.fb = c.fb /\ d.active = c.active /\ d.old = c.old
                   /\ d.modeset = c.modeset
                   /\ \/ TailModeset /\ c.pc = "modeset" /\ d.pc = "update"
                      \/ PrimaryPlaneUpdate /\ c.pc = "update" /\ d.pc = "flush"
                      \/ CursorUpload /\ c.pc = "cursor" /\ d.pc \in {"wait", "ping", "flush"}
                      \/ CursorWait /\ c.pc = "wait" /\ d.pc = "ping"
                      \/ CursorPing /\ c.pc = "ping" /\ d.pc = "flush"
      BY <1>0, <2>5, TailFacts
    <3>2. CASE AtomicFlush /\ tail' = {} /\ c.pc = "flush"
      <4>1. needsModeset' = (needsModeset \/ c.modeset)
        BY <3>1, <3>2 DEF AtomicFlush
      <4>2. /\ \/ Final(hostScan, ring, IF cur.active THEN cur.fb ELSE None)
               \/ needsModeset
               \/ c.modeset
            /\ \A i \in Imported : Final(hostScan, ring, i) => cur.fb = i
        BY <2>2, <3>1, <3>2 DEF Early
      <4>3. /\ \/ Final(hostScan', ring', IF cur'.active THEN cur'.fb ELSE None)
               \/ needsModeset'
            /\ \A i \in Imported : Final(hostScan', ring', i) => cur'.fb = i
        BY <2>1, <3>1, <4>1, <4>2
      <4> QED
        BY <3>2, <4>3 DEF FollowInv, Finally, Early
    <3>3. ASSUME NEW d \in Commit, tail' = {d}, d.modeset = c.modeset,
                 c.pc \in {"cursor", "wait", "ping"}, d.pc \in {"wait", "ping", "flush"},
                 CursorUpload \/ CursorWait \/ CursorPing
          PROVE  FollowInv'
      <4>1. needsModeset' = needsModeset /\ cur' = cur
        BY <3>3 DEF CursorUpload, CursorWait, CursorPing
      <4>2. /\ \/ Final(hostScan, ring, IF cur.active THEN cur.fb ELSE None)
               \/ needsModeset
               \/ c.modeset
            /\ \A i \in Imported : Final(hostScan, ring, i) => cur.fb = i
        BY <2>2, <3>1, <3>3 DEF Early
      <4>3. /\ \/ Final(hostScan', ring', IF cur'.active THEN cur'.fb ELSE None)
               \/ needsModeset'
               \/ d.modeset
            /\ \A i \in Imported : Final(hostScan', ring', i) => cur'.fb = i
        BY <2>1, <3>3, <4>1, <4>2
      <4> QED
        BY <3>3, <4>3 DEF FollowInv, Finally, Early
    <3> QED
      BY <1>3, <3>1, <3>2, <3>3
  <2> QED
    BY <2>3, <2>4, <2>5 DEF Next, vars, ImportObj, ReleaseObj, MoveNotify, Move, FreeObj, PreparePrimary,
       PrepareCursor, CleanupFb, HostRead, HostCursor, Dequeue, Unplug, commitVars
<1> QED
  BY <1>1, <1>2, <1>3
-----------------------------------------------------------------------------
(* What is shown is backed. *)
LEMMA ShowPush ==
  ASSUME TypeInv, NEW i \in Imported, Show(i), NEW s, Sent(s),
         \A k \in 1 .. Len(s) : Is(s[k], {"SCANOUT", "FLUSH"}, i) => AttachInv(i),
         Free(s, {"DETACH", "UNREF"}, i) \/
         (Len(s) = 1 /\ ~Final(hostScan, ring, i) /\ s[1].op \in {"DETACH", "UNREF"})
  PROVE  Show(i)'
<1> DEFINE n == Len(ring)
<1>1. ring \in Seq(Command) /\ s \in Seq(Command) /\ ring' = ring \o s /\ UNCHANGED <<hostScan, backing>>
  BY DEF TypeInv, Sent
<1>2. PICK r : r = ring \o s
  OBVIOUS
<1>3. /\ n \in Nat /\ Len(s) \in Nat /\ Len(r) = n + Len(s)
      /\ \A k \in 1 .. n : k \in 1 .. Len(r) /\ r[k] = ring[k]
      /\ \A k \in 1 .. Len(r) :
           \/ k \in 1 .. n /\ r[k] = ring[k]
           \/ k - n \in 1 .. Len(s) /\ k > n /\ r[k] = s[k - n]
  BY <1>1, <1>2, PushFacts
<1>4. ring' = r /\ \A k \in 1 .. n + 1 : ShownAt(hostScan, r, i, k) <=> ShownAt(hostScan, ring, i, k)
  BY <1>1, <1>2, PushShown
<1> HIDE DEF n
<1>5. hostScan' = i => backing'[i] # 0
  BY <1>1 DEF Show
<1>6. ASSUME NEW k \in 1 .. Len(r), Is(r[k], {"SCANOUT", "FLUSH"}, i)
      PROVE  /\ backing[i] # 0 \/ \E l \in 1 .. Len(r) : l < k /\ Is(r[l], {"ATTACH"}, i)
             /\ \A l \in 1 .. Len(r) : l < k => ~Is(r[l], {"DETACH", "UNREF"}, i)
  <2>1. CASE k \in 1 .. n /\ r[k] = ring[k]
    <3>1. /\ backing[i] # 0 \/ \E l \in 1 .. n : l < k /\ Is(ring[l], {"ATTACH"}, i)
          /\ \A l \in 1 .. n : l < k => ~Is(ring[l], {"DETACH", "UNREF"}, i)
      BY <1>6, <2>1 DEF Show, n
    <3>2. \A l \in 1 .. Len(r) : l < k => l \in 1 .. n /\ r[l] = ring[l]
      BY <1>3, <2>1
    <3> QED
      BY <1>3, <3>1, <3>2
  <2>2. CASE k - n \in 1 .. Len(s) /\ k > n /\ r[k] = s[k - n]
    <3>1. AttachInv(i)
      BY <1>6, <2>2
    <3>2. /\ backing[i] # 0 \/ \E l \in 1 .. n : Is(ring[l], {"ATTACH"}, i)
          /\ \A l \in 1 .. n : ~Is(ring[l], {"DETACH", "UNREF"}, i)
      BY <3>1 DEF AttachInv, Free, n
    <3>3. Free(s, {"DETACH", "UNREF"}, i)
      BY <1>6, <2>2 DEF Is
    <3>4. \A l \in 1 .. n : l < k
      BY <1>3, <2>2
    <3>5. \A l \in 1 .. Len(r) : ~Is(r[l], {"DETACH", "UNREF"}, i)
      BY <1>3, <3>2, <3>3 DEF Free
    <3> QED
      BY <1>3, <3>2, <3>4, <3>5
  <2> QED
    BY <1>3, <2>1, <2>2
<1>7. ASSUME NEW k \in 1 .. Len(r), Is(r[k], {"DETACH", "UNREF"}, i)
      PROVE  ~ShownAt(hostScan, r, i, k)
  <2>1. CASE k \in 1 .. n /\ r[k] = ring[k]
    <3>1. k \in 1 .. n + 1
      BY <1>3, <2>1
    <3> QED
      BY <1>4, <1>7, <2>1, <3>1 DEF Show, n
  <2>2. CASE k - n \in 1 .. Len(s) /\ k > n /\ r[k] = s[k - n]
    <3>1. ~Free(s, {"DETACH", "UNREF"}, i)
      BY <1>7, <2>2 DEF Free
    <3>2. k = n + 1 /\ k \in 1 .. n + 1 /\ ~ShownAt(hostScan, ring, i, n + 1)
      BY <1>3, <2>2, <3>1 DEF Final, n
    <3> QED
      BY <1>4, <3>2
  <2> QED
    BY <1>3, <2>1, <2>2
<1>8. backing'[i] = backing[i] /\ hostScan' = hostScan
  BY <1>1
<1> QED
  BY <1>4, <1>5, <1>6, <1>7, <1>8 DEF Show

(* No plane state refers to it, so it is not what will be on the screen. *)
LEMMA IdleDark ==
  ASSUME FollowInv, plugged, NEW i \in Imported, ~InUse(i)
  PROVE  ~Final(hostScan, ring, i)
  BY DEF FollowInv, Finally, InUse

LEMMA UnlockShow ==
  ASSUME Core, UseInv, FollowInv, ShowInv, NEW i \in Imported, StepUnlock(i)
  PROVE  Show(i)'
<1>0. TypeInv /\ Show(i)
  BY DEF Core, ShowInv
<1>1. PICK s : Sent(s) /\ imp[i].lock # "none" /\ (s = <<>> \/ (plugged /\ s = <<Cmd("UNREF", i, 0, 0)>>))
  BY DEF StepUnlock
<1>2. CASE s = <<>>
  <2>1. Free(s, {"DETACH", "UNREF"}, i) /\ \A k \in 1 .. Len(s) : ~Is(s[k], {"SCANOUT", "FLUSH"}, i)
    BY <1>2 DEF Free
  <2> QED
    BY <1>0, <1>1, <2>1, ShowPush
<1>3. CASE plugged /\ s = <<Cmd("UNREF", i, 0, 0)>>
  <2>1. Len(s) = 1 /\ s[1].op = "UNREF"
    BY <1>3, CmdFields
  <2>2. \A k \in 1 .. Len(s) : ~Is(s[k], {"SCANOUT", "FLUSH"}, i)
    BY <2>1 DEF Is
  <2>3. ~InUse(i)
    BY <1>1 DEF UseInv
  <2>4. ~Final(hostScan, ring, i)
    BY <1>3, <2>3, IdleDark
  <2> QED
    BY <1>0, <1>1, <2>1, <2>2, <2>4, ShowPush
<1> QED
  BY <1>1, <1>2, <1>3

LEMMA ReadShow ==
  ASSUME Core, ShowInv, HostRead, NEW i \in Imported
  PROVE  Show(i)'
<1> DEFINE c == Head(ring)
<1>0. TypeInv /\ RingInv /\ Show(i) /\ ring \in Seq(Command)
  BY DEF Core, ShowInv, TypeInv
<1>1. /\ ring # <<>> /\ ring' = Tail(ring) /\ c \in Command /\ c = ring[1]
      /\ hostScan' = ScanAfter(hostScan, c)
      /\ backing'[i] = IF Is(c, {"ATTACH", "DETACH", "UNREF"}, i) THEN c.n ELSE backing[i]
  BY <1>0, HostReadFacts
<1>3. PICK r : r = Tail(ring)
  OBVIOUS
<1>4. /\ Len(r) = Len(ring) - 1 /\ Len(ring) \in Nat /\ 1 \in 1 .. Len(ring)
      /\ \A k \in 1 .. Len(r) : k + 1 \in 1 .. Len(ring) /\ r[k] = ring[k + 1]
      /\ \A k \in 1 .. Len(ring) :
           k = 1 \/ (k - 1 \in 1 .. Len(r) /\ r[k - 1] = ring[k])
  BY <1>0, <1>1, <1>3, ReadFacts
<1>5. \A k \in Nat \ {0} : ShownAt(hostScan', r, i, k) <=> ShownAt(hostScan, ring, i, k + 1)
  BY <1>0, <1>1, <1>3, ReadShown
<1>6. Is(c, {"ATTACH"}, i) => c.n # 0
  BY <1>0, <1>1, <1>4 DEF RingInv, Is
<1> HIDE DEF c
<1>7. \A l \in 1 .. Len(ring) : ~(l < 1)
  BY <1>4
<1>8. ASSUME hostScan' = i PROVE backing'[i] # 0
  <2>1. CASE c.op = "SCANOUT"
    <3>1. c.o = i /\ ~Is(c, {"ATTACH", "DETACH", "UNREF"}, i) /\ Is(ring[1], {"SCANOUT", "FLUSH"}, i)
      BY <1>1, <1>8, <2>1 DEF ScanAfter, Is
    <3>2. backing[i] # 0
      BY <1>0, <1>4, <1>7, <3>1 DEF Show
    <3> QED
      BY <1>1, <3>1, <3>2
  <2>2. CASE c.op # "SCANOUT"
    <3>1. hostScan = i
      BY <1>1, <1>8, <2>2 DEF ScanAfter
    <3>2. backing[i] # 0
      BY <1>0, <3>1 DEF Show
    <3>3. ShownAt(hostScan, ring, i, 1)
      BY <1>7, <3>1 DEF ShownAt
    <3>4. ~Is(c, {"DETACH", "UNREF"}, i)
      BY <1>0, <1>1, <1>4, <3>3 DEF Show
    <3>5. Is(c, {"ATTACH", "DETACH", "UNREF"}, i) => Is(c, {"ATTACH"}, i)
      BY <3>4 DEF Is
    <3> QED
      BY <1>1, <1>6, <3>2, <3>5
  <2> QED
    BY <2>1, <2>2
<1>9. ASSUME NEW k \in 1 .. Len(r), Is(r[k], {"SCANOUT", "FLUSH"}, i)
      PROVE  /\ backing'[i] # 0 \/ \E l \in 1 .. Len(r) : l < k /\ Is(r[l], {"ATTACH"}, i)
             /\ \A l \in 1 .. Len(r) : l < k => ~Is(r[l], {"DETACH", "UNREF"}, i)
  <2>0. k + 1 \in 1 .. Len(ring) /\ r[k] = ring[k + 1] /\ 1 < k + 1
    BY <1>4
  <2>1. /\ backing[i] # 0 \/ \E l \in 1 .. Len(ring) : l < k + 1 /\ Is(ring[l], {"ATTACH"}, i)
        /\ \A l \in 1 .. Len(ring) : l < k + 1 => ~Is(ring[l], {"DETACH", "UNREF"}, i)
    BY <1>0, <1>9, <2>0 DEF Show
  <2>2. ~Is(c, {"DETACH", "UNREF"}, i)
    BY <1>1, <1>4, <2>0, <2>1
  <2>3. \A l \in 1 .. Len(r) : l < k => ~Is(r[l], {"DETACH", "UNREF"}, i)
    <3> SUFFICES ASSUME NEW l \in 1 .. Len(r), l < k PROVE ~Is(r[l], {"DETACH", "UNREF"}, i)
      OBVIOUS
    <3>1. l + 1 \in 1 .. Len(ring) /\ r[l] = ring[l + 1] /\ l + 1 < k + 1
      BY <1>4
    <3> QED
      BY <2>1, <3>1
  <2>4. CASE Is(c, {"ATTACH"}, i)
    <3>1. backing'[i] # 0
      BY <1>1, <1>6, <2>4 DEF Is
    <3> QED
      BY <2>3, <3>1
  <2>5. CASE ~Is(c, {"ATTACH"}, i)
    <3>1. backing'[i] = backing[i]
      BY <1>1, <2>2, <2>5 DEF Is
    <3>2. ASSUME NEW l \in 1 .. Len(ring), l < k + 1, Is(ring[l], {"ATTACH"}, i)
          PROVE  \E m \in 1 .. Len(r) : m < k /\ Is(r[m], {"ATTACH"}, i)
      <4>1. l # 1
        BY <1>1, <2>5, <3>2
      <4>2. l - 1 \in 1 .. Len(r) /\ r[l - 1] = ring[l] /\ l - 1 < k
        BY <1>4, <3>2, <4>1
      <4> QED
        BY <3>2, <4>2
    <3> QED
      BY <2>1, <2>3, <3>1, <3>2
  <2> QED
    BY <2>4, <2>5
<1>10. ASSUME NEW k \in 1 .. Len(r), Is(r[k], {"DETACH", "UNREF"}, i)
       PROVE  ~ShownAt(hostScan', r, i, k)
  <2>1. k + 1 \in 1 .. Len(ring) /\ r[k] = ring[k + 1] /\ k \in Nat \ {0}
    BY <1>4
  <2>2. ~ShownAt(hostScan, ring, i, k + 1)
    BY <1>0, <1>10, <2>1 DEF Show
  <2> QED
    BY <1>5, <2>1, <2>2
<1>11. ring' = r
  BY <1>1, <1>3
<1> QED
  BY <1>8, <1>9, <1>10, <1>11 DEF Show

LEMMA PlainShow ==
  ASSUME Core, UseInv, ShowInv, StepPlain
  PROVE  ShowInv'
<1>0. TypeInv /\ PageInv /\ None \notin Imported
  BY ShownFacts DEF Core
<1>1. PICK s : Sent(s) /\ Plain(s) /\ \A j \in Imported : Same(j)
  BY DEF StepPlain
<1> SUFFICES ASSUME NEW i \in Imported PROVE Show(i)'
  BY DEF ShowInv
<1>2. Show(i)
  BY DEF ShowInv
<1>3. ASSUME NEW k \in 1 .. Len(s), Is(s[k], {"SCANOUT", "FLUSH"}, i) PROVE AttachInv(i)
  <2>1. cur.fb = i
    BY <1>0, <1>1, <1>3 DEF Plain, Is
  <2>2. imp[i].attached
    BY <2>1 DEF UseInv, InUse
  <2> QED
    BY <1>0, <2>2 DEF PageInv, Page
<1>4. Free(s, {"DETACH", "UNREF"}, i)
  BY <1>1 DEF Plain, Free, Is
<1> QED
  BY <1>0, <1>1, <1>2, <1>3, <1>4, ShowPush

LEMMA OtherShow ==
  ASSUME Core, ShowInv, NEW i \in Imported, NEW j \in Imported, j # i, NEW s, Sent(s),
         s = <<>> \/ \E op, n, f : s = <<Cmd(op, i, n, f)>>
  PROVE  Show(j)'
<1>0. TypeInv /\ Show(j)
  BY DEF Core, ShowInv
<1>1. \A k \in 1 .. Len(s) : s[k].o = i
  <2>1. CASE s = <<>>
    BY <2>1
  <2>2. ASSUME NEW op, NEW n, NEW f, s = <<Cmd(op, i, n, f)>> PROVE \A k \in 1 .. Len(s) : s[k].o = i
    BY <2>2, CmdFields
  <2> QED
    BY <2>1, <2>2
<1>2. \A k \in 1 .. Len(s) : ~Is(s[k], {"SCANOUT", "FLUSH"}, j)
  BY <1>1 DEF Is
<1>3. Free(s, {"DETACH", "UNREF"}, j)
  BY <1>1 DEF Free, Is
<1> QED
  BY <1>0, <1>2, <1>3, ShowPush

LEMMA AttachShow ==
  ASSUME Core, ShowInv, NEW i \in Imported, StepAttach(i)
  PROVE  ShowInv'
<1>0. TypeInv /\ Show(i)
  BY DEF Core, ShowInv
<1>1. PICK s : s = <<Cmd("ATTACH", i, gen[i], 0)>>
  OBVIOUS
<1>2. Sent(s)
  BY <1>1 DEF StepAttach
<1>3. \A k \in 1 .. Len(s) : s[k].op = "ATTACH"
  BY <1>1, CmdFields
<1>4. Show(i)'
  <2>1. \A k \in 1 .. Len(s) : ~Is(s[k], {"SCANOUT", "FLUSH"}, i)
    BY <1>3 DEF Is
  <2>2. Free(s, {"DETACH", "UNREF"}, i)
    BY <1>3 DEF Free, Is
  <2> QED
    BY <1>0, <1>2, <2>1, <2>2, ShowPush
<1>5. \A j \in Imported : j # i => Show(j)'
  BY <1>1, <1>2, OtherShow
<1> QED
  BY <1>4, <1>5 DEF ShowInv

LEMMA DetachShow ==
  ASSUME Core, PinInv, FollowInv, ShowInv, NEW i \in Imported, StepDetach(i)
  PROVE  ShowInv'
<1>0. TypeInv /\ CommitInv /\ Show(i)
  BY DEF Core, ShowInv
<1>1. PICK f \in Nat : f = fences + 1
  BY <1>0 DEF TypeInv
<1>2. PICK s :
        /\ Sent(s)
        /\ imp[i].pins = 0 \/ ~InUse(i)
        /\ s = <<>> \/ (plugged /\ s = <<Cmd("DETACH", i, 0, f)>>)
  BY <1>1 DEF StepDetach
<1>3. ~InUse(i)
  BY <1>0, <1>2, PinZero DEF PinInv
<1>4. CASE s = <<>>
  <2>1. Free(s, {"DETACH", "UNREF"}, i) /\ \A k \in 1 .. Len(s) : ~Is(s[k], {"SCANOUT", "FLUSH"}, i)
    BY <1>4 DEF Free
  <2>2. Show(i)'
    BY <1>0, <1>2, <2>1, ShowPush
  <2>3. \A j \in Imported : j # i => Show(j)'
    BY <1>2, <1>4, OtherShow
  <2> QED
    BY <2>2, <2>3 DEF ShowInv
<1>5. CASE plugged /\ s = <<Cmd("DETACH", i, 0, f)>>
  <2>1. Len(s) = 1 /\ s[1].op = "DETACH"
    BY <1>5, CmdFields
  <2>2. \A k \in 1 .. Len(s) : ~Is(s[k], {"SCANOUT", "FLUSH"}, i)
    BY <2>1 DEF Is
  <2>3. ~Final(hostScan, ring, i)
    BY <1>3, <1>5, IdleDark
  <2>4. Show(i)'
    BY <1>0, <1>2, <2>1, <2>2, <2>3, ShowPush
  <2>5. \A j \in Imported : j # i => Show(j)'
    BY <1>2, <1>5, OtherShow
  <2> QED
    BY <2>4, <2>5 DEF ShowInv
<1> QED
  BY <1>2, <1>4, <1>5

LEMMA ShowStep ==
  ASSUME Core, PinInv, UseInv, FollowInv, ShowInv, [Next]_vars
  PROVE  ShowInv'
<1>0. TypeInv /\ CommitInv /\ PageInv /\ LifeInv
  BY DEF Core
<1>1. CASE HostRead
  BY <1>1, ReadShow DEF ShowInv
<1>2. CASE Dequeue
  BY <1>2 DEF Dequeue, hostVars, ShowInv, Show
<1>3. CASE StepPlain
  BY <1>3, PlainShow
<1>4. ASSUME NEW i \in Imported, StepUnlock(i) PROVE ShowInv'
  <2>1. PICK s :
         /\ Sent(s)
         /\ s = <<Cmd("UNREF", i, 0, 0)>> \/ s = <<>>
    BY <1>4 DEF StepUnlock
  <2>2. \A j \in Imported : j # i => Show(j)'
    BY <2>1, OtherShow
  <2> QED
    BY <1>4, <2>2, UnlockShow DEF ShowInv
<1> QED
  BY <1>0, <1>1, <1>2, <1>3, <1>4, AttachShow, DetachShow, StepKinds

Whole == Core /\ PinInv /\ UseInv /\ FollowInv /\ ShowInv

LEMMA WholeAlways == Spec => []Whole
<1>1. Init => Whole
  <2> SUFFICES ASSUME Init PROVE Whole
    OBVIOUS
  <2>1. Core
    BY CoreInit
  <2>2. /\ cur.fb = None /\ ~cur.active /\ prep = {} /\ tail = {} /\ trash = <<>> /\ ring = <<>>
        /\ hostScan = None /\ None \notin Imported
        /\ \A i \in Imported : imp[i] = Unknown
    BY ShownFacts DEF Init
  <2>3. \A i \in Imported : ~InUse(i)
    BY <2>2 DEF InUse, Range
  <2>4. PinInv
    BY <2>1, <2>2, <2>3, PinZero DEF PinInv, Core, Unknown
  <2>5. UseInv
    BY <2>2, <2>3 DEF UseInv, Unknown
  <2>6. \A x : Final(hostScan, ring, x) <=> x = None
    BY <2>2 DEF Final, ShownAt
  <2>7. FollowInv
    BY <2>2, <2>6 DEF FollowInv, Finally
  <2>8. ShowInv
    BY <2>2 DEF ShowInv, Show
  <2> QED
    BY <2>1, <2>4, <2>5, <2>7, <2>8 DEF Whole
<1>2. Whole /\ [Next]_vars => Whole'
  BY CoreStep, PinStep, UseStep, FollowStep, ShowStep DEF Whole
<1> QED
  BY <1>1, <1>2, PTL DEF Spec

(***************************************************************************)
(* What the host shows, or is told to flush next, has its pages attached,  *)
(* the exporter's present ones or those an unmap without memory for the    *)
(* detach left with the host, whatever commits, moves and frees are        *)
(* interleaved: an exporter moves only what is not pinned, a framebuffer is*)
(* pinned while a plane state refers to it, and what the host will show is *)
(* what a plane state refers to.                                           *)
(***************************************************************************)
THEOREM ShowSafety == Spec => []ShownIsBacked
<1>1. Whole => ShownIsBacked
  <2> SUFFICES ASSUME Whole PROVE ShownIsBacked
    OBVIOUS
  <2>1. ring \in Seq(Command) /\ ShowInv
    BY DEF Whole, Core, TypeInv
  <2>2. \A i \in Imported : backing[i] # 0 => Backed(i)
    BY DEF Whole, Core, PageInv, Page, Backed
  <2>3. hostScan \in Imported => Backed(hostScan)
    BY <2>1, <2>2 DEF ShowInv, Show
  <2>4. ASSUME ring # <<>>, Head(ring).op = "FLUSH", Head(ring).o \in Imported
        PROVE  Backed(Head(ring).o)
    <3>1. Head(ring) = ring[1] /\ 1 \in 1 .. Len(ring) /\ \A l \in 1 .. Len(ring) : ~(l < 1)
      BY <2>1, <2>4, ReadFacts
    <3>2. PICK i \in Imported : i = Head(ring).o
      BY <2>4
    <3>3. Is(ring[1], {"SCANOUT", "FLUSH"}, i)
      BY <2>4, <3>1, <3>2 DEF Is
    <3> QED
      BY <2>1, <2>2, <3>1, <3>2, <3>3 DEF ShowInv, Show
  <2> QED
    BY <2>3, <2>4 DEF ShownIsBacked
<1> QED
  BY <1>1, WholeAlways, PTL

(***************************************************************************)
(* With no commit at work and the queue read, the host shows the           *)
(* framebuffer of the primary plane or a modeset is remembered, after any  *)
(* sequence of commits with and without a modeset.                         *)
(***************************************************************************)
THEOREM FollowSafety == Spec => []ScanoutFollows
<1>1. Whole => ScanoutFollows
  <2> SUFFICES ASSUME Whole, plugged, tail = {}, ring = <<>>
               PROVE  hostScan = (IF cur.active THEN cur.fb ELSE None) \/ needsModeset
    BY DEF ScanoutFollows
  <2>1. Final(hostScan, ring, IF cur.active THEN cur.fb ELSE None) \/ needsModeset
    BY DEF Whole, FollowInv, Finally, Early
  <2> QED
    BY <2>1 DEF Final, ShownAt
<1> QED
  BY <1>1, WholeAlways, PTL
=============================================================================
