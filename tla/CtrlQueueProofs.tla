--------------------------- MODULE CtrlQueueProofs --------------------------
(***************************************************************************)
(* Proofs about the control virtqueue, for any threads, commands, batches  *)
(* and ring size.                                                          *)
(***************************************************************************)
EXTENDS CtrlQueue, TLAPS

Elts(s)     == {s[i] : i \in 1 .. Len(s)}
Distinct(s) == \A i, j \in 1 .. Len(s) : s[i] = s[j] => i = j

(* What the host has to do, and what it has done and the guest not freed.  *)
Sent     == hostq \o avail
Answered == (handled \o reclaim) \o used

SentSet     == Elts(Sent)
AnsweredSet == Elts(Answered)
HandledSet  == Elts(handled)
FreeSet     == Elts(freeList)

(* The commands in some threads' batches, and that none is in two places.  *)
WaitIn(f) == UNION {Elts(f[t]) : t \in Thread}
OnceIn(f) ==
  \A t, u \in Thread : \A i \in 1 .. Len(f[t]), j \in 1 .. Len(f[u]) :
    f[t][i] = f[u][j] => t = u /\ i = j

Waiting == WaitIn(todo)
Spent   == SentSet \cup completed \cup freed

(* The types that matter, and that a thread with work has a command.       *)
ShapeInv ==
  /\ pc \in [Thread -> Labels]
  /\ todo \in [Thread -> Seq(Cmd)]
  /\ \A t \in Thread : todo[t] = <<>> => pc[t] \in {"idle", "notify", "kick", "doorbell"}
  /\ \A t \in Thread : pc[t] = "idle" => todo[t] = <<>>
  /\ numAdded \in Nat /\ pending \in Nat /\ lastFence \in Nat
  /\ fence \in [Cmd -> Nat]
  /\ fences \subseteq Cmd /\ completed \subseteq Cmd /\ freed \subseteq Cmd
  /\ reclaim \in Seq(Cmd) /\ handled \in Seq(Cmd) /\ freeList \in Seq(Cmd)
  /\ avail \in Seq(Cmd) /\ hostq \in Seq(Cmd) /\ used \in Seq(Cmd)
  /\ asleep \in BOOLEAN

(* Every command goes through the queues once.                             *)
OnceInv ==
  /\ OnceIn(todo)
  /\ Waiting \cap Spent = {}
  /\ Distinct(Sent) /\ SentSet \cap (completed \cup freed) = {}
  /\ Distinct(Answered) /\ AnsweredSet \subseteq completed \ freed
  /\ Distinct(freeList) /\ FreeSet \subseteq freed
  /\ \A c \in FreeSet : Drops[c] # NoCmd

(* The unref that dropping a command's objects will send is still to come. *)
DropInv ==
  \A c \in Waiting \cup SentSet \cup AnsweredSet \cup FreeSet :
    Drops[c] # NoCmd => Drops[c] \notin Waiting \cup Spent

Fenced(c) == Timeline[c] # NoFence

(* Fence ids follow the order of the ring, and of each timeline's answers. *)
FenceInv ==
  /\ \A c \in Cmd : fence[c] <= lastFence
  /\ \A c \in Cmd : fence[c] # 0 <=> Fenced(c) /\ c \in SentSet \cup completed
  /\ \A i, j \in 1 .. Len(Sent) :
       i < j /\ Fenced(Sent[i]) /\ Fenced(Sent[j]) => fence[Sent[i]] < fence[Sent[j]]
  /\ \A c \in completed, d \in SentSet :
       Fenced(c) /\ Timeline[c] = Timeline[d] => fence[c] < fence[d]

SignalInv ==
  /\ signaled \subseteq completed
  /\ \A c \in Cmd : fence[c] # 0 /\ c \notin fences => c \in signaled
  /\ \A c \in HandledSet : Fenced(c) => c \in signaled
  /\ \A c \in freed \cap completed : Fenced(c) => c \in signaled

(* Who sleeps next to unread commands is owed a doorbell, and the next     *)
(* kick_prepare will see that.                                             *)
KickInv ==
  asleep /\ avail # <<>> =>
    \/ pending > 0 /\ Len(avail) <= numAdded
    \/ \E t \in Thread : pc[t] = "doorbell"

OrderInv == OnceInv /\ DropInv /\ FenceInv /\ SignalInv

IInv == ShapeInv /\ OrderInv /\ KickInv
-----------------------------------------------------------------------------
(* Sequences and the sets of their elements. *)
LEMMA EltsFacts ==
  ASSUME NEW S, NEW s \in Seq(S)
  PROVE  Elts(s) \subseteq S /\ (\A i \in 1 .. Len(s) : s[i] \in Elts(s))
  BY DEF Elts

LEMMA AppendFacts ==
  ASSUME NEW S, NEW s \in Seq(S), NEW c \in S
  PROVE  /\ Append(s, c) \in Seq(S) /\ Len(Append(s, c)) = Len(s) + 1 /\ Len(s) \in Nat
         /\ \A i \in 1 .. Len(s) : Append(s, c)[i] = s[i]
         /\ Append(s, c)[Len(s) + 1] = c
         /\ Elts(Append(s, c)) = Elts(s) \cup {c}
         /\ Distinct(s) /\ c \notin Elts(s) => Distinct(Append(s, c))
<1> DEFINE q == Append(s, c)
<1>1. /\ q \in Seq(S) /\ Len(q) = Len(s) + 1 /\ Len(s) \in Nat
      /\ \A i \in 1 .. Len(s) : q[i] = s[i]
      /\ q[Len(s) + 1] = c
  OBVIOUS
<1> HIDE DEF q
<1>2. \A i \in 1 .. Len(q) : i = Len(s) + 1 \/ i \in 1 .. Len(s)
  BY <1>1
<1>3. ASSUME NEW x \in Elts(q) PROVE x \in Elts(s) \cup {c}
  <2>1. PICK i \in 1 .. Len(q) : x = q[i]
    BY <1>3 DEF Elts
  <2> QED
    BY <1>1, <1>2, <2>1 DEF Elts
<1>4. ASSUME NEW x \in Elts(s) \cup {c} PROVE x \in Elts(q)
  <2>1. CASE x = c
    <3>1. Len(s) + 1 \in 1 .. Len(q)
      BY <1>1
    <3> QED
      BY <1>1, <2>1, <3>1 DEF Elts
  <2>2. CASE x \in Elts(s)
    <3>1. PICK i \in 1 .. Len(s) : x = s[i]
      BY <2>2 DEF Elts
    <3>2. i \in 1 .. Len(q)
      BY <1>1
    <3> QED
      BY <1>1, <3>1, <3>2 DEF Elts
  <2> QED
    BY <1>4, <2>1, <2>2
<1>5. Elts(q) = Elts(s) \cup {c}
  BY <1>3, <1>4
<1>6. Distinct(s) /\ c \notin Elts(s) => Distinct(q)
  <2>1. \A i \in 1 .. Len(s) : s[i] \in Elts(s)
    BY DEF Elts
  <2> QED
    BY <1>1, <1>2, <2>1 DEF Distinct
<1> QED
  BY <1>1, <1>5, <1>6 DEF q

LEMMA TailFacts ==
  ASSUME NEW S, NEW s \in Seq(S), s # <<>>
  PROVE  /\ Tail(s) \in Seq(S) /\ Len(Tail(s)) = Len(s) - 1 /\ Len(s) \in Nat
         /\ Head(s) = s[1] /\ 1 \in 1 .. Len(s) /\ Head(s) \in S
         /\ \A i \in 1 .. Len(Tail(s)) : i + 1 \in 1 .. Len(s) /\ Tail(s)[i] = s[i + 1]
         /\ Elts(s) = Elts(Tail(s)) \cup {Head(s)}
         /\ Distinct(s) => Distinct(Tail(s)) /\ Head(s) \notin Elts(Tail(s))
<1> DEFINE q == Tail(s)
<1>1. /\ q \in Seq(S) /\ Len(q) = Len(s) - 1 /\ Len(s) \in Nat
      /\ Head(s) = s[1] /\ 1 \in 1 .. Len(s) /\ Head(s) \in S
      /\ \A i \in 1 .. Len(q) : i + 1 \in 1 .. Len(s) /\ q[i] = s[i + 1]
  OBVIOUS
<1> HIDE DEF q
<1>2. ASSUME NEW x \in Elts(s) PROVE x \in Elts(q) \cup {Head(s)}
  <2>1. PICK i \in 1 .. Len(s) : x = s[i]
    BY <1>2 DEF Elts
  <2>2. CASE i = 1
    BY <1>1, <2>1, <2>2
  <2>3. CASE i # 1
    <3>1. i - 1 \in 1 .. Len(q) /\ (i - 1) + 1 = i
      BY <1>1, <2>3
    <3>2. q[i - 1] = s[i]
      BY <1>1, <3>1
    <3> QED
      BY <2>1, <3>1, <3>2 DEF Elts
  <2> QED
    BY <2>2, <2>3
<1>3. ASSUME NEW x \in Elts(q) \cup {Head(s)} PROVE x \in Elts(s)
  <2>1. CASE x = Head(s)
    BY <1>1, <2>1 DEF Elts
  <2>2. CASE x \in Elts(q)
    <3>1. PICK i \in 1 .. Len(q) : x = q[i]
      BY <2>2 DEF Elts
    <3> QED
      BY <1>1, <3>1 DEF Elts
  <2> QED
    BY <1>3, <2>1, <2>2
<1>4. ASSUME Distinct(s) PROVE Distinct(q) /\ Head(s) \notin Elts(q)
  <2>1. Distinct(q)
    <3> SUFFICES ASSUME NEW i \in 1 .. Len(q), NEW j \in 1 .. Len(q), q[i] = q[j] PROVE i = j
      BY DEF Distinct
    <3>1. i + 1 = j + 1
      BY <1>1, <1>4 DEF Distinct
    <3> QED
      BY <3>1
  <2>2. ASSUME NEW i \in 1 .. Len(q), q[i] = Head(s) PROVE FALSE
    <3>1. i + 1 = 1
      BY <1>1, <1>4, <2>2 DEF Distinct
    <3> QED
      BY <3>1
  <2> QED
    BY <2>1, <2>2 DEF Elts
<1> QED
  BY <1>1, <1>2, <1>3, <1>4 DEF q

LEMMA ConcatFacts ==
  ASSUME NEW S, NEW x \in Seq(S), NEW y \in Seq(S)
  PROVE  /\ x \o y \in Seq(S) /\ Len(x \o y) = Len(x) + Len(y)
         /\ Len(x) \in Nat /\ Len(y) \in Nat
         /\ \A i \in 1 .. Len(x) : (x \o y)[i] = x[i]
         /\ \A i \in 1 .. Len(y) : (x \o y)[Len(x) + i] = y[i]
         /\ \A i \in 1 .. Len(x \o y) :
              \/ i \in 1 .. Len(x) /\ (x \o y)[i] = x[i]
              \/ i - Len(x) \in 1 .. Len(y) /\ (x \o y)[i] = y[i - Len(x)]
  OBVIOUS

LEMMA SameSeq ==
  ASSUME NEW S, NEW p \in Seq(S), NEW q \in Seq(S), Len(p) = Len(q),
         \A i \in 1 .. Len(p) : p[i] = q[i]
  PROVE  p = q
  OBVIOUS

LEMMA ConcatElts ==
  ASSUME NEW S, NEW x \in Seq(S), NEW y \in Seq(S)
  PROVE  Elts(x \o y) = Elts(x) \cup Elts(y)
<1> DEFINE q == x \o y
<1>1. /\ Len(q) = Len(x) + Len(y) /\ Len(x) \in Nat /\ Len(y) \in Nat
      /\ \A i \in 1 .. Len(x) : q[i] = x[i]
      /\ \A i \in 1 .. Len(y) : q[Len(x) + i] = y[i]
      /\ \A i \in 1 .. Len(q) :
           \/ i \in 1 .. Len(x) /\ q[i] = x[i]
           \/ i - Len(x) \in 1 .. Len(y) /\ q[i] = y[i - Len(x)]
  BY ConcatFacts
<1> HIDE DEF q
<1>2. ASSUME NEW e \in Elts(q) PROVE e \in Elts(x) \cup Elts(y)
  <2>1. PICK i \in 1 .. Len(q) : e = q[i]
    BY <1>2 DEF Elts
  <2> QED
    BY <1>1, <2>1 DEF Elts
<1>3. ASSUME NEW e \in Elts(x) PROVE e \in Elts(q)
  <2>1. PICK i \in 1 .. Len(x) : e = x[i]
    BY <1>3 DEF Elts
  <2>2. i \in 1 .. Len(q)
    BY <1>1
  <2> QED
    BY <1>1, <2>1, <2>2 DEF Elts
<1>4. ASSUME NEW e \in Elts(y) PROVE e \in Elts(q)
  <2>1. PICK i \in 1 .. Len(y) : e = y[i]
    BY <1>4 DEF Elts
  <2>2. Len(x) + i \in 1 .. Len(q)
    BY <1>1
  <2> QED
    BY <1>1, <2>1, <2>2 DEF Elts
<1> QED
  BY <1>2, <1>3, <1>4 DEF q

(* The head of one part becomes the end of the part before it. *)
LEMMA ConcatMove ==
  ASSUME NEW S, NEW x \in Seq(S), NEW y \in Seq(S), y # <<>>
  PROVE  Append(x, Head(y)) \o Tail(y) = x \o y
<1>1. /\ Tail(y) \in Seq(S) /\ Len(Tail(y)) = Len(y) - 1 /\ Len(y) \in Nat
      /\ Head(y) = y[1] /\ 1 \in 1 .. Len(y) /\ Head(y) \in S
      /\ \A i \in 1 .. Len(Tail(y)) : i + 1 \in 1 .. Len(y) /\ Tail(y)[i] = y[i + 1]
  BY TailFacts
<1> DEFINE a == Append(x, Head(y))
           b == Tail(y)
<1>2. /\ a \in Seq(S) /\ Len(a) = Len(x) + 1 /\ Len(x) \in Nat
      /\ \A i \in 1 .. Len(x) : a[i] = x[i]
      /\ a[Len(x) + 1] = Head(y)
  BY <1>1, AppendFacts
<1>3. b \in Seq(S) /\ Len(b) = Len(y) - 1 /\ \A i \in 1 .. Len(b) : b[i] = y[i + 1]
  BY <1>1
<1> HIDE DEF a, b
<1>4. /\ a \o b \in Seq(S) /\ Len(a \o b) = Len(a) + Len(b)
      /\ \A i \in 1 .. Len(a \o b) :
           \/ i \in 1 .. Len(a) /\ (a \o b)[i] = a[i]
           \/ i - Len(a) \in 1 .. Len(b) /\ (a \o b)[i] = b[i - Len(a)]
  BY <1>2, <1>3, ConcatFacts
<1>5. /\ x \o y \in Seq(S) /\ Len(x \o y) = Len(x) + Len(y)
      /\ \A i \in 1 .. Len(x) : (x \o y)[i] = x[i]
      /\ \A i \in 1 .. Len(y) : (x \o y)[Len(x) + i] = y[i]
  BY ConcatFacts
<1>6. ASSUME NEW i \in 1 .. Len(a \o b) PROVE (a \o b)[i] = (x \o y)[i]
  <2>1. CASE i \in 1 .. Len(x)
    BY <1>2, <1>4, <1>5, <2>1
  <2>2. CASE i = Len(x) + 1
    BY <1>1, <1>2, <1>4, <1>5, <2>2
  <2>3. CASE i > Len(x) + 1
    <3>1. i - Len(a) \in 1 .. Len(b) /\ (a \o b)[i] = b[i - Len(a)]
      BY <1>2, <1>4, <2>3
    <3>2. b[i - Len(a)] = y[(i - Len(a)) + 1]
      BY <1>3, <3>1
    <3>3. /\ (i - Len(a)) + 1 = i - Len(x) /\ Len(x) + (i - Len(x)) = i
          /\ i - Len(x) \in 1 .. Len(y)
      BY <1>1, <1>2, <1>3, <3>1
    <3>4. (x \o y)[Len(x) + (i - Len(x))] = y[i - Len(x)]
      BY <1>5, <3>3
    <3> QED
      BY <3>1, <3>2, <3>3, <3>4
  <2>4. i \in Int /\ i >= 1
    BY <1>1, <1>2, <1>3, <1>4
  <2> QED
    BY <1>1, <1>2, <1>3, <1>4, <2>1, <2>2, <2>3, <2>4
<1>7. Len(a \o b) = Len(x \o y)
  BY <1>1, <1>2, <1>3, <1>4, <1>5
<1>8. a \o b = x \o y
  BY <1>4, <1>5, <1>6, <1>7, SameSeq
<1> QED
  BY <1>8 DEF a, b

LEMMA ConcatAppend ==
  ASSUME NEW S, NEW x \in Seq(S), NEW y \in Seq(S), NEW c \in S
  PROVE  x \o Append(y, c) = Append(x \o y, c)
<1> DEFINE a == Append(y, c)
           q == x \o y
<1>1. /\ a \in Seq(S) /\ Len(a) = Len(y) + 1 /\ Len(y) \in Nat
      /\ \A i \in 1 .. Len(y) : a[i] = y[i]
      /\ a[Len(y) + 1] = c
  BY AppendFacts
<1>2. /\ q \in Seq(S) /\ Len(q) = Len(x) + Len(y) /\ Len(x) \in Nat
      /\ \A i \in 1 .. Len(x) : q[i] = x[i]
      /\ \A i \in 1 .. Len(y) : q[Len(x) + i] = y[i]
  BY ConcatFacts
<1> HIDE DEF a, q
<1>3. /\ x \o a \in Seq(S) /\ Len(x \o a) = Len(x) + Len(a)
      /\ \A i \in 1 .. Len(x) : (x \o a)[i] = x[i]
      /\ \A i \in 1 .. Len(a) : (x \o a)[Len(x) + i] = a[i]
  BY <1>1, ConcatFacts
<1>4. /\ Append(q, c) \in Seq(S) /\ Len(Append(q, c)) = Len(q) + 1
      /\ \A i \in 1 .. Len(q) : Append(q, c)[i] = q[i]
      /\ Append(q, c)[Len(q) + 1] = c
  <2>1. q \in Seq(S)
    BY <1>2
  <2> QED
    BY <2>1
<1>5. ASSUME NEW i \in 1 .. Len(x \o a) PROVE (x \o a)[i] = Append(q, c)[i]
  <2>1. CASE i \in 1 .. Len(x)
    BY <1>1, <1>2, <1>3, <1>4, <2>1
  <2>2. CASE i = Len(x) + Len(y) + 1
    <3>1. Len(y) + 1 \in 1 .. Len(a) /\ Len(x) + (Len(y) + 1) = i /\ i = Len(q) + 1
      BY <1>1, <1>2, <2>2
    <3>2. (x \o a)[Len(x) + (Len(y) + 1)] = a[Len(y) + 1]
      BY <1>3, <3>1
    <3> QED
      BY <1>1, <1>4, <3>1, <3>2
  <2>3. CASE i > Len(x) /\ i <= Len(x) + Len(y)
    <3>1. /\ i - Len(x) \in 1 .. Len(y) /\ i - Len(x) \in 1 .. Len(a)
          /\ Len(x) + (i - Len(x)) = i /\ i \in 1 .. Len(q)
      BY <1>1, <1>2, <2>3
    <3>2. /\ (x \o a)[Len(x) + (i - Len(x))] = a[i - Len(x)]
          /\ q[Len(x) + (i - Len(x))] = y[i - Len(x)]
      BY <1>2, <1>3, <3>1
    <3> QED
      BY <1>1, <1>4, <3>1, <3>2
  <2> QED
    BY <1>1, <1>2, <1>3, <2>1, <2>2, <2>3
<1>6. Len(x \o a) = Len(Append(q, c))
  BY <1>1, <1>2, <1>3, <1>4
<1>7. x \o a = Append(q, c)
  BY <1>3, <1>4, <1>5, <1>6, SameSeq
<1> QED
  BY <1>7 DEF a, q

LEMMA ConcatTail ==
  ASSUME NEW S, NEW x \in Seq(S), NEW y \in Seq(S), x # <<>>
  PROVE  Tail(x) \o y = Tail(x \o y) /\ Head(x \o y) = Head(x) /\ x \o y # <<>>
<1>1. /\ Tail(x) \in Seq(S) /\ Len(Tail(x)) = Len(x) - 1 /\ Len(x) \in Nat /\ Len(x) # 0
      /\ \A i \in 1 .. Len(Tail(x)) : i + 1 \in 1 .. Len(x) /\ Tail(x)[i] = x[i + 1]
      /\ Head(x) = x[1]
  BY TailFacts
<1> DEFINE a == Tail(x)
           q == x \o y
<1>2. /\ q \in Seq(S) /\ Len(q) = Len(x) + Len(y) /\ Len(y) \in Nat
      /\ \A i \in 1 .. Len(x) : q[i] = x[i]
      /\ \A i \in 1 .. Len(y) : q[Len(x) + i] = y[i]
  BY ConcatFacts
<1>3. /\ a \in Seq(S) /\ Len(a) = Len(x) - 1
      /\ \A i \in 1 .. Len(a) : i + 1 \in 1 .. Len(x) /\ a[i] = x[i + 1]
  BY <1>1
<1> HIDE DEF a, q
<1>4. q # <<>> /\ 1 \in 1 .. Len(x)
  BY <1>1, <1>2
<1>5. /\ Tail(q) \in Seq(S) /\ Len(Tail(q)) = Len(q) - 1 /\ Head(q) = q[1]
      /\ \A i \in 1 .. Len(Tail(q)) : Tail(q)[i] = q[i + 1]
  BY <1>2, <1>4, TailFacts
<1>6. /\ a \o y \in Seq(S) /\ Len(a \o y) = Len(a) + Len(y)
      /\ \A i \in 1 .. Len(a) : (a \o y)[i] = a[i]
      /\ \A i \in 1 .. Len(y) : (a \o y)[Len(a) + i] = y[i]
  <2>1. a \in Seq(S)
    BY <1>3
  <2> QED
    BY <2>1
<1>7. ASSUME NEW i \in 1 .. Len(a \o y) PROVE (a \o y)[i] = Tail(q)[i]
  <2>1. CASE i \in 1 .. Len(a)
    BY <1>1, <1>2, <1>3, <1>5, <1>6, <2>1
  <2>2. CASE i > Len(a)
    <3>1. /\ i - Len(a) \in 1 .. Len(y) /\ Len(a) + (i - Len(a)) = i
          /\ Len(x) + (i - Len(a)) = i + 1 /\ i \in 1 .. Len(Tail(q))
      BY <1>1, <1>2, <1>3, <1>5, <1>6, <2>2
    <3>2. /\ (a \o y)[Len(a) + (i - Len(a))] = y[i - Len(a)]
          /\ q[Len(x) + (i - Len(a))] = y[i - Len(a)]
      BY <1>2, <1>6, <3>1
    <3> QED
      BY <1>5, <3>1, <3>2
  <2>3. i \in Int /\ i >= 1
    BY <1>1, <1>2, <1>3, <1>6
  <2> QED
    BY <1>1, <1>2, <1>3, <1>6, <2>1, <2>2, <2>3
<1>8. Len(a \o y) = Len(Tail(q))
  BY <1>1, <1>2, <1>3, <1>5, <1>6
<1>9. a \o y = Tail(q)
  BY <1>5, <1>6, <1>7, <1>8, SameSeq
<1>10. Head(q) = Head(x)
  BY <1>1, <1>2, <1>4, <1>5
<1> QED
  BY <1>4, <1>9, <1>10 DEF a, q

(* Taking an element out keeps the order of the rest. *)
Skip(k, i) == IF k < i THEN k ELSE k + 1

LEMMA RemoveFacts ==
  ASSUME NEW S, NEW s \in Seq(S), NEW i \in 1 .. Len(s)
  PROVE  /\ RemoveAt(s, i) \in Seq(S) /\ Len(RemoveAt(s, i)) = Len(s) - 1
         /\ \A k \in 1 .. Len(RemoveAt(s, i)) :
              Skip(k, i) \in 1 .. Len(s) /\ RemoveAt(s, i)[k] = s[Skip(k, i)]
<1> DEFINE a == SubSeq(s, 1, i - 1)
           b == SubSeq(s, i + 1, Len(s))
<1>0. Len(s) \in Nat /\ i \in Int /\ 1 <= i /\ i <= Len(s)
  OBVIOUS
<1>1. /\ a \in Seq(S) /\ Len(a) = i - 1
      /\ \A k \in 1 .. Len(a) : a[k] = s[k]
  OBVIOUS
<1>2. /\ b \in Seq(S) /\ Len(b) = Len(s) - i
      /\ \A k \in 1 .. Len(b) : b[k] = s[i + k]
  OBVIOUS
<1> HIDE DEF a, b
<1>3. a \in Seq(S) /\ b \in Seq(S)
  BY <1>1, <1>2
<1>4. /\ a \o b \in Seq(S) /\ Len(a \o b) = Len(a) + Len(b)
      /\ \A k \in 1 .. Len(a \o b) :
           \/ k \in 1 .. Len(a) /\ (a \o b)[k] = a[k]
           \/ k - Len(a) \in 1 .. Len(b) /\ (a \o b)[k] = b[k - Len(a)]
  BY <1>3, ConcatFacts
<1>5. Len(a \o b) = Len(s) - 1
  BY <1>0, <1>1, <1>2, <1>4
<1>6. ASSUME NEW k \in 1 .. Len(a \o b)
      PROVE  Skip(k, i) \in 1 .. Len(s) /\ (a \o b)[k] = s[Skip(k, i)]
  <2>0. k \in Int /\ 1 <= k /\ k <= Len(s) - 1
    BY <1>0, <1>5
  <2>1. CASE k < i
    BY <1>0, <1>1, <1>4, <2>0, <2>1 DEF Skip
  <2>2. CASE ~(k < i)
    <3>1. k - Len(a) \in 1 .. Len(b) /\ (a \o b)[k] = b[k - Len(a)]
      BY <1>0, <1>1, <1>4, <2>0, <2>2
    <3>2. i + (k - Len(a)) = k + 1 /\ k + 1 \in 1 .. Len(s)
      BY <1>0, <1>1, <2>0
    <3>3. b[k - Len(a)] = s[i + (k - Len(a))]
      BY <1>2, <3>1
    <3> QED
      BY <2>2, <3>1, <3>2, <3>3 DEF Skip
  <2> QED
    BY <2>1, <2>2
<1>7. RemoveAt(s, i) = a \o b
  BY DEF RemoveAt, a, b
<1> QED
  BY <1>4, <1>5, <1>6, <1>7

LEMMA RemoveElts ==
  ASSUME NEW S, NEW s \in Seq(S), NEW i \in 1 .. Len(s), Distinct(s)
  PROVE  /\ Distinct(RemoveAt(s, i))
         /\ Elts(RemoveAt(s, i)) = Elts(s) \ {s[i]}
<1> DEFINE r == RemoveAt(s, i)
<1>1. /\ r \in Seq(S) /\ Len(r) = Len(s) - 1 /\ Len(s) \in Nat
      /\ \A k \in 1 .. Len(r) : Skip(k, i) \in 1 .. Len(s) /\ r[k] = s[Skip(k, i)]
  BY RemoveFacts
<1> HIDE DEF r
<1>2. \A k \in 1 .. Len(r) : Skip(k, i) # i
  BY <1>1 DEF Skip
<1>3. \A k, l \in 1 .. Len(r) : Skip(k, i) = Skip(l, i) => k = l
  BY <1>1 DEF Skip
<1>4. Distinct(r)
  BY <1>1, <1>3 DEF Distinct
<1>5. ASSUME NEW e \in Elts(r) PROVE e \in Elts(s) /\ e # s[i]
  <2>1. PICK k \in 1 .. Len(r) : e = r[k]
    BY <1>5 DEF Elts
  <2> QED
    BY <1>1, <1>2, <2>1 DEF Elts, Distinct
<1>6. ASSUME NEW e \in Elts(s), e # s[i] PROVE e \in Elts(r)
  <2>1. PICK k \in 1 .. Len(s) : e = s[k]
    BY <1>6 DEF Elts
  <2>2. k # i
    BY <1>6, <2>1
  <2>3. PICK l \in 1 .. Len(r) : Skip(l, i) = k
    <3>1. CASE k < i
      <4>1. k \in 1 .. Len(r) /\ Skip(k, i) = k
        BY <1>1, <3>1 DEF Skip
      <4> QED
        BY <4>1
    <3>2. CASE k > i
      <4>1. k - 1 \in 1 .. Len(r) /\ Skip(k - 1, i) = k
        BY <1>1, <3>2 DEF Skip
      <4> QED
        BY <4>1
    <3> QED
      BY <2>2, <3>1, <3>2
  <2> QED
    BY <1>1, <2>1, <2>3 DEF Elts
<1> QED
  BY <1>4, <1>5, <1>6 DEF r

LEMMA RemoveConcat ==
  ASSUME NEW S, NEW x \in Seq(S), NEW y \in Seq(S), NEW i \in 1 .. Len(x)
  PROVE  /\ RemoveAt(x, i) \o y = RemoveAt(x \o y, i)
         /\ i \in 1 .. Len(x \o y) /\ (x \o y)[i] = x[i]
<1> DEFINE q == x \o y
           r == RemoveAt(x, i)
<1>1. /\ r \in Seq(S) /\ Len(r) = Len(x) - 1 /\ Len(x) \in Nat
      /\ \A k \in 1 .. Len(r) : Skip(k, i) \in 1 .. Len(x) /\ r[k] = x[Skip(k, i)]
  BY RemoveFacts
<1>2. /\ q \in Seq(S) /\ Len(q) = Len(x) + Len(y) /\ Len(y) \in Nat
      /\ \A k \in 1 .. Len(x) : q[k] = x[k]
      /\ \A k \in 1 .. Len(y) : q[Len(x) + k] = y[k]
  BY ConcatFacts
<1> HIDE DEF q, r
<1>3. i \in 1 .. Len(q) /\ q[i] = x[i]
  BY <1>1, <1>2
<1>4. r \in Seq(S) /\ q \in Seq(S)
  BY <1>1, <1>2
<1> DEFINE z == RemoveAt(q, i)
<1>5. /\ z \in Seq(S) /\ Len(z) = Len(q) - 1
      /\ \A k \in 1 .. Len(z) : Skip(k, i) \in 1 .. Len(q) /\ z[k] = q[Skip(k, i)]
  BY <1>3, <1>4, RemoveFacts
<1>6. /\ r \o y \in Seq(S) /\ Len(r \o y) = Len(r) + Len(y)
      /\ \A k \in 1 .. Len(r \o y) :
           \/ k \in 1 .. Len(r) /\ (r \o y)[k] = r[k]
           \/ k - Len(r) \in 1 .. Len(y) /\ (r \o y)[k] = y[k - Len(r)]
  BY <1>4
<1> HIDE DEF z
<1>7. Len(r \o y) = Len(z)
  BY <1>1, <1>2, <1>5, <1>6
<1>8. ASSUME NEW k \in 1 .. Len(r \o y) PROVE (r \o y)[k] = z[k]
  <2>0. k \in 1 .. Len(z) /\ k \in Int
    BY <1>1, <1>2, <1>6, <1>7
  <2>1. CASE k \in 1 .. Len(r) /\ (r \o y)[k] = r[k]
    BY <1>1, <1>2, <1>5, <2>0, <2>1
  <2>2. CASE k - Len(r) \in 1 .. Len(y) /\ (r \o y)[k] = y[k - Len(r)]
    <3>1. ~(k < i)
      BY <1>1, <1>2, <2>0, <2>2
    <3>2. Skip(k, i) = k + 1 /\ k + 1 = Len(x) + (k - Len(r))
      BY <1>1, <2>0, <3>1 DEF Skip
    <3>3. q[Len(x) + (k - Len(r))] = y[k - Len(r)]
      BY <1>2, <2>2
    <3>4. z[k] = q[Skip(k, i)]
      BY <1>5, <2>0
    <3> QED
      BY <2>2, <3>2, <3>3, <3>4
  <2> QED
    BY <1>6, <2>1, <2>2
<1>9. r \o y = z
  BY <1>5, <1>6, <1>7, <1>8, SameSeq
<1> QED
  BY <1>3, <1>9 DEF q, r, z
-----------------------------------------------------------------------------
(* The batches of the threads. *)
LEMMA WaitFacts ==
  ASSUME NEW f \in [Thread -> Seq(Cmd)]
  PROVE  /\ WaitIn(f) \subseteq Cmd
         /\ \A x : x \in WaitIn(f) <=> \E t \in Thread : x \in Elts(f[t])
<1>1. \A x : x \in WaitIn(f) <=> \E t \in Thread : x \in Elts(f[t])
  BY DEF WaitIn
<1>2. \A t \in Thread : Elts(f[t]) \subseteq Cmd
  BY EltsFacts
<1> QED
  BY <1>1, <1>2

LEMMA OnceFacts ==
  ASSUME NEW f \in [Thread -> Seq(Cmd)], OnceIn(f), NEW t \in Thread
  PROVE  /\ Distinct(f[t])
         /\ \A u \in Thread : u # t => Elts(f[u]) \cap Elts(f[t]) = {}
<1>1. Distinct(f[t])
  BY DEF OnceIn, Distinct
<1>2. ASSUME NEW u \in Thread, u # t, NEW x \in Elts(f[u]), x \in Elts(f[t]) PROVE FALSE
  <2>1. PICK i \in 1 .. Len(f[u]) : x = f[u][i]
    BY <1>2 DEF Elts
  <2>2. PICK j \in 1 .. Len(f[t]) : x = f[t][j]
    BY <1>2 DEF Elts
  <2> QED
    BY <1>2, <2>1, <2>2 DEF OnceIn
<1> QED
  BY <1>1, <1>2

LEMMA OnceIntro ==
  ASSUME NEW f \in [Thread -> Seq(Cmd)],
         \A t \in Thread : Distinct(f[t]),
         \A t, u \in Thread : u # t => Elts(f[u]) \cap Elts(f[t]) = {}
  PROVE  OnceIn(f)
<1> SUFFICES ASSUME NEW t \in Thread, NEW u \in Thread,
                    NEW i \in 1 .. Len(f[t]), NEW j \in 1 .. Len(f[u]), f[t][i] = f[u][j]
             PROVE  t = u /\ i = j
  BY DEF OnceIn
<1>1. f[t][i] \in Elts(f[t]) /\ f[u][j] \in Elts(f[u])
  BY DEF Elts
<1>2. t = u
  BY <1>1
<1> QED
  BY <1>2 DEF Distinct

LEMMA TailWait ==
  ASSUME NEW f \in [Thread -> Seq(Cmd)], OnceIn(f), NEW t \in Thread, f[t] # <<>>,
         NEW g, g = [f EXCEPT ![t] = Tail(f[t])]
  PROVE  /\ g \in [Thread -> Seq(Cmd)] /\ OnceIn(g)
         /\ Head(f[t]) \in Cmd
         /\ WaitIn(f) = WaitIn(g) \cup {Head(f[t])} /\ Head(f[t]) \notin WaitIn(g)
<1>0. f[t] \in Seq(Cmd)
  OBVIOUS
<1>1. /\ Tail(f[t]) \in Seq(Cmd) /\ Head(f[t]) \in Cmd
      /\ Elts(f[t]) = Elts(Tail(f[t])) \cup {Head(f[t])}
      /\ Distinct(f[t]) => Distinct(Tail(f[t])) /\ Head(f[t]) \notin Elts(Tail(f[t]))
  BY <1>0, TailFacts
<1>2. /\ Distinct(f[t])
      /\ \A u \in Thread : u # t => Elts(f[u]) \cap Elts(f[t]) = {}
  BY OnceFacts
<1>3. g \in [Thread -> Seq(Cmd)] /\ g[t] = Tail(f[t]) /\ \A u \in Thread : u # t => g[u] = f[u]
  BY <1>1
<1>4. \A u \in Thread : Distinct(g[u])
  BY <1>1, <1>2, <1>3, OnceFacts
<1>5. \A u, v \in Thread : u # v => Elts(f[u]) \cap Elts(f[v]) = {}
  BY OnceFacts
<1>6. \A u \in Thread : Elts(g[u]) \subseteq Elts(f[u])
  <2> TAKE u \in Thread
  <2>1. CASE u = t
    BY <1>1, <1>3, <2>1
  <2>2. CASE u # t
    BY <1>3, <2>2
  <2> QED
    BY <2>1, <2>2
<1>7. OnceIn(g)
  BY <1>3, <1>4, <1>5, <1>6, OnceIntro
<1>8. ASSUME NEW x \in WaitIn(f), x # Head(f[t]) PROVE x \in WaitIn(g)
  <2>1. PICK u \in Thread : x \in Elts(f[u])
    BY <1>8, WaitFacts
  <2>2. x \in Elts(g[u])
    BY <1>1, <1>3, <1>8, <2>1
  <2> QED
    BY <1>3, <2>2, WaitFacts
<1>9. ASSUME NEW x \in WaitIn(g) PROVE x \in WaitIn(f) /\ x # Head(f[t])
  <2>1. PICK u \in Thread : x \in Elts(g[u])
    BY <1>3, <1>9, WaitFacts
  <2>2. x \in WaitIn(f)
    BY <1>6, <2>1, WaitFacts
  <2>3. CASE u = t
    BY <1>1, <1>2, <1>3, <2>1, <2>2, <2>3
  <2>4. CASE u # t
    BY <1>1, <1>2, <1>3, <2>1, <2>2, <2>4
  <2> QED
    BY <2>3, <2>4
<1>10. Head(f[t]) \in WaitIn(f)
  BY <1>1, WaitFacts
<1> QED
  BY <1>1, <1>3, <1>7, <1>8, <1>9, <1>10

LEMMA GiveWait ==
  ASSUME NEW f \in [Thread -> Seq(Cmd)], OnceIn(f), NEW t \in Thread, f[t] = <<>>,
         NEW c \in Cmd, c \notin WaitIn(f),
         NEW g, g = [f EXCEPT ![t] = <<c>>]
  PROVE  /\ g \in [Thread -> Seq(Cmd)] /\ OnceIn(g)
         /\ WaitIn(g) = WaitIn(f) \cup {c}
<1>1. g \in [Thread -> Seq(Cmd)] /\ g[t] = <<c>> /\ \A u \in Thread : u # t => g[u] = f[u]
  OBVIOUS
<1>2. Elts(<<c>>) = {c} /\ Distinct(<<c>>) /\ Elts(f[t]) = {}
  BY DEF Elts, Distinct
<1>3. \A u \in Thread : Distinct(g[u])
  BY <1>1, <1>2, OnceFacts
<1>4. \A u, v \in Thread : u # v => Elts(f[u]) \cap Elts(f[v]) = {}
  BY OnceFacts
<1>5. \A u \in Thread : c \notin Elts(f[u])
  BY WaitFacts
<1>6. ASSUME NEW u \in Thread, NEW v \in Thread, u # v PROVE Elts(g[u]) \cap Elts(g[v]) = {}
  <2>1. CASE u = t
    BY <1>1, <1>2, <1>5, <1>6, <2>1
  <2>2. CASE v = t
    BY <1>1, <1>2, <1>5, <1>6, <2>2
  <2>3. CASE u # t /\ v # t
    BY <1>1, <1>4, <1>6, <2>3
  <2> QED
    BY <2>1, <2>2, <2>3
<1>7. OnceIn(g)
  BY <1>1, <1>3, <1>6, OnceIntro
<1>8. ASSUME NEW x \in WaitIn(g) PROVE x \in WaitIn(f) \cup {c}
  <2>1. PICK u \in Thread : x \in Elts(g[u])
    BY <1>1, <1>8, WaitFacts
  <2> QED
    BY <1>1, <1>2, <2>1, WaitFacts
<1>9. ASSUME NEW x \in WaitIn(f) \cup {c} PROVE x \in WaitIn(g)
  <2>1. CASE x = c
    BY <1>1, <1>2, <2>1, WaitFacts
  <2>2. CASE x \in WaitIn(f)
    <3>1. PICK u \in Thread : x \in Elts(f[u])
      BY <2>2, WaitFacts
    <3>2. x \in Elts(g[u])
      BY <1>1, <1>2, <3>1
    <3> QED
      BY <1>1, <3>2, WaitFacts
  <2> QED
    BY <1>9, <2>1, <2>2
<1> QED
  BY <1>1, <1>7, <1>8, <1>9
-----------------------------------------------------------------------------
(* The state. *)
LEMMA PartFacts ==
  ASSUME ShapeInv
  PROVE  /\ Sent \in Seq(Cmd) /\ Answered \in Seq(Cmd) /\ handled \o reclaim \in Seq(Cmd)
         /\ SentSet \subseteq Cmd /\ AnsweredSet \subseteq Cmd /\ FreeSet \subseteq Cmd
         /\ AnsweredSet = (HandledSet \cup Elts(reclaim)) \cup Elts(used)
         /\ Waiting \subseteq Cmd
<1> USE DEF ShapeInv
<1>1. Sent \in Seq(Cmd) /\ handled \o reclaim \in Seq(Cmd)
  BY DEF Sent
<1>2. Answered \in Seq(Cmd)
  BY <1>1 DEF Answered
<1>3. SentSet \subseteq Cmd /\ AnsweredSet \subseteq Cmd /\ FreeSet \subseteq Cmd
  <2>1. \A s \in Seq(Cmd) : Elts(s) \subseteq Cmd
    BY EltsFacts
  <2> QED
    BY <1>1, <1>2, <2>1 DEF SentSet, AnsweredSet, FreeSet
<1>0. \A x, y \in Seq(Cmd) : Elts(x \o y) = Elts(x) \cup Elts(y)
  BY ConcatElts
<1>4. Elts(Answered) = Elts(handled \o reclaim) \cup Elts(used)
  BY <1>0, <1>1, Zenon DEF Answered, ShapeInv
<1>5. Elts(handled \o reclaim) = Elts(handled) \cup Elts(reclaim)
  BY <1>0, Zenon DEF ShapeInv
<1>6. Waiting \subseteq Cmd
  BY WaitFacts DEF Waiting
<1> QED
  BY <1>1, <1>2, <1>3, <1>4, <1>5, <1>6 DEF AnsweredSet, HandledSet

(* What the fences and the queues' order depend on. *)
LEMMA Frame ==
  ASSUME OrderInv,
         UNCHANGED <<todo, Sent, Answered, handled, freeList, completed, freed,
                     fence, lastFence, fences, signaled>>
  PROVE  OrderInv'
<1>1. UNCHANGED <<SentSet, AnsweredSet, HandledSet, FreeSet, Waiting>>
  BY DEF SentSet, AnsweredSet, HandledSet, FreeSet, Waiting
<1>2. UNCHANGED Spent
  BY <1>1 DEF Spent
<1>3. OnceIn(todo)' /\ Distinct(Sent)' /\ Distinct(Answered)' /\ Distinct(freeList)'
  BY DEF OrderInv, OnceInv
<1>4. OnceInv'
  BY <1>1, <1>2, <1>3 DEF OrderInv, OnceInv
<1>5. DropInv'
  BY <1>1, <1>2 DEF OrderInv, DropInv
<1>6. FenceInv'
  BY <1>1 DEF OrderInv, FenceInv
<1>7. SignalInv'
  BY <1>1 DEF OrderInv, SignalInv
<1> QED
  BY <1>4, <1>5, <1>6, <1>7 DEF OrderInv

(* A command that is given up: its thread goes on to the next one. *)
LEMMA GiveUpStep ==
  ASSUME ShapeInv, OrderInv, NEW t \in Thread, todo[t] # <<>>, Advance(t),
         freed' = freed \/ freed' = freed \cup {Head(todo[t])},
         UNCHANGED <<Sent, Answered, handled, freeList, completed,
                     fence, lastFence, fences, signaled>>
  PROVE  OrderInv'
<1> DEFINE c == Head(todo[t])
<1>1. /\ OnceIn(todo') /\ c \in Cmd
      /\ Waiting = WaitIn(todo') \cup {c} /\ c \notin WaitIn(todo')
  BY TailWait DEF ShapeInv, OrderInv, OnceInv, Advance, Waiting
<1> HIDE DEF c
<1>2. Waiting' = WaitIn(todo')
  BY DEF Waiting
<1>3. UNCHANGED <<SentSet, AnsweredSet, HandledSet, FreeSet>>
  BY DEF SentSet, AnsweredSet, HandledSet, FreeSet
<1>4. freed' = freed \/ freed' = freed \cup {c}
  BY DEF c
<1>5. Spent' = SentSet \cup completed \cup freed' /\ Spent = SentSet \cup completed \cup freed
  BY <1>3 DEF Spent
<1>6. c \notin Spent
  BY <1>1 DEF OrderInv, OnceInv
<1>7. OnceIn(todo)' /\ Distinct(Sent)' /\ Distinct(Answered)' /\ Distinct(freeList)'
  BY <1>1 DEF OrderInv, OnceInv
<1>8. OnceInv'
  <2>1. (Waiting \cap Spent)' = {}
    BY <1>1, <1>2, <1>4, <1>5, <1>6 DEF OrderInv, OnceInv
  <2>2. (SentSet \cap (completed \cup freed))' = {}
    BY <1>3, <1>4, <1>5, <1>6 DEF OrderInv, OnceInv
  <2>3. (AnsweredSet \subseteq completed \ freed)' /\ (FreeSet \subseteq freed)'
    BY <1>3, <1>4, <1>5, <1>6 DEF OrderInv, OnceInv
  <2> QED
    BY <1>3, <1>7, <2>1, <2>2, <2>3 DEF OrderInv, OnceInv
<1>9. DropInv'
  <2>1. Waiting' \cup Spent' \subseteq Waiting \cup Spent
    BY <1>1, <1>2, <1>4, <1>5
  <2> QED
    BY <1>1, <1>2, <1>3, <2>1 DEF OrderInv, DropInv
<1>10. FenceInv'
  BY <1>3 DEF OrderInv, FenceInv
<1>11. SignalInv'
  BY <1>3, <1>4, <1>5, <1>6 DEF OrderInv, SignalInv
<1> QED
  BY <1>8, <1>9, <1>10, <1>11 DEF OrderInv

LEMMA QueueStep ==
  ASSUME ShapeInv, OrderInv, NEW t \in Thread, todo[t] # <<>>, Queue(t)
  PROVE  OrderInv'
<1> DEFINE c == Head(todo[t])
<1>1. /\ OnceIn(todo') /\ c \in Cmd
      /\ Waiting = WaitIn(todo') \cup {c} /\ c \notin WaitIn(todo')
  BY TailWait DEF ShapeInv, OrderInv, OnceInv, Queue, Advance, Waiting
<1>2. Emit(c) /\ avail' = Append(avail, c)
  BY DEF Queue, Add
<1>3. UNCHANGED <<hostq, handled, reclaim, used, freeList, completed, freed, signaled>>
  BY DEF Queue, workVars
<1> HIDE DEF c
<1>4. Waiting' = WaitIn(todo')
  BY DEF Waiting
<1>5. UNCHANGED <<Answered, AnsweredSet, HandledSet, FreeSet>>
  BY <1>3 DEF Answered, AnsweredSet, HandledSet, FreeSet
<1>6. Sent' = Append(Sent, c) /\ Sent \in Seq(Cmd)
  <2>1. \A x, y \in Seq(Cmd), d \in Cmd : x \o Append(y, d) = Append(x \o y, d)
    BY ConcatAppend
  <2>2. hostq \in Seq(Cmd) /\ avail \in Seq(Cmd)
    BY DEF ShapeInv
  <2>3. hostq \o Append(avail, c) = Append(hostq \o avail, c)
    BY <1>1, <2>1, <2>2, Zenon
  <2>4. Sent' = hostq \o Append(avail, c)
    BY <1>2, <1>3 DEF Sent
  <2> QED
    BY <2>3, <2>4, PartFacts DEF Sent
<1>7. c \notin Spent /\ c \notin SentSet /\ c \notin completed /\ c \notin freed
  BY <1>1 DEF OrderInv, OnceInv, Spent
<1>8. /\ Len(Sent') = Len(Sent) + 1 /\ Len(Sent) \in Nat
      /\ \A i \in 1 .. Len(Sent) : Sent'[i] = Sent[i]
      /\ Sent'[Len(Sent) + 1] = c
      /\ SentSet' = SentSet \cup {c}
      /\ Distinct(Sent')
  <2>1. \A s \in Seq(Cmd), d \in Cmd :
          /\ Len(Append(s, d)) = Len(s) + 1 /\ Len(s) \in Nat
          /\ \A i \in 1 .. Len(s) : Append(s, d)[i] = s[i]
          /\ Append(s, d)[Len(s) + 1] = d
          /\ Elts(Append(s, d)) = Elts(s) \cup {d}
          /\ Distinct(s) /\ d \notin Elts(s) => Distinct(Append(s, d))
    BY AppendFacts
  <2> QED
    BY <1>1, <1>6, <1>7, <2>1, Zenon DEF SentSet, OrderInv, OnceInv
<1>9. Spent' = Spent \cup {c}
  BY <1>3, <1>8 DEF Spent
<1>10. OnceInv'
  <2>1. OnceIn(todo)' /\ Distinct(Sent)' /\ Distinct(Answered)' /\ Distinct(freeList)'
    BY <1>1, <1>3, <1>5, <1>8 DEF OrderInv, OnceInv
  <2>2. (Waiting \cap Spent)' = {}
    BY <1>1, <1>4, <1>9 DEF OrderInv, OnceInv
  <2>3. (SentSet \cap (completed \cup freed))' = {}
    BY <1>3, <1>7, <1>8 DEF OrderInv, OnceInv
  <2> QED
    BY <1>3, <1>5, <2>1, <2>2, <2>3 DEF OrderInv, OnceInv
<1>11. DropInv'
  <2>1. Waiting' \cup Spent' = Waiting \cup Spent /\ Waiting' \cup SentSet' = Waiting \cup SentSet
    BY <1>1, <1>4, <1>8, <1>9
  <2> QED
    BY <1>5, <2>1 DEF OrderInv, DropInv
<1>12. /\ \A d \in Cmd : d # c => fence'[d] = fence[d]
       /\ lastFence \in Nat /\ fence \in [Cmd -> Nat]
       /\ \A d \in Cmd : fence[d] <= lastFence
       /\ fence[c] = 0
  BY <1>1, <1>2, <1>7 DEF ShapeInv, OrderInv, FenceInv, Emit
<1>13. \/ ~Fenced(c) /\ fence'[c] = 0 /\ lastFence' = lastFence /\ fences' = fences
       \/ Fenced(c) /\ fence'[c] = lastFence + 1 /\ lastFence' = lastFence + 1
          /\ fences' = fences \cup {c}
  BY <1>1, <1>2, <1>12 DEF Emit, Fenced
<1>14. FenceInv'
  <2>1. \A d \in Cmd : fence'[d] <= lastFence'
    BY <1>12, <1>13
  <2>2. ASSUME NEW d \in Cmd
        PROVE  fence'[d] # 0 <=> Fenced(d) /\ d \in SentSet' \cup completed'
    <3>1. CASE d = c
      BY <1>8, <1>12, <1>13, <3>1
    <3>2. CASE d # c
      BY <1>3, <1>8, <1>12, <3>2 DEF OrderInv, FenceInv
    <3> QED
      BY <3>1, <3>2
  <2>3. ASSUME NEW i \in 1 .. Len(Sent'), NEW j \in 1 .. Len(Sent'),
               i < j, Fenced(Sent'[i]), Fenced(Sent'[j])
        PROVE  fence'[Sent'[i]] < fence'[Sent'[j]]
    <3>1. i \in 1 .. Len(Sent)
      BY <1>8, <2>3
    <3>2. Sent'[i] = Sent[i] /\ Sent[i] \in Cmd /\ Sent[i] # c
      BY <1>6, <1>7, <1>8, <3>1, EltsFacts DEF SentSet
    <3>3. CASE j \in 1 .. Len(Sent)
      <4>1. Sent'[j] = Sent[j] /\ Sent[j] \in Cmd /\ Sent[j] # c
        BY <1>6, <1>7, <1>8, <3>3, EltsFacts DEF SentSet
      <4>2. fence[Sent[i]] < fence[Sent[j]]
        BY <2>3, <3>1, <3>2, <3>3, <4>1 DEF OrderInv, FenceInv
      <4> QED
        BY <1>12, <3>2, <4>1, <4>2
    <3>4. CASE j = Len(Sent) + 1
      BY <1>8, <1>12, <1>13, <2>3, <3>2, <3>4
    <3> QED
      BY <1>8, <3>3, <3>4
  <2>4. ASSUME NEW d \in completed', NEW e \in SentSet', Fenced(d), Timeline[d] = Timeline[e]
        PROVE  fence'[d] < fence'[e]
    <3>1. d \in completed /\ d \in Cmd /\ d # c
      BY <1>3, <1>7 DEF ShapeInv
    <3>2. CASE e = c
      <4>1. Fenced(c)
        BY <2>4, <3>2 DEF Fenced
      <4> QED
        BY <1>12, <1>13, <3>1, <3>2, <4>1
    <3>3. CASE e # c
      <4>1. e \in SentSet /\ e \in Cmd
        BY <1>8, <3>3, PartFacts
      <4>2. fence[d] < fence[e]
        BY <2>4, <3>1, <4>1 DEF OrderInv, FenceInv
      <4> QED
        BY <1>12, <3>1, <3>3, <4>1, <4>2
    <3> QED
      BY <3>2, <3>3
  <2> QED
    BY <2>1, <2>2, <2>3, <2>4 DEF FenceInv
<1>15. SignalInv'
  <2>1. ASSUME NEW d \in Cmd, fence'[d] # 0, d \notin fences' PROVE d \in signaled'
    BY <1>3, <1>12, <1>13, <2>1 DEF OrderInv, SignalInv
  <2> QED
    BY <1>3, <1>5, <2>1 DEF OrderInv, SignalInv
<1> QED
  BY <1>10, <1>11, <1>14, <1>15 DEF OrderInv

LEMMA ProcessStep ==
  ASSUME ShapeInv, OrderInv, WorkProcess
  PROVE  OrderInv'
<1> DEFINE c == Head(reclaim)
           S == fences \cap SignaledBy(c)
<1>1. /\ handled' = Append(handled, c) /\ reclaim' = Tail(reclaim) /\ reclaim # <<>>
      /\ UNCHANGED <<todo, lastFence, fence, freed, freeList, hostq, avail, used, completed>>
      /\ \/ UNCHANGED <<fences, signaled>> /\ (Fenced(c) => c \notin fences)
         \/ Fenced(c) /\ c \in fences /\ signaled' = signaled \cup S /\ fences' = fences \ S
  BY DEF WorkProcess, hostVars, Fenced
<1>2. c \in Cmd /\ Elts(reclaim) = Elts(Tail(reclaim)) \cup {c}
  BY <1>1, TailFacts DEF ShapeInv
<1> HIDE DEF c
<1>3. Append(handled, c) \o Tail(reclaim) = handled \o reclaim
  BY <1>1, ConcatMove DEF ShapeInv, c
<1>4. Answered' = Answered /\ Sent' = Sent
  BY <1>1, <1>3 DEF Answered, Sent
<1>5. HandledSet' = HandledSet \cup {c}
  BY <1>1, <1>2, AppendFacts DEF HandledSet, ShapeInv
<1>6. c \in AnsweredSet
  BY <1>2, PartFacts
<1>7. c \in completed
  BY <1>6 DEF OrderInv, OnceInv
<1>8. ASSUME NEW d \in S PROVE d \in completed
  <2>1. d \in Cmd /\ fence[d] # 0 /\ Timeline[d] = Timeline[c] /\ fence[d] <= fence[c]
    BY DEF SignaledBy
  <2>2. Fenced(d) /\ d \in SentSet \cup completed
    BY <2>1 DEF OrderInv, FenceInv
  <2>3. Fenced(c) /\ fence[d] \in Nat /\ fence[c] \in Nat
    BY <1>2, <2>1, <2>2 DEF Fenced, ShapeInv
  <2>4. d \in SentSet => fence[c] < fence[d]
    BY <1>7, <2>1, <2>3 DEF OrderInv, FenceInv
  <2> QED
    BY <2>1, <2>2, <2>3, <2>4
<1>9. Fenced(c) => fence[c] # 0
  BY <1>2, <1>7 DEF OrderInv, FenceInv
<1>10. Fenced(c) /\ c \in fences => c \in S
  BY <1>2, <1>9 DEF SignaledBy, ShapeInv
<1> HIDE DEF S
<1>11. UNCHANGED <<SentSet, AnsweredSet, FreeSet, Waiting>>
  BY <1>1, <1>4 DEF SentSet, AnsweredSet, FreeSet, Waiting
<1>12. UNCHANGED Spent
  BY <1>1, <1>11 DEF Spent
<1>13. OnceInv'
  <2>1. OnceIn(todo)' /\ Distinct(Sent)' /\ Distinct(Answered)' /\ Distinct(freeList)'
    BY <1>1, <1>4 DEF OrderInv, OnceInv
  <2> QED
    BY <1>1, <1>11, <1>12, <2>1 DEF OrderInv, OnceInv
<1>14. DropInv'
  BY <1>11, <1>12 DEF OrderInv, DropInv
<1>15. FenceInv'
  BY <1>1, <1>4, <1>11 DEF OrderInv, FenceInv
<1>16. SignalInv'
  <2>1. signaled' \subseteq completed' /\ signaled \subseteq signaled'
    BY <1>1, <1>8 DEF OrderInv, SignalInv
  <2>2. ASSUME NEW d \in Cmd, fence'[d] # 0, d \notin fences' PROVE d \in signaled'
    BY <1>1, <2>1, <2>2 DEF OrderInv, SignalInv
  <2>3. Fenced(c) => c \in signaled'
    BY <1>1, <1>2, <1>9, <1>10, <2>1 DEF OrderInv, SignalInv
  <2>4. \A d \in HandledSet' : Fenced(d) => d \in signaled'
    BY <1>5, <2>1, <2>3 DEF OrderInv, SignalInv
  <2>5. \A d \in freed' \cap completed' : Fenced(d) => d \in signaled'
    BY <1>1, <2>1 DEF OrderInv, SignalInv
  <2> QED
    BY <2>1, <2>2, <2>4, <2>5 DEF SignalInv
<1> QED
  BY <1>13, <1>14, <1>15, <1>16 DEF OrderInv

LEMMA FreeStep ==
  ASSUME ShapeInv, OrderInv, WorkFree
  PROVE  OrderInv'
<1>1. CASE handled = <<>>
  <2>1. UNCHANGED <<todo, handled, reclaim, used, hostq, avail, freeList, completed, freed,
                    fence, lastFence, fences, signaled>>
    BY <1>1 DEF WorkFree, hostVars, fenceVars
  <2>2. UNCHANGED <<Sent, Answered>>
    BY <2>1 DEF Sent, Answered
  <2> QED
    BY <2>1, <2>2, Frame
<1>2. CASE handled # <<>>
  <2> DEFINE c == Head(handled)
  <2>1. /\ freeList' = IF Drops[c] = NoCmd THEN freeList ELSE Append(freeList, c)
        /\ freed' = freed \cup {c} /\ handled' = Tail(handled)
        /\ UNCHANGED <<todo, reclaim, used, hostq, avail, completed,
                       fence, lastFence, fences, signaled>>
    BY <1>2 DEF WorkFree, hostVars, fenceVars
  <2>2. c \in Cmd /\ Elts(handled) = Elts(Tail(handled)) \cup {c}
    BY <1>2, TailFacts DEF ShapeInv
  <2>3. /\ handled \in Seq(Cmd) /\ reclaim \in Seq(Cmd) /\ used \in Seq(Cmd)
        /\ handled \o reclaim \in Seq(Cmd)
    BY PartFacts DEF ShapeInv
  <2>4. \A x, y \in Seq(Cmd) : x # <<>> =>
          Tail(x) \o y = Tail(x \o y) /\ Head(x \o y) = Head(x) /\ x \o y # <<>>
    BY ConcatTail
  <2>5. /\ Tail(handled) \o reclaim = Tail(handled \o reclaim)
        /\ Head(handled \o reclaim) = c /\ handled \o reclaim # <<>>
    BY <1>2, <2>3, <2>4, Zenon
  <2>6. /\ Tail(handled \o reclaim) \o used = Tail(Answered)
        /\ Head(Answered) = c /\ Answered # <<>>
    BY <2>3, <2>4, <2>5, Zenon DEF Answered
  <2> HIDE DEF c
  <2>7. Answered' = Tail(Answered)
    BY <2>1, <2>5, <2>6 DEF Answered
  <2>8. Answered \in Seq(Cmd) /\ Distinct(Answered)
    BY PartFacts DEF OrderInv, OnceInv
  <2>9. /\ Distinct(Answered') /\ AnsweredSet = AnsweredSet' \cup {c} /\ c \notin AnsweredSet'
    <3>1. \A s \in Seq(Cmd) : s # <<>> /\ Distinct(s) =>
            /\ Elts(s) = Elts(Tail(s)) \cup {Head(s)}
            /\ Distinct(Tail(s)) /\ Head(s) \notin Elts(Tail(s))
      BY TailFacts
    <3>2. /\ Elts(Answered) = Elts(Tail(Answered)) \cup {Head(Answered)}
          /\ Distinct(Tail(Answered)) /\ Head(Answered) \notin Elts(Tail(Answered))
      BY <2>6, <2>8, <3>1, Zenon
    <3> QED
      BY <2>6, <2>7, <3>2 DEF AnsweredSet
  <2>10. c \in completed /\ c \notin freed /\ c \notin FreeSet /\ c \notin SentSet
    BY <2>9 DEF OrderInv, OnceInv
  <2>11. UNCHANGED <<Sent, SentSet, Waiting>>
    BY <2>1 DEF Sent, SentSet, Waiting
  <2>12. Spent' = Spent
    BY <2>1, <2>10, <2>11 DEF Spent
  <2>13. /\ Distinct(freeList')
         /\ \/ FreeSet' = FreeSet
            \/ FreeSet' = FreeSet \cup {c} /\ Drops[c] # NoCmd
    <3>1. CASE Drops[c] = NoCmd
      BY <2>1, <3>1 DEF OrderInv, OnceInv, FreeSet
    <3>2. CASE Drops[c] # NoCmd
      <4>1. \A s \in Seq(Cmd), d \in Cmd :
              /\ Elts(Append(s, d)) = Elts(s) \cup {d}
              /\ Distinct(s) /\ d \notin Elts(s) => Distinct(Append(s, d))
        BY AppendFacts
      <4>2. freeList' = Append(freeList, c) /\ freeList \in Seq(Cmd)
        BY <2>1, <3>2 DEF ShapeInv
      <4>3. Distinct(freeList) /\ c \notin Elts(freeList)
        BY <2>10 DEF OrderInv, OnceInv, FreeSet
      <4>4. Elts(freeList') = Elts(freeList) \cup {c} /\ Distinct(freeList')
        BY <2>2, <4>1, <4>2, <4>3, Zenon
      <4> QED
        BY <3>2, <4>4 DEF FreeSet
    <3> QED
      BY <3>1, <3>2
  <2>14. OnceInv'
    <3>1. OnceIn(todo)' /\ Distinct(Sent)' /\ Distinct(Answered)' /\ Distinct(freeList)'
      BY <2>1, <2>9, <2>11, <2>13 DEF OrderInv, OnceInv
    <3>2. (Waiting \cap Spent)' = {}
      BY <2>11, <2>12 DEF OrderInv, OnceInv
    <3>3. (SentSet \cap (completed \cup freed))' = {}
      BY <2>1, <2>10, <2>11 DEF OrderInv, OnceInv
    <3>4. (AnsweredSet \subseteq completed \ freed)'
      BY <2>1, <2>9 DEF OrderInv, OnceInv
    <3>5. (FreeSet \subseteq freed)' /\ \A d \in FreeSet' : Drops[d] # NoCmd
      BY <2>1, <2>13 DEF OrderInv, OnceInv
    <3> QED
      BY <3>1, <3>2, <3>3, <3>4, <3>5 DEF OnceInv
  <2>15. DropInv'
    <3>1. AnsweredSet' \cup FreeSet' \subseteq AnsweredSet \cup FreeSet
      BY <2>9, <2>13
    <3> QED
      BY <2>11, <2>12, <3>1 DEF OrderInv, DropInv
  <2>16. FenceInv'
    BY <2>1, <2>11 DEF OrderInv, FenceInv
  <2>17. SignalInv'
    <3>1. HandledSet = HandledSet' \cup {c}
      BY <2>1, <2>2 DEF HandledSet
    <3>2. \A d \in freed' \cap completed' : Fenced(d) => d \in signaled'
      BY <2>1, <3>1 DEF OrderInv, SignalInv
    <3> QED
      BY <2>1, <3>1, <3>2 DEF OrderInv, SignalInv
  <2> QED
    BY <2>14, <2>15, <2>16, <2>17 DEF OrderInv
<1> QED
  BY <1>1, <1>2

LEMMA TakeStep ==
  ASSUME ShapeInv, OrderInv, FreeTake
  PROVE  OrderInv' /\ todo' \in [Thread -> Seq(Cmd)]
<1> DEFINE c == Head(freeList)
           u == Drops[c]
<1>1. /\ FreeWork \in Thread /\ freeList # <<>> /\ todo[FreeWork] = <<>>
      /\ todo' = [todo EXCEPT ![FreeWork] = <<u>>] /\ freeList' = Tail(freeList)
      /\ UNCHANGED <<handled, reclaim, used, hostq, avail, completed, freed,
                     fence, lastFence, fences, signaled>>
  BY QueueAssumption DEF FreeTake, ShapeInv, hostVars, fenceVars
<1>2. /\ c \in Cmd /\ FreeSet = Elts(Tail(freeList)) \cup {c}
      /\ Distinct(Tail(freeList)) /\ c \notin Elts(Tail(freeList))
  BY <1>1, TailFacts DEF ShapeInv, FreeSet, OrderInv, OnceInv
<1> HIDE DEF c
<1>3. FreeSet' = Elts(Tail(freeList)) /\ Distinct(freeList')
  BY <1>1, <1>2 DEF FreeSet
<1>4. u # NoCmd
  BY <1>2 DEF OrderInv, OnceInv
<1>5. u \in Unref /\ u \in Cmd /\ Drops[u] = NoCmd
  BY <1>2, <1>4, QueueAssumption
<1>6. u \notin Waiting /\ u \notin Spent
  BY <1>2, <1>4 DEF OrderInv, DropInv
<1>7. \A d \in Cmd : Drops[d] = u => d = c
  BY <1>2, <1>4, QueueAssumption
<1> HIDE DEF u
<1>8. /\ todo' \in [Thread -> Seq(Cmd)] /\ OnceIn(todo')
      /\ WaitIn(todo') = Waiting \cup {u}
  BY <1>1, <1>5, <1>6, GiveWait DEF ShapeInv, OrderInv, OnceInv, Waiting
<1>9. Waiting' = Waiting \cup {u}
  BY <1>8 DEF Waiting
<1>10. UNCHANGED <<Sent, Answered>>
  BY <1>1 DEF Sent, Answered
<1>11. UNCHANGED <<SentSet, AnsweredSet, HandledSet>>
  BY <1>1, <1>10 DEF SentSet, AnsweredSet, HandledSet
<1>12. UNCHANGED Spent
  BY <1>1, <1>11 DEF Spent
<1>13. OnceInv'
  <2>1. OnceIn(todo)' /\ Distinct(Sent)' /\ Distinct(Answered)' /\ Distinct(freeList)'
    BY <1>3, <1>8, <1>10 DEF OrderInv, OnceInv
  <2>2. (Waiting \cap Spent)' = {}
    BY <1>6, <1>9, <1>12 DEF OrderInv, OnceInv
  <2> QED
    BY <1>1, <1>2, <1>3, <1>11, <2>1, <2>2 DEF OrderInv, OnceInv
<1>14. DropInv'
  <2> SUFFICES ASSUME NEW d \in Waiting' \cup SentSet' \cup AnsweredSet' \cup FreeSet',
                      Drops[d] # NoCmd
               PROVE  Drops[d] \notin Waiting' \cup Spent'
    BY DEF DropInv
  <2>1. d # u
    BY <1>5
  <2>2. d \in Waiting \cup SentSet \cup AnsweredSet \cup Elts(Tail(freeList))
    BY <1>3, <1>9, <1>11, <2>1
  <2>3. d \in Cmd /\ Drops[d] \notin Waiting \cup Spent
    BY <1>2, <2>2, PartFacts DEF OrderInv, DropInv
  <2>4. d # c
    <3>1. c \in freed
      BY <1>2 DEF OrderInv, OnceInv
    <3>2. c \notin Waiting /\ c \notin SentSet /\ c \notin AnsweredSet
      BY <3>1 DEF OrderInv, OnceInv, Spent
    <3> QED
      BY <1>2, <2>2, <3>2
  <2>5. Drops[d] # u
    BY <1>7, <2>3, <2>4
  <2> QED
    BY <1>9, <1>12, <2>3, <2>5
<1>15. FenceInv'
  BY <1>1, <1>10, <1>11 DEF OrderInv, FenceInv
<1>16. SignalInv'
  BY <1>1, <1>11 DEF OrderInv, SignalInv
<1> QED
  BY <1>8, <1>13, <1>14, <1>15, <1>16 DEF OrderInv

LEMMA CompleteStep ==
  ASSUME ShapeInv, OrderInv, HostComplete
  PROVE  OrderInv' /\ hostq' \in Seq(Cmd) /\ used' \in Seq(Cmd) /\ completed' \subseteq Cmd
<1>0. hostq \in Seq(Cmd) /\ avail \in Seq(Cmd) /\ used \in Seq(Cmd) /\ completed \subseteq Cmd
  BY DEF ShapeInv
<1>1. PICK n \in 1 .. Len(hostq) :
        /\ \A j \in 1 .. n - 1 :
             Timeline[hostq[n]] # NoFence => Timeline[hostq[j]] # Timeline[hostq[n]]
        /\ used' = Append(used, hostq[n])
        /\ completed' = completed \cup {hostq[n]}
        /\ hostq' = RemoveAt(hostq, n)
  BY <1>0 DEF HostComplete
<1>2. UNCHANGED <<todo, handled, reclaim, freeList, avail, freed,
                  fence, lastFence, fences, signaled>>
  BY DEF HostComplete, fenceVars
<1> DEFINE c == hostq[n]
<1>3. c \in Cmd
  BY <1>0
<1>4. /\ RemoveAt(hostq, n) \o avail = RemoveAt(Sent, n)
      /\ n \in 1 .. Len(Sent) /\ Sent[n] = c
  BY <1>0, RemoveConcat DEF Sent
<1>5. \A k \in 1 .. Len(Sent) : k < n => k \in 1 .. n - 1 /\ Sent[k] = hostq[k]
  <2> SUFFICES ASSUME NEW k \in 1 .. Len(Sent), k < n
               PROVE  k \in 1 .. n - 1 /\ Sent[k] = hostq[k]
    OBVIOUS
  <2>1. Len(hostq) \in Nat /\ Len(Sent) \in Nat
    BY <1>0, PartFacts
  <2>2. k \in 1 .. n - 1 /\ k \in 1 .. Len(hostq)
    BY <2>1
  <2>3. \A i \in 1 .. Len(hostq) : Sent[i] = hostq[i]
    BY <1>0, ConcatFacts DEF Sent
  <2> QED
    BY <2>2, <2>3
<1> HIDE DEF c
<1>6. Sent' = RemoveAt(Sent, n)
  BY <1>1, <1>2, <1>4 DEF Sent
<1>7. Sent \in Seq(Cmd) /\ Distinct(Sent) /\ Answered \in Seq(Cmd) /\ Distinct(Answered)
      /\ handled \o reclaim \in Seq(Cmd)
  BY PartFacts DEF OrderInv, OnceInv
<1>8. Distinct(Sent') /\ SentSet' = SentSet \ {c}
  <2>1. \A s \in Seq(Cmd) : \A i \in 1 .. Len(s) : Distinct(s) =>
          Distinct(RemoveAt(s, i)) /\ Elts(RemoveAt(s, i)) = Elts(s) \ {s[i]}
    BY RemoveElts
  <2>2. Distinct(RemoveAt(Sent, n)) /\ Elts(RemoveAt(Sent, n)) = Elts(Sent) \ {c}
    BY <1>4, <1>7, <2>1
  <2> QED
    BY <1>6, <2>2 DEF SentSet
<1>9. c \in SentSet
  BY <1>4 DEF SentSet, Elts
<1>10. c \notin completed /\ c \notin freed /\ c \notin AnsweredSet
  BY <1>9 DEF OrderInv, OnceInv
<1>11. Answered' = Append(Answered, c)
  <2>1. \A x, y \in Seq(Cmd), d \in Cmd : x \o Append(y, d) = Append(x \o y, d)
    BY ConcatAppend
  <2>2. (handled \o reclaim) \o Append(used, c) = Append(Answered, c)
    BY <1>0, <1>3, <1>7, <2>1, Zenon DEF Answered
  <2>3. Answered' = (handled \o reclaim) \o Append(used, c)
    BY <1>1, <1>2 DEF Answered, c
  <2> QED
    BY <2>2, <2>3
<1>12. Distinct(Answered') /\ AnsweredSet' = AnsweredSet \cup {c}
  <2>1. \A s \in Seq(Cmd), d \in Cmd :
          /\ Elts(Append(s, d)) = Elts(s) \cup {d}
          /\ Distinct(s) /\ d \notin Elts(s) => Distinct(Append(s, d))
    BY AppendFacts
  <2>2. /\ Elts(Append(Answered, c)) = Elts(Answered) \cup {c}
        /\ Distinct(Append(Answered, c))
    BY <1>3, <1>7, <1>10, <2>1, Zenon DEF AnsweredSet
  <2> QED
    BY <1>11, <2>2 DEF AnsweredSet
<1>13. completed' = completed \cup {c}
  BY <1>1 DEF c
<1>14. UNCHANGED <<Waiting, FreeSet, HandledSet>>
  BY <1>2 DEF Waiting, FreeSet, HandledSet
<1>15. Spent' = Spent
  BY <1>2, <1>8, <1>9, <1>13 DEF Spent
<1>16. OnceInv'
  <2>1. OnceIn(todo)' /\ Distinct(Sent)' /\ Distinct(Answered)' /\ Distinct(freeList)'
    BY <1>2, <1>8, <1>12 DEF OrderInv, OnceInv
  <2>2. (Waiting \cap Spent)' = {}
    BY <1>14, <1>15 DEF OrderInv, OnceInv
  <2>3. (SentSet \cap (completed \cup freed))' = {}
    BY <1>2, <1>8, <1>13 DEF OrderInv, OnceInv
  <2>4. (AnsweredSet \subseteq completed \ freed)'
    BY <1>2, <1>10, <1>12, <1>13 DEF OrderInv, OnceInv
  <2> QED
    BY <1>2, <1>14, <2>1, <2>2, <2>3, <2>4 DEF OrderInv, OnceInv
<1>17. DropInv'
  <2>1. SentSet' \cup AnsweredSet' = SentSet \cup AnsweredSet
    BY <1>8, <1>9, <1>12
  <2> QED
    BY <1>14, <1>15, <2>1 DEF OrderInv, DropInv
<1>18. FenceInv'
  <2>1. \A d \in Cmd : fence'[d] <= lastFence'
    BY <1>2 DEF OrderInv, FenceInv
  <2>2. SentSet' \cup completed' = SentSet \cup completed
    BY <1>8, <1>9, <1>13
  <2>3. \A d \in Cmd : fence'[d] # 0 <=> Fenced(d) /\ d \in SentSet' \cup completed'
    BY <1>2, <2>2 DEF OrderInv, FenceInv
  <2>4. /\ Len(Sent') = Len(Sent) - 1 /\ Len(Sent) \in Nat
        /\ \A k \in 1 .. Len(Sent') : Skip(k, n) \in 1 .. Len(Sent) /\ Sent'[k] = Sent[Skip(k, n)]
    <3>1. \A s \in Seq(Cmd) : \A i \in 1 .. Len(s) :
            /\ Len(RemoveAt(s, i)) = Len(s) - 1
            /\ \A k \in 1 .. Len(RemoveAt(s, i)) :
                 Skip(k, i) \in 1 .. Len(s) /\ RemoveAt(s, i)[k] = s[Skip(k, i)]
      BY RemoveFacts
    <3>2. Len(Sent) \in Nat
      BY <1>7
    <3> QED
      BY <1>4, <1>6, <1>7, <3>1, <3>2, Zenon
  <2>5. ASSUME NEW i \in 1 .. Len(Sent'), NEW j \in 1 .. Len(Sent'),
               i < j, Fenced(Sent'[i]), Fenced(Sent'[j])
        PROVE  fence'[Sent'[i]] < fence'[Sent'[j]]
    <3>1. Skip(i, n) < Skip(j, n)
      BY <1>4, <2>4, <2>5 DEF Skip
    <3>2. fence[Sent[Skip(i, n)]] < fence[Sent[Skip(j, n)]]
      BY <2>4, <2>5, <3>1 DEF OrderInv, FenceInv
    <3> QED
      BY <1>2, <2>4, <3>2
  <2>6. ASSUME NEW d \in completed', NEW e \in SentSet', Fenced(d), Timeline[d] = Timeline[e]
        PROVE  fence'[d] < fence'[e]
    <3>1. e \in SentSet /\ e # c
      BY <1>8
    <3>2. CASE d \in completed
      BY <1>2, <2>6, <3>1, <3>2 DEF OrderInv, FenceInv
    <3>3. CASE d = c
      <4>1. PICK k \in 1 .. Len(Sent) : e = Sent[k]
        BY <3>1 DEF SentSet, Elts
      <4>2. k # n
        BY <1>4, <3>1, <4>1
      <4>3. ~(k < n)
        <5> SUFFICES ASSUME k < n PROVE FALSE
          OBVIOUS
        <5>1. k \in 1 .. n - 1 /\ e = hostq[k]
          BY <1>5, <4>1
        <5>2. Timeline[c] # NoFence /\ Timeline[hostq[k]] = Timeline[c]
          BY <2>6, <3>3, <5>1 DEF Fenced
        <5> QED
          BY <1>1, <5>1, <5>2 DEF c
      <4>4. n < k
        BY <1>4, <2>4, <4>2, <4>3
      <4>5. Fenced(c) /\ Fenced(e)
        BY <2>6, <3>3 DEF Fenced
      <4>6. fence[Sent[n]] < fence[Sent[k]]
        BY <1>4, <4>1, <4>4, <4>5 DEF OrderInv, FenceInv
      <4> QED
        BY <1>2, <1>4, <3>3, <4>1, <4>6
    <3> QED
      BY <1>13, <3>2, <3>3
  <2> QED
    BY <2>1, <2>3, <2>5, <2>6 DEF FenceInv
<1>19. SignalInv'
  BY <1>2, <1>10, <1>13, <1>14 DEF OrderInv, SignalInv
<1>20. hostq' \in Seq(Cmd) /\ used' \in Seq(Cmd)
  <2>1. RemoveAt(hostq, n) \in Seq(Cmd)
    BY <1>0, RemoveFacts
  <2>2. Append(used, c) \in Seq(Cmd)
    BY <1>0, <1>3
  <2> QED
    BY <1>1, <2>1, <2>2 DEF c
<1>21. completed' \subseteq Cmd
  BY <1>0, <1>3, <1>13
<1> QED
  BY <1>16, <1>17, <1>18, <1>19, <1>20, <1>21 DEF OrderInv
-----------------------------------------------------------------------------
(* The sleeping host. *)
LEMMA KickFrame ==
  ASSUME KickInv, UNCHANGED <<asleep, avail, pending, numAdded>>,
         \A u \in Thread : pc[u] = "doorbell" => pc'[u] = "doorbell"
  PROVE  KickInv'
  BY DEF KickInv

LEMMA KickMove ==
  ASSUME ShapeInv, KickInv, UNCHANGED <<asleep, avail, pending, numAdded>>,
         NEW t \in Thread, pc[t] # "doorbell", NEW l, Goto(t, l)
  PROVE  KickInv'
<1>1. \A u \in Thread : pc[u] = "doorbell" => pc'[u] = "doorbell"
  BY DEF ShapeInv, Goto
<1> QED
  BY <1>1, KickFrame

LEMMA KickStep ==
  ASSUME ShapeInv, KickInv, Next
  PROVE  KickInv'
<1> USE DEF hostVars, workVars, fenceVars, devVars
<1>1. ASSUME NEW t \in Thread, PoolLock(t) PROVE KickInv'
  BY <1>1, KickMove DEF PoolLock
<1>2. ASSUME NEW t \in Thread, PoolUnlock(t) PROVE KickInv'
  BY <1>2, KickMove DEF PoolUnlock
<1>3. ASSUME NEW t \in Thread, NoTable(t) PROVE KickInv'
  BY <1>3, KickMove DEF NoTable, Advance
<1>4. ASSUME NEW t \in Thread, Enter(t) PROVE KickInv'
  BY <1>4, KickMove DEF Enter, Advance
<1>5. ASSUME NEW t \in Thread, Queue(t) PROVE KickInv'
  <2> DEFINE c == Head(todo[t])
  <2>1. /\ pc[t] = "entered" /\ asleep' = asleep
        /\ avail' = Append(avail, c) /\ numAdded' = numAdded + 1 /\ pending' = pending + 1
    BY <1>5 DEF Queue, Add
  <2>2. \A u \in Thread : pc[u] = "doorbell" => pc'[u] = "doorbell"
    BY <1>5, <2>1 DEF Queue, Advance, Goto, ShapeInv
  <2>3. c \in Cmd /\ avail \in Seq(Cmd) /\ numAdded \in Nat /\ pending \in Nat
    BY <2>1, TailFacts DEF ShapeInv
  <2> HIDE DEF c
  <2>4. Len(avail') = Len(avail) + 1 /\ Len(avail) \in Nat /\ (avail = <<>> => Len(avail) = 0)
    BY <2>1, <2>3
  <2> QED
    BY <2>1, <2>2, <2>3, <2>4 DEF KickInv
<1>6. ASSUME NEW t \in Thread, QueueFull(t) PROVE KickInv'
  BY <1>6, KickMove DEF QueueFull
<1>7. ASSUME NEW t \in Thread, Wait(t) PROVE KickInv'
  BY <1>7, KickMove DEF Wait
<1>8. ASSUME NEW t \in Thread, NotifyRead(t) PROVE KickInv'
  BY <1>8, KickMove DEF NotifyRead
<1>9. ASSUME NEW t \in Thread, NotifyKick(t) PROVE KickInv'
  <2>1. /\ pc[t] = "kick" /\ UNCHANGED <<asleep, avail>>
        /\ Goto(t, IF KickNeeded THEN "doorbell" ELSE AfterNotify(t))
    BY <1>9 DEF NotifyKick
  <2>2. \A u \in Thread : pc[u] = "doorbell" => pc'[u] = "doorbell"
    BY <2>1 DEF Goto, ShapeInv
  <2>3. KickNeeded => pc'[t] = "doorbell"
    BY <2>1 DEF Goto, ShapeInv
  <2> QED
    BY <2>1, <2>2, <2>3 DEF KickInv, KickNeeded
<1>10. ASSUME NEW t \in Thread, Doorbell(t) PROVE KickInv'
  BY <1>10 DEF Doorbell, KickInv
<1>11. CASE WorkNext
  <2>1. CASE WorkWake
    <3>1. \A u \in Thread : pc[u] = "doorbell" => pc'[u] = "doorbell"
      BY <2>1 DEF WorkWake
    <3> QED
      BY <2>1, <3>1, KickFrame DEF WorkWake
  <2>2. CASE WorkStart \/ WorkReclaim \/ WorkEnable \/ WorkProcess \/ WorkFree
    BY <2>2, KickFrame DEF WorkStart, WorkReclaim, WorkEnable, WorkProcess, WorkFree
  <2> QED
    BY <1>11, <2>1, <2>2 DEF WorkNext
<1>12. CASE FreeTake
  BY <1>12, KickMove, QueueAssumption DEF FreeTake
<1>13. CASE HostRead \/ HostSleep
  BY <1>13 DEF HostRead, HostSleep, KickInv
<1>14. CASE HostComplete \/ Unplug \/ UnplugDone
  BY <1>14, KickFrame DEF HostComplete, Unplug, UnplugDone
<1> QED
  BY <1>1, <1>2, <1>3, <1>4, <1>5, <1>6, <1>7, <1>8, <1>9, <1>10, <1>11, <1>12, <1>13, <1>14
  DEF Next, ThreadNext
-----------------------------------------------------------------------------
(* The queues and the fences, over every step. *)
LEMMA OrderStep ==
  ASSUME ShapeInv, OrderInv, Next
  PROVE  OrderInv'
<1> USE DEF hostVars, workVars, fenceVars, devVars
<1>0. ASSUME UNCHANGED <<todo, hostq, avail, handled, reclaim, used, freeList, completed, freed,
                         fence, lastFence, fences, signaled>>
      PROVE  OrderInv'
  <2>1. UNCHANGED <<Sent, Answered>>
    BY <1>0 DEF Sent, Answered
  <2> QED
    BY <1>0, <2>1, Frame
<1>1. ASSUME NEW t \in Thread, PoolLock(t) \/ PoolUnlock(t) PROVE OrderInv'
  BY <1>0, <1>1 DEF PoolLock, PoolUnlock
<1>2. ASSUME NEW t \in Thread, NoTable(t) PROVE OrderInv'
  <2>1. UNCHANGED <<Sent, Answered>>
    BY <1>2 DEF NoTable, Sent, Answered
  <2>2. todo[t] # <<>>
    BY <1>2 DEF NoTable, ShapeInv
  <2> QED
    BY <1>2, <2>1, <2>2, GiveUpStep DEF NoTable
<1>3. ASSUME NEW t \in Thread, Enter(t) PROVE OrderInv'
  <2>1. CASE plugged
    BY <1>0, <1>3, <2>1 DEF Enter
  <2>2. CASE ~plugged
    <3>1. UNCHANGED <<Sent, Answered>>
      BY <1>3 DEF Enter, Sent, Answered
    <3>2. todo[t] # <<>>
      BY <1>3 DEF Enter, ShapeInv
    <3> QED
      BY <1>3, <2>2, <3>1, <3>2, GiveUpStep DEF Enter
  <2> QED
    BY <2>1, <2>2
<1>4. ASSUME NEW t \in Thread, Queue(t) PROVE OrderInv'
  <2>1. todo[t] # <<>>
    BY <1>4 DEF Queue, ShapeInv
  <2> QED
    BY <1>4, <2>1, QueueStep
<1>5. ASSUME NEW t \in Thread, QueueFull(t) \/ Wait(t) \/ NotifyRead(t) \/ NotifyKick(t) \/ Doorbell(t)
      PROVE  OrderInv'
  BY <1>0, <1>5 DEF QueueFull, Wait, NotifyRead, NotifyKick, Doorbell
<1>6. CASE WorkStart \/ WorkEnable \/ WorkWake
  BY <1>0, <1>6 DEF WorkStart, WorkEnable, WorkWake
<1>7. CASE WorkReclaim
  <2>1. CASE used = <<>>
    BY <1>0, <1>7, <2>1 DEF WorkReclaim
  <2>2. CASE used # <<>>
    <3>1. /\ reclaim' = Append(reclaim, Head(used)) /\ used' = Tail(used)
          /\ UNCHANGED <<todo, hostq, avail, handled, freeList, completed, freed,
                         fence, lastFence, fences, signaled>>
      BY <1>7, <2>2 DEF WorkReclaim
    <3> DEFINE c == Head(used)
    <3>2. /\ c \in Cmd /\ handled \in Seq(Cmd) /\ reclaim \in Seq(Cmd) /\ used \in Seq(Cmd)
          /\ handled \o reclaim \in Seq(Cmd)
      BY <2>2, TailFacts, PartFacts DEF ShapeInv
    <3>3. handled \o Append(reclaim, c) = Append(handled \o reclaim, c)
      <4>1. \A x, y \in Seq(Cmd), d \in Cmd : x \o Append(y, d) = Append(x \o y, d)
        BY ConcatAppend
      <4> QED
        BY <3>2, <4>1, Zenon
    <3>4. Append(handled \o reclaim, c) \o Tail(used) = (handled \o reclaim) \o used
      <4>1. \A x, y \in Seq(Cmd) : y # <<>> => Append(x, Head(y)) \o Tail(y) = x \o y
        BY ConcatMove
      <4> QED
        BY <2>2, <3>2, <4>1, Zenon
    <3> HIDE DEF c
    <3>5. reclaim' = Append(reclaim, c)
      BY <3>1 DEF c
    <3>6. UNCHANGED <<Sent, Answered>>
      BY <3>1, <3>3, <3>4, <3>5 DEF Sent, Answered
    <3> QED
      BY <3>1, <3>6, Frame
  <2> QED
    BY <2>1, <2>2
<1>8. CASE WorkProcess
  BY <1>8, ProcessStep
<1>9. CASE WorkFree
  BY <1>9, FreeStep
<1>10. CASE FreeTake
  BY <1>10, TakeStep
<1>11. CASE HostRead
  <2>1. /\ avail # <<>> /\ hostq' = Append(hostq, Head(avail)) /\ avail' = Tail(avail)
        /\ UNCHANGED <<todo, handled, reclaim, used, freeList, completed, freed,
                       fence, lastFence, fences, signaled>>
    BY <1>11 DEF HostRead
  <2>2. Append(hostq, Head(avail)) \o Tail(avail) = hostq \o avail
    BY <2>1, ConcatMove DEF ShapeInv
  <2>3. UNCHANGED <<Sent, Answered>>
    BY <2>1, <2>2 DEF Sent, Answered
  <2> QED
    BY <2>1, <2>3, Frame
<1>12. CASE HostSleep \/ Unplug \/ UnplugDone
  BY <1>0, <1>12 DEF HostSleep, Unplug, UnplugDone
<1>13. CASE HostComplete
  BY <1>13, CompleteStep
<1> QED
  BY <1>1, <1>2, <1>3, <1>4, <1>5, <1>6, <1>7, <1>8, <1>9, <1>10, <1>11, <1>12, <1>13
  DEF Next, ThreadNext, WorkNext
-----------------------------------------------------------------------------
(* The shape of the state, over every step: first the threads' part of it. *)
ThreadsInv ==
  /\ pc \in [Thread -> Labels]
  /\ todo \in [Thread -> Seq(Cmd)]
  /\ \A t \in Thread : todo[t] = <<>> => pc[t] \in {"idle", "notify", "kick", "doorbell"}
  /\ \A t \in Thread : pc[t] = "idle" => todo[t] = <<>>

DataInv ==
  /\ numAdded \in Nat /\ pending \in Nat /\ lastFence \in Nat
  /\ fence \in [Cmd -> Nat]
  /\ fences \subseteq Cmd /\ completed \subseteq Cmd /\ freed \subseteq Cmd
  /\ reclaim \in Seq(Cmd) /\ handled \in Seq(Cmd) /\ freeList \in Seq(Cmd)
  /\ avail \in Seq(Cmd) /\ hostq \in Seq(Cmd) /\ used \in Seq(Cmd)
  /\ asleep \in BOOLEAN

LEMMA ShapeParts == ShapeInv <=> ThreadsInv /\ DataInv
  BY DEF ShapeInv, ThreadsInv, DataInv

LEMMA MoveThreads ==
  ASSUME ThreadsInv, NEW t \in Thread, NEW l \in Labels \ {"idle"}, Goto(t, l), todo' = todo,
         todo[t] # <<>> \/ l \in {"kick", "doorbell"}
  PROVE  ThreadsInv'
<1>1. pc' \in [Thread -> Labels] /\ pc'[t] = l /\ \A u \in Thread : u # t => pc'[u] = pc[u]
  BY DEF ThreadsInv, Goto
<1> QED
  BY <1>1 DEF ThreadsInv

LEMMA LeaveThreads ==
  ASSUME ThreadsInv, NEW t \in Thread, Goto(t, AfterNotify(t)), todo' = todo
  PROVE  ThreadsInv'
<1>1. CASE todo[t] = <<>>
  <2>1. /\ pc' \in [Thread -> Labels] /\ pc'[t] = "idle"
        /\ \A u \in Thread : u # t => pc'[u] = pc[u]
    BY <1>1 DEF ThreadsInv, Goto, AfterNotify, Labels
  <2> QED
    BY <1>1, <2>1 DEF ThreadsInv
<1>2. CASE todo[t] # <<>>
  BY <1>2, MoveThreads DEF AfterNotify, Labels
<1> QED
  BY <1>1, <1>2

LEMMA AdvanceThreads ==
  ASSUME ThreadsInv, NEW t \in Thread, todo[t] # <<>>, Advance(t)
  PROVE  ThreadsInv' /\ Head(todo[t]) \in Cmd
<1>1. todo[t] \in Seq(Cmd)
  BY DEF ThreadsInv
<1>2. Tail(todo[t]) \in Seq(Cmd) /\ Head(todo[t]) \in Cmd
  BY <1>1, TailFacts
<1> DEFINE r == Tail(todo[t])
<1>3. /\ todo' = [todo EXCEPT ![t] = r]
      /\ pc' = [pc EXCEPT ![t] = IF r = <<>> THEN "notify" ELSE "start"]
  BY DEF Advance, Goto
<1> HIDE DEF r
<1>4. r \in Seq(Cmd)
  BY <1>2 DEF r
<1>5. /\ todo' \in [Thread -> Seq(Cmd)] /\ todo'[t] = r
      /\ \A u \in Thread : u # t => todo'[u] = todo[u]
  BY <1>3, <1>4 DEF ThreadsInv
<1>6. /\ pc' \in [Thread -> Labels] /\ pc'[t] = (IF r = <<>> THEN "notify" ELSE "start")
      /\ \A u \in Thread : u # t => pc'[u] = pc[u]
  BY <1>3 DEF ThreadsInv, Labels
<1>7. ThreadsInv'
  BY <1>5, <1>6 DEF ThreadsInv
<1> QED
  BY <1>2, <1>7

LEMMA ThreadsStep ==
  ASSUME ShapeInv, OrderInv, Next
  PROVE  ThreadsInv'
<1>0. ThreadsInv
  BY ShapeParts
<1>a. ASSUME UNCHANGED <<pc, todo>> PROVE ThreadsInv'
  BY <1>0, <1>a DEF ThreadsInv
<1>1. ASSUME NEW t \in Thread, PoolLock(t) PROVE ThreadsInv'
  <2>1. Goto(t, "pool") /\ todo' = todo /\ todo[t] # <<>>
    BY <1>0, <1>1 DEF PoolLock, ThreadsInv
  <2> QED
    BY <1>0, <2>1, MoveThreads DEF Labels
<1>2. ASSUME NEW t \in Thread, PoolUnlock(t) PROVE ThreadsInv'
  <2>1. Goto(t, "call") /\ todo' = todo /\ todo[t] # <<>>
    BY <1>0, <1>2 DEF PoolUnlock, ThreadsInv
  <2> QED
    BY <1>0, <2>1, MoveThreads DEF Labels
<1>3. ASSUME NEW t \in Thread, NoTable(t) PROVE ThreadsInv'
  <2>1. Advance(t) /\ todo[t] # <<>>
    BY <1>0, <1>3 DEF NoTable, ThreadsInv
  <2> QED
    BY <1>0, <2>1, AdvanceThreads
<1>4. ASSUME NEW t \in Thread, Enter(t) PROVE ThreadsInv'
  <2>1. todo[t] # <<>>
    BY <1>0, <1>4 DEF Enter, ThreadsInv
  <2>2. Advance(t) \/ (Goto(t, "entered") /\ todo' = todo)
    BY <1>4 DEF Enter
  <2> QED
    BY <1>0, <2>1, <2>2, MoveThreads, AdvanceThreads DEF Labels
<1>5. ASSUME NEW t \in Thread, Queue(t) PROVE ThreadsInv'
  <2>1. Advance(t) /\ todo[t] # <<>>
    BY <1>0, <1>5 DEF Queue, ThreadsInv
  <2> QED
    BY <1>0, <2>1, AdvanceThreads
<1>6. ASSUME NEW t \in Thread, QueueFull(t) PROVE ThreadsInv'
  <2>1. Goto(t, "notify") /\ todo' = todo /\ todo[t] # <<>>
    BY <1>0, <1>6 DEF QueueFull, ThreadsInv
  <2> QED
    BY <1>0, <2>1, MoveThreads DEF Labels
<1>7. ASSUME NEW t \in Thread, Wait(t) PROVE ThreadsInv'
  <2>1. todo' = todo /\ todo[t] # <<>> /\ (Goto(t, "entered") \/ Goto(t, "sleep"))
    BY <1>0, <1>7 DEF Wait, ThreadsInv
  <2> QED
    BY <1>0, <2>1, MoveThreads DEF Labels
<1>8. ASSUME NEW t \in Thread, NotifyRead(t) PROVE ThreadsInv'
  <2>1. todo' = todo /\ (Goto(t, "kick") \/ Goto(t, AfterNotify(t)))
    BY <1>8 DEF NotifyRead
  <2> QED
    BY <1>0, <2>1, MoveThreads, LeaveThreads DEF Labels
<1>9. ASSUME NEW t \in Thread, NotifyKick(t) PROVE ThreadsInv'
  <2>1. todo' = todo /\ (Goto(t, "doorbell") \/ Goto(t, AfterNotify(t)))
    BY <1>9 DEF NotifyKick
  <2> QED
    BY <1>0, <2>1, MoveThreads, LeaveThreads DEF Labels
<1>10. ASSUME NEW t \in Thread, Doorbell(t) PROVE ThreadsInv'
  BY <1>0, <1>10, LeaveThreads DEF Doorbell
<1>11. CASE WorkStart \/ WorkReclaim \/ WorkEnable \/ WorkProcess \/ WorkFree
  BY <1>a, <1>11 DEF WorkStart, WorkReclaim, WorkEnable, WorkProcess, WorkFree
<1>12. CASE WorkWake
  BY <1>0, <1>12 DEF WorkWake, ThreadsInv, Labels
<1>13. CASE FreeTake
  <2>1. todo' \in [Thread -> Seq(Cmd)]
    BY <1>13, TakeStep
  <2>2. /\ pc' = [pc EXCEPT ![FreeWork] = "start"] /\ FreeWork \in Thread
        /\ todo' = [todo EXCEPT ![FreeWork] = <<Drops[Head(freeList)]>>]
    BY <1>13, QueueAssumption DEF FreeTake, Goto
  <2>3. /\ pc' \in [Thread -> Labels] /\ pc'[FreeWork] = "start" /\ todo'[FreeWork] # <<>>
        /\ \A u \in Thread : u # FreeWork => pc'[u] = pc[u] /\ todo'[u] = todo[u]
    BY <1>0, <2>2 DEF ThreadsInv, Labels
  <2> QED
    BY <1>0, <2>1, <2>3 DEF ThreadsInv
<1>14. CASE HostRead \/ HostSleep \/ HostComplete \/ Unplug \/ UnplugDone
  BY <1>a, <1>14 DEF HostRead, HostSleep, HostComplete, Unplug, UnplugDone
<1> QED
  BY <1>1, <1>2, <1>3, <1>4, <1>5, <1>6, <1>7, <1>8, <1>9, <1>10, <1>11, <1>12, <1>13, <1>14
  DEF Next, ThreadNext, WorkNext

LEMMA DataStep ==
  ASSUME ShapeInv, OrderInv, Next
  PROVE  DataInv'
<1> USE DEF hostVars, workVars, fenceVars, devVars
<1>0. ThreadsInv /\ DataInv
  BY ShapeParts
<1>a. ASSUME UNCHANGED <<numAdded, pending, fenceVars, reclaim, handled, freed, freeList, hostVars>>
      PROVE  DataInv'
  BY <1>0, <1>a DEF DataInv
<1>b. ASSUME NEW t \in Thread, todo[t] # <<>> PROVE Head(todo[t]) \in Cmd
  BY <1>0, <1>b, TailFacts DEF ThreadsInv
<1>1. ASSUME NEW t \in Thread,
             PoolLock(t) \/ PoolUnlock(t) \/ NoTable(t) \/ QueueFull(t) \/ Wait(t) \/ NotifyRead(t)
      PROVE  DataInv'
  BY <1>a, <1>1 DEF PoolLock, PoolUnlock, NoTable, QueueFull, Wait, NotifyRead
<1>2. ASSUME NEW t \in Thread, Enter(t) PROVE DataInv'
  <2>1. todo[t] # <<>>
    BY <1>0, <1>2 DEF Enter, ThreadsInv
  <2>2. freed' \subseteq Cmd
    BY <1>0, <1>2, <1>b, <2>1 DEF Enter, DataInv
  <2> QED
    BY <1>0, <1>2, <2>2 DEF Enter, DataInv
<1>3. ASSUME NEW t \in Thread, Queue(t) PROVE DataInv'
  <2> DEFINE c == Head(todo[t])
  <2>1. todo[t] # <<>>
    BY <1>0, <1>3 DEF Queue, ThreadsInv
  <2>2. c \in Cmd
    BY <1>b, <2>1
  <2>3. /\ avail' = Append(avail, c) /\ numAdded' = numAdded + 1 /\ pending' = pending + 1
        /\ Emit(c)
        /\ UNCHANGED <<completed, freed, reclaim, handled, freeList, hostq, used, asleep>>
    BY <1>3 DEF Queue, Add
  <2> HIDE DEF c
  <2>4. lastFence' \in Nat /\ fence' \in [Cmd -> Nat] /\ fences' \subseteq Cmd
    <3>1. lastFence \in Nat /\ fence \in [Cmd -> Nat] /\ fences \subseteq Cmd
      BY <1>0 DEF DataInv
    <3>2. CASE Timeline[c] = NoFence /\ UNCHANGED <<lastFence, fence, fences>>
      BY <3>1, <3>2
    <3>3. CASE /\ lastFence' = lastFence + 1
               /\ fence' = [fence EXCEPT ![c] = lastFence + 1]
               /\ fences' = fences \cup {c}
      BY <2>2, <3>1, <3>3
    <3> QED
      BY <2>3, <3>2, <3>3 DEF Emit
  <2>5. avail' \in Seq(Cmd)
    BY <1>0, <2>2, <2>3 DEF DataInv
  <2> QED
    BY <1>0, <2>3, <2>4, <2>5 DEF DataInv
<1>4. ASSUME NEW t \in Thread, NotifyKick(t) PROVE DataInv'
  BY <1>0, <1>4 DEF NotifyKick, DataInv
<1>5. ASSUME NEW t \in Thread, Doorbell(t) PROVE DataInv'
  BY <1>0, <1>5 DEF Doorbell, DataInv
<1>6. CASE WorkStart \/ WorkEnable \/ WorkWake
  BY <1>a, <1>6 DEF WorkStart, WorkEnable, WorkWake
<1>7. CASE WorkReclaim
  <2>1. reclaim' \in Seq(Cmd) /\ used' \in Seq(Cmd)
    <3>1. reclaim \in Seq(Cmd) /\ used \in Seq(Cmd)
      BY <1>0 DEF DataInv
    <3>2. CASE used = <<>>
      BY <1>7, <3>1, <3>2 DEF WorkReclaim
    <3>3. CASE used # <<>>
      <4>1. Head(used) \in Cmd /\ Tail(used) \in Seq(Cmd)
        BY <3>1, <3>3
      <4>2. reclaim' = Append(reclaim, Head(used)) /\ used' = Tail(used)
        BY <1>7, <3>3 DEF WorkReclaim
      <4> QED
        BY <3>1, <4>1, <4>2
    <3> QED
      BY <3>2, <3>3
  <2> QED
    BY <1>0, <1>7, <2>1 DEF WorkReclaim, DataInv
<1>8. CASE WorkProcess
  <2>1. reclaim' \in Seq(Cmd) /\ handled' \in Seq(Cmd)
    BY <1>0, <1>8 DEF WorkProcess, DataInv
  <2>2. fences' \subseteq Cmd
    BY <1>0, <1>8 DEF WorkProcess, DataInv
  <2> QED
    BY <1>0, <1>8, <2>1, <2>2 DEF WorkProcess, DataInv
<1>9. CASE WorkFree
  <2>1. handled' \in Seq(Cmd) /\ freeList' \in Seq(Cmd) /\ freed' \subseteq Cmd
    <3>1. CASE handled = <<>>
      BY <1>0, <1>9, <3>1 DEF WorkFree, DataInv
    <3>2. CASE handled # <<>>
      <4>1. Head(handled) \in Cmd /\ Tail(handled) \in Seq(Cmd)
        BY <1>0, <3>2, TailFacts DEF DataInv
      <4> QED
        <5>1. /\ freeList' = IF Drops[Head(handled)] = NoCmd THEN freeList
                             ELSE Append(freeList, Head(handled))
              /\ freed' = freed \cup {Head(handled)} /\ handled' = Tail(handled)
          BY <1>9, <3>2 DEF WorkFree
        <5>2. freeList \in Seq(Cmd) /\ freed \subseteq Cmd
          BY <1>0 DEF DataInv
        <5> QED
          BY <4>1, <5>1, <5>2
    <3> QED
      BY <3>1, <3>2
  <2> QED
    BY <1>0, <1>9, <2>1 DEF WorkFree, DataInv
<1>10. CASE FreeTake
  <2>1. freeList' \in Seq(Cmd)
    BY <1>0, <1>10 DEF FreeTake, DataInv
  <2> QED
    BY <1>0, <1>10, <2>1 DEF FreeTake, DataInv
<1>11. CASE HostRead
  <2>1. hostq' \in Seq(Cmd) /\ avail' \in Seq(Cmd)
    BY <1>0, <1>11 DEF HostRead, DataInv
  <2> QED
    BY <1>0, <1>11, <2>1 DEF HostRead, DataInv
<1>12. CASE HostSleep \/ Unplug \/ UnplugDone
  BY <1>0, <1>12 DEF HostSleep, Unplug, UnplugDone, DataInv
<1>13. CASE HostComplete
  <2>1. hostq' \in Seq(Cmd) /\ used' \in Seq(Cmd) /\ completed' \subseteq Cmd
    BY <1>13, CompleteStep
  <2> QED
    BY <1>0, <1>13, <2>1 DEF HostComplete, DataInv
<1> QED
  BY <1>1, <1>2, <1>3, <1>4, <1>5, <1>6, <1>7, <1>8, <1>9, <1>10, <1>11, <1>12, <1>13
  DEF Next, ThreadNext, WorkNext
-----------------------------------------------------------------------------
LEMMA ShapeNext ==
  ASSUME ThreadsInv', DataInv'
  PROVE  ShapeInv'
  BY DEF ShapeInv, ThreadsInv, DataInv

LEMMA InitInv == Init => IInv
<1> SUFFICES ASSUME Init PROVE IInv
  OBVIOUS
<1> USE DEF Init
<1>1. ShapeInv
  BY QueueAssumption DEF ShapeInv, Labels
<1>2. /\ Sent = <<>> /\ Answered = <<>> /\ Elts(<<>>) = {} /\ Distinct(<<>>) /\ Len(Sent) = 0
  BY DEF Sent, Answered, Elts, Distinct
<1>3. SentSet = {} /\ AnsweredSet = {} /\ HandledSet = {} /\ FreeSet = {} /\ Spent = {}
  BY <1>2 DEF SentSet, AnsweredSet, HandledSet, FreeSet, Spent
<1>4. OnceInv
  <2>1. OnceIn(todo)
    BY QueueAssumption DEF OnceIn
  <2> QED
    BY <1>2, <1>3, <2>1 DEF OnceInv
<1>5. DropInv
  <2> SUFFICES ASSUME NEW c \in Waiting PROVE Drops[c] \notin Waiting
    BY <1>3 DEF DropInv
  <2>1. c \in Cmd
    BY <1>1, PartFacts
  <2>2. \A x : x \in Waiting <=> \E t \in Thread : x \in Elts(Script[t])
    BY QueueAssumption, WaitFacts DEF Waiting
  <2>3. \A t \in Thread : Drops[c] \notin Elts(Script[t])
    BY <2>1, QueueAssumption DEF Elts
  <2> QED
    BY <2>2, <2>3
<1>6. FenceInv
  BY <1>2, <1>3 DEF FenceInv
<1>7. SignalInv
  BY <1>3 DEF SignalInv
<1>8. KickInv
  BY DEF KickInv
<1> QED
  BY <1>1, <1>4, <1>5, <1>6, <1>7, <1>8 DEF IInv, OrderInv

LEMMA StepInv == IInv /\ [Next]_vars => IInv'
<1> SUFFICES ASSUME IInv, [Next]_vars PROVE IInv'
  OBVIOUS
<1>1. CASE Next
  BY <1>1, ThreadsStep, DataStep, OrderStep, KickStep, ShapeNext DEF IInv
<1>2. CASE UNCHANGED vars
  <2>1. UNCHANGED <<pc, todo>> /\ UNCHANGED <<numAdded, pending, lastFence, fence, fences,
           reclaim, handled, freed, freeList, avail, hostq, used, asleep, completed, signaled>>
    BY <1>2 DEF vars
  <2>2. ShapeInv'
    BY <2>1 DEF IInv, ShapeInv
  <2>3. UNCHANGED <<Sent, Answered>>
    BY <2>1 DEF Sent, Answered
  <2>4. OrderInv'
    BY <2>1, <2>3, Frame DEF IInv
  <2>5. KickInv'
    BY <2>1 DEF IInv, KickInv
  <2> QED
    BY <2>2, <2>4, <2>5 DEF IInv
<1> QED
  BY <1>1, <1>2

(***************************************************************************)
(* A fence is signaled only after the host carried out its command, also   *)
(* where the answer to a later fence of its context signals it, and before *)
(* a fenced command's buffer is freed its fence is signaled: whatever the  *)
(* batches, the contexts, the ring's size and the order of the answers.    *)
(***************************************************************************)
THEOREM FenceSafety == Spec => []FenceTruthful
<1>1. IInv => FenceTruthful
  BY DEF IInv, OrderInv, SignalInv, FenceTruthful, Fenced
<1> QED
  BY InitInv, StepInv, <1>1, PTL DEF Spec

(***************************************************************************)
(* No command is stranded next to a sleeping host: virtio_gpu_notify may   *)
(* look at pending_commands without qlock and ring the doorbell after the  *)
(* unlock, whatever else is queued, kicked or read meanwhile.              *)
(***************************************************************************)
THEOREM NotifySafety == Spec => []NoneStranded
<1>1. IInv => NoneStranded
  BY DEF IInv, KickInv, NoneStranded
<1> QED
  BY InitInv, StepInv, <1>1, PTL DEF Spec
=============================================================================
