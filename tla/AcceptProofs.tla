---------------------------- MODULE AcceptProofs ----------------------------
(***************************************************************************)
(* Proofs about the accept transport and the Resource Manager client, for  *)
(* any number of addresses, parcels, request buffers and queue entries,    *)
(* and any modulus of gg_seq.                                              *)
(***************************************************************************)
EXTENDS AcceptTransport, WellFoundedInduction, TLAPS

Processing == work \in {"dispatch", "rpc", "complete"}

(* Who calls, what for, and that vga_remove and the work never both do.    *)
ShapeInv ==
  /\ work = "rpc" <=> rpc[Work] # "idle"
  /\ rpc[Remove] # "idle" =>
       /\ dev = "cancelled" /\ accepted # <<>>
       /\ msg[Remove] = [op |-> "RELEASE", gpa |-> accepted[1].gpa,
                         handle |-> accepted[1].handle]
  /\ dev # "live" => ~irq
  /\ dev \in {"cancelled", "freed"} => work = "idle" /\ ~pending
  /\ \A c \in Client : ggLock = c <=> rpc[c] = "poll"
  /\ work = "rpc" =>
       /\ msg[Work].op = cur.op /\ msg[Work].gpa = cur.gpa
       /\ cur.op = "ACCEPT" => msg[Work].handle = cur.handle
       /\ cur.op = "RELEASE" =>
            Entries(cur.gpa) # {} /\ msg[Work].handle = accepted[FirstEntry(cur.gpa)].handle

(* Nothing about a parcel is ever sent, recorded or done at an address     *)
(* other than the one it was made for.                                     *)
HomeInv ==
  /\ \A i \in 1 .. Len(accepted) : Home[accepted[i].handle] = accepted[i].gpa
  /\ \A c \in Client : rpc[c] # "idle" => Home[msg[c].handle] = msg[c].gpa
  /\ \A i \in 1 .. Len(tx) : Home[tx[i].req.handle] = tx[i].req.gpa
  /\ \A g \in Gpa : stage2[g] # None => Home[stage2[g]] = g

(* What a granted request leaves at its address.                           *)
Done(r) == IF r.op = "ACCEPT" THEN stage2[r.gpa] # None ELSE stage2[r.gpa] = None

IsReply(i) == rx[i].type = "REPLY"

(* The queues are in order: the request of the call under way is the last  *)
(* one sent, and when its reply is there, everything sent was served.      *)
CallInv ==
  /\ \A c \in Client : rpc[c] = "poll" => own[c]
  /\ ~wrapped => \A c \in Client : rpc[c] = "done" => own[c]
  /\ ~wrapped => \A c \in Client : rpc[c] = "poll" =>
       /\ \A i \in 1 .. Len(tx) :
            tx[i].seq = ggSeq => i = Len(tx) /\ tx[i].live /\ tx[i].req = msg[c]
       /\ \A i \in 1 .. Len(rx) :
            IsReply(i) /\ rx[i].seq = ggSeq =>
              rx[i].live /\ tx = <<>> /\ (~rx[i].err => Done(msg[c]))
  /\ ~wrapped => \A c \in Client :
       rpc[c] = "done" /\ out[c] = "OK" => tx = <<>> /\ Done(msg[c])

(* While the device lives, an address is busy in one place only.           *)
BusyInv ==
  /\ \A i \in 1 .. Len(reqq) : view[reqq[i].gpa] = "busy"
  /\ \A i \in 1 .. Len(comps) : view[comps[i].req.gpa] = "busy"
  /\ Processing => view[cur.gpa] = "busy"
  /\ \A i, j \in 1 .. Len(reqq) : i # j => reqq[i].gpa # reqq[j].gpa
  /\ \A i, j \in 1 .. Len(comps) : i # j => comps[i].req.gpa # comps[j].req.gpa
  /\ \A i \in 1 .. Len(reqq) : \A j \in 1 .. Len(comps) : reqq[i].gpa # comps[j].req.gpa
  /\ Processing => /\ \A i \in 1 .. Len(reqq) : reqq[i].gpa # cur.gpa
                   /\ \A i \in 1 .. Len(comps) : comps[i].req.gpa # cur.gpa

(* No request for the address is still to be served.                       *)
Quiet(g) == \A i \in 1 .. Len(tx) : tx[i].req.gpa # g

(* What is said about an address, from the result of the call to what the  *)
(* host believes, is so and stays so.                                      *)
TruthInv ==
  /\ \A g \in Gpa : view[g] = "out" => Quiet(g) /\ stage2[g] = None
  /\ \A g \in Gpa : view[g] = "in" => Quiet(g) /\ stage2[g] # None
  /\ \A i \in 1 .. Len(comps) :
       comps[i].ok => /\ comps[i].req.op # "BAD"
                      /\ Quiet(comps[i].req.gpa) /\ Done(comps[i].req)
  /\ work = "complete" /\ ret = "OK" => cur.op # "BAD" /\ Quiet(cur.gpa) /\ Done(cur)

(* Until a call times out, the queues hold the one call under way, if any. *)
CleanInv ==
  /\ ~wrapped
  /\ ggLock = Nobody => tx = <<>> /\ \A i \in 1 .. Len(rx) : ~IsReply(i)
  /\ tx # <<>> => /\ Len(tx) = 1 /\ tx[1].seq = ggSeq
                  /\ \A c \in Client : rpc[c] = "poll" => tx[1].req = msg[c]
                  /\ \A i \in 1 .. Len(rx) : ~IsReply(i)
  /\ \A i, j \in 1 .. Len(rx) : IsReply(i) /\ IsReply(j) => i = j
  /\ \A i \in 1 .. Len(rx) : IsReply(i) => rx[i].seq = ggSeq

Pair(r)   == [gpa |-> r.gpa, handle |-> r.handle]
Recorded  == {accepted[i] : i \in 1 .. Len(accepted)}
MapIs(S)  == \A g \in Gpa, h \in Handle : stage2[g] = h <=> [gpa |-> g, handle |-> h] \in S

(* The RM has granted the request the client is still to hear of.          *)
Granting(c) ==
  \/ rpc[c] = "done" /\ out[c] = "OK"
  \/ rpc[c] = "poll" /\ \E i \in 1 .. Len(rx) : IsReply(i) /\ ~rx[i].err

(* Until a call times out: one entry per address, and the mappings are the *)
(* table, or the table as the call under way will leave it. A RELEASE of a *)
(* recorded parcel is always granted.                                      *)
TableInv ==
  /\ \A i, j \in 1 .. Len(accepted) : accepted[i].gpa = accepted[j].gpa => i = j
  /\ (\A c \in Client : ~Granting(c)) => MapIs(Recorded)
  /\ \A c \in Client : Granting(c) =>
       IF msg[c].op = "ACCEPT"
       THEN /\ \A i \in 1 .. Len(accepted) : accepted[i].gpa # msg[c].gpa
            /\ MapIs(Recorded \cup {Pair(msg[c])})
       ELSE MapIs(Recorded \ {Pair(msg[c])})
  /\ \A c \in Client : msg[c].op = "RELEASE" =>
       /\ rpc[c] = "poll" => \A i \in 1 .. Len(rx) : IsReply(i) => ~rx[i].err
       /\ rpc[c] = "done" => out[c] = "OK"

IInv ==
  /\ TypeOK
  /\ BuffersConserved
  /\ ShapeInv
  /\ HomeInv
  /\ CallInv
  /\ dev = "live" => BusyInv
  /\ dev = "live" /\ ~wrapped => TruthInv
  /\ ~expired => CleanInv
  /\ ~expired => TableInv
-----------------------------------------------------------------------------
LEMMA TailFacts ==
  ASSUME NEW S, NEW q \in Seq(S), q # <<>>
  PROVE  /\ Head(q) = q[1] /\ q[1] \in S /\ 1 \in 1 .. Len(q)
         /\ Tail(q) \in Seq(S) /\ Len(q) \in Nat
         /\ Len(Tail(q)) = Len(q) - 1
         /\ \A n \in 1 .. Len(Tail(q)) :
              n + 1 \in 1 .. Len(q) /\ Tail(q)[n] = q[n + 1]
  OBVIOUS

LEMMA AppendFacts ==
  ASSUME NEW S, NEW q \in Seq(S), NEW c \in S
  PROVE  /\ Append(q, c) \in Seq(S) /\ Len(q) \in Nat
         /\ Len(Append(q, c)) = Len(q) + 1
         /\ Append(q, c)[Len(q) + 1] = c
         /\ \A n \in 1 .. Len(q) : Append(q, c)[n] = q[n]
         /\ \A n \in 1 .. Len(Append(q, c)) :
              \/ n = Len(q) + 1 /\ Append(q, c)[n] = c
              \/ n \in 1 .. Len(q) /\ Append(q, c)[n] = q[n]
  OBVIOUS

(* Deleting entry i leaves the others, in their order. *)
LEMMA WithoutFacts ==
  ASSUME NEW S, NEW s \in Seq(S), NEW i \in 1 .. Len(s)
  PROVE  /\ Without(s, i) \in Seq(S) /\ Len(s) \in Nat
         /\ Len(Without(s, i)) = Len(s) - 1
         /\ \A n \in 1 .. Len(s) - 1 :
              Without(s, i)[n] = IF n < i THEN s[n] ELSE s[n + 1]
<1> DEFINE a == SubSeq(s, 1, i - 1)
           b == SubSeq(s, i + 1, Len(s))
<1>1. /\ a \in Seq(S) /\ Len(a) = i - 1
      /\ \A n \in 1 .. i - 1 : a[n] = s[n]
  OBVIOUS
<1>2. /\ b \in Seq(S) /\ Len(b) = Len(s) - i
      /\ \A n \in 1 .. Len(s) - i : b[n] = s[i + n]
  OBVIOUS
<1>3. Len(s) \in Nat /\ i \in Nat /\ 1 <= i /\ i <= Len(s)
  OBVIOUS
<1> HIDE DEF a, b
<1>4. a \in Seq(S) /\ b \in Seq(S)
  BY <1>1, <1>2
<1>5. /\ a \o b \in Seq(S) /\ Len(a \o b) = Len(a) + Len(b)
      /\ \A n \in 1 .. Len(a) : (a \o b)[n] = a[n]
      /\ \A n \in Len(a) + 1 .. Len(a) + Len(b) : (a \o b)[n] = b[n - Len(a)]
  BY <1>4
<1>6. Len(a \o b) = Len(s) - 1
  BY <1>1, <1>2, <1>3, <1>5
<1>7. ASSUME NEW n \in 1 .. Len(s) - 1
      PROVE  (a \o b)[n] = IF n < i THEN s[n] ELSE s[n + 1]
  <2>1. CASE n < i
    BY <1>1, <1>3, <1>5, <2>1
  <2>2. CASE n >= i
    <3>1. n - (i - 1) \in 1 .. Len(s) - i /\ i + (n - (i - 1)) = n + 1
      BY <1>3, <2>2
    <3>2. (a \o b)[n] = b[n - (i - 1)]
      <4>1. n \in Len(a) + 1 .. Len(a) + Len(b)
        BY <1>1, <1>2, <1>3, <2>2
      <4> QED
        BY <1>1, <1>5, <4>1
    <3>3. b[n - (i - 1)] = s[n + 1]
      BY <1>2, <3>1
    <3> QED
      BY <1>3, <2>2, <3>2, <3>3
  <2>3. n < i \/ n >= i
    BY <1>3
  <2> QED
    BY <2>1, <2>2, <2>3
<1> QED
  BY <1>3, <1>5, <1>6, <1>7, Zenon DEF Without, a, b

LEMMA Constants ==
  /\ Work \in Client /\ Remove \in Client /\ Work # Remove
  /\ \A c \in Client : c = Work \/ c = Remove
  /\ Nobody # Work /\ Nobody # Remove
  /\ NoRequest \in Request
  /\ NoWork \in HostRequest
<1>1. PICK h \in Handle : TRUE
  BY RmAssumption
<1>2. [op |-> "BAD", handle |-> h, gpa |-> Home[h]] \in HostRequest
  BY <1>1, TransportAssumption DEF HostRequest
<1>3. \E r \in HostRequest : r.op = "BAD"
  BY <1>2
<1>4. NoWork \in HostRequest
  BY <1>3 DEF NoWork
<1>5. [op |-> "ACCEPT", handle |-> h, gpa |-> Home[h]] \in Request
  BY <1>1, TransportAssumption DEF Request, Op
<1>6. NoRequest \in Request
  BY <1>5 DEF NoRequest
<1> QED
  BY <1>4, <1>6, TransportAssumption, RmAssumption

LEMMA RequestFacts ==
  ASSUME NEW r \in HostRequest
  PROVE  /\ r.gpa \in Gpa /\ r.handle \in Handle /\ Home[r.handle] = r.gpa
         /\ r.op \in {"ACCEPT", "RELEASE", "BAD"}
         /\ r.op # "BAD" => r \in Request
  BY DEF HostRequest, Request, Op

LEMMA ElementOf ==
  ASSUME NEW S, NEW q \in Seq(S)
  PROVE  \A n \in 1 .. Len(q) : q[n] \in S
  OBVIOUS

(* The entries of the five queues and lists. *)
LEMMA Elements ==
  ASSUME TypeOK
  PROVE  /\ \A n \in 1 .. Len(accepted) :
              accepted[n].gpa \in Gpa /\ accepted[n].handle \in Handle
         /\ \A n \in 1 .. Len(accepted) : accepted[n] = Pair(accepted[n])
         /\ \A n \in 1 .. Len(reqq) : reqq[n] \in HostRequest
         /\ \A n \in 1 .. Len(comps) : comps[n].req \in HostRequest /\ comps[n].ok \in BOOLEAN
         /\ \A n \in 1 .. Len(tx) : tx[n].req \in Request /\ tx[n].seq \in Seqs
         /\ \A n \in 1 .. Len(rx) : rx[n].seq \in Seqs
<1>1. /\ accepted \in Seq([gpa : Gpa, handle : Handle])
      /\ comps \in Seq([req : HostRequest, ok : BOOLEAN])
      /\ reqq \in Seq(HostRequest)
      /\ tx \in Seq([seq : Seqs, live : BOOLEAN, req : Request])
      /\ rx \in Seq([type : {"REPLY", "NOTIF"}, seq : Seqs, live : BOOLEAN, err : BOOLEAN])
  BY DEF TypeOK, RmTypeOK
<1>2. \A n \in 1 .. Len(accepted) : accepted[n] \in [gpa : Gpa, handle : Handle]
  BY <1>1, ElementOf, Zenon
<1>3. \A n \in 1 .. Len(comps) : comps[n] \in [req : HostRequest, ok : BOOLEAN]
  BY <1>1, ElementOf, Zenon
<1>4. \A n \in 1 .. Len(tx) : tx[n] \in [seq : Seqs, live : BOOLEAN, req : Request]
  BY <1>1, ElementOf, Zenon
<1>5. \A n \in 1 .. Len(rx) :
        rx[n] \in [type : {"REPLY", "NOTIF"}, seq : Seqs, live : BOOLEAN, err : BOOLEAN]
  BY <1>1, ElementOf, Zenon
<1>6. \A n \in 1 .. Len(reqq) : reqq[n] \in HostRequest
  BY <1>1, ElementOf, Zenon
<1>7. /\ \A n \in 1 .. Len(accepted) :
           accepted[n].gpa \in Gpa /\ accepted[n].handle \in Handle
      /\ \A n \in 1 .. Len(accepted) : accepted[n] = Pair(accepted[n])
  BY <1>2 DEF Pair
<1>8. \A n \in 1 .. Len(comps) : comps[n].req \in HostRequest /\ comps[n].ok \in BOOLEAN
  BY <1>3
<1>9. \A n \in 1 .. Len(tx) : tx[n].req \in Request /\ tx[n].seq \in Seqs
  BY <1>4
<1>10. \A n \in 1 .. Len(rx) : rx[n].seq \in Seqs
  BY <1>5
<1> QED
  BY <1>6, <1>7, <1>8, <1>9, <1>10

LEMMA LeastNat ==
  ASSUME NEW T, T \subseteq Nat, T # {}
  PROVE  \E x \in T : \A y \in T : x <= y
<1> DEFINE R == OpToRel(<, Nat)
<1>1. IsWellFoundedOn(R, Nat)
  BY NatLessThanWellFounded
<1> HIDE DEF R
<1>2. PICK x \in T : \A y \in T : <<y, x>> \notin R
  BY <1>1, WFMin
<1>3. \A y \in T : ~(y < x)
  BY <1>2 DEF R, OpToRel
<1> QED
  BY <1>2, <1>3

LEMMA FirstEntryFacts ==
  ASSUME TypeOK, NEW g \in Gpa, Entries(g) # {}
  PROVE  /\ FirstEntry(g) \in 1 .. Len(accepted)
         /\ accepted[FirstEntry(g)].gpa = g
         /\ accepted[FirstEntry(g)].handle \in Handle
         /\ \A j \in Entries(g) : FirstEntry(g) <= j
<1> DEFINE P(i) == \A j \in Entries(g) : i <= j
<1>1. Entries(g) \subseteq Nat /\ Entries(g) \subseteq 1 .. Len(accepted)
  BY DEF TypeOK, Entries
<1>2. PICK i \in Entries(g) : P(i)
  BY <1>1, LeastNat
<1> HIDE DEF P
<1>3. FirstEntry(g) \in Entries(g) /\ \A j \in Entries(g) : FirstEntry(g) <= j
  <2> DEFINE F == CHOOSE x \in Entries(g) : \A j \in Entries(g) : x <= j
  <2>1. F \in Entries(g) /\ \A j \in Entries(g) : F <= j
    BY <1>2, Zenon DEF P
  <2> QED
    BY <2>1 DEF FirstEntry
<1>4. FirstEntry(g) \in 1 .. Len(accepted) /\ accepted[FirstEntry(g)].gpa = g
  BY <1>1, <1>3, Zenon DEF Entries
<1>5. accepted[FirstEntry(g)].handle \in Handle
  BY <1>4, Elements, Zenon
<1> QED
  BY <1>3, <1>4, <1>5, Zenon
-----------------------------------------------------------------------------
TxEntry == [seq : Seqs, live : BOOLEAN, req : Request]
RxEntry == [type : {"REPLY", "NOTIF"}, seq : Seqs, live : BOOLEAN, err : BOOLEAN]

(* A timeout leaves the queues as they are, but nobody waits for them. *)
LEMMA StaleFacts ==
  ASSUME RmTypeOK
  PROVE  /\ Stale(tx) \in Seq(TxEntry) /\ Len(Stale(tx)) = Len(tx)
         /\ \A n \in 1 .. Len(tx) : /\ Stale(tx)[n].seq = tx[n].seq
                                    /\ Stale(tx)[n].req = tx[n].req
         /\ Stale(rx) \in Seq(RxEntry) /\ Len(Stale(rx)) = Len(rx)
         /\ \A n \in 1 .. Len(rx) : Stale(rx)[n].type = rx[n].type
<1>1. tx \in Seq(TxEntry) /\ rx \in Seq(RxEntry)
  BY DEF RmTypeOK, TxEntry, RxEntry
<1>2. \A n \in 1 .. Len(tx) : tx[n] \in TxEntry
  BY <1>1, ElementOf, Zenon
<1>3. \A n \in 1 .. Len(rx) : rx[n] \in RxEntry
  BY <1>1, ElementOf, Zenon
<1>4. DOMAIN tx = 1 .. Len(tx) /\ DOMAIN rx = 1 .. Len(rx) /\ Len(tx) \in Nat /\ Len(rx) \in Nat
  BY <1>1
<1>5. \A n \in 1 .. Len(tx) : /\ [tx[n] EXCEPT !.live = FALSE] \in TxEntry
                              /\ [tx[n] EXCEPT !.live = FALSE].seq = tx[n].seq
                              /\ [tx[n] EXCEPT !.live = FALSE].req = tx[n].req
  BY <1>2 DEF TxEntry
<1>6. \A n \in 1 .. Len(rx) : /\ [rx[n] EXCEPT !.live = FALSE] \in RxEntry
                              /\ [rx[n] EXCEPT !.live = FALSE].type = rx[n].type
  BY <1>3 DEF RxEntry
<1>7. /\ Stale(tx) \in Seq(TxEntry) /\ Len(Stale(tx)) = Len(tx)
      /\ \A n \in 1 .. Len(tx) : Stale(tx)[n] = [tx[n] EXCEPT !.live = FALSE]
  BY <1>4, <1>5 DEF Stale
<1>8. /\ Stale(rx) \in Seq(RxEntry) /\ Len(Stale(rx)) = Len(rx)
      /\ \A n \in 1 .. Len(rx) : Stale(rx)[n] = [rx[n] EXCEPT !.live = FALSE]
  BY <1>4, <1>6 DEF Stale
<1> QED
  BY <1>5, <1>6, <1>7, <1>8

LEMMA RmType ==
  ASSUME RmTypeOK,
         \/ \E c \in Client : \E r \in Request : Call(c, r)
         \/ \E c \in Client : RpcNext(c) \/ Return(c)
         \/ RmServe \/ RmNotify
         \/ UNCHANGED rmVars
  PROVE  RmTypeOK'
<1> USE RmAssumption
<1>1. tx \in Seq(TxEntry) /\ rx \in Seq(RxEntry) /\ Len(tx) \in Nat /\ Len(rx) \in Nat
  BY DEF RmTypeOK, TxEntry, RxEntry
<1>2. ASSUME NEW c \in Client, NEW r \in Request, Call(c, r) PROVE RmTypeOK'
  BY <1>2 DEF RmTypeOK, Call
<1>3. ASSUME NEW c \in Client, LockAndSend(c) PROVE RmTypeOK'
  <2>1. NextSeq \in Seqs
    <3>1. ggSeq \in Int /\ SeqMod \in Nat /\ SeqMod > 0
      BY DEF RmTypeOK, Seqs
    <3>2. (ggSeq + 1) % SeqMod \in 0 .. SeqMod - 1
      BY <3>1
    <3> QED
      BY <3>2 DEF NextSeq, Seqs
  <2> DEFINE m == [seq |-> NextSeq, live |-> TRUE, req |-> msg[c]]
  <2>2. m \in TxEntry
    BY <2>1 DEF TxEntry, RmTypeOK
  <2>3. tx' \in Seq(TxEntry) /\ Len(tx') <= Depth
    <3>1. \/ Len(tx) < Depth /\ tx' = Append(tx, m)
          \/ Len(tx) = Depth /\ tx' = tx
      BY <1>3 DEF LockAndSend
    <3> HIDE DEF m
    <3>2. Append(tx, m) \in Seq(TxEntry) /\ Len(Append(tx, m)) = Len(tx) + 1
      BY <1>1, <2>2, AppendFacts
    <3>3. CASE Len(tx) < Depth /\ tx' = Append(tx, m)
      <4>1. tx' \in Seq(TxEntry) /\ Len(tx') = Len(tx) + 1
        BY <3>2, <3>3, Zenon
      <4> QED
        BY <1>1, <3>3, <4>1
    <3>4. CASE Len(tx) = Depth /\ tx' = tx
      BY <1>1, <3>4
    <3> QED
      BY <3>1, <3>3, <3>4
  <2>4. wrapped' \in BOOLEAN
    BY <1>3 DEF LockAndSend, RmTypeOK, InUse
  <2> QED
    BY <1>3, <2>1, <2>3, <2>4 DEF LockAndSend, RmTypeOK, Returns, TxEntry
<1>4. ASSUME NEW c \in Client, Poll(c) PROVE RmTypeOK'
  <2>1. rx' \in Seq(RxEntry) /\ Len(rx') <= Depth /\ Head(rx) \in RxEntry
    BY <1>1, <1>4, TailFacts DEF Poll, RmTypeOK
  <2>2. Head(rx).live \in BOOLEAN /\ Errno(msg[c].op, Head(rx).err) \in Returns
    BY <2>1 DEF RxEntry, Errno, Returns
  <2> QED
    BY <1>4, <2>1, <2>2 DEF Poll, RmTypeOK, RxEntry
<1>5. ASSUME NEW c \in Client, PollTimeout(c) PROVE RmTypeOK'
  <2>1. /\ tx' \in Seq(TxEntry) /\ rx' \in Seq(RxEntry)
        /\ Len(tx') <= Depth /\ Len(rx') <= Depth
    BY <1>5, StaleFacts DEF PollTimeout, RmTypeOK
  <2> QED
    BY <1>5, <2>1 DEF PollTimeout, RmTypeOK, Returns, TxEntry, RxEntry
<1>6. ASSUME NEW c \in Client, Return(c) PROVE RmTypeOK'
  BY <1>6, Constants DEF RmTypeOK, Return, Returns
<1>7. CASE RmServe
  <2>1. PICK ok \in BOOLEAN :
          /\ stage2' = IF ok THEN Applied(Head(tx).req) ELSE stage2
          /\ rx' = Append(rx, [type |-> "REPLY", seq |-> Head(tx).seq,
                               live |-> Head(tx).live, err |-> ~ok])
    BY <1>7 DEF RmServe
  <2>2. Head(tx) \in TxEntry /\ tx' \in Seq(TxEntry) /\ Len(tx') <= Depth
    BY <1>1, <1>7, TailFacts DEF RmServe, RmTypeOK
  <2>3. [type |-> "REPLY", seq |-> Head(tx).seq, live |-> Head(tx).live, err |-> ~ok]
          \in RxEntry
    BY <2>2 DEF TxEntry, RxEntry
  <2>4. rx' \in Seq(RxEntry) /\ Len(rx') <= Depth
    BY <1>1, <1>7, <2>1, <2>3, AppendFacts DEF RmServe, RmTypeOK
  <2>5. Head(tx).req \in Request
    BY <2>2 DEF TxEntry
  <2>6. stage2' \in [Gpa -> Handle \cup {None}]
    BY <2>1, <2>5 DEF Applied, Request, RmTypeOK
  <2> QED
    BY <1>7, <2>2, <2>4, <2>6 DEF RmServe, RmTypeOK, TxEntry, RxEntry
<1>8. CASE RmNotify
  <2>1. PICK s \in Seqs :
          rx' = Append(rx, [type |-> "NOTIF", seq |-> s, live |-> FALSE, err |-> FALSE])
    BY <1>8 DEF RmNotify
  <2>2. [type |-> "NOTIF", seq |-> s, live |-> FALSE, err |-> FALSE] \in RxEntry
    BY DEF RxEntry
  <2>3. rx' \in Seq(RxEntry) /\ Len(rx') <= Depth
    BY <1>1, <1>8, <2>1, <2>2, AppendFacts DEF RmNotify, RmTypeOK
  <2> QED
    BY <1>8, <2>3 DEF RmNotify, RmTypeOK, RxEntry
<1>9. CASE UNCHANGED rmVars
  BY <1>9 DEF rmVars, RmTypeOK
<1> QED
  BY <1>2, <1>3, <1>4, <1>5, <1>6, <1>7, <1>8, <1>9 DEF RpcNext
-----------------------------------------------------------------------------
LEMMA InitIInv == Init => IInv
<1> SUFFICES ASSUME Init PROVE IInv
  OBVIOUS
<1> USE RmAssumption, TransportAssumption, Constants DEF Init, RmInit
<1>1. TypeOK
  <2>1. ggSeq \in Seqs /\ Len(tx) <= Depth /\ Len(rx) <= Depth
    BY DEF Seqs
  <2>2. /\ tx \in Seq([seq : Seqs, live : BOOLEAN, req : Request])
        /\ rx \in Seq([type : {"REPLY", "NOTIF"}, seq : Seqs, live : BOOLEAN, err : BOOLEAN])
    OBVIOUS
  <2>3. /\ rpc \in [Client -> {"idle", "lock", "poll", "done"}]
        /\ msg \in [Client -> Request]
        /\ out \in [Client -> Returns]
        /\ own \in [Client -> BOOLEAN]
        /\ stage2 \in [Gpa -> Handle \cup {None}]
    BY DEF Returns
  <2>4. RmTypeOK
    BY <2>1, <2>2, <2>3 DEF RmTypeOK
  <2>5. bufs \in 0 .. NumBufs /\ cur \in HostRequest
    OBVIOUS
  <2>6. /\ reqq \in Seq(HostRequest)
        /\ accepted \in Seq([gpa : Gpa, handle : Handle])
        /\ comps \in Seq([req : HostRequest, ok : BOOLEAN])
    OBVIOUS
  <2>7. view \in [Gpa -> {"out", "in", "busy", "unknown"}]
    OBVIOUS
  <2> QED
    BY <2>4, <2>5, <2>6, <2>7 DEF TypeOK, Returns
<1>2. BuffersConserved
  BY DEF BuffersConserved
<1>3. ShapeInv
  BY DEF ShapeInv
<1>4. HomeInv
  BY DEF HomeInv
<1>5. CallInv
  BY DEF CallInv
<1>6. BusyInv
  BY DEF BusyInv, Processing
<1>7. TruthInv
  BY DEF TruthInv, Quiet
<1>8. CleanInv
  BY DEF CleanInv
<1>9. TableInv
  <2>1. \A c \in Client : ~Granting(c)
    BY DEF Granting
  <2>2. MapIs(Recorded)
    BY DEF MapIs, Recorded
  <2>3. \A c \in Client : rpc[c] # "poll" /\ rpc[c] # "done"
    OBVIOUS
  <2> QED
    BY <2>1, <2>2, <2>3 DEF TableInv
<1> QED
  BY <1>1, <1>2, <1>3, <1>4, <1>5, <1>6, <1>7, <1>8, <1>9 DEF IInv

(* A step of the transport alone. *)
LEMMA RmFrame ==
  ASSUME IInv, UNCHANGED <<rmVars, accepted>>
  PROVE  /\ RmTypeOK' /\ HomeInv' /\ CallInv'
         /\ ~expired' => CleanInv' /\ TableInv'
<1>1. /\ UNCHANGED <<ggSeq, ggLock, rpc, msg, out, own, expired>>
      /\ UNCHANGED <<wrapped, tx, rx, stage2, accepted>>
  BY DEF rmVars
<1>2. RmTypeOK'
  BY <1>1 DEF IInv, TypeOK, RmTypeOK
<1>3. HomeInv'
  BY <1>1 DEF IInv, HomeInv
<1>4. CallInv'
  BY <1>1 DEF IInv, CallInv, IsReply, Done
<1>5. ~expired' => CleanInv'
  BY <1>1 DEF IInv, CleanInv, IsReply
<1>6. ~expired' => TableInv'
  <2>1. UNCHANGED Recorded
    BY <1>1 DEF Recorded
  <2>2. \A c \in Client : UNCHANGED Granting(c)
    BY <1>1 DEF Granting, IsReply
  <2> QED
    BY <1>1, <2>1, <2>2 DEF IInv, TableInv, MapIs, Pair, IsReply
<1> QED
  BY <1>2, <1>3, <1>4, <1>5, <1>6

(* The host fills a buffer for an address that has nothing under way. *)
LEMMA IInvHostPost ==
  ASSUME IInv, NEW r \in HostRequest, HostPost(r)
  PROVE  IInv'
<1> USE DEF IInv
<1>1. /\ UNCHANGED <<rmVars, accepted>>
      /\ UNCHANGED <<dev, pending, work, cur, ret, comps>>
      /\ dev = "live" /\ bufs > 0 /\ view[r.gpa] # "busy"
      /\ reqq' = Append(reqq, r) /\ bufs' = bufs - 1 /\ irq' = TRUE
      /\ view' = [view EXCEPT ![r.gpa] = "busy"]
  BY DEF HostPost
<1>2. UNCHANGED <<rpc, msg, ggLock, tx, stage2, wrapped>>
  BY <1>1 DEF rmVars
<1>3. RmTypeOK' /\ HomeInv' /\ CallInv' /\ (~expired' => CleanInv' /\ TableInv')
  BY <1>1, RmFrame
<1>4. r.gpa \in Gpa
  BY RequestFacts
<1>5. /\ reqq' \in Seq(HostRequest) /\ Len(reqq) \in Nat
      /\ Len(reqq') = Len(reqq) + 1
      /\ \A n \in 1 .. Len(reqq') :
           \/ n = Len(reqq) + 1 /\ reqq'[n] = r
           \/ n \in 1 .. Len(reqq) /\ reqq'[n] = reqq[n]
  BY <1>1, AppendFacts DEF TypeOK
<1>6. TypeOK'
  BY <1>1, <1>3, <1>4, <1>5, TransportAssumption DEF TypeOK
<1>7. BuffersConserved'
  <2>1. bufs \in Int /\ NumBufs \in Int /\ Len(reqq') = Len(reqq) + 1
    BY <1>5, TransportAssumption DEF TypeOK
  <2>2. work' = work /\ bufs' = bufs - 1 /\ Len(reqq) \in Nat
    BY <1>1, <1>5
  <2> HIDE DEF IInv
  <2>3. BuffersConserved
    BY DEF IInv
  <2> QED
    BY <2>1, <2>2, <2>3 DEF BuffersConserved
<1>8. ShapeInv'
  BY <1>1, <1>2 DEF ShapeInv, Entries, FirstEntry
<1>9. BusyInv'
  <2>1. BusyInv
    BY <1>1
  <2>2. \A n \in 1 .. Len(reqq') : view'[reqq'[n].gpa] = "busy"
    BY <1>1, <1>4, <1>5, <2>1, Elements, RequestFacts DEF BusyInv, TypeOK
  <2>3. \A n \in 1 .. Len(comps) : comps[n].req.gpa # r.gpa /\ comps[n].req.gpa \in Gpa
    BY <1>1, <2>1, Elements, RequestFacts DEF BusyInv
  <2>4. \A n \in 1 .. Len(reqq) : reqq[n].gpa # r.gpa
    BY <1>1, <2>1 DEF BusyInv
  <2>5. Processing => cur.gpa # r.gpa /\ cur.gpa \in Gpa
    BY <1>1, <2>1, RequestFacts DEF BusyInv, TypeOK
  <2>6. \A i, j \in 1 .. Len(reqq') : i # j => reqq'[i].gpa # reqq'[j].gpa
    BY <1>5, <2>1, <2>4 DEF BusyInv
  <2>7. \A i \in 1 .. Len(reqq') : \A j \in 1 .. Len(comps) : reqq'[i].gpa # comps[j].req.gpa
    BY <1>5, <2>1, <2>3 DEF BusyInv
  <2>8. Processing => \A i \in 1 .. Len(reqq') : reqq'[i].gpa # cur.gpa
    BY <1>5, <2>1, <2>5 DEF BusyInv
  <2>9. UNCHANGED Processing
    BY <1>1 DEF Processing
  <2> QED
    BY <1>1, <2>1, <2>2, <2>3, <2>5, <2>6, <2>7, <2>8, <2>9 DEF BusyInv, TypeOK
<1>10. ~wrapped' => TruthInv'
  BY <1>1, <1>2, <1>4 DEF TruthInv, Quiet, Done, TypeOK
<1> QED
  BY <1>1, <1>3, <1>6, <1>7, <1>8, <1>9, <1>10

(* The host hears of one address. *)
LEMMA IInvHostConsume ==
  ASSUME IInv, HostConsume
  PROVE  IInv'
<1> USE DEF IInv
<1> DEFINE e == comps[1]
           g == e.req.gpa
           v == CASE ~e.ok -> "unknown"
                  [] e.ok /\ e.req.op = "ACCEPT" -> "in"
                  [] OTHER -> "out"
<1>1. /\ UNCHANGED <<rmVars, accepted>>
      /\ UNCHANGED <<dev, reqq, bufs, irq, pending, work, cur, ret>>
      /\ dev = "live" /\ comps # <<>> /\ comps' = Tail(comps)
  BY DEF HostConsume
<1>2. UNCHANGED <<rpc, msg, ggLock, tx, stage2, wrapped>>
  BY <1>1 DEF rmVars
<1>3. RmTypeOK' /\ HomeInv' /\ CallInv' /\ (~expired' => CleanInv' /\ TableInv')
  BY <1>1, RmFrame
<1>4. /\ comps' \in Seq([req : HostRequest, ok : BOOLEAN])
      /\ Head(comps) = e /\ 1 \in 1 .. Len(comps) /\ Len(comps) \in Nat
      /\ Len(comps') = Len(comps) - 1
      /\ \A n \in 1 .. Len(comps') : n + 1 \in 1 .. Len(comps) /\ comps'[n] = comps[n + 1]
  BY <1>1, TailFacts DEF TypeOK
<1>5. view' = [view EXCEPT ![g] = v]
  BY <1>4 DEF HostConsume
<1>6. g \in Gpa /\ e.req.op \in {"ACCEPT", "RELEASE", "BAD"} /\ e.ok \in BOOLEAN
  BY <1>4, Elements, RequestFacts
<1>7. v \in {"unknown", "in", "out"}
  OBVIOUS
<1>8. TypeOK'
  BY <1>1, <1>3, <1>4, <1>5, <1>6, <1>7 DEF TypeOK
<1>9. BuffersConserved'
  BY <1>1 DEF BuffersConserved
<1>10. ShapeInv'
  BY <1>1, <1>2 DEF ShapeInv, Entries, FirstEntry
<1>11. BusyInv
  BY <1>1
<1>12. \A n \in 1 .. Len(comps') : comps'[n].req.gpa # g
  <2> TAKE n \in 1 .. Len(comps')
  <2>1. n + 1 \in 1 .. Len(comps) /\ comps'[n] = comps[n + 1] /\ n + 1 # 1
    BY <1>4
  <2> QED
    BY <1>4, <1>11, <2>1 DEF BusyInv
<1>13. BusyInv'
  <2>1. \A n \in 1 .. Len(reqq) : reqq[n].gpa # g /\ reqq[n].gpa \in Gpa
    BY <1>4, <1>11, Elements, RequestFacts DEF BusyInv
  <2>2. Processing => cur.gpa # g /\ cur.gpa \in Gpa
    BY <1>4, <1>11, RequestFacts DEF BusyInv, TypeOK
  <2>3. \A n \in 1 .. Len(comps') : view'[comps'[n].req.gpa] = "busy"
    BY <1>4, <1>5, <1>6, <1>11, <1>12, Elements, RequestFacts DEF BusyInv, TypeOK
  <2>4. \A i, j \in 1 .. Len(comps') : i # j => comps'[i].req.gpa # comps'[j].req.gpa
    <3> TAKE i, j \in 1 .. Len(comps')
    <3>1. i # j => i + 1 # j + 1
      BY <1>4
    <3> QED
      BY <1>4, <1>11, <3>1 DEF BusyInv
  <2>5. \A i \in 1 .. Len(reqq) : \A j \in 1 .. Len(comps') : reqq[i].gpa # comps'[j].req.gpa
    BY <1>4, <1>11 DEF BusyInv
  <2>6. Processing => \A i \in 1 .. Len(comps') : comps'[i].req.gpa # cur.gpa
    BY <1>4, <1>11 DEF BusyInv
  <2>7. UNCHANGED Processing
    BY <1>1 DEF Processing
  <2>8. /\ \A n \in 1 .. Len(reqq) : view'[reqq[n].gpa] = "busy"
        /\ Processing => view'[cur.gpa] = "busy"
    BY <1>5, <1>11, <2>1, <2>2 DEF BusyInv, TypeOK
  <2> QED
    BY <1>1, <1>11, <2>3, <2>4, <2>5, <2>6, <2>7, <2>8 DEF BusyInv
<1>14. ASSUME ~wrapped' PROVE TruthInv'
  <2>1. TruthInv
    BY <1>1, <1>2, <1>14
  <2>2. /\ v = "in" => Quiet(g) /\ stage2[g] # None
        /\ v = "out" => Quiet(g) /\ stage2[g] = None
    BY <1>4, <1>6, <2>1 DEF TruthInv, Done
  <2>3. \A n \in 1 .. Len(comps') :
          comps'[n].ok => /\ comps'[n].req.op # "BAD"
                          /\ Quiet(comps'[n].req.gpa) /\ Done(comps'[n].req)
    BY <1>4, <2>1 DEF TruthInv
  <2>4. \A a \in Gpa : /\ view'[a] = "out" => Quiet(a) /\ stage2[a] = None
                       /\ view'[a] = "in" => Quiet(a) /\ stage2[a] # None
    BY <1>5, <1>6, <2>1, <2>2 DEF TruthInv, TypeOK
  <2>5. work = "complete" /\ ret = "OK" => cur.op # "BAD" /\ Quiet(cur.gpa) /\ Done(cur)
    BY <2>1 DEF TruthInv
  <2> QED
    BY <1>1, <1>2, <2>3, <2>4, <2>5 DEF TruthInv, Quiet, Done
<1> QED
  BY <1>1, <1>3, <1>8, <1>9, <1>10, <1>13, <1>14

(* The interrupt, and the work function outside a request. *)
LEMMA IInvIdle ==
  ASSUME IInv, ReqCallback \/ WorkStart \/ WorkDone \/ WorkReturn
  PROVE  IInv'
<1>1. /\ UNCHANGED <<rmVars, accepted>>
      /\ UNCHANGED <<dev, reqq, bufs, cur, ret, comps, view>>
      /\ irq' \in {irq, FALSE}
  BY DEF ReqCallback, WorkStart, WorkDone, WorkReturn, hostVars
<1>2. \/ work' = work
      \/ work \in {"idle", "loop", "returning"} /\ work' \in {"loop", "returning", "idle"}
  BY DEF ReqCallback, WorkStart, WorkDone, WorkReturn
<1>3. UNCHANGED <<rpc, msg, ggLock, tx, stage2, wrapped, expired>>
  BY <1>1 DEF rmVars
<1>4. RmTypeOK' /\ HomeInv' /\ CallInv' /\ (~expired' => CleanInv' /\ TableInv')
  BY <1>1, RmFrame
<1>5. TypeOK'
  BY <1>1, <1>2, <1>4 DEF TypeOK, IInv, ReqCallback, WorkStart, WorkDone, WorkReturn
<1>6. BuffersConserved'
  BY <1>1, <1>2 DEF BuffersConserved, IInv
<1>7. ShapeInv'
  <2>1. ShapeInv
    BY DEF IInv
  <2>2. dev \in {"cancelled", "freed"} => work' = "idle" /\ ~pending'
    BY <2>1 DEF ShapeInv, ReqCallback, WorkStart, WorkDone, WorkReturn
  <2>3. work' = "rpc" <=> work = "rpc"
    BY <1>2
  <2>4. dev # "live" => ~irq'
    BY <1>1, <2>1 DEF ShapeInv
  <2> QED
    BY <1>1, <1>3, <2>1, <2>2, <2>3, <2>4 DEF ShapeInv, Entries, FirstEntry
<1>8. dev' = "live" => BusyInv'
  BY <1>1, <1>2 DEF BusyInv, Processing, IInv
<1>9. dev' = "live" /\ ~wrapped' => TruthInv'
  BY <1>1, <1>2, <1>3 DEF TruthInv, IInv, Quiet, Done
<1> QED
  BY <1>4, <1>5, <1>6, <1>7, <1>8, <1>9 DEF IInv

(* The stages of vga_remove outside a call. *)
LEMMA IInvRemove ==
  ASSUME IInv, RemoveReset \/ RemoveCancel \/ RemoveFree
  PROVE  IInv'
<1>1. /\ UNCHANGED <<rmVars, accepted>>
      /\ UNCHANGED <<reqq, bufs, work, cur, ret, comps, view>>
      /\ dev' \in {"reset", "cancelled", "freed"}
      /\ dev' = "reset" => dev = "live" /\ ~irq' /\ pending' = pending
      /\ dev' = "cancelled" => dev = "reset" /\ work = "idle" /\ ~pending' /\ irq' = irq
      /\ dev' = "freed" => dev = "cancelled" /\ accepted = <<>> /\ irq' = irq /\ pending' = pending
  BY DEF RemoveReset, RemoveCancel, RemoveFree, hostVars
<1>2. UNCHANGED <<rpc, msg, ggLock, expired>>
  BY <1>1 DEF rmVars
<1>3. RmTypeOK' /\ HomeInv' /\ CallInv' /\ (~expired' => CleanInv' /\ TableInv')
  BY <1>1, RmFrame
<1>4. TypeOK'
  BY <1>1, <1>3 DEF TypeOK, IInv, RemoveReset, RemoveCancel, RemoveFree, hostVars
<1>5. BuffersConserved'
  BY <1>1 DEF BuffersConserved, IInv
<1>6. ShapeInv'
  <2>1. ShapeInv
    BY DEF IInv
  <2>2. rpc[Remove] = "idle"
    BY <1>1, <2>1 DEF ShapeInv
  <2>3. ~irq'
    BY <1>1, <2>1 DEF ShapeInv
  <2>4. dev' \in {"cancelled", "freed"} => work = "idle" /\ ~pending'
    BY <1>1, <2>1 DEF ShapeInv
  <2> QED
    BY <1>1, <1>2, <2>1, <2>2, <2>3, <2>4 DEF ShapeInv, Entries, FirstEntry
<1> QED
  BY <1>1, <1>3, <1>4, <1>5, <1>6 DEF IInv

(* The work takes the oldest request. *)
LEMMA IInvWorkTake ==
  ASSUME IInv, WorkTake
  PROVE  IInv'
<1>1. /\ UNCHANGED <<rmVars, accepted>>
      /\ UNCHANGED <<dev, bufs, irq, pending, ret, comps, view>>
      /\ work = "loop" /\ work' = "dispatch"
      /\ cur' = Head(reqq) /\ reqq' = Tail(reqq) /\ reqq # <<>>
  BY DEF WorkTake
<1>2. UNCHANGED <<rpc, msg, ggLock, tx, stage2, wrapped, expired>>
  BY <1>1 DEF rmVars
<1>3. RmTypeOK' /\ HomeInv' /\ CallInv' /\ (~expired' => CleanInv' /\ TableInv')
  BY <1>1, RmFrame
<1>4. /\ reqq' \in Seq(HostRequest) /\ Len(reqq) \in Nat
      /\ cur' = reqq[1] /\ cur' \in HostRequest /\ 1 \in 1 .. Len(reqq)
      /\ Len(reqq') = Len(reqq) - 1
      /\ \A n \in 1 .. Len(reqq') : n + 1 \in 1 .. Len(reqq) /\ reqq'[n] = reqq[n + 1]
  BY <1>1, TailFacts DEF TypeOK, IInv
<1>5. TypeOK'
  BY <1>1, <1>3, <1>4 DEF TypeOK, IInv
<1>6. BuffersConserved'
  <2>1. bufs \in Int /\ NumBufs \in Int
    BY TransportAssumption DEF TypeOK, IInv
  <2>2. BuffersConserved
    BY DEF IInv
  <2> QED
    BY <1>1, <1>4, <2>1, <2>2 DEF BuffersConserved
<1>7. ShapeInv'
  BY <1>1, <1>2 DEF IInv, ShapeInv, Entries, FirstEntry
<1>8. ASSUME dev' = "live" PROVE BusyInv'
  <2>1. BusyInv
    BY <1>1, <1>8 DEF IInv
  <2>2. \A n \in 1 .. Len(reqq') : reqq'[n].gpa # cur'.gpa
    <3> TAKE n \in 1 .. Len(reqq')
    <3>1. n + 1 \in 1 .. Len(reqq) /\ reqq'[n] = reqq[n + 1] /\ n + 1 # 1
      BY <1>4
    <3> QED
      BY <1>4, <2>1, <3>1 DEF BusyInv
  <2>3. \A i, j \in 1 .. Len(reqq') : i # j => reqq'[i].gpa # reqq'[j].gpa
    <3> TAKE i, j \in 1 .. Len(reqq')
    <3>1. i # j => i + 1 # j + 1
      BY <1>4
    <3> QED
      BY <1>4, <2>1, <3>1 DEF BusyInv
  <2>4. \A n \in 1 .. Len(reqq') : view[reqq'[n].gpa] = "busy"
    BY <1>4, <2>1 DEF BusyInv
  <2>5. \A i \in 1 .. Len(reqq') : \A j \in 1 .. Len(comps) : reqq'[i].gpa # comps[j].req.gpa
    BY <1>4, <2>1 DEF BusyInv
  <2>6. view[cur'.gpa] = "busy" /\ \A i \in 1 .. Len(comps) : comps[i].req.gpa # cur'.gpa
    BY <1>4, <2>1 DEF BusyInv
  <2> QED
    BY <1>1, <2>1, <2>2, <2>3, <2>4, <2>5, <2>6 DEF BusyInv
<1>9. dev' = "live" /\ ~wrapped' => TruthInv'
  BY <1>1, <1>2 DEF TruthInv, IInv, Quiet, Done
<1> QED
  BY <1>3, <1>5, <1>6, <1>7, <1>8, <1>9 DEF IInv

(* A request that fails before the call. *)
LEMMA IInvWorkReject ==
  ASSUME IInv, WorkReject
  PROVE  IInv'
<1>1. /\ UNCHANGED <<rmVars, accepted>>
      /\ UNCHANGED <<dev, reqq, bufs, irq, pending, cur, comps, view>>
      /\ work = "dispatch" /\ work' = "complete"
      /\ ret' \in {"EINVAL", "ENOMEM", "ENOENT"}
  BY DEF WorkReject, hostVars
<1>2. UNCHANGED <<rpc, msg, ggLock, tx, stage2, wrapped, expired>>
  BY <1>1 DEF rmVars
<1>3. RmTypeOK' /\ HomeInv' /\ CallInv' /\ (~expired' => CleanInv' /\ TableInv')
  BY <1>1, RmFrame
<1>4. TypeOK'
  BY <1>1, <1>3 DEF TypeOK, IInv
<1>5. BuffersConserved'
  BY <1>1 DEF BuffersConserved, IInv
<1>6. ShapeInv'
  BY <1>1, <1>2 DEF IInv, ShapeInv, Entries, FirstEntry
<1>7. dev' = "live" => BusyInv'
  BY <1>1 DEF BusyInv, Processing, IInv
<1>8. dev' = "live" /\ ~wrapped' => TruthInv'
  BY <1>1, <1>2 DEF TruthInv, IInv, Quiet, Done
<1> QED
  BY <1>3, <1>4, <1>5, <1>6, <1>7, <1>8 DEF IInv

(* The completion is sent or dropped, and the buffer given back. *)
LEMMA IInvWorkComplete ==
  ASSUME IInv, WorkComplete
  PROVE  IInv'
<1> DEFINE e == [req |-> cur, ok |-> ret = "OK"]
<1>1. /\ UNCHANGED <<rmVars, accepted>>
      /\ UNCHANGED <<dev, reqq, irq, pending>>
      /\ work = "complete" /\ work' = "loop" /\ bufs' = bufs + 1
      /\ cur' = NoWork /\ ret' = "OK"
      /\ \/ comps' = Append(comps, e) /\ view' = view
         \/ view' = [view EXCEPT ![cur.gpa] = "unknown"] /\ comps' = comps
  BY DEF WorkComplete
<1>2. UNCHANGED <<rpc, msg, ggLock, tx, stage2, wrapped, expired>>
  BY <1>1 DEF rmVars
<1>3. RmTypeOK' /\ HomeInv' /\ CallInv' /\ (~expired' => CleanInv' /\ TableInv')
  BY <1>1, RmFrame
<1>4. e \in [req : HostRequest, ok : BOOLEAN] /\ e.req = cur /\ (e.ok <=> ret = "OK")
  BY DEF IInv, TypeOK
<1>5. cur \in HostRequest /\ cur.gpa \in Gpa
  BY RequestFacts DEF IInv, TypeOK
<1> HIDE DEF e
<1>6. /\ bufs \in Nat /\ Len(reqq) \in Nat /\ bufs + 1 <= NumBufs
      /\ comps \in Seq([req : HostRequest, ok : BOOLEAN])
  <2>1. bufs \in Nat /\ Len(reqq) \in Nat /\ NumBufs \in Nat
    BY TransportAssumption DEF IInv, TypeOK
  <2>2. BuffersConserved
    BY DEF IInv
  <2>3. bufs + 1 <= NumBufs
    BY <1>1, <2>1, <2>2 DEF BuffersConserved
  <2> QED
    BY <2>1, <2>3 DEF IInv, TypeOK
<1>7. BuffersConserved'
  <2>1. BuffersConserved /\ NumBufs \in Nat
    BY TransportAssumption DEF IInv
  <2> QED
    BY <1>1, <1>6, <2>1 DEF BuffersConserved
<1>8. ShapeInv'
  BY <1>1, <1>2 DEF IInv, ShapeInv, Entries, FirstEntry
<1>9. CASE comps' = Append(comps, e) /\ view' = view
  <2>1. /\ comps' \in Seq([req : HostRequest, ok : BOOLEAN])
        /\ Len(comps) \in Nat /\ Len(comps') = Len(comps) + 1
        /\ \A n \in 1 .. Len(comps') :
             \/ n = Len(comps) + 1 /\ comps'[n] = e
             \/ n \in 1 .. Len(comps) /\ comps'[n] = comps[n]
    BY <1>4, <1>6, <1>9, AppendFacts
  <2>2. TypeOK'
    BY <1>1, <1>3, <1>6, <1>9, <2>1, Constants, TransportAssumption DEF TypeOK, IInv, Returns
  <2>3. ASSUME dev' = "live" PROVE BusyInv'
    <3>1. BusyInv /\ Processing
      BY <1>1, <2>3 DEF IInv, Processing
    <3>2. \A n \in 1 .. Len(comps') : view[comps'[n].req.gpa] = "busy"
      BY <1>4, <2>1, <3>1 DEF BusyInv
    <3>3. \A i, j \in 1 .. Len(comps') : i # j => comps'[i].req.gpa # comps'[j].req.gpa
      BY <1>4, <2>1, <3>1 DEF BusyInv
    <3>4. \A i \in 1 .. Len(reqq) : \A j \in 1 .. Len(comps') : reqq[i].gpa # comps'[j].req.gpa
      BY <1>4, <2>1, <3>1 DEF BusyInv
    <3>5. ~Processing'
      BY <1>1 DEF Processing
    <3> QED
      BY <1>1, <1>9, <3>1, <3>2, <3>3, <3>4, <3>5 DEF BusyInv
  <2>4. ASSUME dev' = "live", ~wrapped' PROVE TruthInv'
    <3>1. TruthInv
      BY <1>1, <1>2, <2>4 DEF IInv
    <3>2. \A n \in 1 .. Len(comps') :
            comps'[n].ok => /\ comps'[n].req.op # "BAD"
                            /\ Quiet(comps'[n].req.gpa) /\ Done(comps'[n].req)
      BY <1>1, <1>4, <2>1, <3>1 DEF TruthInv
    <3> QED
      BY <1>1, <1>2, <1>9, <3>1, <3>2 DEF TruthInv, Quiet, Done
  <2> QED
    BY <1>3, <1>7, <1>8, <2>2, <2>3, <2>4 DEF IInv
<1>10. CASE view' = [view EXCEPT ![cur.gpa] = "unknown"] /\ comps' = comps
  <2>1. TypeOK'
    BY <1>1, <1>3, <1>5, <1>6, <1>10, Constants, TransportAssumption DEF TypeOK, IInv, Returns
  <2>2. view \in [Gpa -> {"out", "in", "busy", "unknown"}]
    BY DEF IInv, TypeOK
  <2>3. ASSUME dev' = "live" PROVE BusyInv'
    <3>1. BusyInv /\ Processing
      BY <1>1, <2>3 DEF IInv, Processing
    <3>2. /\ \A n \in 1 .. Len(comps) : comps[n].req.gpa # cur.gpa /\ comps[n].req.gpa \in Gpa
          /\ \A n \in 1 .. Len(reqq) : reqq[n].gpa # cur.gpa /\ reqq[n].gpa \in Gpa
      BY <3>1, Elements, RequestFacts DEF BusyInv, IInv
    <3>3. /\ \A n \in 1 .. Len(comps) : view'[comps[n].req.gpa] = "busy"
          /\ \A n \in 1 .. Len(reqq) : view'[reqq[n].gpa] = "busy"
      BY <1>10, <2>2, <3>1, <3>2 DEF BusyInv
    <3>4. ~Processing'
      BY <1>1 DEF Processing
    <3> QED
      BY <1>1, <1>10, <3>1, <3>3, <3>4 DEF BusyInv
  <2>4. ASSUME dev' = "live", ~wrapped' PROVE TruthInv'
    <3>1. TruthInv
      BY <1>1, <1>2, <2>4 DEF IInv
    <3>2. \A a \in Gpa : /\ view'[a] = "out" => Quiet(a) /\ stage2[a] = None
                         /\ view'[a] = "in" => Quiet(a) /\ stage2[a] # None
      BY <1>5, <1>10, <2>2, <3>1 DEF TruthInv
    <3> QED
      BY <1>1, <1>2, <1>10, <3>1, <3>2 DEF TruthInv, Quiet, Done
  <2> QED
    BY <1>3, <1>7, <1>8, <2>1, <2>3, <2>4 DEF IInv
<1> QED
  BY <1>1, <1>9, <1>10
-----------------------------------------------------------------------------
(* Only one thread calls at a time. *)
LEMMA Alone ==
  ASSUME ShapeInv, NEW c \in Client, rpc[c] # "idle", NEW d \in Client, d # c
  PROVE  rpc[d] = "idle"
  BY Constants DEF ShapeInv

(* While the device lives the caller is the work, with the request it took. *)
LEMMA CallerIsWork ==
  ASSUME ShapeInv, dev = "live", NEW c \in Client, rpc[c] # "idle"
  PROVE  c = Work /\ work = "rpc" /\ msg[c].gpa = cur.gpa
  BY Constants DEF ShapeInv

(* The entry of the table a RELEASE under way is for. *)
LEMMA ReleaseRecorded ==
  ASSUME TypeOK, ShapeInv, NEW c \in Client, rpc[c] # "idle", msg[c].op = "RELEASE"
  PROVE  Pair(msg[c]) \in Recorded
<1>1. CASE c = Work
  <2>1. /\ cur.op = "RELEASE" /\ msg[c].gpa = cur.gpa /\ Entries(cur.gpa) # {}
        /\ msg[c].handle = accepted[FirstEntry(cur.gpa)].handle
    BY <1>1 DEF ShapeInv
  <2>2. cur.gpa \in Gpa
    BY RequestFacts DEF TypeOK
  <2>3. /\ FirstEntry(cur.gpa) \in 1 .. Len(accepted)
        /\ accepted[FirstEntry(cur.gpa)].gpa = cur.gpa
    BY <2>1, <2>2, FirstEntryFacts
  <2>4. accepted[FirstEntry(cur.gpa)] = Pair(msg[c])
    <3>1. accepted[FirstEntry(cur.gpa)] = Pair(accepted[FirstEntry(cur.gpa)])
      BY <2>3, Elements
    <3> QED
      BY <2>1, <2>3, <3>1 DEF Pair
  <2> QED
    BY <2>3, <2>4 DEF Recorded
<1>2. CASE c = Remove
  <2>1. /\ accepted # <<>>
        /\ msg[c] = [op |-> "RELEASE", gpa |-> accepted[1].gpa, handle |-> accepted[1].handle]
    BY <1>2 DEF ShapeInv
  <2>2. 1 \in 1 .. Len(accepted)
    BY <2>1, TailFacts DEF TypeOK
  <2>3. accepted[1] = Pair(msg[c])
    <3>1. accepted[1] = Pair(accepted[1])
      BY <2>2, Elements
    <3> QED
      BY <2>1, <3>1 DEF Pair
  <2> QED
    BY <2>2, <2>3 DEF Recorded
<1> QED
  BY <1>1, <1>2, Constants

(* A call starts, for a parcel at its own address. *)
LEMMA CallFrame ==
  ASSUME IInv, NEW c \in Client, NEW r \in Request, Home[r.handle] = r.gpa,
         Call(c, r), accepted' = accepted
  PROVE  /\ RmTypeOK' /\ HomeInv' /\ CallInv'
         /\ ~expired' => CleanInv' /\ TableInv'
         /\ rpc[c] = "idle" /\ rpc' = [rpc EXCEPT ![c] = "lock"] /\ msg'[c] = r
         /\ \A d \in Client : d # c => rpc'[d] = rpc[d] /\ msg'[d] = msg[d]
         /\ UNCHANGED <<ggLock, tx, stage2, wrapped, expired>>
<1>1. /\ UNCHANGED <<ggSeq, ggLock, out, own, wrapped>>
      /\ UNCHANGED <<tx, rx, stage2, expired, accepted>>
      /\ rpc[c] = "idle"
      /\ rpc' = [rpc EXCEPT ![c] = "lock"] /\ msg' = [msg EXCEPT ![c] = r]
  BY DEF Call
<1>2. RmTypeOK'
  BY RmType DEF IInv, TypeOK
<1>3. rpc \in [Client -> {"idle", "lock", "poll", "done"}] /\ msg \in [Client -> Request]
  BY DEF IInv, TypeOK, RmTypeOK
<1>4. /\ rpc'[c] = "lock" /\ msg'[c] = r
      /\ \A d \in Client : d # c => rpc'[d] = rpc[d] /\ msg'[d] = msg[d]
  BY <1>1, <1>3
<1>5. HomeInv'
  BY <1>1, <1>4 DEF IInv, HomeInv
<1>6. \A d \in Client : /\ rpc'[d] \in {"poll", "done"} <=> rpc[d] \in {"poll", "done"}
                        /\ rpc'[d] \in {"poll", "done"} => rpc'[d] = rpc[d] /\ msg'[d] = msg[d]
  BY <1>1, <1>4
<1>7. CallInv'
  BY <1>1, <1>6 DEF IInv, CallInv, IsReply, Done
<1>8. ~expired' => CleanInv'
  BY <1>1, <1>6 DEF IInv, CleanInv, IsReply
<1>9. ~expired' => TableInv'
  <2>1. UNCHANGED Recorded
    BY <1>1 DEF Recorded
  <2>2. \A d \in Client : /\ UNCHANGED Granting(d)
                          /\ Granting(d) => msg'[d] = msg[d]
    BY <1>1, <1>6 DEF Granting, IsReply
  <2> QED
    BY <1>1, <1>6, <2>1, <2>2 DEF IInv, TableInv, Pair, IsReply, MapIs
<1> QED
  BY <1>1, <1>2, <1>4, <1>5, <1>7, <1>8, <1>9

LEMMA IInvWorkCall ==
  ASSUME IInv, WorkCall
  PROVE  IInv'
<1>1. /\ UNCHANGED <<dev, pending, cur, ret, accepted>>
      /\ UNCHANGED <<reqq, bufs, irq, comps, view>>
      /\ work = "dispatch" /\ work' = "rpc"
  BY DEF WorkCall, hostVars
<1>2. cur \in HostRequest /\ cur.gpa \in Gpa /\ Home[cur.handle] = cur.gpa
  BY RequestFacts DEF IInv, TypeOK
<1>3. \E r \in Request :
        /\ Call(Work, r) /\ Home[r.handle] = r.gpa
        /\ r.op = cur.op /\ r.gpa = cur.gpa
        /\ cur.op = "ACCEPT" => r.handle = cur.handle
        /\ cur.op = "RELEASE" =>
             Entries(cur.gpa) # {} /\ r.handle = accepted[FirstEntry(cur.gpa)].handle
  <2>1. CASE cur.op = "ACCEPT" /\ Call(Work, cur)
    BY <1>2, <2>1, RequestFacts
  <2>2. CASE /\ cur.op = "RELEASE"
             /\ Entries(cur.gpa) # {}
             /\ Call(Work, [op |-> "RELEASE", gpa |-> cur.gpa,
                            handle |-> accepted[FirstEntry(cur.gpa)].handle])
    <3> DEFINE r == [op |-> "RELEASE", gpa |-> cur.gpa,
                     handle |-> accepted[FirstEntry(cur.gpa)].handle]
    <3>1. /\ FirstEntry(cur.gpa) \in 1 .. Len(accepted)
          /\ accepted[FirstEntry(cur.gpa)].gpa = cur.gpa
          /\ accepted[FirstEntry(cur.gpa)].handle \in Handle
      BY <1>2, <2>2, FirstEntryFacts DEF IInv
    <3>2. Home[accepted[FirstEntry(cur.gpa)].handle] = cur.gpa
      BY <3>1 DEF IInv, HomeInv
    <3>3. r \in Request
      BY <1>2, <3>1 DEF Request, Op
    <3> QED
      BY <2>2, <3>2, <3>3
  <2> QED
    BY <2>1, <2>2 DEF WorkCall
<1>4. PICK r \in Request :
        /\ Call(Work, r) /\ Home[r.handle] = r.gpa
        /\ r.op = cur.op /\ r.gpa = cur.gpa
        /\ cur.op = "ACCEPT" => r.handle = cur.handle
        /\ cur.op = "RELEASE" =>
             Entries(cur.gpa) # {} /\ r.handle = accepted[FirstEntry(cur.gpa)].handle
  BY <1>3
<1>5. /\ RmTypeOK' /\ HomeInv' /\ CallInv'
      /\ ~expired' => CleanInv' /\ TableInv'
      /\ rpc[Work] = "idle" /\ rpc' = [rpc EXCEPT ![Work] = "lock"] /\ msg'[Work] = r
      /\ \A d \in Client : d # Work => rpc'[d] = rpc[d] /\ msg'[d] = msg[d]
      /\ UNCHANGED <<ggLock, tx, stage2, wrapped, expired>>
  BY <1>1, <1>4, CallFrame, Constants
<1>6. rpc'[Work] = "lock"
  BY <1>5, Constants DEF IInv, TypeOK, RmTypeOK
<1>7. TypeOK'
  BY <1>1, <1>5 DEF TypeOK, IInv
<1>8. BuffersConserved'
  BY <1>1 DEF BuffersConserved, IInv
<1>9. ShapeInv'
  <2>1. ShapeInv
    BY DEF IInv
  <2>2. UNCHANGED Entries(cur.gpa) /\ UNCHANGED FirstEntry(cur.gpa)
    BY <1>1 DEF Entries, FirstEntry
  <2>3. /\ dev' # "live" => ~irq'
        /\ dev' \notin {"cancelled", "freed"}
    BY <1>1, <2>1 DEF ShapeInv
  <2>4. \A c \in Client : ggLock' = c <=> rpc'[c] = "poll"
    BY <1>5, <1>6, <2>1, Constants DEF ShapeInv
  <2>5. rpc'[Remove] = "idle"
    BY <1>1, <1>5, <2>1, Constants DEF ShapeInv
  <2> QED
    BY <1>1, <1>4, <1>5, <1>6, <2>2, <2>3, <2>4, <2>5 DEF ShapeInv
<1>10. dev' = "live" => BusyInv'
  BY <1>1 DEF BusyInv, Processing, IInv
<1>11. dev' = "live" /\ ~wrapped' => TruthInv'
  BY <1>1, <1>5 DEF TruthInv, IInv, Quiet, Done
<1> QED
  BY <1>5, <1>7, <1>8, <1>9, <1>10, <1>11 DEF IInv

LEMMA IInvRemoveCall ==
  ASSUME IInv, RemoveCall
  PROVE  IInv'
<1> DEFINE r == [op |-> "RELEASE", gpa |-> accepted[1].gpa, handle |-> accepted[1].handle]
<1>1. /\ UNCHANGED <<dev, pending, work, cur, ret, accepted>>
      /\ UNCHANGED <<reqq, bufs, irq, comps, view>>
      /\ dev = "cancelled" /\ accepted # <<>>
  BY DEF RemoveCall, hostVars
<1>2. Head(accepted) = accepted[1] /\ 1 \in 1 .. Len(accepted)
  BY <1>1, TailFacts DEF IInv, TypeOK
<1>3. Call(Remove, r)
  BY <1>2 DEF RemoveCall
<1>4. accepted[1].gpa \in Gpa /\ accepted[1].handle \in Handle
  BY <1>2, Elements DEF IInv
<1>5. r \in Request /\ Home[r.handle] = r.gpa
  BY <1>2, <1>4 DEF Request, Op, IInv, HomeInv
<1> HIDE DEF r
<1>6. /\ RmTypeOK' /\ HomeInv' /\ CallInv'
      /\ ~expired' => CleanInv' /\ TableInv'
      /\ rpc[Remove] = "idle" /\ rpc' = [rpc EXCEPT ![Remove] = "lock"] /\ msg'[Remove] = r
      /\ \A d \in Client : d # Remove => rpc'[d] = rpc[d] /\ msg'[d] = msg[d]
      /\ UNCHANGED <<ggLock, tx, stage2, wrapped, expired>>
  BY <1>1, <1>3, <1>5, CallFrame, Constants
<1>7. rpc'[Remove] = "lock" /\ rpc'[Work] = rpc[Work]
  BY <1>6, Constants DEF IInv, TypeOK, RmTypeOK
<1>8. TypeOK'
  BY <1>1, <1>6 DEF TypeOK, IInv
<1>9. BuffersConserved'
  BY <1>1 DEF BuffersConserved, IInv
<1>10. ShapeInv'
  <2>1. ShapeInv
    BY DEF IInv
  <2>2. work = "idle" /\ ~pending /\ ~irq
    BY <1>1, <2>1 DEF ShapeInv
  <2>3. \A c \in Client : ggLock' = c <=> rpc'[c] = "poll"
    BY <1>6, <1>7, <2>1, Constants DEF ShapeInv
  <2>4. msg'[Remove] = [op |-> "RELEASE", gpa |-> accepted[1].gpa, handle |-> accepted[1].handle]
    BY <1>6 DEF r
  <2> QED
    BY <1>1, <1>7, <2>1, <2>2, <2>3, <2>4 DEF ShapeInv
<1> QED
  BY <1>1, <1>6, <1>8, <1>9, <1>10 DEF IInv
-----------------------------------------------------------------------------
(* A step of the client or of the RM: what the transport keeps. *)
LEMMA RpcFrame ==
  ASSUME IInv, RmTypeOK',
         UNCHANGED <<dev, hostVars, pending, work, cur, ret, accepted>>,
         msg' = msg,
         \A c \in Client : rpc'[c] = "idle" <=> rpc[c] = "idle",
         \A c \in Client : ggLock' = c <=> rpc'[c] = "poll",
         HomeInv', CallInv',
         dev = "live" /\ ~wrapped' => TruthInv',
         ~expired' => CleanInv' /\ TableInv'
  PROVE  IInv'
<1>1. UNCHANGED <<dev, reqq, bufs, irq, comps, view, pending, work, cur, ret, accepted>>
  BY DEF hostVars
<1>2. TypeOK'
  BY <1>1 DEF TypeOK, IInv
<1>3. BuffersConserved'
  BY <1>1 DEF BuffersConserved, IInv
<1>4. ShapeInv'
  BY <1>1, Constants DEF ShapeInv, IInv, Entries, FirstEntry
<1>5. dev' = "live" => BusyInv'
  BY <1>1 DEF BusyInv, Processing, IInv
<1> QED
  BY <1>1, <1>2, <1>3, <1>4, <1>5 DEF IInv

(* The table part, when the mappings and who was granted do not change. *)
LEMMA TableFrame ==
  ASSUME TableInv, UNCHANGED <<stage2, accepted, msg>>,
         \A c \in Client : Granting(c)' <=> Granting(c),
         \A c \in Client : msg[c].op = "RELEASE" =>
           /\ rpc'[c] = "poll" => \A i \in 1 .. Len(rx') : IsReply(i)' => ~rx'[i].err
           /\ rpc'[c] = "done" => out'[c] = "OK"
  PROVE  TableInv'
<1>1. UNCHANGED Recorded
  BY DEF Recorded
<1> QED
  BY <1>1 DEF TableInv, MapIs, Pair, IsReply

(* The request is numbered and sent, or the queue is full. *)
LEMMA IInvLockAndSend ==
  ASSUME IInv, NEW c \in Client, LockAndSend(c),
         UNCHANGED <<dev, hostVars, pending, work, cur, ret, accepted>>
  PROVE  IInv'
<1> DEFINE m == [seq |-> NextSeq, live |-> TRUE, req |-> msg[c]]
<1>1. /\ rpc[c] = "lock" /\ ggLock = Nobody /\ ggSeq' = NextSeq
      /\ wrapped' = (wrapped \/ InUse(NextSeq))
      /\ \/ /\ tx' = Append(tx, m)
            /\ rpc' = [rpc EXCEPT ![c] = "poll"]
            /\ ggLock' = c
         \/ /\ Len(tx) = Depth
            /\ rpc' = [rpc EXCEPT ![c] = "done"]
            /\ out' = [out EXCEPT ![c] = "EIO"]
            /\ tx' = tx /\ ggLock' = ggLock
      /\ own' = [own EXCEPT ![c] = TRUE]
      /\ UNCHANGED <<msg, rx, stage2, expired>>
  BY DEF LockAndSend
<1>2. RmTypeOK'
  BY RmType DEF IInv, TypeOK, RpcNext
<1>3. /\ rpc \in [Client -> {"idle", "lock", "poll", "done"}]
      /\ out \in [Client -> Returns] /\ own \in [Client -> BOOLEAN]
      /\ tx \in Seq(TxEntry) /\ msg[c] \in Request /\ Len(tx) \in Nat
  BY DEF IInv, TypeOK, RmTypeOK, TxEntry
<1>4. \A d \in Client : d # c => rpc[d] = "idle" /\ rpc'[d] = "idle"
  BY <1>1, <1>3, Alone DEF IInv
<1>5. own'[c] /\ rpc'[c] \in {"poll", "done"}
  BY <1>1, <1>3
<1>6. UNCHANGED <<accepted, view, comps, work, dev, ret, cur>>
  BY DEF hostVars
<1>7. m \in TxEntry /\ m.req = msg[c] /\ m.seq = NextSeq /\ m.live
  BY <1>2, <1>1, <1>3 DEF TxEntry, RmTypeOK
<1>8. Home[m.req.handle] = m.req.gpa
  BY <1>1, <1>7 DEF IInv, HomeInv
<1> HIDE DEF m
<1>9. ~wrapped' => /\ ~wrapped
                   /\ \A i \in 1 .. Len(tx) : tx[i].seq # NextSeq
                   /\ \A i \in 1 .. Len(rx) : ~(rx[i].type = "REPLY" /\ rx[i].seq = NextSeq)
  <2>1. DOMAIN tx = 1 .. Len(tx) /\ DOMAIN rx = 1 .. Len(rx)
    BY DEF IInv, TypeOK, RmTypeOK
  <2> QED
    BY <1>1, <2>1 DEF InUse
<1>10. CASE tx' = Append(tx, m) /\ rpc' = [rpc EXCEPT ![c] = "poll"] /\ ggLock' = c
  <2>1. /\ Len(tx') = Len(tx) + 1
        /\ \A n \in 1 .. Len(tx') :
             \/ n = Len(tx) + 1 /\ tx'[n] = m
             \/ n \in 1 .. Len(tx) /\ tx'[n] = tx[n]
    BY <1>3, <1>7, <1>10, AppendFacts
  <2>2. rpc'[c] = "poll"
    BY <1>3, <1>10
  <2>3. HomeInv'
    <3>1. \A n \in 1 .. Len(tx') : Home[tx'[n].req.handle] = tx'[n].req.gpa
      BY <1>8, <2>1 DEF IInv, HomeInv
    <3>2. \A d \in Client : rpc'[d] # "idle" => rpc[d] # "idle"
      BY <1>1, <1>4
    <3> QED
      BY <1>1, <1>6, <3>1, <3>2 DEF IInv, HomeInv
  <2>4. CallInv'
    <3>1. \A d \in Client : rpc'[d] = "poll" => own'[d]
      BY <1>4, <1>5
    <3>2. \A d \in Client : rpc'[d] # "done"
      BY <1>4, <2>2
    <3>3. ~wrapped' => \A n \in 1 .. Len(tx') :
            tx'[n].seq = ggSeq' => n = Len(tx') /\ tx'[n].live /\ tx'[n].req = msg'[c]
      BY <1>1, <1>7, <1>9, <2>1
    <3>4. ~wrapped' => \A n \in 1 .. Len(rx') : ~(rx'[n].type = "REPLY" /\ rx'[n].seq = ggSeq')
      BY <1>1, <1>9
    <3>5. \A d \in Client : rpc'[d] = "poll" => d = c
      BY <1>4
    <3> QED
      BY <3>1, <3>2, <3>3, <3>4, <3>5 DEF CallInv, IsReply
  <2>5. \A d \in Client : ggLock' = d <=> rpc'[d] = "poll"
    BY <1>4, <1>10, <2>2
  <2>6. ASSUME dev = "live", ~wrapped' PROVE TruthInv'
    <3>1. TruthInv /\ BusyInv
      BY <1>9, <2>6 DEF IInv
    <3>2. work = "rpc" /\ msg[c].gpa = cur.gpa
      BY <1>1, <2>6, CallerIsWork DEF IInv
    <3>3. \A g : Quiet(g) /\ g # cur.gpa => Quiet(g)'
      BY <1>7, <2>1, <3>2 DEF Quiet
    <3>4. /\ \A g \in Gpa : view[g] \in {"in", "out"} => g # cur.gpa
          /\ \A n \in 1 .. Len(comps) : comps[n].req.gpa # cur.gpa
      BY <3>1, <3>2 DEF BusyInv, Processing
    <3>5. \A r : UNCHANGED Done(r)
      BY <1>1 DEF Done
    <3> QED
      BY <1>1, <1>6, <3>1, <3>2, <3>3, <3>4, <3>5 DEF TruthInv
  <2>7. ASSUME ~expired' PROVE CleanInv' /\ TableInv'
    <3>1. CleanInv /\ TableInv
      BY <1>1, <2>7 DEF IInv
    <3>2. tx = <<>> /\ Len(tx) = 0 /\ ~wrapped
      BY <1>1, <3>1 DEF CleanInv
    <3>3. \A n \in 1 .. Len(rx) : rx[n].type # "REPLY"
      BY <1>1, <3>1 DEF CleanInv, IsReply
    <3>4. ~InUse(NextSeq)
      <4>1. DOMAIN tx = 1 .. Len(tx) /\ DOMAIN rx = 1 .. Len(rx)
        BY DEF IInv, TypeOK, RmTypeOK
      <4> QED
        BY <3>2, <3>3, <4>1 DEF InUse
    <3>5. ~wrapped'
      BY <1>1, <3>2, <3>4
    <3>6. Len(tx') = 1 /\ tx'[1].seq = ggSeq' /\ tx'[1].req = msg[c]
      BY <1>1, <1>7, <2>1, <3>2
    <3>7. CleanInv'
      <4>1. ggLock' # Nobody
        BY <1>10, Constants
      <4>2. \A n \in 1 .. Len(rx') : ~IsReply(n)'
        BY <1>1, <3>3 DEF IsReply
      <4> QED
        BY <1>1, <1>4, <3>5, <3>6, <4>1, <4>2 DEF CleanInv
    <3>8. \A d \in Client : ~Granting(d) /\ ~Granting(d)'
      BY <1>1, <1>4, <2>2, <3>3 DEF Granting, IsReply
    <3>9. TableInv'
      <4>1. \A d \in Client : Granting(d)' <=> Granting(d)
        BY <3>8
      <4>2. \A d \in Client : rpc'[d] # "done"
        BY <1>4, <2>2
      <4>3. \A n \in 1 .. Len(rx') : ~IsReply(n)'
        BY <1>1, <3>3 DEF IsReply
      <4> QED
        BY <1>1, <1>6, <3>1, <4>1, <4>2, <4>3, TableFrame
    <3> QED
      BY <3>7, <3>9
  <2>8. \A d \in Client : rpc'[d] = "idle" <=> rpc[d] = "idle"
    BY <1>1, <1>4, <2>2
  <2> QED
    BY <1>1, <1>2, <2>3, <2>4, <2>5, <2>6, <2>7, <2>8, RpcFrame
<1>11. CASE /\ Len(tx) = Depth
            /\ rpc' = [rpc EXCEPT ![c] = "done"]
            /\ out' = [out EXCEPT ![c] = "EIO"]
            /\ tx' = tx /\ ggLock' = ggLock
  <2>1. rpc'[c] = "done" /\ out'[c] = "EIO"
    BY <1>3, <1>11
  <2>2. HomeInv'
    <3>1. \A d \in Client : rpc'[d] # "idle" => rpc[d] # "idle"
      BY <1>1, <1>4
    <3> QED
      BY <1>1, <1>6, <1>11, <3>1 DEF IInv, HomeInv
  <2>3. CallInv'
    <3>1. \A d \in Client : rpc'[d] # "poll" /\ (rpc'[d] = "done" => d = c)
      BY <1>4, <2>1
    <3> QED
      BY <1>5, <2>1, <3>1 DEF CallInv
  <2>4. \A d \in Client : ggLock' = d <=> rpc'[d] = "poll"
    BY <1>1, <1>4, <1>11, <2>1, Constants
  <2>5. dev = "live" /\ ~wrapped' => TruthInv'
    BY <1>1, <1>6, <1>9, <1>11 DEF IInv, TruthInv, Quiet, Done
  <2>6. expired'
    <3>1. Len(tx) # 0
      BY <1>11, RmAssumption
    <3> QED
      BY <1>1, <3>1 DEF IInv, CleanInv
  <2>7. \A d \in Client : rpc'[d] = "idle" <=> rpc[d] = "idle"
    BY <1>1, <1>4, <2>1
  <2> QED
    BY <1>1, <1>2, <2>2, <2>3, <2>4, <2>5, <2>6, <2>7, RpcFrame
<1> QED
  BY <1>1, <1>10, <1>11

(* A reply that matches is the call's own, and everything sent was served. *)
LEMMA MatchFacts ==
  ASSUME IInv, NEW c \in Client, rpc[c] = "poll", ~wrapped,
         NEW i \in 1 .. Len(rx), rx[i].type = "REPLY", rx[i].seq = ggSeq
  PROVE  rx[i].live /\ tx = <<>> /\ (~rx[i].err => Done(msg[c]))
  BY DEF IInv, CallInv, IsReply

(* One message is read: the reply, or one that is dropped. *)
LEMMA IInvPoll ==
  ASSUME IInv, NEW c \in Client, Poll(c),
         UNCHANGED <<dev, hostVars, pending, work, cur, ret, accepted>>
  PROVE  IInv'
<1> DEFINE m == rx[1]
<1>1. /\ rpc[c] = "poll" /\ rx # <<>> /\ rx' = Tail(rx)
      /\ UNCHANGED <<ggSeq, msg, wrapped, tx, stage2, expired>>
  BY DEF Poll
<1>2. RmTypeOK'
  BY RmType DEF IInv, TypeOK, RpcNext
<1>3. /\ rpc \in [Client -> {"idle", "lock", "poll", "done"}]
      /\ out \in [Client -> Returns] /\ own \in [Client -> BOOLEAN]
      /\ rx \in Seq(RxEntry)
  BY DEF IInv, TypeOK, RmTypeOK, RxEntry
<1>4. /\ Head(rx) = m /\ m \in RxEntry /\ 1 \in 1 .. Len(rx) /\ Len(rx) \in Nat
      /\ Len(rx') = Len(rx) - 1
      /\ \A n \in 1 .. Len(rx') : n + 1 \in 1 .. Len(rx) /\ rx'[n] = rx[n + 1]
  BY <1>1, <1>3, TailFacts
<1>5. m.err \in BOOLEAN /\ m.live \in BOOLEAN
  BY <1>4 DEF RxEntry
<1>6. \/ /\ m.type = "REPLY" /\ m.seq = ggSeq
         /\ rpc' = [rpc EXCEPT ![c] = "done"]
         /\ out' = [out EXCEPT ![c] = Errno(msg[c].op, m.err)]
         /\ own' = [own EXCEPT ![c] = m.live]
         /\ ggLock' = Nobody
      \/ /\ ~(m.type = "REPLY" /\ m.seq = ggSeq)
         /\ UNCHANGED <<rpc, out, own, ggLock>>
  BY <1>4 DEF Poll, Matches
<1>7. UNCHANGED <<accepted, view, comps, work, dev, ret, cur>>
  BY DEF hostVars
<1>8. \A d \in Client : d # c => rpc[d] = "idle" /\ rpc'[d] = "idle"
  BY <1>1, <1>3, <1>6, Alone DEF IInv
<1>9. \A d \in Client : rpc'[d] = "idle" <=> rpc[d] = "idle"
  BY <1>1, <1>3, <1>6
<1>10. HomeInv'
  BY <1>1, <1>7, <1>9 DEF IInv, HomeInv
<1>11. dev = "live" /\ ~wrapped' => TruthInv'
  BY <1>1, <1>7 DEF IInv, TruthInv, Quiet, Done
<1> HIDE DEF m
<1>12. CASE /\ m.type = "REPLY" /\ m.seq = ggSeq
            /\ rpc' = [rpc EXCEPT ![c] = "done"]
            /\ out' = [out EXCEPT ![c] = Errno(msg[c].op, m.err)]
            /\ own' = [own EXCEPT ![c] = m.live]
            /\ ggLock' = Nobody
  <2>1. /\ rpc'[c] = "done" /\ own'[c] = m.live
        /\ out'[c] = "OK" <=> ~m.err
    BY <1>3, <1>5, <1>12 DEF Errno
  <2>2. ~wrapped => m.live /\ tx = <<>> /\ (~m.err => Done(msg[c]))
    BY <1>1, <1>4, <1>12, MatchFacts DEF m
  <2>3. CallInv'
    <3>1. \A d \in Client : rpc'[d] # "poll" /\ (rpc'[d] = "done" => d = c)
      BY <1>8, <2>1
    <3> QED
      BY <1>1, <2>1, <2>2, <3>1 DEF CallInv, Done
  <2>4. \A d \in Client : ggLock' = d <=> rpc'[d] = "poll"
    BY <1>8, <1>12, <2>1, Constants
  <2>5. ASSUME ~expired' PROVE CleanInv' /\ TableInv'
    <3>1. CleanInv /\ TableInv
      BY <1>1, <2>5 DEF IInv
    <3>2. \A n \in 1 .. Len(rx) : rx[n].type = "REPLY" => n = 1
      BY <1>4, <1>12, <3>1 DEF CleanInv, IsReply, m
    <3>3. \A n \in 1 .. Len(rx') : rx'[n].type # "REPLY"
      <4> TAKE n \in 1 .. Len(rx')
      <4>1. n + 1 \in 1 .. Len(rx) /\ rx'[n] = rx[n + 1] /\ n + 1 # 1
        BY <1>4
      <4> QED
        BY <3>2, <4>1
    <3>4. tx = <<>>
      BY <1>4, <1>12, <3>1 DEF CleanInv, IsReply, m
    <3>5. CleanInv'
      BY <1>1, <3>1, <3>3, <3>4 DEF CleanInv, IsReply
    <3>6. Granting(c) <=> ~m.err
      BY <1>1, <1>4, <1>12, <3>2 DEF Granting, IsReply, m
    <3>7. \A d \in Client : Granting(d)' <=> Granting(d)
      BY <1>8, <2>1, <3>6 DEF Granting
    <3>8. msg[c].op = "RELEASE" => ~m.err
      BY <1>1, <1>4, <1>12, <3>1 DEF TableInv, IsReply, m
    <3>9. \A d \in Client : rpc'[d] # "poll" /\ (rpc'[d] = "done" => d = c)
      BY <1>8, <2>1
    <3>10. TableInv'
      BY <1>1, <1>7, <2>1, <3>1, <3>7, <3>8, <3>9, TableFrame
    <3> QED
      BY <3>5, <3>10
  <2> QED
    BY <1>1, <1>2, <1>9, <1>10, <1>11, <2>3, <2>4, <2>5, RpcFrame
<1>13. CASE /\ ~(m.type = "REPLY" /\ m.seq = ggSeq)
            /\ UNCHANGED <<rpc, out, own, ggLock>>
  <2>1. CallInv'
    <3>1. CallInv
      BY DEF IInv
    <3>2. ~wrapped => \A d \in Client : rpc[d] = "poll" =>
            \A n \in 1 .. Len(rx') : rx'[n].type = "REPLY" /\ rx'[n].seq = ggSeq =>
              rx'[n].live /\ tx = <<>> /\ (~rx'[n].err => Done(msg[d]))
      BY <1>4, <3>1 DEF CallInv, IsReply
    <3> QED
      BY <1>1, <1>13, <3>1, <3>2 DEF CallInv, Done, IsReply
  <2>2. \A d \in Client : ggLock' = d <=> rpc'[d] = "poll"
    BY <1>13 DEF IInv, ShapeInv
  <2>3. ASSUME ~expired' PROVE CleanInv' /\ TableInv'
    <3>1. CleanInv /\ TableInv
      BY <1>1, <2>3 DEF IInv
    <3>2. m.type # "REPLY"
      BY <1>4, <1>13, <3>1 DEF CleanInv, IsReply, m
    <3>3. CleanInv'
      <4>1. \A i, j \in 1 .. Len(rx') : rx'[i].type = "REPLY" /\ rx'[j].type = "REPLY" => i = j
        <5> TAKE i, j \in 1 .. Len(rx')
        <5>1. i + 1 = j + 1 => i = j
          BY <1>4
        <5> QED
          BY <1>4, <3>1, <5>1 DEF CleanInv, IsReply
      <4>2. \A i \in 1 .. Len(rx') : rx'[i].type = "REPLY" => rx'[i].seq = ggSeq
        BY <1>4, <3>1 DEF CleanInv, IsReply
      <4>3. (\A i \in 1 .. Len(rx) : rx[i].type # "REPLY") =>
              \A i \in 1 .. Len(rx') : rx'[i].type # "REPLY"
        BY <1>4
      <4> QED
        BY <1>1, <1>13, <3>1, <4>1, <4>2, <4>3 DEF CleanInv, IsReply
    <3>4. (\E i \in 1 .. Len(rx) : rx[i].type = "REPLY" /\ ~rx[i].err) <=>
          (\E i \in 1 .. Len(rx') : rx'[i].type = "REPLY" /\ ~rx'[i].err)
      <4>1. ASSUME NEW i \in 1 .. Len(rx), rx[i].type = "REPLY", ~rx[i].err
            PROVE  \E j \in 1 .. Len(rx') : rx'[j].type = "REPLY" /\ ~rx'[j].err
        <5>1. i # 1
          BY <3>2, <4>1 DEF m
        <5>2. i - 1 \in 1 .. Len(rx') /\ (i - 1) + 1 = i
          BY <1>4, <5>1
        <5>3. rx'[i - 1] = rx[i]
          BY <1>4, <5>2
        <5> QED
          BY <4>1, <5>2, <5>3
      <4> QED
        BY <1>4, <4>1
    <3>5. \A d \in Client : Granting(d)' <=> Granting(d)
      BY <1>13, <3>4 DEF Granting, IsReply
    <3>6. \A d \in Client : msg[d].op = "RELEASE" =>
            /\ rpc'[d] = "poll" => \A i \in 1 .. Len(rx') : IsReply(i)' => ~rx'[i].err
            /\ rpc'[d] = "done" => out'[d] = "OK"
      BY <1>4, <1>13, <3>1 DEF TableInv, IsReply
    <3>7. TableInv'
      BY <1>1, <1>7, <3>1, <3>5, <3>6, TableFrame
    <3> QED
      BY <3>3, <3>7
  <2> QED
    BY <1>1, <1>2, <1>9, <1>10, <1>11, <2>1, <2>2, <2>3, RpcFrame
<1> QED
  BY <1>6, <1>12, <1>13

(* The caller gives up; what it sent may still be served. *)
LEMMA IInvPollTimeout ==
  ASSUME IInv, NEW c \in Client, PollTimeout(c),
         UNCHANGED <<dev, hostVars, pending, work, cur, ret, accepted>>
  PROVE  IInv'
<1>1. /\ rpc[c] = "poll" /\ expired'
      /\ rpc' = [rpc EXCEPT ![c] = "done"] /\ out' = [out EXCEPT ![c] = "ETIMEDOUT"]
      /\ ggLock' = Nobody /\ tx' = Stale(tx)
      /\ UNCHANGED <<ggSeq, msg, own, wrapped, stage2>>
  BY DEF PollTimeout
<1>2. RmTypeOK'
  BY RmType DEF IInv, TypeOK, RpcNext
<1>3. /\ rpc \in [Client -> {"idle", "lock", "poll", "done"}]
      /\ out \in [Client -> Returns]
  BY DEF IInv, TypeOK, RmTypeOK
<1>4. rpc'[c] = "done" /\ out'[c] = "ETIMEDOUT" /\ own'[c]
  BY <1>1, <1>3 DEF IInv, CallInv
<1>5. \A d \in Client : d # c => rpc[d] = "idle" /\ rpc'[d] = "idle"
  BY <1>1, <1>3, Alone DEF IInv
<1>6. UNCHANGED <<accepted, view, comps, work, dev, ret, cur>>
  BY DEF hostVars
<1>7. Len(tx') = Len(tx) /\ \A n \in 1 .. Len(tx) : tx'[n].req = tx[n].req
  BY <1>1, StaleFacts DEF IInv, TypeOK
<1>8. HomeInv'
  <2>1. \A d \in Client : rpc'[d] # "idle" => rpc[d] # "idle"
    BY <1>1, <1>5
  <2> QED
    BY <1>1, <1>6, <1>7, <2>1 DEF IInv, HomeInv
<1>9. CallInv'
  <2>1. \A d \in Client : rpc'[d] # "poll" /\ (rpc'[d] = "done" => d = c)
    BY <1>4, <1>5
  <2> QED
    BY <1>4, <2>1 DEF CallInv
<1>10. dev = "live" /\ ~wrapped' => TruthInv'
  <2>1. \A g : Quiet(g) => Quiet(g)'
    BY <1>7 DEF Quiet
  <2> QED
    BY <1>1, <1>6, <2>1 DEF IInv, TruthInv, Done
<1>11. \A d \in Client : ggLock' = d <=> rpc'[d] = "poll"
  BY <1>1, <1>4, <1>5, Constants
<1>12. \A d \in Client : rpc'[d] = "idle" <=> rpc[d] = "idle"
  BY <1>1, <1>4, <1>5
<1> QED
  BY <1>1, <1>2, <1>8, <1>9, <1>10, <1>11, <1>12, RpcFrame

(* A notification arrives between the replies. *)
LEMMA IInvRmNotify ==
  ASSUME IInv, RmNotify,
         UNCHANGED <<dev, hostVars, pending, work, cur, ret, accepted>>
  PROVE  IInv'
<1>1. UNCHANGED <<ggSeq, ggLock, rpc, msg, out, own, wrapped, tx, stage2, expired>>
  BY DEF RmNotify
<1>2. RmTypeOK'
  BY RmType DEF IInv, TypeOK
<1>3. PICK s \in Seqs :
        rx' = Append(rx, [type |-> "NOTIF", seq |-> s, live |-> FALSE, err |-> FALSE])
  BY DEF RmNotify
<1> DEFINE m == [type |-> "NOTIF", seq |-> s, live |-> FALSE, err |-> FALSE]
<1>4. m \in RxEntry /\ m.type # "REPLY"
  BY DEF RxEntry
<1>5. rx \in Seq(RxEntry) /\ rx' = Append(rx, m)
  BY <1>3 DEF IInv, TypeOK, RmTypeOK, RxEntry
<1> HIDE DEF m
<1>6. /\ Len(rx) \in Nat /\ Len(rx') = Len(rx) + 1
      /\ \A n \in 1 .. Len(rx) : rx'[n] = rx[n]
      /\ \A n \in 1 .. Len(rx') :
           \/ n = Len(rx) + 1 /\ rx'[n] = m
           \/ n \in 1 .. Len(rx) /\ rx'[n] = rx[n]
  BY <1>4, <1>5, AppendFacts
<1>7. \A n \in 1 .. Len(rx') : rx'[n].type = "REPLY" => n \in 1 .. Len(rx) /\ rx'[n] = rx[n]
  BY <1>4, <1>6
<1>8. UNCHANGED <<accepted, view, comps, work, dev, ret, cur>>
  BY DEF hostVars
<1>9. HomeInv'
  BY <1>1, <1>8 DEF IInv, HomeInv
<1>10. CallInv'
  <2>1. CallInv
    BY DEF IInv
  <2>2. ~wrapped => \A d \in Client : rpc[d] = "poll" =>
          \A n \in 1 .. Len(rx') : rx'[n].type = "REPLY" /\ rx'[n].seq = ggSeq =>
            rx'[n].live /\ tx = <<>> /\ (~rx'[n].err => Done(msg[d]))
    BY <1>7, <2>1 DEF CallInv, IsReply
  <2> QED
    BY <1>1, <2>1, <2>2 DEF CallInv, Done, IsReply
<1>11. dev = "live" /\ ~wrapped' => TruthInv'
  BY <1>1, <1>8 DEF IInv, TruthInv, Quiet, Done
<1>12. \A d \in Client : ggLock' = d <=> rpc'[d] = "poll"
  BY <1>1 DEF IInv, ShapeInv
<1>13. ASSUME ~expired' PROVE CleanInv' /\ TableInv'
  <2>1. CleanInv /\ TableInv
    BY <1>1, <1>13 DEF IInv
  <2>2. CleanInv'
    <3>1. \A i, j \in 1 .. Len(rx') : rx'[i].type = "REPLY" /\ rx'[j].type = "REPLY" => i = j
      BY <1>7, <2>1 DEF CleanInv, IsReply
    <3>2. \A i \in 1 .. Len(rx') : rx'[i].type = "REPLY" => rx'[i].seq = ggSeq
      BY <1>7, <2>1 DEF CleanInv, IsReply
    <3>3. (\A i \in 1 .. Len(rx) : rx[i].type # "REPLY") =>
            \A i \in 1 .. Len(rx') : rx'[i].type # "REPLY"
      BY <1>7
    <3> QED
      BY <1>1, <2>1, <3>1, <3>2, <3>3 DEF CleanInv, IsReply
  <2>3. (\E i \in 1 .. Len(rx) : rx[i].type = "REPLY" /\ ~rx[i].err) <=>
        (\E i \in 1 .. Len(rx') : rx'[i].type = "REPLY" /\ ~rx'[i].err)
    BY <1>6, <1>7
  <2>4. \A d \in Client : Granting(d)' <=> Granting(d)
    BY <1>1, <2>3 DEF Granting, IsReply
  <2>5. \A d \in Client : msg[d].op = "RELEASE" =>
          /\ rpc'[d] = "poll" => \A i \in 1 .. Len(rx') : IsReply(i)' => ~rx'[i].err
          /\ rpc'[d] = "done" => out'[d] = "OK"
    BY <1>1, <1>7, <2>1 DEF TableInv, IsReply
  <2>6. TableInv'
    BY <1>1, <1>8, <2>1, <2>4, <2>5, TableFrame
  <2> QED
    BY <2>2, <2>6
<1> QED
  BY <1>1, <1>2, <1>9, <1>10, <1>11, <1>12, <1>13, RpcFrame

(* What serving a request does to the mappings: only its own address.      *)
LEMMA ServeFacts ==
  ASSUME RmTypeOK, \A g \in Gpa : stage2[g] # None => Home[stage2[g]] = g,
         NEW r \in Request, Home[r.handle] = r.gpa
  PROVE  /\ \A g \in Gpa : g # r.gpa => Applied(r)[g] = stage2[g]
         /\ r.op = "ACCEPT" => Applied(r)[r.gpa] = r.handle
         /\ r.op = "RELEASE" /\ Granted(r) => stage2[r.gpa] = r.handle /\ Applied(r)[r.gpa] = None
         /\ \A g \in Gpa : Applied(r)[g] # None => Home[Applied(r)[g]] = g
         /\ r.op = "RELEASE" => \A g \in Gpa : Applied(r)[g] # r.handle
         /\ r.gpa \in Gpa /\ r.handle \in Handle /\ r.handle # None
<1>1. /\ r.gpa \in Gpa /\ r.handle \in Handle /\ r.handle # None
      /\ r.op = "ACCEPT" \/ r.op = "RELEASE"
  BY RmAssumption DEF Request, Op
<1>2. stage2 \in [Gpa -> Handle \cup {None}]
  BY DEF RmTypeOK
<1>3. CASE r.op = "ACCEPT"
  <2>1. Applied(r) = [stage2 EXCEPT ![r.gpa] = r.handle]
    BY <1>3 DEF Applied
  <2>2. /\ Applied(r)[r.gpa] = r.handle
        /\ \A g \in Gpa : g # r.gpa => Applied(r)[g] = stage2[g]
    BY <1>1, <1>2, <2>1
  <2>3. \A g \in Gpa : Applied(r)[g] # None => Home[Applied(r)[g]] = g
    BY <2>2
  <2> QED
    BY <1>1, <1>3, <2>2, <2>3
<1>4. CASE r.op = "RELEASE"
  <2>1. \A g \in Gpa : Applied(r)[g] = IF stage2[g] = r.handle THEN None ELSE stage2[g]
    BY <1>4 DEF Applied
  <2>2. \A g \in Gpa : stage2[g] = r.handle => g = r.gpa
    BY <1>1
  <2>3. Granted(r) => stage2[r.gpa] = r.handle
    BY <1>4, <2>2 DEF Granted
  <2>4. \A g \in Gpa : Applied(r)[g] # None => Home[Applied(r)[g]] = g
    BY <2>1
  <2> QED
    BY <1>1, <1>4, <2>1, <2>2, <2>3, <2>4
<1> QED
  BY <1>1, <1>3, <1>4

(* Requests are served in the order they were sent. *)
LEMMA IInvRmServe ==
  ASSUME IInv, RmServe,
         UNCHANGED <<dev, hostVars, pending, work, cur, ret, accepted>>
  PROVE  IInv'
<1>1. /\ UNCHANGED <<ggSeq, ggLock, rpc, msg, out, own, wrapped, expired>>
      /\ tx # <<>> /\ tx' = Tail(tx)
  BY DEF RmServe
<1>2. RmTypeOK' /\ RmTypeOK
  BY RmType DEF IInv, TypeOK
<1>3. tx \in Seq(TxEntry) /\ rx \in Seq(RxEntry) /\ stage2 \in [Gpa -> Handle \cup {None}]
  BY <1>2 DEF RmTypeOK, RxEntry, TxEntry
<1>4. /\ Head(tx) = tx[1] /\ tx[1] \in TxEntry /\ 1 \in 1 .. Len(tx) /\ Len(tx) \in Nat
      /\ Len(tx') = Len(tx) - 1 /\ tx' \in Seq(TxEntry)
      /\ \A n \in 1 .. Len(tx') : n + 1 \in 1 .. Len(tx) /\ tx'[n] = tx[n + 1]
  BY <1>1, <1>3, TailFacts
<1>5. PICK r \in Request :
        /\ r = tx[1].req /\ Home[r.handle] = r.gpa
        /\ tx[1].seq \in Seqs /\ tx[1].live \in BOOLEAN
  BY <1>4 DEF TxEntry, IInv, HomeInv
<1>6. PICK ok \in BOOLEAN :
        /\ ok => Granted(r)
        /\ ~ok => r.op = "ACCEPT" \/ ~Granted(r)
        /\ stage2' = IF ok THEN Applied(r) ELSE stage2
        /\ rx' = Append(rx, [type |-> "REPLY", seq |-> tx[1].seq,
                             live |-> tx[1].live, err |-> ~ok])
  BY <1>4, <1>5 DEF RmServe
<1>7. PICK m \in RxEntry :
        /\ rx' = Append(rx, m)
        /\ m.type = "REPLY" /\ m.seq = tx[1].seq /\ m.live = tx[1].live /\ m.err = ~ok
  <2> DEFINE e == [type |-> "REPLY", seq |-> tx[1].seq, live |-> tx[1].live, err |-> ~ok]
  <2>1. e \in RxEntry
    BY <1>5 DEF RxEntry
  <2> QED
    BY <1>6, <2>1
<1>9. /\ Len(rx) \in Nat /\ Len(rx') = Len(rx) + 1 /\ rx'[Len(rx) + 1] = m
      /\ \A n \in 1 .. Len(rx) : rx'[n] = rx[n]
      /\ \A n \in 1 .. Len(rx') :
           \/ n = Len(rx) + 1 /\ rx'[n] = m
           \/ n \in 1 .. Len(rx) /\ rx'[n] = rx[n]
  BY <1>3, <1>7, AppendFacts
<1>10. UNCHANGED <<accepted, view, comps, work, dev, ret, cur>>
  BY DEF hostVars
<1>11. /\ \A g \in Gpa : g # r.gpa => Applied(r)[g] = stage2[g]
       /\ r.op = "ACCEPT" => Applied(r)[r.gpa] = r.handle
       /\ r.op = "RELEASE" /\ Granted(r) => stage2[r.gpa] = r.handle /\ Applied(r)[r.gpa] = None
       /\ \A g \in Gpa : Applied(r)[g] # None => Home[Applied(r)[g]] = g
       /\ r.op = "RELEASE" => \A g \in Gpa : Applied(r)[g] # r.handle
       /\ r.gpa \in Gpa /\ r.handle \in Handle /\ r.handle # None
  BY <1>2, <1>5, ServeFacts DEF IInv, HomeInv
<1>12. \A g \in Gpa : g # r.gpa => stage2'[g] = stage2[g]
  BY <1>6, <1>11
<1>13. r.op \in {"ACCEPT", "RELEASE"}
  BY <1>5 DEF Request, Op
<1>14. ok => Done(r)'
  BY <1>6, <1>11, <1>13 DEF Done
<1>15. HomeInv'
  <2>1. \A n \in 1 .. Len(tx') : Home[tx'[n].req.handle] = tx'[n].req.gpa
    BY <1>4 DEF IInv, HomeInv
  <2>2. \A g \in Gpa : stage2'[g] # None => Home[stage2'[g]] = g
    BY <1>6, <1>11 DEF IInv, HomeInv
  <2> QED
    BY <1>1, <1>10, <2>1, <2>2 DEF IInv, HomeInv
<1>16. CallInv'
  <2>1. CallInv
    BY DEF IInv
  <2>2. ASSUME ~wrapped, NEW d \in Client, rpc[d] = "poll", NEW n \in 1 .. Len(tx'),
               tx'[n].seq = ggSeq
        PROVE  n = Len(tx') /\ tx'[n].live /\ tx'[n].req = msg[d]
    <3>1. n + 1 = Len(tx) /\ tx[n + 1].live /\ tx[n + 1].req = msg[d]
      BY <1>4, <2>1, <2>2 DEF CallInv
    <3> QED
      BY <1>4, <3>1
  <2>3. ASSUME ~wrapped, NEW d \in Client, rpc[d] = "poll", NEW n \in 1 .. Len(rx'),
               rx'[n].type = "REPLY", rx'[n].seq = ggSeq
        PROVE  rx'[n].live /\ tx' = <<>> /\ (~rx'[n].err => Done(msg[d])')
    <3>1. n = Len(rx) + 1 /\ rx'[n] = m
      BY <1>1, <1>9, <2>3, MatchFacts
    <3>2. Len(tx) = 1 /\ tx[1].live /\ r = msg[d]
      BY <1>4, <1>5, <1>7, <2>1, <2>3, <3>1 DEF CallInv
    <3>3. tx' = <<>>
      BY <1>4, <3>2
    <3>4. ok => Done(msg[d])'
      BY <1>1, <1>14, <3>2 DEF Done
    <3> QED
      BY <1>7, <3>1, <3>2, <3>3, <3>4
  <2>4. ~wrapped => \A d \in Client : ~(rpc[d] = "done" /\ out[d] = "OK")
    BY <1>1, <2>1 DEF CallInv
  <2> QED
    BY <1>1, <2>1, <2>2, <2>3, <2>4 DEF CallInv, IsReply
<1>17. ASSUME dev = "live", ~wrapped' PROVE TruthInv'
  <2>1. TruthInv
    BY <1>1, <1>17 DEF IInv
  <2>2. \A g \in Gpa : Quiet(g) => Quiet(g)' /\ g # r.gpa /\ stage2'[g] = stage2[g]
    BY <1>4, <1>5, <1>12 DEF Quiet
  <2>3. cur.gpa \in Gpa /\ \A n \in 1 .. Len(comps) : comps[n].req.gpa \in Gpa
    BY Elements, RequestFacts DEF IInv, TypeOK
  <2> QED
    BY <1>10, <2>1, <2>2, <2>3 DEF TruthInv, Done
<1>18. \A d \in Client : ggLock' = d <=> rpc'[d] = "poll"
  BY <1>1 DEF IInv, ShapeInv
<1>19. ASSUME ~expired' PROVE CleanInv' /\ TableInv'
  <2>1. CleanInv /\ TableInv /\ ShapeInv /\ TypeOK
    BY <1>1, <1>19 DEF IInv
  <2>2. Len(tx) = 1 /\ tx[1].seq = ggSeq /\ ggLock # Nobody
    BY <1>1, <2>1 DEF CleanInv
  <2>3. \A n \in 1 .. Len(rx) : rx[n].type # "REPLY"
    BY <1>1, <2>1 DEF CleanInv, IsReply
  <2>4. tx' = <<>>
    BY <1>4, <2>2
  <2>5. \A n \in 1 .. Len(rx') : rx'[n].type = "REPLY" => n = Len(rx) + 1 /\ rx'[n] = m
    BY <1>9, <2>3
  <2>6. CleanInv'
    <3>1. \A i, j \in 1 .. Len(rx') : rx'[i].type = "REPLY" /\ rx'[j].type = "REPLY" => i = j
      BY <2>5
    <3>2. \A i \in 1 .. Len(rx') : rx'[i].type = "REPLY" => rx'[i].seq = ggSeq
      BY <1>7, <2>2, <2>5
    <3> QED
      BY <1>1, <2>1, <2>2, <2>4, <3>1, <3>2 DEF CleanInv, IsReply
  <2>7. PICK c \in Client : ggLock = c /\ rpc[c] = "poll"
    BY <1>2, <2>1, <2>2 DEF RmTypeOK, ShapeInv
  <2>8. r = msg[c]
    BY <1>1, <1>5, <2>1, <2>7 DEF CleanInv
  <2>9. \A d \in Client : d # c => rpc[d] = "idle"
    BY <2>1, <2>7, Alone
  <2>10. \A d \in Client : ~Granting(d)
    BY <2>3, <2>7, <2>9 DEF Granting, IsReply
  <2>11. MapIs(Recorded)
    BY <2>1, <2>10 DEF TableInv
  <2>12. \A d \in Client : Granting(d)' <=> d = c /\ ok
    <3>1. (\E i \in 1 .. Len(rx') : rx'[i].type = "REPLY" /\ ~rx'[i].err) <=> ok
      <4>1. Len(rx) + 1 \in 1 .. Len(rx')
        BY <1>9
      <4> QED
        BY <1>7, <1>9, <2>5, <4>1
    <3>2. Granting(c)' <=> ok
      BY <1>1, <2>7, <3>1 DEF Granting, IsReply
    <3>3. \A d \in Client : d # c => ~Granting(d)'
      BY <1>1, <2>9 DEF Granting
    <3> QED
      BY <3>2, <3>3
  <2>13. UNCHANGED Recorded
    BY <1>10 DEF Recorded
  <2>14. r.op = "RELEASE" => ok
    <3>1. SUFFICES ASSUME r.op = "RELEASE" PROVE Granted(r)
      BY <1>6
    <3>2. Pair(r) \in Recorded
      BY <2>1, <2>7, <2>8, <3>1, ReleaseRecorded
    <3>3. stage2[r.gpa] = r.handle
      BY <1>11, <2>11, <3>2 DEF MapIs, Pair
    <3> QED
      BY <1>11, <3>1, <3>3 DEF Granted
  <2>15. ~ok => MapIs(Recorded)'
    <3>1. ~ok => stage2' = stage2
      BY <1>6
    <3> QED
      BY <2>11, <2>13, <3>1 DEF MapIs
  <2>16. ASSUME ok, r.op = "ACCEPT"
         PROVE  /\ \A i \in 1 .. Len(accepted) : accepted[i].gpa # r.gpa
                /\ MapIs(Recorded \cup {Pair(r)})'
    <3>1. stage2[r.gpa] = None
      BY <1>6, <2>16 DEF Granted
    <3>2. stage2'[r.gpa] = r.handle
      BY <1>6, <1>11, <2>16
    <3>3. ASSUME NEW i \in 1 .. Len(accepted) PROVE accepted[i].gpa # r.gpa
      <4>1. /\ accepted[i] = [gpa |-> accepted[i].gpa, handle |-> accepted[i].handle]
            /\ accepted[i].gpa \in Gpa /\ accepted[i].handle \in Handle
        BY <2>1, Elements DEF Pair
      <4>2. accepted[i] \in Recorded
        BY DEF Recorded
      <4>3. [gpa |-> accepted[i].gpa, handle |-> accepted[i].handle] \in Recorded
        BY <4>1, <4>2, Zenon
      <4>4. stage2[accepted[i].gpa] = accepted[i].handle
        BY <2>11, <4>1, <4>3 DEF MapIs
      <4> QED
        BY <3>1, <4>1, <4>4, RmAssumption
    <3>4. \A h : [gpa |-> r.gpa, handle |-> h] \notin Recorded
      <4>1. ASSUME NEW h, [gpa |-> r.gpa, handle |-> h] \in Recorded PROVE FALSE
        <5>1. PICK i \in 1 .. Len(accepted) : accepted[i] = [gpa |-> r.gpa, handle |-> h]
          BY <4>1 DEF Recorded
        <5> QED
          BY <3>3, <5>1
      <4> QED
        BY <4>1
    <3>5. ASSUME NEW g \in Gpa, NEW h \in Handle
          PROVE  stage2'[g] = h <=> [gpa |-> g, handle |-> h] \in Recorded \cup {Pair(r)}
      <4>1. CASE g = r.gpa
        BY <3>2, <3>4, <4>1 DEF Pair
      <4>2. CASE g # r.gpa
        BY <1>12, <2>11, <4>2 DEF MapIs, Pair
      <4> QED
        BY <4>1, <4>2
    <3> QED
      BY <2>13, <3>3, <3>5 DEF MapIs
  <2>17. ASSUME ok, r.op = "RELEASE" PROVE MapIs(Recorded \ {Pair(r)})'
    <3>1. stage2[r.gpa] = r.handle /\ stage2'[r.gpa] = None
      BY <1>6, <1>11, <2>17
    <3>2. ASSUME NEW g \in Gpa, NEW h \in Handle
          PROVE  stage2'[g] = h <=> [gpa |-> g, handle |-> h] \in Recorded \ {Pair(r)}
      <4>1. CASE g = r.gpa
        <5>1. stage2'[g] # h
          BY <3>1, <4>1, RmAssumption
        <5>2. [gpa |-> g, handle |-> h] \in Recorded => h = r.handle
          BY <2>11, <3>1, <4>1 DEF MapIs
        <5> QED
          BY <4>1, <5>1, <5>2 DEF Pair
      <4>2. CASE g # r.gpa
        BY <1>12, <2>11, <4>2 DEF MapIs, Pair
      <4> QED
        BY <4>1, <4>2
    <3> QED
      BY <2>13, <3>2 DEF MapIs
  <2>18. TableInv'
    <3>1. \A i, j \in 1 .. Len(accepted') : accepted'[i].gpa = accepted'[j].gpa => i = j
      BY <1>10, <2>1 DEF TableInv
    <3>2. (\A d \in Client : ~Granting(d)') => MapIs(Recorded)'
      BY <2>12, <2>15
    <3>3. msg'[c] = r
      BY <1>1, <2>8
    <3>4. ASSUME NEW d \in Client, Granting(d)'
          PROVE  IF msg'[d].op = "ACCEPT"
                 THEN /\ \A i \in 1 .. Len(accepted') : accepted'[i].gpa # msg'[d].gpa
                      /\ MapIs(Recorded \cup {Pair(msg[d])})'
                 ELSE MapIs(Recorded \ {Pair(msg[d])})'
      <4>1. d = c /\ ok /\ msg'[d] = r
        BY <2>12, <3>3, <3>4
      <4>2. Pair(msg[d])' = Pair(r)
        BY <4>1 DEF Pair
      <4>3. CASE r.op = "ACCEPT"
        BY <1>10, <2>16, <4>1, <4>2, <4>3 DEF MapIs
      <4>4. CASE r.op = "RELEASE"
        BY <2>17, <4>1, <4>2, <4>4 DEF MapIs
      <4> QED
        BY <1>13, <4>3, <4>4
    <3>5. \A d \in Client : msg'[d].op = "RELEASE" =>
            /\ rpc'[d] = "poll" => \A i \in 1 .. Len(rx') : IsReply(i)' => ~rx'[i].err
            /\ rpc'[d] = "done" => out'[d] = "OK"
      <4>1. \A d \in Client : rpc'[d] = "poll" => d = c
        BY <1>1, <2>9
      <4>2. \A d \in Client : rpc'[d] # "done"
        BY <1>1, <2>7, <2>9
      <4>3. r.op = "RELEASE" => \A i \in 1 .. Len(rx') : rx'[i].type = "REPLY" => ~rx'[i].err
        BY <1>7, <2>5, <2>14
      <4> QED
        BY <3>3, <4>1, <4>2, <4>3 DEF IsReply
    <3> QED
      BY <3>1, <3>2, <3>4, <3>5 DEF TableInv
  <2> QED
    BY <2>6, <2>18
<1> QED
  BY <1>1, <1>2, <1>15, <1>16, <1>17, <1>18, <1>19, RpcFrame
-----------------------------------------------------------------------------
(* The call is over and its locals are dead. *)
LEMMA ReturnFrame ==
  ASSUME IInv, NEW c \in Client, Return(c)
  PROVE  /\ RmTypeOK' /\ CallInv'
         /\ ~expired' => CleanInv'
         /\ rpc[c] = "done"
         /\ \A d \in Client : rpc'[d] = "idle"
         /\ \A d \in Client : ~Granting(d)'
         /\ \A d \in Client : d # c => rpc[d] = "idle" /\ ~Granting(d)
         /\ \A d \in Client : ggLock' = d <=> rpc'[d] = "poll"
         /\ UNCHANGED <<tx, stage2, wrapped, expired>>
<1>1. /\ UNCHANGED <<ggSeq, ggLock, wrapped, tx, rx, stage2, expired>>
      /\ rpc[c] = "done" /\ rpc' = [rpc EXCEPT ![c] = "idle"]
  BY DEF Return
<1>2. RmTypeOK'
  BY RmType DEF IInv, TypeOK
<1>3. rpc \in [Client -> {"idle", "lock", "poll", "done"}] /\ ShapeInv
  BY DEF IInv, TypeOK, RmTypeOK
<1>4. \A d \in Client : d # c => rpc[d] = "idle"
  BY <1>1, <1>3, Alone
<1>5. \A d \in Client : rpc'[d] = "idle"
  BY <1>1, <1>3, <1>4
<1>6. CallInv'
  BY <1>5 DEF CallInv
<1>7. ~expired' => CleanInv'
  BY <1>1, <1>5 DEF IInv, CleanInv, IsReply
<1>8. \A d \in Client : ggLock' = d <=> rpc'[d] = "poll"
  BY <1>1, <1>3, <1>4, <1>5 DEF ShapeInv
<1> QED
  BY <1>1, <1>2, <1>4, <1>5, <1>6, <1>7, <1>8 DEF Granting

(* The table part after a call, from what the table becomes. *)
LEMMA ReturnTable ==
  ASSUME \A d \in Client : rpc'[d] = "idle" /\ ~Granting(d)',
         \A i, j \in 1 .. Len(accepted') : accepted'[i].gpa = accepted'[j].gpa => i = j,
         NEW S, MapIs(S), stage2' = stage2, Recorded' = S
  PROVE  TableInv'
<1>1. MapIs(Recorded)'
  BY DEF MapIs
<1> QED
  BY <1>1 DEF TableInv

(* Deleting the one entry for an address deletes it from the set. *)
LEMMA RecordedWithout ==
  ASSUME TypeOK, NEW k \in 1 .. Len(accepted),
         \A i, j \in 1 .. Len(accepted) : accepted[i].gpa = accepted[j].gpa => i = j,
         \/ accepted' = Without(accepted, k)
         \/ accepted' = Tail(accepted) /\ k = 1
  PROVE  /\ accepted' \in Seq([gpa : Gpa, handle : Handle])
         /\ Recorded' = Recorded \ {accepted[k]}
         /\ \A i, j \in 1 .. Len(accepted') : accepted'[i].gpa = accepted'[j].gpa => i = j
<1>1. accepted \in Seq([gpa : Gpa, handle : Handle]) /\ Len(accepted) \in Nat /\ accepted # <<>>
  BY DEF TypeOK
<1>2. /\ accepted' \in Seq([gpa : Gpa, handle : Handle])
      /\ Len(accepted') = Len(accepted) - 1
      /\ \A n \in 1 .. Len(accepted') :
           accepted'[n] = IF n < k THEN accepted[n] ELSE accepted[n + 1]
  <2>1. CASE accepted' = Without(accepted, k)
    BY <1>1, <2>1, WithoutFacts
  <2>2. CASE accepted' = Tail(accepted) /\ k = 1
    BY <1>1, <2>2, TailFacts
  <2> QED
    BY <2>1, <2>2
<1>3. \A n \in 1 .. Len(accepted') :
        \E i \in 1 .. Len(accepted) :
          /\ i # k /\ accepted'[n] = accepted[i] /\ i = IF n < k THEN n ELSE n + 1
  BY <1>1, <1>2
<1>4. \A i \in 1 .. Len(accepted) : i # k =>
        \E n \in 1 .. Len(accepted') : accepted'[n] = accepted[i]
  <2> SUFFICES ASSUME NEW i \in 1 .. Len(accepted), i # k
               PROVE  \E n \in 1 .. Len(accepted') : accepted'[n] = accepted[i]
    OBVIOUS
  <2>1. CASE i < k
    <3>1. i \in 1 .. Len(accepted')
      BY <1>1, <1>2, <2>1
    <3> QED
      BY <1>2, <2>1, <3>1
  <2>2. CASE i > k
    <3>1. i - 1 \in 1 .. Len(accepted') /\ ~(i - 1 < k) /\ (i - 1) + 1 = i
      BY <1>1, <1>2, <2>2
    <3>2. accepted'[i - 1] = accepted[i]
      BY <1>2, <3>1
    <3> QED
      BY <3>1, <3>2
  <2> QED
    BY <2>1, <2>2
<1>5. \A i, j \in 1 .. Len(accepted') : accepted'[i].gpa = accepted'[j].gpa => i = j
  <2> SUFFICES ASSUME NEW i \in 1 .. Len(accepted'), NEW j \in 1 .. Len(accepted'),
                      accepted'[i].gpa = accepted'[j].gpa
               PROVE  i = j
    OBVIOUS
  <2>1. PICK a \in 1 .. Len(accepted) :
          accepted'[i] = accepted[a] /\ a # k /\ a = IF i < k THEN i ELSE i + 1
    BY <1>3
  <2>2. PICK b \in 1 .. Len(accepted) :
          accepted'[j] = accepted[b] /\ b # k /\ b = IF j < k THEN j ELSE j + 1
    BY <1>3
  <2>3. a = b
    BY <2>1, <2>2
  <2> QED
    BY <1>1, <1>2, <2>1, <2>2, <2>3
<1>6. Recorded' = Recorded \ {accepted[k]}
  <2>1. \A i \in 1 .. Len(accepted) : i # k => accepted[i] # accepted[k]
    OBVIOUS
  <2>2. ASSUME NEW e \in Recorded' PROVE e \in Recorded \ {accepted[k]}
    <3>1. PICK n \in 1 .. Len(accepted') : e = accepted'[n]
      BY <2>2 DEF Recorded
    <3>2. PICK i \in 1 .. Len(accepted) : i # k /\ accepted'[n] = accepted[i]
      BY <1>3
    <3> QED
      BY <2>1, <3>1, <3>2 DEF Recorded
  <2>3. ASSUME NEW e \in Recorded \ {accepted[k]} PROVE e \in Recorded'
    <3>1. PICK i \in 1 .. Len(accepted) : e = accepted[i]
      BY <2>3 DEF Recorded
    <3>2. i # k
      BY <2>3, <3>1
    <3>3. PICK n \in 1 .. Len(accepted') : accepted'[n] = accepted[i]
      BY <1>4, <3>2
    <3> QED
      BY <3>1, <3>3 DEF Recorded
  <2> QED
    BY <2>2, <2>3
<1> QED
  BY <1>2, <1>5, <1>6

(* Deletion keeps what holds of every entry. *)
LEMMA ShrunkHome ==
  ASSUME TypeOK, NEW k \in 1 .. Len(accepted), HomeInv,
         \/ accepted' = Without(accepted, k)
         \/ accepted' = Tail(accepted)
  PROVE  /\ accepted' \in Seq([gpa : Gpa, handle : Handle])
         /\ \A i \in 1 .. Len(accepted') : Home[accepted'[i].handle] = accepted'[i].gpa
<1>1. accepted \in Seq([gpa : Gpa, handle : Handle]) /\ Len(accepted) \in Nat /\ accepted # <<>>
  BY DEF TypeOK
<1>2. /\ accepted' \in Seq([gpa : Gpa, handle : Handle])
      /\ \A n \in 1 .. Len(accepted') :
           \E i \in 1 .. Len(accepted) : accepted'[n] = accepted[i]
  <2>1. CASE accepted' = Without(accepted, k)
    <3>1. /\ accepted' \in Seq([gpa : Gpa, handle : Handle])
          /\ Len(accepted') = Len(accepted) - 1
          /\ \A n \in 1 .. Len(accepted) - 1 :
               accepted'[n] = IF n < k THEN accepted[n] ELSE accepted[n + 1]
      BY <1>1, <2>1, WithoutFacts
    <3>2. \A n \in 1 .. Len(accepted) - 1 : n \in 1 .. Len(accepted) /\ n + 1 \in 1 .. Len(accepted)
      BY <1>1
    <3> QED
      BY <3>1, <3>2
  <2>2. CASE accepted' = Tail(accepted)
    BY <1>1, <2>2, TailFacts
  <2> QED
    BY <2>1, <2>2
<1> QED
  BY <1>2 DEF HomeInv

(* The result of the work's call goes into the table. *)
LEMMA IInvWorkResult ==
  ASSUME IInv, WorkResult
  PROVE  IInv'
<1>1. /\ UNCHANGED <<dev, pending, cur>>
      /\ UNCHANGED <<reqq, bufs, irq, comps, view>>
      /\ work = "rpc" /\ work' = "complete" /\ ret' = out[Work]
      /\ Return(Work) /\ Record(out[Work])
  BY DEF WorkResult, hostVars
<1>2. /\ RmTypeOK' /\ CallInv'
      /\ ~expired' => CleanInv'
      /\ rpc[Work] = "done"
      /\ \A d \in Client : rpc'[d] = "idle"
      /\ \A d \in Client : ~Granting(d)'
      /\ \A d \in Client : d # Work => rpc[d] = "idle" /\ ~Granting(d)
      /\ \A d \in Client : ggLock' = d <=> rpc'[d] = "poll"
      /\ UNCHANGED <<tx, stage2, wrapped, expired>>
  BY <1>1, ReturnFrame, Constants
<1>3. /\ cur \in HostRequest /\ cur.gpa \in Gpa /\ cur.handle \in Handle
      /\ Home[cur.handle] = cur.gpa
  BY RequestFacts DEF IInv, TypeOK
<1>4. /\ msg[Work].op = cur.op /\ msg[Work].gpa = cur.gpa
      /\ cur.op = "ACCEPT" => msg[Work].handle = cur.handle
      /\ cur.op = "RELEASE" =>
           Entries(cur.gpa) # {} /\ msg[Work].handle = accepted[FirstEntry(cur.gpa)].handle
      /\ dev \notin {"cancelled", "freed"} /\ (dev # "live" => ~irq)
  BY <1>1 DEF IInv, ShapeInv
<1>5. cur.op = "ACCEPT" \/ cur.op = "RELEASE"
  <2>1. msg[Work] \in Request
    BY Constants DEF IInv, TypeOK, RmTypeOK
  <2> QED
    BY <1>4, <2>1 DEF Request, Op
<1>6. accepted \in Seq([gpa : Gpa, handle : Handle]) /\ out[Work] \in Returns
  BY Constants DEF IInv, TypeOK, RmTypeOK
<1>7. BuffersConserved'
  BY <1>1 DEF BuffersConserved, IInv
<1>8. ShapeInv'
  BY <1>1, <1>2, <1>4, Constants DEF ShapeInv
<1>9. dev' = "live" => BusyInv'
  BY <1>1 DEF BusyInv, Processing, IInv
<1>10. ASSUME dev' = "live", ~wrapped' PROVE TruthInv'
  <2>1. TruthInv
    BY <1>1, <1>2, <1>10 DEF IInv
  <2>2. out[Work] = "OK" => tx = <<>> /\ Done(msg[Work])
    BY <1>2, <1>10, Constants DEF IInv, CallInv
  <2>3. ret' = "OK" => cur.op # "BAD" /\ Quiet(cur.gpa) /\ Done(cur)
    BY <1>1, <1>4, <1>5, <2>2 DEF Done, Quiet
  <2> QED
    BY <1>1, <1>2, <2>1, <2>3 DEF TruthInv, Quiet, Done
<1>11. CASE out[Work] # "OK"
  <2>1. accepted' = accepted
    BY <1>1, <1>11 DEF Record
  <2>2. TypeOK'
    BY <1>1, <1>2, <1>6, <2>1 DEF TypeOK, IInv
  <2>3. HomeInv'
    BY <1>2, <2>1 DEF IInv, HomeInv
  <2>4. ASSUME ~expired' PROVE TableInv'
    <3>1. TableInv
      BY <1>2, <2>4 DEF IInv
    <3>2. \A d \in Client : ~Granting(d)
      BY <1>2, <1>11 DEF Granting
    <3>3. MapIs(Recorded)
      BY <3>1, <3>2 DEF TableInv
    <3>4. Recorded' = Recorded
      BY <2>1 DEF Recorded
    <3>5. \A i, j \in 1 .. Len(accepted') : accepted'[i].gpa = accepted'[j].gpa => i = j
      BY <2>1, <3>1 DEF TableInv
    <3> QED
      BY <1>2, <3>3, <3>4, <3>5, ReturnTable
  <2> QED
    BY <1>2, <1>7, <1>8, <1>9, <1>10, <2>2, <2>3, <2>4 DEF IInv
<1>12. CASE out[Work] = "OK" /\ cur.op = "ACCEPT"
  <2> DEFINE e == [gpa |-> cur.gpa, handle |-> cur.handle]
  <2>1. accepted' = Append(accepted, e)
    BY <1>1, <1>12 DEF Record
  <2>2. /\ e \in [gpa : Gpa, handle : Handle] /\ e.gpa = cur.gpa /\ e.handle = cur.handle
        /\ e = Pair(msg[Work])
    BY <1>3, <1>4, <1>12 DEF Pair
  <2> HIDE DEF e
  <2>3. /\ accepted' \in Seq([gpa : Gpa, handle : Handle])
        /\ Len(accepted) \in Nat /\ Len(accepted') = Len(accepted) + 1
        /\ accepted'[Len(accepted) + 1] = e
        /\ \A n \in 1 .. Len(accepted) : accepted'[n] = accepted[n]
        /\ \A n \in 1 .. Len(accepted') :
             \/ n = Len(accepted) + 1 /\ accepted'[n] = e
             \/ n \in 1 .. Len(accepted) /\ accepted'[n] = accepted[n]
    BY <1>6, <2>1, <2>2, AppendFacts
  <2>4. TypeOK'
    BY <1>1, <1>2, <1>6, <2>3 DEF TypeOK, IInv
  <2>5. HomeInv'
    <3>1. \A i \in 1 .. Len(accepted') : Home[accepted'[i].handle] = accepted'[i].gpa
      BY <1>3, <2>2, <2>3 DEF IInv, HomeInv
    <3> QED
      BY <1>2, <3>1 DEF IInv, HomeInv
  <2>6. ASSUME ~expired' PROVE TableInv'
    <3>1. TableInv
      BY <1>2, <2>6 DEF IInv
    <3>2. Granting(Work)
      BY <1>2, <1>12 DEF Granting
    <3>3. /\ \A i \in 1 .. Len(accepted) : accepted[i].gpa # cur.gpa
          /\ MapIs(Recorded \cup {e})
      <4>1. /\ \A i \in 1 .. Len(accepted) : accepted[i].gpa # msg[Work].gpa
            /\ MapIs(Recorded \cup {Pair(msg[Work])})
        <5>1. msg[Work].op = "ACCEPT"
          BY <1>4, <1>12
        <5> QED
          BY <3>1, <3>2, <5>1, Constants DEF TableInv
      <4>2. MapIs(Recorded \cup {e})
        BY <2>2, <4>1, Zenon
      <4> QED
        BY <1>4, <4>1, <4>2
    <3>4. Recorded' = Recorded \cup {e}
      <4>1. ASSUME NEW x \in Recorded' PROVE x \in Recorded \cup {e}
        <5>1. PICK n \in 1 .. Len(accepted') : x = accepted'[n]
          BY <4>1 DEF Recorded
        <5> QED
          BY <2>3, <5>1 DEF Recorded
      <4>2. ASSUME NEW x \in Recorded \cup {e} PROVE x \in Recorded'
        <5>1. CASE x = e
          <6>1. Len(accepted) + 1 \in 1 .. Len(accepted')
            BY <2>3
          <6> QED
            BY <2>3, <5>1, <6>1 DEF Recorded
        <5>2. CASE x \in Recorded
          <6>1. PICK n \in 1 .. Len(accepted) : x = accepted[n]
            BY <5>2 DEF Recorded
          <6>2. n \in 1 .. Len(accepted')
            BY <2>3
          <6> QED
            BY <2>3, <6>1, <6>2 DEF Recorded
        <5> QED
          BY <4>2, <5>1, <5>2
      <4> QED
        BY <4>1, <4>2
    <3>5. \A i, j \in 1 .. Len(accepted') : accepted'[i].gpa = accepted'[j].gpa => i = j
      BY <2>2, <2>3, <3>1, <3>3 DEF TableInv
    <3> QED
      BY <1>2, <3>3, <3>4, <3>5, ReturnTable
  <2> QED
    BY <1>2, <1>7, <1>8, <1>9, <1>10, <2>4, <2>5, <2>6 DEF IInv
<1>13. CASE out[Work] = "OK" /\ cur.op = "RELEASE"
  <2>1. accepted' = Without(accepted, FirstEntry(cur.gpa))
    BY <1>1, <1>13 DEF Record
  <2>2. /\ FirstEntry(cur.gpa) \in 1 .. Len(accepted)
        /\ accepted[FirstEntry(cur.gpa)].gpa = cur.gpa
    BY <1>3, <1>4, <1>13, FirstEntryFacts DEF IInv
  <2>3. PICK k \in 1 .. Len(accepted) :
          /\ accepted' = Without(accepted, k) /\ accepted[k].gpa = cur.gpa
          /\ msg[Work].handle = accepted[k].handle
    BY <1>4, <1>13, <2>1, <2>2
  <2>4. /\ accepted' \in Seq([gpa : Gpa, handle : Handle])
        /\ \A i \in 1 .. Len(accepted') : Home[accepted'[i].handle] = accepted'[i].gpa
    BY <2>3, ShrunkHome DEF IInv
  <2>5. TypeOK'
    BY <1>1, <1>2, <1>6, <2>4 DEF TypeOK, IInv
  <2>6. HomeInv'
    BY <1>2, <2>4 DEF IInv, HomeInv
  <2>7. ASSUME ~expired' PROVE TableInv'
    <3>1. TableInv /\ TypeOK
      BY <1>2, <2>7 DEF IInv
    <3>2. Granting(Work)
      BY <1>2, <1>13 DEF Granting
    <3>3. accepted[k] = Pair(msg[Work])
      <4>1. accepted[k] = Pair(accepted[k])
        BY <3>1, Elements
      <4> QED
        BY <1>4, <2>3, <4>1 DEF Pair
    <3>4. MapIs(Recorded \ {accepted[k]})
      BY <1>4, <1>13, <3>1, <3>2, <3>3, Constants DEF TableInv
    <3>5. \A i, j \in 1 .. Len(accepted) : accepted[i].gpa = accepted[j].gpa => i = j
      BY <3>1 DEF TableInv
    <3>6. /\ Recorded' = Recorded \ {accepted[k]}
          /\ \A i, j \in 1 .. Len(accepted') : accepted'[i].gpa = accepted'[j].gpa => i = j
      BY <2>3, <3>1, <3>5, RecordedWithout
    <3> QED
      BY <1>2, <3>4, <3>6, ReturnTable
  <2> QED
    BY <1>2, <1>7, <1>8, <1>9, <1>10, <2>5, <2>6, <2>7 DEF IInv
<1> QED
  BY <1>5, <1>11, <1>12, <1>13

(* The removal's call is over; its entry goes, whatever the result. *)
LEMMA IInvRemoveResult ==
  ASSUME IInv, RemoveResult
  PROVE  IInv'
<1>1. /\ UNCHANGED <<dev, pending, work, cur, ret>>
      /\ UNCHANGED <<reqq, bufs, irq, comps, view>>
      /\ Return(Remove) /\ accepted' = Tail(accepted)
  BY DEF RemoveResult, hostVars
<1>2. /\ RmTypeOK' /\ CallInv'
      /\ ~expired' => CleanInv'
      /\ rpc[Remove] = "done"
      /\ \A d \in Client : rpc'[d] = "idle"
      /\ \A d \in Client : ~Granting(d)'
      /\ \A d \in Client : d # Remove => rpc[d] = "idle" /\ ~Granting(d)
      /\ \A d \in Client : ggLock' = d <=> rpc'[d] = "poll"
      /\ UNCHANGED <<tx, stage2, wrapped, expired>>
  BY <1>1, ReturnFrame, Constants
<1>3. /\ dev = "cancelled" /\ accepted # <<>> /\ work = "idle" /\ ~irq /\ ~pending
      /\ msg[Remove] = [op |-> "RELEASE", gpa |-> accepted[1].gpa, handle |-> accepted[1].handle]
  BY <1>2 DEF IInv, ShapeInv
<1>4. 1 \in 1 .. Len(accepted)
  BY <1>3, TailFacts DEF IInv, TypeOK
<1>5. /\ accepted' \in Seq([gpa : Gpa, handle : Handle])
      /\ \A i \in 1 .. Len(accepted') : Home[accepted'[i].handle] = accepted'[i].gpa
  BY <1>1, <1>4, ShrunkHome DEF IInv
<1>6. TypeOK'
  BY <1>1, <1>2, <1>5 DEF TypeOK, IInv
<1>7. HomeInv'
  BY <1>2, <1>5 DEF IInv, HomeInv
<1>8. BuffersConserved'
  BY <1>1 DEF BuffersConserved, IInv
<1>9. ShapeInv'
  BY <1>1, <1>2, <1>3, Constants DEF ShapeInv
<1>10. ASSUME ~expired' PROVE TableInv'
  <2>1. TableInv /\ TypeOK
    BY <1>2, <1>10 DEF IInv
  <2>2. msg[Remove].op = "RELEASE" /\ Pair(msg[Remove]) = accepted[1]
    <3>1. accepted[1] = Pair(accepted[1])
      BY <1>4, <2>1, Elements
    <3> QED
      BY <1>3, <3>1 DEF Pair
  <2>3. Granting(Remove)
    BY <1>2, <2>1, <2>2, Constants DEF TableInv, Granting
  <2>4. MapIs(Recorded \ {accepted[1]})
    BY <2>1, <2>2, <2>3, Constants DEF TableInv
  <2>5. \A i, j \in 1 .. Len(accepted) : accepted[i].gpa = accepted[j].gpa => i = j
    BY <2>1 DEF TableInv
  <2>6. /\ Recorded' = Recorded \ {accepted[1]}
        /\ \A i, j \in 1 .. Len(accepted') : accepted'[i].gpa = accepted'[j].gpa => i = j
    BY <1>1, <1>4, <2>1, <2>5, RecordedWithout
  <2> QED
    BY <1>2, <2>4, <2>6, ReturnTable
<1> QED
  BY <1>1, <1>2, <1>3, <1>6, <1>7, <1>8, <1>9, <1>10 DEF IInv
-----------------------------------------------------------------------------
LEMMA IInvStutter ==
  ASSUME IInv, UNCHANGED vars
  PROVE  IInv'
<1>1. /\ UNCHANGED <<rmVars, accepted>>
      /\ UNCHANGED <<dev, reqq, bufs, irq, pending, work, cur, ret, comps, view>>
  BY DEF vars
<1>2. UNCHANGED <<rpc, msg, ggLock, tx, stage2, wrapped>>
  BY <1>1 DEF rmVars
<1>3. RmTypeOK' /\ HomeInv' /\ CallInv' /\ (~expired' => CleanInv' /\ TableInv')
  BY <1>1, RmFrame
<1>4. TypeOK'
  BY <1>1, <1>3 DEF TypeOK, IInv
<1>5. BuffersConserved' /\ ShapeInv'
  BY <1>1, <1>2 DEF BuffersConserved, ShapeInv, IInv, Entries, FirstEntry
<1>6. dev' = "live" => BusyInv'
  BY <1>1 DEF BusyInv, Processing, IInv
<1>7. dev' = "live" /\ ~wrapped' => TruthInv'
  BY <1>1, <1>2 DEF TruthInv, IInv, Quiet, Done
<1> QED
  BY <1>3, <1>4, <1>5, <1>6, <1>7 DEF IInv

LEMMA IInvStep == IInv /\ [Next]_vars => IInv'
<1> SUFFICES ASSUME IInv, [Next]_vars PROVE IInv'
  OBVIOUS
<1>1. ASSUME NEW r \in HostRequest, HostPost(r) PROVE IInv'
  BY <1>1, IInvHostPost
<1>2. CASE HostConsume
  BY <1>2, IInvHostConsume
<1>3. CASE ReqCallback \/ WorkStart \/ WorkDone \/ WorkReturn
  BY <1>3, IInvIdle
<1>4. CASE WorkTake
  BY <1>4, IInvWorkTake
<1>5. CASE WorkReject
  BY <1>5, IInvWorkReject
<1>6. CASE WorkCall
  BY <1>6, IInvWorkCall
<1>7. CASE WorkResult
  BY <1>7, IInvWorkResult
<1>8. CASE WorkComplete
  BY <1>8, IInvWorkComplete
<1>9. ASSUME NEW c \in Client, RpcStep(c) PROVE IInv'
  BY <1>9, IInvLockAndSend, IInvPoll, IInvPollTimeout DEF RpcStep, RpcNext
<1>10. CASE RmStep
  BY <1>10, IInvRmServe, IInvRmNotify DEF RmStep
<1>11. CASE RemoveReset \/ RemoveCancel \/ RemoveFree
  BY <1>11, IInvRemove
<1>12. CASE RemoveCall
  BY <1>12, IInvRemoveCall
<1>13. CASE RemoveResult
  BY <1>13, IInvRemoveResult
<1>14. CASE Gone \/ UNCHANGED vars
  BY <1>14, IInvStutter DEF Gone
<1> QED
  BY <1>1, <1>2, <1>3, <1>4, <1>5, <1>6, <1>7, <1>8, <1>9, <1>10, <1>11, <1>12, <1>13, <1>14
  DEF Next, WorkNext, RemoveNext

LEMMA Invariant == Spec => []IInv
  BY InitIInv, IInvStep, PTL DEF Spec

(* With nobody calling, the mappings are the table, and its first entry    *)
(* for an address is its only one.                                         *)
LEMMA IInvTableExact == IInv => TableExact
<1> SUFFICES ASSUME IInv, ~expired, work # "rpc", rpc[Remove] = "idle", NEW g \in Gpa
             PROVE  IF Entries(g) = {} THEN stage2[g] = None
                    ELSE stage2[g] = accepted[FirstEntry(g)].handle
  BY DEF TableExact
<1>1. TypeOK /\ ShapeInv /\ TableInv
  BY DEF IInv
<1>2. \A c \in Client : ~Granting(c)
  BY <1>1, Constants DEF ShapeInv, Granting
<1>3. MapIs(Recorded)
  BY <1>1, <1>2 DEF TableInv
<1>4. CASE Entries(g) = {}
  <2>1. ASSUME NEW h \in Handle, stage2[g] = h PROVE FALSE
    <3>1. [gpa |-> g, handle |-> h] \in Recorded
      BY <1>3, <2>1 DEF MapIs
    <3>2. PICK i \in 1 .. Len(accepted) : accepted[i] = [gpa |-> g, handle |-> h]
      BY <3>1 DEF Recorded
    <3>3. DOMAIN accepted = 1 .. Len(accepted)
      BY <1>1 DEF TypeOK
    <3>4. accepted[i].gpa = g
      BY <3>2
    <3> QED
      BY <1>4, <3>3, <3>4 DEF Entries
  <2>2. stage2[g] \in Handle \cup {None}
    BY <1>1 DEF TypeOK, RmTypeOK
  <2> QED
    BY <1>4, <2>1, <2>2
<1>5. CASE Entries(g) # {}
  <2>1. PICK i \in 1 .. Len(accepted) :
          i = FirstEntry(g) /\ accepted[i].gpa = g /\ accepted[i].handle \in Handle
    BY <1>1, <1>5, FirstEntryFacts
  <2>2. accepted[i] = [gpa |-> g, handle |-> accepted[i].handle]
    <3>1. accepted[i] = Pair(accepted[i])
      BY <1>1, Elements
    <3> QED
      BY <2>1, <3>1 DEF Pair
  <2>3. accepted[i] \in Recorded
    BY DEF Recorded
  <2>4. [gpa |-> g, handle |-> accepted[i].handle] \in Recorded
    BY <2>2, <2>3, Zenon
  <2>5. stage2[g] = accepted[i].handle
    BY <1>3, <2>1, <2>4 DEF MapIs
  <2> QED
    BY <1>5, <2>1, <2>5
<1> QED
  BY <1>4, <1>5
-----------------------------------------------------------------------------
(***************************************************************************)
(* The variables of the transport and of the client keep their types, and  *)
(* no more than Depth messages are ever queued each way.                   *)
(***************************************************************************)
THEOREM TypeCorrect == Spec => []TypeOK
<1>1. IInv => TypeOK
  BY DEF IInv
<1> QED
  BY <1>1, Invariant, PTL

(***************************************************************************)
(* vga_work_func gives every request buffer back on every path, refused,   *)
(* failed or timed out.                                                    *)
(***************************************************************************)
THEOREM BufferSafety == Spec => []BuffersConserved
<1>1. IInv => BuffersConserved
  BY DEF IInv
<1> QED
  BY <1>1, Invariant, PTL

(***************************************************************************)
(* gg_rpc returns the answer to its own request, for every modulus of      *)
(* gg_seq and every depth of the queues, until a number is used again      *)
(* while a message carries it.                                             *)
(***************************************************************************)
THEOREM VerdictSafety == Spec => []VerdictOwn
<1>1. IInv => VerdictOwn
  BY DEF IInv, CallInv, VerdictOwn
<1> QED
  BY <1>1, Invariant, PTL

(***************************************************************************)
(* While the device lives, what the completions told the host about an     *)
(* address is how the RM has it mapped, whatever was lost or timed out     *)
(* before.                                                                 *)
(***************************************************************************)
THEOREM TruthSafety == Spec => []HostToldTruth
<1>1. IInv => HostToldTruth
  BY DEF IInv, TruthInv, HostToldTruth
<1> QED
  BY <1>1, Invariant, PTL

(***************************************************************************)
(* Until a call times out, vga->accepted between calls is exactly what is  *)
(* mapped, so a RELEASE that carries only an address frees the right       *)
(* parcel and vga_remove leaves nothing mapped.                            *)
(***************************************************************************)
THEOREM TableSafety == Spec => []TableExact
  BY Invariant, IInvTableExact, PTL
=============================================================================
