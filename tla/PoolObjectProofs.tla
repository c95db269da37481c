-------------------------- MODULE PoolObjectProofs --------------------------
(***************************************************************************)
(* Proofs about PoolObject, for any number of buffer objects, blocks and   *)
(* resource ids, and for both values of virglhack.                         *)
(***************************************************************************)
EXTENDS PoolObject, TLAPS

(* Where an object has blocks and an id, and that none are shared.         *)
ObjectInv ==
  /\ \A b \in Bo : st[b] = "none" => blocks[b] = {} /\ id[b] = NoId
  /\ \A b \in Bo : st[b] = "blocks" => id[b] = NoId
  /\ \A b \in Bo : st[b] # "none" => blocks[b] # {}
  /\ \A b \in Bo : id[b] # NoId => id[b] \in taken
  /\ \A b \in Bo : st[b] = "unref" => id[b] # NoId
  /\ \A b, c \in Bo : b # c /\ id[b] # NoId => id[b] # id[c]
  /\ \A b, c \in Bo : b # c => blocks[b] \cap blocks[c] = {}
  /\ \A b \in Bo : lost \cap blocks[b] = {}

(* A command in the queue speaks of its object as the object still is.     *)
CmdTrue(c) ==
  /\ id[c.bo] = c.id
  /\ c.op = "CREATE" => st[c.bo] \in {"live", "unref"} /\ c.blocks = blocks[c.bo]
  /\ c.op = "UNREF" => st[c.bo] = "unref"

(* An object has at most a create and, after it, an unref in the queue.    *)
QueueInv ==
  /\ \A n \in 1 .. Len(cmdq) : CmdTrue(cmdq[n])
  /\ \A n, m \in 1 .. Len(cmdq) :
       n < m /\ cmdq[n].bo = cmdq[m].bo => cmdq[n].op = "CREATE" /\ cmdq[m].op = "UNREF"

(* An answered object has no other answer and nothing queued; after an     *)
(* answer that releases, the host does not have its resource.              *)
AnswerInv ==
  /\ \A n \in 1 .. Len(respq) :
       /\ st[respq[n].bo] = "unref"
       /\ \A m \in 1 .. Len(cmdq) : cmdq[m].bo # respq[n].bo
       /\ Released(respq[n].type) => id[respq[n].bo] \notin hostRes
  /\ \A n, m \in 1 .. Len(respq) : n # m => respq[n].bo # respq[m].bo

(* Until a failed unref has put an id the host still uses: the host's ids  *)
(* are taken, a resource has the blocks of the object with its id, and a   *)
(* create in the queue is not refused for its id.                          *)
HostInv ==
  /\ hostRes \subseteq taken
  /\ \A b \in Bo : id[b] \in hostRes => attached[id[b]] = blocks[b]
  /\ \A n \in 1 .. Len(cmdq) : cmdq[n].op = "CREATE" => cmdq[n].id \notin hostRes
  /\ \A n \in 1 .. Len(respq) : ~Released(respq[n].type) => id[respq[n].bo] \in hostRes
  /\ \A k \in lost : \E i \in hostRes : k \in attached[i]

IInv ==
  /\ TypeOK
  /\ ObjectInv
  /\ plugged => QueueInv
  /\ plugged => AnswerInv
  /\ NoAliasedBlocks
  /\ plugged /\ ~Clash => HostInv
-----------------------------------------------------------------------------
LEMMA TailFacts ==
  ASSUME NEW S, NEW q \in Seq(S), q # <<>>
  PROVE  /\ Head(q) = q[1] /\ q[1] \in S /\ 1 \in 1 .. Len(q)
         /\ Tail(q) \in Seq(S) /\ Len(q) \in Nat
         /\ Len(Tail(q)) = Len(q) - 1
         /\ \A n \in 1 .. Len(Tail(q)) :
              n + 1 \in 1 .. Len(q) /\ Tail(q)[n] = q[n + 1]
  OBVIOUS

LEMMA AppendFacts ==
  ASSUME NEW S, NEW q \in Seq(S), NEW c \in S
  PROVE  /\ Append(q, c) \in Seq(S) /\ Len(q) \in Nat
         /\ Len(Append(q, c)) = Len(q) + 1
         /\ \A n \in 1 .. Len(Append(q, c)) :
              \/ n = Len(q) + 1 /\ Append(q, c)[n] = c
              \/ n \in 1 .. Len(q) /\ Append(q, c)[n] = q[n]
  OBVIOUS

LEMMA Entries ==
  ASSUME TypeOK
  PROVE  /\ \A n \in 1 .. Len(cmdq) :
              /\ cmdq[n].bo \in Bo /\ cmdq[n].id \in Ids
              /\ cmdq[n].op \in {"CREATE", "UNREF"}
         /\ \A n \in 1 .. Len(respq) : respq[n].bo \in Bo
<1>1. \A n \in 1 .. Len(cmdq) : cmdq[n] \in Commands
  BY DEF TypeOK
<1>2. \A n \in 1 .. Len(respq) : respq[n] \in Answers
  BY DEF TypeOK
<1> QED
  BY <1>1, <1>2 DEF Commands, Answers

(* An object nobody speaks of yet is in neither queue. *)
LEMMA Unheard ==
  ASSUME IInv, plugged, NEW b \in Bo, st[b] \in {"none", "blocks"}
  PROVE  /\ \A n \in 1 .. Len(cmdq) : cmdq[n].bo # b
         /\ \A n \in 1 .. Len(respq) : respq[n].bo # b
<1>1. \A n \in 1 .. Len(cmdq) : cmdq[n].bo # b
  <2> SUFFICES ASSUME NEW n \in 1 .. Len(cmdq), cmdq[n].bo = b PROVE FALSE
    OBVIOUS
  <2>1. CmdTrue(cmdq[n]) /\ cmdq[n].op \in {"CREATE", "UNREF"}
    BY Entries DEF IInv, QueueInv
  <2> QED
    BY <2>1 DEF CmdTrue
<1>2. \A n \in 1 .. Len(respq) : respq[n].bo # b
  BY DEF IInv, AnswerInv
<1> QED
  BY <1>1, <1>2

LEMMA InitIInv == Init => IInv
<1> SUFFICES ASSUME Init PROVE IInv
  OBVIOUS
<1>1. TypeOK
  BY ObjectAssumption DEF Init, TypeOK
<1>2. ObjectInv
  BY DEF Init, ObjectInv
<1>3. QueueInv /\ AnswerInv /\ HostInv
  BY ObjectAssumption DEF Init, QueueInv, AnswerInv, HostInv
<1>4. NoAliasedBlocks
  BY DEF Init, NoAliasedBlocks
<1> QED
  BY <1>1, <1>2, <1>3, <1>4 DEF IInv

(* Blocks for an object nobody speaks of yet. *)
LEMMA IInvAlloc ==
  ASSUME IInv, NEW b \in Bo, Alloc(b)
  PROVE  IInv'
<1> USE DEF IInv, TypeOK
<1>1. PICK U \in SUBSET FreeBlocks : U # {} /\ blocks' = [blocks EXCEPT ![b] = U]
  BY DEF Alloc
<1>2. /\ plugged /\ st[b] = "none" /\ id[b] = NoId /\ blocks[b] = {}
      /\ st' = [st EXCEPT ![b] = "blocks"]
      /\ UNCHANGED <<reuse, plugged, id, taken, cmdq, respq, hostRes, attached, lost>>
  BY DEF Alloc, ObjectInv
<1>3. U \subseteq Block /\ U \cap lost = {} /\ \A c \in Bo : U \cap blocks[c] = {}
  BY <1>1 DEF FreeBlocks
<1>4. TypeOK'
  BY <1>1, <1>2, <1>3
<1>5. ObjectInv'
  BY <1>1, <1>2, <1>3 DEF ObjectInv
<1>6. \A n \in 1 .. Len(cmdq) : cmdq[n].bo # b /\ cmdq[n].bo \in Bo
  BY <1>2, Unheard, Entries
<1>7. \A n \in 1 .. Len(respq) : respq[n].bo # b /\ respq[n].bo \in Bo
  BY <1>2, Unheard, Entries
<1>8. QueueInv'
  BY <1>1, <1>2, <1>6 DEF QueueInv, CmdTrue
<1>9. AnswerInv'
  BY <1>2, <1>7 DEF AnswerInv
<1>10. NoAliasedBlocks'
  BY <1>1, <1>2, ObjectAssumption DEF NoAliasedBlocks
<1>11. ~Clash' => HostInv'
  BY <1>1, <1>2, ObjectAssumption DEF HostInv, Clash
<1> QED
  BY <1>4, <1>5, <1>8, <1>9, <1>10, <1>11

(* A create that fails gives its blocks back before anybody heard of them. *)
LEMMA IInvCreateFail ==
  ASSUME IInv, NEW b \in Bo, CreateFail(b)
  PROVE  IInv'
<1> USE DEF IInv, TypeOK
<1>1. /\ st[b] = "blocks" /\ id[b] = NoId
      /\ blocks' = [blocks EXCEPT ![b] = {}]
      /\ st' = [st EXCEPT ![b] = "none"]
      /\ taken \subseteq taken' /\ taken' \subseteq Ids
      /\ UNCHANGED <<reuse, plugged, id, cmdq, respq, hostRes, attached, lost>>
  BY DEF CreateFail, ObjectInv
<1>2. TypeOK'
  BY <1>1
<1>3. ObjectInv'
  BY <1>1 DEF ObjectInv
<1>4. ASSUME plugged PROVE QueueInv' /\ AnswerInv'
  <2>1. \A n \in 1 .. Len(cmdq) : cmdq[n].bo # b /\ cmdq[n].bo \in Bo
    BY <1>1, <1>4, Unheard, Entries
  <2>2. \A n \in 1 .. Len(respq) : respq[n].bo # b /\ respq[n].bo \in Bo
    BY <1>1, <1>4, Unheard, Entries
  <2>3. QueueInv'
    BY <1>1, <1>4, <2>1 DEF QueueInv, CmdTrue
  <2>4. AnswerInv'
    BY <1>1, <1>4, <2>2 DEF AnswerInv
  <2> QED
    BY <2>3, <2>4
<1>5. NoAliasedBlocks'
  BY <1>1, ObjectAssumption DEF NoAliasedBlocks
<1>6. plugged /\ ~Clash' => HostInv'
  BY <1>1, ObjectAssumption DEF HostInv, Clash
<1> QED
  BY <1>1, <1>2, <1>3, <1>4, <1>5, <1>6

(* The create names a fresh id and the blocks of its object. *)
LEMMA IInvSendCreate ==
  ASSUME IInv, NEW b \in Bo, SendCreate(b)
  PROVE  IInv'
<1> USE DEF IInv, TypeOK
<1>1. PICK i \in Ids \ taken :
        /\ taken' = taken \cup {i}
        /\ id' = [id EXCEPT ![b] = i]
        /\ \/ /\ plugged
              /\ cmdq' = Append(cmdq, [op |-> "CREATE", bo |-> b, id |-> i,
                                       blocks |-> blocks[b]])
           \/ UNCHANGED cmdq
  BY DEF SendCreate
<1>2. /\ st[b] = "blocks" /\ id[b] = NoId /\ i # NoId
      /\ st' = [st EXCEPT ![b] = "live"]
      /\ UNCHANGED <<reuse, plugged, blocks, respq, hostRes, attached, lost>>
  BY ObjectAssumption DEF SendCreate, ObjectInv
<1> DEFINE c == [op |-> "CREATE", bo |-> b, id |-> i, blocks |-> blocks[b]]
<1>3. c \in Commands
  BY DEF Commands
<1>4. \A e \in Bo : id[e] # i
  BY <1>2 DEF ObjectInv
<1>5. ObjectInv'
  BY <1>1, <1>2, <1>4 DEF ObjectInv
<1>6. TypeOK'
  <2>1. cmdq' \in Seq(Commands)
    BY <1>1, <1>3, AppendFacts
  <2> QED
    BY <1>1, <1>2, <2>1
<1>7. ASSUME plugged PROVE QueueInv' /\ AnswerInv'
  <2>1. \A n \in 1 .. Len(cmdq) : cmdq[n].bo # b /\ cmdq[n].bo \in Bo
    BY <1>2, <1>7, Unheard, Entries
  <2>2. \A n \in 1 .. Len(respq) : respq[n].bo # b /\ respq[n].bo \in Bo
    BY <1>2, <1>7, Unheard, Entries
  <2>3. CASE cmdq' = Append(cmdq, c)
    <3> HIDE DEF c
    <3>1. /\ Len(cmdq') = Len(cmdq) + 1 /\ Len(cmdq) \in Nat
          /\ \A n \in 1 .. Len(cmdq') :
               \/ n = Len(cmdq) + 1 /\ cmdq'[n] = c
               \/ n \in 1 .. Len(cmdq) /\ cmdq'[n] = cmdq[n]
      BY <2>3, <1>3, AppendFacts
    <3>2. c.op = "CREATE" /\ c.bo = b /\ c.id = i /\ c.blocks = blocks[b]
      BY DEF c
    <3>3. \A n \in 1 .. Len(cmdq') : CmdTrue(cmdq[n])'
      <4> TAKE n \in 1 .. Len(cmdq')
      <4>1. CASE cmdq'[n] = c
        BY <1>1, <1>2, <3>2, <4>1 DEF CmdTrue
      <4>2. CASE n \in 1 .. Len(cmdq) /\ cmdq'[n] = cmdq[n]
        BY <1>1, <1>2, <1>7, <2>1, <4>2 DEF CmdTrue, QueueInv
      <4> QED
        BY <3>1, <4>1, <4>2
    <3>4. \A n, m \in 1 .. Len(cmdq') : n < m /\ cmdq'[n].bo = cmdq'[m].bo =>
            cmdq'[n].op = "CREATE" /\ cmdq'[m].op = "UNREF"
      BY <1>7, <2>1, <3>1, <3>2 DEF QueueInv
    <3>5. QueueInv'
      BY <3>3, <3>4 DEF QueueInv
    <3>6. \A n \in 1 .. Len(respq) : \A m \in 1 .. Len(cmdq') : cmdq'[m].bo # respq[n].bo
      BY <1>7, <2>2, <3>1, <3>2 DEF AnswerInv
    <3>7. AnswerInv'
      BY <1>1, <1>2, <1>7, <2>2, <3>6 DEF AnswerInv
    <3> QED
      BY <3>5, <3>7
  <2>4. CASE UNCHANGED cmdq
    <3>1. QueueInv'
      BY <1>1, <1>2, <1>7, <2>1, <2>4 DEF QueueInv, CmdTrue
    <3>2. AnswerInv'
      BY <1>1, <1>2, <1>7, <2>2, <2>4 DEF AnswerInv
    <3> QED
      BY <3>1, <3>2
  <2> QED
    BY <1>1, <2>3, <2>4
<1>8. NoAliasedBlocks'
  BY <1>1, <1>2, ObjectAssumption DEF NoAliasedBlocks
<1>9. ASSUME plugged, ~Clash' PROVE HostInv'
  <2>1. HostInv /\ i \notin hostRes
    BY <1>1, <1>2, <1>9 DEF HostInv, Clash
  <2>2. \A n \in 1 .. Len(respq) : respq[n].bo # b /\ respq[n].bo \in Bo
    BY <1>2, <1>9, Unheard, Entries
  <2>3. \A n \in 1 .. Len(cmdq') : cmdq'[n].op = "CREATE" => cmdq'[n].id \notin hostRes
    <3>1. CASE cmdq' = Append(cmdq, c)
      <4> HIDE DEF c
      <4>1. c.id = i
        BY DEF c
      <4> QED
        BY <1>3, <2>1, <3>1, <4>1, AppendFacts DEF HostInv
    <3>2. CASE UNCHANGED cmdq
      BY <2>1, <3>2 DEF HostInv
    <3> QED
      BY <1>1, <3>1, <3>2
  <2> QED
    BY <1>1, <1>2, <2>1, <2>2, <2>3 DEF HostInv
<1> QED
  BY <1>2, <1>5, <1>6, <1>7, <1>8, <1>9

(* The last reference queues the unref behind whatever was queued. *)
LEMMA IInvDropQueued ==
  ASSUME IInv, NEW b \in Bo, Drop(b), plugged
  PROVE  IInv'
<1> USE DEF IInv, TypeOK
<1> DEFINE c == [op |-> "UNREF", bo |-> b, id |-> id[b], blocks |-> {}]
<1>1. /\ st[b] = "live" /\ st' = [st EXCEPT ![b] = "unref"]
      /\ cmdq' = Append(cmdq, c)
      /\ UNCHANGED <<reuse, plugged, blocks, id, taken, respq, hostRes, attached, lost>>
  BY DEF Drop
<1>2. c \in Commands /\ id[b] # NoId
  BY <1>1, ObjectAssumption DEF Commands
<1>3. c.op = "UNREF" /\ c.bo = b /\ c.id = id[b]
  OBVIOUS
<1> HIDE DEF c
<1>4. /\ cmdq' \in Seq(Commands)
      /\ Len(cmdq') = Len(cmdq) + 1 /\ Len(cmdq) \in Nat
      /\ \A n \in 1 .. Len(cmdq') :
           \/ n = Len(cmdq) + 1 /\ cmdq'[n] = c
           \/ n \in 1 .. Len(cmdq) /\ cmdq'[n] = cmdq[n]
  BY <1>1, <1>2, AppendFacts
<1>5. TypeOK'
  BY <1>1, <1>4
<1>6. ObjectInv'
  BY <1>1, <1>2 DEF ObjectInv
<1>7. \A n \in 1 .. Len(cmdq) : cmdq[n].bo = b => cmdq[n].op = "CREATE"
  BY <1>1, Entries DEF QueueInv, CmdTrue
<1>8. \A n \in 1 .. Len(respq) : respq[n].bo # b /\ respq[n].bo \in Bo
  BY <1>1, Entries DEF AnswerInv
<1>9. QueueInv'
  <2>1. \A n \in 1 .. Len(cmdq') : CmdTrue(cmdq[n])'
    <3> TAKE n \in 1 .. Len(cmdq')
    <3>1. CASE cmdq'[n] = c
      BY <1>1, <1>3, <3>1 DEF CmdTrue
    <3>2. CASE n \in 1 .. Len(cmdq) /\ cmdq'[n] = cmdq[n]
      BY <1>1, <3>2, Entries DEF CmdTrue, QueueInv
    <3> QED
      BY <1>4, <3>1, <3>2
  <2>2. \A n, m \in 1 .. Len(cmdq') : n < m /\ cmdq'[n].bo = cmdq'[m].bo =>
          cmdq'[n].op = "CREATE" /\ cmdq'[m].op = "UNREF"
    BY <1>3, <1>4, <1>7 DEF QueueInv
  <2> QED
    BY <2>1, <2>2 DEF QueueInv
<1>10. AnswerInv'
  <2>1. \A n \in 1 .. Len(respq) : \A m \in 1 .. Len(cmdq') : cmdq'[m].bo # respq[n].bo
    BY <1>3, <1>4, <1>8 DEF AnswerInv
  <2> QED
    BY <1>1, <1>8, <2>1 DEF AnswerInv
<1>11. NoAliasedBlocks'
  BY <1>1 DEF NoAliasedBlocks
<1>12. ~Clash' => HostInv'
  <2>1. ~Clash' => HostInv
    BY <1>1 DEF Clash
  <2>2. HostInv => \A n \in 1 .. Len(cmdq') :
                     cmdq'[n].op = "CREATE" => cmdq'[n].id \notin hostRes
    BY <1>3, <1>4 DEF HostInv
  <2> QED
    BY <1>1, <2>1, <2>2 DEF HostInv
<1> QED
  BY <1>5, <1>6, <1>9, <1>10, <1>11, <1>12

(* With the device gone the object is released on the spot. *)
LEMMA IInvDropGone ==
  ASSUME IInv, NEW b \in Bo, Drop(b), ~plugged
  PROVE  IInv'
<1> USE DEF IInv, TypeOK
<1>1. /\ st[b] = "live"
      /\ blocks' = [blocks EXCEPT ![b] = {}]
      /\ id' = [id EXCEPT ![b] = NoId]
      /\ st' = [st EXCEPT ![b] = "none"]
      /\ taken' \in {taken, taken \ {id[b]}}
      /\ UNCHANGED <<reuse, plugged, cmdq, respq, hostRes, attached, lost>>
  BY DEF Drop, Cleanup
<1>2. ObjectInv'
  BY <1>1, ObjectAssumption DEF ObjectInv
<1>3. TypeOK'
  BY <1>1, <1>2, ObjectAssumption DEF ObjectInv
<1> QED
  BY <1>1, <1>2, <1>3 DEF NoAliasedBlocks

(* The answer to the unref: blocks and id are free from here on. *)
LEMMA IInvUnrefCb ==
  ASSUME IInv, UnrefCb
  PROVE  IInv'
<1> USE DEF IInv, TypeOK
<1> DEFINE b == respq[1].bo
<1>1. /\ respq # <<>> /\ respq[1] = Head(respq) /\ 1 \in 1 .. Len(respq)
      /\ respq' = Tail(respq) /\ respq' \in Seq(Answers) /\ Len(respq) \in Nat
      /\ Len(respq') = Len(respq) - 1
      /\ \A n \in 1 .. Len(respq') :
           n + 1 \in 1 .. Len(respq) /\ respq'[n] = respq[n + 1]
  BY TailFacts DEF UnrefCb
<1>2. /\ blocks' = [blocks EXCEPT ![b] = {}]
      /\ id' = [id EXCEPT ![b] = NoId]
      /\ st' = [st EXCEPT ![b] = "none"]
      /\ taken' = IF reuse THEN taken \ {id[b]} ELSE taken
      /\ lost' = IF Released(respq[1].type) THEN lost ELSE lost \cup blocks[b]
      /\ UNCHANGED <<reuse, plugged, cmdq, hostRes, attached>>
  BY <1>1 DEF UnrefCb, Cleanup
<1>3. b \in Bo
  BY <1>1, Entries
<1> HIDE DEF b
<1>4. ObjectInv'
  BY <1>2, <1>3, ObjectAssumption DEF ObjectInv
<1>5. TypeOK'
  BY <1>1, <1>2, <1>3, <1>4, ObjectAssumption DEF ObjectInv
<1>6. ASSUME plugged
      PROVE  QueueInv' /\ AnswerInv' /\ NoAliasedBlocks' /\ (~Clash' => HostInv')
  <2>1. \A n \in 1 .. Len(cmdq) : cmdq[n].bo # b /\ cmdq[n].bo \in Bo
    BY <1>1, <1>6, Entries DEF AnswerInv, b
  <2>2. \A n \in 1 .. Len(respq') : respq'[n].bo # b /\ respq'[n].bo \in Bo
    <3> TAKE n \in 1 .. Len(respq')
    <3>1. n + 1 \in 1 .. Len(respq) /\ respq'[n] = respq[n + 1] /\ n + 1 # 1
      BY <1>1
    <3> QED
      BY <1>1, <1>6, <3>1, Entries DEF AnswerInv, b
  <2>3. st[b] = "unref" /\ id[b] # NoId /\ blocks[b] # {}
        /\ (Released(respq[1].type) => id[b] \notin hostRes)
    BY <1>1, <1>3, <1>6 DEF AnswerInv, ObjectInv, b
  <2>4. QueueInv'
    BY <1>2, <1>3, <1>6, <2>1 DEF QueueInv, CmdTrue
  <2>5. AnswerInv'
    <3>1. \A n \in 1 .. Len(respq') :
            /\ st'[respq'[n].bo] = "unref"
            /\ \A m \in 1 .. Len(cmdq) : cmdq[m].bo # respq'[n].bo
            /\ Released(respq'[n].type) => id'[respq'[n].bo] \notin hostRes
      BY <1>1, <1>2, <1>6, <2>2 DEF AnswerInv
    <3>2. \A n, m \in 1 .. Len(respq') : n # m => respq'[n].bo # respq'[m].bo
      <4> TAKE n, m \in 1 .. Len(respq')
      <4>1. n # m => n + 1 # m + 1
        BY <1>1
      <4> QED
        BY <1>1, <1>6, <4>1 DEF AnswerInv
    <3> QED
      BY <1>2, <3>1, <3>2 DEF AnswerInv
  <2>6. NoAliasedBlocks'
    <3> SUFFICES ASSUME NEW i \in hostRes, NEW k \in attached[i]
                 PROVE  k \in lost' \/ \E e \in Bo : id'[e] = i /\ k \in blocks'[e]
      BY <1>2 DEF NoAliasedBlocks
    <3>1. CASE k \in lost
      BY <1>2, <3>1
    <3>2. ASSUME NEW e \in Bo, id[e] = i, k \in blocks[e]
          PROVE  k \in lost' \/ \E f \in Bo : id'[f] = i /\ k \in blocks'[f]
      <4>1. CASE e = b
        BY <1>2, <2>3, <3>2, <4>1
      <4>2. CASE e # b
        BY <1>2, <3>2, <4>2
      <4> QED
        BY <4>1, <4>2
    <3> QED
      BY <1>6, <3>1, <3>2 DEF NoAliasedBlocks
  <2>7. ASSUME ~Clash' PROVE HostInv'
    <3>1. HostInv /\ (reuse => lost' = {})
      BY <1>2, <1>6, <2>7 DEF Clash
    <3>2. hostRes \subseteq taken'
      BY <1>2, <2>3, <3>1 DEF HostInv
    <3>3. \A e \in Bo : id'[e] \in hostRes => attached[id'[e]] = blocks'[e]
      BY <1>2, <3>1, ObjectAssumption DEF HostInv
    <3>4. \A n \in 1 .. Len(respq') :
            ~Released(respq'[n].type) => id'[respq'[n].bo] \in hostRes
      BY <1>1, <1>2, <2>2, <3>1 DEF HostInv
    <3>5. \A k \in lost' : \E i \in hostRes : k \in attached[i]
      <4>1. ~Released(respq[1].type) => id[b] \in hostRes /\ attached[id[b]] = blocks[b]
        BY <1>1, <1>3, <3>1 DEF HostInv, b
      <4> QED
        BY <1>2, <3>1, <4>1 DEF HostInv
    <3> QED
      BY <1>2, <3>1, <3>2, <3>3, <3>4, <3>5 DEF HostInv
  <2> QED
    BY <2>4, <2>5, <2>6, <2>7
<1>7. ~plugged => NoAliasedBlocks'
  BY <1>2 DEF NoAliasedBlocks
<1> QED
  BY <1>2, <1>4, <1>5, <1>6, <1>7
-----------------------------------------------------------------------------
(* What the host's reading of one command leaves of the queue. *)
LEMMA ReadCommand ==
  ASSUME IInv, cmdq # <<>>, cmdq' = Tail(cmdq),
         UNCHANGED <<plugged, st, blocks, id>>
  PROVE  /\ cmdq' \in Seq(Commands)
         /\ Head(cmdq) = cmdq[1] /\ 1 \in 1 .. Len(cmdq) /\ Len(cmdq) \in Nat
         /\ Len(cmdq') = Len(cmdq) - 1
         /\ \A n \in 1 .. Len(cmdq') : n + 1 \in 1 .. Len(cmdq) /\ cmdq'[n] = cmdq[n + 1]
         /\ plugged => QueueInv'
<1> USE DEF IInv, TypeOK
<1>1. /\ cmdq' \in Seq(Commands)
      /\ Head(cmdq) = cmdq[1] /\ 1 \in 1 .. Len(cmdq) /\ Len(cmdq) \in Nat
      /\ Len(cmdq') = Len(cmdq) - 1
      /\ \A n \in 1 .. Len(cmdq') : n + 1 \in 1 .. Len(cmdq) /\ cmdq'[n] = cmdq[n + 1]
  BY TailFacts
<1>2. ASSUME plugged PROVE QueueInv'
  <2>1. \A n \in 1 .. Len(cmdq') : CmdTrue(cmdq[n])'
    BY <1>1, <1>2 DEF QueueInv, CmdTrue
  <2>2. \A n, m \in 1 .. Len(cmdq') : n < m /\ cmdq'[n].bo = cmdq'[m].bo =>
          cmdq'[n].op = "CREATE" /\ cmdq'[m].op = "UNREF"
    <3> TAKE n, m \in 1 .. Len(cmdq')
    <3>1. n < m => n + 1 < m + 1
      BY <1>1
    <3> QED
      BY <1>1, <1>2, <3>1 DEF QueueInv
  <2> QED
    BY <2>1, <2>2 DEF QueueInv
<1> QED
  BY <1>1, <1>2

(* A create: the resource it makes has the id and blocks of its object. *)
LEMMA IInvHostCreate ==
  ASSUME IInv, HostCreate
  PROVE  IInv'
<1> USE DEF IInv, TypeOK
<1> DEFINE c == cmdq[1]
<1>1. /\ cmdq # <<>> /\ cmdq' = Tail(cmdq) /\ Head(cmdq).op = "CREATE"
      /\ UNCHANGED <<reuse, plugged, st, blocks, id, taken, respq, lost>>
  BY DEF HostCreate, objVars
<1>2. /\ cmdq' \in Seq(Commands)
      /\ Head(cmdq) = c /\ 1 \in 1 .. Len(cmdq) /\ Len(cmdq) \in Nat
      /\ Len(cmdq') = Len(cmdq) - 1
      /\ \A n \in 1 .. Len(cmdq') : n + 1 \in 1 .. Len(cmdq) /\ cmdq'[n] = cmdq[n + 1]
      /\ plugged => QueueInv'
  BY <1>1, ReadCommand
<1>3. c \in Commands /\ c.op = "CREATE"
  BY <1>1, <1>2
<1>4. c.bo \in Bo /\ c.id \in Ids /\ c.blocks \subseteq Block
  BY <1>3 DEF Commands
<1>5. \/ /\ c.id \notin hostRes
         /\ hostRes' = hostRes \cup {c.id}
         /\ attached' = [attached EXCEPT ![c.id] = c.blocks]
      \/ UNCHANGED <<hostRes, attached>>
  BY <1>2 DEF HostCreate
<1> HIDE DEF c
<1>6. TypeOK'
  BY <1>1, <1>2, <1>4, <1>5
<1>7. ObjectInv'
  BY <1>1 DEF ObjectInv
<1>8. ASSUME plugged
      PROVE  AnswerInv' /\ NoAliasedBlocks' /\ (~Clash' => HostInv')
  <2>1. id[c.bo] = c.id /\ blocks[c.bo] = c.blocks /\ c.id # NoId
    BY <1>2, <1>3, <1>4, <1>8, ObjectAssumption DEF QueueInv, CmdTrue, c
  <2>2. \A n \in 1 .. Len(respq) : respq[n].bo # c.bo /\ id[respq[n].bo] # c.id
    BY <1>2, <1>4, <1>8, <2>1, Entries DEF AnswerInv, ObjectInv, c
  <2>3. AnswerInv'
    <3>1. \A n \in 1 .. Len(respq) : \A m \in 1 .. Len(cmdq') : cmdq'[m].bo # respq[n].bo
      BY <1>2, <1>8 DEF AnswerInv
    <3>2. \A n \in 1 .. Len(respq) :
            Released(respq[n].type) => id[respq[n].bo] \notin hostRes'
      BY <1>5, <1>8, <2>2 DEF AnswerInv
    <3> QED
      BY <1>1, <1>8, <3>1, <3>2 DEF AnswerInv
  <2>4. NoAliasedBlocks'
    <3> SUFFICES ASSUME NEW i \in hostRes', NEW k \in attached'[i]
                 PROVE  k \in lost \/ \E e \in Bo : id[e] = i /\ k \in blocks[e]
      BY <1>1 DEF NoAliasedBlocks
    <3>1. CASE i \in hostRes /\ k \in attached[i]
      BY <1>8, <3>1 DEF NoAliasedBlocks
    <3>2. CASE i = c.id /\ k \in c.blocks
      BY <1>4, <2>1, <3>2
    <3> QED
      BY <1>4, <1>5, <3>1, <3>2
  <2>5. ASSUME ~Clash' PROVE HostInv'
    <3>1. HostInv
      BY <1>1, <1>8, <2>5 DEF Clash
    <3>2. hostRes' \subseteq taken
      BY <1>4, <1>5, <2>1, <3>1 DEF HostInv, ObjectInv
    <3>3. \A e \in Bo : id[e] \in hostRes' => attached'[id[e]] = blocks[e]
      BY <1>4, <1>5, <2>1, <3>1 DEF HostInv, ObjectInv
    <3>4. \A n \in 1 .. Len(cmdq') : cmdq'[n].op = "CREATE" => cmdq'[n].id \notin hostRes'
      <4> SUFFICES ASSUME NEW n \in 1 .. Len(cmdq'), cmdq'[n].op = "CREATE"
                   PROVE  cmdq'[n].id \notin hostRes'
        OBVIOUS
      <4>1. /\ n + 1 \in 1 .. Len(cmdq) /\ cmdq'[n] = cmdq[n + 1] /\ 1 < n + 1
            /\ cmdq[n + 1].bo \in Bo
        BY <1>2, Entries
      <4>2. cmdq[n + 1].bo # c.bo
        BY <1>2, <1>8, <4>1 DEF QueueInv, c
      <4>3. cmdq[n + 1].id # c.id
        BY <1>4, <1>8, <2>1, <4>1, <4>2 DEF QueueInv, CmdTrue, ObjectInv
      <4> QED
        BY <1>5, <3>1, <4>1, <4>3 DEF HostInv
    <3>5. \A n \in 1 .. Len(respq) :
            ~Released(respq[n].type) => id[respq[n].bo] \in hostRes'
      BY <1>5, <3>1 DEF HostInv
    <3>6. \A k \in lost : \E i \in hostRes' : k \in attached'[i]
      BY <1>4, <1>5, <3>1 DEF HostInv
    <3> QED
      BY <1>1, <3>2, <3>3, <3>4, <3>5, <3>6 DEF HostInv
  <2> QED
    BY <2>3, <2>4, <2>5
<1>9. ~plugged => NoAliasedBlocks'
  BY <1>1 DEF NoAliasedBlocks
<1> QED
  BY <1>1, <1>2, <1>6, <1>7, <1>8, <1>9

(* An unref: the resource of that id goes, or is known to be there still. *)
LEMMA IInvHostUnref ==
  ASSUME IInv, HostUnref
  PROVE  IInv'
<1> USE DEF IInv, TypeOK
<1> DEFINE c == cmdq[1]
<1>1. /\ cmdq # <<>> /\ cmdq' = Tail(cmdq) /\ Head(cmdq).op = "UNREF"
      /\ UNCHANGED <<reuse, plugged, st, blocks, id, taken, lost>>
  BY DEF HostUnref, objVars
<1>2. /\ cmdq' \in Seq(Commands)
      /\ Head(cmdq) = c /\ 1 \in 1 .. Len(cmdq) /\ Len(cmdq) \in Nat
      /\ Len(cmdq') = Len(cmdq) - 1
      /\ \A n \in 1 .. Len(cmdq') : n + 1 \in 1 .. Len(cmdq) /\ cmdq'[n] = cmdq[n + 1]
      /\ plugged => QueueInv'
  BY <1>1, ReadCommand
<1>3. c \in Commands /\ c.op = "UNREF"
  BY <1>1, <1>2
<1>4. c.bo \in Bo /\ c.id \in Ids
  BY <1>3 DEF Commands
<1>5. PICK a \in Answers :
        /\ a.bo = c.bo /\ respq' = Append(respq, a)
        /\ \/ /\ c.id \in hostRes /\ a.type = "OK_NODATA"
              /\ hostRes' = hostRes \ {c.id}
              /\ attached' = [attached EXCEPT ![c.id] = {}]
           \/ /\ c.id \notin hostRes /\ a.type = "INVALID_RESOURCE_ID"
              /\ UNCHANGED <<hostRes, attached>>
           \/ /\ c.id \in hostRes /\ a.type = "UNSPEC"
              /\ UNCHANGED <<hostRes, attached>>
  <2> DEFINE A(t) == [bo |-> c.bo, type |-> t]
  <2>1. /\ A("OK_NODATA") \in Answers /\ A("INVALID_RESOURCE_ID") \in Answers
        /\ A("UNSPEC") \in Answers
    BY <1>4 DEF Answers
  <2>2. CASE /\ c.id \in hostRes /\ respq' = Append(respq, A("OK_NODATA"))
             /\ hostRes' = hostRes \ {c.id}
             /\ attached' = [attached EXCEPT ![c.id] = {}]
    BY <2>1, <2>2
  <2>3. CASE /\ c.id \notin hostRes /\ respq' = Append(respq, A("INVALID_RESOURCE_ID"))
             /\ UNCHANGED <<hostRes, attached>>
    BY <2>1, <2>3
  <2>4. CASE /\ c.id \in hostRes /\ respq' = Append(respq, A("UNSPEC"))
             /\ UNCHANGED <<hostRes, attached>>
    BY <2>1, <2>4
  <2> QED
    BY <1>2, <2>2, <2>3, <2>4 DEF HostUnref
<1> HIDE DEF c
<1>6. /\ respq' \in Seq(Answers)
      /\ Len(respq') = Len(respq) + 1 /\ Len(respq) \in Nat
      /\ \A n \in 1 .. Len(respq') :
           \/ n = Len(respq) + 1 /\ respq'[n] = a
           \/ n \in 1 .. Len(respq) /\ respq'[n] = respq[n]
  BY <1>5, AppendFacts
<1>7. TypeOK'
  BY <1>1, <1>2, <1>4, <1>5, <1>6
<1>8. ObjectInv'
  BY <1>1 DEF ObjectInv
<1>9. hostRes' \subseteq hostRes
      /\ \A i \in hostRes' : attached'[i] = attached[i]
  BY <1>4, <1>5
<1>10. Released(a.type) => c.id \notin hostRes'
  BY <1>5 DEF Released
<1>11. ~Released(a.type) => c.id \in hostRes'
  BY <1>5 DEF Released
<1>12. ASSUME plugged
       PROVE  AnswerInv' /\ NoAliasedBlocks' /\ (~Clash' => HostInv')
  <2>1. id[c.bo] = c.id /\ st[c.bo] = "unref" /\ c.id # NoId
    BY <1>2, <1>3, <1>4, <1>12, ObjectAssumption DEF QueueInv, CmdTrue, c
  <2>2. \A n \in 1 .. Len(respq) : respq[n].bo # c.bo /\ id[respq[n].bo] # c.id
    BY <1>2, <1>4, <1>12, <2>1, Entries DEF AnswerInv, ObjectInv, c
  <2>3. \A n \in 1 .. Len(cmdq') : cmdq'[n].bo # c.bo
    <3> TAKE n \in 1 .. Len(cmdq')
    <3>1. n + 1 \in 1 .. Len(cmdq) /\ cmdq'[n] = cmdq[n + 1] /\ 1 < n + 1
      BY <1>2
    <3> QED
      BY <1>2, <1>3, <1>12, <3>1 DEF QueueInv, c
  <2>4. AnswerInv'
    <3>1. \A n \in 1 .. Len(respq') :
            /\ st[respq'[n].bo] = "unref"
            /\ \A m \in 1 .. Len(cmdq') : cmdq'[m].bo # respq'[n].bo
            /\ Released(respq'[n].type) => id[respq'[n].bo] \notin hostRes'
      <4> TAKE n \in 1 .. Len(respq')
      <4>1. CASE respq'[n] = a
        BY <1>5, <1>10, <2>1, <2>3, <4>1
      <4>2. CASE n \in 1 .. Len(respq) /\ respq'[n] = respq[n]
        <5>1. /\ st[respq[n].bo] = "unref"
              /\ \A m \in 1 .. Len(cmdq) : cmdq[m].bo # respq[n].bo
              /\ Released(respq[n].type) => id[respq[n].bo] \notin hostRes
          BY <1>12, <4>2 DEF AnswerInv
        <5>2. \A m \in 1 .. Len(cmdq') : cmdq'[m].bo # respq[n].bo
          BY <1>2, <5>1
        <5> QED
          BY <1>9, <4>2, <5>1, <5>2
      <4> QED
        BY <1>6, <4>1, <4>2
    <3>2. \A n, m \in 1 .. Len(respq') : n # m => respq'[n].bo # respq'[m].bo
      <4>1. \A n, m \in 1 .. Len(respq) : n # m => respq[n].bo # respq[m].bo
        BY <1>12 DEF AnswerInv
      <4>2. a.bo = c.bo
        BY <1>5
      <4> QED
        BY <1>6, <2>2, <4>1, <4>2
    <3> QED
      BY <1>1, <3>1, <3>2 DEF AnswerInv
  <2>5. NoAliasedBlocks'
    BY <1>1, <1>9, <1>12 DEF NoAliasedBlocks
  <2>6. ASSUME ~Clash' PROVE HostInv'
    <3>1. HostInv
      BY <1>1, <1>12, <2>6 DEF Clash
    <3>2. hostRes' \subseteq taken
      BY <1>9, <3>1 DEF HostInv
    <3>3. \A e \in Bo : id[e] \in hostRes' => attached'[id[e]] = blocks[e]
      BY <1>9, <3>1 DEF HostInv
    <3>4. \A n \in 1 .. Len(cmdq') : cmdq'[n].op = "CREATE" => cmdq'[n].id \notin hostRes'
      BY <1>2, <1>9, <3>1 DEF HostInv
    <3>5. \A n \in 1 .. Len(respq') :
            ~Released(respq'[n].type) => id[respq'[n].bo] \in hostRes'
      <4> TAKE n \in 1 .. Len(respq')
      <4>1. CASE respq'[n] = a
        BY <1>5, <1>11, <2>1, <4>1
      <4>2. CASE n \in 1 .. Len(respq) /\ respq'[n] = respq[n]
        BY <1>5, <2>2, <3>1, <4>2 DEF HostInv
      <4> QED
        BY <1>6, <4>1, <4>2
    <3>6. \A k \in lost : \E i \in hostRes' : k \in attached'[i]
      <4> TAKE k \in lost
      <4>1. PICK i \in hostRes : k \in attached[i]
        BY <3>1 DEF HostInv
      <4>2. i # c.id
        BY <1>4, <2>1, <3>1, <4>1 DEF HostInv, ObjectInv
      <4> QED
        BY <1>4, <1>5, <4>1, <4>2
    <3> QED
      BY <1>1, <3>2, <3>3, <3>4, <3>5, <3>6 DEF HostInv
  <2> QED
    BY <2>4, <2>5, <2>6
<1>13. ~plugged => NoAliasedBlocks'
  BY <1>1 DEF NoAliasedBlocks
<1> QED
  BY <1>1, <1>2, <1>7, <1>8, <1>12, <1>13

(* Without the device nothing is claimed but what the guest's lists say. *)
LEMMA IInvRemove ==
  ASSUME IInv, Unplug \/ Reset
  PROVE  IInv'
<1>1. /\ plugged' = FALSE
      /\ UNCHANGED <<reuse, st, blocks, id, taken, respq, lost>>
      /\ cmdq' \in Seq(Commands) /\ hostRes' \subseteq Ids
      /\ attached' \in [Ids -> SUBSET Block]
  BY DEF IInv, TypeOK, Unplug, Reset, objVars
<1>2. TypeOK'
  BY <1>1 DEF IInv, TypeOK
<1>3. ObjectInv'
  BY <1>1 DEF IInv, ObjectInv
<1> QED
  BY <1>1, <1>2, <1>3 DEF IInv, NoAliasedBlocks

LEMMA IInvStep == IInv /\ [Next]_vars => IInv'
<1> SUFFICES ASSUME IInv, [Next]_vars PROVE IInv'
  OBVIOUS
<1>1. ASSUME NEW b \in Bo, Drop(b) PROVE IInv'
  BY <1>1, IInvDropQueued, IInvDropGone
<1>2. CASE UNCHANGED vars
  BY <1>2 DEF vars, IInv, TypeOK, ObjectInv, QueueInv, CmdTrue, AnswerInv, HostInv,
              NoAliasedBlocks, Clash
<1> QED
  BY <1>1, <1>2, IInvAlloc, IInvCreateFail, IInvSendCreate, IInvUnrefCb,
     IInvHostCreate, IInvHostUnref, IInvRemove
  DEF Next
-----------------------------------------------------------------------------
LEMMA IInvAlways == Spec => []IInv
  BY InitIInv, IInvStep, PTL DEF Spec

(***************************************************************************)
(* virtio_gpu_cmd_unref_cb is the only way back to drm_buddy: a block the  *)
(* host has attached is never carved for another object, for any number of *)
(* objects, blocks and commands in flight, and even after failed unrefs    *)
(* that put an id the host still uses.                                     *)
(***************************************************************************)
THEOREM BlockSafety == Spec => []NoAliasedBlocks
<1>1. IInv => NoAliasedBlocks
  BY DEF IInv
<1> QED
  BY <1>1, IInvAlways, PTL

(***************************************************************************)
(* A refused or never queued create costs the pool nothing: blocks are     *)
(* lost only to resources the host failed to drop.                         *)
(***************************************************************************)
THEOREM LeakSafety == Spec => []LeakOnlyAttached
<1>1. IInv => LeakOnlyAttached
  BY DEF IInv, HostInv, LeakOnlyAttached
<1> QED
  BY <1>1, IInvAlways, PTL

(***************************************************************************)
(* A create in the control queue names an id that is neither a resource of *)
(* the host nor named by another object's command.                         *)
(***************************************************************************)
THEOREM IdSafety == Spec => []IdFresh
<1>1. IInv => IdFresh
  <2> SUFFICES ASSUME IInv, plugged, ~Clash,
                      NEW n \in DOMAIN cmdq, cmdq[n].op = "CREATE"
               PROVE  /\ cmdq[n].id \notin hostRes
                      /\ \A m \in DOMAIN cmdq \ {n} :
                           cmdq[m].id = cmdq[n].id => m > n /\ cmdq[m].op = "UNREF"
    BY DEF IdFresh
  <2>1. DOMAIN cmdq = 1 .. Len(cmdq) /\ Len(cmdq) \in Nat
    BY DEF IInv, TypeOK
  <2>2. cmdq[n].id \notin hostRes
    BY <2>1 DEF IInv, HostInv
  <2>3. ASSUME NEW m \in DOMAIN cmdq \ {n}, cmdq[m].id = cmdq[n].id
        PROVE  m > n /\ cmdq[m].op = "UNREF"
    <3>1. /\ cmdq[m].bo \in Bo /\ cmdq[n].bo \in Bo /\ cmdq[n].id \in Ids
          /\ CmdTrue(cmdq[m]) /\ CmdTrue(cmdq[n])
      BY <2>1, Entries DEF IInv, QueueInv
    <3>2. cmdq[m].bo = cmdq[n].bo
      BY <2>3, <3>1, ObjectAssumption DEF CmdTrue, IInv, ObjectInv
    <3>3. m < n \/ n < m
      BY <2>1
    <3> QED
      BY <2>1, <3>2, <3>3 DEF IInv, QueueInv
  <2> QED
    BY <2>2, <2>3
<1> QED
  BY <1>1, IInvAlways, PTL
=============================================================================
