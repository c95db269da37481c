---------------------------- MODULE MCExecBuffer ----------------------------
(* Instances of ExecBuffer for TLC: a plain submission with an out-fence,  *)
(* one on a ring of a context with an out-fence, one on another ring that  *)
(* takes a fence in and sends an event, one from syncobj to syncobj, and a *)
(* transfer.                                                               *)
EXTENDS ExecBuffer

CONSTANTS t1, t2, b1

Plain == [op |-> "SUBMIT", bos |-> {b1}, ring |-> -1, inFence |-> FALSE, inSync |-> FALSE,
          outFence |-> TRUE, outSync |-> FALSE, event |-> FALSE]
OnRing(r) == [Plain EXCEPT !.bos = {}, !.ring = r, !.inFence = (r = 1),
                     !.outFence = (r = 0), !.event = (r = 1)]
Synced == [Plain EXCEPT !.bos = {}, !.outFence = FALSE, !.inSync = TRUE, !.outSync = TRUE]
Transfer == [Plain EXCEPT !.op = "TRANSFER", !.outFence = FALSE]

MCRequest == {Plain, OnRing(0), OnRing(1), Synced, Transfer}

ThreadSymmetry == Permutations(Thread)
FileSymmetry == Permutations(File)
ExecSymmetry == ThreadSymmetry \cup FileSymmetry
=============================================================================
