------------------------------ MODULE PoolCall ------------------------------
(***************************************************************************)
(* What vga_pool_request() promises its callers, and all that GuestPool    *)
(* relies on: a call is refused before the host hears of it, or it is      *)
(* posted once; it returns the host's verdict only after the host served   *)
(* this very call, or gives up, and then the host may or may not have      *)
(* served it. PoolRequest, with its contexts, descriptors, locks and       *)
(* callback, is shown to implement this as long as no interrupt overlaps   *)
(* an add to the ring.                                                     *)
(***************************************************************************)
CONSTANT Caller

VARIABLE call   \* how far each caller's request is

Init == call = [c \in Caller |-> "idle"]

Move(c, from, to) ==
  /\ call[c] \in from
  /\ call' = [call EXCEPT ![c] = to]

Start(c)  == Move(c, {"idle"}, "pending")
Refuse(c) == Move(c, {"pending"}, "idle")
Post(c)   == Move(c, {"pending"}, "posted")
Serve(c)  == Move(c, {"posted"}, "served")
Return(c) == Move(c, {"served"}, "idle")
GiveUp(c) == Move(c, {"posted", "served"}, "gaveUp")
Report(c) == Move(c, {"gaveUp"}, "idle")

Next ==
  \E c \in Caller :
    \/ Start(c) \/ Refuse(c) \/ Post(c) \/ Serve(c)
    \/ Return(c) \/ GiveUp(c) \/ Report(c)

Spec == Init /\ [][Next]_call
=============================================================================
