----------------------------- MODULE MCCtrlQueue ----------------------------
(* Instances of CtrlQueue for TLC: a batch of two that drops an object,    *)
(* and an object's create, on a ring of three descriptors.                 *)
EXTENDS CtrlQueue, TLC

CONSTANTS t1, t2, fw, submit, flush, create, unref, X, Y

MCScript == t1 :> <<submit, flush>> @@ t2 :> <<create>> @@ fw :> <<>>
MCElems == submit :> 2 @@ flush :> 2 @@ create :> 1 @@ unref :> 2
MCTimeline == submit :> X @@ flush :> Y @@ create :> X @@ unref :> NoFence
MCDrops == submit :> unref @@ flush :> NoCmd @@ create :> NoCmd @@ unref :> NoCmd
=============================================================================
