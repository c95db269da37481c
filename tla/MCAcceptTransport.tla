------------------------- MODULE MCAcceptTransport --------------------------
(* Instances of AcceptTransport for TLC. *)
EXTENDS AcceptTransport

CONSTANTS g1, h1, h2

(* Both parcels are made for the one address. *)
HomeOf == [h \in Handle |-> g1]
=============================================================================
