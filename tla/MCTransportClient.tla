------------------------- MODULE MCTransportClient -------------------------
(***************************************************************************)
(* Two goroutines that share a client.                                     *)
(***************************************************************************)
EXTENDS TransportClient

CONSTANTS c1, c2

TwoCallers == {c1, c2}
=============================================================================
