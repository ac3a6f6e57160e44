-------------------------- MODULE MCCancellableIO --------------------------
(***************************************************************************)
(* Two goroutines on one direction of a connection.                        *)
(***************************************************************************)
EXTENDS CancellableIO

CONSTANTS c1, c2

TwoCallers == {c1, c2}
=============================================================================
