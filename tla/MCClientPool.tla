---------------------------- MODULE MCClientPool ----------------------------
(***************************************************************************)
(* An instance of ClientPool for TLC: a call, whose context may end, and a *)
(* notification on a pool of two.                                          *)
(***************************************************************************)
EXTENDS ClientPool

CONSTANTS c1, c2, k1, k2

OneNotifier == {c1}
TwoCallers  == {c1, c2}
TwoConns    == {k1, k2}
=============================================================================
