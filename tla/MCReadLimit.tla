----------------------------- MODULE MCReadLimit -----------------------------
(***************************************************************************)
(* Streams of up to three messages for TLC, cut short, cut inside the last *)
(* message or with white space at the end.                                 *)
(***************************************************************************)
EXTENDS ReadLimit

Sizes == 1 .. 6

SomeStreams ==
    {[count |-> 0, ends |-> [j \in 0 .. 0 |-> 0], len |-> l] : l \in 0 .. 3}
      \cup {[count |-> 3,
             ends  |-> [j \in 0 .. 3 |-> IF j = 0 THEN 0 ELSE IF j = 1 THEN a
                                         ELSE IF j = 2 THEN a + b ELSE a + b + c],
             len   |-> a + b + c + d] : a, b, c \in Sizes, d \in {-1, 0, 2}}
=============================================================================
