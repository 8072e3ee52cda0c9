------------------------ MODULE MCSessionLifecycle -------------------------
(***************************************************************************)
(* Instances of SessionLifecycle for TLC.  Sessions are interchangeable.   *)
(***************************************************************************)
EXTENDS SessionLifecycle, TLC

CONSTANTS s1, s2

OneMessage == [q \in Kinds |-> 1]

Symmetry == Permutations(Sessions)
=============================================================================
