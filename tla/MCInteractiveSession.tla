------------------------- MODULE MCInteractiveSession -------------------------
(* Small instances of InteractiveSession. *)
EXTENDS InteractiveSession, TLC

CONSTANTS m1, m2, m3

Symmetry == Permutations(Message)
=============================================================================
