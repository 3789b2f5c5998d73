--------------------------- MODULE MCProfileSync ---------------------------
(* Instances of ProfileSync for TLC.                                       *)
EXTENDS ProfileSync, TLC

CONSTANTS m1, m2, m3

Two == {m1, m2}
Three == {m1, m2, m3}
NoMachine == {}
Symmetry2 == Permutations(Two)
Symmetry3 == Permutations(Three)
============================================================================
