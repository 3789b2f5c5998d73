--------------------------- MODULE MCBundleStore ---------------------------
(* Instances of BundleStore for TLC.                                       *)
EXTENDS BundleStore, TLC

CONSTANTS p1, p2, h1, h2

OneProfile == {p1}
TwoProfiles == {p1, p2}
TwoHandlers == {h1, h2}
HandlerSymmetry == Permutations(TwoHandlers)
============================================================================
