--------------------------- MODULE BundleHistory ---------------------------
(***************************************************************************)
(* What the team server promises about one shared profile: its versions    *)
(* form one line.  Version 0 is the profile before anybody saved it.  Each *)
(* later version is numbered one more than the last, contains every        *)
(* browsing session the last one contained, and never changes once it is   *)
(* published.  Nothing is said of locks, machines, uploads or failures.    *)
(*                                                                         *)
(* ProfileSync implements this specification with its variables of the     *)
(* same names, and BundleStore once for every profile.                     *)
(***************************************************************************)
EXTENDS Integers

VARIABLES
    version,    \* the number of the current version
    bundle      \* bundle[v] is the set of sessions saved in version v

Init ==
    /\ version = 0
    /\ bundle = [v \in {0} |-> {}]

Publish ==
    /\ version' = version + 1
    /\ DOMAIN bundle' = 0..(version + 1)
    /\ \A v \in 0..version : bundle'[v] = bundle[v]
    /\ bundle[version] \subseteq bundle'[version + 1]

Spec == Init /\ [][Publish]_<<version, bundle>>

============================================================================
