----------------------------- MODULE ProfileFiles ----------------------------
(* What is done to the directory of a local profile besides browsing in it: *)
(* packed, sent to the team, unpacked over, trimmed, imported into          *)
(* (agent/src/ipc.rs profile.pack, profile.uploadTo, profile.unpack,        *)
(* profiles.trim, import.profile; bundle.rs, usage.rs, import_browser.rs,   *)
(* widevine.rs, vault.rs).                                                  *)
(*                                                                          *)
(* Each of these looks at the running map once and then works without it; a *)
(* browser runs for a while before it is in the map and after it has left.  *)
EXTENDS FiniteSets, Naturals

CONSTANT MaxMade   \* bound: bundles made

ASSUME FilesAssumption == MaxMade \in Nat

Call == {"pack", "uploadTo", "unpack", "trim", "import"}

(* What lies in a profile directory: the account with its jar, caches and   *)
(* components the browser fetches again, a running browser's locks, and the *)
(* CDM's library and manifest.                                              *)
Part == {"account", "caches", "components", "locks", "library", "manifest"}

VARIABLES
  process,   \* "none", "starting" before it is in the map, "mapped", "ending"
  there,     \* what is in the directory
  jar,       \* "whole", or "mixed": put in under a browser, or torn already
  safe,      \* Vault::key: "have" or "failed"
  calls,     \* the calls under way: what, how far, and what each has in hand
  made       \* bundles: their jar, their key, and what crossed their making

filesVars == <<process, there, jar, safe, calls, made>>

FilesInit == /\ process = "none" /\ there = {} /\ jar = "whole"
             /\ safe \in {"have", "failed"} /\ calls = {} /\ made = {}

Begun(what) == [what |-> what, at |-> "checked", jar |-> "whole", key |-> "none",
                crossed |-> process \in {"starting", "ending"}, retried |-> FALSE]
Advances(c, d) == calls' = (calls \ {c}) \cup {d}
Crossed(cs) == {[c EXCEPT !.crossed = TRUE] : c \in cs}

-----------------------------------------------------------------------------
(* The browser. *)

(* stage_into_profile on macOS: a library of the right size is taken for    *)
(* all of it, and a copy that stops before the manifest is only logged.     *)
StagesTo(parts) ==
  IF "library" \in parts THEN {parts}
  ELSE {parts, parts \cup {"library"}, parts \cup {"library", "manifest"}}

Spawns == /\ process = "none" /\ process' = "starting"
          /\ \E parts \in StagesTo(there) :
               there' = parts \cup {"account", "caches", "components", "locks"}
          /\ calls' = Crossed(calls)
          /\ UNCHANGED <<jar, safe, made>>
EntersTheMap == /\ process = "starting" /\ process' = "mapped"
                /\ UNCHANGED <<there, jar, safe, calls, made>>
(* Agent::stop takes the entry, and then asks the browser to close. *)
LeavesTheMap == /\ process = "mapped" /\ process' = "ending"
                /\ calls' = Crossed(calls) /\ UNCHANGED <<there, jar, safe, made>>
IsGone == /\ process \in {"starting", "ending"} /\ process' = "none"
          /\ there' = there \ {"locks"} /\ UNCHANGED <<jar, safe, calls, made>>

-----------------------------------------------------------------------------
(* The calls. *)

(* "Close the profile first": all but profile.unpack look at the map. *)
AtAnyTime(what) == TRUE
MayBegin(what) == what # "unpack" => process # "mapped"
Begins(what) == /\ calls = {} /\ MayBegin(what) /\ calls' = {Begun(what)}
                /\ UNCHANGED <<process, there, jar, safe, made>>

(* A jar read under a running browser, or written under one. *)
Now == IF process = "none" THEN jar ELSE "torn"
LandedAsBundled(bundled) == IF bundled = "mixed" THEN "mixed" ELSE bundled  \* mutant
Landed(bundled) == IF process = "none" /\ bundled = "whole" THEN "whole" ELSE "mixed"

(* pack, the archive: append_dir leaves out SKIP, SKIP_COMPONENTS, the      *)
(* caches and the CDM.                                                      *)
Travels == {"account"}
Reads(c) == /\ c.what \in {"pack", "uploadTo"} /\ c.at = "checked"
            /\ Advances(c, [c EXCEPT !.at = "read", !.jar = Now])
            /\ UNCHANGED <<process, there, jar, safe, made>>

(* Sealer::seal: a vault without a key gives back what it was given. *)
Wrap(what) == IF what = "uploadTo" \/ safe = "have" THEN "wrapped" ELSE "bare"
Seals(c) == /\ c.at = "read" /\ Advances(c, [c EXCEPT !.at = "sealed", !.key = Wrap(c.what)])
            /\ UNCHANGED <<process, there, jar, safe, made>>

(* Sealer::available, asked afterwards: "refusing to produce a bundle that  *)
(* carries its own key".                                                    *)
NotAsked(what) == TRUE
Available(what) == what = "uploadTo" \/ safe = "have"
PutsOut(c) ==
  /\ c.at = "sealed" /\ Available(c.what) /\ Cardinality(made) < MaxMade
  /\ made' = made \cup {[jar |-> c.jar, key |-> c.key, parts |-> there \cap Travels,
                        crossed |-> c.crossed, retried |-> c.retried]}
  /\ calls' = calls \ {c} /\ UNCHANGED <<process, there, jar, safe>>
Refuses(c) == /\ c.at \in {"read", "sealed"} /\ (c.at = "sealed" => ~ Available(c.what))
              /\ calls' = calls \ {c} /\ UNCHANGED <<process, there, jar, safe, made>>

(* unpack: the key opens or it does not; file by file over what is there.   *)
Unpacks(c, b) ==
  /\ c.what = "unpack" /\ calls' = calls \ {c}
  /\ IF b.key = "bare" \/ safe = "have"
     THEN there' = there \cup b.parts /\ jar' = Landed(b.jar)
     ELSE UNCHANGED <<there, jar>>
  /\ UNCHANGED <<process, safe, made>>

(* usage::trim: the directories is_cache_dir names. *)
Trims(c) == /\ c.what = "trim" /\ calls' = calls \ {c} /\ there' = there \ {"caches"}
            /\ UNCHANGED <<process, jar, safe, made>>

(* import_browser::import: no caches, no symlinks, and nothing in           *)
(* ENCRYPTED_ELSEWHERE: the jar stays as it is.                             *)
ImportsFiles(c) == /\ c.what = "import" /\ calls' = calls \ {c}
                   /\ there' = there \cup {"account"}
                   /\ UNCHANGED <<process, jar, safe, made>>

(* vault.status, "try again". *)
AsksAgain == /\ safe = "failed" /\ safe' = "have"
             /\ calls' = {[c EXCEPT !.retried = TRUE] : c \in calls}
             /\ UNCHANGED <<process, there, jar, made>>

FilesNext ==
  \/ Spawns \/ EntersTheMap \/ LeavesTheMap \/ IsGone \/ AsksAgain
  \/ \E what \in Call : Begins(what)
  \/ \E c \in calls : \/ Reads(c) \/ Seals(c) \/ PutsOut(c) \/ Refuses(c)
                      \/ Trims(c) \/ ImportsFiles(c)
                      \/ \E b \in made : Unpacks(c, b)

FilesSpec == FilesInit /\ [][FilesNext]_filesVars

-----------------------------------------------------------------------------
FilesTypeOK ==
  LET bundle == [jar : {"whole", "torn", "mixed"}, key : {"wrapped", "bare"},
                 parts : SUBSET Travels, crossed : BOOLEAN, retried : BOOLEAN]
  IN
  /\ process \in {"none", "starting", "mapped", "ending"} /\ there \subseteq Part
  /\ jar \in {"whole", "mixed"} /\ safe \in {"have", "failed"}
  /\ calls \subseteq [what : Call, at : {"checked", "read", "sealed"},
                      jar : {"whole", "torn", "mixed"}, key : {"none", "wrapped", "bare"}, crossed : BOOLEAN, retried : BOOLEAN]
  /\ Cardinality(calls) <= 1 /\ made \subseteq bundle

(* A bundle's jar is one a closed browser left, and its key is sealed, but  *)
(* for the calls a launch or a stop crossed, those with the keychain asked  *)
(* again in the middle (ipc.rs 2384-2473, bundle.rs 335-343).               *)
CopiesSound == \A b \in made :
  /\ b.jar = "torn" => b.crossed
  /\ b.key = "bare" => b.retried
=============================================================================
