------------------------------ MODULE CookieJar ------------------------------
(* The directory of one team profile on each machine and in its bundle, and *)
(* the local profile it may have been sent from (agent/src/ipc.rs launch and *)
(* stop, bundle.rs, usage.rs, import_browser.rs, cookies.rs, launcher.rs,   *)
(* widevine.rs; upload_profile in desktop commands.rs).                     *)
(*                                                                          *)
(* Chromium deletes the cookies it cannot decrypt, and the next stop pushes *)
(* what is left.  The agent keeps the fingerprint of the key beside them.   *)
(* The lock, lost answers and half pulls are ProfileSync's: here one        *)
(* machine at a time has the profile, and a pull is one step.               *)
EXTENDS Naturals, FiniteSets

CONSTANTS Station,    \* machines of the team
          Home,       \* the one that has the local profile
          MaxSent   \* bound: versions the server takes

ASSUME CookieJarAssumption == Home \in Station /\ MaxSent \in Nat \ {0}

(* What rows of a jar can be encrypted with: the profile's cookie key, the  *)
(* one an older Fury's rotation did not carry over, a machine's keychain.   *)
Key == {"current", "retired"} \cup Station
Marker == {"none", "current", "retired"}
Port == {"none", "own", "stale"}
Place == [jar : SUBSET Key, marker : Marker, port : Port]
Empty == [jar |-> {}, marker |-> "none", port |-> "none"]
NoBase == MaxSent + 1
BundleVersion == 0 .. MaxSent

VARIABLES
  remote,     \* the server's bundle: its content, its version, what wraps its key
  copy,       \* machine -> the profile's directory
  based,       \* machine -> the .version file
  leftHere,     \* machine -> the marker of a session that is not on the server
  lock,       \* the machine that has the profile's lock
  opening,     \* machine -> how far its launch is
  answered,   \* machine -> the debugging endpoint its launch answered with
  fresh,      \* history: machines whose directory was unpacked into since the
              \* last browser there
  emptied,    \* history: where the rows came from that a browser deleted
  mine,       \* the jar of Home's local profile
  upload      \* upload_profile: "none", "made", "sent"

jarVars == <<remote, copy, based, leftHere, lock, opening, answered, fresh, emptied,
             mine, upload>>
sentVars == <<mine, upload>>

(* A jar from before the rotation, its marker written or not; and a bundle  *)
(* older still, with its packer's port, wrapped under that machine's vault. *)
Older == {Empty, [Empty EXCEPT !.jar = {"retired"}],
          [jar |-> {"retired"}, marker |-> "retired", port |-> "none"]}
NoBundle == [dir |-> Empty, ver |-> 0, wrap |-> "shared"]
CookieJarInit ==
  /\ remote \in {NoBundle} \cup [dir : {[p EXCEPT !.port = "stale"] : p \in Older},
                                 ver : {1}, wrap : {"shared", Home}]
  /\ copy \in [Station -> IF remote.ver = 0 THEN {Empty} ELSE Older]
  /\ based = [m \in Station |-> IF copy[m] = Empty THEN NoBase ELSE remote.ver]
  /\ leftHere = [m \in Station |-> NoBase]
  /\ lock = "none"
  /\ opening = [m \in Station |-> "closed"]
  /\ answered = [m \in Station |-> "none"]
  /\ fresh = {} /\ emptied = {}
  /\ mine = {} /\ upload = "none"

-----------------------------------------------------------------------------
(* bundle.rs *)

(* append_dir, SKIP: the port stays behind since 0.2.11. *)
Packed(p) == [p EXCEPT !.port = "none"]

(* Sealer::open: the shared key opens what it wrapped, and a vault what it  *)
(* wrapped itself.                                                          *)
Unwraps(wrap, m) == wrap \in {"shared", m}

(* unpack: what the bundle has lands over what is there. *)
Over(there, bundled) == IF bundled = "none" THEN there ELSE bundled
Unpacked(p, b) == [jar |-> b.jar, marker |-> Over(p.marker, b.marker),
                   port |-> Over(p.port, b.port)]

-----------------------------------------------------------------------------
(* Launch and stop of the team profile. *)

(* err.cookieKeyChanged *)
AnyMarker(p) == TRUE
Fits(p) == p.marker \in {"none", "current"}

(* The lock; the last run's port goes, and the marker is compared. *)
ComparesMarker(m) ==
  /\ lock = "none" /\ opening[m] = "closed"
  /\ copy' = [copy EXCEPT ![m].port = "none"]
  /\ IF Fits(copy[m]) THEN lock' = m /\ opening' = [opening EXCEPT ![m] = "checked"]
                      ELSE UNCHANGED <<lock, opening>>
  /\ UNCHANGED <<remote, based, leftHere, answered, fresh, emptied, sentVars>>

(* decide, set_aside, fetch_bundle, unpack. *)
NothingNewer(m) == remote.ver \in {0, based[m], leftHere[m]}
Pulls(m) ==
  LET aside == leftHere[m] # NoBase
      there == IF aside THEN Empty ELSE copy[m]
      opens == Unwraps(remote.wrap, m)
  IN
  /\ opening[m] = "checked"
  /\ opening' = [opening EXCEPT ![m] = IF NothingNewer(m) \/ opens THEN "pulled" ELSE "closed"]
  /\ lock' = IF NothingNewer(m) \/ opens THEN lock ELSE "none"
  /\ IF NothingNewer(m) THEN UNCHANGED <<copy, based, leftHere, fresh>>
     ELSE /\ copy' = [copy EXCEPT ![m] = IF opens THEN Unpacked(there, remote.dir) ELSE there]
          /\ based' = [based EXCEPT ![m] = IF opens THEN remote.ver
                                         ELSE IF aside THEN NoBase ELSE @]
          /\ leftHere' = [leftHere EXCEPT ![m] = NoBase]
          /\ fresh' = IF opens THEN fresh \cup {m} ELSE fresh
  /\ UNCHANGED <<remote, answered, emptied, sentVars>>

(* Any early return between the check and the browser. *)
LaunchFails(m) ==
  /\ opening[m] \in {"checked", "pulled"}
  /\ opening' = [opening EXCEPT ![m] = "closed"] /\ lock' = "none"
  /\ UNCHANGED <<remote, copy, based, leftHere, answered, fresh, emptied, sentVars>>

(* The port again, for bundles that carried one. *)
PortLeft(p) == p.port
PortNow(p) == "none"

(* spawn with the cookie key: rows under neither that key nor this          *)
(* machine's are deleted.  devtools_endpoint reads the file until there is  *)
(* one: the browser's, when it was asked for and is allowed.                *)
Readable(m) == {"current", m}
Browses(m, cdp) ==
  LET port == IF cdp THEN "own" ELSE PortNow(copy[m])
      gone == copy[m].jar \ Readable(m)
      how == IF m \in fresh THEN "pulled"
             ELSE IF copy[m].marker = "none" THEN "unmarked" ELSE "here"
  IN
  /\ opening[m] = "pulled"
  /\ opening' = [opening EXCEPT ![m] = "up"]
  /\ copy' = [copy EXCEPT ![m].jar = @ \ gone, ![m].port = port]
  /\ answered' = [answered EXCEPT ![m] = IF PortNow(copy[m]) # "none"
                                         THEN PortNow(copy[m]) ELSE port]
  /\ emptied' = IF gone = {} THEN emptied ELSE emptied \cup {how}
  /\ fresh' = fresh \ {m}
  /\ UNCHANGED <<remote, based, leftHere, lock, sentVars>>

(* "Written only once the browser is actually up"; a failure is logged. *)
WritesMarker(m, ok) ==
  /\ opening[m] = "up" /\ opening' = [opening EXCEPT ![m] = "open"]
  /\ copy' = IF ok THEN [copy EXCEPT ![m].marker = "current"] ELSE copy
  /\ UNCHANGED <<remote, based, leftHere, lock, answered, fresh, emptied, sentVars>>

(* What a session leaves: every row under the key, if there are any or the  *)
(* person signs in again, or cookies are imported through the browser.      *)
LeavesBehind(p, signsIn) ==
  [p EXCEPT !.jar = IF signsIn \/ p.jar # {} THEN {"current"} ELSE {}]

(* Agent::stop: pack, push, and the marker of a session left here.  A stop  *)
(* may come before the launch has written its marker.                       *)
Stops(m, signsIn, pushed) ==
  LET left == LeavesBehind(copy[m], signsIn) IN
  /\ opening[m] \in {"up", "open"}
  /\ (pushed => remote.ver < MaxSent)
  /\ copy' = [copy EXCEPT ![m] = left]
  /\ IF pushed
     THEN /\ remote' = [dir |-> Packed(left), ver |-> remote.ver + 1, wrap |-> "shared"]
          /\ based' = [based EXCEPT ![m] = remote.ver + 1]
          /\ leftHere' = [leftHere EXCEPT ![m] = NoBase]
     ELSE /\ leftHere' = [leftHere EXCEPT ![m] = remote.ver]
          /\ UNCHANGED <<remote, based>>
  /\ opening' = [opening EXCEPT ![m] = "closed"] /\ lock' = "none"
  /\ answered' = [answered EXCEPT ![m] = "none"]
  /\ UNCHANGED <<fresh, emptied, sentVars>>

(* The agent dies with the browser, and the lock lapses. *)
Dies(m, signsIn) ==
  /\ opening[m] \in {"up", "open"}
  /\ copy' = [copy EXCEPT ![m] = LeavesBehind(@, signsIn)]
  /\ opening' = [opening EXCEPT ![m] = "closed"] /\ lock' = "none"
  /\ answered' = [answered EXCEPT ![m] = "none"]
  /\ UNCHANGED <<remote, based, leftHere, fresh, emptied, sentVars>>

-----------------------------------------------------------------------------
(* The local profile. *)

teamVars == <<remote, copy, based, leftHere, lock, opening, answered, fresh, emptied>>

(* No cookie key: the rows are under the machine's keychain. *)
UsesMine(signsIn) ==
  /\ mine' = IF signsIn THEN {Home} ELSE mine \cap {Home}
  /\ UNCHANGED <<teamVars, upload>>

(* upload_profile: a profile on the server, its lock, and profile.uploadTo: *)
(* packed as it is and pushed as the first version, if there is none.       *)
UploadMakes ==
  /\ upload = "none" /\ remote.ver = 0 /\ upload' = "made"
  /\ UNCHANGED <<teamVars, mine>>
UploadSends ==
  /\ upload = "made" /\ lock = "none" /\ remote.ver = 0
  /\ remote' = [dir |-> [Empty EXCEPT !.jar = mine], ver |-> 1, wrap |-> "shared"]
  /\ upload' = "sent"
  /\ UNCHANGED <<copy, based, leftHere, lock, opening, answered, fresh, emptied, mine>>
UploadFails ==
  /\ upload = "made" /\ upload' = "sent" /\ UNCHANGED <<teamVars, mine>>

(* Before it is there nobody opens it. *)
There == remote.ver > 0 \/ upload # "none"

CookieJarNext ==
  \/ \E m \in Station :
       \/ There /\ ComparesMarker(m)
       \/ Pulls(m) \/ LaunchFails(m)
       \/ \E b \in BOOLEAN : \/ Browses(m, b) \/ WritesMarker(m, b) \/ Dies(m, b)
                           \/ \E pushed \in BOOLEAN : Stops(m, b, pushed)
  \/ \E b \in BOOLEAN : UsesMine(b)
  \/ UploadMakes \/ UploadSends \/ UploadFails

CookieJarSpec == CookieJarInit /\ [][CookieJarNext]_jarVars

-----------------------------------------------------------------------------
CookieJarTypeOK ==
  /\ remote \in [dir : Place, ver : BundleVersion, wrap : {"shared"} \cup Station]
  /\ copy \in [Station -> Place]
  /\ based \in [Station -> BundleVersion \cup {NoBase}]
  /\ leftHere \in [Station -> BundleVersion \cup {NoBase}]
  /\ lock \in {"none"} \cup Station
  /\ opening \in [Station -> {"closed", "checked", "pulled", "up", "open"}]
  /\ answered \in [Station -> Port]
  /\ fresh \subseteq Station /\ emptied \subseteq {"here", "pulled", "unmarked"}
  /\ mine \subseteq {Home}
  /\ upload \in {"none", "made", "sent"}

(* A jar that was here, beside the marker of its key, is not opened under   *)
(* another key (ipc.rs 3092-3137), and a launch answers with its own        *)
(* browser's port or none (bundle.rs 154-160).                              *)
JarKept == /\ "here" \notin emptied
           /\ \A m \in Station : answered[m] # "stale"

(* "A colleague unpacking it finds the fingerprint ... and this is what     *)
(* catches it" (ipc.rs 3305-3312; docs/06 81-84: the launch is cancelled    *)
(* before the browser sees the directory).                                  *)
CaughtFirst == \A m \in Station : opening[m] = "up" => Fits(copy[m])
=============================================================================
