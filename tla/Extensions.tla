----------------------------- MODULE Extensions -----------------------------
(* Extensions in the profiles of one machine, and their storage, where an   *)
(* extension keeps its login (agent/src/ext.rs, webstore.rs, ipc.rs         *)
(* extensions.*, desktop commands.rs).                                      *)
(*                                                                          *)
(* A team profile's storage also travels in its bundle, so a copy made here *)
(* meets the pull of the next launch (unsynced.rs, Agent::launch).          *)
EXTENDS Naturals, FiniteSets

CONSTANTS LocalApp,   \* profiles of this machine's store
          TeamApp,    \* team profiles
          MaxPushes   \* bound: versions the server takes of one profile

Keeper == LocalApp \cup TeamApp
NoVersion == MaxPushes + 1
Numbered == 0 .. MaxPushes

ASSUME ExtensionsAssumption == LocalApp \cap TeamApp = {} /\ MaxPushes \in Nat

(* A storage directory: the server's of some version, changed here since,   *)
(* or parts of two databases: "two databases mixed file by file are one     *)
(* corrupt database".  Torn is what a pull has written so far, over what    *)
(* was there of the server's.                                               *)
Storage == {"none", "theirs", "torn", "ours", "mixed"}

VARIABLES
  app,        \* profile -> installed lists the package
  db,         \* profile -> the extension's storage
  launch,     \* profile -> how far its launch is, and what it read
  latest,     \* the server's version
  heldHere,   \* the .version file beside the directory
  unsent,     \* the marker beside it
  batch,      \* profiles a batch still has to do, with the running map locked
  hurt        \* history: profiles copied from or into while a launch was under
              \* way, or half, or from a torn one, or whose browser died with
              \* the agent

appVars == <<app, db, launch, latest, heldHere, unsent, batch, hurt>>

Resting == [at |-> "closed", held |-> NoVersion, got |-> NoVersion]

ExtensionsInit ==
  /\ app = [f \in Keeper |-> FALSE]
  /\ db = [f \in Keeper |-> "none"]
  /\ launch = [f \in Keeper |-> Resting]
  /\ latest = [f \in TeamApp |-> 0]
  /\ heldHere = [f \in Keeper |-> NoVersion]
  /\ unsent = [f \in Keeper |-> NoVersion]
  /\ batch = {} /\ hurt = {}

MapFree == batch = {}
IsOpen(f) == launch[f].at = "open"
UnderWay(f) == launch[f].at \in {"asking", "pulled", "unpacking", "starting"}

-----------------------------------------------------------------------------
(* Packages. *)

(* What parse makes of a package: the extension that was asked for, another *)
(* one, or a package none of whose keys gives its id.                       *)
Package == {"asked", "another", "unsigned"}

(* extensions.install: one file, into an open profile too.  The old package *)
(* goes first, and one that does not unpack leaves what it did: its         *)
(* manifest, or none.                                                       *)
InstallsFile(f, left) ==
  /\ app' = [app EXCEPT ![f] = left]
  /\ UNCHANGED <<db, launch, latest, heldHere, unsent, batch, hurt>>

(* install_many and install_from_store: the running map is held from the    *)
(* first profile to the last, over every fetch; open ones are skipped.      *)
BatchBegins(fs) ==
  /\ MapFree /\ batch' = {f \in fs : ~ IsOpen(f)}
  /\ UNCHANGED <<app, db, launch, latest, heldHere, unsent, hurt>>

(* install_extension_from_store_team: each team profile that is not open    *)
(* here in a batch of its own, under its lock.                              *)
TeamBatch(f) == ~ IsOpen(f) /\ BatchBegins({f})

(* webstore::fetch through the profile's own proxy, once per proxy. *)
Fetched == Package \cup {"nothing"}
InstallsNext(f, got, left) ==
  /\ f \in batch /\ batch' = batch \ {f}
  /\ app' = IF got = "asked" THEN [app EXCEPT ![f] = left] ELSE app
  /\ UNCHANGED <<db, launch, latest, heldHere, unsent, hurt>>

(* extensions.remove: the package, whatever is open; its storage stays.     *)
RemovesApp(f) ==
  /\ app' = [app EXCEPT ![f] = FALSE]
  /\ UNCHANGED <<db, launch, latest, heldHere, unsent, batch, hurt>>

-----------------------------------------------------------------------------
(* copy_with_state. *)

(* A team profile is marked at the version it holds, unless it is marked.   *)
MarkedAt(f) == IF f \in TeamApp /\ unsent[f] = NoVersion THEN heldHere[f] ELSE unsent[f]

(* "It must already be on this machine."                                    *)
MayReceive(f) == f \in TeamApp => heldHere[f] # NoVersion

(* A browser that has started and is not in the map yet may be writing, and *)
(* so may a pull.                                                           *)
Writing(f) == launch[f].at \in {"unpacking", "starting"}
Copied(f, midWrite) ==
  IF midWrite \/ db[f] = "torn" THEN "mixed"
  ELSE IF db[f] = "theirs" THEN "ours" ELSE db[f]

CopiesState(f, g, midWrite) ==
  /\ midWrite => Writing(f) \/ Writing(g)
  /\ MapFree /\ f # g /\ app[f] /\ ~ IsOpen(f) /\ ~ IsOpen(g) /\ MayReceive(g)
  /\ app' = [app EXCEPT ![g] = TRUE]
  /\ db' = [db EXCEPT ![g] = Copied(f, midWrite)]
  /\ unsent' = [unsent EXCEPT ![g] = MarkedAt(g)]
  /\ hurt' = IF UnderWay(f) \/ UnderWay(g) \/ f \in hurt \/ db[f] = "torn"
             THEN hurt \cup {g}
             ELSE hurt \ {g}
  /\ UNCHANGED <<launch, latest, heldHere, batch>>

(* Half way, after the old storage was removed: the profile is "skipped".   *)
CopyFails(f, g) ==
  /\ MapFree /\ f # g /\ app[f] /\ ~ IsOpen(f) /\ ~ IsOpen(g) /\ MayReceive(g)
  /\ db' = [db EXCEPT ![g] = "mixed"] /\ hurt' = hurt \cup {g}
  /\ UNCHANGED <<app, launch, latest, heldHere, unsent, batch>>

-----------------------------------------------------------------------------
(* Launches. *)

(* The map is looked at, and the server asked with the version held.        *)
LaunchAsks(f) ==
  /\ MapFree /\ launch[f].at = "closed"
  /\ launch' = [launch EXCEPT ![f] = [Resting EXCEPT
       !.at = IF f \in TeamApp THEN "asking" ELSE "starting", !.held = heldHere[f]]]
  /\ UNCHANGED <<app, db, latest, heldHere, unsent, batch, hurt>>

(* decide: kept when the server has what is held, or nobody moved it since  *)
(* the marker; a marked copy of an older version is moved aside whole.      *)
Keeps(f) == latest[f] \in {0, launch[f].held, unsent[f]}
PullDecides(f) ==
  LET aside == unsent[f] # NoVersion IN
  /\ launch[f].at = "asking"
  /\ launch' = [launch EXCEPT ![f].at = IF Keeps(f) THEN "starting" ELSE "pulled",
                              ![f].got = latest[f]]
  /\ IF ~ Keeps(f) /\ aside
     THEN /\ app' = [app EXCEPT ![f] = FALSE] /\ db' = [db EXCEPT ![f] = "none"]
          /\ unsent' = [unsent EXCEPT ![f] = NoVersion]
          /\ heldHere' = [heldHere EXCEPT ![f] = NoVersion]
          /\ hurt' = hurt \ {f}
     ELSE UNCHANGED <<app, db, unsent, heldHere, hurt>>
  /\ UNCHANGED <<latest, batch>>

(* The version is recorded once the last file is written, never before.     *)
HeldTooSoon(f) ==            \* mutant: record_held before the unpacking
  heldHere' = [heldHere EXCEPT ![f] = launch[f].got]
NotHeldYet(f) == heldHere' = heldHere

(* bundle::unpack: file by file over what is there, the package among them. *)
UnpackBegins(f, packed) ==
  /\ launch[f].at = "pulled"
  /\ launch' = [launch EXCEPT ![f].at = "unpacking"]
  /\ db' = [db EXCEPT ![f] = IF @ \in {"ours", "mixed"} THEN "mixed" ELSE "torn"]
  /\ app' = [app EXCEPT ![f] = @ \/ packed] /\ NotHeldYet(f)
  /\ UNCHANGED <<latest, unsent, batch, hurt>>

(* The last file, and record_held; a copy that came between is mixed.       *)
UnpackEnds(f) ==
  /\ launch[f].at = "unpacking"
  /\ launch' = [launch EXCEPT ![f].at = "starting"]
  /\ db' = [db EXCEPT ![f] = IF @ = "torn" THEN "theirs" ELSE "mixed"]
  /\ app' = [app EXCEPT ![f] = TRUE]
  /\ heldHere' = [heldHere EXCEPT ![f] = launch[f].got]
  /\ UNCHANGED <<latest, unsent, batch, hurt>>

(* Any step of a launch fails, a file of the unpacking too: what is written *)
(* stays.                                                                   *)
LaunchGivesUp(f) ==
  /\ UnderWay(f) /\ launch' = [launch EXCEPT ![f] = Resting]
  /\ UNCHANGED <<app, db, latest, heldHere, unsent, batch, hurt>>

(* The browser runs before the map has its entry. *)
EntersMap(f) ==
  /\ MapFree /\ launch[f].at = "starting"
  /\ launch' = [launch EXCEPT ![f].at = "open"]
  /\ UNCHANGED <<app, db, latest, heldHere, unsent, batch, hurt>>

(* What a session leaves.  A copy that is mixed stays so.                   *)
AfterUse(f) == IF db[f] = "mixed" \/ ~ app[f] THEN db[f] ELSE "ours"

(* Agent::stop: the upload on top of what was pulled, or the marker.        *)
StopsPushed(f) ==
  /\ IsOpen(f) /\ f \in TeamApp /\ latest[f] = launch[f].got /\ latest[f] < MaxPushes
  /\ latest' = [latest EXCEPT ![f] = @ + 1]
  /\ heldHere' = [heldHere EXCEPT ![f] = latest[f] + 1]
  /\ unsent' = [unsent EXCEPT ![f] = NoVersion]
  /\ db' = [db EXCEPT ![f] = IF AfterUse(f) = "ours" THEN "theirs" ELSE @]
  /\ launch' = [launch EXCEPT ![f] = Resting]
  /\ UNCHANGED <<app, batch, hurt>>
StopsUnsent(f) ==
  /\ IsOpen(f)
  /\ unsent' = IF f \in TeamApp THEN [unsent EXCEPT ![f] = launch[f].got] ELSE unsent
  /\ db' = [db EXCEPT ![f] = AfterUse(f)]
  /\ launch' = [launch EXCEPT ![f] = Resting]
  /\ UNCHANGED <<app, latest, heldHere, batch, hurt>>

(* The agent killed with the browser: nothing pushed and nothing marked.  A *)
(* pull stops where it is.                                                  *)
Running == {f \in Keeper : launch[f].at \in {"starting", "open"}}
Killed ==
  /\ launch' = [f \in Keeper |-> Resting] /\ batch' = {}
  /\ hurt' = hurt \cup Running
  /\ db' = [f \in Keeper |-> IF f \in Running THEN AfterUse(f) ELSE db[f]]
  /\ UNCHANGED <<app, latest, heldHere, unsent>>

(* Another machine's session, once this one's lock is gone. *)
PushedElsewhere(f) ==
  /\ f \in TeamApp /\ latest[f] < MaxPushes
  /\ latest' = [latest EXCEPT ![f] = @ + 1]
  /\ UNCHANGED <<app, db, launch, heldHere, unsent, batch, hurt>>

ExtensionsNext ==
  \/ \E f \in Keeper :
       \/ RemovesApp(f) \/ LaunchAsks(f) \/ LaunchGivesUp(f)
       \/ EntersMap(f) \/ StopsUnsent(f) \/ PushedElsewhere(f)
       \/ \E left \in BOOLEAN : \/ InstallsFile(f, left)
                             \/ \E got \in Fetched : InstallsNext(f, got, left)
       \/ \E g \in Keeper : \/ CopyFails(f, g)
                          \/ \E midWrite \in BOOLEAN : CopiesState(f, g, midWrite)
  \/ \E f \in TeamApp : TeamBatch(f) \/ PullDecides(f) \/ UnpackEnds(f) \/ StopsPushed(f)
                         \/ \E packed \in BOOLEAN : UnpackBegins(f, packed)
  \/ \E fs \in SUBSET Keeper : BatchBegins(fs)
  \/ Killed

ExtensionsSpec == ExtensionsInit /\ [][ExtensionsNext]_appVars

-----------------------------------------------------------------------------
ExtensionsTypeOK ==
  /\ app \in [Keeper -> BOOLEAN] /\ db \in [Keeper -> Storage]
  /\ launch \in [Keeper -> [at : {"closed", "asking", "pulled", "unpacking", "starting", "open"},
                            held : Numbered \cup {NoVersion}, got : Numbered \cup {NoVersion}]]
  /\ latest \in [TeamApp -> Numbered]
  /\ heldHere \in [Keeper -> Numbered \cup {NoVersion}]
  /\ unsent \in [Keeper -> Numbered \cup {NoVersion}]
  /\ batch \subseteq Keeper /\ hurt \subseteq Keeper

(* "Never the mix" (ipc.rs 1204-1222): an extension's storage is one        *)
(* database, the server's or this machine's, unless a copy was made while a *)
(* launch was under way, failed half way or came from a profile whose pull  *)
(* had stopped half way, or a browser died with the agent.  What such a     *)
(* pull left is parts of two of the server's versions, and no browser       *)
(* starts on it: the launch fails, the version is not recorded, and the     *)
(* next launch pulls again (ipc.rs 3188-3190, unsynced.rs).                 *)
NeverTheMix ==
  \A f \in Keeper : /\ db[f] = "mixed" => f \in hurt
                    /\ launch[f].at \in {"starting", "open"} => db[f] # "torn"
=============================================================================
