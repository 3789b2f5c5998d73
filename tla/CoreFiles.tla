----------------------------- MODULE CoreFiles -----------------------------
(* The browser's files on this machine (agent/src/core_download.rs,         *)
(* install_core.rs and main.rs core_binary, core_stale): a download that a  *)
(* button starts takes minutes, installs over the core in use, and profiles *)
(* open and close beside it.                                                *)
(*                                                                          *)
(* A directory holds a whole build ("outdated": another Chrome than this    *)
(* agent's; "old": the right Chrome, an older build; "current"; "next": a   *)
(* later Chrome), "part" of one, or nothing.                                *)
EXTENDS Naturals

CONSTANTS Pressed,     \* presses of the button
          Opened,      \* profiles
          Crashes,     \* bound: deaths of the agent
          Published    \* builds the releases page may offer first

ASSUME CoreAssumption ==
  /\ Pressed # {} /\ Crashes \in Nat /\ Published \subseteq {"current", "next"}

VARIABLES
  dest,       \* core_dir()
  staging,    \* core_dir().incoming
  previous,   \* core_dir().previous
  record,     \* core_release_file(): the build it names, or "none"
  archive,    \* the download in the temporary directory
  busy,       \* Progress::running
  task,        \* each press: where its task is and what it found installed
  verdict,    \* core_is_current_build's answer in this process
  inUse,      \* profiles in the running map
  falls

coreVars == <<dest, staging, previous, record, archive, busy, task, verdict,
              inUse, falls>>

Build == {"outdated", "old", "current", "next"}
Tree == Build \cup {"none", "part"}
NoTask == [at |-> "none", had |-> "none"]

CoreInit ==
  /\ dest \in {"none", "outdated", "old"} /\ record \in {"none", dest}
  /\ staging = "none" /\ previous = "none" /\ archive = "none"
  /\ busy = FALSE /\ task = [j \in Pressed |-> NoTask]
  /\ verdict = "unasked" /\ inUse = {} /\ falls = 0

-----------------------------------------------------------------------------
(* The core to launch: there, and the Chrome this agent claims to be. *)
Runs(tree) == tree \in {"old", "current", "part"}

(* core_stale: what the record says; without one, what one hash of the      *)
(* engine said in this process.                                             *)
Verdict == IF verdict # "unasked" THEN verdict
           ELSE IF dest = "current" THEN "yes" ELSE "no"
Stale == IF record = "none" THEN Verdict = "no" ELSE record \in {"old", "outdated"}

(* The answer of the hash is kept, and a "yes" is written down. *)
Looked ==
  IF Runs(dest) /\ record = "none"
  THEN /\ verdict' = Verdict
       /\ record' = IF Verdict = "yes" THEN "current" ELSE record
  ELSE UNCHANGED <<verdict, record>>

(* The window's poll of "status". *)
LooksAtIt ==
  /\ Looked
  /\ UNCHANGED <<dest, staging, previous, archive, busy, task, inUse, falls>>

(* core.download: refused when the core is current or its files are in use. *)
Presses(j) ==
  /\ task[j].at = "none"
  /\ Looked
  /\ Runs(dest) => Stale /\ inUse = {}
  /\ task' = [task EXCEPT ![j].at = "spawned"]
  /\ UNCHANGED <<dest, staging, previous, archive, busy, inUse, falls>>

BeginsAnyway(j) ==     \* mutant: a second press not turned away
  /\ task[j].at = "spawned"
  /\ busy' = TRUE
  /\ task' = [task EXCEPT ![j].at = "fetching"]
  /\ UNCHANGED <<dest, staging, previous, record, archive, verdict, inUse, falls>>

(* start: two presses are one download. *)
Begins(j) ==
  /\ task[j].at = "spawned"
  /\ busy' = TRUE
  /\ task' = [task EXCEPT ![j].at = IF busy THEN "none" ELSE "fetching"]
  /\ UNCHANGED <<dest, staging, previous, record, archive, verdict, inUse, falls>>

Over(j) == /\ task' = [task EXCEPT ![j] = NoTask]
           /\ busy' = FALSE

(* Any step may fail, with everything before it done; the archive stays.    *)
(* Without a length from the server a short download passes for a whole one.*)
Fetches(j, got) ==
  /\ task[j].at = "fetching" /\ got \in Published \cup {"part", "none"}
  /\ archive' = got
  /\ IF got = "none" THEN Over(j)
     ELSE /\ task' = [task EXCEPT ![j] = [at |-> "clearing", had |-> dest]]
          /\ UNCHANGED busy
  /\ UNCHANGED <<dest, staging, previous, record, verdict, inUse, falls>>

Clears(j, done) ==
  /\ task[j].at = "clearing"
  /\ IF done THEN /\ staging' = "part"
                  /\ task' = [task EXCEPT ![j].at = "unpacking"]
                  /\ UNCHANGED busy
     ELSE Over(j) /\ UNCHANGED staging
  /\ UNCHANGED <<dest, previous, record, archive, verdict, inUse, falls>>

(* Unpacked, found, made executable and run once with --version. *)
Unpacks(j, done) ==
  /\ task[j].at = "unpacking"
  /\ IF done /\ archive \in Build
     THEN /\ staging' = archive
          /\ task' = [task EXCEPT ![j].at = "checked"]
          /\ UNCHANGED busy
     ELSE Over(j) /\ staging' = "part"
  /\ UNCHANGED <<dest, previous, record, archive, verdict, inUse, falls>>

MovesAside(j, done) ==
  /\ task[j].at = "checked"
  /\ IF done \/ dest = "none"
     THEN /\ previous' = dest /\ dest' = "none"
          /\ task' = [task EXCEPT ![j].at = "aside"]
          /\ UNCHANGED busy
     ELSE Over(j) /\ previous' = "none" /\ UNCHANGED dest
  /\ UNCHANGED <<staging, record, archive, verdict, inUse, falls>>

MovesIn(j, done) ==
  /\ task[j].at = "aside"
  /\ IF done
     THEN /\ dest' = staging /\ staging' = "none" /\ previous' = "none"
          /\ task' = [task EXCEPT ![j].at = "in"]
          /\ UNCHANGED busy
     ELSE Over(j) /\ UNCHANGED <<dest, staging, previous>>
  /\ UNCHANGED <<record, archive, verdict, inUse, falls>>

(* The record's write may fail, with a warning. *)
Records(j, done) ==
  /\ task[j].at = "in"
  /\ record' = IF done THEN archive ELSE record
  /\ archive' = "none"
  /\ task' = [task EXCEPT ![j].at = "recorded"]
  /\ UNCHANGED <<dest, staging, previous, busy, verdict, inUse, falls>>

(* The last look decides between "installed" and an error. *)
Ends(j) ==
  /\ task[j].at = "recorded"
  /\ Over(j)
  /\ UNCHANGED <<dest, staging, previous, record, archive, verdict, inUse, falls>>

-----------------------------------------------------------------------------
RunsFor(p) ==
  /\ p \notin inUse /\ Runs(dest)
  /\ inUse' = inUse \cup {p}
  /\ UNCHANGED <<dest, staging, previous, record, archive, busy, task, verdict, falls>>

LetsGo(p) ==
  /\ p \in inUse
  /\ inUse' = inUse \ {p}
  /\ UNCHANGED <<dest, staging, previous, record, archive, busy, task, verdict, falls>>

(* The process dies and another starts: the files are as they were left. *)
AgentDies ==
  /\ falls < Crashes
  /\ falls' = falls + 1
  /\ busy' = FALSE /\ task' = [j \in Pressed |-> NoTask]
  /\ verdict' = "unasked" /\ inUse' = {}
  /\ UNCHANGED <<dest, staging, previous, record, archive>>

CoreNext ==
  \/ LooksAtIt
  \/ \E j \in Pressed : Presses(j)
  \/ \E j \in Pressed : Begins(j)
  \/ \E j \in Pressed, got \in Build \cup {"part", "none"} : Fetches(j, got)
  \/ \E j \in Pressed, done \in BOOLEAN : Clears(j, done)
  \/ \E j \in Pressed, done \in BOOLEAN : Unpacks(j, done)
  \/ \E j \in Pressed, done \in BOOLEAN : MovesAside(j, done)
  \/ \E j \in Pressed, done \in BOOLEAN : MovesIn(j, done)
  \/ \E j \in Pressed, done \in BOOLEAN : Records(j, done)
  \/ \E j \in Pressed : Ends(j)
  \/ \E p \in Opened : RunsFor(p)
  \/ \E p \in Opened : LetsGo(p)
  \/ AgentDies

CoreSpec == CoreInit /\ [][CoreNext]_coreVars

-----------------------------------------------------------------------------
CoreTypeOK ==
  /\ {dest, staging, previous, archive} \subseteq Tree
  /\ record \in Build \cup {"none"} /\ busy \in BOOLEAN
  /\ task \in [Pressed -> [at : {"none", "spawned", "fetching", "clearing",
       "unpacking", "checked", "aside", "in", "recorded"}, had : Tree]]
  /\ verdict \in {"unasked", "yes", "no"}
  /\ inUse \subseteq Opened /\ falls \in 0 .. Crashes

(* Where a launch looks there is never part of a core: only what was run    *)
(* once and answered is moved there, whatever fails, dies or is pressed     *)
(* twice (install_core.rs 59-60; core_download.rs 154-161).                 *)
CoreChecked == dest # "part"

(* "A failed install must not eat the working core" (install_core.rs 59): a *)
(* download that ends with an error leaves a browser to launch when it      *)
(* found one.                                                               *)
FailedKeepsCore ==
  [][\A j \in Pressed :
       (Runs(task[j].had) /\ task[j].at # "none" /\ task'[j].at = "none"
          /\ falls' = falls)
       => Runs(dest')]_coreVars
=============================================================================
