---------------------------- MODULE ProfileSync ----------------------------
(***************************************************************************)
(* One team profile, opened in turn on several machines.                   *)
(*                                                                         *)
(* The server (server/src/api.rs) keeps a lock row with a lease of TTL     *)
(* ticks, the current version number and one bundle per version.  On each  *)
(* machine the shell (desktop/src-tauri/src/commands.rs) takes the lock,   *)
(* and the agent (agent/src/ipc.rs, sync.rs, unsynced.rs) renews it, pulls *)
(* the bundle, runs the browser, and on close packs the profile directory, *)
(* pushes it and gives the lock back.  Beside the directory the agent      *)
(* keeps two small files: which version the directory is ("held") and      *)
(* which version an unsent session grew from ("marker").                   *)
(*                                                                         *)
(* Data is abstracted to browsing sessions.  Each run of a browser is one  *)
(* session, numbered; the content of a profile directory or of a bundle is *)
(* the set of sessions whose work it contains.                             *)
(*                                                                         *)
(* Time is a lease counted in ticks of one heartbeat period (30 s).  A     *)
(* beat that has come due is sent, or missed, before the next tick; the    *)
(* handover from shell to agent is local and takes no tick.  Everything    *)
(* else may take any number of ticks.                                      *)
(***************************************************************************)
EXTENDS Integers

CONSTANTS
    Machine,        \* the machines that may open the profile
    Forcers,        \* those whose user may force-unlock (manage_access)
    Crashable,      \* those that may lose power
    Impatient,      \* those whose user may press Close while one is under way
    FlakyDisk,      \* those whose small-file writes may fail (logged only)
    Lossy,          \* whether requests and answers may be lost
    TTL,            \* the lease, in ticks: 90 s is 3
    MaxMissed,      \* bound: consecutive beats of one launch that may fail
    MaxGrants,      \* bound: locks granted
    MaxSessions     \* bound: browsers opened

ASSUME SyncAssumption ==
    /\ Forcers \subseteq Machine
    /\ Crashable \subseteq Machine
    /\ Impatient \subseteq Machine
    /\ FlakyDisk \subseteq Machine
    /\ Lossy \in BOOLEAN
    /\ TTL \in Nat \ {0}
    /\ MaxMissed \in Nat
    /\ MaxGrants \in Nat
    /\ MaxSessions \in Nat

VARIABLES
    \* The server.
    lockTok,    \* the token in the profile's lock row, NoTok if no row
    lockLeft,   \* ticks until the row expires; 0 once it has
    grants,     \* locks granted so far: the source of fresh tokens
    version,    \* profiles.current_version
    bundle,     \* bundle[v]: the sessions saved in version v
    uploads,    \* upload handlers past the lock check, still receiving
    \* Each machine.
    phase,      \* where its launch or stop has got to
    tok,        \* the lock token it holds
    beat,       \* its heartbeat task: "off", "wait"ing or "due"
    missed,     \* consecutive beats that failed
    base,       \* the version this launch pulled, then the one it pushed
    cur,        \* the session of its last browser
    local,      \* the sessions in its profile directory
    held,       \* the version file beside the directory
    marker,     \* the unsent-session marker beside the directory
    aside,      \* the sessions in directories it moved aside
    sessions    \* browsers opened so far

serverVars == <<lockTok, lockLeft, grants, version, bundle, uploads>>
rowVars    == <<lockTok, lockLeft, grants>>
storeVars  == <<version, bundle, uploads>>
runVars    == <<tok, beat, missed>>
diskVars   == <<local, held, marker, aside>>
vars == <<lockTok, lockLeft, grants, version, bundle, uploads, phase, tok, beat,
          missed, base, cur, local, held, marker, aside, sessions>>

NoTok == 0
None  == -1

Launching == {"fetching", "moved", "unmarked", "unpacking", "unpacked", "ready"}
Using     == Launching \cup {"open", "closing"}
Stopping  == {"packing", "pushing", "sent", "unmarking", "refused", "unsent", "settled"}
Phase     == Using \cup Stopping \cup {"closed", "granted", "unlocking"}

Upload == [id : 0..sessions, base : 0..version, work : SUBSET (1..sessions)]

LockType ==
    /\ lockTok \in 0..grants
    /\ lockLeft \in 0..TTL
    /\ grants \in Nat
    /\ tok \in [Machine -> 0..grants]
    /\ beat \in [Machine -> {"off", "wait", "due"}]
    /\ missed \in [Machine -> 0..MaxMissed]

StoreType ==
    /\ version \in Nat
    /\ sessions \in Nat
    /\ bundle \in [0..version -> SUBSET (1..sessions)]
    /\ uploads \subseteq Upload

RunType ==
    /\ phase \in [Machine -> Phase]
    /\ base \in [Machine -> 0..version]
    /\ cur \in [Machine -> 0..sessions]

DiskType ==
    /\ local \in [Machine -> SUBSET (1..sessions)]
    /\ held \in [Machine -> -1..version]
    /\ marker \in [Machine -> -1..version]
    /\ aside \in [Machine -> SUBSET (1..sessions)]

TypeOK == LockType /\ StoreType /\ RunType /\ DiskType

Init ==
    /\ lockTok = NoTok
    /\ lockLeft = 0
    /\ grants = 0
    /\ version = 0
    /\ bundle = [v \in {0} |-> {}]
    /\ uploads = {}
    /\ phase = [m \in Machine |-> "closed"]
    /\ tok = [m \in Machine |-> NoTok]
    /\ beat = [m \in Machine |-> "off"]
    /\ missed = [m \in Machine |-> 0]
    /\ base = [m \in Machine |-> 0]
    /\ cur = [m \in Machine |-> 0]
    /\ local = [m \in Machine |-> {}]
    /\ held = [m \in Machine |-> None]
    /\ marker = [m \in Machine |-> None]
    /\ aside = [m \in Machine |-> {}]
    /\ sessions = 0

Goto(m, p) == phase' = [phase EXCEPT ![m] = p]

----------------------------------------------------------------------------
(* The lock.                                                               *)

\* The upsert's WHERE: no row, an expired row, or a force the caller may use.
MayTake(m) == lockTok = NoTok \/ lockLeft = 0 \/ m \in Forcers

GrantRow ==
    /\ grants < MaxGrants
    /\ grants' = grants + 1
    /\ lockTok' = grants + 1
    /\ lockLeft' = TTL

\* The shell asks for the lock and is given it, with a fresh token.
Acquire(m) ==
    /\ phase[m] = "closed"
    /\ MayTake(m)
    /\ GrantRow
    /\ tok' = [tok EXCEPT ![m] = grants + 1]
    /\ Goto(m, "granted")
    /\ UNCHANGED <<storeVars, beat, missed, base, cur, diskVars, sessions>>

\* The grant is recorded and its answer never arrives.
AcquireUnanswered(m) ==
    /\ Lossy
    /\ phase[m] = "closed"
    /\ MayTake(m)
    /\ GrantRow
    /\ UNCHANGED <<storeVars, phase, runVars, base, cur, diskVars, sessions>>

\* The row goes only if it still carries this machine's token.
DropRow(m) ==
    /\ lockTok' = IF lockTok = tok[m] THEN NoTok ELSE lockTok
    /\ lockLeft' = IF lockTok = tok[m] THEN 0 ELSE lockLeft
    /\ grants' = grants

\* An unlock that never reaches the server leaves the row to lapse.
UnlockRow(m) ==
    \/ DropRow(m)
    \/ Lossy /\ UNCHANGED rowVars

\* The renewal does not look at the expiry: a lapsed row that nobody took is
\* renewed like a live one.
Renew(m) ==
    /\ lockTok = tok[m]
    /\ lockLeft' = TTL
    /\ beat' = [beat EXCEPT ![m] = "wait"]
    /\ missed' = [missed EXCEPT ![m] = 0]
    /\ UNCHANGED <<lockTok, grants, storeVars, phase, tok, base, cur, diskVars, sessions>>

\* 409: the task ends, and the launch or the browser carries on.
BeatLost(m) ==
    /\ lockTok # tok[m]
    /\ beat' = [beat EXCEPT ![m] = "off"]
    /\ UNCHANGED <<serverVars, phase, tok, missed, base, cur, diskVars, sessions>>

\* The request fails, and the next one is due a period later; or it hangs, for
\* one of the ten periods its timeout allows.
BeatMissed(m) ==
    /\ missed[m] < MaxMissed
    /\ beat' = [beat EXCEPT ![m] = "wait"]
    /\ missed' = [missed EXCEPT ![m] = @ + 1]
    /\ UNCHANGED <<serverVars, phase, tok, base, cur, diskVars, sessions>>

Beat(m) == beat[m] = "due" /\ (Renew(m) \/ BeatLost(m) \/ BeatMissed(m))

\* Mutant: the lease of a row nobody holds keeps counting down.
TickPastZero ==
    /\ \A m \in Machine : beat[m] # "due" /\ phase[m] # "granted"
    /\ lockLeft > 0 \/ \E m \in Machine : beat[m] = "wait"
    /\ lockLeft' = lockLeft - 1
    /\ beat' = [m \in Machine |-> IF beat[m] = "wait" THEN "due" ELSE beat[m]]
    /\ UNCHANGED <<lockTok, grants, storeVars, phase, tok, missed, base, cur, diskVars, sessions>>

\* A heartbeat period passes.
Tick ==
    /\ \A m \in Machine : beat[m] # "due" /\ phase[m] # "granted"
    /\ lockLeft > 0 \/ \E m \in Machine : beat[m] = "wait"
    /\ lockLeft' = IF lockLeft > 0 THEN lockLeft - 1 ELSE 0
    /\ beat' = [m \in Machine |-> IF beat[m] = "wait" THEN "due" ELSE beat[m]]
    /\ UNCHANGED <<lockTok, grants, storeVars, phase, tok, missed, base, cur, diskVars, sessions>>
----------------------------------------------------------------------------
(* The launch.                                                             *)

\* Mutant: the heartbeat is not started before the bundle is pulled.
LaunchWithoutBeat(m) ==
    /\ phase[m] = "granted"
    /\ Goto(m, "fetching")
    /\ UNCHANGED <<serverVars, runVars, base, cur, diskVars, sessions>>

\* The agent starts renewing the lock before anything else it does.
LaunchStarts(m) ==
    /\ phase[m] = "granted"
    /\ beat' = [beat EXCEPT ![m] = "wait"]
    /\ missed' = [missed EXCEPT ![m] = 0]
    /\ Goto(m, "fetching")
    /\ UNCHANGED <<serverVars, tok, base, cur, diskVars, sessions>>

\* 404: the profile has no bundle yet, and the directory is used as it is.
FetchNothing(m) ==
    /\ phase[m] = "fetching"
    /\ version = 0
    /\ base' = [base EXCEPT ![m] = 0]
    /\ Goto(m, "ready")
    /\ UNCHANGED <<serverVars, runVars, cur, diskVars, sessions>>

\* 304: the directory is the current version, or grew from it.
FetchUnchanged(m) ==
    /\ phase[m] = "fetching"
    /\ version > 0
    /\ held[m] = version
    /\ base' = [base EXCEPT ![m] = version]
    /\ Goto(m, "ready")
    /\ UNCHANGED <<serverVars, runVars, cur, diskVars, sessions>>

\* The server's bundle came; what happens to it is decided by the marker.
Fetched(m) ==
    /\ phase[m] = "fetching"
    /\ version > 0
    /\ held[m] # version
    /\ base' = [base EXCEPT ![m] = version]

KeepLocal(m) ==
    /\ Fetched(m)
    /\ marker[m] = version
    /\ Goto(m, "ready")
    /\ UNCHANGED <<serverVars, runVars, cur, diskVars, sessions>>

\* Mutant: the unsent session is not looked for.
UnpackOverMarker(m) ==
    /\ Fetched(m)
    /\ local' = [local EXCEPT ![m] = {}]
    /\ Goto(m, "unpacking")
    /\ UNCHANGED <<serverVars, runVars, cur, held, marker, aside, sessions>>

\* Mutant: the version is written down before its files are in place.
UnpackRecordsFirst(m) ==
    /\ Fetched(m)
    /\ marker[m] = None
    /\ local' = [local EXCEPT ![m] = {}]
    /\ held' = [held EXCEPT ![m] = version]
    /\ Goto(m, "unpacking")
    /\ UNCHANGED <<serverVars, runVars, cur, marker, aside, sessions>>

\* Unpacking goes over the directory file by file: until it has finished,
\* nothing in the directory is known to be whole.
Unpack(m) ==
    /\ Fetched(m)
    /\ marker[m] = None
    /\ local' = [local EXCEPT ![m] = {}]
    /\ Goto(m, "unpacking")
    /\ UNCHANGED <<serverVars, runVars, cur, held, marker, aside, sessions>>

\* Three steps of set_aside: rename, clear the marker, drop the version file.
SetAside(m) ==
    /\ Fetched(m)
    /\ marker[m] \notin {None, version}
    /\ aside' = [aside EXCEPT ![m] = @ \cup local[m]]
    /\ local' = [local EXCEPT ![m] = {}]
    /\ Goto(m, "moved")
    /\ UNCHANGED <<serverVars, runVars, cur, held, marker, sessions>>

ClearAside(m) ==
    /\ phase[m] = "moved"
    /\ marker' = [marker EXCEPT ![m] = None]
    /\ Goto(m, "unmarked")
    /\ UNCHANGED <<serverVars, runVars, base, cur, local, held, aside, sessions>>

ForgetHeld(m) ==
    /\ phase[m] = "unmarked"
    /\ held' = [held EXCEPT ![m] = None]
    /\ Goto(m, "unpacking")
    /\ UNCHANGED <<serverVars, runVars, base, cur, local, marker, aside, sessions>>

EndUnpack(m) ==
    /\ phase[m] = "unpacking"
    /\ local' = [local EXCEPT ![m] = bundle[base[m]]]
    /\ Goto(m, "unpacked")
    /\ UNCHANGED <<serverVars, runVars, base, cur, held, marker, aside, sessions>>

\* Writing a small file may fail on a flaky disk; the failure is only logged.
Recorded(file, m, v) ==
    \/ file' = [file EXCEPT ![m] = v]
    \/ m \in FlakyDisk /\ UNCHANGED file

RecordPull(m) ==
    /\ phase[m] = "unpacked"
    /\ Recorded(held, m, base[m])
    /\ Goto(m, "ready")
    /\ UNCHANGED <<serverVars, runVars, base, cur, local, marker, aside, sessions>>

OpenBrowser(m) ==
    /\ phase[m] = "ready"
    /\ sessions < MaxSessions
    /\ sessions' = sessions + 1
    /\ cur' = [cur EXCEPT ![m] = sessions + 1]
    /\ local' = [local EXCEPT ![m] = @ \cup {sessions + 1}]
    /\ Goto(m, "open")
    /\ UNCHANGED <<serverVars, runVars, base, held, marker, aside>>

\* Any `?` on the way: the guard aborts the heartbeat, the shell unlocks.
LaunchFails(m) ==
    /\ phase[m] \in {"granted", "fetching", "unpacking", "ready"}
    /\ beat' = [beat EXCEPT ![m] = "off"]
    /\ Goto(m, "unlocking")
    /\ UNCHANGED <<serverVars, tok, missed, base, cur, diskVars, sessions>>

UnlockAfterFailure(m) ==
    /\ phase[m] = "unlocking"
    /\ UnlockRow(m)
    /\ tok' = [tok EXCEPT ![m] = NoTok]
    /\ Goto(m, "closed")
    /\ UNCHANGED <<storeVars, beat, missed, base, cur, diskVars, sessions>>

----------------------------------------------------------------------------
(* The stop: by the button or by the reaper, on one path.                  *)

\* The button: the entry leaves the running map, and the browser is asked to
\* close and given up to ten seconds.
AskToClose(m) ==
    /\ phase[m] = "open"
    /\ Goto(m, "closing")
    /\ UNCHANGED <<serverVars, runVars, base, cur, diskVars, sessions>>

\* The browser is gone; the heartbeat is aborted before packing begins.  A
\* browser closed from its own window comes here at once, by the reaper.
CloseBrowser(m) ==
    /\ phase[m] \in {"open", "closing"}
    /\ beat' = [beat EXCEPT ![m] = "off"]
    /\ Goto(m, "packing")
    /\ UNCHANGED <<serverVars, tok, missed, base, cur, diskVars, sessions>>

\* Close is pressed while the agent is already closing: it answers that
\* nothing was stopped, and the shell gives back the lock it still knows of.
CloseAgain(m) ==
    /\ m \in Impatient
    /\ phase[m] \in {"closing"} \cup Stopping
    /\ DropRow(m)
    /\ UNCHANGED <<storeVars, phase, runVars, base, cur, diskVars, sessions>>

HoldsLock(m) == lockTok = tok[m] /\ lockLeft > 0

\* Mutant: the upload names the version the server has, not the one pulled.
StartUploadOnTop(m) ==
    /\ phase[m] = "packing"
    /\ HoldsLock(m)
    /\ uploads' = uploads \cup {[id |-> cur[m], base |-> version, work |-> local[m]]}
    /\ Goto(m, "pushing")
    /\ UNCHANGED <<rowVars, version, bundle, runVars, base, cur, diskVars, sessions>>

\* The request arrives and passes the lock check; its body follows.
StartUpload(m) ==
    /\ phase[m] = "packing"
    /\ HoldsLock(m)
    /\ uploads' = uploads \cup {[id |-> cur[m], base |-> base[m], work |-> local[m]]}
    /\ Goto(m, "pushing")
    /\ UNCHANGED <<rowVars, version, bundle, runVars, base, cur, diskVars, sessions>>

RefuseUpload(m) ==
    /\ phase[m] = "packing"
    /\ ~HoldsLock(m)
    /\ Goto(m, "refused")
    /\ UNCHANGED <<serverVars, runVars, base, cur, diskVars, sessions>>

\* Packing fails, the request does not get through, or its answer does not.
PushFails(m) ==
    /\ Lossy
    /\ phase[m] \in {"packing", "pushing"}
    /\ Goto(m, "unsent")
    /\ UNCHANGED <<serverVars, runVars, base, cur, diskVars, sessions>>

\* The machine still waiting for upload u, if it is.
Awaits(m, u) == phase[m] = "pushing" /\ cur[m] = u.id

Answer(u, p) ==
    phase' = [m \in Machine |-> IF Awaits(m, u) THEN p ELSE phase[m]]

\* The transaction, under the profile's row lock.
CommitUpload(u) ==
    /\ u.base = version
    /\ version' = version + 1
    /\ bundle' = [v \in 0..(version + 1) |-> IF v = version + 1 THEN u.work ELSE bundle[v]]
    /\ uploads' = uploads \ {u}
    /\ Answer(u, "sent")
    /\ base' = [m \in Machine |-> IF Awaits(m, u) THEN version + 1 ELSE base[m]]
    /\ UNCHANGED <<rowVars, runVars, cur, diskVars, sessions>>

\* Somebody else uploaded in between: 409.
StaleUpload(u) ==
    /\ u.base # version
    /\ uploads' = uploads \ {u}
    /\ Answer(u, "refused")
    /\ UNCHANGED <<rowVars, version, bundle, runVars, base, cur, diskVars, sessions>>

\* The body breaks off, the server restarts, or the upload is refused for its
\* size, digest or key generation: the handler ends with nothing recorded.
DropUpload(u) ==
    /\ Lossy \/ \A m \in Machine : ~Awaits(m, u)
    /\ uploads' = uploads \ {u}
    /\ Answer(u, "unsent")
    /\ UNCHANGED <<rowVars, version, bundle, runVars, base, cur, diskVars, sessions>>

\* The server took it: the marker goes, then the version file is written.
ClearMarker(m) ==
    /\ phase[m] = "sent"
    /\ marker' = [marker EXCEPT ![m] = None]
    /\ Goto(m, "unmarking")
    /\ UNCHANGED <<serverVars, runVars, base, cur, local, held, aside, sessions>>

RecordPush(m) ==
    /\ phase[m] = "unmarking"
    /\ Recorded(held, m, base[m])
    /\ Goto(m, "settled")
    /\ UNCHANGED <<serverVars, runVars, base, cur, local, marker, aside, sessions>>

\* Mutant: a push that was not answered returns before the lock is released.
MarkOnlyRefused(m) ==
    /\ phase[m] = "refused"
    /\ Recorded(marker, m, base[m])
    /\ Goto(m, "settled")
    /\ UNCHANGED <<serverVars, runVars, base, cur, local, held, aside, sessions>>

\* The server did not, or did not say so: the session is marked unsent.
Mark(m) ==
    /\ phase[m] \in {"refused", "unsent"}
    /\ Recorded(marker, m, base[m])
    /\ Goto(m, "settled")
    /\ UNCHANGED <<serverVars, runVars, base, cur, local, held, aside, sessions>>

\* Mutant: the heartbeat task outlives the stop, with the token it was given.
ReleaseKeepsBeat(m) ==
    /\ phase[m] = "settled"
    /\ UnlockRow(m)
    /\ beat' = [beat EXCEPT ![m] = "wait"]
    /\ Goto(m, "closed")
    /\ UNCHANGED <<storeVars, tok, missed, base, cur, diskVars, sessions>>

\* After the push, whether or not it succeeded.
Release(m) ==
    /\ phase[m] = "settled"
    /\ UnlockRow(m)
    /\ tok' = [tok EXCEPT ![m] = NoTok]
    /\ Goto(m, "closed")
    /\ UNCHANGED <<storeVars, beat, missed, base, cur, diskVars, sessions>>

----------------------------------------------------------------------------
\* The machine loses power.  Its disk stays as it is; the server does not
\* notice, and an upload whose body had arrived may still be committed.
Crash(m) ==
    /\ m \in Crashable
    /\ phase[m] # "closed"
    /\ tok' = [tok EXCEPT ![m] = NoTok]
    /\ beat' = [beat EXCEPT ![m] = "off"]
    /\ Goto(m, "closed")
    /\ UNCHANGED <<serverVars, missed, base, cur, diskVars, sessions>>

LaunchStep(m) ==
    \/ LaunchStarts(m)
    \/ FetchNothing(m)
    \/ FetchUnchanged(m)
    \/ KeepLocal(m)
    \/ Unpack(m)
    \/ SetAside(m)
    \/ ClearAside(m)
    \/ ForgetHeld(m)
    \/ EndUnpack(m)
    \/ RecordPull(m)
    \/ OpenBrowser(m)
    \/ LaunchFails(m)
    \/ UnlockAfterFailure(m)

StopStep(m) ==
    \/ AskToClose(m)
    \/ CloseBrowser(m)
    \/ StartUpload(m)
    \/ RefuseUpload(m)
    \/ PushFails(m)
    \/ ClearMarker(m)
    \/ RecordPush(m)
    \/ Mark(m)
    \/ Release(m)

ServerStep(u) == CommitUpload(u) \/ StaleUpload(u) \/ DropUpload(u)

Next ==
    \/ \E m \in Machine :
          \/ Acquire(m)
          \/ AcquireUnanswered(m)
          \/ Beat(m)
          \/ LaunchStep(m)
          \/ StopStep(m)
          \/ CloseAgain(m)
          \/ Crash(m)
    \/ \E u \in uploads : ServerStep(u)
    \/ Tick

Spec == Init /\ [][Next]_vars
----------------------------------------------------------------------------
(* Properties.                                                             *)

\* The versions on the server form one line: a later version contains every
\* session of an earlier one.  upload_bundle's base_version check under
\* FOR UPDATE, the version file and the marker all have to agree for this.
LinearHistory ==
    \A v, w \in 0..version : v <= w => bundle[v] \subseteq bundle[w]

\* A directory recorded as the current version contains it, so skipping the
\* download (304, held) or keeping the local copy (decide) loses nothing.
Based == {"unpacked", "ready", "open", "closing", "packing", "pushing", "sent", "unmarking",
          "refused", "unsent"}

CurrentIsWhole ==
    \A m \in Machine :
       (\/ held[m] = version
        \/ marker[m] = version
        \/ phase[m] \in Based /\ base[m] = version)
       => bundle[version] \subseteq local[m]

PullInv ==
    \A m \in Machine :
       /\ phase[m] \in {"moved", "unmarked", "unpacking", "unpacked"} =>
             held[m] < base[m] /\ marker[m] < base[m]
       /\ phase[m] \in {"moved", "unmarked", "unpacking"} => local[m] = {}

UploadInv ==
    \A u \in uploads :
       /\ u.base = version => bundle[version] \subseteq u.work
       /\ \A m \in Machine : Awaits(m, u) => u.work = local[m]

CurInv ==
    /\ \A m, n \in Machine : cur[m] = cur[n] /\ cur[m] # 0 => m = n
    /\ \A m \in Machine : phase[m] \in {"open", "closing"} \cup Stopping => cur[m] # 0
    /\ \A m \in Machine, u \in uploads : phase[m] \in {"open", "closing", "packing"} => u.id # cur[m]

\* The inductive strengthening of LinearHistory: whatever a machine takes for
\* the current version, on disk, in its launch or on the wire, contains it.
HistoryInv ==
    bundle[0] = {} /\ LinearHistory /\ CurrentIsWhole /\ PullInv /\ UploadInv /\ CurInv

\* No session that reached a browser disappears: it is in the version the
\* server hands out, or in a directory of some machine, live or moved aside.
Safe(s) ==
    \/ s \in bundle[version]
    \/ \E m \in Machine : s \in local[m] \cup aside[m]

NoSessionLost == \A s \in 1..sessions : Safe(s)

\* A directory with no marker has nothing the server lacks, except while its
\* browser is open or its session is on the way to the server.
Unmarked ==
    \A m \in Machine :
       /\ phase[m] \in Launching \cup {"closed", "granted", "unlocking", "settled"} =>
             marker[m] # None \/ local[m] \subseteq bundle[version]
       /\ phase[m] \in {"sent", "unmarking"} => local[m] \subseteq bundle[version]

\* At most one machine has the profile's browser open (docs/06, the purpose of
\* the lock), if nobody forces, nobody presses Close twice, and fewer than
\* TTL - 1 beats in a row fail.
BrowserUp(m) == phase[m] \in {"open", "closing"}

OneBrowser ==
    \A m, n \in Machine : BrowserUp(m) /\ BrowserUp(n) => m = n

\* Every token a machine holds is its own, and was granted.
TokenInv ==
    \A m, n \in Machine :
       /\ phase[m] = "closed" <=> tok[m] = NoTok
       /\ tok[m] = tok[n] /\ tok[m] # NoTok => m = n

\* The strengthening of OneBrowser: from grant to close the row carries this
\* machine's token, with a lease left for every beat that has not failed yet.
LeaseInv ==
    \A m \in Machine :
       /\ phase[m] = "granted" => lockTok = tok[m] /\ lockLeft = TTL
       /\ phase[m] \in Using =>
             /\ lockTok = tok[m]
             /\ beat[m] # "off"
             /\ lockLeft + missed[m] + (IF beat[m] = "due" THEN 1 ELSE 0) >= TTL

\* The inductive invariant under OneBrowser.
ExclusionInv == TokenInv /\ LeaseInv

\* The inductive invariant under NoSessionLost.
KeepInv == NoSessionLost /\ Unmarked

\* The lock is given back after the push, not under it: "releasing first would
\* be racing ourselves for it" (ipc.rs, stop).
ReleasedAfterPush ==
    [][\A m \in Machine :
         lockTok = tok[m] /\ tok[m] # NoTok /\ lockTok' = NoTok =>
           phase[m] \in {"settled", "unlocking"}]_vars

\* The versions are an append-only line (BundleHistory).
History == INSTANCE BundleHistory
ImplementsBundleHistory == History!Spec

----------------------------------------------------------------------------
(* Fairness: time passes, and each machine and each upload handler gets on *)
(* with what it has begun.  Nothing makes a person open or close a browser *)
(* and no failure has to happen.                                           *)

Fairness ==
    /\ WF_vars(Tick)
    /\ \A m \in Machine :
          /\ WF_vars(Beat(m))
          /\ WF_vars(LaunchStep(m))
          /\ WF_vars(StopStep(m) /\ phase[m] # "open")
    /\ WF_vars(\E u \in uploads : ServerStep(u))

FairSpec == Spec /\ Fairness

\* A lock whose browser has gone comes free: released, lapsed or taken over.
LockComesFree ==
    \A k \in 1..MaxGrants :
       (lockTok = k /\ \A m \in Machine : tok[m] = k => phase[m] \notin Using \cup {"granted"})
         ~> (lockTok # k \/ lockLeft = 0)

\* A stop that began ends, with the profile closed and its lock given up,
\* whatever the push came to.
StopEnds == \A m \in Machine : phase[m] = "packing" ~> phase[m] = "closed"

============================================================================
