---------------------------- MODULE BundleStore ----------------------------
(***************************************************************************)
(* Where the team server keeps bundles (server/src/api.rs): a row of the   *)
(* database for every version, and a file of the same name on disk.  The   *)
(* two are written apart, so every way out of an upload has to leave them  *)
(* in agreement.                                                           *)
(*                                                                         *)
(* An upload is received into a staging file, takes the profile's row FOR  *)
(* UPDATE, moves the file to its version's name, and records the version   *)
(* and forgets the old ones in one transaction; the old files go after the *)
(* commit.  RemoveOnDrop takes the file away on every other way out.       *)
(* Beside it run downloads, the trash (delete, list, restore, purge) and a *)
(* server that is killed and sweeps its staging files when it starts.      *)
(*                                                                         *)
(* Who may upload, and for how long, is ProfileSync's business: a lock can *)
(* lapse under an upload that passed its checks, so here any request for a *)
(* profile outside the trash may begin, based on any version there ever    *)
(* was.  A bundle's content is the set of browsing sessions in it, and an  *)
(* upload adds one to the content it is based on.                          *)
(***************************************************************************)
EXTENDS Integers, FiniteSets

CONSTANTS
    Profile,        \* the organisation's shared profiles
    Handler,        \* uploads served at once: each holds a pooled connection
    None,           \* no profile, no holder
    Keep,           \* FURY_KEEP_BUNDLE_VERSIONS, 0 for all of them
    Ceiling,        \* FURY_MAX_STORAGE_PER_ORG, in bundles of one size
    Torn,           \* the database may abort a transaction, or the answer to
                    \* COMMIT may never reach its handler
    Purges,         \* the trash may be emptied
    MaxUploads      \* bound: uploads begun

ASSUME StoreAssumption ==
    /\ None \notin Handler
    /\ IsFiniteSet(Profile)
    /\ IsFiniteSet(Handler) /\ Handler # {}
    /\ None \notin Profile
    /\ Keep \in Nat
    /\ Ceiling \in Nat
    /\ Torn \in BOOLEAN
    /\ Purges \in BOOLEAN
    /\ MaxUploads \in Nat

Session == 1..MaxUploads
Version == 1..MaxUploads

VARIABLES
    status,     \* status[p]: "live", in the "trash", or "gone" for good
    current,    \* profiles.current_version
    rows,       \* rows[p]: the versions with a row in bundles
    file,       \* file[p][v]: what <p>/<v>.bundle holds, {} if there is none
    incoming,   \* incoming[p]: the staging files in p's directory
    rowLock,    \* the handler whose transaction has p's row FOR UPDATE
    uploads,    \* uploads begun so far; an upload's session has its number
    stage,      \* where each handler is
    of,         \* the profile it uploads to
    base,       \* the version its client started from
    load,       \* the sessions in its body
    number,     \* its staging file
    version,    \* the version it is to become, once it has the row
    used,       \* the organisation's storage when it began
    stale,      \* the files it has still to prune
    reader,     \* a download: where it is, and the version its row named
    listed,     \* the profiles on somebody's trash screen
    purging,    \* purges that have removed the bytes and not yet the row
    \* Of history only:
    line,       \* line[p][v]: what version v was published with
    purged,     \* the profiles whose bytes a purge removed
    torn,       \* the <<p, v>> whose file guard outlives its row lock
    mishap      \* the server or a handler died, or a file could not be removed

rowVars     == <<status, current, rows, line>>
requestVars == <<of, base, load, number, used>>
trashVars   == <<listed, purging, purged>>
vars == <<status, current, rows, line, file, incoming, rowLock, uploads, stage, of, base,
          load, number, used, version, stale, reader, listed, purging, purged, torn, mishap>>

Stage == {"idle", "receiving", "locked", "moved", "rolling", "torn", "pruning"}
InTransaction == {"locked", "moved", "rolling"}
Content == SUBSET Session
Reader == [at : {"idle", "named", "served", "failed"},
           profile : Profile \cup {None}, version : 0..MaxUploads, got : Content]

RowType ==
    /\ status \in [Profile -> {"live", "trash", "gone"}]
    /\ current \in [Profile -> 0..MaxUploads]
    /\ rows \in [Profile -> SUBSET Version]
    /\ line \in [Profile -> [Version -> Content]]
    /\ rowLock \in [Profile -> Handler \cup {None}]

DiskType ==
    /\ file \in [Profile -> [Version -> Content]]
    /\ incoming \in [Profile -> SUBSET Session]

HandlerType ==
    /\ uploads \in 0..MaxUploads
    /\ stage \in [Handler -> Stage]
    /\ of \in [Handler -> Profile \cup {None}]
    /\ base \in [Handler -> 0..MaxUploads]
    /\ load \in [Handler -> Content]
    /\ number \in [Handler -> 0..MaxUploads]
    /\ used \in [Handler -> Nat]
    /\ version \in [Handler -> 0..MaxUploads]
    /\ stale \in [Handler -> SUBSET Version]

BesideType ==
    /\ reader \in Reader
    /\ reader.at # "idle" => reader.profile \in Profile /\ reader.version \in Version
    /\ listed \subseteq Profile
    /\ purging \subseteq Profile
    /\ purged \subseteq Profile
    /\ torn \subseteq Profile \X Version
    /\ mishap \in BOOLEAN

\* A handler at work has a profile, and a version once it has had the row.
HandlerOK ==
    \A h \in Handler :
       /\ stage[h] # "idle" => of[h] \in Profile
       /\ stage[h] \in {"locked", "moved", "rolling", "torn"} => version[h] # 0

TypeOK == RowType /\ DiskType /\ HandlerType /\ HandlerOK /\ BesideType

Init ==
    /\ status = [p \in Profile |-> "live"]
    /\ current = [p \in Profile |-> 0]
    /\ rows = [p \in Profile |-> {}]
    /\ line = [p \in Profile |-> [v \in Version |-> {}]]
    /\ file = [p \in Profile |-> [v \in Version |-> {}]]
    /\ incoming = [p \in Profile |-> {}]
    /\ rowLock = [p \in Profile |-> None]
    /\ uploads = 0
    /\ stage = [h \in Handler |-> "idle"]
    /\ of = [h \in Handler |-> None]
    /\ base = [h \in Handler |-> 0]
    /\ load = [h \in Handler |-> {}]
    /\ number = [h \in Handler |-> 0]
    /\ used = [h \in Handler |-> 0]
    /\ version = [h \in Handler |-> 0]
    /\ stale = [h \in Handler |-> {}]
    /\ reader = [at |-> "idle", profile |-> None, version |-> 0, got |-> {}]
    /\ listed = {}
    /\ purging = {}
    /\ purged = {}
    /\ torn = {}
    /\ mishap = FALSE

Saved(p, v) == IF v = 0 THEN {} ELSE line[p][v]
Stored == Cardinality({x \in Profile \X Version : x[2] \in rows[x[1]]})
Goto(h, where) == stage' = [stage EXCEPT ![h] = where]
Free(p) == rowLock[p] = None
Release(p) == rowLock' = [rowLock EXCEPT ![p] = None]

\* A removal that may fail, which is logged and no more.
Unlink(p, v) ==
    \/ /\ file' = [file EXCEPT ![p][v] = {}]
       /\ mishap' = mishap
    \/ /\ file' = file
       /\ mishap' = TRUE

Unstage(h) ==
    \/ /\ incoming' = [incoming EXCEPT ![of[h]] = @ \ {number[h]}]
       /\ mishap' = mishap
    \/ /\ incoming' = incoming
       /\ mishap' = TRUE

----------------------------------------------------------------------------
(* An upload.                                                              *)

\* The checks, the quota's one reading of what is stored, the staging file.
Begin(h, p, b) ==
    /\ stage[h] = "idle"
    /\ status[p] = "live"
    /\ b <= current[p]
    /\ uploads < MaxUploads
    /\ uploads' = uploads + 1
    /\ of' = [of EXCEPT ![h] = p]
    /\ base' = [base EXCEPT ![h] = b]
    /\ load' = [load EXCEPT ![h] = Saved(p, b) \cup {uploads + 1}]
    /\ number' = [number EXCEPT ![h] = uploads + 1]
    /\ used' = [used EXCEPT ![h] = Stored]
    /\ incoming' = [incoming EXCEPT ![p] = @ \cup {uploads + 1}]
    /\ Goto(h, "receiving")
    /\ UNCHANGED <<rowVars, file, rowLock, version, stale, reader, trashVars, torn, mishap>>

\* Any way out before the row is locked and found at the right version: a
\* client gone, a body too large or not as its digest, no room, a profile
\* purged meanwhile, or somebody else's version (409).
Stops(h) ==
    /\ stage[h] = "receiving"
    /\ Unstage(h)
    /\ Goto(h, "idle")
    /\ UNCHANGED <<rowVars, file, rowLock, uploads, requestVars, version, stale, reader, trashVars, torn>>

LocksRow(h) ==
    /\ status[of[h]] # "gone"
    /\ current[of[h]] < MaxUploads      \* each version took an upload
    /\ rowLock' = [rowLock EXCEPT ![of[h]] = h]
    /\ version' = [version EXCEPT ![h] = current[of[h]] + 1]
    /\ Goto(h, "locked")
    /\ UNCHANGED <<rowVars, file, incoming, uploads, requestVars, stale, reader, trashVars, torn, mishap>>

\* Mutant: the later upload wins.
TakesAnyVersion(h) ==
    /\ stage[h] = "receiving"
    /\ used[h] < Ceiling
    /\ Free(of[h])
    /\ LocksRow(h)

\* Mutant: the single upload is measured, the organisation is not.
TakesAnySize(h) ==
    /\ stage[h] = "receiving"
    /\ Free(of[h])
    /\ base[h] = current[of[h]]
    /\ LocksRow(h)

\* SELECT current_version ... FOR UPDATE, after a body that fitted the quota.
TakesRow(h) ==
    /\ stage[h] = "receiving"
    /\ used[h] < Ceiling
    /\ Free(of[h])
    /\ base[h] = current[of[h]]
    /\ LocksRow(h)

\* rename, into the version's name; from here on bundle_guard stands.
Moves(h) ==
    /\ stage[h] = "locked"
    /\ number[h] \in incoming[of[h]]
    /\ incoming' = [incoming EXCEPT ![of[h]] = @ \ {number[h]}]
    /\ file' = [file EXCEPT ![of[h]][version[h]] = load[h]]
    /\ Goto(h, "moved")
    /\ UNCHANGED <<rowVars, rowLock, uploads, requestVars, version, stale, reader, trashVars, torn, mishap>>

\* The rename fails: the transaction is dropped, then the staging file.
MoveFails(h) ==
    /\ stage[h] = "locked"
    /\ Unstage(h)
    /\ Release(of[h])
    /\ Goto(h, "idle")
    /\ UNCHANGED <<rowVars, file, uploads, requestVars, version, stale, reader, trashVars, torn>>

\* Mutant: the guard declared before the transaction.
FailsUnlocked(h) ==
    /\ stage[h] = "moved"
    /\ Release(of[h])
    /\ Goto(h, "torn")
    /\ UNCHANGED <<rowVars, file, incoming, uploads, requestVars, version, stale, reader, trashVars, torn, mishap>>

\* Mutant: no guard over the renamed file.
FailsUnguarded(h) ==
    /\ stage[h] = "moved"
    /\ Goto(h, "rolling")
    /\ UNCHANGED <<rowVars, file, incoming, rowLock, uploads, requestVars, version, stale, reader, trashVars, torn, mishap>>

\* A refusal after the rename (the key was rotated), or the client gone: the
\* guard drops before the transaction does.
Fails(h) ==
    /\ stage[h] = "moved"
    /\ Unlink(of[h], version[h])
    /\ Goto(h, "rolling")
    /\ UNCHANGED <<rowVars, incoming, rowLock, uploads, requestVars, version, stale, reader, trashVars, torn>>

RollsBack(h) ==
    /\ stage[h] = "rolling"
    /\ Release(of[h])
    /\ Goto(h, "idle")
    /\ UNCHANGED <<rowVars, file, incoming, uploads, requestVars, version, stale, reader, trashVars, torn, mishap>>

\* Mutant: one version less than Keep stays.
ForgottenEarly(h) == IF Keep = 0 THEN {} ELSE {v \in rows[of[h]] : v <= version[h] - Keep + 1}

\* The transaction: the row, the rows too old to keep, current_version.
Forgotten(h) == IF Keep = 0 THEN {} ELSE {v \in rows[of[h]] : v <= version[h] - Keep}

Records(h) ==
    /\ stage[h] = "moved"
    /\ version[h] \notin rows[of[h]]      \* UNIQUE (profile_id, version)
    /\ rows' = [rows EXCEPT ![of[h]] = (@ \cup {version[h]}) \ Forgotten(h)]
    /\ current' = [current EXCEPT ![of[h]] = version[h]]
    /\ line' = [line EXCEPT ![of[h]][version[h]] = load[h]]
    /\ Release(of[h])

Commits(h) ==
    /\ Records(h)
    /\ stale' = [stale EXCEPT ![h] = Forgotten(h)]
    /\ Goto(h, "pruning")
    /\ UNCHANGED <<status, file, incoming, uploads, requestVars, version, reader, trashVars, torn, mishap>>

\* The files of the versions forgotten, one by one.
Prunes(h) ==
    /\ stage[h] = "pruning"
    /\ \E v \in stale[h] :
          /\ Unlink(of[h], v)
          /\ stale' = [stale EXCEPT ![h] = @ \ {v}]
    /\ UNCHANGED <<rowVars, incoming, rowLock, uploads, stage, requestVars, version, reader, trashVars, torn>>

Answers(h) ==
    /\ stage[h] = "pruning"
    /\ stale[h] = {}
    /\ Goto(h, "idle")
    /\ UNCHANGED <<rowVars, file, incoming, rowLock, uploads, requestVars, version, stale, reader, trashVars, torn, mishap>>

\* PostgreSQL releases a transaction's locks when a statement of it fails, or
\* its connection does: the handler learns of it later, and its guard with it.
Aborts(h) ==
    /\ Torn
    /\ stage[h] = "moved"
    /\ Release(of[h])
    /\ torn' = torn \cup {<<of[h], version[h]>>}
    /\ Goto(h, "torn")
    /\ UNCHANGED <<rowVars, file, incoming, uploads, requestVars, version, stale, reader, trashVars, mishap>>

\* COMMIT takes effect, and its answer never comes: the connection is lost, or
\* the client is and the handler is dropped where it waits.
CommitsUnheard(h) ==
    /\ Torn
    /\ Records(h)
    /\ torn' = torn \cup {<<of[h], version[h]>>}
    /\ mishap' = TRUE                   \* nobody prunes now
    /\ Goto(h, "torn")
    /\ UNCHANGED <<status, file, incoming, uploads, requestVars, version, stale, reader, trashVars>>

\* The guard drops, with no lock held.
DropsLate(h) ==
    /\ stage[h] = "torn"
    /\ Unlink(of[h], version[h])
    /\ Goto(h, "idle")
    /\ UNCHANGED <<rowVars, incoming, rowLock, uploads, requestVars, version, stale, reader, trashVars, torn>>

----------------------------------------------------------------------------
(* A download: the newest row, then its file.                              *)

ReadsRow(p) ==
    /\ reader.at # "named"
    /\ status[p] = "live"
    /\ \E v \in rows[p] :
          /\ \A w \in rows[p] : w <= v
          /\ reader' = [at |-> "named", profile |-> p, version |-> v, got |-> {}]
    /\ UNCHANGED <<rowVars, file, incoming, rowLock, uploads, stage, requestVars, version, stale, trashVars, torn, mishap>>

ReadsFile ==
    /\ reader.at = "named"
    /\ LET found == file[reader.profile][reader.version] IN
       reader' = [reader EXCEPT !.at = IF found = {} THEN "failed" ELSE "served",
                                !.got = found]
    /\ UNCHANGED <<rowVars, file, incoming, rowLock, uploads, stage, requestVars, version, stale, trashVars, torn, mishap>>

----------------------------------------------------------------------------
(* The trash.  A statement on a profile's row waits for whoever locked it. *)

SetStatus(p, s) ==
    /\ Free(p)
    /\ status' = [status EXCEPT ![p] = s]

DeletesProfile(p) ==
    /\ status[p] = "live"
    /\ SetStatus(p, "trash")
    /\ UNCHANGED <<current, rows, line, file, incoming, rowLock, uploads, stage, requestVars,
                   version, stale, reader, trashVars, torn, mishap>>

RestoresProfile(p) ==
    /\ status[p] = "trash"
    /\ SetStatus(p, "live")
    /\ UNCHANGED <<current, rows, line, file, incoming, rowLock, uploads, stage, requestVars,
                   version, stale, reader, trashVars, torn, mishap>>

ListsTrash ==
    /\ Purges
    /\ listed' = {p \in Profile : status[p] = "trash"}
    /\ UNCHANGED <<rowVars, file, incoming, rowLock, uploads, stage, requestVars, version, stale, reader,
                   purging, purged, torn, mishap>>

\* A purge asked for on that screen.  The bytes go first.
PurgesBytes(p) ==
    /\ p \in listed
    /\ status[p] # "gone"
    /\ file' = [file EXCEPT ![p] = [v \in Version |-> {}]]
    /\ incoming' = [incoming EXCEPT ![p] = {}]
    /\ purging' = purging \cup {p}
    /\ purged' = purged \cup {p}
    /\ UNCHANGED <<rowVars, rowLock, uploads, stage, requestVars, version, stale, reader, listed, torn, mishap>>

\* DELETE ... WHERE deleted_at IS NOT NULL, and the bundles' rows by cascade.
PurgesRow(p) ==
    /\ p \in purging
    /\ Free(p)
    /\ purging' = purging \ {p}
    /\ status' = [status EXCEPT ![p] = IF @ = "live" THEN "live" ELSE "gone"]
    /\ rows' = [rows EXCEPT ![p] = IF status[p] = "live" THEN @ ELSE {}]
    /\ UNCHANGED <<current, line, file, incoming, rowLock, uploads, stage, requestVars, version, stale,
                   reader, listed, purged, torn, mishap>>

----------------------------------------------------------------------------
\* The server is killed with everything it was doing, starts again, and sweeps
\* the staging files that nothing has written to for an hour.
Restarts ==
    /\ mishap' = TRUE
    /\ \E swept \in SUBSET Session :
          incoming' = [p \in Profile |-> incoming[p] \ swept]
    /\ rowLock' = [p \in Profile |-> None]
    /\ stage' = [h \in Handler |-> "idle"]
    /\ stale' = [h \in Handler |-> {}]
    /\ reader' = [at |-> "idle", profile |-> None, version |-> 0, got |-> {}]
    /\ purging' = {}
    /\ UNCHANGED <<rowVars, file, uploads, requestVars, version, listed, purged, torn>>

UploadStep(h) ==
    \/ \E p \in Profile, b \in 0..MaxUploads : Begin(h, p, b)
    \/ Stops(h) \/ TakesRow(h) \/ Moves(h) \/ MoveFails(h)
    \/ Fails(h) \/ RollsBack(h) \/ Commits(h) \/ Prunes(h) \/ Answers(h)
    \/ Aborts(h) \/ CommitsUnheard(h) \/ DropsLate(h)

TrashStep ==
    \/ ListsTrash
    \/ \E p \in Profile :
          DeletesProfile(p) \/ RestoresProfile(p) \/ PurgesBytes(p) \/ PurgesRow(p)

Next ==
    \/ \E h \in Handler : UploadStep(h)
    \/ \E p \in Profile : ReadsRow(p)
    \/ ReadsFile
    \/ TrashStep
    \/ Restarts

Spec == Init /\ [][Next]_vars

----------------------------------------------------------------------------
(* Properties.                                                             *)

\* A transaction has its profile's row to itself: no two handlers are between
\* FOR UPDATE and the end of a transaction on one profile (api.rs, upload_bundle,
\* "two uploads that both read version 5").
LockInv ==
    /\ \A h \in Handler : stage[h] \in InTransaction => rowLock[of[h]] = h
    /\ \A p \in Profile : rowLock[p] # None =>
          stage[rowLock[p]] \in InTransaction /\ of[rowLock[p]] = p

\* What a handler knows of its profile stays true while it may act on it.
Knows(h) ==
    /\ stage[h] \in {"receiving", "locked", "moved"} =>
          /\ base[h] <= current[of[h]]
          /\ Saved(of[h], base[h]) \subseteq load[h]
          /\ load[h] # {}
    /\ stage[h] \in InTransaction => version[h] = current[of[h]] + 1
    /\ stage[h] \in {"locked", "moved"} => base[h] = current[of[h]]
    /\ stage[h] = "moved" =>
          \/ of[h] \in purged
          \/ <<of[h], version[h]>> \in torn
          \/ file[of[h]][version[h]] = load[h]
    /\ stage[h] = "torn" => <<of[h], version[h]>> \in torn
    /\ stage[h] = "pruning" =>
          \A v \in stale[h] : v <= current[of[h]] /\ v \notin rows[of[h]]

HandlerInv == \A h \in Handler : Knows(h)

\* A version's file is what it was published with, and can be gone only once
\* its row is: except what a purge removed, and what a guard removed late.
FileInv ==
    \A p \in Profile \ purged : \A v \in 1..current[p] :
       \/ <<p, v>> \in torn
       \/ file[p][v] = line[p][v]
       \/ v \notin rows[p] /\ file[p][v] = {}

RowInv ==
    /\ purging \subseteq purged
    /\ \A p \in Profile : rows[p] \subseteq 1..current[p]
    /\ \A p \in Profile : \A v \in 1..current[p] : line[p][v] # {}

StoreInv == LockInv /\ HandlerInv /\ FileInv /\ RowInv

\* A row's file is there and is the one it was published with, except what a
\* purge removed and what a guard removed late.
NamedIsThere ==
    \A p \in Profile \ purged : \A v \in rows[p] :
       <<p, v>> \notin torn => file[p][v] = line[p][v]

\* The whole promise.
LiveIsWhole ==
    \A p \in Profile : status[p] = "live" => \A v \in rows[p] : file[p][v] # {}

Guarded(p, v) ==
    \E h \in Handler :
       /\ of[h] = p
       /\ \/ stage[h] \in {"moved", "torn"} /\ v = version[h]
          \/ stage[h] = "pruning" /\ v \in stale[h]

\* No file is left that nobody will remove, unless the server was killed or a
\* removal failed.
NoLitter ==
    ~mishap =>
       /\ \A p \in Profile : \A n \in incoming[p] :
             \E h \in Handler : stage[h] \in {"receiving", "locked"} /\ of[h] = p /\ number[h] = n
       /\ \A p \in Profile \ purged, v \in Version :
             file[p][v] # {} => v \in rows[p] \/ Guarded(p, v)

\* A download finds its file, unless Keep newer versions were saved under it.
DownloadFinds ==
    LET p == reader.profile
        v == reader.version
    IN  /\ reader.at = "served" => p \in purged \/ <<p, v>> \in torn \/ reader.got = line[p][v]
        /\ reader.at = "failed" => p \in purged \/ <<p, v>> \in torn
                                   \/ (Keep > 0 /\ v + Keep <= current[p])

\* The organisation goes over its ceiling by no more than what was received at
\* once: the quota is read before the stream, and never again.
QuotaBound == Stored <= Ceiling + Cardinality(Handler) - 1

\* Each profile's versions are an append-only line (BundleHistory), whatever
\* was pruned of it since.
History(p) ==
    INSTANCE BundleHistory WITH
        version <- current[p],
        bundle <- [v \in 0..current[p] |-> Saved(p, v)]

ImplementsBundleHistory ==
    /\ \A p \in Profile : History(p)!Init
    /\ [][\A p \in Profile :
            History(p)!Publish \/ UNCHANGED <<current[p], line[p]>>]_<<current, line>>
============================================================================
