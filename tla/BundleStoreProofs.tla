------------------------- MODULE BundleStoreProofs -------------------------
(***************************************************************************)
(* Theorems about BundleStore, for every set of profiles and handlers and  *)
(* every Keep, Ceiling and number of uploads.                              *)
(***************************************************************************)
EXTENDS BundleStore, FiniteSetTheorems, TLAPS

USE DEF Goto, Free, Release, rowVars, requestVars, trashVars, Session, Version, Content

\* Writing one file, or none, leaves a directory of files.
LEMMA UpdateType ==
    ASSUME NEW f \in [Profile -> [Version -> Content]], NEW p, NEW v, NEW c \in Content
    PROVE  [f EXCEPT ![p][v] = c] \in [Profile -> [Version -> Content]]
  OBVIOUS

\* A removal, done or failed, leaves one too.
LEMMA UnlinkType ==
    ASSUME TypeOK, NEW p, NEW v, Unlink(p, v)
    PROVE  file' \in [Profile -> [Version -> Content]] /\ mishap' \in BOOLEAN
<1>1. file \in [Profile -> [Version -> Content]] /\ mishap \in BOOLEAN
  BY DEF TypeOK, DiskType, BesideType
<1>2. [file EXCEPT ![p][v] = {}] \in [Profile -> [Version -> Content]]
  <2>1. {} \in Content OBVIOUS
  <2> QED BY <1>1, <2>1, UpdateType
<1> QED BY <1>1, <1>2 DEF Unlink

\* And so does dropping a staging file.
LEMMA UnstageType ==
    ASSUME TypeOK, NEW h \in Handler, Unstage(h)
    PROVE  incoming' \in [Profile -> SUBSET Session] /\ mishap' \in BOOLEAN
  BY DEF Unstage, TypeOK, DiskType, BesideType

\* The server starts with no uploads and nothing stored.
THEOREM InitTypeOK == Init => TypeOK
<1> SUFFICES ASSUME Init PROVE TypeOK
  OBVIOUS
<1> USE StoreAssumption DEF Init
<1>1. RowType BY DEF RowType
<1>2. DiskType BY DEF DiskType
<1>3. HandlerType BY DEF HandlerType, Stage
<1>4. HandlerOK BY DEF HandlerOK
<1>5. BesideType
  <2>1. {} \in Content /\ 0 \in 0..MaxUploads OBVIOUS
  <2>2. reader \in Reader BY <2>1 DEF Reader
  <2> QED BY <2>2 DEF BesideType
<1> QED BY <1>1, <1>2, <1>3, <1>4, <1>5 DEF TypeOK

\* What the organisation stores is a number of rows.
LEMMA StoredNat == ASSUME TypeOK PROVE Stored \in Nat
<1> DEFINE Row == {x \in Profile \X Version : x[2] \in rows[x[1]]}
<1>1. IsFiniteSet(Version) BY StoreAssumption, FS_Interval
<1>2. IsFiniteSet(Profile \X Version) BY <1>1, StoreAssumption, FS_Product
<1>3. IsFiniteSet(Row) BY <1>2, FS_Subset
<1> QED BY <1>3, FS_CardinalityType DEF Stored

\* Every step of an upload, a download, the trash and a restart keeps the types.
THEOREM NextTypeOK == TypeOK /\ [Next]_vars => TypeOK'
<1> SUFFICES ASSUME TypeOK, [Next]_vars PROVE TypeOK'
  OBVIOUS
<1> USE StoreAssumption DEF TypeOK, Stage
<1>1. ASSUME NEW h \in Handler, UploadStep(h) PROVE TypeOK'
  <2>1. ASSUME NEW p \in Profile, NEW b \in 0..MaxUploads, Begin(h, p, b) PROVE TypeOK'
    <3>1. RowType' BY <2>1 DEF RowType, Begin
    <3>2. DiskType' BY <2>1 DEF DiskType, HandlerType, Begin
    <3>3. HandlerType'
      <4>1. Saved(p, b) \cup {uploads + 1} \in Content
        BY <2>1 DEF RowType, HandlerType, Begin, Saved
      <4> QED BY <2>1, <4>1, StoredNat DEF HandlerType, Begin
    <3>4. HandlerOK' BY <2>1 DEF HandlerType, HandlerOK, Begin
    <3>5. BesideType' BY <2>1 DEF BesideType, Begin
    <3> QED BY <3>1, <3>2, <3>3, <3>4, <3>5
  <2>2. CASE Stops(h)
    <3>1. RowType' BY <2>2 DEF RowType, Stops
    <3>2. DiskType' BY <2>2, UnstageType DEF DiskType, Stops
    <3>3. HandlerType' BY <2>2 DEF HandlerType, Stops
    <3>4. HandlerOK' BY <2>2 DEF HandlerOK, Stops
    <3>5. BesideType' BY <2>2, UnstageType DEF BesideType, Stops
    <3> QED BY <3>1, <3>2, <3>3, <3>4, <3>5
  <2>3. CASE TakesRow(h)
    <3>1. RowType' BY <2>3 DEF RowType, TakesRow, LocksRow
    <3>2. DiskType' BY <2>3 DEF DiskType, TakesRow, LocksRow
    <3>3. HandlerType' BY <2>3 DEF RowType, HandlerType, HandlerOK, TakesRow, LocksRow
    <3>4. HandlerOK' BY <2>3 DEF HandlerType, HandlerOK, TakesRow, LocksRow
    <3>5. BesideType' BY <2>3 DEF BesideType, TakesRow, LocksRow
    <3> QED BY <3>1, <3>2, <3>3, <3>4, <3>5
  <2>4. CASE Moves(h)
    <3>1. RowType' BY <2>4 DEF RowType, Moves
    <3>2. DiskType' BY <2>4 DEF DiskType, HandlerType, Moves
    <3>3. HandlerType' BY <2>4 DEF HandlerType, Moves
    <3>4. HandlerOK' BY <2>4 DEF HandlerOK, Moves
    <3>5. BesideType' BY <2>4 DEF BesideType, Moves
    <3> QED BY <3>1, <3>2, <3>3, <3>4, <3>5
  <2>5. CASE MoveFails(h)
    <3>1. RowType' BY <2>5 DEF RowType, MoveFails
    <3>2. DiskType' BY <2>5, UnstageType DEF DiskType, MoveFails
    <3>3. HandlerType' BY <2>5 DEF HandlerType, MoveFails
    <3>4. HandlerOK' BY <2>5 DEF HandlerOK, MoveFails
    <3>5. BesideType' BY <2>5, UnstageType DEF BesideType, MoveFails
    <3> QED BY <3>1, <3>2, <3>3, <3>4, <3>5
  <2>6. CASE Fails(h)
    <3>1. RowType' BY <2>6 DEF RowType, Fails
    <3>2. DiskType' BY <2>6, UnlinkType DEF DiskType, Fails
    <3>3. HandlerType' BY <2>6 DEF HandlerType, Fails
    <3>4. HandlerOK' BY <2>6 DEF HandlerOK, Fails
    <3>5. BesideType' BY <2>6, UnlinkType DEF BesideType, Fails
    <3> QED BY <3>1, <3>2, <3>3, <3>4, <3>5
  <2>7. CASE RollsBack(h)
    <3>1. RowType' BY <2>7 DEF RowType, RollsBack
    <3>2. DiskType' BY <2>7 DEF DiskType, RollsBack
    <3>3. HandlerType' BY <2>7 DEF HandlerType, RollsBack
    <3>4. HandlerOK' BY <2>7 DEF HandlerOK, RollsBack
    <3>5. BesideType' BY <2>7 DEF BesideType, RollsBack
    <3> QED BY <3>1, <3>2, <3>3, <3>4, <3>5
  <2>8. CASE Commits(h)
    <3>1. RowType' BY <2>8 DEF RowType, HandlerType, HandlerOK, Commits, Records
    <3>2. DiskType' BY <2>8 DEF DiskType, Commits, Records
    <3>3. HandlerType' BY <2>8 DEF RowType, HandlerType, HandlerOK, Commits, Records, Forgotten
    <3>4. HandlerOK' BY <2>8 DEF HandlerOK, Commits, Records
    <3>5. BesideType' BY <2>8 DEF BesideType, Commits, Records
    <3> QED BY <3>1, <3>2, <3>3, <3>4, <3>5
  <2>9. CASE Prunes(h)
    <3>1. RowType' BY <2>9 DEF RowType, Prunes
    <3>2. DiskType' BY <2>9, UnlinkType DEF DiskType, Prunes
    <3>3. HandlerType' BY <2>9 DEF HandlerType, Prunes
    <3>4. HandlerOK' BY <2>9 DEF HandlerOK, Prunes
    <3>5. BesideType' BY <2>9, UnlinkType DEF BesideType, Prunes
    <3> QED BY <3>1, <3>2, <3>3, <3>4, <3>5
  <2>10. CASE Answers(h)
    <3>1. RowType' BY <2>10 DEF RowType, Answers
    <3>2. DiskType' BY <2>10 DEF DiskType, Answers
    <3>3. HandlerType' BY <2>10 DEF HandlerType, Answers
    <3>4. HandlerOK' BY <2>10 DEF HandlerOK, Answers
    <3>5. BesideType' BY <2>10 DEF BesideType, Answers
    <3> QED BY <3>1, <3>2, <3>3, <3>4, <3>5
  <2>11. CASE Aborts(h)
    <3>1. RowType' BY <2>11 DEF RowType, Aborts
    <3>2. DiskType' BY <2>11 DEF DiskType, Aborts
    <3>3. HandlerType' BY <2>11 DEF HandlerType, Aborts
    <3>4. HandlerOK' BY <2>11 DEF HandlerOK, Aborts
    <3>5. BesideType' BY <2>11 DEF HandlerType, HandlerOK, BesideType, Aborts
    <3> QED BY <3>1, <3>2, <3>3, <3>4, <3>5
  <2>12. CASE CommitsUnheard(h)
    <3>1. RowType'
      BY <2>12, UpdateType DEF RowType, HandlerType, HandlerOK, CommitsUnheard, Records,
         Forgotten
    <3>2. DiskType' BY <2>12 DEF DiskType, CommitsUnheard, Records
    <3>3. HandlerType' BY <2>12 DEF HandlerType, CommitsUnheard, Records
    <3>4. HandlerOK' BY <2>12 DEF HandlerOK, CommitsUnheard, Records
    <3>5. BesideType' BY <2>12 DEF HandlerType, HandlerOK, BesideType, CommitsUnheard, Records
    <3> QED BY <3>1, <3>2, <3>3, <3>4, <3>5
  <2>13. CASE DropsLate(h)
    <3>1. RowType' BY <2>13 DEF RowType, DropsLate
    <3>2. DiskType' BY <2>13, UnlinkType DEF DiskType, DropsLate
    <3>3. HandlerType' BY <2>13 DEF HandlerType, DropsLate
    <3>4. HandlerOK' BY <2>13 DEF HandlerOK, DropsLate
    <3>5. BesideType' BY <2>13, UnlinkType DEF BesideType, DropsLate
    <3> QED BY <3>1, <3>2, <3>3, <3>4, <3>5
  <2> QED BY <1>1, <2>1, <2>2, <2>3, <2>4, <2>5, <2>6, <2>7, <2>8, <2>9, <2>10, <2>11, <2>12,
             <2>13 DEF UploadStep
<1>2. ASSUME NEW p \in Profile, ReadsRow(p) PROVE TypeOK'
  <2>1. RowType' BY <1>2 DEF RowType, ReadsRow
  <2>2. DiskType' BY <1>2 DEF DiskType, ReadsRow
  <2>3. HandlerType' BY <1>2 DEF HandlerType, ReadsRow
  <2>4. HandlerOK' BY <1>2 DEF HandlerOK, ReadsRow
  <2>5. BesideType' BY <1>2 DEF RowType, BesideType, ReadsRow, Reader
  <2> QED BY <2>1, <2>2, <2>3, <2>4, <2>5
<1>3. CASE ReadsFile
  <2>1. RowType' BY <1>3 DEF RowType, ReadsFile
  <2>2. DiskType' BY <1>3 DEF DiskType, ReadsFile
  <2>3. HandlerType' BY <1>3 DEF HandlerType, ReadsFile
  <2>4. HandlerOK' BY <1>3 DEF HandlerOK, ReadsFile
  <2>5. BesideType'
    <3>1. reader.profile \in Profile /\ reader.version \in Version
      BY <1>3 DEF BesideType, ReadsFile
    <3>2. file[reader.profile][reader.version] \in Content
      BY <3>1 DEF DiskType
    <3> QED BY <1>3, <3>2 DEF BesideType, ReadsFile, Reader
  <2> QED BY <2>1, <2>2, <2>3, <2>4, <2>5
<1>4. CASE TrashStep
  <2>1. CASE ListsTrash
    <3>1. RowType' BY <2>1 DEF RowType, ListsTrash
    <3>2. DiskType' BY <2>1 DEF DiskType, ListsTrash
    <3>3. HandlerType' BY <2>1 DEF HandlerType, ListsTrash
    <3>4. HandlerOK' BY <2>1 DEF HandlerOK, ListsTrash
    <3>5. BesideType' BY <2>1 DEF BesideType, ListsTrash
    <3> QED BY <3>1, <3>2, <3>3, <3>4, <3>5
  <2>2. ASSUME NEW p \in Profile, DeletesProfile(p) PROVE TypeOK'
    <3>1. RowType' BY <2>2 DEF RowType, DeletesProfile, SetStatus
    <3>2. DiskType' BY <2>2 DEF DiskType, DeletesProfile, SetStatus
    <3>3. HandlerType' BY <2>2 DEF HandlerType, DeletesProfile, SetStatus
    <3>4. HandlerOK' BY <2>2 DEF HandlerOK, DeletesProfile, SetStatus
    <3>5. BesideType' BY <2>2 DEF BesideType, DeletesProfile, SetStatus
    <3> QED BY <3>1, <3>2, <3>3, <3>4, <3>5
  <2>3. ASSUME NEW p \in Profile, RestoresProfile(p) PROVE TypeOK'
    <3>1. RowType' BY <2>3 DEF RowType, RestoresProfile, SetStatus
    <3>2. DiskType' BY <2>3 DEF DiskType, RestoresProfile, SetStatus
    <3>3. HandlerType' BY <2>3 DEF HandlerType, RestoresProfile, SetStatus
    <3>4. HandlerOK' BY <2>3 DEF HandlerOK, RestoresProfile, SetStatus
    <3>5. BesideType' BY <2>3 DEF BesideType, RestoresProfile, SetStatus
    <3> QED BY <3>1, <3>2, <3>3, <3>4, <3>5
  <2>4. ASSUME NEW p \in Profile, PurgesBytes(p) PROVE TypeOK'
    <3>1. RowType' BY <2>4 DEF RowType, PurgesBytes
    <3>2. DiskType' BY <2>4 DEF DiskType, PurgesBytes
    <3>3. HandlerType' BY <2>4 DEF HandlerType, PurgesBytes
    <3>4. HandlerOK' BY <2>4 DEF HandlerOK, PurgesBytes
    <3>5. BesideType' BY <2>4 DEF BesideType, PurgesBytes
    <3> QED BY <3>1, <3>2, <3>3, <3>4, <3>5
  <2>5. ASSUME NEW p \in Profile, PurgesRow(p) PROVE TypeOK'
    <3>1. RowType' BY <2>5 DEF RowType, PurgesRow
    <3>2. DiskType' BY <2>5 DEF DiskType, PurgesRow
    <3>3. HandlerType' BY <2>5 DEF HandlerType, PurgesRow
    <3>4. HandlerOK' BY <2>5 DEF HandlerOK, PurgesRow
    <3>5. BesideType' BY <2>5 DEF BesideType, PurgesRow
    <3> QED BY <3>1, <3>2, <3>3, <3>4, <3>5
  <2> QED BY <1>4, <2>1, <2>2, <2>3, <2>4, <2>5 DEF TrashStep
<1>5. CASE Restarts
  <2>1. RowType' BY <1>5 DEF RowType, Restarts
  <2>2. DiskType' BY <1>5 DEF DiskType, Restarts
  <2>3. HandlerType' BY <1>5 DEF HandlerType, Restarts
  <2>4. HandlerOK' BY <1>5 DEF HandlerOK, Restarts
  <2>5. BesideType' BY <1>5 DEF BesideType, Restarts, Reader
  <2> QED BY <2>1, <2>2, <2>3, <2>4, <2>5
<1>6. CASE UNCHANGED vars
  <2>1. RowType' BY <1>6 DEF RowType, vars
  <2>2. DiskType' BY <1>6 DEF DiskType, vars
  <2>3. HandlerType' BY <1>6 DEF HandlerType, vars
  <2>4. HandlerOK' BY <1>6 DEF HandlerOK, vars
  <2>5. BesideType' BY <1>6 DEF BesideType, vars
  <2> QED BY <2>1, <2>2, <2>3, <2>4, <2>5
<1> QED BY <1>1, <1>2, <1>3, <1>4, <1>5, <1>6 DEF Next

\* The types hold in every state of every run.
THEOREM TypeCorrect == Spec => []TypeOK
  BY InitTypeOK, NextTypeOK, PTL DEF Spec
----------------------------------------------------------------------------
(* Rows and files.                                                         *)

\* A server with nothing stored has rows and files in agreement.
THEOREM InitStoreInv == Init => StoreInv
<1> SUFFICES ASSUME Init PROVE StoreInv
  OBVIOUS
<1> USE StoreAssumption DEF Init
<1>1. LockInv BY DEF LockInv, InTransaction
<1>2. HandlerInv BY DEF HandlerInv, Knows, InTransaction
<1>3. FileInv BY DEF FileInv
<1>4. RowInv BY DEF RowInv
<1> QED BY <1>1, <1>2, <1>3, <1>4 DEF StoreInv


\* What the steps below need of the types.
LEMMA Typed ==
    ASSUME TypeOK
    PROVE  /\ stage \in [Handler -> Stage]
           /\ of \in [Handler -> Profile \cup {None}]
           /\ base \in [Handler -> Nat]
           /\ load \in [Handler -> Content]
           /\ version \in [Handler -> Nat]
           /\ stale \in [Handler -> SUBSET Version]
           /\ rowLock \in [Profile -> Handler \cup {None}]
           /\ current \in [Profile -> Nat]
           /\ rows \in [Profile -> SUBSET Version]
           /\ line \in [Profile -> [Version -> Content]]
           /\ file \in [Profile -> [Version -> Content]]
           /\ \A p \in Profile : \A v \in 1..current[p] : v \in Version
           /\ \A h \in Handler : stage[h] # "idle" => of[h] \in Profile
           /\ \A h \in Handler : stage[h] \in InTransaction \cup {"torn"} => version[h] \in Version
  BY StoreAssumption DEF TypeOK, RowType, DiskType, HandlerType, HandlerOK, InTransaction

\* A removal touches one file, and leaves it as it was or takes it away.
LEMMA UnlinkOne ==
    ASSUME TypeOK, NEW p \in Profile, NEW v \in Version, Unlink(p, v)
    PROVE  /\ \A q \in Profile, w \in Version : q # p \/ w # v => file'[q][w] = file[q][w]
           /\ file'[p][v] = file[p][v] \/ file'[p][v] = {}
<1>1. file \in [Profile -> [Version -> Content]] BY Typed
<1>2. CASE file' = [file EXCEPT ![p][v] = {}]
  <2>1. \A q \in Profile, w \in Version : q # p \/ w # v => file'[q][w] = file[q][w]
    BY <1>1, <1>2
  <2>2. file'[p][v] = {}
    BY <1>1, <1>2
  <2> QED BY <2>1, <2>2
<1>3. CASE file' = file
  BY <1>3
<1> QED BY <1>2, <1>3 DEF Unlink

\* What does not touch an invariant's variables keeps it; the exceptions to
\* it may grow.
LEMMA LockFrame ==
    ASSUME LockInv, UNCHANGED <<stage, of, rowLock>> PROVE LockInv'
  BY DEF LockInv

\* What FileInv speaks of is unchanged.
LEMMA FileFrame ==
    ASSUME FileInv, UNCHANGED <<file, line, rows, current>>,
           torn \subseteq torn', purged \subseteq purged'
    PROVE  FileInv'
  BY DEF FileInv

\* What RowInv speaks of is unchanged.
LEMMA RowFrame ==
    ASSUME RowInv, UNCHANGED <<line, rows, current, purging, purged>> PROVE RowInv'
  BY DEF RowInv

\* A handler that does nothing knows what it knew.
LEMMA KnowsFrame ==
    ASSUME NEW h \in Handler, Knows(h),
           stage'[h] = stage[h], of'[h] = of[h], base'[h] = base[h], load'[h] = load[h],
           version'[h] = version[h], stale'[h] = stale[h],
           UNCHANGED <<current, rows, line, file>>, torn \subseteq torn', purged \subseteq purged'
    PROVE  Knows(h)'
  BY DEF Knows, Saved

\* One file is written: of no version yet, or that a late guard takes away, or
\* of a version already forgotten.
LEMMA FileBeside ==
    ASSUME TypeOK, FileInv, NEW p \in Profile, NEW v \in Version,
           UNCHANGED <<line, rows, current, torn, purged>>,
           \A q \in Profile, w \in Version : q # p \/ w # v => file'[q][w] = file[q][w],
           \/ v = current[p] + 1
           \/ <<p, v>> \in torn
           \/ v \notin rows[p] /\ (file'[p][v] = file[p][v] \/ file'[p][v] = {})
    PROVE  FileInv'
<1> SUFFICES ASSUME NEW q \in Profile, q \notin purged, NEW w \in 1..current[q]
             PROVE  \/ <<q, w>> \in torn
                    \/ file'[q][w] = line[q][w]
                    \/ w \notin rows[q] /\ file'[q][w] = {}
  BY DEF FileInv
<1>1. w \in Version /\ current[q] \in Nat
  BY Typed
<1>2. \/ <<q, w>> \in torn
      \/ file[q][w] = line[q][w]
      \/ w \notin rows[q] /\ file[q][w] = {}
  BY DEF FileInv
<1>3. CASE q # p \/ w # v
  BY <1>1, <1>2, <1>3
<1>4. CASE q = p /\ w = v
  BY <1>1, <1>2, <1>4
<1> QED BY <1>3, <1>4

\* The same where one file is written that is not the one it has moved.
LEMMA KnowsBeside ==
    ASSUME TypeOK, NEW h \in Handler, Knows(h), NEW p \in Profile, NEW v \in Version,
           stage'[h] = stage[h], of'[h] = of[h], base'[h] = base[h], load'[h] = load[h],
           version'[h] = version[h], stale'[h] \subseteq stale[h],
           UNCHANGED <<current, rows, line, torn, purged>>,
           \A q \in Profile, w \in Version : q # p \/ w # v => file'[q][w] = file[q][w],
           stage[h] = "moved" => <<of[h], version[h]>> # <<p, v>> \/ <<p, v>> \in torn
    PROVE  Knows(h)'
<1>1. stage[h] = "moved" => of[h] \in Profile /\ version[h] \in Version
  BY Typed DEF InTransaction
<1> QED BY <1>1 DEF Knows, Saved

\* An idle handler knows nothing that could become wrong.
LEMMA IdleKnows == ASSUME NEW h \in Handler, stage'[h] = "idle" PROVE Knows(h)'
  BY DEF Knows, InTransaction

\* A transaction is alone on its profile.
LEMMA AloneInTransaction ==
    ASSUME LockInv, NEW h \in Handler, NEW k \in Handler, h # k,
           stage[h] \in InTransaction, stage[k] \in InTransaction
    PROVE  of[h] # of[k]
  BY DEF LockInv

\* Recording a version: it follows the newest, and nothing else on the line
\* changes.
LEMMA RecordsRows ==
    ASSUME TypeOK, StoreInv, NEW h \in Handler, Records(h)
    PROVE  /\ of[h] \in Profile /\ version[h] \in Version
           /\ version[h] = current[of[h]] + 1
           /\ load[h] # {}
           /\ current'[of[h]] = version[h]
           /\ rows'[of[h]] = (rows[of[h]] \cup {version[h]}) \ Forgotten(h)
           /\ \A v \in rows[of[h]] : v <= current[of[h]]
           /\ line'[of[h]][version[h]] = load[h]
           /\ \A v \in Version : v # version[h] => line'[of[h]][v] = line[of[h]][v]
           /\ \A p \in Profile : p # of[h] =>
                 current'[p] = current[p] /\ rows'[p] = rows[p] /\ line'[p] = line[p]
<1>1. stage[h] = "moved" BY DEF Records
<1>2. of[h] \in Profile /\ version[h] \in Version
  BY <1>1, Typed DEF InTransaction
<1>3. version[h] = current[of[h]] + 1 /\ load[h] # {}
  BY <1>1 DEF StoreInv, HandlerInv, Knows, InTransaction
<1>4. \A v \in rows[of[h]] : v <= current[of[h]]
  BY <1>2, Typed DEF StoreInv, RowInv
<1> QED BY <1>2, <1>3, <1>4, Typed DEF Records

\* Recording a version leaves true what the other handlers know.
LEMMA RecordsOthers ==
    ASSUME TypeOK, StoreInv, NEW h \in Handler, Records(h), NEW k \in Handler, k # h,
           stage'[k] = stage[k], of'[k] = of[k], base'[k] = base[k], load'[k] = load[k],
           version'[k] = version[k], stale'[k] = stale[k],
           UNCHANGED <<file, purged>>, torn \subseteq torn'
    PROVE  Knows(k)'
<1>1. Knows(k) BY DEF StoreInv, HandlerInv
<1>2. CASE of[k] # of[h]
  <2>1. stage[k] # "idle" => current'[of[k]] = current[of[k]] /\ rows'[of[k]] = rows[of[k]]
                              /\ line'[of[k]] = line[of[k]]
    BY <1>2, RecordsRows, Typed
  <2> QED BY <1>1, <2>1 DEF Knows, Saved, InTransaction
<1>3. CASE of[k] = of[h]
  <2>1. stage[k] \notin InTransaction
    BY <1>3, AloneInTransaction DEF StoreInv, Records, InTransaction
  <2>2. current[of[k]] \in Nat /\ current'[of[k]] = current[of[k]] + 1
    BY <1>3, RecordsRows, Typed
  <2>3. stage[k] = "receiving" => /\ base[k] <= current'[of[k]]
                                  /\ Saved(of[k], base[k])' = Saved(of[k], base[k])
    <3>1. SUFFICES ASSUME stage[k] = "receiving"
          PROVE /\ base[k] <= current'[of[k]]
                /\ Saved(of[k], base[k])' = Saved(of[k], base[k])
      OBVIOUS
    <3>2. base[k] \in Nat /\ base[k] <= current[of[k]]
      BY <1>1, <3>1, Typed DEF Knows
    <3>3. base[k] # 0 => base[k] \in Version /\ base[k] # version[h]
      BY <1>3, <3>2, <2>2, RecordsRows, Typed
    <3> QED BY <1>3, <2>2, <3>2, <3>3, RecordsRows DEF Saved
  <2>4. stage[k] = "pruning" => \A v \in stale[k] : v <= current'[of[k]] /\ v \notin rows'[of[k]]
    BY <1>1, <1>3, <2>2, RecordsRows, Typed DEF Knows
  <2> QED BY <1>1, <2>1, <2>3, <2>4 DEF Knows, InTransaction
<1> QED BY <1>2, <1>3

\* Recording a version names the file its handler moved there.
LEMMA RecordsFile ==
    ASSUME TypeOK, StoreInv, NEW h \in Handler, Records(h),
           UNCHANGED <<file, purged>>, torn \subseteq torn'
    PROVE  FileInv'
<1> SUFFICES ASSUME NEW p \in Profile, p \notin purged, NEW v \in 1..current'[p]
             PROVE  \/ <<p, v>> \in torn
                    \/ file[p][v] = line'[p][v]
                    \/ v \notin rows'[p] /\ file[p][v] = {}
  BY DEF FileInv
<1>1. \A w \in 1..current[p] : \/ <<p, w>> \in torn
                               \/ file[p][w] = line[p][w]
                               \/ w \notin rows[p] /\ file[p][w] = {}
  BY DEF StoreInv, FileInv
<1>2. CASE p # of[h]
  BY <1>1, <1>2, RecordsRows
<1>3. CASE p = of[h] /\ v = version[h]
  <2>1. of[h] \in purged \/ <<of[h], version[h]>> \in torn \/ file[of[h]][version[h]] = load[h]
    BY DEF StoreInv, HandlerInv, Knows, Records
  <2> QED BY <1>3, <2>1, RecordsRows
<1>4. CASE p = of[h] /\ v # version[h]
  <2>1. v \in 1..current[p] /\ v \in Version
    BY <1>4, RecordsRows, Typed
  <2> QED BY <1>1, <1>4, <2>1, RecordsRows
<1> QED BY <1>2, <1>3, <1>4

\* Recording a version keeps the rows below current_version.
LEMMA RecordsRow ==
    ASSUME TypeOK, StoreInv, NEW h \in Handler, Records(h), UNCHANGED <<purging, purged>>
    PROVE  RowInv'
<1> SUFFICES ASSUME NEW p \in Profile
             PROVE  /\ rows'[p] \subseteq 1..current'[p]
                    /\ \A v \in 1..current'[p] : line'[p][v] # {}
  BY DEF StoreInv, RowInv
<1>1. rows[p] \subseteq 1..current[p] /\ \A v \in 1..current[p] : line[p][v] # {}
  BY DEF StoreInv, RowInv
<1>2. CASE p # of[h]
  BY <1>1, <1>2, RecordsRows
<1>3. CASE p = of[h]
  <2>1. current[p] \in Nat /\ current'[p] = current[p] + 1 /\ current'[p] = version[h]
    BY <1>3, RecordsRows, Typed
  <2>2. \A v \in 1..current'[p] : v = version[h] \/ (v \in 1..current[p] /\ v \in Version)
    BY <2>1, Typed
  <2> QED BY <1>1, <1>3, <2>1, <2>2, RecordsRows
<1> QED BY <1>2, <1>3

\* Every step keeps rows and files in agreement.
THEOREM NextStoreInv == TypeOK /\ StoreInv /\ [Next]_vars => StoreInv'
<1> SUFFICES ASSUME TypeOK, StoreInv, [Next]_vars PROVE StoreInv'
  OBVIOUS
<1>t. /\ stage \in [Handler -> Stage]
      /\ of \in [Handler -> Profile \cup {None}]
      /\ base \in [Handler -> Nat]
      /\ load \in [Handler -> Content]
      /\ version \in [Handler -> Nat]
      /\ stale \in [Handler -> SUBSET Version]
      /\ rowLock \in [Profile -> Handler \cup {None}]
      /\ current \in [Profile -> Nat]
      /\ rows \in [Profile -> SUBSET Version]
      /\ line \in [Profile -> [Version -> Content]]
      /\ file \in [Profile -> [Version -> Content]]
      /\ None \notin Handler
  BY Typed, StoreAssumption
<1>o. \A h \in Handler : stage[h] # "idle" => of[h] \in Profile
  BY Typed
<1>v. \A h \in Handler : stage[h] \in InTransaction \cup {"torn"} => version[h] \in Version
  BY Typed
<1>i. LockInv /\ HandlerInv /\ FileInv /\ RowInv
  BY DEF StoreInv
<1>k. \A h \in Handler : Knows(h)
  BY <1>i DEF HandlerInv
<1>1. ASSUME NEW h \in Handler, UploadStep(h) PROVE StoreInv'
  <2>1. ASSUME NEW p \in Profile, NEW b \in 0..MaxUploads, Begin(h, p, b) PROVE StoreInv'
    <3>1. LockInv'
      BY <1>i, <1>t, <1>o, <2>1 DEF Begin, LockInv, InTransaction
    <3>2. HandlerInv'
      <4>1. Knows(h)' BY <1>t, <2>1 DEF Begin, Knows, Saved, InTransaction
      <4>2. ASSUME NEW k \in Handler, k # h PROVE Knows(k)'
        BY <1>k, <1>t, <2>1, <4>2, KnowsFrame DEF Begin
      <4> QED BY <4>1, <4>2 DEF HandlerInv
    <3>3. FileInv'
      BY <1>i, <2>1, FileFrame DEF Begin
    <3>4. RowInv'
      BY <1>i, <2>1, RowFrame DEF Begin
    <3> QED BY <3>1, <3>2, <3>3, <3>4 DEF StoreInv
  <2>2. CASE Stops(h)
    <3>1. LockInv'
      BY <1>i, <1>t, <1>o, <2>2 DEF Stops, LockInv, InTransaction
    <3>2. HandlerInv'
      <4>1. Knows(h)' BY <1>t, <2>2, IdleKnows DEF Stops
      <4>2. ASSUME NEW k \in Handler, k # h PROVE Knows(k)'
        BY <1>k, <1>t, <2>2, <4>2, KnowsFrame DEF Stops
      <4> QED BY <4>1, <4>2 DEF HandlerInv
    <3>3. FileInv'
      BY <1>i, <2>2, FileFrame DEF Stops
    <3>4. RowInv'
      BY <1>i, <2>2, RowFrame DEF Stops
    <3> QED BY <3>1, <3>2, <3>3, <3>4 DEF StoreInv
  <2>3. CASE TakesRow(h)
    <3>1. LockInv'
      BY <1>i, <1>t, <1>o, <2>3 DEF TakesRow, LocksRow, LockInv, InTransaction
    <3>2. HandlerInv'
      <4>1. Knows(h)' BY <1>t, <1>o, <1>k, <2>3 DEF TakesRow, LocksRow, Knows, Saved, InTransaction
      <4>2. ASSUME NEW k \in Handler, k # h PROVE Knows(k)'
        BY <1>k, <1>t, <2>3, <4>2, KnowsFrame DEF TakesRow, LocksRow
      <4> QED BY <4>1, <4>2 DEF HandlerInv
    <3>3. FileInv'
      BY <1>i, <2>3, FileFrame DEF TakesRow, LocksRow
    <3>4. RowInv'
      BY <1>i, <2>3, RowFrame DEF TakesRow, LocksRow
    <3> QED BY <3>1, <3>2, <3>3, <3>4 DEF StoreInv
  <2>4. CASE Moves(h)
    <3>a. of[h] \in Profile /\ version[h] \in Version /\ version[h] = current[of[h]] + 1
      BY <1>k, <1>o, <1>v, <2>4 DEF Moves, Knows, InTransaction
    <3>b. \A q \in Profile, w \in Version :
             q # of[h] \/ w # version[h] => file'[q][w] = file[q][w]
      BY <1>t, <2>4, <3>a DEF Moves
    <3>c. file'[of[h]][version[h]] = load[h]
      BY <1>t, <2>4, <3>a DEF Moves
    <3>1. LockInv'
      BY <1>i, <1>t, <1>o, <2>4 DEF Moves, LockInv, InTransaction
    <3>2. HandlerInv'
      <4>1. Knows(h)'
        BY <1>t, <1>k, <2>4, <3>c DEF Moves, Knows, Saved, InTransaction
      <4>2. ASSUME NEW k \in Handler, k # h PROVE Knows(k)'
        <5>1. stage[k] = "moved" => of[k] # of[h]
          BY <1>i, <2>4, <4>2, AloneInTransaction DEF Moves, InTransaction
        <5>2. stage[k] = "moved" => <<of[k], version[k]>> # <<of[h], version[h]>>
          BY <5>1
        <5>3. Knows(k) BY <1>k
        <5>4. /\ stage'[k] = stage[k] /\ of'[k] = of[k] /\ base'[k] = base[k] /\ load'[k] = load[k]
              /\ version'[k] = version[k] /\ stale'[k] \subseteq stale[k]
              /\ UNCHANGED <<current, rows, line, torn, purged>>
          BY <1>t, <2>4, <4>2 DEF Moves
        <5> QED BY <3>a, <3>b, <5>2, <5>3, <5>4, KnowsBeside
      <4> QED BY <4>1, <4>2 DEF HandlerInv
    <3>3. FileInv'
      BY <1>i, <2>4, <3>a, <3>b, FileBeside DEF Moves
    <3>4. RowInv'
      BY <1>i, <2>4, RowFrame DEF Moves
    <3> QED BY <3>1, <3>2, <3>3, <3>4 DEF StoreInv
  <2>5. CASE MoveFails(h)
    <3>1. LockInv'
      BY <1>i, <1>t, <1>o, <2>5 DEF MoveFails, LockInv, InTransaction
    <3>2. HandlerInv'
      <4>1. Knows(h)' BY <1>t, <2>5, IdleKnows DEF MoveFails
      <4>2. ASSUME NEW k \in Handler, k # h PROVE Knows(k)'
        BY <1>k, <1>t, <2>5, <4>2, KnowsFrame DEF MoveFails
      <4> QED BY <4>1, <4>2 DEF HandlerInv
    <3>3. FileInv'
      BY <1>i, <2>5, FileFrame DEF MoveFails
    <3>4. RowInv'
      BY <1>i, <2>5, RowFrame DEF MoveFails
    <3> QED BY <3>1, <3>2, <3>3, <3>4 DEF StoreInv
  <2>6. CASE Fails(h)
    <3>a. of[h] \in Profile /\ version[h] \in Version /\ version[h] = current[of[h]] + 1
      BY <1>k, <1>o, <1>v, <2>6 DEF Fails, Knows, InTransaction
    <3>b. \A q \in Profile, w \in Version :
             q # of[h] \/ w # version[h] => file'[q][w] = file[q][w]
      BY <2>6, <3>a, UnlinkOne DEF Fails
    <3>1. LockInv'
      BY <1>i, <1>t, <1>o, <2>6 DEF Fails, LockInv, InTransaction
    <3>2. HandlerInv'
      <4>1. Knows(h)'
        BY <1>t, <3>a, <2>6 DEF Fails, Knows, InTransaction
      <4>2. ASSUME NEW k \in Handler, k # h PROVE Knows(k)'
        <5>1. stage[k] = "moved" => of[k] # of[h]
          BY <1>i, <2>6, <4>2, AloneInTransaction DEF Fails, InTransaction
        <5>2. stage[k] = "moved" => <<of[k], version[k]>> # <<of[h], version[h]>>
          BY <5>1
        <5>3. Knows(k) BY <1>k
        <5>4. /\ stage'[k] = stage[k] /\ of'[k] = of[k] /\ base'[k] = base[k] /\ load'[k] = load[k]
              /\ version'[k] = version[k] /\ stale'[k] \subseteq stale[k]
              /\ UNCHANGED <<current, rows, line, torn, purged>>
          BY <1>t, <2>6, <4>2 DEF Fails
        <5> QED BY <3>a, <3>b, <5>2, <5>3, <5>4, KnowsBeside
      <4> QED BY <4>1, <4>2 DEF HandlerInv
    <3>3. FileInv'
      BY <1>i, <2>6, <3>a, <3>b, FileBeside DEF Fails
    <3>4. RowInv'
      BY <1>i, <2>6, RowFrame DEF Fails
    <3> QED BY <3>1, <3>2, <3>3, <3>4 DEF StoreInv
  <2>7. CASE RollsBack(h)
    <3>1. LockInv'
      BY <1>i, <1>t, <1>o, <2>7 DEF RollsBack, LockInv, InTransaction
    <3>2. HandlerInv'
      <4>1. Knows(h)' BY <1>t, <2>7, IdleKnows DEF RollsBack
      <4>2. ASSUME NEW k \in Handler, k # h PROVE Knows(k)'
        BY <1>k, <1>t, <2>7, <4>2, KnowsFrame DEF RollsBack
      <4> QED BY <4>1, <4>2 DEF HandlerInv
    <3>3. FileInv'
      BY <1>i, <2>7, FileFrame DEF RollsBack
    <3>4. RowInv'
      BY <1>i, <2>7, RowFrame DEF RollsBack
    <3> QED BY <3>1, <3>2, <3>3, <3>4 DEF StoreInv
  <2>8. CASE Commits(h)
    <3>r. Records(h) BY <2>8 DEF Commits
    <3>1. LockInv'
      BY <1>i, <1>t, <1>o, <2>8 DEF Commits, Records, LockInv, InTransaction
    <3>2. HandlerInv'
      <4>1. Knows(h)'
        <5>1. \A v \in Forgotten(h) : v \in rows[of[h]] /\ v <= current[of[h]] /\ v \notin rows'[of[h]]
          BY <1>t, <3>r, RecordsRows DEF Forgotten
        <5> QED BY <1>t, <1>o, <2>8, <5>1, RecordsRows DEF Commits, Knows, InTransaction
      <4>2. ASSUME NEW k \in Handler, k # h PROVE Knows(k)'
        BY <1>t, <2>8, <3>r, <4>2, RecordsOthers DEF Commits
      <4> QED BY <4>1, <4>2 DEF HandlerInv
    <3>3. FileInv'
      BY <2>8, <3>r, RecordsFile DEF Commits
    <3>4. RowInv'
      BY <2>8, <3>r, RecordsRow DEF Commits
    <3> QED BY <3>1, <3>2, <3>3, <3>4 DEF StoreInv
  <2>9. CASE Prunes(h)
    <3>0. PICK v \in stale[h] : Unlink(of[h], v) /\ stale' = [stale EXCEPT ![h] = @ \ {v}]
      BY <2>9 DEF Prunes
    <3>a. of[h] \in Profile /\ v \in Version /\ v <= current[of[h]] /\ v \notin rows[of[h]]
      BY <1>k, <1>t, <1>o, <2>9 DEF Prunes, Knows
    <3>b. /\ \A q \in Profile, w \in Version : q # of[h] \/ w # v => file'[q][w] = file[q][w]
          /\ file'[of[h]][v] = file[of[h]][v] \/ file'[of[h]][v] = {}
      BY <3>0, <3>a, UnlinkOne
    <3>1. LockInv'
      BY <1>i, <2>9, LockFrame DEF Prunes
    <3>2. HandlerInv'
      <4>1. ASSUME NEW k \in Handler PROVE Knows(k)'
        <5>1. stale'[k] \subseteq stale[k]
          BY <1>t, <3>0
        <5>2. stage[k] = "moved" => <<of[k], version[k]>> # <<of[h], v>>
          <6>1. stage[k] = "moved" => version[k] = current[of[k]] + 1
            BY <1>k DEF Knows, InTransaction
          <6>2. current[of[h]] \in Nat /\ v \in Nat
            BY <1>t, <3>a
          <6> QED BY <3>a, <6>1, <6>2
        <5> QED BY <1>k, <2>9, <3>a, <3>b, <5>1, <5>2, KnowsBeside DEF Prunes
      <4> QED BY <4>1 DEF HandlerInv
    <3>3. FileInv'
      BY <1>i, <2>9, <3>a, <3>b, FileBeside DEF Prunes
    <3>4. RowInv'
      BY <1>i, <2>9, RowFrame DEF Prunes
    <3> QED BY <3>1, <3>2, <3>3, <3>4 DEF StoreInv
  <2>10. CASE Answers(h)
    <3>1. LockInv'
      BY <1>i, <1>t, <1>o, <2>10 DEF Answers, LockInv, InTransaction
    <3>2. HandlerInv'
      <4>1. Knows(h)' BY <1>t, <2>10, IdleKnows DEF Answers
      <4>2. ASSUME NEW k \in Handler, k # h PROVE Knows(k)'
        BY <1>k, <1>t, <2>10, <4>2, KnowsFrame DEF Answers
      <4> QED BY <4>1, <4>2 DEF HandlerInv
    <3>3. FileInv'
      BY <1>i, <2>10, FileFrame DEF Answers
    <3>4. RowInv'
      BY <1>i, <2>10, RowFrame DEF Answers
    <3> QED BY <3>1, <3>2, <3>3, <3>4 DEF StoreInv
  <2>11. CASE Aborts(h)
    <3>1. LockInv'
      BY <1>i, <1>t, <1>o, <2>11 DEF Aborts, LockInv, InTransaction
    <3>2. HandlerInv'
      <4>1. Knows(h)' BY <1>t, <2>11 DEF Aborts, Knows, InTransaction
      <4>2. ASSUME NEW k \in Handler, k # h PROVE Knows(k)'
        BY <1>k, <1>t, <2>11, <4>2, KnowsFrame DEF Aborts
      <4> QED BY <4>1, <4>2 DEF HandlerInv
    <3>3. FileInv'
      BY <1>i, <2>11, FileFrame DEF Aborts
    <3>4. RowInv'
      BY <1>i, <2>11, RowFrame DEF Aborts
    <3> QED BY <3>1, <3>2, <3>3, <3>4 DEF StoreInv
  <2>12. CASE CommitsUnheard(h)
    <3>r. Records(h) BY <2>12 DEF CommitsUnheard
    <3>1. LockInv'
      BY <1>i, <1>t, <1>o, <2>12 DEF CommitsUnheard, Records, LockInv, InTransaction
    <3>2. HandlerInv'
      <4>1. Knows(h)'
        BY <1>t, <2>12 DEF CommitsUnheard, Knows, InTransaction
      <4>2. ASSUME NEW k \in Handler, k # h PROVE Knows(k)'
        BY <1>t, <2>12, <3>r, <4>2, RecordsOthers DEF CommitsUnheard
      <4> QED BY <4>1, <4>2 DEF HandlerInv
    <3>3. FileInv'
      BY <2>12, <3>r, RecordsFile DEF CommitsUnheard
    <3>4. RowInv'
      BY <2>12, <3>r, RecordsRow DEF CommitsUnheard
    <3> QED BY <3>1, <3>2, <3>3, <3>4 DEF StoreInv
  <2>13. CASE DropsLate(h)
    <3>a. of[h] \in Profile /\ version[h] \in Version /\ <<of[h], version[h]>> \in torn
      BY <1>k, <1>o, <1>v, <2>13 DEF DropsLate, Knows
    <3>b. \A q \in Profile, w \in Version :
             q # of[h] \/ w # version[h] => file'[q][w] = file[q][w]
      BY <2>13, <3>a, UnlinkOne DEF DropsLate
    <3>1. LockInv'
      BY <1>i, <1>t, <1>o, <2>13 DEF DropsLate, LockInv, InTransaction
    <3>2. HandlerInv'
      <4>1. Knows(h)'
        BY <1>t, <2>13, IdleKnows DEF DropsLate
      <4>2. ASSUME NEW k \in Handler, k # h PROVE Knows(k)'
        BY <1>k, <1>t, <2>13, <3>a, <3>b, <4>2, KnowsBeside DEF DropsLate
      <4> QED BY <4>1, <4>2 DEF HandlerInv
    <3>3. FileInv'
      BY <1>i, <2>13, <3>a, <3>b, FileBeside DEF DropsLate
    <3>4. RowInv'
      BY <1>i, <2>13, RowFrame DEF DropsLate
    <3> QED BY <3>1, <3>2, <3>3, <3>4 DEF StoreInv
  <2> QED BY <1>1, <2>1, <2>2, <2>3, <2>4, <2>5, <2>6, <2>7, <2>8, <2>9, <2>10, <2>11, <2>12,
             <2>13 DEF UploadStep
<1>2. CASE (\E p \in Profile : ReadsRow(p)) \/ ReadsFile \/ UNCHANGED vars
  <2>1. UNCHANGED <<stage, of, base, load, version, stale, rowLock, current, rows, line, file,
                    purged, purging, torn>>
    BY <1>2 DEF ReadsRow, ReadsFile, vars
  <2>2. LockInv' BY <1>i, <2>1, LockFrame
  <2>3. HandlerInv' BY <1>k, <2>1, KnowsFrame DEF HandlerInv
  <2>4. FileInv' BY <1>i, <2>1, FileFrame
  <2>5. RowInv' BY <1>i, <2>1, RowFrame
  <2> QED BY <2>2, <2>3, <2>4, <2>5 DEF StoreInv
<1>3. CASE TrashStep
  <2>1. UNCHANGED <<stage, of, base, load, version, stale, rowLock, current, line, torn>>
    BY <1>3 DEF TrashStep, ListsTrash, DeletesProfile, RestoresProfile, SetStatus,
                PurgesBytes, PurgesRow
  <2>2. LockInv' BY <1>i, <2>1, LockFrame
  <2>3. CASE UNCHANGED <<rows, file, purged, purging>>
    <3>1. HandlerInv' BY <1>k, <2>1, <2>3, KnowsFrame DEF HandlerInv
    <3>2. FileInv' BY <1>i, <2>1, <2>3, FileFrame
    <3>3. RowInv' BY <1>i, <2>1, <2>3, RowFrame
    <3> QED BY <2>2, <3>1, <3>2, <3>3 DEF StoreInv
  <2>4. ASSUME NEW p \in Profile, PurgesBytes(p) PROVE StoreInv'
    <3>1. /\ \A q \in Profile : q # p => file'[q] = file[q]
          /\ UNCHANGED rows
          /\ purged' = purged \cup {p}
          /\ purging' = purging \cup {p}
      BY <1>t, <2>4 DEF PurgesBytes
    <3>2. HandlerInv' BY <1>k, <1>o, <2>1, <3>1 DEF HandlerInv, Knows, Saved
    <3>3. FileInv'
      <4> SUFFICES ASSUME NEW q \in Profile, q \notin purged', NEW v \in 1..current[q]
                   PROVE  \/ <<q, v>> \in torn
                          \/ file'[q][v] = line[q][v]
                          \/ v \notin rows[q] /\ file'[q][v] = {}
        BY <2>1, <3>1 DEF FileInv
      <4>1. q \notin purged /\ q # p
        BY <3>1
      <4>2. file'[q] = file[q]
        BY <3>1, <4>1
      <4> QED BY <1>i, <4>1, <4>2 DEF FileInv
    <3>4. RowInv' BY <1>i, <2>1, <3>1 DEF RowInv
    <3> QED BY <2>2, <3>2, <3>3, <3>4 DEF StoreInv
  <2>5. ASSUME NEW p \in Profile, PurgesRow(p) PROVE StoreInv'
    <3>1. /\ \A q \in Profile : q # p => rows'[q] = rows[q]
          /\ rows'[p] = rows[p] \/ rows'[p] = {}
          /\ UNCHANGED <<file, purged>>
          /\ purging' \subseteq purging
          /\ p \in purging
      BY <1>t, <2>5 DEF PurgesRow
    <3>2. HandlerInv' BY <1>k, <1>o, <2>1, <3>1 DEF HandlerInv, Knows, Saved
    <3>3. p \in purged BY <1>i, <3>1 DEF RowInv
    <3>4. FileInv' BY <1>i, <2>1, <3>1, <3>3 DEF FileInv
    <3>5. RowInv' BY <1>i, <2>1, <3>1 DEF RowInv
    <3> QED BY <2>2, <3>2, <3>4, <3>5 DEF StoreInv
  <2> QED BY <1>3, <2>3, <2>4, <2>5 DEF TrashStep, ListsTrash, DeletesProfile, RestoresProfile
<1>4. CASE Restarts
  <2>1. LockInv' BY <1>4 DEF Restarts, LockInv, InTransaction
  <2>2. HandlerInv' BY <1>4, IdleKnows DEF Restarts, HandlerInv
  <2>3. FileInv' BY <1>i, <1>4, FileFrame DEF Restarts
  <2>4. RowInv' BY <1>i, <1>4 DEF Restarts, RowInv
  <2> QED BY <2>1, <2>2, <2>3, <2>4 DEF StoreInv
<1> QED BY <1>1, <1>2, <1>3, <1>4 DEF Next

\* Rows and files agree in every state of every run: the inductive invariant.
THEOREM StoreCorrect == Spec => []StoreInv
  BY InitTypeOK, InitStoreInv, NextTypeOK, NextStoreInv, PTL DEF Spec

\* A version the database names has its file, the one it was published with
\* (api.rs, upload_bundle: "a stray file wastes bytes, a missing one loses a
\* profile"), outside what a purge or a late guard took.
THEOREM NamedCorrect == Spec => []NamedIsThere
<1>1. TypeOK /\ StoreInv => NamedIsThere
  BY DEF StoreInv, FileInv, RowInv, NamedIsThere, TypeOK, RowType
<1> QED BY <1>1, TypeCorrect, StoreCorrect, PTL

----------------------------------------------------------------------------
(* The line of versions.                                                   *)

\* Nothing but a commit touches current_version or what a version was
\* published with.
LEMMA LineSteps ==
    ASSUME [Next]_vars
    PROVE  UNCHANGED <<current, line>> \/ \E h \in Handler : Records(h)
<1> USE DEF Commits, CommitsUnheard
<1>1. ASSUME NEW h \in Handler, UploadStep(h)
      PROVE  UNCHANGED <<current, line>> \/ Records(h)
  BY <1>1 DEF UploadStep, Begin, Stops, TakesRow, LocksRow, Moves, MoveFails, Fails,
              RollsBack, Prunes, Answers, Aborts, DropsLate
<1>2. CASE TrashStep
  BY <1>2 DEF TrashStep, ListsTrash, DeletesProfile, RestoresProfile, SetStatus,
              PurgesBytes, PurgesRow
<1> QED BY <1>1, <1>2 DEF Next, ReadsRow, ReadsFile, Restarts, vars

\* A commit publishes the next version of its profile, and of no other.
LEMMA RecordsPublishes ==
    ASSUME TypeOK, StoreInv, NEW h \in Handler, Records(h), NEW p \in Profile
    PROVE  History(p)!Publish \/ UNCHANGED <<current[p], line[p]>>
<1>1. CASE p # of[h]
  BY <1>1, RecordsRows
<1>2. CASE p = of[h]
  <2> DEFINE c == current[p]
             old == [v \in 0..c |-> Saved(p, v)]
             new == [v \in 0..current'[p] |-> Saved(p, v)']
  <2>1. c \in Nat /\ current'[p] = c + 1
    BY <1>2, RecordsRows, Typed
  <2>2. DOMAIN new = 0..(c + 1)
    BY <2>1
  <2>3. \A v \in 0..c : new[v] = old[v]
    <3> SUFFICES ASSUME NEW v \in 0..c PROVE new[v] = old[v]
      OBVIOUS
    <3>1. v # 0 => v \in Version /\ v # version[h]
      BY <1>2, <2>1, RecordsRows, Typed
    <3>2. Saved(p, v)' = Saved(p, v)
      BY <1>2, <3>1, RecordsRows DEF Saved
    <3> QED BY <2>1, <3>2
  <2>4. old[c] \subseteq new[c + 1]
    <3>1. base[h] = c /\ Saved(p, c) \subseteq load[h]
      BY <1>2 DEF StoreInv, HandlerInv, Knows, Records
    <3>2. new[c + 1] = load[h]
      BY <1>2, <2>1, RecordsRows DEF Saved
    <3>3. old[c] = Saved(p, c)
      BY <2>1
    <3> QED BY <3>1, <3>2, <3>3
  <2> QED BY <2>1, <2>2, <2>3, <2>4 DEF History!Publish
<1> QED BY <1>1, <1>2

\* Every profile's versions are the append-only line of BundleHistory, through
\* rotations, pruning, the trash, aborted commits and restarts (api.rs,
\* upload_bundle: the version check under FOR UPDATE).
THEOREM StoreImplementsHistory == Spec => ImplementsBundleHistory
<1>1. Init => \A p \in Profile : History(p)!Init
  <2> SUFFICES ASSUME Init, NEW p \in Profile PROVE History(p)!Init
    OBVIOUS
  <2>1. current[p] = 0 BY DEF Init
  <2>2. [v \in 0..current[p] |-> Saved(p, v)] = [v \in {0} |-> {}]
    BY <2>1 DEF Saved
  <2> QED BY <2>1, <2>2 DEF History!Init
<1>2. TypeOK /\ StoreInv /\ [Next]_vars =>
         [\A p \in Profile :
            History(p)!Publish \/ UNCHANGED <<current[p], line[p]>>]_<<current, line>>
  BY LineSteps, RecordsPublishes
<1> QED BY <1>1, <1>2, TypeCorrect, StoreCorrect, PTL DEF Spec, ImplementsBundleHistory

----------------------------------------------------------------------------
(* The quota.                                                              *)

RowsOf(r) == {x \in Profile \X Version : x[2] \in r[x[1]]}

\* The uploads that were let in and may still record a version.
Passing == {h \in Handler : stage[h] \in {"receiving", "locked", "moved"} /\ used[h] < Ceiling}

\* An upload is let in while a bundle still fits, and each one let in adds one.
QuotaInv ==
    /\ Stored + Cardinality(Passing) <= Ceiling + Cardinality(Handler) - 1
    /\ \A h \in Handler : stage[h] \in {"locked", "moved"} => used[h] < Ceiling

\* The rows can be counted.
LEMMA RowsFinite ==
    ASSUME NEW r
    PROVE  IsFiniteSet(RowsOf(r)) /\ Cardinality(RowsOf(r)) \in Nat
<1>1. IsFiniteSet(Version) BY StoreAssumption, FS_Interval
<1>2. IsFiniteSet(Profile \X Version) BY <1>1, StoreAssumption, FS_Product
<1>3. IsFiniteSet(RowsOf(r)) BY <1>2, FS_Subset DEF RowsOf
<1> QED BY <1>3, FS_CardinalityType

\* And so can handlers.
LEMMA HandlersFinite ==
    ASSUME NEW S, S \subseteq Handler
    PROVE  /\ IsFiniteSet(S) /\ Cardinality(S) \in Nat
           /\ Cardinality(S) <= Cardinality(Handler)
           /\ Cardinality(Handler) \in Nat \ {0}
<1>1. IsFiniteSet(S) /\ Cardinality(S) <= Cardinality(Handler)
  BY StoreAssumption, FS_Subset
<1>2. Cardinality(Handler) # 0
  BY StoreAssumption, FS_EmptySet
<1> QED BY <1>1, <1>2, StoreAssumption, FS_CardinalityType

\* Both counts, before a step and after it.
LEMMA Counted ==
    /\ Stored = Cardinality(RowsOf(rows)) /\ Stored' = Cardinality(RowsOf(rows'))
    /\ Stored \in Nat /\ Stored' \in Nat
    /\ Passing \subseteq Handler /\ Passing' \subseteq Handler
    /\ Cardinality(Passing) \in Nat /\ Cardinality(Passing') \in Nat
<1>1. Passing \subseteq Handler /\ Passing' \subseteq Handler
  BY DEF Passing
<1>2. Stored = Cardinality(RowsOf(rows)) /\ Stored' = Cardinality(RowsOf(rows'))
  BY DEF Stored, RowsOf
<1> QED BY <1>1, <1>2, RowsFinite, HandlersFinite

\* A step that stores no more and lets nobody in.
LEMMA QuotaFrame ==
    ASSUME QuotaInv, RowsOf(rows') \subseteq RowsOf(rows), Passing' \subseteq Passing,
           \A h \in Handler : stage'[h] \in {"locked", "moved"} => used'[h] < Ceiling
    PROVE  QuotaInv'
<1>1. Stored' <= Stored
  BY RowsFinite, FS_Subset, Counted
<1>2. Cardinality(Passing') <= Cardinality(Passing)
  BY HandlersFinite, FS_Subset, Counted
<1> QED BY <1>1, <1>2, Counted, HandlersFinite, StoreAssumption DEF QuotaInv

\* A commit adds one row, and its handler is let in no longer.
LEMMA QuotaCommit ==
    ASSUME TypeOK, QuotaInv, NEW h \in Handler, Records(h),
           UNCHANGED used, stage'[h] \notin {"receiving", "locked", "moved"},
           \A k \in Handler : k # h => stage'[k] = stage[k]
    PROVE  QuotaInv'
<1> DEFINE new == <<of[h], version[h]>>
<1>1. stage[h] = "moved" /\ of[h] \in Profile /\ version[h] \in Version
  BY Typed DEF Records, InTransaction
<1>2. h \in Passing
  BY <1>1 DEF Passing, QuotaInv
<1>3. Passing' \subseteq Passing \ {h}
  BY DEF Passing
<1>4. Cardinality(Passing') <= Cardinality(Passing) - 1
  <2>1. Cardinality(Passing \ {h}) = Cardinality(Passing) - 1
    BY <1>2, HandlersFinite, Counted, FS_RemoveElement
  <2>2. Cardinality(Passing') <= Cardinality(Passing \ {h})
    BY <1>3, HandlersFinite, Counted, FS_Subset
  <2> QED BY <2>1, <2>2
<1>5. RowsOf(rows') \subseteq RowsOf(rows) \cup {new}
  <2> SUFFICES ASSUME NEW x \in RowsOf(rows'), x # new PROVE x \in RowsOf(rows)
    OBVIOUS
  <2>1. x \in Profile \X Version /\ x[2] \in rows'[x[1]]
    BY DEF RowsOf
  <2>2. x[2] \in rows[x[1]]
    BY <1>1, <2>1, Typed DEF Records
  <2> QED BY <2>1, <2>2 DEF RowsOf
<1>6. Stored' <= Stored + 1
  <2>1. IsFiniteSet(RowsOf(rows) \cup {new})
        /\ Cardinality(RowsOf(rows) \cup {new}) <= Cardinality(RowsOf(rows)) + 1
    <3> DEFINE S == RowsOf(rows)
    <3>1. IsFiniteSet(S) /\ Cardinality(S) \in Nat
      BY RowsFinite
    <3>2. IsFiniteSet(S \cup {new})
      BY <3>1, FS_AddElement
    <3>3. Cardinality(S \cup {new}) = IF new \in S THEN Cardinality(S) ELSE Cardinality(S) + 1
      BY <3>1, FS_AddElement
    <3>4. Cardinality(S \cup {new}) <= Cardinality(S) + 1
      <4> HIDE DEF S, new
      <4> QED BY <3>1, <3>3
    <3> QED BY <3>2, <3>4
  <2>2. Cardinality(RowsOf(rows')) <= Cardinality(RowsOf(rows) \cup {new})
    BY <1>5, <2>1, FS_Subset
  <2>3. Cardinality(RowsOf(rows) \cup {new}) \in Nat
    BY <2>1, FS_CardinalityType
  <2> QED BY <2>1, <2>2, <2>3, Counted
<1>7. \A k \in Handler : stage'[k] \in {"locked", "moved"} => used'[k] < Ceiling
  BY DEF QuotaInv
<1> QED BY <1>4, <1>6, <1>7, Counted, HandlersFinite, StoreAssumption DEF QuotaInv

\* Letting an upload in, and recording what it brought, keep the count.
THEOREM NextQuotaInv == TypeOK /\ QuotaInv /\ [Next]_vars => QuotaInv'
<1> SUFFICES ASSUME TypeOK, QuotaInv, [Next]_vars PROVE QuotaInv'
  OBVIOUS
<1>t. /\ stage \in [Handler -> Stage] /\ used \in [Handler -> Nat]
      /\ rows \in [Profile -> SUBSET Version]
  BY DEF TypeOK, HandlerType, RowType
<1>q. \A h \in Handler : stage[h] \in {"locked", "moved"} => used[h] < Ceiling
  BY DEF QuotaInv
<1>1. ASSUME NEW h \in Handler, UploadStep(h) PROVE QuotaInv'
  <2>1. ASSUME NEW p \in Profile, NEW b \in 0..MaxUploads, Begin(h, p, b) PROVE QuotaInv'
    <3>1. Stored' = Stored
      BY <2>1 DEF Begin, Stored
    <3>2. \A k \in Handler : stage'[k] \in {"locked", "moved"} => used'[k] < Ceiling
      BY <1>t, <1>q, <2>1 DEF Begin
    <3>3. CASE Stored < Ceiling
      BY <3>1, <3>2, <3>3, Counted, HandlersFinite, StoreAssumption DEF QuotaInv
    <3>4. CASE ~(Stored < Ceiling)
      <4>1. Passing' \subseteq Passing
        BY <1>t, <2>1, <3>4, Counted DEF Begin, Passing
      <4>2. RowsOf(rows') = RowsOf(rows)
        BY <2>1 DEF Begin
      <4> QED BY <3>2, <4>1, <4>2, QuotaFrame
    <3> QED BY <3>3, <3>4
  <2>2. CASE Commits(h) \/ CommitsUnheard(h)
    <3>1. /\ Records(h) /\ UNCHANGED used
          /\ stage'[h] \notin {"receiving", "locked", "moved"}
          /\ \A k \in Handler : k # h => stage'[k] = stage[k]
      BY <1>t, <2>2 DEF Commits, CommitsUnheard
    <3> QED BY <3>1, QuotaCommit
  <2>3. CASE \/ Stops(h) \/ TakesRow(h) \/ Moves(h) \/ MoveFails(h) \/ Fails(h)
             \/ RollsBack(h) \/ Prunes(h) \/ Answers(h) \/ Aborts(h) \/ DropsLate(h)
    <3>1. UNCHANGED <<rows, used>>
      BY <2>3 DEF Stops, TakesRow, LocksRow, Moves, MoveFails, Fails, RollsBack, Prunes,
                  Answers, Aborts, DropsLate
    <3>2. \A k \in Handler : stage'[k] \in {"receiving", "locked", "moved"} =>
             /\ stage[k] \in {"receiving", "locked", "moved"}
             /\ stage'[k] \in {"locked", "moved"} =>
                   stage[k] \in {"locked", "moved"} \/ used[k] < Ceiling
      BY <1>t, <2>3 DEF Stops, TakesRow, LocksRow, Moves, MoveFails, Fails, RollsBack,
                        Prunes, Answers, Aborts, DropsLate
    <3>3. Passing' \subseteq Passing
      BY <3>1, <3>2 DEF Passing
    <3>4. \A k \in Handler : stage'[k] \in {"locked", "moved"} => used'[k] < Ceiling
      BY <1>q, <3>1, <3>2
    <3> QED BY <3>1, <3>3, <3>4, QuotaFrame
  <2> QED BY <1>1, <2>1, <2>2, <2>3 DEF UploadStep
<1>2. CASE \/ \E p \in Profile : ReadsRow(p)
           \/ ReadsFile \/ TrashStep \/ Restarts \/ UNCHANGED vars
  <2>1. UNCHANGED used /\ \A p \in Profile : rows'[p] \subseteq rows[p]
    BY <1>2, <1>t DEF ReadsRow, ReadsFile, TrashStep, ListsTrash, DeletesProfile, RestoresProfile,
                SetStatus, PurgesBytes, PurgesRow, Restarts, vars
  <2>2. \A h \in Handler : stage'[h] = stage[h] \/ stage'[h] = "idle"
    BY <1>2 DEF ReadsRow, ReadsFile, TrashStep, ListsTrash, DeletesProfile, RestoresProfile,
                SetStatus, PurgesBytes, PurgesRow, Restarts, vars
  <2>3. RowsOf(rows') \subseteq RowsOf(rows)
    BY <2>1 DEF RowsOf
  <2>4. Passing' \subseteq Passing
    BY <2>1, <2>2 DEF Passing
  <2>5. \A h \in Handler : stage'[h] \in {"locked", "moved"} => used'[h] < Ceiling
    BY <1>q, <2>1, <2>2
  <2> QED BY <2>3, <2>4, <2>5, QuotaFrame
<1> QED BY <1>1, <1>2 DEF Next

\* The organisation's bundles pass the ceiling by at most one for every other
\* upload received at once (api.rs, upload_bundle: storage_used is read once,
\* before the body).
THEOREM QuotaCorrect == Spec => []QuotaBound
<1>1. Init => QuotaInv
  <2> SUFFICES ASSUME Init PROVE QuotaInv
    OBVIOUS
  <2>1. RowsOf(rows) = {} /\ Passing = {}
    BY DEF Init, RowsOf, Passing
  <2>2. Stored = 0 /\ Cardinality(Passing) = 0
    BY <2>1, Counted, FS_EmptySet
  <2>3. \A h \in Handler : stage[h] \notin {"locked", "moved"}
    BY DEF Init
  <2> QED BY <2>2, <2>3, HandlersFinite, StoreAssumption DEF QuotaInv
<1>2. QuotaInv => QuotaBound
  BY Counted, HandlersFinite, StoreAssumption DEF QuotaInv, QuotaBound
<1> QED BY <1>1, <1>2, NextQuotaInv, TypeCorrect, PTL DEF Spec

----------------------------------------------------------------------------
(* Downloads.                                                              *)

Outside(p, v) == p \in purged \/ <<p, v>> \in torn
Superseded(p, v) == Keep > 0 /\ v + Keep <= current[p]

\* A download read the name of a version there was, and that version's row is
\* there still unless it was purged or Keep newer ones were recorded.
NameInv ==
    reader.at # "idle" =>
       /\ reader.version \in 1..current[reader.profile]
       /\ \/ reader.profile \in purged
          \/ reader.version \in rows[reader.profile]
          \/ Superseded(reader.profile, reader.version)

DownloadInv == NameInv /\ DownloadFinds

\* What a step may do to the rows and the line under a reader.
LEMMA ReaderFrame ==
    ASSUME TypeOK, TypeOK', DownloadInv, UNCHANGED reader, purged \subseteq purged', torn \subseteq torn',
           reader.at # "idle" =>
              LET p == reader.profile
                  v == reader.version
              IN  /\ current[p] <= current'[p]
                  /\ line'[p][v] = line[p][v]
                  /\ v \in rows[p] => \/ v \in rows'[p]
                                      \/ Keep > 0 /\ v + Keep <= current'[p]
                                      \/ p \in purged'
    PROVE  DownloadInv'
<1>1. CASE reader.at = "idle"
  BY <1>1 DEF DownloadInv, NameInv, DownloadFinds
<1>2. CASE reader.at # "idle"
  <2> DEFINE p == reader.profile
             v == reader.version
  <2>1. p \in Profile /\ v \in Nat
    BY <1>2 DEF TypeOK, BesideType
  <2>2. current[p] \in Nat /\ current'[p] \in Nat /\ Keep \in Nat
    BY <2>1, StoreAssumption DEF TypeOK, RowType
  <2>3. NameInv'
    BY <1>2, <2>1, <2>2 DEF DownloadInv, NameInv, Superseded
  <2>4. DownloadFinds'
    BY <1>2, <2>1, <2>2 DEF DownloadInv, DownloadFinds
  <2> QED BY <2>3, <2>4 DEF DownloadInv
<1> QED BY <1>1, <1>2

\* Every step keeps what a download knows of its version.
THEOREM NextDownloadInv ==
    TypeOK /\ TypeOK' /\ StoreInv /\ DownloadInv /\ [Next]_vars => DownloadInv'
<1> SUFFICES ASSUME TypeOK, TypeOK', StoreInv, DownloadInv, [Next]_vars PROVE DownloadInv'
  OBVIOUS
<1>r. reader.at # "idle" =>
         /\ reader.profile \in Profile /\ reader.version \in Version
         /\ reader.version \in 1..current[reader.profile]
  BY DEF DownloadInv, NameInv, TypeOK, BesideType
<1>1. ASSUME NEW k \in Handler, UploadStep(k) PROVE DownloadInv'
  <2>1. UNCHANGED <<reader, purged>> /\ torn \subseteq torn'
    BY <1>1 DEF UploadStep, Begin, Stops, TakesRow, LocksRow, Moves, MoveFails, Fails, RollsBack,
                Commits, Prunes, Answers, Aborts, CommitsUnheard, DropsLate
  <2>2. CASE Records(k)
    <3>1. ASSUME reader.at # "idle"
          PROVE  /\ current[reader.profile] <= current'[reader.profile]
                 /\ line'[reader.profile][reader.version] = line[reader.profile][reader.version]
                 /\ reader.version \in rows[reader.profile] =>
                       \/ reader.version \in rows'[reader.profile]
                       \/ Keep > 0 /\ reader.version + Keep <= current'[reader.profile]
      <4> DEFINE p == reader.profile
                 v == reader.version
      <4>1. p \in Profile /\ v \in Version /\ v \in 1..current[p] /\ current[p] \in Nat
        BY <1>r, <3>1, Typed
      <4>2. CASE p # of[k]
        BY <2>2, <4>1, <4>2, RecordsRows
      <4>3. CASE p = of[k]
        <5>1. current'[p] = current[p] + 1 /\ current'[p] = version[k] /\ v # version[k]
          BY <2>2, <4>1, <4>3, RecordsRows
        <5>2. line'[p][v] = line[p][v]
          BY <2>2, <4>1, <4>3, <5>1, RecordsRows
        <5>3. v \in rows[p] /\ v \notin rows'[p] => v \in Forgotten(k)
          BY <2>2, <4>3, RecordsRows
        <5>4. v \in Forgotten(k) => Keep > 0 /\ v + Keep <= current'[p]
          BY <4>1, <5>1, StoreAssumption DEF Forgotten
        <5> QED BY <4>1, <5>1, <5>2, <5>3, <5>4
      <4> QED BY <4>2, <4>3
    <3> QED BY <2>1, <3>1, ReaderFrame
  <2>3. CASE UNCHANGED <<current, line, rows>>
    BY <1>r, <2>1, <2>3, ReaderFrame, Typed
  <2> QED BY <1>1, <2>2, <2>3 DEF UploadStep, Begin, Stops, TakesRow, LocksRow, Moves, MoveFails,
             Fails, RollsBack, Commits, Prunes, Answers, Aborts, CommitsUnheard, DropsLate
<1>2. ASSUME NEW p \in Profile, ReadsRow(p) PROVE DownloadInv'
  <2>1. PICK v \in rows[p] : reader' = [at |-> "named", profile |-> p, version |-> v, got |-> {}]
    BY <1>2 DEF ReadsRow
  <2>2. v \in 1..current[p]
    BY DEF StoreInv, RowInv
  <2> QED BY <1>2, <2>1, <2>2 DEF ReadsRow, DownloadInv, NameInv, DownloadFinds
<1>3. CASE ReadsFile
  <2> DEFINE p == reader.profile
             v == reader.version
             found == file[p][v]
  <2>1. /\ reader'.profile = p /\ reader'.version = v /\ reader'.got = found
        /\ reader'.at = IF found = {} THEN "failed" ELSE "served"
        /\ UNCHANGED <<current, rows, line, purged, torn>>
    BY <1>3 DEF ReadsFile, TypeOK, BesideType, Reader
  <2>2. p \in Profile /\ v \in 1..current[p] /\ reader.at # "idle"
    BY <1>3, <1>r DEF ReadsFile
  <2>3. NameInv'
    BY <2>1, <2>2 DEF DownloadInv, NameInv, Superseded
  <2>4. p \in purged \/ <<p, v>> \in torn \/ found = line[p][v] \/ (v \notin rows[p] /\ found = {})
    BY <2>2 DEF StoreInv, FileInv
  <2>5. line[p][v] # {}
    BY <2>2 DEF StoreInv, RowInv
  <2>6. p \in purged \/ v \in rows[p] \/ Superseded(p, v)
    BY <2>2 DEF DownloadInv, NameInv
  <2>7. DownloadFinds'
    BY <2>1, <2>4, <2>5, <2>6 DEF DownloadFinds, Superseded
  <2> QED BY <2>3, <2>7 DEF DownloadInv
<1>4. CASE TrashStep
  <2>1. UNCHANGED <<reader, current, line, torn>> /\ purged \subseteq purged'
    BY <1>4 DEF TrashStep, ListsTrash, DeletesProfile, RestoresProfile, SetStatus, PurgesBytes,
       PurgesRow
  <2>2. \A p \in Profile : rows'[p] = rows[p] \/ p \in purging
    BY <1>4, Typed DEF TrashStep, ListsTrash, DeletesProfile, RestoresProfile, SetStatus,
                       PurgesBytes, PurgesRow
  <2>3. \A p \in Profile : rows'[p] = rows[p] \/ p \in purged'
    BY <2>1, <2>2 DEF StoreInv, RowInv
  <2> QED BY <1>r, <2>1, <2>3, ReaderFrame, Typed
<1>5. CASE Restarts
  BY <1>5 DEF Restarts, DownloadInv, NameInv, DownloadFinds
<1>6. CASE UNCHANGED vars
  BY <1>r, <1>6, ReaderFrame, Typed DEF vars
<1> QED BY <1>1, <1>2, <1>3, <1>4, <1>5, <1>6 DEF Next

\* A download that named a version finds its file, unless Keep newer versions
\* were recorded between its two reads (api.rs, download_bundle: the row first,
\* then the file, and no lock over the two).
THEOREM DownloadCorrect == Spec => []DownloadFinds
<1>1. Init => DownloadInv
  BY DEF Init, DownloadInv, NameInv, DownloadFinds
<1>2. DownloadInv => DownloadFinds
  BY DEF DownloadInv
<1> QED BY <1>1, <1>2, NextDownloadInv, NextTypeOK, TypeCorrect, StoreCorrect, PTL DEF Spec

----------------------------------------------------------------------------
(* What an upload leaves behind.                                           *)

\* Handler h has yet to move, or to drop, p's staging file n.
Stages(h, p, n) == stage[h] \in {"receiving", "locked"} /\ of[h] = p /\ number[h] = n

\* Handler h will remove version v of p, or record it.
Guards(h, p, v) ==
    /\ of[h] = p
    /\ \/ stage[h] \in {"moved", "torn"} /\ v = version[h]
       \/ stage[h] = "pruning" /\ v \in stale[h]

\* What one handler does, the others' files stay in their hands.
LEMMA InOtherHands ==
    ASSUME NEW k \in Handler,
           \A h \in Handler \ {k} : /\ stage'[h] = stage[h] /\ of'[h] = of[h] /\ number'[h] = number[h]
                                    /\ version'[h] = version[h] /\ stale'[h] = stale[h]
    PROVE  /\ \A p, n : (\E h \in Handler : Stages(h, p, n))
                          => Stages(k, p, n) \/ \E h \in Handler : Stages(h, p, n)'
           /\ \A p, v : (\E h \in Handler : Guards(h, p, v))
                          => Guards(k, p, v) \/ \E h \in Handler : Guards(h, p, v)'
  BY DEF Stages, Guards

\* The property in these terms.
LEMMA Litter ==
    NoLitter <=>
      (~ mishap =>
        /\ \A p \in Profile : \A n \in incoming[p] : \E h \in Handler : Stages(h, p, n)
        /\ \A p \in Profile \ purged, v \in Version :
             file[p][v] # {} => v \in rows[p] \/ \E h \in Handler : Guards(h, p, v))
  BY DEF NoLitter, Guarded, Stages, Guards

\* Handler k's step leaves no litter: what it puts down it has in hand, what it
\* lets go of is gone or has its row.
LEMMA LeavesNone ==
    ASSUME NoLitter, NEW k \in Handler, ~ mishap' => ~ mishap, UNCHANGED purged,
           \A h \in Handler \ {k} : /\ stage'[h] = stage[h] /\ of'[h] = of[h] /\ number'[h] = number[h]
                                    /\ version'[h] = version[h] /\ stale'[h] = stale[h],
           ~ mishap' => \A p \in Profile : \A n \in incoming'[p] :
                          (n \in incoming[p] /\ ~ Stages(k, p, n)) \/ Stages(k, p, n)',
           ~ mishap' => \A p \in Profile \ purged, v \in Version : file'[p][v] # {} =>
                          \/ v \in rows'[p] \/ Guards(k, p, v)'
                          \/ file[p][v] # {} /\ v \notin rows[p] /\ ~ Guards(k, p, v)
    PROVE  NoLitter'
<1> SUFFICES ASSUME ~ mishap'
    PROVE  /\ \A p \in Profile : \A n \in incoming'[p] : \E h \in Handler : Stages(h, p, n)'
           /\ \A p \in Profile \ purged, v \in Version :
                file'[p][v] # {} => v \in rows'[p] \/ \E h \in Handler : Guards(h, p, v)'
  BY DEF NoLitter, Guarded, Stages, Guards
<1>1. ASSUME NEW p \in Profile, NEW n \in incoming'[p] PROVE \E h \in Handler : Stages(h, p, n)'
  <2>1. CASE Stages(k, p, n)' BY <2>1
  <2>2. CASE n \in incoming[p] /\ ~ Stages(k, p, n)
    <3>1. \E h \in Handler : Stages(h, p, n) BY <2>2, Litter
    <3> QED BY <2>2, <3>1, InOtherHands
  <2> QED BY <2>1, <2>2
<1>2. ASSUME NEW p \in Profile \ purged, NEW v \in Version, file'[p][v] # {}
      PROVE  v \in rows'[p] \/ \E h \in Handler : Guards(h, p, v)'
  <2>1. CASE Guards(k, p, v)' BY <2>1
  <2>2. CASE file[p][v] # {} /\ v \notin rows[p] /\ ~ Guards(k, p, v)
    <3>1. \E h \in Handler : Guards(h, p, v) BY <2>2, Litter
    <3> QED BY <2>2, <3>1, InOtherHands
  <2> QED BY <1>2, <2>1, <2>2
<1> QED BY <1>1, <1>2

\* A file that is removed is the only one that is.
LEMMA Removed ==
    ASSUME TypeOK, NEW p \in Profile, NEW v \in Version, file' = [file EXCEPT ![p][v] = {}],
           NEW q \in Profile, NEW w \in Version, file'[q][w] # {}
    PROVE  (q # p \/ w # v) /\ file'[q][w] = file[q][w]
<1>1. file \in [Profile -> [Version -> Content]] BY Typed
<1>2. CASE q # p BY <1>1, <1>2
<1>3. CASE q = p /\ w # v BY <1>1, <1>3
<1>4. CASE q = p /\ w = v BY <1>1, <1>4
<1> QED BY <1>2, <1>3, <1>4

\* Every way out of an upload takes its staging file and its renamed file with
\* it, or leaves the renamed file to its row.
THEOREM NextNoLitter == TypeOK /\ StoreInv /\ NoLitter /\ [Next]_vars => NoLitter'
<1> SUFFICES ASSUME TypeOK, StoreInv, NoLitter, [Next]_vars PROVE NoLitter'
  OBVIOUS
<1>t. /\ stage \in [Handler -> Stage] /\ of \in [Handler -> Profile \cup {None}]
      /\ number \in [Handler -> 0..MaxUploads] /\ version \in [Handler -> Nat]
      /\ stale \in [Handler -> SUBSET Version] /\ rows \in [Profile -> SUBSET Version]
      /\ file \in [Profile -> [Version -> Content]] /\ incoming \in [Profile -> SUBSET Session]
  BY Typed DEF TypeOK, HandlerType, DiskType
<1>of. \A h \in Handler : stage[h] # "idle" => of[h] \in Profile
  BY Typed
<1>ver. \A h \in Handler : stage[h] \in {"locked", "moved", "torn"} => version[h] \in Version
  BY Typed DEF InTransaction
<1>1. ASSUME NEW k \in Handler, UploadStep(k) PROVE NoLitter'
  <2>1. CASE \E p \in Profile, b \in 0..MaxUploads : Begin(k, p, b)
    <3>1. PICK p \in Profile, b \in 0..MaxUploads : Begin(k, p, b) BY <2>1
    <3> DEFINE m == uploads + 1
    <3>2. /\ stage[k] = "idle" /\ stage' = [stage EXCEPT ![k] = "receiving"]
          /\ of' = [of EXCEPT ![k] = p] /\ number' = [number EXCEPT ![k] = m]
          /\ incoming' = [incoming EXCEPT ![p] = @ \cup {m}]
          /\ UNCHANGED <<file, rows, version, stale, purged, mishap>>
      BY <3>1 DEF Begin
    <3> HIDE DEF m
    <3>3. \A q \in Profile : \A n \in incoming'[q] :
            (n \in incoming[q] /\ ~ Stages(k, q, n)) \/ Stages(k, q, n)'
      BY <1>t, <3>2 DEF Stages
    <3>4. \A q \in Profile, v \in Version : file'[q][v] # {} =>
            v \in rows'[q] \/ (file[q][v] # {} /\ v \notin rows[q] /\ ~ Guards(k, q, v))
      BY <3>2 DEF Guards
    <3>5. \A h \in Handler \ {k} : /\ stage'[h] = stage[h] /\ of'[h] = of[h] /\ number'[h] = number[h]
                                   /\ version'[h] = version[h] /\ stale'[h] = stale[h]
      BY <1>t, <3>2
    <3> QED BY <3>2, <3>3, <3>4, <3>5, LeavesNone
  <2>2. CASE Stops(k) \/ MoveFails(k)
    <3>1. /\ stage[k] \in {"receiving", "locked"} /\ stage' = [stage EXCEPT ![k] = "idle"]
          /\ Unstage(k) /\ UNCHANGED <<of, number, file, rows, version, stale, purged>>
      BY <2>2 DEF Stops, MoveFails
    <3>2. ~ mishap' => ~ mishap /\ incoming' = [incoming EXCEPT ![of[k]] = @ \ {number[k]}]
      BY <3>1 DEF Unstage
    <3>3. ~ mishap' => \A q \in Profile : \A n \in incoming'[q] : n \in incoming[q] /\ ~ Stages(k, q, n)
      <4> SUFFICES ASSUME ~ mishap', NEW q \in Profile, NEW n \in incoming'[q]
          PROVE  n \in incoming[q] /\ ~ Stages(k, q, n)
        OBVIOUS
      <4>1. CASE q = of[k]
        <5>1. incoming'[q] = incoming[q] \ {number[k]} BY <1>t, <3>2, <4>1
        <5> QED BY <5>1 DEF Stages
      <4>2. CASE q # of[k] BY <1>t, <3>2, <4>2 DEF Stages
      <4> QED BY <4>1, <4>2
    <3>4. \A q \in Profile, v \in Version : file'[q][v] # {} =>
            v \in rows'[q] \/ (file[q][v] # {} /\ v \notin rows[q] /\ ~ Guards(k, q, v))
      BY <3>1 DEF Guards
    <3>5. \A h \in Handler \ {k} : /\ stage'[h] = stage[h] /\ of'[h] = of[h] /\ number'[h] = number[h]
                                   /\ version'[h] = version[h] /\ stale'[h] = stale[h]
      BY <1>t, <3>1
    <3> QED BY <3>1, <3>2, <3>3, <3>4, <3>5, LeavesNone
  <2>3. CASE TakesRow(k)
    <3>1. /\ stage[k] = "receiving" /\ stage' = [stage EXCEPT ![k] = "locked"]
          /\ version' = [version EXCEPT ![k] = current[of[k]] + 1]
          /\ UNCHANGED <<of, number, incoming, file, rows, stale, purged, mishap>>
      BY <2>3 DEF TakesRow, LocksRow
    <3>2. \A q, n : Stages(k, q, n) => Stages(k, q, n)' BY <1>t, <3>1 DEF Stages
    <3>3. \A q \in Profile : \A n \in incoming'[q] :
            (n \in incoming[q] /\ ~ Stages(k, q, n)) \/ Stages(k, q, n)'
      BY <3>1, <3>2
    <3>4. \A q \in Profile, v \in Version : file'[q][v] # {} =>
            v \in rows'[q] \/ (file[q][v] # {} /\ v \notin rows[q] /\ ~ Guards(k, q, v))
      BY <3>1 DEF Guards
    <3>5. \A h \in Handler \ {k} : /\ stage'[h] = stage[h] /\ of'[h] = of[h] /\ number'[h] = number[h]
                                   /\ version'[h] = version[h] /\ stale'[h] = stale[h]
      BY <1>t, <3>1
    <3> QED BY <3>1, <3>3, <3>4, <3>5, LeavesNone
  <2>4. CASE Moves(k)
    <3>1. /\ stage[k] = "locked" /\ stage' = [stage EXCEPT ![k] = "moved"]
          /\ incoming' = [incoming EXCEPT ![of[k]] = @ \ {number[k]}]
          /\ file' = [file EXCEPT ![of[k]][version[k]] = load[k]]
          /\ UNCHANGED <<of, number, rows, version, stale, purged, mishap>>
      BY <2>4 DEF Moves
    <3>2. of[k] \in Profile /\ version[k] \in Version BY <1>of, <1>ver, <3>1
    <3>3. \A q \in Profile : \A n \in incoming'[q] : n \in incoming[q] /\ ~ Stages(k, q, n)
      BY <1>t, <3>1, <3>2 DEF Stages
    <3>4. \A q \in Profile, v \in Version : q # of[k] \/ v # version[k] => file'[q][v] = file[q][v]
      BY <1>t, <3>1
    <3>5. Guards(k, of[k], version[k])' BY <1>t, <3>1 DEF Guards
    <3>6. \A q \in Profile, v \in Version : file'[q][v] # {} =>
            \/ v \in rows'[q] \/ Guards(k, q, v)'
            \/ file[q][v] # {} /\ v \notin rows[q] /\ ~ Guards(k, q, v)
      <4> SUFFICES ASSUME NEW q \in Profile, NEW v \in Version, file'[q][v] # {}
          PROVE  \/ v \in rows'[q] \/ Guards(k, q, v)'
                 \/ file[q][v] # {} /\ v \notin rows[q] /\ ~ Guards(k, q, v)
        OBVIOUS
      <4>1. CASE q = of[k] /\ v = version[k]
        <5>1. of'[k] = of[k] /\ version'[k] = version[k] /\ stage'[k] = "moved" BY <1>t, <3>1
        <5> QED BY <4>1, <5>1 DEF Guards
      <4>2. CASE q # of[k] \/ v # version[k] BY <3>1, <3>4, <4>2 DEF Guards
      <4> QED BY <4>1, <4>2
    <3>7. \A h \in Handler \ {k} : /\ stage'[h] = stage[h] /\ of'[h] = of[h] /\ number'[h] = number[h]
                                   /\ version'[h] = version[h] /\ stale'[h] = stale[h]
      BY <1>t, <3>1
    <3> QED BY <3>1, <3>3, <3>6, <3>7, LeavesNone
  <2>5. CASE Fails(k) \/ DropsLate(k)
    <3>1. /\ stage[k] \in {"moved", "torn"} /\ stage' \in {[stage EXCEPT ![k] = "rolling"],
                                                          [stage EXCEPT ![k] = "idle"]}
          /\ Unlink(of[k], version[k])
          /\ UNCHANGED <<of, number, incoming, rows, version, stale, purged>>
      BY <2>5 DEF Fails, DropsLate
    <3>2. of[k] \in Profile /\ version[k] \in Version BY <1>of, <1>ver, <3>1
    <3>3. ~ mishap' => ~ mishap /\ file' = [file EXCEPT ![of[k]][version[k]] = {}]
      BY <3>1 DEF Unlink
    <3>4. \A q \in Profile : \A n \in incoming'[q] : n \in incoming[q] /\ ~ Stages(k, q, n)
      BY <3>1 DEF Stages
    <3>5. ~ mishap' => \A q \in Profile, v \in Version : file'[q][v] # {} =>
            v \in rows'[q] \/ (file[q][v] # {} /\ v \notin rows[q] /\ ~ Guards(k, q, v))
      <4> SUFFICES ASSUME ~ mishap', NEW q \in Profile, NEW v \in Version, file'[q][v] # {}
          PROVE  v \in rows'[q] \/ (file[q][v] # {} /\ v \notin rows[q] /\ ~ Guards(k, q, v))
        OBVIOUS
      <4>1. q # of[k] \/ v # version[k] BY <3>2, <3>3, Removed
      <4>2. file'[q][v] = file[q][v] BY <3>2, <3>3, Removed
      <4> QED BY <3>1, <4>1, <4>2 DEF Guards
    <3>6. \A h \in Handler \ {k} : /\ stage'[h] = stage[h] /\ of'[h] = of[h] /\ number'[h] = number[h]
                                   /\ version'[h] = version[h] /\ stale'[h] = stale[h]
      BY <1>t, <3>1
    <3> QED BY <3>1, <3>3, <3>4, <3>5, <3>6, LeavesNone
  <2>6. CASE RollsBack(k) \/ Answers(k)
    <3>1. /\ stage[k] = "rolling" \/ (stage[k] = "pruning" /\ stale[k] = {})
          /\ stage' = [stage EXCEPT ![k] = "idle"]
          /\ UNCHANGED <<of, number, incoming, file, rows, version, stale, purged, mishap>>
      BY <2>6 DEF RollsBack, Answers
    <3>2. \A q \in Profile : \A n \in incoming'[q] : n \in incoming[q] /\ ~ Stages(k, q, n)
      BY <3>1 DEF Stages
    <3>3. \A q \in Profile, v \in Version : file'[q][v] # {} =>
            v \in rows'[q] \/ (file[q][v] # {} /\ v \notin rows[q] /\ ~ Guards(k, q, v))
      BY <3>1 DEF Guards
    <3>4. \A h \in Handler \ {k} : /\ stage'[h] = stage[h] /\ of'[h] = of[h] /\ number'[h] = number[h]
                                   /\ version'[h] = version[h] /\ stale'[h] = stale[h]
      BY <1>t, <3>1
    <3> QED BY <3>1, <3>2, <3>3, <3>4, LeavesNone
  <2>7. CASE Commits(k)
    <3>1. /\ stage[k] = "moved" /\ version[k] \notin rows[of[k]]
          /\ stage' = [stage EXCEPT ![k] = "pruning"] /\ stale' = [stale EXCEPT ![k] = Forgotten(k)]
          /\ rows' = [rows EXCEPT ![of[k]] = (@ \cup {version[k]}) \ Forgotten(k)]
          /\ UNCHANGED <<of, number, incoming, file, version, purged, mishap>>
      BY <2>7 DEF Commits, Records
    <3>2. of[k] \in Profile BY <1>of, <3>1
    <3>3. Forgotten(k) \subseteq rows[of[k]] BY DEF Forgotten
    <3> DEFINE old == Forgotten(k)
    <3> HIDE DEF old
    <3>4. \A q \in Profile : \A n \in incoming'[q] : n \in incoming[q] /\ ~ Stages(k, q, n)
      BY <3>1 DEF Stages
    <3>5. \A q \in Profile, v \in Version : file'[q][v] # {} =>
            \/ v \in rows'[q] \/ Guards(k, q, v)'
            \/ file[q][v] # {} /\ v \notin rows[q] /\ ~ Guards(k, q, v)
      <4> SUFFICES ASSUME NEW q \in Profile, NEW v \in Version, file'[q][v] # {}
          PROVE  \/ v \in rows'[q] \/ Guards(k, q, v)'
                 \/ file[q][v] # {} /\ v \notin rows[q] /\ ~ Guards(k, q, v)
        OBVIOUS
      <4>1. CASE q # of[k] BY <1>t, <3>1, <4>1 DEF Guards
      <4>2. CASE q = of[k]
        <5>1. rows'[q] = (rows[q] \cup {version[k]}) \ Forgotten(k) BY <1>t, <3>1, <4>2
        <5>2. v \in Forgotten(k) => Guards(k, q, v)' BY <1>t, <3>1, <4>2 DEF Guards
        <5> QED BY <3>1, <3>3, <4>2, <5>1, <5>2 DEF Guards
      <4> QED BY <4>1, <4>2
    <3>6. \A h \in Handler \ {k} : /\ stage'[h] = stage[h] /\ of'[h] = of[h] /\ number'[h] = number[h]
                                   /\ version'[h] = version[h] /\ stale'[h] = stale[h]
      BY <1>t, <3>1
    <3> QED BY <3>1, <3>4, <3>5, <3>6, LeavesNone
  <2>8. CASE Prunes(k)
    <3>1. PICK w \in stale[k] : Unlink(of[k], w) /\ stale' = [stale EXCEPT ![k] = @ \ {w}]
      BY <2>8 DEF Prunes
    <3>2. stage[k] = "pruning" /\ UNCHANGED <<stage, of, number, incoming, rows, version, purged>>
      BY <2>8 DEF Prunes
    <3>3. of[k] \in Profile /\ w \in Version BY <1>t, <1>of, <3>2
    <3>4. ~ mishap' => ~ mishap /\ file' = [file EXCEPT ![of[k]][w] = {}]
      BY <3>1 DEF Unlink
    <3>5. \A q \in Profile : \A n \in incoming'[q] : n \in incoming[q] /\ ~ Stages(k, q, n)
      BY <3>2 DEF Stages
    <3>6. ~ mishap' => \A q \in Profile, v \in Version : file'[q][v] # {} =>
            \/ v \in rows'[q] \/ Guards(k, q, v)'
            \/ file[q][v] # {} /\ v \notin rows[q] /\ ~ Guards(k, q, v)
      <4> SUFFICES ASSUME ~ mishap', NEW q \in Profile, NEW v \in Version, file'[q][v] # {}
          PROVE  \/ v \in rows'[q] \/ Guards(k, q, v)'
                 \/ file[q][v] # {} /\ v \notin rows[q] /\ ~ Guards(k, q, v)
        OBVIOUS
      <4>1. q # of[k] \/ v # w BY <3>3, <3>4, Removed
      <4>2. file'[q][v] = file[q][v] BY <3>3, <3>4, Removed
      <4>3. Guards(k, q, v) => Guards(k, q, v)' BY <1>t, <3>1, <3>2, <4>1 DEF Guards
      <4> QED BY <3>2, <4>2, <4>3
    <3>7. \A h \in Handler \ {k} : /\ stage'[h] = stage[h] /\ of'[h] = of[h] /\ number'[h] = number[h]
                                   /\ version'[h] = version[h] /\ stale'[h] = stale[h]
      BY <1>t, <3>1, <3>2
    <3> QED BY <3>2, <3>4, <3>5, <3>6, <3>7, LeavesNone
  <2>9. CASE Aborts(k)
    <3>1. /\ stage[k] = "moved" /\ stage' = [stage EXCEPT ![k] = "torn"]
          /\ UNCHANGED <<of, number, incoming, file, rows, version, stale, purged, mishap>>
      BY <2>9 DEF Aborts
    <3>2. \A q \in Profile : \A n \in incoming'[q] : n \in incoming[q] /\ ~ Stages(k, q, n)
      BY <3>1 DEF Stages
    <3>3. \A q, v : Guards(k, q, v) => Guards(k, q, v)' BY <1>t, <3>1 DEF Guards
    <3>4. \A q \in Profile, v \in Version : file'[q][v] # {} =>
            \/ v \in rows'[q] \/ Guards(k, q, v)'
            \/ file[q][v] # {} /\ v \notin rows[q] /\ ~ Guards(k, q, v)
      BY <3>1, <3>3
    <3>5. \A h \in Handler \ {k} : /\ stage'[h] = stage[h] /\ of'[h] = of[h] /\ number'[h] = number[h]
                                   /\ version'[h] = version[h] /\ stale'[h] = stale[h]
      BY <1>t, <3>1
    <3> QED BY <3>1, <3>2, <3>4, <3>5, LeavesNone
  <2>10. CASE CommitsUnheard(k)
    BY <2>10 DEF CommitsUnheard, NoLitter
  <2> QED BY <1>1, <2>1, <2>2, <2>3, <2>4, <2>5, <2>6, <2>7, <2>8, <2>9, <2>10 DEF UploadStep
<1>still. ASSUME UNCHANGED <<incoming, file, rows, stage, of, number, version, stale, mishap>>,
                 purged \subseteq purged'
          PROVE  NoLitter'
  BY <1>still DEF NoLitter, Guarded
<1>2. ASSUME NEW p \in Profile, ReadsRow(p) PROVE NoLitter'
  BY <1>2, <1>still DEF ReadsRow
<1>3. CASE ReadsFile
  BY <1>3, <1>still DEF ReadsFile
<1>4. CASE TrashStep
  <2>1. CASE ListsTrash BY <2>1, <1>still DEF ListsTrash
  <2>2. ASSUME NEW p \in Profile, DeletesProfile(p) \/ RestoresProfile(p) PROVE NoLitter'
    BY <2>2, <1>still DEF DeletesProfile, RestoresProfile, SetStatus
  <2>3. ASSUME NEW p \in Profile, PurgesBytes(p) PROVE NoLitter'
    <3>1. /\ file' = [file EXCEPT ![p] = [v \in Version |-> {}]] /\ incoming' = [incoming EXCEPT ![p] = {}]
          /\ purged' = purged \cup {p} /\ UNCHANGED <<rows, stage, of, number, version, stale, mishap>>
      BY <2>3 DEF PurgesBytes
    <3>2. \A q \in Profile : incoming'[q] \subseteq incoming[q] BY <1>t, <3>1
    <3>3. \A q \in Profile \ purged' : q \in Profile \ purged /\ file'[q] = file[q] BY <1>t, <3>1
    <3> QED BY <3>1, <3>2, <3>3 DEF NoLitter, Guarded
  <2>4. ASSUME NEW p \in Profile, PurgesRow(p) PROVE NoLitter'
    <3>1. /\ p \in purging /\ rows' = [rows EXCEPT ![p] = IF status[p] = "live" THEN @ ELSE {}]
          /\ UNCHANGED <<incoming, file, purged, stage, of, number, version, stale, mishap>>
      BY <2>4 DEF PurgesRow
    <3>2. p \in purged BY <3>1 DEF StoreInv, RowInv
    <3>3. \A q \in Profile \ purged : rows'[q] = rows[q] BY <1>t, <3>1, <3>2
    <3> QED BY <3>1, <3>3 DEF NoLitter, Guarded
  <2> QED BY <1>4, <2>1, <2>2, <2>3, <2>4 DEF TrashStep
<1>5. CASE Restarts
  BY <1>5 DEF Restarts, NoLitter
<1>6. CASE UNCHANGED vars
  BY <1>6, <1>still DEF vars
<1> QED BY <1>1, <1>2, <1>3, <1>4, <1>5, <1>6 DEF Next

\* No file is left that nobody will remove, unless the server was killed or a
\* removal failed (api.rs, RemoveOnDrop and the pruning after the commit).
THEOREM NoLitterCorrect == Spec => []NoLitter
<1>1. Init => NoLitter
  BY DEF Init, NoLitter
<1> QED BY <1>1, NextNoLitter, TypeCorrect, StoreCorrect, PTL DEF Spec
============================================================================
