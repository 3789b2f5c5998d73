------------------------- MODULE ProfileSyncProofs -------------------------
(***************************************************************************)
(* Theorems about ProfileSync, for every set of machines, every lease and  *)
(* every bound.                                                            *)
(***************************************************************************)
EXTENDS ProfileSync, TLAPS

USE DEF NoTok, None, Goto, serverVars, storeVars, rowVars, runVars, diskVars,
        Phase, Using, Launching, Stopping

\* The state of a team nobody has used yet (migration defaults, no files beside
\* a directory) has the types every later step keeps.
THEOREM InitTypeOK == Init => TypeOK
  BY SyncAssumption
  DEF Init, TypeOK, LockType, StoreType, RunType, DiskType, Upload

\* Each handler, agent step, tick and power loss keeps every type: in
\* particular no lease goes below zero in upload_bundle, heartbeat or the clock,
\* and no file beside a directory names a version the server does not have.
THEOREM NextTypeOK == TypeOK /\ [Next]_vars => TypeOK'
<1> SUFFICES ASSUME TypeOK, [Next]_vars PROVE TypeOK'
  OBVIOUS
<1>a. UNCHANGED <<sessions, version>> => Upload' = Upload
  BY DEF Upload
<1> USE SyncAssumption DEF TypeOK
<1>1. ASSUME NEW m \in Machine, Acquire(m) PROVE TypeOK'
    <2>1. LockType' BY <1>1 DEF LockType, Acquire, GrantRow
    <2>2. StoreType' BY <1>1, <1>a DEF StoreType, Acquire
    <2>3. RunType' BY <1>1 DEF RunType, Acquire
    <2>4. DiskType' BY <1>1 DEF DiskType, Acquire
    <2> QED BY <2>1, <2>2, <2>3, <2>4
<1>2. ASSUME NEW m \in Machine, AcquireUnanswered(m) PROVE TypeOK'
    <2>1. LockType' BY <1>2 DEF LockType, AcquireUnanswered, GrantRow
    <2>2. StoreType' BY <1>2, <1>a DEF StoreType, AcquireUnanswered
    <2>3. RunType' BY <1>2 DEF RunType, AcquireUnanswered
    <2>4. DiskType' BY <1>2 DEF DiskType, AcquireUnanswered
    <2> QED BY <2>1, <2>2, <2>3, <2>4
<1>3. ASSUME NEW m \in Machine, Beat(m) PROVE TypeOK'
    <2>1. LockType' BY <1>3 DEF LockType, Beat, Renew, BeatLost, BeatMissed
    <2>2. StoreType' BY <1>3, <1>a DEF StoreType, Beat, Renew, BeatLost, BeatMissed
    <2>3. RunType' BY <1>3 DEF RunType, Beat, Renew, BeatLost, BeatMissed
    <2>4. DiskType' BY <1>3 DEF DiskType, Beat, Renew, BeatLost, BeatMissed
    <2> QED BY <2>1, <2>2, <2>3, <2>4
<1>4. ASSUME NEW m \in Machine, LaunchStep(m) PROVE TypeOK'
  <2>1. CASE LaunchStarts(m)
      <3>1. LockType' BY <2>1 DEF LockType, LaunchStarts
      <3>2. StoreType' BY <2>1, <1>a DEF StoreType, LaunchStarts
      <3>3. RunType' BY <2>1 DEF RunType, LaunchStarts
      <3>4. DiskType' BY <2>1 DEF DiskType, LaunchStarts
      <3> QED BY <3>1, <3>2, <3>3, <3>4
  <2>2. CASE FetchNothing(m)
      <3>1. LockType' BY <2>2 DEF LockType, FetchNothing
      <3>2. StoreType' BY <2>2, <1>a DEF StoreType, FetchNothing
      <3>3. RunType' BY <2>2 DEF RunType, FetchNothing
      <3>4. DiskType' BY <2>2 DEF DiskType, FetchNothing
      <3> QED BY <3>1, <3>2, <3>3, <3>4
  <2>3. CASE FetchUnchanged(m)
      <3>1. LockType' BY <2>3 DEF LockType, FetchUnchanged
      <3>2. StoreType' BY <2>3, <1>a DEF StoreType, FetchUnchanged
      <3>3. RunType' BY <2>3 DEF RunType, FetchUnchanged, StoreType
      <3>4. DiskType' BY <2>3 DEF DiskType, FetchUnchanged
      <3> QED BY <3>1, <3>2, <3>3, <3>4
  <2>4. CASE KeepLocal(m)
      <3>1. LockType' BY <2>4 DEF LockType, KeepLocal
      <3>2. StoreType' BY <2>4, <1>a DEF StoreType, KeepLocal
      <3>3. RunType' BY <2>4 DEF RunType, KeepLocal, Fetched, StoreType
      <3>4. DiskType' BY <2>4 DEF DiskType, KeepLocal
      <3> QED BY <3>1, <3>2, <3>3, <3>4
  <2>5. CASE Unpack(m)
      <3>1. LockType' BY <2>5 DEF LockType, Unpack
      <3>2. StoreType' BY <2>5, <1>a DEF StoreType, Unpack
      <3>3. RunType' BY <2>5 DEF RunType, Unpack, Fetched, StoreType
      <3>4. DiskType' BY <2>5 DEF DiskType, Unpack
      <3> QED BY <3>1, <3>2, <3>3, <3>4
  <2>6. CASE SetAside(m)
      <3>1. LockType' BY <2>6 DEF LockType, SetAside
      <3>2. StoreType' BY <2>6, <1>a DEF StoreType, SetAside
      <3>3. RunType' BY <2>6 DEF RunType, SetAside, Fetched, StoreType
      <3>4. DiskType' BY <2>6 DEF DiskType, SetAside
      <3> QED BY <3>1, <3>2, <3>3, <3>4
  <2>7. CASE ClearAside(m)
      <3>1. LockType' BY <2>7 DEF LockType, ClearAside
      <3>2. StoreType' BY <2>7, <1>a DEF StoreType, ClearAside
      <3>3. RunType' BY <2>7 DEF RunType, ClearAside
      <3>4. DiskType' BY <2>7 DEF DiskType, ClearAside, StoreType
      <3> QED BY <3>1, <3>2, <3>3, <3>4
  <2>8. CASE ForgetHeld(m)
      <3>1. LockType' BY <2>8 DEF LockType, ForgetHeld
      <3>2. StoreType' BY <2>8, <1>a DEF StoreType, ForgetHeld
      <3>3. RunType' BY <2>8 DEF RunType, ForgetHeld
      <3>4. DiskType' BY <2>8 DEF DiskType, ForgetHeld, StoreType
      <3> QED BY <3>1, <3>2, <3>3, <3>4
  <2>9. CASE EndUnpack(m)
      <3>1. LockType' BY <2>9 DEF LockType, EndUnpack
      <3>2. StoreType' BY <2>9, <1>a DEF StoreType, EndUnpack
      <3>3. RunType' BY <2>9 DEF RunType, EndUnpack
      <3>4. DiskType' BY <2>9 DEF DiskType, EndUnpack, StoreType, RunType
      <3> QED BY <3>1, <3>2, <3>3, <3>4
  <2>10. CASE RecordPull(m)
      <3>1. LockType' BY <2>10 DEF LockType, RecordPull
      <3>2. StoreType' BY <2>10, <1>a DEF StoreType, RecordPull
      <3>3. RunType' BY <2>10 DEF RunType, RecordPull
      <3>4. DiskType'
        <4>1. held' \in [Machine -> -1..version]
          <5>1. base[m] \in -1..version BY DEF RunType, StoreType
          <5> QED BY <2>10, <5>1 DEF RecordPull, Recorded, DiskType
        <4>2. UNCHANGED <<version, sessions, local, marker, aside>> BY <2>10 DEF RecordPull
        <4> QED BY <4>1, <4>2 DEF DiskType
      <3> QED BY <3>1, <3>2, <3>3, <3>4
  <2>11. CASE OpenBrowser(m)
      <3>1. LockType' BY <2>11 DEF LockType, OpenBrowser
      <3>2. StoreType' BY <2>11 DEF StoreType, OpenBrowser, Upload
      <3>3. RunType' BY <2>11 DEF RunType, OpenBrowser, StoreType
      <3>4. DiskType' BY <2>11 DEF DiskType, OpenBrowser, StoreType
      <3> QED BY <3>1, <3>2, <3>3, <3>4
  <2>12. CASE LaunchFails(m)
      <3>1. LockType' BY <2>12 DEF LockType, LaunchFails
      <3>2. StoreType' BY <2>12, <1>a DEF StoreType, LaunchFails
      <3>3. RunType' BY <2>12 DEF RunType, LaunchFails
      <3>4. DiskType' BY <2>12 DEF DiskType, LaunchFails
      <3> QED BY <3>1, <3>2, <3>3, <3>4
  <2>13. CASE UnlockAfterFailure(m)
      <3>1. LockType' BY <2>13 DEF LockType, UnlockAfterFailure, UnlockRow, DropRow
      <3>2. StoreType' BY <2>13, <1>a DEF StoreType, UnlockAfterFailure
      <3>3. RunType' BY <2>13 DEF RunType, UnlockAfterFailure
      <3>4. DiskType' BY <2>13 DEF DiskType, UnlockAfterFailure
      <3> QED BY <3>1, <3>2, <3>3, <3>4
  <2> QED BY <1>4, <2>1, <2>2, <2>3, <2>4, <2>5, <2>6, <2>7, <2>8, <2>9, <2>10, <2>11, <2>12, <2>13 DEF LaunchStep
<1>5. ASSUME NEW m \in Machine, StopStep(m) PROVE TypeOK'
  <2>1. CASE CloseBrowser(m)
      <3>1. LockType' BY <2>1 DEF LockType, CloseBrowser
      <3>2. StoreType' BY <2>1, <1>a DEF StoreType, CloseBrowser
      <3>3. RunType' BY <2>1 DEF RunType, CloseBrowser
      <3>4. DiskType' BY <2>1 DEF DiskType, CloseBrowser
      <3> QED BY <3>1, <3>2, <3>3, <3>4
  <2>2. CASE StartUpload(m)
      <3>1. LockType' BY <2>2 DEF LockType, StartUpload
      <3>2. StoreType'
        <4>1. cur[m] \in 0..sessions /\ base[m] \in 0..version /\ local[m] \in SUBSET (1..sessions)
          BY <2>2 DEF StartUpload, RunType, DiskType
        <4> QED BY <2>2, <4>1, <1>a DEF StartUpload, StoreType, Upload
      <3>3. RunType' BY <2>2 DEF RunType, StartUpload
      <3>4. DiskType' BY <2>2 DEF DiskType, StartUpload
      <3> QED BY <3>1, <3>2, <3>3, <3>4
  <2>3. CASE RefuseUpload(m)
      <3>1. LockType' BY <2>3 DEF LockType, RefuseUpload
      <3>2. StoreType' BY <2>3, <1>a DEF StoreType, RefuseUpload
      <3>3. RunType' BY <2>3 DEF RunType, RefuseUpload
      <3>4. DiskType' BY <2>3 DEF DiskType, RefuseUpload
      <3> QED BY <3>1, <3>2, <3>3, <3>4
  <2>4. CASE PushFails(m)
      <3>1. LockType' BY <2>4 DEF LockType, PushFails
      <3>2. StoreType' BY <2>4, <1>a DEF StoreType, PushFails
      <3>3. RunType' BY <2>4 DEF RunType, PushFails
      <3>4. DiskType' BY <2>4 DEF DiskType, PushFails
      <3> QED BY <3>1, <3>2, <3>3, <3>4
  <2>5. CASE ClearMarker(m)
      <3>1. LockType' BY <2>5 DEF LockType, ClearMarker
      <3>2. StoreType' BY <2>5, <1>a DEF StoreType, ClearMarker
      <3>3. RunType' BY <2>5 DEF RunType, ClearMarker
      <3>4. DiskType' BY <2>5 DEF DiskType, ClearMarker, StoreType
      <3> QED BY <3>1, <3>2, <3>3, <3>4
  <2>6. CASE RecordPush(m)
      <3>1. LockType' BY <2>6 DEF LockType, RecordPush
      <3>2. StoreType' BY <2>6, <1>a DEF StoreType, RecordPush
      <3>3. RunType' BY <2>6 DEF RunType, RecordPush
      <3>4. DiskType'
        <4>1. held' \in [Machine -> -1..version]
          <5>1. base[m] \in -1..version BY DEF RunType, StoreType
          <5> QED BY <2>6, <5>1 DEF RecordPush, Recorded, DiskType
        <4>2. UNCHANGED <<version, sessions, local, marker, aside>> BY <2>6 DEF RecordPush
        <4> QED BY <4>1, <4>2 DEF DiskType
      <3> QED BY <3>1, <3>2, <3>3, <3>4
  <2>7. CASE Mark(m)
      <3>1. LockType' BY <2>7 DEF LockType, Mark
      <3>2. StoreType' BY <2>7, <1>a DEF StoreType, Mark
      <3>3. RunType' BY <2>7 DEF RunType, Mark
      <3>4. DiskType' BY <2>7 DEF DiskType, Mark, Recorded, RunType
      <3> QED BY <3>1, <3>2, <3>3, <3>4
  <2>8. CASE Release(m)
      <3>1. LockType' BY <2>8 DEF LockType, Release, UnlockRow, DropRow
      <3>2. StoreType' BY <2>8, <1>a DEF StoreType, Release
      <3>3. RunType' BY <2>8 DEF RunType, Release
      <3>4. DiskType' BY <2>8 DEF DiskType, Release
      <3> QED BY <3>1, <3>2, <3>3, <3>4
  <2>9. CASE AskToClose(m)
      <3>1. LockType' BY <2>9 DEF LockType, AskToClose
      <3>2. StoreType' BY <2>9, <1>a DEF StoreType, AskToClose
      <3>3. RunType' BY <2>9 DEF RunType, AskToClose
      <3>4. DiskType' BY <2>9 DEF DiskType, AskToClose
      <3> QED BY <3>1, <3>2, <3>3, <3>4
  <2> QED BY <1>5, <2>1, <2>2, <2>3, <2>4, <2>5, <2>6, <2>7, <2>8, <2>9 DEF StopStep
<1>6. ASSUME NEW m \in Machine, Crash(m) PROVE TypeOK'
    <2>1. LockType' BY <1>6 DEF LockType, Crash
    <2>2. StoreType' BY <1>6, <1>a DEF StoreType, Crash
    <2>3. RunType' BY <1>6 DEF RunType, Crash
    <2>4. DiskType' BY <1>6 DEF DiskType, Crash
    <2> QED BY <2>1, <2>2, <2>3, <2>4
<1>7. ASSUME NEW u \in uploads, ServerStep(u) PROVE TypeOK'
  <2>1. CASE CommitUpload(u)
      <3>1. LockType' BY <2>1 DEF LockType, CommitUpload
      <3>2. StoreType' BY <2>1 DEF StoreType, CommitUpload, Upload
      <3>3. RunType' BY <2>1 DEF RunType, CommitUpload, Answer, StoreType
      <3>4. DiskType' BY <2>1 DEF DiskType, CommitUpload, StoreType
      <3> QED BY <3>1, <3>2, <3>3, <3>4
  <2>2. CASE StaleUpload(u)
      <3>1. LockType' BY <2>2 DEF LockType, StaleUpload
      <3>2. StoreType' BY <2>2, <1>a DEF StoreType, StaleUpload
      <3>3. RunType' BY <2>2 DEF RunType, StaleUpload, Answer
      <3>4. DiskType' BY <2>2 DEF DiskType, StaleUpload
      <3> QED BY <3>1, <3>2, <3>3, <3>4
  <2>3. CASE DropUpload(u)
      <3>1. LockType' BY <2>3 DEF LockType, DropUpload
      <3>2. StoreType' BY <2>3, <1>a DEF StoreType, DropUpload
      <3>3. RunType' BY <2>3 DEF RunType, DropUpload, Answer
      <3>4. DiskType' BY <2>3 DEF DiskType, DropUpload
      <3> QED BY <3>1, <3>2, <3>3, <3>4
  <2> QED BY <1>7, <2>1, <2>2, <2>3 DEF ServerStep
<1>8. ASSUME Tick PROVE TypeOK'
    <2>1. LockType' BY <1>8 DEF LockType, Tick
    <2>2. StoreType' BY <1>8, <1>a DEF StoreType, Tick
    <2>3. RunType' BY <1>8 DEF RunType, Tick
    <2>4. DiskType' BY <1>8 DEF DiskType, Tick
    <2> QED BY <2>1, <2>2, <2>3, <2>4
<1>10. ASSUME NEW m \in Machine, CloseAgain(m) PROVE TypeOK'
    <2>1. LockType' BY <1>10 DEF LockType, CloseAgain, DropRow
    <2>2. StoreType' BY <1>10, <1>a DEF StoreType, CloseAgain
    <2>3. RunType' BY <1>10 DEF RunType, CloseAgain
    <2>4. DiskType' BY <1>10 DEF DiskType, CloseAgain
    <2> QED BY <2>1, <2>2, <2>3, <2>4
<1>9. CASE UNCHANGED vars
    <2>1. LockType' BY <1>9 DEF LockType, vars
    <2>2. StoreType' BY <1>9, <1>a DEF StoreType, vars
    <2>3. RunType' BY <1>9 DEF RunType, vars
    <2>4. DiskType' BY <1>9 DEF DiskType, vars
    <2> QED BY <2>1, <2>2, <2>3, <2>4
<1> QED
  BY <1>1, <1>2, <1>3, <1>4, <1>5, <1>6, <1>7, <1>8, <1>9, <1>10 DEF Next

\* Every variable keeps its type, whatever fails.
THEOREM TypeCorrect == Spec => []TypeOK
  BY InitTypeOK, NextTypeOK, PTL DEF Spec

----------------------------------------------------------------------------
(* The versions form one line.                                             *)

Types == TypeOK /\ TypeOK'

\* A step that leaves the store and the disks alone, and takes no machine into
\* a phase of the launch that pulled something or of the push.
QuietPhases ==
    \A m \in Machine :
       \/ phase'[m] = phase[m]
       \/ phase'[m] \in {"closed", "granted", "fetching", "unlocking"}
       \/ phase[m] = "open" /\ phase'[m] = "closing"
       \/ phase[m] \in {"open", "closing"} /\ phase'[m] = "packing"
       \/ phase[m] \in {"packing", "pushing"} /\ phase'[m] \in {"refused", "unsent"}

\* acquire_lock, heartbeat, the unlocks and every failure path leave bundles,
\* directories and version files alone, so they cannot bend the line of versions.
LEMMA QuietStep ==
    ASSUME Types, HistoryInv, QuietPhases, uploads' \subseteq uploads,
           UNCHANGED <<version, bundle, local, held, marker, base, cur>>
    PROVE  HistoryInv'
<1> USE DEF Types, TypeOK, RunType, QuietPhases, HistoryInv
<1>1. LinearHistory' BY DEF LinearHistory
<1>2. CurrentIsWhole' BY DEF CurrentIsWhole, Based
<1>3. PullInv' BY DEF PullInv
<1>4. UploadInv' BY DEF UploadInv, Awaits
<1>5. CurInv' BY DEF CurInv
<1>6. bundle'[0] = {} OBVIOUS
<1> QED BY <1>1, <1>2, <1>3, <1>4, <1>5, <1>6

\* Every step of launch, stop and upload_bundle keeps the inductive invariant:
\* the case that matters is the commit under FOR UPDATE, where the base_version
\* check makes the uploaded work contain the version it replaces.
THEOREM NextHistoryInv == Types /\ HistoryInv /\ [Next]_vars => HistoryInv'
<1> SUFFICES ASSUME Types, HistoryInv, [Next]_vars PROVE HistoryInv'
  OBVIOUS
<1>1. ASSUME NEW m \in Machine, Acquire(m) PROVE HistoryInv'
  BY <1>1, QuietStep DEF Acquire, QuietPhases, Types, TypeOK
<1>2. ASSUME NEW m \in Machine, AcquireUnanswered(m) PROVE HistoryInv'
  BY <1>2, QuietStep DEF AcquireUnanswered, QuietPhases, Types, TypeOK
<1>3. ASSUME NEW m \in Machine, Beat(m) PROVE HistoryInv'
  BY <1>3, QuietStep DEF Beat, Renew, BeatLost, BeatMissed, QuietPhases, Types, TypeOK
<1>4. ASSUME NEW m \in Machine, LaunchStep(m) PROVE HistoryInv'
  <2>1. CASE LaunchStarts(m)
    BY <2>1, QuietStep DEF LaunchStarts, QuietPhases, Types, TypeOK
  <2>2. CASE FetchNothing(m)
    <3>1. LinearHistory'
      BY <2>2 DEF LinearHistory, FetchNothing, Types, TypeOK
    <3>2. CurrentIsWhole'
      BY <2>2 DEF CurrentIsWhole, FetchNothing, HistoryInv, Types, TypeOK
    <3>3. PullInv'
      BY <2>2 DEF PullInv, FetchNothing, HistoryInv, Types, TypeOK
    <3>4. UploadInv'
      BY <2>2 DEF UploadInv, FetchNothing, HistoryInv, Types, TypeOK, Awaits, CurrentIsWhole, Upload
    <3>5. CurInv'
      BY <2>2 DEF CurInv, FetchNothing, HistoryInv, Types, TypeOK, Upload
    <3>6. bundle'[0] = {}
      BY <2>2 DEF FetchNothing, HistoryInv, Types, TypeOK
    <3> QED BY <3>1, <3>2, <3>3, <3>4, <3>5, <3>6 DEF HistoryInv
  <2>3. CASE FetchUnchanged(m)
    <3>1. LinearHistory'
      BY <2>3 DEF LinearHistory, FetchUnchanged, HistoryInv, Types, TypeOK
    <3>2. CurrentIsWhole'
      BY <2>3 DEF CurrentIsWhole, FetchUnchanged, HistoryInv, Types, TypeOK
    <3>3. PullInv'
      BY <2>3 DEF PullInv, FetchUnchanged, HistoryInv, Types, TypeOK
    <3>4. UploadInv'
      BY <2>3 DEF UploadInv, FetchUnchanged, HistoryInv, Types, TypeOK, Awaits, CurrentIsWhole, Upload
    <3>5. CurInv'
      BY <2>3 DEF CurInv, FetchUnchanged, HistoryInv, Types, TypeOK, Upload
    <3>6. bundle'[0] = {}
      BY <2>3 DEF FetchUnchanged, HistoryInv, Types, TypeOK
    <3> QED BY <3>1, <3>2, <3>3, <3>4, <3>5, <3>6 DEF HistoryInv
  <2>4. CASE KeepLocal(m)
    <3>1. LinearHistory'
      BY <2>4 DEF LinearHistory, KeepLocal, HistoryInv, Types, TypeOK
    <3>2. CurrentIsWhole'
      BY <2>4 DEF CurrentIsWhole, KeepLocal, Fetched, HistoryInv, Types, TypeOK
    <3>3. PullInv'
      BY <2>4 DEF PullInv, KeepLocal, Fetched, HistoryInv, Types, TypeOK
    <3>4. UploadInv'
      BY <2>4 DEF UploadInv, KeepLocal, HistoryInv, Types, TypeOK, Awaits, CurrentIsWhole, Upload
    <3>5. CurInv'
      BY <2>4 DEF CurInv, KeepLocal, HistoryInv, Types, TypeOK, Upload
    <3>6. bundle'[0] = {}
      BY <2>4 DEF KeepLocal, HistoryInv, Types, TypeOK
    <3> QED BY <3>1, <3>2, <3>3, <3>4, <3>5, <3>6 DEF HistoryInv
  <2>5. CASE Unpack(m)
    <3>1. LinearHistory'
      BY <2>5 DEF LinearHistory, Unpack, HistoryInv, Types, TypeOK
    <3>2. CurrentIsWhole'
      BY <2>5 DEF CurrentIsWhole, Unpack, Fetched, HistoryInv, Types, TypeOK, Based
    <3>3. PullInv'
      BY <2>5 DEF PullInv, Unpack, Fetched, HistoryInv, Types, TypeOK, RunType, DiskType
    <3>4. UploadInv'
      BY <2>5 DEF UploadInv, Unpack, HistoryInv, Types, TypeOK, Awaits, CurrentIsWhole, RunType, Upload
    <3>5. CurInv'
      BY <2>5 DEF CurInv, Unpack, HistoryInv, Types, TypeOK, Upload
    <3>6. bundle'[0] = {}
      BY <2>5 DEF Unpack, HistoryInv, Types, TypeOK
    <3> QED BY <3>1, <3>2, <3>3, <3>4, <3>5, <3>6 DEF HistoryInv
  <2>6. CASE SetAside(m)
    <3>1. LinearHistory'
      BY <2>6 DEF LinearHistory, SetAside, HistoryInv, Types, TypeOK
    <3>2. CurrentIsWhole'
      BY <2>6 DEF CurrentIsWhole, SetAside, Fetched, HistoryInv, Types, TypeOK, Based
    <3>3. PullInv'
      BY <2>6 DEF PullInv, SetAside, Fetched, HistoryInv, Types, TypeOK, RunType, DiskType
    <3>4. UploadInv'
      BY <2>6 DEF UploadInv, SetAside, HistoryInv, Types, TypeOK, Awaits, CurrentIsWhole, RunType, Upload
    <3>5. CurInv'
      BY <2>6 DEF CurInv, SetAside, HistoryInv, Types, TypeOK, Upload
    <3>6. bundle'[0] = {}
      BY <2>6 DEF SetAside, HistoryInv, Types, TypeOK
    <3> QED BY <3>1, <3>2, <3>3, <3>4, <3>5, <3>6 DEF HistoryInv
  <2>7. CASE ClearAside(m)
    <3>1. LinearHistory'
      BY <2>7 DEF LinearHistory, ClearAside, HistoryInv, Types, TypeOK
    <3>2. CurrentIsWhole'
      BY <2>7 DEF CurrentIsWhole, ClearAside, HistoryInv, Types, TypeOK, Based, DiskType
    <3>3. PullInv'
      BY <2>7 DEF PullInv, ClearAside, HistoryInv, Types, TypeOK, RunType
    <3>4. UploadInv'
      BY <2>7 DEF UploadInv, ClearAside, HistoryInv, Types, TypeOK, Awaits, CurrentIsWhole, Upload
    <3>5. CurInv'
      BY <2>7 DEF CurInv, ClearAside, HistoryInv, Types, TypeOK, Upload
    <3>6. bundle'[0] = {}
      BY <2>7 DEF ClearAside, HistoryInv, Types, TypeOK
    <3> QED BY <3>1, <3>2, <3>3, <3>4, <3>5, <3>6 DEF HistoryInv
  <2>8. CASE ForgetHeld(m)
    <3>1. LinearHistory'
      BY <2>8 DEF LinearHistory, ForgetHeld, HistoryInv, Types, TypeOK
    <3>2. CurrentIsWhole'
      BY <2>8 DEF CurrentIsWhole, ForgetHeld, HistoryInv, Types, TypeOK, Based, DiskType
    <3>3. PullInv'
      BY <2>8 DEF PullInv, ForgetHeld, HistoryInv, Types, TypeOK, RunType
    <3>4. UploadInv'
      BY <2>8 DEF UploadInv, ForgetHeld, HistoryInv, Types, TypeOK, Awaits, CurrentIsWhole, Upload
    <3>5. CurInv'
      BY <2>8 DEF CurInv, ForgetHeld, HistoryInv, Types, TypeOK, Upload
    <3>6. bundle'[0] = {}
      BY <2>8 DEF ForgetHeld, HistoryInv, Types, TypeOK
    <3> QED BY <3>1, <3>2, <3>3, <3>4, <3>5, <3>6 DEF HistoryInv
  <2>9. CASE EndUnpack(m)
    <3>1. LinearHistory'
      BY <2>9 DEF LinearHistory, EndUnpack, HistoryInv, Types, TypeOK
    <3>2. CurrentIsWhole'
      BY <2>9 DEF CurrentIsWhole, EndUnpack, HistoryInv, Types, TypeOK, PullInv, DiskType
    <3>3. PullInv'
      BY <2>9 DEF PullInv, EndUnpack, HistoryInv, Types, TypeOK, RunType
    <3>4. UploadInv'
      BY <2>9 DEF UploadInv, EndUnpack, HistoryInv, Types, TypeOK, Awaits, CurrentIsWhole, Upload
    <3>5. CurInv'
      BY <2>9 DEF CurInv, EndUnpack, HistoryInv, Types, TypeOK, Upload
    <3>6. bundle'[0] = {}
      BY <2>9 DEF EndUnpack, HistoryInv, Types, TypeOK
    <3> QED BY <3>1, <3>2, <3>3, <3>4, <3>5, <3>6 DEF HistoryInv
  <2>10. CASE RecordPull(m)
    <3>1. LinearHistory'
      BY <2>10 DEF LinearHistory, RecordPull, HistoryInv, Types, TypeOK
    <3>2. CurrentIsWhole'
      BY <2>10 DEF CurrentIsWhole, RecordPull, Recorded, HistoryInv, Types, TypeOK, Based, DiskType
    <3>3. PullInv'
      BY <2>10 DEF PullInv, RecordPull, Recorded, HistoryInv, Types, TypeOK, RunType, DiskType
    <3>4. UploadInv'
      BY <2>10 DEF UploadInv, RecordPull, HistoryInv, Types, TypeOK, Awaits, CurrentIsWhole, Upload
    <3>5. CurInv'
      BY <2>10 DEF CurInv, RecordPull, HistoryInv, Types, TypeOK, Upload
    <3>6. bundle'[0] = {}
      BY <2>10 DEF RecordPull, HistoryInv, Types, TypeOK
    <3> QED BY <3>1, <3>2, <3>3, <3>4, <3>5, <3>6 DEF HistoryInv
  <2>11. CASE OpenBrowser(m)
    <3>1. LinearHistory'
      BY <2>11 DEF LinearHistory, OpenBrowser, HistoryInv, Types, TypeOK
    <3>2. CurrentIsWhole'
      BY <2>11 DEF CurrentIsWhole, OpenBrowser, HistoryInv, Types, TypeOK, Based
    <3>3. PullInv'
      BY <2>11 DEF PullInv, OpenBrowser, HistoryInv, Types, TypeOK
    <3>4. UploadInv'
      BY <2>11 DEF UploadInv, OpenBrowser, HistoryInv, Types, TypeOK, Awaits, CurrentIsWhole, Upload
    <3>5. CurInv'
      BY <2>11 DEF CurInv, OpenBrowser, HistoryInv, Types, TypeOK, StoreType, RunType, Upload
    <3>6. bundle'[0] = {}
      BY <2>11 DEF OpenBrowser, HistoryInv, Types, TypeOK
    <3> QED BY <3>1, <3>2, <3>3, <3>4, <3>5, <3>6 DEF HistoryInv
  <2>12. CASE LaunchFails(m)
    BY <2>12, QuietStep DEF LaunchFails, QuietPhases, Types, TypeOK
  <2>13. CASE UnlockAfterFailure(m)
    BY <2>13, QuietStep DEF UnlockAfterFailure, QuietPhases, Types, TypeOK
  <2> QED BY <1>4, <2>1, <2>2, <2>3, <2>4, <2>5, <2>6, <2>7, <2>8, <2>9, <2>10, <2>11, <2>12, <2>13 DEF LaunchStep
<1>5. ASSUME NEW m \in Machine, StopStep(m) PROVE HistoryInv'
  <2>1. CASE CloseBrowser(m)
    BY <2>1, QuietStep DEF CloseBrowser, QuietPhases, Types, TypeOK
  <2>2. CASE StartUpload(m)
    <3>1. LinearHistory'
      BY <2>2 DEF LinearHistory, StartUpload, HistoryInv, Types, TypeOK
    <3>2. CurrentIsWhole'
      BY <2>2 DEF CurrentIsWhole, StartUpload, HistoryInv, Types, TypeOK, Based
    <3>3. PullInv'
      BY <2>2 DEF PullInv, StartUpload, HistoryInv, Types, TypeOK
    <3>4. UploadInv'
      BY <2>2 DEF UploadInv, StartUpload, HistoryInv, Types, TypeOK, Awaits, CurInv, CurrentIsWhole, Based, Upload
    <3>5. CurInv'
      BY <2>2 DEF CurInv, StartUpload, HistoryInv, Types, TypeOK, RunType, Upload
    <3>6. bundle'[0] = {}
      BY <2>2 DEF StartUpload, HistoryInv, Types, TypeOK
    <3> QED BY <3>1, <3>2, <3>3, <3>4, <3>5, <3>6 DEF HistoryInv
  <2>3. CASE RefuseUpload(m)
    BY <2>3, QuietStep DEF RefuseUpload, QuietPhases, Types, TypeOK
  <2>4. CASE PushFails(m)
    BY <2>4, QuietStep DEF PushFails, QuietPhases, Types, TypeOK
  <2>5. CASE ClearMarker(m)
    <3>1. LinearHistory'
      BY <2>5 DEF LinearHistory, ClearMarker, HistoryInv, Types, TypeOK
    <3>2. CurrentIsWhole'
      BY <2>5 DEF CurrentIsWhole, ClearMarker, HistoryInv, Types, TypeOK, Based, DiskType
    <3>3. PullInv'
      BY <2>5 DEF PullInv, ClearMarker, HistoryInv, Types, TypeOK
    <3>4. UploadInv'
      BY <2>5 DEF UploadInv, ClearMarker, HistoryInv, Types, TypeOK, Awaits, CurrentIsWhole, Upload
    <3>5. CurInv'
      BY <2>5 DEF CurInv, ClearMarker, HistoryInv, Types, TypeOK, Upload
    <3>6. bundle'[0] = {}
      BY <2>5 DEF ClearMarker, HistoryInv, Types, TypeOK
    <3> QED BY <3>1, <3>2, <3>3, <3>4, <3>5, <3>6 DEF HistoryInv
  <2>6. CASE RecordPush(m)
    <3>1. LinearHistory'
      BY <2>6 DEF LinearHistory, RecordPush, HistoryInv, Types, TypeOK
    <3>2. CurrentIsWhole'
      BY <2>6 DEF CurrentIsWhole, RecordPush, Recorded, HistoryInv, Types, TypeOK, Based, DiskType
    <3>3. PullInv'
      BY <2>6 DEF PullInv, RecordPush, Recorded, HistoryInv, Types, TypeOK, DiskType
    <3>4. UploadInv'
      BY <2>6 DEF UploadInv, RecordPush, HistoryInv, Types, TypeOK, Awaits, CurrentIsWhole, Upload
    <3>5. CurInv'
      BY <2>6 DEF CurInv, RecordPush, HistoryInv, Types, TypeOK, Upload
    <3>6. bundle'[0] = {}
      BY <2>6 DEF RecordPush, HistoryInv, Types, TypeOK
    <3> QED BY <3>1, <3>2, <3>3, <3>4, <3>5, <3>6 DEF HistoryInv
  <2>7. CASE Mark(m)
    <3>1. LinearHistory'
      BY <2>7 DEF LinearHistory, Mark, HistoryInv, Types, TypeOK
    <3>2. CurrentIsWhole'
      BY <2>7 DEF CurrentIsWhole, Mark, Recorded, HistoryInv, Types, TypeOK, Based, DiskType
    <3>3. PullInv'
      BY <2>7 DEF PullInv, Mark, Recorded, HistoryInv, Types, TypeOK, DiskType
    <3>4. UploadInv'
      BY <2>7 DEF UploadInv, Mark, HistoryInv, Types, TypeOK, Awaits, CurrentIsWhole, Upload
    <3>5. CurInv'
      BY <2>7 DEF CurInv, Mark, HistoryInv, Types, TypeOK, Upload
    <3>6. bundle'[0] = {}
      BY <2>7 DEF Mark, HistoryInv, Types, TypeOK
    <3> QED BY <3>1, <3>2, <3>3, <3>4, <3>5, <3>6 DEF HistoryInv
  <2>8. CASE Release(m)
    BY <2>8, QuietStep DEF Release, QuietPhases, Types, TypeOK
  <2>9. CASE AskToClose(m)
    BY <2>9, QuietStep DEF AskToClose, QuietPhases, Types, TypeOK
  <2> QED BY <1>5, <2>1, <2>2, <2>3, <2>4, <2>5, <2>6, <2>7, <2>8, <2>9 DEF StopStep
<1>6. ASSUME NEW m \in Machine, Crash(m) PROVE HistoryInv'
  BY <1>6, QuietStep DEF Crash, QuietPhases, Types, TypeOK
<1>7. ASSUME NEW u \in uploads, ServerStep(u) PROVE HistoryInv'
  <2>1. CASE CommitUpload(u)
    <3> USE DEF HistoryInv, Types, TypeOK
    <3>0. /\ u \in Upload /\ u.base = version /\ version \in Nat /\ version' = version + 1
          /\ u.work \in SUBSET (1..sessions)
          /\ bundle[version] \subseteq u.work
          /\ bundle'[version + 1] = u.work
          /\ \A v \in 0..version : bundle'[v] = bundle[v]
      BY <2>1 DEF CommitUpload, UploadInv, StoreType, Upload
    <3>a. /\ UNCHANGED <<local, held, marker, cur, sessions>>
          /\ uploads' = uploads \ {u}
          /\ \A m \in Machine : phase'[m] = IF Awaits(m, u) THEN "sent" ELSE phase[m]
          /\ \A m \in Machine : base'[m] = IF Awaits(m, u) THEN version + 1 ELSE base[m]
      BY <2>1 DEF CommitUpload, Answer
    <3>b. \A m \in Machine : base[m] \in 0..version /\ held[m] \in -1..version /\ marker[m] \in -1..version
      BY DEF RunType, DiskType
    <3>1. LinearHistory'
      BY <3>0 DEF LinearHistory
    <3>2. CurrentIsWhole'
      BY <3>0, <3>a, <3>b DEF CurrentIsWhole, UploadInv
    <3>3. PullInv'
      BY <3>0, <3>a, <3>b DEF PullInv
    <3>4. UploadInv'
      <4> SUFFICES ASSUME NEW w \in uploads, w # u PROVE
              /\ w.base # version + 1
              /\ \A m \in Machine : phase'[m] = "pushing" /\ cur[m] = w.id => w.work = local[m]
        BY <3>0, <3>a DEF UploadInv, Awaits
      <4>1. w.base # version + 1 BY <3>0 DEF StoreType, Upload
      <4>2. \A m \in Machine : phase'[m] = "pushing" => phase[m] = "pushing" BY <3>a
      <4> QED BY <4>1, <4>2 DEF UploadInv, Awaits
    <3>5. CurInv'
      BY <3>a DEF CurInv, Awaits
    <3>6. bundle'[0] = {}
      BY <3>0
    <3> QED BY <3>1, <3>2, <3>3, <3>4, <3>5, <3>6
  <2>2. CASE StaleUpload(u)
    BY <2>2, QuietStep DEF StaleUpload, Answer, Awaits, QuietPhases, Types, TypeOK
  <2>3. CASE DropUpload(u)
    BY <2>3, QuietStep DEF DropUpload, Answer, Awaits, QuietPhases, Types, TypeOK
  <2> QED BY <1>7, <2>1, <2>2, <2>3 DEF ServerStep
<1>8. ASSUME Tick PROVE HistoryInv'
  BY <1>8, QuietStep DEF Tick, QuietPhases
<1>10. ASSUME NEW m \in Machine, CloseAgain(m) PROVE HistoryInv'
  BY <1>10, QuietStep DEF CloseAgain, QuietPhases, Types, TypeOK
<1>9. CASE UNCHANGED vars
  BY <1>9, QuietStep DEF vars, QuietPhases
<1> QED
  BY <1>1, <1>2, <1>3, <1>4, <1>5, <1>6, <1>7, <1>8, <1>9, <1>10 DEF Next

\* A profile at version 0 has an empty line of versions.
LEMMA InitHistoryInv == Init => HistoryInv
  BY DEF Init, HistoryInv, LinearHistory, CurrentIsWhole, Based, PullInv, UploadInv, CurInv

\* A later version contains every session of an earlier one, with any number of
\* machines, forced locks, lost answers, power losses and failing small writes.
THEOREM OneLine == Spec => []HistoryInv
  <1>1. TypeOK /\ HistoryInv /\ [Next]_vars => HistoryInv'
    BY NextTypeOK, NextHistoryInv DEF Types
  <1> QED BY <1>1, TypeCorrect, InitHistoryInv, PTL DEF Spec

----------------------------------------------------------------------------
(* The versions refine the abstract history.                               *)

\* Every step of the project's machines and server is, seen through version
\* and bundle alone, the publication of one more version or nothing at all.
THEOREM Refinement == Spec => ImplementsBundleHistory
<1>1. Init => History!Init
  BY DEF Init, History!Init
<1>2. TypeOK /\ HistoryInv /\ [Next]_vars => [History!Publish]_<<version, bundle>>
  <2> SUFFICES ASSUME TypeOK, HistoryInv, [Next]_vars, ~UNCHANGED <<version, bundle>>
               PROVE  History!Publish
    OBVIOUS
  <2>1. PICK u \in uploads : CommitUpload(u)
    BY DEF Next, vars, Acquire, AcquireUnanswered, GrantRow, Beat, Renew, BeatLost, BeatMissed, LaunchStep, LaunchStarts, FetchNothing, FetchUnchanged, KeepLocal, Fetched, Unpack, SetAside, ClearAside, ForgetHeld, EndUnpack, RecordPull, OpenBrowser, LaunchFails, UnlockAfterFailure, StopStep, AskToClose, CloseBrowser, StartUpload, RefuseUpload, PushFails, ClearMarker, RecordPush, Mark, Release, ServerStep, StaleUpload, DropUpload, CloseAgain, DropRow, Crash, Tick
  <2> QED
    BY <2>1 DEF CommitUpload, History!Publish, HistoryInv, UploadInv, TypeOK, StoreType
<1> QED
  BY <1>1, <1>2, TypeCorrect, OneLine, PTL DEF Spec, ImplementsBundleHistory, History!Spec

----------------------------------------------------------------------------
(* The lock keeps browsers apart.                                          *)

\* No machine gets a lock, gives one up, or starts on a launch.
SameLease ==
    /\ UNCHANGED <<rowVars, runVars>>
    /\ \A m \in Machine :
          \/ phase'[m] = phase[m]
          \/ phase[m] \in Using /\ phase'[m] \in Using
          \/ phase[m] # "closed" /\ phase'[m] \in Stopping

\* The middle of a launch and of a stop (ipc.rs, between starting the heartbeat
\* and aborting it, and between aborting it and release_lock) touches no lease.
LEMMA LeaseFrame ==
    ASSUME Types, ExclusionInv, SameLease PROVE ExclusionInv'
<1> USE DEF Types, TypeOK, RunType, SameLease
<1>1. TokenInv' BY DEF ExclusionInv, TokenInv
<1>2. LeaseInv' BY DEF ExclusionInv, LeaseInv
<1> QED BY <1>1, <1>2 DEF ExclusionInv

\* Every step keeps the lease of a launch or browser covered by its heartbeat:
\* acquire_lock's WHERE admits nobody while the row is live, keep_alive renews it,
\* and a missed renewal costs one of the TTL's periods.
THEOREM NextExclusionInv ==
    ASSUME Forcers = {}, Impatient = {}, MaxMissed + 2 <= TTL, Types, ExclusionInv, [Next]_vars
    PROVE  ExclusionInv'
<1> USE SyncAssumption
<1>a. MaxMissed \in Nat /\ TTL \in Nat /\ \A m \in Machine : missed[m] \in 0..MaxMissed
  BY DEF Types, TypeOK, LockType
<1>1. ASSUME NEW m \in Machine, Acquire(m) PROVE ExclusionInv'
    <2>1. TokenInv'
      BY <1>1 DEF Acquire, MayTake, ExclusionInv, TokenInv, Types, TypeOK, LockType, RunType
    <2>2. LeaseInv'
      BY <1>1 DEF Acquire, GrantRow, MayTake, ExclusionInv, TokenInv, LeaseInv, Types, TypeOK, LockType
    <2> QED BY <2>1, <2>2 DEF ExclusionInv
<1>2. ASSUME NEW m \in Machine, AcquireUnanswered(m) PROVE ExclusionInv'
    <2>1. TokenInv'
      BY <1>2 DEF AcquireUnanswered, MayTake, ExclusionInv, TokenInv, Types, TypeOK
    <2>2. LeaseInv'
      BY <1>2, <1>a DEF AcquireUnanswered, MayTake, ExclusionInv, TokenInv, LeaseInv, Types, TypeOK
    <2> QED BY <2>1, <2>2 DEF ExclusionInv
<1>3. ASSUME NEW m \in Machine, Beat(m) PROVE ExclusionInv'
  <2>1. CASE Renew(m)
      <3>1. TokenInv'
        BY <1>3, <2>1 DEF Renew, Beat, ExclusionInv, TokenInv, Types, TypeOK
      <3>2. LeaseInv'
        BY <1>3, <2>1, <1>a DEF Renew, Beat, ExclusionInv, LeaseInv, Types, TypeOK
      <3> QED BY <3>1, <3>2 DEF ExclusionInv
  <2>2. CASE BeatLost(m)
      <3>1. TokenInv'
        BY <1>3, <2>2 DEF BeatLost, Beat, ExclusionInv, TokenInv, Types, TypeOK
      <3>2. LeaseInv'
        BY <1>3, <2>2 DEF BeatLost, Beat, ExclusionInv, LeaseInv, Types, TypeOK
      <3> QED BY <3>1, <3>2 DEF ExclusionInv
  <2>3. CASE BeatMissed(m)
      <3>1. TokenInv'
        BY <1>3, <2>3 DEF BeatMissed, Beat, ExclusionInv, TokenInv, Types, TypeOK
      <3>2. LeaseInv'
        BY <1>3, <2>3 DEF BeatMissed, Beat, ExclusionInv, LeaseInv, Types, TypeOK, LockType
      <3> QED BY <3>1, <3>2 DEF ExclusionInv
  <2> QED BY <1>3, <2>1, <2>2, <2>3 DEF Beat
<1>4. ASSUME NEW m \in Machine, LaunchStep(m) PROVE ExclusionInv'
  <2>1. CASE LaunchStarts(m)
      <3>1. TokenInv'
        BY <2>1 DEF LaunchStarts, ExclusionInv, TokenInv, Types, TypeOK
      <3>2. LeaseInv'
        BY <2>1 DEF LaunchStarts, ExclusionInv, LeaseInv, Types, TypeOK, LockType
      <3> QED BY <3>1, <3>2 DEF ExclusionInv
  <2>2. CASE FetchNothing(m)
    BY <2>2, LeaseFrame DEF FetchNothing, SameLease, Types, TypeOK
  <2>3. CASE FetchUnchanged(m)
    BY <2>3, LeaseFrame DEF FetchUnchanged, SameLease, Types, TypeOK
  <2>4. CASE KeepLocal(m)
    BY <2>4, LeaseFrame DEF KeepLocal, Fetched, SameLease, Types, TypeOK
  <2>5. CASE Unpack(m)
    BY <2>5, LeaseFrame DEF Unpack, Fetched, SameLease, Types, TypeOK
  <2>6. CASE SetAside(m)
    BY <2>6, LeaseFrame DEF SetAside, Fetched, SameLease, Types, TypeOK
  <2>7. CASE ClearAside(m)
    BY <2>7, LeaseFrame DEF ClearAside, SameLease, Types, TypeOK
  <2>8. CASE ForgetHeld(m)
    BY <2>8, LeaseFrame DEF ForgetHeld, SameLease, Types, TypeOK
  <2>9. CASE EndUnpack(m)
    BY <2>9, LeaseFrame DEF EndUnpack, SameLease, Types, TypeOK
  <2>10. CASE RecordPull(m)
    BY <2>10, LeaseFrame DEF RecordPull, SameLease, Types, TypeOK
  <2>11. CASE OpenBrowser(m)
    BY <2>11, LeaseFrame DEF OpenBrowser, SameLease, Types, TypeOK
  <2>12. CASE LaunchFails(m)
      <3>1. TokenInv'
        BY <2>12 DEF LaunchFails, ExclusionInv, TokenInv, Types, TypeOK
      <3>2. LeaseInv'
        BY <2>12 DEF LaunchFails, ExclusionInv, LeaseInv, Types, TypeOK, RunType
      <3> QED BY <3>1, <3>2 DEF ExclusionInv
  <2>13. CASE UnlockAfterFailure(m)
      <3>1. TokenInv'
        BY <2>13 DEF UnlockAfterFailure, ExclusionInv, TokenInv, Types, TypeOK, LockType, RunType
      <3>2. LeaseInv'
        BY <2>13 DEF UnlockAfterFailure, UnlockRow, DropRow, ExclusionInv, TokenInv, LeaseInv, Types, TypeOK
      <3> QED BY <3>1, <3>2 DEF ExclusionInv
  <2> QED BY <1>4, <2>1, <2>2, <2>3, <2>4, <2>5, <2>6, <2>7, <2>8, <2>9, <2>10, <2>11, <2>12, <2>13 DEF LaunchStep
<1>5. ASSUME NEW m \in Machine, StopStep(m) PROVE ExclusionInv'
  <2>1. CASE CloseBrowser(m)
      <3>1. TokenInv'
        BY <2>1 DEF CloseBrowser, ExclusionInv, TokenInv, Types, TypeOK
      <3>2. LeaseInv'
        BY <2>1 DEF CloseBrowser, ExclusionInv, LeaseInv, Types, TypeOK, RunType
      <3> QED BY <3>1, <3>2 DEF ExclusionInv
  <2>2. CASE StartUpload(m)
    BY <2>2, LeaseFrame DEF StartUpload, SameLease, Types, TypeOK
  <2>3. CASE RefuseUpload(m)
    BY <2>3, LeaseFrame DEF RefuseUpload, SameLease, Types, TypeOK
  <2>4. CASE PushFails(m)
    BY <2>4, LeaseFrame DEF PushFails, SameLease, Types, TypeOK
  <2>5. CASE ClearMarker(m)
    BY <2>5, LeaseFrame DEF ClearMarker, SameLease, Types, TypeOK
  <2>6. CASE RecordPush(m)
    BY <2>6, LeaseFrame DEF RecordPush, SameLease, Types, TypeOK
  <2>7. CASE Mark(m)
    BY <2>7, LeaseFrame DEF Mark, SameLease, Types, TypeOK
  <2>8. CASE Release(m)
      <3>1. TokenInv'
        BY <2>8 DEF Release, ExclusionInv, TokenInv, Types, TypeOK, LockType, RunType
      <3>2. LeaseInv'
        BY <2>8 DEF Release, UnlockRow, DropRow, ExclusionInv, TokenInv, LeaseInv, Types, TypeOK
      <3> QED BY <3>1, <3>2 DEF ExclusionInv
  <2>9. CASE AskToClose(m)
    BY <2>9, LeaseFrame DEF AskToClose, SameLease, Types, TypeOK
  <2> QED BY <1>5, <2>1, <2>2, <2>3, <2>4, <2>5, <2>6, <2>7, <2>8, <2>9 DEF StopStep
<1>6. ASSUME NEW m \in Machine, Crash(m) PROVE ExclusionInv'
    <2>1. TokenInv'
      BY <1>6 DEF Crash, ExclusionInv, TokenInv, Types, TypeOK, LockType, RunType
    <2>2. LeaseInv'
      BY <1>6 DEF Crash, ExclusionInv, LeaseInv, Types, TypeOK, RunType
    <2> QED BY <2>1, <2>2 DEF ExclusionInv
<1>7. ASSUME NEW u \in uploads, ServerStep(u) PROVE ExclusionInv'
  <2>1. CASE CommitUpload(u)
    BY <2>1, LeaseFrame DEF CommitUpload, Answer, Awaits, SameLease, Types, TypeOK
  <2>2. CASE StaleUpload(u)
    BY <2>2, LeaseFrame DEF StaleUpload, Answer, Awaits, SameLease, Types, TypeOK
  <2>3. CASE DropUpload(u)
    BY <2>3, LeaseFrame DEF DropUpload, Answer, Awaits, SameLease, Types, TypeOK
  <2> QED BY <1>7, <2>1, <2>2, <2>3 DEF ServerStep
<1>8. ASSUME Tick PROVE ExclusionInv'
    <2>1. TokenInv'
      BY <1>8 DEF Tick, ExclusionInv, TokenInv, Types, TypeOK
    <2>2. LeaseInv'
      BY <1>8 DEF Tick, ExclusionInv, LeaseInv, Types, TypeOK, LockType
    <2> QED BY <2>1, <2>2 DEF ExclusionInv
<1>10. ASSUME NEW m \in Machine, CloseAgain(m) PROVE ExclusionInv'
  BY <1>10 DEF CloseAgain
<1>9. CASE UNCHANGED vars
  BY <1>9, LeaseFrame DEF vars, SameLease
<1> QED
  BY <1>1, <1>2, <1>3, <1>4, <1>5, <1>6, <1>7, <1>8, <1>9, <1>10 DEF Next

\* Before the first acquire_lock no machine holds a token or runs a browser.
LEMMA InitExclusionInv == Init => ExclusionInv
  BY DEF Init, ExclusionInv, TokenInv, LeaseInv

\* With nobody forcing or closing twice, and at least two periods of every
\* lease spared from failing renewals, two machines never have the browser open at once: through
\* power losses, lost requests, slow pulls and slow uploads.
THEOREM Exclusion ==
    ASSUME Forcers = {}, Impatient = {}, MaxMissed + 2 <= TTL
    PROVE  Spec => []OneBrowser
<1>1. TypeOK /\ TypeOK' /\ ExclusionInv /\ [Next]_vars => ExclusionInv'
  BY NextExclusionInv DEF Types
<1>2. TypeOK /\ ExclusionInv => OneBrowser
  BY DEF ExclusionInv, TokenInv, LeaseInv, OneBrowser, BrowserUp
<1> QED
  BY <1>1, <1>2, TypeCorrect, InitExclusionInv, PTL DEF Spec

----------------------------------------------------------------------------
(* No session is lost while power and small writes hold.                   *)

\* A step that leaves every directory alone, and takes a machine only where
\* Unmarked says no more of it than before.
SameDirs ==
    /\ UNCHANGED <<version, bundle, local, held, marker, aside, sessions>>
    /\ \A m \in Machine :
          \/ phase'[m] = phase[m]
          \/ phase'[m] \in {"open", "closing", "packing", "pushing", "refused", "unsent"}
          \/ /\ phase[m] \in Launching \cup {"closed", "granted", "unlocking", "settled"}
             /\ phase'[m] \in Launching \cup {"closed", "granted", "unlocking", "settled"}
          \/ phase[m] \in {"sent", "unmarking"} /\ phase'[m] \in {"unmarking", "settled"}

\* Lock traffic, failures, and the steps of launch and stop that only move on
\* leave every session where it was.
LEMMA KeepFrame ==
    ASSUME Types, KeepInv, SameDirs PROVE KeepInv'
<1> USE DEF Types, TypeOK, RunType, SameDirs
<1>1. NoSessionLost' BY DEF KeepInv, NoSessionLost, Safe
<1>2. Unmarked' BY DEF KeepInv, Unmarked
<1> QED BY <1>1, <1>2 DEF KeepInv

\* Every step of pull and push keeps each session somewhere: unpack only goes
\* over a directory whose marker is clear, set_aside moves the directory rather
\* than emptying it, and a push that is not acknowledged leaves a marker.
THEOREM NextKeepInv ==
    ASSUME Crashable = {}, FlakyDisk = {}, Types, HistoryInv, KeepInv, [Next]_vars
    PROVE  KeepInv'
<1>1. ASSUME NEW m \in Machine, Acquire(m) PROVE KeepInv'
  BY <1>1, KeepFrame DEF Acquire, SameDirs, Types, TypeOK
<1>2. ASSUME NEW m \in Machine, AcquireUnanswered(m) PROVE KeepInv'
  BY <1>2, KeepFrame DEF AcquireUnanswered, SameDirs, Types, TypeOK
<1>3. ASSUME NEW m \in Machine, Beat(m) PROVE KeepInv'
  BY <1>3, KeepFrame DEF Beat, Renew, BeatLost, BeatMissed, SameDirs, Types, TypeOK
<1>4. ASSUME NEW m \in Machine, LaunchStep(m) PROVE KeepInv'
  <2>1. CASE LaunchStarts(m)
    BY <2>1, KeepFrame DEF LaunchStarts, SameDirs, Types, TypeOK
  <2>2. CASE FetchNothing(m)
    BY <2>2, KeepFrame DEF FetchNothing, SameDirs, Types, TypeOK
  <2>3. CASE FetchUnchanged(m)
    BY <2>3, KeepFrame DEF FetchUnchanged, SameDirs, Types, TypeOK
  <2>4. CASE KeepLocal(m)
    BY <2>4, KeepFrame DEF KeepLocal, Fetched, SameDirs, Types, TypeOK
  <2>5. CASE Unpack(m)
      <3>1. NoSessionLost'
        BY <2>5 DEF NoSessionLost, Unpack, Fetched, KeepInv, Safe, Unmarked, Types, TypeOK
      <3>2. Unmarked'
        BY <2>5 DEF Unmarked, Unpack, KeepInv, Types, TypeOK, DiskType
      <3> QED BY <3>1, <3>2 DEF KeepInv
  <2>6. CASE SetAside(m)
      <3>1. NoSessionLost'
        BY <2>6 DEF NoSessionLost, SetAside, KeepInv, Safe, Types, TypeOK, DiskType
      <3>2. Unmarked'
        BY <2>6 DEF Unmarked, SetAside, Fetched, KeepInv, Types, TypeOK
      <3> QED BY <3>1, <3>2 DEF KeepInv
  <2>7. CASE ClearAside(m)
      <3>1. NoSessionLost'
        BY <2>7 DEF NoSessionLost, ClearAside, KeepInv, Safe, Types, TypeOK
      <3>2. Unmarked'
        BY <2>7 DEF Unmarked, ClearAside, KeepInv, HistoryInv, PullInv, Types, TypeOK
      <3> QED BY <3>1, <3>2 DEF KeepInv
  <2>8. CASE ForgetHeld(m)
      <3>1. NoSessionLost'
        BY <2>8 DEF NoSessionLost, ForgetHeld, KeepInv, Safe, Types, TypeOK
      <3>2. Unmarked'
        BY <2>8 DEF Unmarked, ForgetHeld, KeepInv, Types, TypeOK
      <3> QED BY <3>1, <3>2 DEF KeepInv
  <2>9. CASE EndUnpack(m)
      <3>1. NoSessionLost'
        <4>1. UNCHANGED <<bundle, version, sessions, aside>> /\ \A k \in Machine : local[k] \subseteq local'[k]
          BY <2>9 DEF EndUnpack, HistoryInv, PullInv, Types, TypeOK
        <4> QED BY <4>1 DEF KeepInv, NoSessionLost, Safe
      <3>2. Unmarked'
        BY <2>9 DEF Unmarked, EndUnpack, KeepInv, HistoryInv, LinearHistory, Types, TypeOK, StoreType, RunType
      <3> QED BY <3>1, <3>2 DEF KeepInv
  <2>10. CASE RecordPull(m)
      <3>1. NoSessionLost'
        BY <2>10 DEF NoSessionLost, RecordPull, KeepInv, Safe, Types, TypeOK
      <3>2. Unmarked'
        BY <2>10 DEF Unmarked, RecordPull, KeepInv, Types, TypeOK
      <3> QED BY <3>1, <3>2 DEF KeepInv
  <2>11. CASE OpenBrowser(m)
      <3>1. NoSessionLost'
        BY <2>11 DEF NoSessionLost, OpenBrowser, KeepInv, Safe, Types, TypeOK, StoreType, DiskType
      <3>2. Unmarked'
        BY <2>11 DEF Unmarked, OpenBrowser, KeepInv, Types, TypeOK, RunType
      <3> QED BY <3>1, <3>2 DEF KeepInv
  <2>12. CASE LaunchFails(m)
    BY <2>12, KeepFrame DEF LaunchFails, SameDirs, Types, TypeOK
  <2>13. CASE UnlockAfterFailure(m)
    BY <2>13, KeepFrame DEF UnlockAfterFailure, SameDirs, Types, TypeOK
  <2> QED BY <1>4, <2>1, <2>2, <2>3, <2>4, <2>5, <2>6, <2>7, <2>8, <2>9, <2>10, <2>11, <2>12, <2>13 DEF LaunchStep
<1>5. ASSUME NEW m \in Machine, StopStep(m) PROVE KeepInv'
  <2>1. CASE CloseBrowser(m)
    BY <2>1, KeepFrame DEF CloseBrowser, SameDirs, Types, TypeOK
  <2>2. CASE StartUpload(m)
    BY <2>2, KeepFrame DEF StartUpload, SameDirs, Types, TypeOK
  <2>3. CASE RefuseUpload(m)
    BY <2>3, KeepFrame DEF RefuseUpload, SameDirs, Types, TypeOK
  <2>4. CASE PushFails(m)
    BY <2>4, KeepFrame DEF PushFails, SameDirs, Types, TypeOK
  <2>5. CASE ClearMarker(m)
      <3>1. NoSessionLost'
        BY <2>5 DEF NoSessionLost, ClearMarker, KeepInv, Safe, Types, TypeOK
      <3>2. Unmarked'
        BY <2>5 DEF Unmarked, ClearMarker, KeepInv, Types, TypeOK
      <3> QED BY <3>1, <3>2 DEF KeepInv
  <2>6. CASE RecordPush(m)
      <3>1. NoSessionLost'
        BY <2>6 DEF NoSessionLost, RecordPush, KeepInv, Safe, Types, TypeOK
      <3>2. Unmarked'
        BY <2>6 DEF Unmarked, RecordPush, KeepInv, Types, TypeOK
      <3> QED BY <3>1, <3>2 DEF KeepInv
  <2>7. CASE Mark(m)
      <3>1. NoSessionLost'
        BY <2>7 DEF NoSessionLost, Mark, KeepInv, Safe, Types, TypeOK
      <3>2. Unmarked'
        BY <2>7 DEF Unmarked, Mark, Recorded, KeepInv, Types, TypeOK, RunType, DiskType
      <3> QED BY <3>1, <3>2 DEF KeepInv
  <2>8. CASE Release(m)
    BY <2>8, KeepFrame DEF Release, SameDirs, Types, TypeOK
  <2>9. CASE AskToClose(m)
    BY <2>9, KeepFrame DEF AskToClose, SameDirs, Types, TypeOK
  <2> QED BY <1>5, <2>1, <2>2, <2>3, <2>4, <2>5, <2>6, <2>7, <2>8, <2>9 DEF StopStep
<1>6. ASSUME NEW m \in Machine, Crash(m) PROVE KeepInv'
  BY <1>6 DEF Crash
<1>7. ASSUME NEW u \in uploads, ServerStep(u) PROVE KeepInv'
  <2>1. CASE CommitUpload(u)
      <3>1. NoSessionLost'
        <4>1. /\ version' = version + 1 /\ u.base = version /\ u \in Upload
              /\ bundle'[version + 1] = u.work
              /\ UNCHANGED <<sessions, local, aside>>
          BY <2>1 DEF CommitUpload, Types, TypeOK, StoreType
        <4>2. bundle[version] \subseteq bundle'[version']
          BY <4>1 DEF HistoryInv, UploadInv
        <4> QED BY <4>1, <4>2 DEF KeepInv, NoSessionLost, Safe
      <3>2. Unmarked'
        BY <2>1 DEF Unmarked, CommitUpload, Answer, KeepInv, HistoryInv, UploadInv, Types, TypeOK, StoreType
      <3> QED BY <3>1, <3>2 DEF KeepInv
  <2>2. CASE StaleUpload(u)
    BY <2>2, KeepFrame DEF StaleUpload, Answer, SameDirs, Types, TypeOK
  <2>3. CASE DropUpload(u)
    BY <2>3, KeepFrame DEF DropUpload, Answer, SameDirs, Types, TypeOK
  <2> QED BY <1>7, <2>1, <2>2, <2>3 DEF ServerStep
<1>8. ASSUME Tick PROVE KeepInv'
  BY <1>8, KeepFrame DEF Tick, SameDirs, Types, TypeOK
<1>10. ASSUME NEW m \in Machine, CloseAgain(m) PROVE KeepInv'
  BY <1>10, KeepFrame DEF CloseAgain, SameDirs, Types, TypeOK
<1>9. CASE UNCHANGED vars
  BY <1>9, KeepFrame DEF vars, SameDirs
<1> QED
  BY <1>1, <1>2, <1>3, <1>4, <1>5, <1>6, <1>7, <1>8, <1>9, <1>10 DEF Next

\* Before the first browser there is no session to lose and no marker.
LEMMA InitKeepInv == Init => KeepInv
  BY DEF Init, KeepInv, NoSessionLost, Unmarked

\* While no machine loses power and the small files can be written, every
\* session ever opened is in the server's current version or in a directory of
\* some machine: through refused, broken and unanswered uploads, and forces.
THEOREM NothingLost ==
    ASSUME Crashable = {}, FlakyDisk = {}
    PROVE  Spec => []NoSessionLost
<1>1. TypeOK /\ TypeOK' /\ HistoryInv /\ KeepInv /\ [Next]_vars => KeepInv'
  BY NextKeepInv DEF Types
<1>2. KeepInv => NoSessionLost
  BY DEF KeepInv
<1> QED
  BY <1>1, <1>2, TypeCorrect, OneLine, InitKeepInv, PTL DEF Spec

============================================================================
