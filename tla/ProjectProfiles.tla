--------------------------- MODULE ProjectProfiles ---------------------------
(* An organisation's projects and the profiles in them: made, copied,       *)
(* moved, thrown away, brought back and destroyed (server/src/api.rs        *)
(* create_profile, clone_profile, ensure_room_for_profiles, edit_profile,   *)
(* delete_profile, move_profiles, restore_profile, purge_profile,           *)
(* create_project, delete_project).                                         *)
(*                                                                          *)
(* Who may is Access's, and whether a profile is open ProfileSync's: a      *)
(* request refused for either takes no step here.  Only delete_project and  *)
(* move_profiles run in a transaction.  Every other handler checks in one   *)
(* statement and writes in another, and a clone writes once for each copy.  *)
(* Rows are counted, by project and by whether they are in the trash.       *)
EXTENDS Naturals, FiniteSets

CONSTANTS MaxRows,       \* bound: rows at once
          Projects,      \* bound: projects ever made
          Workers,       \* bound: handlers under way at once
          MaxProfiles,   \* FURY_MAX_PROFILES_PER_ORG
          CloneMax,      \* copies one request may ask for (500 in the code)
          MaxRestores    \* bound: profiles brought back

ASSUME ProfilesAssumption ==
  {MaxRows, Projects, Workers, MaxProfiles, CloneMax, MaxRestores} \subseteq Nat \ {0}

VARIABLES
  project,    \* "none", "live" or "deleted"
  live,       \* how many of each project's profiles are listed
  trash,      \* and how many are in the trash
  jobs,       \* what each handler between its checks and its last write does
  restored    \* history: profiles brought back from the trash

profilesVars == <<project, live, trash, jobs, restored>>

Project == 1 .. Projects
Worker == 1 .. Workers
NoJob == [what |-> "none", in |-> 1, left |-> 0]
Job == [what : {"insert", "restore"}, in : Project, left : 1 .. CloneMax]

ProfilesInit ==
  /\ project = [j \in Project |-> "none"]
  /\ live = [j \in Project |-> 0] /\ trash = [j \in Project |-> 0]
  /\ jobs = [w \in Worker |-> NoJob]
  /\ restored = 0

(* The sum of counts up to some bound: a pair for every row counted. *)
Total(count, most) ==
  Cardinality({x \in (DOMAIN count) \X (1 .. most) : x[2] <= count[x[1]]})
SumOf(count) == Total(count, MaxRows)
Reached(j) == project[j] = "live"

RoomWhileNotFull(wanted) == SumOf(live) <= MaxProfiles  \* mutant
Room(wanted) == SumOf(live) + wanted <= MaxProfiles

Starts(w, job) ==
  /\ jobs[w] = NoJob /\ jobs' = [jobs EXCEPT ![w] = job]
  /\ UNCHANGED <<project, live, trash, restored>>
Ends(w) == jobs' = [jobs EXCEPT ![w] = NoJob]

-----------------------------------------------------------------------------
CreatesProject(j) ==
  /\ project[j] = "none" /\ \A i \in 1 .. j - 1 : project[i] # "none"
  /\ project' = [project EXCEPT ![j] = "live"]
  /\ UNCHANGED <<live, trash, jobs, restored>>

(* With its profiles. *)
DeletesProject(j) ==
  /\ project[j] = "live"
  /\ project' = [project EXCEPT ![j] = "deleted"]
  /\ live' = [live EXCEPT ![j] = 0] /\ trash' = [trash EXCEPT ![j] = @ + live[j]]
  /\ UNCHANGED <<jobs, restored>>

AsksCreate(w, j) ==
  /\ Reached(j) /\ Room(1)
  /\ Starts(w, [what |-> "insert", in |-> j, left |-> 1])

(* The ceiling is asked for all the copies before the source is read. *)
AsksClone(w, j, n) ==
  /\ live[j] > 0 /\ Reached(j) /\ Room(n)
  /\ Starts(w, [what |-> "insert", in |-> j, left |-> n])

(* One row at a time, into a project deleted since as well. *)
Inserts(w) ==
  LET j == jobs[w].in IN
  /\ jobs[w].what = "insert" /\ SumOf(live) + SumOf(trash) < MaxRows
  /\ live' = [live EXCEPT ![j] = @ + 1]
  /\ IF jobs[w].left > 1
     THEN jobs' = [jobs EXCEPT ![w].left = @ - 1]
     ELSE Ends(w)
  /\ UNCHANGED <<project, trash, restored>>

(* A copy that cannot be written leaves the ones before it. *)
InsertFails(w) ==
  /\ jobs[w].what = "insert" /\ Ends(w)
  /\ UNCHANGED <<project, live, trash, restored>>

-----------------------------------------------------------------------------
(* The trash. *)
(* The write asks again for what it changes, so check and write are one. *)
Deletes(j) ==
  /\ live[j] > 0 /\ Reached(j)
  /\ live' = [live EXCEPT ![j] = @ - 1] /\ trash' = [trash EXCEPT ![j] = @ + 1]
  /\ UNCHANGED <<project, jobs, restored>>

(* Neither the ceiling nor the row's state is asked here. *)
AsksRestore(w, j) ==
  /\ live[j] + trash[j] > 0 /\ Reached(j)
  /\ Starts(w, [what |-> "restore", in |-> j, left |-> 1])

(* The row may be out of the trash by now, or gone, or in a project deleted *)
(* since; one that is still in the trash is listed again.                   *)
Restores(w) ==
  /\ jobs[w].what = "restore" /\ Ends(w)
  /\ \/ UNCHANGED <<live, trash, restored>>
     \/ \E j \in Project :
          /\ trash[j] > 0 /\ restored < MaxRestores
          /\ trash' = [trash EXCEPT ![j] = @ - 1] /\ live' = [live EXCEPT ![j] = @ + 1]
          /\ restored' = restored + 1
  /\ UNCHANGED project

(* Its bundles are BundleStore's; the row goes only if it is in the trash.  *)
Purges(j) ==
  /\ trash[j] > 0 /\ Reached(j)
  /\ trash' = [trash EXCEPT ![j] = @ - 1]
  /\ UNCHANGED <<project, live, jobs, restored>>

(* One that may not be moved, or is in the trash, stops the whole move. *)
Moves(n, i, j) ==
  /\ Reached(i) /\ Reached(j) /\ i # j /\ n <= live[i]
  /\ live' = [live EXCEPT ![i] = @ - n, ![j] = @ + n]
  /\ UNCHANGED <<project, trash, jobs, restored>>

ProfilesNext ==
  \/ \E j \in Project : CreatesProject(j) \/ DeletesProject(j)
  \/ \E w \in Worker, j \in Project : AsksCreate(w, j) \/ AsksRestore(w, j)
  \/ \E w \in Worker, j \in Project, n \in 1 .. CloneMax : AsksClone(w, j, n)
  \/ \E w \in Worker : Inserts(w) \/ InsertFails(w) \/ Restores(w)
  \/ \E j \in Project : Deletes(j) \/ Purges(j)
  \/ \E n \in 1 .. MaxRows, i, j \in Project : Moves(n, i, j)

ProfilesSpec == ProfilesInit /\ [][ProfilesNext]_profilesVars

-----------------------------------------------------------------------------
ProfilesTypeOK ==
  /\ project \in [Project -> {"none", "live", "deleted"}]
  /\ {live, trash} \subseteq [Project -> 0 .. MaxRows]
  /\ jobs \in [Worker -> Job \cup {NoJob}]
  /\ restored \in 0 .. MaxRestores

(* The ceiling on profiles gives way to two things only: handlers that      *)
(* counted before one another wrote, each by what one request may ask for,  *)
(* and what came back from the trash, where nobody counts (api.rs           *)
(* 2545-2585, 3176-3215).  A clone is counted whole.                        *)
RoomKept ==
  SumOf(live) <= MaxProfiles + restored + (Workers - 1) * CloneMax
=============================================================================
