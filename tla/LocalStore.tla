----------------------------- MODULE LocalStore -----------------------------
(* The machine's own database and the key that seals what is secret in it   *)
(* (agent/src/store.rs, vault.rs, transfer.rs and the handlers of ipc.rs    *)
(* that only read and write it).                                            *)
(*                                                                          *)
(* A statement of SQLite is one step.  What the window shows may be old     *)
(* when it is sent back: a proxy's form, and the identifiers it lists.      *)
(* Names, notes, tags and the rest that nothing here looks at are left out. *)
EXTENDS Naturals, FiniteSets

CONSTANTS Rows,        \* bound: profile rows
          Folder,      \* projects
          Exit,        \* proxies; of all three, a number nothing names is reused
          MaxSeeds,    \* bound: seeds drawn, none of them twice
          MaxBusy      \* bound: browsers, reseeds, forms and files at one time

NoFolder == "no project"
NoExit == "no proxy"
Away == "another machine's"     \* a proxy's id that no row here has

ASSUME StoreAssumption ==
  /\ {Rows, MaxSeeds, MaxBusy} \subseteq Nat \ {0}
  /\ NoFolder \notin Folder /\ {NoExit, Away} \cap Exit = {}

VARIABLES
  vault,     \* Vault::key, once it was read: "have" or "failed"
  folder,    \* projects: "none", "live" or "deleted"
  exit,      \* proxies: the row, and how its password is stored
  row,       \* profiles
  launched,    \* browsers: profiles launching or open
  shown,     \* the proxy form in the window, and the password in it
  reseeding, \* reseeds past their look at the running map
  file,      \* the profiles of an exported project
  brought,   \* history: seeds that an import gave to a row
  seeds      \* seeds drawn so far

localVars == <<vault, folder, exit, row, launched, shown, reseeding, file,
               brought, seeds>>

Saved == 1 .. Rows
Seed == 0 .. MaxSeeds
NoSaved == [at |-> "none", in |-> NoFolder, seed |-> 0, via |-> NoExit]
Unused(j) == folder[j] # "live" /\ \A f \in Saved : row[f].in # j
Unrouted(x) ==
  /\ exit[x].at # "live" /\ shown.of # x
  /\ (\A f \in Saved : row[f].via # x) /\ (\A e \in file : e.via # x)
Quiet ==
  Cardinality(launched) + Cardinality(reseeding) + Cardinality(file)
    + (IF shown.of = NoExit THEN 0 ELSE 1) < MaxBusy
NoForm == [of |-> NoExit, has |-> FALSE]

LocalInit ==
  /\ vault \in {"have", "failed"}
  /\ folder = [j \in Folder |-> "none"]
  /\ exit = [x \in Exit |-> [at |-> "none", secret |-> "none"]]
  /\ row = [f \in Saved |-> NoSaved]
  /\ launched = {}
  /\ shown = NoForm /\ reseeding = {} /\ file = {} /\ brought = {} /\ seeds = 0

Listed(f) == row[f].at = "live"
Binned(f) == row[f].at = "trash"
(* The LEFT JOIN of every read: a deleted proxy is no proxy. *)
Via(f) == IF row[f].via \in Exit /\ exit[row[f].via].at = "live"
          THEN row[f].via ELSE NoExit

-----------------------------------------------------------------------------
(* The vault. *)

Retries(answer) ==
  /\ vault = "failed" /\ vault' = answer
  /\ UNCHANGED <<folder, exit, row, launched, shown, reseeding, file, brought, seeds>>

(* The agent goes and comes back, and its requests and browsers with it.    *)
(* The keychain is asked once, whoever needs the key waits for the answer,  *)
(* and it is kept.                                                          *)
ReopensStore(answer) ==
  /\ vault' = answer /\ reseeding' = {}
  /\ launched' = {}
  /\ UNCHANGED <<folder, exit, row, shown, file, brought, seeds>>

Sealed == IF vault = "have" THEN "sealed" ELSE "plain"
CanOpen(secret) == secret # "sealed" \/ vault = "have"

(* upsert_proxy: a secret that does not open is kept when nothing was typed.*)
KeptAnyway(typed, old) == IF typed THEN Sealed ELSE "none"   \* mutant
Kept(typed, old) ==
  CASE typed                    -> Sealed
    [] ~ typed /\ ~ CanOpen(old) -> old
    [] OTHER                    -> "none"

-----------------------------------------------------------------------------
(* Proxies. *)

AddsProxy(x, typed) ==
  /\ Unrouted(x)
  /\ exit' = [exit EXCEPT ![x] = [at |-> "live", secret |-> IF typed THEN Sealed ELSE "none"]]
  /\ UNCHANGED <<vault, folder, row, launched, shown, reseeding, file, brought, seeds>>

ShowsProxy(x) ==
  /\ exit[x].at = "live" /\ Quiet
  /\ shown' = [of |-> x, has |-> exit[x].secret # "none" /\ CanOpen(exit[x].secret)]
  /\ UNCHANGED <<vault, folder, exit, row, launched, reseeding, file, brought, seeds>>

(* What the form showed, or something typed over it, or nothing; the row is *)
(* undeleted with it.                                                       *)
SavesProxy(typed) ==
  LET x == shown.of IN
  /\ x # NoExit
  /\ exit' = [exit EXCEPT ![x] = [at |-> "live", secret |-> Kept(typed \/ shown.has, @.secret)]]
  /\ shown' = NoForm
  /\ UNCHANGED <<vault, folder, row, launched, reseeding, file, brought, seeds>>

DeletesProxy(x) ==
  /\ exit[x].at = "live" /\ exit' = [exit EXCEPT ![x].at = "deleted"]
  /\ UNCHANGED <<vault, folder, row, launched, shown, reseeding, file, brought, seeds>>

-----------------------------------------------------------------------------
(* Projects. *)

CreatesFolder(j) ==
  /\ Unused(j) /\ folder' = [folder EXCEPT ![j] = "live"]
  /\ UNCHANGED <<vault, exit, row, launched, shown, reseeding, file, brought, seeds>>

(* Its profiles stay, in no project; those in the trash keep its number.    *)
DeletesFolder(j) ==
  /\ folder[j] = "live" /\ folder' = [folder EXCEPT ![j] = "deleted"]
  /\ row' = [f \in Saved |-> IF Listed(f) /\ row[f].in = j
                             THEN [row[f] EXCEPT !.in = NoFolder] ELSE row[f]]
  /\ UNCHANGED <<vault, exit, launched, shown, reseeding, file, brought, seeds>>

(* A project named by the window may have been deleted since: its row is    *)
(* still there for the foreign key.                                         *)
Named == {NoFolder} \cup {j \in Folder : folder[j] # "none"}
Routed == {NoExit} \cup {x \in Exit : exit[x].at # "none"}

MovesRows(fs, j) ==
  /\ j \in Named /\ fs # {} /\ \A f \in fs : row[f].in # j
  /\ row' = [f \in Saved |-> IF f \in fs /\ Listed(f) THEN [row[f] EXCEPT !.in = j]
                             ELSE row[f]]
  /\ UNCHANGED <<vault, folder, exit, launched, shown, reseeding, file, brought, seeds>>

-----------------------------------------------------------------------------
(* Profiles. *)

FreeRow(f) == row[f] = NoSaved /\ \A g \in 1 .. f - 1 : row[g] # NoSaved

AddsRow(f, j, x) ==
  /\ FreeRow(f) /\ j \in Named /\ x \in Routed
  /\ seeds < MaxSeeds /\ seeds' = seeds + 1
  /\ row' = [row EXCEPT ![f] = [at |-> "live", in |-> j, seed |-> seeds + 1, via |-> x]]
  /\ UNCHANGED <<vault, folder, exit, launched, shown, reseeding, file, brought>>

(* The dialog writes back what it read, whatever became of the row since:   *)
(* out of the trash with it, and the seed never touched.                    *)
EditsRow(f, j, x) ==
  /\ row[f].at # "none" /\ j \in Named /\ x \in Routed
  /\ row' = [row EXCEPT ![f] = [@ EXCEPT !.at = "live", !.in = j, !.via = x]]
  /\ row' # row
  /\ UNCHANGED <<vault, folder, exit, launched, shown, reseeding, file, brought, seeds>>

CopyOf(f) == [row[f] EXCEPT !.via = Via(f)]      \* mutant: the seed goes along
CloneOf(f) == [row[f] EXCEPT !.via = Via(f), !.seed = seeds + 1]

ClonesRow(f, g) ==
  /\ Listed(f) /\ FreeRow(g) /\ seeds < MaxSeeds
  /\ seeds' = seeds + 1 /\ row' = [row EXCEPT ![g] = CloneOf(f)]
  /\ UNCHANGED <<vault, folder, exit, launched, shown, reseeding, file, brought>>

(* Refused while the browser is open; the launch of it is in no map yet.    *)
AsksReseed(f) ==
  /\ f \notin launched \cup reseeding /\ Quiet
  /\ reseeding' = reseeding \cup {f}
  /\ UNCHANGED <<vault, folder, exit, row, launched, shown, file, brought, seeds>>

Reseeds(f) ==
  /\ f \in reseeding /\ reseeding' = reseeding \ {f} /\ seeds < MaxSeeds
  /\ IF Listed(f)
     THEN seeds' = seeds + 1 /\ row' = [row EXCEPT ![f].seed = seeds + 1]
     ELSE UNCHANGED <<row, seeds>>
  /\ UNCHANGED <<vault, folder, exit, launched, shown, file, brought>>

Bins(f) ==
  /\ Listed(f) /\ row' = [row EXCEPT ![f].at = "trash"]
  /\ UNCHANGED <<vault, folder, exit, launched, shown, reseeding, file, brought, seeds>>

Unbins(f) ==
  /\ Binned(f)
  /\ row' = [row EXCEPT ![f].at = "live",
       ![f].in = IF row[f].in \in Folder /\ folder[row[f].in] = "live"
                 THEN row[f].in ELSE NoFolder]
  /\ UNCHANGED <<vault, folder, exit, launched, shown, reseeding, file, brought, seeds>>

(* purge_profile: the row if it is in the trash.  The directory of whatever *)
(* profile is named goes first, which nothing below looks at.               *)
PurgesSaved(f) ==
  /\ Binned(f) /\ row' = [row EXCEPT ![f] = NoSaved]
  /\ f \notin launched \cup reseeding    \* so that the number may be reused
  /\ UNCHANGED <<vault, folder, exit, launched, shown, reseeding, file, brought, seeds>>

OpensRow(f) ==
  /\ Listed(f) /\ f \notin launched /\ Quiet
  /\ launched' = launched \cup {f}
  /\ UNCHANGED <<vault, folder, exit, row, shown, reseeding, file, brought, seeds>>

ClosesRow(f) ==
  /\ f \in launched /\ launched' = launched \ {f}
  /\ UNCHANGED <<vault, folder, exit, row, shown, reseeding, file, brought, seeds>>

-----------------------------------------------------------------------------
(* A project in a file. *)

Entry(f) == [seed |-> row[f].seed, via |-> Via(f)]

Exports(j) ==
  LET inside == {f \in Saved : Listed(f) /\ row[f].in = j} IN
  /\ folder[j] = "live" /\ inside # {} /\ file = {} /\ Quiet
  /\ inside \cap launched = {}
  /\ file' = {Entry(f) : f \in inside}
  /\ UNCHANGED <<vault, folder, exit, row, launched, shown, reseeding, brought, seeds>>

(* The same, made on another machine. *)
Receives ==
  /\ file = {} /\ Quiet /\ seeds < MaxSeeds /\ seeds' = seeds + 1
  /\ file' = {[seed |-> seeds + 1, via |-> Away]}
  /\ UNCHANGED <<vault, folder, exit, row, launched, shown, reseeding, brought>>

(* import_project, for a file of one profile: a new project, a proxy of its *)
(* own, and a row that names the proxy's old number: proxy_id is not        *)
(* remapped, proxy is, and the first of them is the one written.  Where no  *)
(* row has that number the insert fails, and what was made before it stays. *)
WrittenVia(e, x) == e.via
Imports(j, f, x) ==
  \E e \in file :
    /\ file = {e}
    /\ Unused(j) /\ FreeRow(f)
    /\ IF e.via = NoExit THEN x = NoExit ELSE x \in {y \in Exit : Unrouted(y)}
    /\ folder' = [folder EXCEPT ![j] = "live"]
    /\ exit' = [y \in Exit |-> IF y = x THEN [at |-> "live", secret |-> Sealed] ELSE exit[y]]
    /\ IF WrittenVia(e, x) = Away
       THEN UNCHANGED <<row, brought>>
       ELSE /\ row' = [row EXCEPT ![f] = [at |-> "live", in |-> j, seed |-> e.seed,
                                          via |-> WrittenVia(e, x)]]
            /\ brought' = brought \cup {e.seed}
    /\ file' = {}
    /\ UNCHANGED <<vault, launched, shown, reseeding, seeds>>

LocalNext ==
  \/ \E answer \in {"have", "failed"} : ReopensStore(answer) \/ Retries(answer)
  \/ \E x \in Exit, typed \in BOOLEAN : AddsProxy(x, typed)
  \/ \E x \in Exit : ShowsProxy(x) \/ DeletesProxy(x)
  \/ \E typed \in BOOLEAN : SavesProxy(typed)
  \/ \E j \in Folder : CreatesFolder(j) \/ DeletesFolder(j) \/ Exports(j)
  \/ \E fs \in SUBSET Saved, j \in Folder \cup {NoFolder} : MovesRows(fs, j)
  \/ \E f \in Saved, j \in Folder \cup {NoFolder}, x \in Exit \cup {NoExit} :
       AddsRow(f, j, x) \/ EditsRow(f, j, x)
  \/ \E f, g \in Saved : ClonesRow(f, g)
  \/ \E f \in Saved : AsksReseed(f) \/ Reseeds(f) \/ Bins(f) \/ Unbins(f)
  \/ \E f \in Saved : PurgesSaved(f) \/ OpensRow(f) \/ ClosesRow(f)
  \/ Receives
  \/ \E j \in Folder, f \in Saved, x \in Exit \cup {NoExit} : Imports(j, f, x)

LocalSpec == LocalInit /\ [][LocalNext]_localVars

-----------------------------------------------------------------------------
LocalTypeOK ==
  /\ vault \in {"have", "failed"}
  /\ folder \in [Folder -> {"none", "live", "deleted"}]
  /\ exit \in [Exit -> [at : {"none", "live", "deleted"},
                        secret : {"none", "plain", "sealed"}]]
  /\ row \in [Saved -> [at : {"none", "live", "trash"}, in : Folder \cup {NoFolder},
                        seed : Seed, via : Exit \cup {NoExit}]]
  /\ reseeding \cup launched \subseteq Saved
  /\ shown \in [of : Exit \cup {NoExit}, has : BOOLEAN]
  /\ brought \subseteq Seed /\ seeds \in Seed

(* Two profiles never have one seed, made, copied, edited, reseeded, thrown *)
(* away and brought back as they may be, but for a seed that an import gave *)
(* to a row (ipc.rs 1720-1727 "the whole safety property", 1793-1801).      *)
SeedsApart ==
  \A f, g \in Saved : f # g /\ row[f].seed # 0 /\ row[f].seed = row[g].seed
    => row[f].seed \in brought

(* While the keychain does not answer, no sealed password is lost: saving a *)
(* form that could not show it leaves it, or what was typed over it         *)
(* (store.rs 587-612, vault.rs 154-159).                                    *)
SecretsKept ==
  [][\A x \in Exit : (vault = "failed" /\ exit[x].secret = "sealed" /\ ~ Unrouted(x))
       => exit'[x].secret # "none"]_localVars

(* A profile that came with its proxy in a file goes out through the proxy  *)
(* that came with it (transfer.rs 209-211, 409-411).                        *)
ImportedVia ==
  [][\A f \in Saved, x \in Exit :
       (row[f].at = "none" /\ row'[f].at = "live" /\ exit[x].at = "none"
          /\ exit'[x].at = "live") => row'[f].via = x]_localVars
=============================================================================
