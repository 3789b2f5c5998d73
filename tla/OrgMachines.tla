---------------------------- MODULE OrgMachines ----------------------------
(* The machines an organisation captured (org_personas) and the profiles    *)
(* that are on them: server/src/api.rs org_catalogue to delete_org_persona, *)
(* create_profile, clone_profile, the trash and launch_spec.                *)
(*                                                                          *)
(* No handler here runs in a transaction: a request is parked between the   *)
(* last statement that checks and the one that writes.                      *)
EXTENDS Naturals, FiniteSets

CONSTANTS Author,     \* members who may create profiles somewhere
          Boss,       \* the one of them who is owner or admin
          Captured,   \* ids of machines the organisation may add
          Seat        \* profile rows

Stock == "stock"      \* a machine of the built-in catalogue
Unknown == "nobody"

ASSUME MachinesAssumption ==
  Boss \in Author /\ Unknown \notin Author /\ Stock \notin Captured

VARIABLES
  captured,   \* org_personas: machine -> created_by, Unknown without a row
  seat,       \* profiles: deleted_at, persona_id
  awaits,     \* requests between check and write
  loose       \* history: profiles in the trash, or on their way in, when
              \* their machine was removed

machineVars == <<captured, seat, awaits, loose>>

Undecided == [what |-> "none", of |-> "none", machine |-> Stock]

MachinesInit ==
  /\ captured = [k \in Captured |-> Unknown]
  /\ seat = [f \in Seat |-> [at |-> "none", on |-> Stock]]
  /\ awaits = [p \in Author |-> Undecided] /\ loose = {}

(* org_catalogue: the built-in machines and the organisation's. *)
Catalogue == {Stock} \cup {k \in Captured : captured[k] # Unknown}

MayReplace(p, k) == captured[k] = p \/ p = Boss

(* The row is there to be made by one request, which alone knows its id. *)
Fresh(f) == seat[f].at = "none" /\ \A p \in Author : awaits[p].of # f

Defers(p, what, f, k) ==
  /\ awaits[p] = Undecided
  /\ awaits' = [awaits EXCEPT ![p] = [what |-> what, of |-> f, machine |-> k]]
Writes(p, what) ==
  /\ awaits[p].what = what /\ awaits' = [awaits EXCEPT ![p] = Undecided]

-----------------------------------------------------------------------------
(* Machines. *)

(* add_org_persona: somebody else's is replaced by its author or the boss.  *)
AsksMachine(p, k) ==
  /\ captured[k] = Unknown \/ MayReplace(p, k)
  /\ Defers(p, "capture", "none", k)
  /\ UNCHANGED <<captured, seat, loose>>

AddsMachine(p) ==
  /\ Writes(p, "capture")
  /\ captured' = [captured EXCEPT ![awaits[p].machine] = IF @ = Unknown THEN p ELSE @]
  /\ UNCHANGED <<seat, loose>>

(* delete_org_persona: refused while a live profile is on it. *)
NeverUsed(k) == FALSE
Used(k) == \E f \in Seat : seat[f] = [at |-> "live", on |-> k]
AsksDeletion(p, k) ==
  /\ captured[k] # Unknown /\ MayReplace(p, k) /\ ~ Used(k)
  /\ Defers(p, "remove", "none", k)
  /\ UNCHANGED <<captured, seat, loose>>

(* What the count does not see: the trash, a request that has looked the    *)
(* machine or a profile on it up, and a row that goes live before the       *)
(* removal writes.                                                          *)
Unseen(k) ==
  {f \in Seat : \/ seat[f] = [at |-> "trash", on |-> k]
                \/ \E p \in Author : awaits[p].of = f /\ awaits[p].machine = k}
Going(k) == \E p \in Author : awaits[p].what = "remove" /\ awaits[p].machine = k
Late(f, k) == IF Going(k) THEN loose \cup {f} ELSE loose

RemovesMachine(p) ==
  LET k == awaits[p].machine IN
  /\ Writes(p, "remove")
  /\ captured' = [captured EXCEPT ![k] = Unknown]
  /\ loose' = loose \cup Unseen(k)
  /\ UNCHANGED seat

-----------------------------------------------------------------------------
(* Profiles. *)

(* create_profile: only a machine of the catalogue. *)
AsksSeat(p, f, k) ==
  /\ Fresh(f) /\ k \in Catalogue
  /\ Defers(p, "create", f, k)
  /\ UNCHANGED <<captured, seat, loose>>

(* clone_profile: the machine of the profile it copies, not looked up.      *)
AsksCopy(p, f, g) ==
  /\ Fresh(f) /\ seat[g].at = "live"
  /\ Defers(p, "create", f, seat[g].on)
  /\ loose' = IF g \in loose THEN loose \cup {f} ELSE loose
  /\ UNCHANGED <<captured, seat>>

AddsSeat(p) ==
  LET q == awaits[p] IN
  /\ Writes(p, "create")
  /\ seat' = [seat EXCEPT ![q.of] = [at |-> "live", on |-> q.machine]]
  /\ loose' = Late(q.of, q.machine)
  /\ UNCHANGED captured

(* delete_profile, restore_profile and purge_profile look at no machine.    *)
MovesSeat(f, from, to) ==
  /\ seat[f].at = from
  /\ seat' = [seat EXCEPT ![f].at = to]
  /\ loose' = IF to = "none" THEN loose \ {f} ELSE Late(f, seat[f].on)
  /\ UNCHANGED <<captured, awaits>>

MachinesNext ==
  \/ \E p \in Author, k \in Captured : AsksMachine(p, k) \/ AsksDeletion(p, k)
  \/ \E p \in Author : AddsMachine(p) \/ RemovesMachine(p) \/ AddsSeat(p)
  \/ \E p \in Author, f \in Seat, k \in Captured \cup {Stock} : AsksSeat(p, f, k)
  \/ \E p \in Author, f, g \in Seat : AsksCopy(p, f, g)
  \/ \E f \in Seat : MovesSeat(f, "live", "trash") \/ MovesSeat(f, "trash", "live")
                       \/ MovesSeat(f, "trash", "none")

MachinesSpec == MachinesInit /\ [][MachinesNext]_machineVars

-----------------------------------------------------------------------------
MachinesTypeOK ==
  /\ captured \in [Captured -> Author \cup {Unknown}]
  /\ seat \in [Seat -> [at : {"none", "live", "trash"}, on : Captured \cup {Stock}]]
  /\ awaits \in [Author -> [what : {"none", "capture", "remove", "create"},
                            of : Seat \cup {"none"}, machine : Captured \cup {Stock}]]
  /\ loose \subseteq Seat

(* "A profile whose machine is gone would refuse to launch on every         *)
(* computer at once" (api.rs 1704-1706): one is on a machine that is gone   *)
(* only if it was in the trash, or being made or restored, when that went.  *)
MachinesStand ==
  \A f \in Seat : seat[f].at = "live" /\ seat[f].on \notin Catalogue => f \in loose
=============================================================================
