------------------------------- MODULE Access -------------------------------
(* Who may do what: roles in the organisation, grants on a project, the     *)
(* organisation's own roles that grants follow, and profiles handed to one  *)
(* person (shared-rs/src/rbac.rs; server/src/rbac_guard.rs, shares.rs;      *)
(* api.rs grant_access, revoke_access, upsert_access_role, set_member_role  *)
(* and the removal in rotate_org_key).                                      *)
(*                                                                          *)
(* One project and one profile in it.  A handler reads who its caller is    *)
(* and what they may do, and writes in a later statement: a request is      *)
(* parked between the two with what it read.                                *)
EXTENDS Naturals, FiniteSets

CONSTANTS Person,      \* accounts
          Founder,     \* the organisation's owner
          Receiver,    \* bound: those given a grant on the project
          Borrower,    \* bound: those the profile is shared with
          MaxParked    \* bound: requests between their check and their write

Nobody == "nobody"

ASSUME AccessAssumption ==
  /\ Founder \in Person /\ Nobody \notin Person
  /\ Receiver \subseteq Person /\ Borrower \subseteq Person
  /\ MaxParked \in Nat \ {0}

VARIABLES
  role,       \* org_members.role, "none" without a row
  grant,      \* project_grants of the project
  ownRole,    \* the boxes of one row of org_access_roles, {} without a row
  direct,     \* profile_grants of the profile
  parked,     \* requests between their check and their write, one a person
  upstarts,   \* history: admins made so by anybody but the owner
  doubtful,   \* history: grants whose giver was a member when checked
  lent        \* history: shares whose giver was a member when checked, and
              \* whether "manage" had been handed to that member with the profile

accessVars == <<role, grant, ownRole, direct, parked, upstarts, doubtful, lent>>

Roles == {"owner", "admin", "manager", "member"}
Perms == {"work", "manage"}   \* ManageAccess, and the nine others as one
NoGrant == [live |-> FALSE, perms |-> {}, follows |-> FALSE]
NoRequest == [what |-> "none", to |-> Nobody, perms |-> {}, follows |-> FALSE,
              role |-> "none", as |-> "none", handed |-> FALSE]

AccessInit ==
  /\ role = [p \in Person |-> IF p = Founder THEN "owner" ELSE "none"]
  /\ grant = [p \in Person |-> NoGrant]
  /\ ownRole = {}
  /\ direct = [p \in Person |-> {}]
  /\ parked = [p \in Person |-> NoRequest]
  /\ upstarts = {} /\ doubtful = {} /\ lent = {}

-----------------------------------------------------------------------------
(* rbac.rs and rbac_guard.rs *)

ManagesAll(r) == r \in {"owner", "admin"}
RoleCeiling(r) == IF r = "member" THEN Perms \ {"manage"} ELSE Perms

EffectiveUncapped(r, g) ==       \* mutant: the ceiling left to whoever wrote it
  IF ManagesAll(r) THEN Perms ELSE IF g.live THEN g.perms ELSE {}
Effective(r, g) ==
  IF ManagesAll(r) THEN Perms
  ELSE IF g.live THEN g.perms \cap RoleCeiling(r) ELSE {}

PermissionsFor(p) == IF role[p] = "none" THEN {} ELSE Effective(role[p], grant[p])
(* A direct grant is added as it is, whatever its holder's role. *)
PermissionsForProfile(p) == PermissionsFor(p) \cup direct[p]

Parks(c, request) ==
  /\ parked[c] = NoRequest
  /\ Cardinality({p \in Person : parked[p] # NoRequest}) < MaxParked
  /\ parked' = [parked EXCEPT ![c] = request]
  /\ UNCHANGED <<role, grant, ownRole, direct, upstarts, doubtful, lent>>

Unparks(c, what) ==
  /\ parked[c].what = what
  /\ parked' = [parked EXCEPT ![c] = NoRequest]

-----------------------------------------------------------------------------
(* Members. *)

MadeBy(p, r, by) ==
  IF r = "admin" /\ by # "owner" THEN upstarts \cup {p} ELSE upstarts \ {p}

(* An invitation by the owner or an admin, completed; an admin invites no   *)
(* admin.                                                                   *)
Joins(p, by, r) ==
  /\ role[p] = "none" /\ ManagesAll(role[by]) /\ r \in Roles \ {"owner"}
  /\ r = "admin" => role[by] = "owner"
  /\ role' = [role EXCEPT ![p] = r]
  /\ upstarts' = MadeBy(p, r, role[by])
  /\ UNCHANGED <<grant, ownRole, direct, parked, doubtful, lent>>

(* set_member_role: the caller's role and the target's are read, ...        *)
MayChangeToAny(by, from, to) ==  \* mutant: an admin's new role not looked at
  /\ ManagesAll(by) /\ to # "owner" /\ from \notin {"owner", "none", to}
  /\ by = "admin" => from # "admin"
MayChange(by, from, to) ==
  /\ ManagesAll(by) /\ to # "owner" /\ from \notin {"owner", "none", to}
  /\ by = "admin" => "admin" \notin {from, to}

AsksRole(c, t, to) ==
  /\ c # t /\ MayChange(role[c], role[t], to)
  /\ Parks(c, [NoRequest EXCEPT !.what = "role", !.to = t, !.role = to, !.as = role[c]])

(* ...then the row is written, and in a statement of its own every grant of *)
(* theirs that follows a role is rewritten under the new ceiling.           *)
SetsRole(c) ==
  LET q == parked[c] IN
  /\ q.what = "role"
  /\ IF role[q.to] = "none"
     THEN UNCHANGED <<role, upstarts>>
     ELSE /\ role' = [role EXCEPT ![q.to] = q.role]
          /\ upstarts' = MadeBy(q.to, q.role, q.as)
  /\ parked' = [parked EXCEPT ![c].what = "relink"]
  /\ UNCHANGED <<grant, ownRole, direct, doubtful, lent>>

Relinked(p) ==
  IF grant[p].follows /\ role[p] # "none"
  THEN [grant[p] EXCEPT !.perms = ownRole \cap RoleCeiling(role[p])]
  ELSE grant[p]

RelinksMember(c) ==
  /\ Unparks(c, "relink")
  /\ grant' = [grant EXCEPT ![parked[c].to] = Relinked(parked[c].to)]
  /\ UNCHANGED <<role, ownRole, direct, upstarts, doubtful, lent>>

(* The removal: the target's role is read under the row's lock, the         *)
(* caller's is the one their session was read with.                         *)
MayRemove(by, target) ==
  /\ ManagesAll(by) /\ target \notin {"owner", "none"}
  /\ by = "admin" => target # "admin"

AsksRemoval(c, t) ==
  /\ c # t /\ ManagesAll(role[c])
  /\ Parks(c, [NoRequest EXCEPT !.what = "removal", !.to = t, !.as = role[c]])

Removes(c) ==
  LET t == parked[c].to IN
  /\ Unparks(c, "removal")
  /\ IF MayRemove(parked[c].as, role[t])
     THEN /\ role' = [role EXCEPT ![t] = "none"]
          /\ grant' = [grant EXCEPT ![t] = NoGrant]
     ELSE UNCHANGED <<role, grant>>
  /\ UNCHANGED <<ownRole, direct, upstarts, doubtful, lent>>

-----------------------------------------------------------------------------
(* Grants on the project. *)

(* grant_access: what is asked, or the boxes of the role it follows, capped *)
(* by the recipient's role.                                                 *)
AsksGrant(c, t, perms, follows) ==
  /\ role[t] # "none" /\ "manage" \in PermissionsFor(c)
  /\ follows => ownRole # {} /\ perms = {}
  /\ Parks(c, [NoRequest EXCEPT !.what = "grant", !.to = t, !.as = role[c],
       !.follows = follows,
       !.perms = (IF follows THEN ownRole ELSE perms) \cap RoleCeiling(role[t])])

Grants(c) ==
  LET q == parked[c] IN
  /\ Unparks(c, "grant")
  /\ grant' = [grant EXCEPT ![q.to] =
       [live |-> TRUE, perms |-> q.perms, follows |-> q.follows /\ ownRole # {}]]
  /\ doubtful' = IF q.as = "member" THEN doubtful \cup {q.to} ELSE doubtful \ {q.to}
  /\ UNCHANGED <<role, ownRole, direct, upstarts, lent>>

AsksRevocation(c, t) ==
  /\ "manage" \in PermissionsFor(c)
  /\ Parks(c, [NoRequest EXCEPT !.what = "revoke", !.to = t])

(* The grant goes, and with it any lock of theirs: to a holder that is a    *)
(* lock that lapsed, which ProfileSync has.                                 *)
Revokes(c) ==
  /\ Unparks(c, "revoke")
  /\ grant' = [grant EXCEPT ![parked[c].to] = NoGrant]
  /\ UNCHANGED <<role, ownRole, direct, upstarts, doubtful, lent>>

GrantLapses(p) ==
  /\ grant[p].live
  /\ grant' = [grant EXCEPT ![p] = NoGrant]
  /\ UNCHANGED <<role, ownRole, direct, parked, upstarts, doubtful, lent>>

(* upsert_access_role writes the row and relinks in one transaction;        *)
(* deleting it unlinks the grants and leaves them their boxes.              *)
SavesOwnRole(c, perms) ==
  /\ ManagesAll(role[c]) /\ perms \cup {"work"} # ownRole
  /\ ownRole' = perms \cup {"work"}
  /\ grant' = [p \in Person |->
       IF grant[p].follows /\ role[p] # "none"
       THEN [grant[p] EXCEPT !.perms = (perms \cup {"work"}) \cap RoleCeiling(role[p])]
       ELSE grant[p]]
  /\ UNCHANGED <<role, direct, parked, upstarts, doubtful, lent>>

DeletesOwnRole(c) ==
  /\ ManagesAll(role[c]) /\ ownRole # {}
  /\ ownRole' = {}
  /\ grant' = [p \in Person |-> [grant[p] EXCEPT !.follows = FALSE]]
  /\ UNCHANGED <<role, direct, parked, upstarts, doubtful, lent>>

-----------------------------------------------------------------------------
(* One profile to one person, of any organisation. *)

AsksShare(c, t, perms) ==
  /\ c # t /\ "manage" \in PermissionsForProfile(c)
  /\ "work" \in perms \cap PermissionsForProfile(c)
  /\ Parks(c, [NoRequest EXCEPT !.what = "share", !.to = t, !.as = role[c],
       !.handed = "manage" \in direct[c],
       !.perms = perms \cap PermissionsForProfile(c)])

LentBy(q) ==
  {x \in lent : x.to # q.to}
    \cup (IF q.as = "member" THEN {[to |-> q.to, handed |-> q.handed]} ELSE {})

Shares(c) ==
  /\ Unparks(c, "share")
  /\ direct' = [direct EXCEPT ![parked[c].to] = parked[c].perms]
  /\ lent' = LentBy(parked[c])
  /\ UNCHANGED <<role, grant, ownRole, upstarts, doubtful>>

AsksUnshare(c, t) ==
  /\ "manage" \in PermissionsForProfile(c)
  /\ Parks(c, [NoRequest EXCEPT !.what = "unshare", !.to = t])

Unshares(c) ==
  /\ Unparks(c, "unshare")
  /\ direct' = [direct EXCEPT ![parked[c].to] = {}]
  /\ UNCHANGED <<role, grant, ownRole, upstarts, doubtful, lent>>

AccessNext ==
  \/ \E p, by \in Person, r \in Roles : Joins(p, by, r)
  \/ \E c, t \in Person, to \in Roles : AsksRole(c, t, to)
  \/ \E c \in Person : SetsRole(c) \/ RelinksMember(c) \/ Removes(c)
  \/ \E c, t \in Person : AsksRemoval(c, t)
  \/ \E c \in Person, t \in Receiver, perms \in SUBSET Perms, f \in BOOLEAN : AsksGrant(c, t, perms, f)
  \/ \E c \in Person : Grants(c) \/ Revokes(c)
  \/ \E c \in Person, t \in Receiver : AsksRevocation(c, t)
  \/ \E p \in Person : GrantLapses(p)
  \/ \E c \in Person, perms \in SUBSET Perms : SavesOwnRole(c, perms)
  \/ \E c \in Person : DeletesOwnRole(c)
  \/ \E c \in Person, t \in Borrower, perms \in SUBSET Perms : AsksShare(c, t, perms)
  \/ \E c \in Person, t \in Borrower : AsksUnshare(c, t)
  \/ \E c \in Person : Shares(c) \/ Unshares(c)

AccessSpec == AccessInit /\ [][AccessNext]_accessVars

-----------------------------------------------------------------------------
AccessTypeOK ==
  /\ role \in [Person -> Roles \cup {"none"}]
  /\ grant \in [Person -> [live : BOOLEAN, perms : SUBSET Perms, follows : BOOLEAN]]
  /\ ownRole \subseteq Perms
  /\ direct \in [Person -> SUBSET Perms]
  /\ parked \in [Person -> [what : {"none", "role", "relink", "removal", "grant",
                                    "revoke", "share", "unshare"},
                            to : Person \cup {Nobody}, perms : SUBSET Perms,
                            follows : BOOLEAN, role : Roles \cup {"none"},
                            as : Roles \cup {"none"}, handed : BOOLEAN]]
  /\ lent \subseteq [to : Person, handed : BOOLEAN]

(* One owner, whoever asks for what and however their requests cross; an    *)
(* admin is one because the owner said so, in an invitation or in a change  *)
(* of role (api.rs 3468-3480, 3803-3818); and a manager who is made a       *)
(* member gives no access by the project from their next request on, though *)
(* nobody rewrote the grant they hold (rbac.rs, "Effective permissions =    *)
(* role ceiling ∩ grant"): no grant on it, and no share of the profile     *)
(* unless "manage" was handed to them with the profile itself.              *)
RightsHold ==
  /\ \A p \in Person : role[p] = "owner" <=> p = Founder
  /\ \A p \in upstarts : role[p] # "admin"
  /\ \A p \in doubtful : ~ grant[p].live
  /\ \A x \in lent : x.handed

(* "A manager of that project can share and a member cannot" (shares.rs     *)
(* 112-116), for a direct grant "is still capped by the org role ceiling"   *)
(* (rbac_guard.rs 85-86).                                                   *)
SharesCapped == \A x \in lent : direct[x.to] = {}
=============================================================================
