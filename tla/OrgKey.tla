------------------------------- MODULE OrgKey -------------------------------
(* The organisation key: who it is sealed to, what is wrapped under it, and *)
(* its replacement (server/src/api.rs rotation, hand-over and membership;   *)
(* desktop commands.rs remove_member, finish_login, launch_from_spec).      *)
(*                                                                          *)
(* A key is named by the generation the server gave it when it accepted it; *)
(* 0 is no key.  A person is one machine.  A request takes its steps one    *)
(* statement group at a time: only a rotation and an upload run in a        *)
(* transaction, and only they lock the organisation's row.                  *)
EXTENDS Naturals, FiniteSets

CONSTANTS Admin,        \* may hand the key over, remove and rotate
          Newcomer,     \* enrols later, without a key
          MaxGen,       \* bound: rotations accepted
          MaxBundles,   \* bound: bundle rows ever inserted
          MaxFlight,    \* bound: requests and browsers under way at once
          MaxWrites     \* bound: data keys of proxies and logins ever made

Teammate == Admin \cup Newcomer
NoOne == "no one"

ASSUME KeyAssumption ==
  /\ Admin # {} /\ Admin \cap Newcomer = {} /\ NoOne \notin Teammate
  /\ {MaxGen, MaxBundles, MaxFlight, MaxWrites} \subseteq Nat \ {0}

VARIABLES
  gen,       \* organizations.ork_generation
  member,    \* rows of org_members
  wrapped,   \* org_members.wrapped_ork: the key inside, 0 for NULL
  stated,    \* org_members.ork_generation, 0 for NULL
  secret,    \* "proxy" and "login": the data key that sealed the payload, the
             \* data key beside it and the key that one is wrapped under
  bundles,   \* rows of bundles: number -> the key its data key is under
  held,      \* AppState::org_key of each machine
  seen,      \* AppState::ork_generation, the highest accepted
  open,      \* the browser open on a machine: its key and the stated generation
  hand,      \* hand_over_key requests on their way
  rot,       \* rotations on their way
  locker,    \* who has the organisation's row FOR UPDATE
  deks,      \* data keys made so far
  admitted   \* history: whom somebody let in, the founder included

keyVars == <<gen, member, wrapped, stated, secret, bundles, held, seen, open,
             hand, rot, locker, deks, admitted>>

Gen == 0 .. MaxGen
Dek == 0 .. MaxWrites
NoBrowser == [key |-> 0, label |-> 0]
NoHand == [to |-> NoOne, key |-> 0, read |-> 0]
NoRot == [at |-> "none", old |-> 0, gen |-> 0, gone |-> NoOne, members |-> {},
          proxy |-> 0, login |-> 0, listed |-> FALSE, bundles |-> {}, moved |-> {}]

KeyInit ==
  /\ gen = 1 /\ member = Admin /\ admitted = Admin
  /\ wrapped = [p \in Teammate |-> IF p \in Admin THEN 1 ELSE 0]
  /\ stated = wrapped
  /\ secret = [k \in {"proxy", "login"} |->
       IF k = "proxy" THEN [pay |-> 1, dek |-> 1, under |-> 1]
                      ELSE [pay |-> 0, dek |-> 0, under |-> 0]]
  /\ bundles = <<>>
  /\ held = wrapped /\ seen = wrapped
  /\ open = [p \in Teammate |-> NoBrowser]
  /\ hand = [a \in Admin |-> NoHand]
  /\ rot = [a \in Admin |-> NoRot]
  /\ locker = NoOne /\ deks = 1

InFlight == Cardinality({p \in Teammate : open[p] # NoBrowser})
  + Cardinality({a \in Admin : hand[a] # NoHand})
  + Cardinality({a \in Admin : rot[a] # NoRot})

-----------------------------------------------------------------------------
(* Members: they enrol without a key, and are let in by hand. *)

EveryMember == member       \* mutant: the IS NOT NULL left out everywhere
KeyHolders == {p \in member : wrapped[p] # 0}

Enrols(p) ==
  /\ p \in Teammate \ member
  /\ member' = member \cup {p}
  /\ wrapped' = [wrapped EXCEPT ![p] = 0]
  /\ stated' = [stated EXCEPT ![p] = 0]
  /\ UNCHANGED <<gen, secret, bundles, held, seen, open, hand, rot, locker,
                 deks, admitted>>

(* finish_login: refused when the stated generation goes backwards. *)
SignsIn(p) ==
  /\ p \in member
  /\ stated[p] = 0 \/ stated[p] >= seen[p]
  /\ held' = [held EXCEPT ![p] = wrapped[p]]
  /\ seen' = IF wrapped[p] = 0 THEN seen
             ELSE [seen EXCEPT ![p] = stated[p]]
  /\ <<held', seen'>> # <<held, seen>>
  /\ UNCHANGED <<gen, member, wrapped, stated, secret, bundles, open, hand,
                 rot, locker, deks, admitted>>

(* The giver's machine seals the key it holds, whatever its age. *)
SealsFor(a, p) ==
  /\ a \in member /\ held[a] # 0 /\ hand[a] = NoHand /\ InFlight < MaxFlight
  /\ p \in member \ {a}
  /\ hand' = [hand EXCEPT ![a] = [to |-> p, key |-> held[a], read |-> 0]]
  /\ UNCHANGED <<gen, member, wrapped, stated, secret, bundles, held, seen,
                 open, rot, locker, deks, admitted>>

(* The server reads the generation, no lock taken... *)
ReadsGeneration(a) ==
  /\ hand[a] # NoHand /\ hand[a].read = 0
  /\ hand' = [hand EXCEPT ![a].read = gen]
  /\ UNCHANGED <<gen, member, wrapped, stated, secret, bundles, held, seen,
                 open, rot, locker, deks, admitted>>

(* ...and writes it beside the key in another statement. *)
HandsOver(a) ==
  LET h == hand[a] IN
  /\ h.read # 0
  /\ hand' = [hand EXCEPT ![a] = NoHand]
  /\ IF h.to \in member
     THEN /\ wrapped' = [wrapped EXCEPT ![h.to] = h.key]
          /\ stated' = [stated EXCEPT ![h.to] = h.read]
          /\ admitted' = admitted \cup {h.to}
     ELSE UNCHANGED <<wrapped, stated, admitted>>
  /\ UNCHANGED <<gen, member, secret, bundles, held, seen, open, rot, locker,
                 deks>>

-----------------------------------------------------------------------------
(* What is wrapped under the key. *)

(* create_credential, edit_credential and their like for a proxy: a new     *)
(* data key under whatever organisation key the writer's machine holds.     *)
WritesSecret(p, k) ==
  /\ p \in member /\ held[p] # 0 /\ deks < MaxWrites
  /\ deks' = deks + 1
  /\ secret' = [secret EXCEPT ![k] =
       [pay |-> deks + 1, dek |-> deks + 1, under |-> held[p]]]
  /\ UNCHANGED <<gen, member, wrapped, stated, bundles, held, seen, open, hand,
                 rot, locker, admitted>>
SavesProxy(p) == WritesSecret(p, "proxy")
SavesLogin(p) == WritesSecret(p, "login")

(* launch_spec: the proxy as it is sealed, and the generation in force.     *)
LaunchSpec == [proxy |-> secret["proxy"], generation |-> gen]

(* launch_from_spec: the proxy that opens says the held key is current. *)
Launches(p) ==
  LET spec == LaunchSpec  x == spec.proxy IN
  /\ p \in member /\ held[p] # 0 /\ open[p] = NoBrowser /\ x.dek # 0
  /\ InFlight < MaxFlight
  /\ IF x.under = held[p] /\ x.pay = x.dek
     THEN /\ open' = [open EXCEPT ![p] = [key |-> held[p], label |-> spec.generation]]
          /\ seen' = [seen EXCEPT ![p] = IF spec.generation > @ THEN spec.generation ELSE @]
          /\ UNCHANGED held
     ELSE /\ spec.generation > seen[p]
          /\ held' = [held EXCEPT ![p] = 0]
          /\ UNCHANGED <<open, seen>>
  /\ UNCHANGED <<gen, member, wrapped, stated, secret, bundles, hand, rot,
                 locker, deks, admitted>>

(* The upload's transaction checks and inserts with the organisation's row  *)
(* FOR SHARE: it waits for a rotation, and a rotation for it.               *)
OrgIsFree == locker = NoOne

Uploads(p) ==
  /\ open[p] # NoBrowser /\ OrgIsFree
  /\ open' = [open EXCEPT ![p] = NoBrowser]
  /\ IF p \in member /\ open[p].label >= gen /\ Cardinality(DOMAIN bundles) < MaxBundles
     THEN bundles' = [b \in 1 .. Cardinality(DOMAIN bundles) + 1 |->
                        IF b \in DOMAIN bundles THEN bundles[b] ELSE open[p].key]
     ELSE UNCHANGED bundles
  /\ UNCHANGED <<gen, member, wrapped, stated, secret, held, seen, hand, rot,
                 locker, deks, admitted>>

-----------------------------------------------------------------------------
(* Rotation. *)

(* The first statements of rotation_material: members and proxies. *)
AsksMaterial(a, gone) ==
  /\ a \in member /\ held[a] # 0 /\ rot[a] = NoRot /\ InFlight < MaxFlight
  /\ gone \in (member \ {a}) \cup {NoOne}
  /\ rot' = [rot EXCEPT ![a] =
       [NoRot EXCEPT !.at = "asked", !.old = held[a], !.gone = gone,
                     !.members = KeyHolders, !.proxy = secret["proxy"].dek]]
  /\ secret["proxy"].dek # 0 => secret["proxy"].under = held[a]
  /\ UNCHANGED <<gen, member, wrapped, stated, secret, bundles, held, seen,
                 open, hand, locker, deks, admitted>>

(* The rest, statement by statement on the same connection.  What the old   *)
(* key does not open is named unreadable and left where it is.              *)
ReadsRest(a) ==
  /\ rot[a].at = "asked"
  /\ rot' = [rot EXCEPT ![a] =
       [@ EXCEPT !.at = "sent", !.gen = gen, !.bundles = DOMAIN bundles,
                 !.moved = {b \in DOMAIN bundles : bundles[b] = rot[a].old},
                 !.login = IF secret["login"].under = rot[a].old
                           THEN secret["login"].dek ELSE 0,
                 !.listed = secret["login"].dek # 0]]
  /\ UNCHANGED <<gen, member, wrapped, stated, secret, bundles, held, seen,
                 open, hand, locker, deks, admitted>>

(* The transaction: the row locked, the generation compared, the person     *)
(* gone, everything the old key reaches supplied or named.                  *)
BundlesSent(a) == rot[a].bundles   \* mutant: not read again under the lock
BundlesNow(a) == DOMAIN bundles
Supplied(a) ==
  /\ rot[a].gen = gen /\ gen < MaxGen
  /\ rot[a].gone \in member \cup {NoOne}
  /\ KeyHolders \ {rot[a].gone} \subseteq rot[a].members \ {rot[a].gone}
  /\ BundlesNow(a) \subseteq rot[a].bundles
  /\ secret["login"].dek # 0 => rot[a].listed

Refused(a) ==
  /\ rot[a].at = "sent" /\ OrgIsFree /\ ~ Supplied(a)
  /\ rot' = [rot EXCEPT ![a] = NoRot]
  /\ UNCHANGED <<gen, member, wrapped, stated, secret, bundles, held, seen,
                 open, hand, locker, deks, admitted>>

Checks(a) ==
  /\ rot[a].at = "sent" /\ locker = NoOne /\ a \in member /\ Supplied(a)
  /\ locker' = a
  /\ rot' = [rot EXCEPT ![a].at = "checked"]
  /\ UNCHANGED <<gen, member, wrapped, stated, secret, bundles, held, seen,
                 open, hand, deks, admitted>>

Rewrapped(k, dek) ==
  IF dek = 0 \/ secret[k].dek = 0 THEN secret[k]
  ELSE [secret[k] EXCEPT !.dek = dek, !.under = gen + 1]

(* Commit.  The answer may be lost, and then this machine keeps its old key.*)
Commits(a, heard) ==
  LET r == rot[a]
      sealed == (r.members \ {r.gone}) \cap KeyHolders
  IN
  /\ r.at = "checked"
  /\ gen' = gen + 1
  /\ member' = member \ {r.gone}
  /\ wrapped' = [p \in Teammate |-> IF p \in sealed THEN gen + 1
                                  ELSE IF p = r.gone THEN 0 ELSE wrapped[p]]
  /\ stated' = [p \in Teammate |-> IF p \in sealed THEN gen + 1
                                 ELSE IF p = r.gone THEN 0 ELSE stated[p]]
  /\ admitted' = admitted \ {r.gone}
  /\ secret' = [k \in DOMAIN secret |->
                  Rewrapped(k, IF k = "proxy" THEN r.proxy ELSE r.login)]
  /\ bundles' = [b \in DOMAIN bundles |-> IF b \in r.moved THEN gen + 1 ELSE bundles[b]]
  /\ IF heard THEN /\ held' = [held EXCEPT ![a] = gen + 1]
                   /\ seen' = [seen EXCEPT ![a] = gen + 1]
     ELSE UNCHANGED <<held, seen>>
  /\ rot' = [rot EXCEPT ![a] = NoRot]
  /\ locker' = NoOne
  /\ UNCHANGED <<open, hand, deks>>

(* A statement of the transaction fails, or PostgreSQL picks it to end a    *)
(* ring: an upload locks its profile and then this row, a rotation this row *)
(* and then the profiles.  The answer is an error, and nothing was written. *)
RollsBack(a) ==
  /\ rot[a].at = "checked"
  /\ rot' = [rot EXCEPT ![a] = NoRot] /\ locker' = NoOne
  /\ UNCHANGED <<gen, member, wrapped, stated, secret, bundles, held, seen,
                 open, hand, deks, admitted>>

KeyNext ==
  \/ \E p \in Newcomer : Enrols(p)
  \/ \E p \in Teammate : SignsIn(p)
  \/ \E a \in Admin, p \in Teammate : SealsFor(a, p)
  \/ \E a \in Admin : ReadsGeneration(a)
  \/ \E a \in Admin : HandsOver(a)
  \/ \E p \in Teammate : SavesProxy(p) \/ SavesLogin(p)
  \/ \E p \in Teammate : Launches(p)
  \/ \E p \in Teammate : Uploads(p)
  \/ \E a \in Admin, gone \in Newcomer \cup {NoOne} : AsksMaterial(a, gone)
  \/ \E a \in Admin : ReadsRest(a)
  \/ \E a \in Admin : Refused(a)
  \/ \E a \in Admin : Checks(a) \/ RollsBack(a)
  \/ \E a \in Admin, heard \in BOOLEAN : Commits(a, heard)

KeySpec == KeyInit /\ [][KeyNext]_keyVars

-----------------------------------------------------------------------------
KeyTypeOK ==
  /\ gen \in Gen /\ member \subseteq Teammate /\ admitted \subseteq Teammate
  /\ wrapped \in [Teammate -> Gen] /\ stated \in [Teammate -> Gen]
  /\ held \in [Teammate -> Gen] /\ seen \in [Teammate -> Gen]
  /\ deks \in Dek
  /\ secret \in [{"proxy", "login"} -> [pay : Dek, dek : Dek, under : Gen]]
  /\ DOMAIN bundles \subseteq 1 .. MaxBundles
  /\ open \in [Teammate -> [key : Gen, label : Gen]]
  /\ locker \in Admin \cup {NoOne}

(* Nobody holds a sealed key whom nobody let in: neither a rotation that    *)
(* lists members nor one that raced their enrolment admits a newcomer       *)
(* (api.rs 3577-3586, "three places, one rule").                            *)
AdmittedOnly == KeyHolders \subseteq admitted

(* A rotation by a machine that holds the key in force leaves no bundle     *)
(* behind that opened under it, whatever was uploaded since the client was  *)
(* given its list (api.rs 3987-3991 and 4929-4955).                         *)
BundlesCarried ==
  [][\A a \in Admin : (rot[a].at = "checked" /\ gen' # gen /\ rot[a].old = gen)
       => \A b \in DOMAIN bundles : bundles[b] = gen => bundles'[b] = gen']_keyVars
=============================================================================
