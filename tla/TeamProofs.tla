------------------------------ MODULE TeamProofs ------------------------------
(* Theorems about what a team keeps on the server: OrgKey, ProjectProfiles, *)
(* OrgMachines and OrgProxies, each for every value of its constants.       *)
EXTENDS OrgKey, ProjectProfiles, OrgMachines, OrgProxies, Integers,
        FiniteSetTheorems, TLAPS

-----------------------------------------------------------------------------
(* The organisation key.                                                    *)

RotType ==
  [at : {"none", "asked", "sent", "checked"}, old : 0 .. gen, gen : 0 .. gen,
   gone : Teammate \cup {NoOne}, members : SUBSET Teammate, proxy : Dek, login : Dek,
   listed : BOOLEAN, bundles : SUBSET Nat, moved : SUBSET Nat]
HandType == [to : Teammate \cup {NoOne}, key : 0 .. gen, read : 0 .. gen]
SecretType == [pay : Dek, dek : Dek, under : 0 .. gen]

KeyTypes ==
  /\ gen \in Gen \ {0} /\ member \subseteq Teammate /\ admitted \subseteq Teammate
  /\ wrapped \in [Teammate -> 0 .. gen] /\ stated \in [Teammate -> 0 .. gen]
  /\ held \in [Teammate -> 0 .. gen] /\ seen \in [Teammate -> 0 .. gen]
  /\ deks \in Dek
  /\ secret \in [{"proxy", "login"} -> SecretType]
  /\ open \in [Teammate -> [key : 0 .. gen, label : 0 .. gen]]
  /\ locker \in Admin \cup {NoOne}
  /\ hand \in [Admin -> HandType]
  /\ rot \in [Admin -> RotType]

RowsInv == \E n \in 0 .. MaxBundles : bundles \in [1 .. n -> 0 .. gen]

RotationInv == \A a \in Admin :
  /\ rot[a].at = "checked" => /\ locker = a /\ gen < MaxGen
                              /\ DOMAIN bundles \subseteq rot[a].bundles
  /\ rot[a].at \in {"sent", "checked"} =>
       /\ rot[a].bundles \subseteq DOMAIN bundles
       /\ \A b \in rot[a].bundles : bundles[b] = rot[a].old => b \in rot[a].moved

KeyInv == KeyTypes /\ RowsInv /\ RotationInv /\ AdmittedOnly

\* A hand-over, a rotation and a browser that are not there are typed like one
\* that is, whatever the generation; the bounds are numbers.
LEMMA NoneFacts == ASSUME NEW g \in Gen PROVE
  /\ NoHand \in [to : Teammate \cup {NoOne}, key : 0 .. g, read : 0 .. g]
  /\ NoRot \in [at : {"none", "asked", "sent", "checked"}, old : 0 .. g, gen : 0 .. g,
       gone : Teammate \cup {NoOne}, members : SUBSET Teammate, proxy : Dek, login : Dek,
       listed : BOOLEAN, bundles : SUBSET Nat, moved : SUBSET Nat]
  /\ NoBrowser \in [key : 0 .. g, label : 0 .. g]
  /\ NoRot.at = "none"
  /\ MaxGen \in Nat /\ MaxBundles \in Nat /\ MaxWrites \in Nat /\ MaxGen >= 1 /\ MaxWrites >= 1
<1> MaxGen \in Nat \ {0} /\ MaxBundles \in Nat \ {0} /\ MaxWrites \in Nat \ {0}
  BY KeyAssumption
<1>1. NoHand \in [to : Teammate \cup {NoOne}, key : 0 .. g, read : 0 .. g]
  BY DEF NoHand, Gen
<1>2. NoBrowser \in [key : 0 .. g, label : 0 .. g] BY DEF NoBrowser, Gen
<1>3. NoRot \in [at : {"none", "asked", "sent", "checked"}, old : 0 .. g, gen : 0 .. g,
       gone : Teammate \cup {NoOne}, members : SUBSET Teammate, proxy : Dek, login : Dek,
       listed : BOOLEAN, bundles : SUBSET Nat, moved : SUBSET Nat] BY DEF NoRot, Gen, Dek
<1>4. NoRot.at = "none" BY DEF NoRot
<1> QED BY <1>1, <1>2, <1>3, <1>4

\* The admins hold the first key, which they were let in with.
LEMMA KeyStart == KeyInit => KeyInv
<1> SUFFICES ASSUME KeyInit PROVE KeyInv
  OBVIOUS
<1> USE KeyAssumption
<1>0. gen = 1 /\ gen \in Gen /\ 1 \in 0 .. gen /\ 0 \in 0 .. gen /\ 0 \in Dek /\ 1 \in Dek
  BY NoneFacts DEF KeyInit, Gen, Dek
<1>1. KeyTypes
  <2>1. secret \in [{"proxy", "login"} -> SecretType]
    <3>1. [pay |-> 1, dek |-> 1, under |-> 1] \in SecretType BY <1>0 DEF SecretType
    <3>2. [pay |-> 0, dek |-> 0, under |-> 0] \in SecretType BY <1>0 DEF SecretType
    <3> QED BY <3>1, <3>2 DEF KeyInit
  <2>2. wrapped \in [Teammate -> 0 .. gen] BY <1>0 DEF KeyInit
  <2>3. gen \in Gen \ {0} /\ Admin \subseteq Teammate BY <1>0 DEF Teammate
  <2> QED BY <1>0, <2>1, <2>2, <2>3, NoneFacts DEF KeyInit, KeyTypes, RotType, HandType
<1>2. RowsInv
  <2>1. 0 \in 0 .. MaxBundles BY NoneFacts, <1>0
  <2>2. bundles \in [1 .. 0 -> 0 .. gen] BY DEF KeyInit
  <2> QED BY <2>1, <2>2 DEF RowsInv
<1>3. RotationInv BY <1>0, NoneFacts DEF KeyInit, RotationInv
<1>4. AdmittedOnly BY DEF KeyInit, AdmittedOnly, KeyHolders
<1> QED BY <1>1, <1>2, <1>3, <1>4 DEF KeyInv

\* One step per statement group: an enrolment brings no key, a hand-over and a
\* rotation seal only to members somebody let in, and while a rotation has the
\* organisation's row no bundle is added (api.rs rotate_org_key, hand_over_key,
\* enrol; commands.rs finish_login).
LEMMA KeyStep == KeyInv /\ [KeyNext]_keyVars => KeyInv'
<1> SUFFICES ASSUME KeyInv, [KeyNext]_keyVars PROVE KeyInv'
  OBVIOUS
<1> USE DEF KeyInv
<1> Admin \subseteq Teammate /\ NoOne \notin Teammate /\ Newcomer \subseteq Teammate
  BY KeyAssumption DEF Teammate
<1>1. CASE UNCHANGED keyVars
  BY <1>1 DEF keyVars, KeyTypes, RowsInv, RotationInv, AdmittedOnly, KeyHolders,
    SecretType, RotType, HandType
<1>2. ASSUME NEW p \in Newcomer, Enrols(p) PROVE KeyInv'
  <2>0. 0 \in 0 .. gen /\ p \in Teammate BY DEF KeyTypes, Gen
  <2>1. KeyTypes' BY <1>2, <2>0 DEF Enrols, KeyTypes, SecretType, RotType, HandType
  <2>2. RowsInv' BY <1>2 DEF Enrols, RowsInv
  <2>3. RotationInv' BY <1>2 DEF Enrols, RotationInv
  <2>4. AdmittedOnly' BY <1>2 DEF Enrols, AdmittedOnly, KeyHolders, KeyTypes
  <2> QED BY <2>1, <2>2, <2>3, <2>4
<1>3. ASSUME NEW p \in Teammate, SignsIn(p) PROVE KeyInv'
  <2>1. KeyTypes' BY <1>3 DEF SignsIn, KeyTypes, SecretType, RotType, HandType
  <2>2. RowsInv' BY <1>3 DEF SignsIn, RowsInv
  <2>3. RotationInv' BY <1>3 DEF SignsIn, RotationInv
  <2>4. AdmittedOnly' BY <1>3 DEF SignsIn, AdmittedOnly, KeyHolders
  <2> QED BY <2>1, <2>2, <2>3, <2>4
<1>4. ASSUME NEW a \in Admin, NEW p \in Teammate, SealsFor(a, p) PROVE KeyInv'
  <2>1. [to |-> p, key |-> held[a], read |-> 0] \in HandType
    BY DEF KeyTypes, HandType, Gen
  <2>2. KeyTypes' BY <1>4, <2>1 DEF SealsFor, KeyTypes, SecretType, RotType, HandType
  <2>3. RowsInv' BY <1>4 DEF SealsFor, RowsInv
  <2>4. RotationInv' BY <1>4 DEF SealsFor, RotationInv
  <2>5. AdmittedOnly' BY <1>4 DEF SealsFor, AdmittedOnly, KeyHolders
  <2> QED BY <2>2, <2>3, <2>4, <2>5
<1>5. ASSUME NEW a \in Admin, ReadsGeneration(a) PROVE KeyInv'
  <2>1. gen \in 0 .. gen BY DEF KeyTypes, Gen
  <2> hand[a] \in HandType BY DEF KeyTypes
  <2> [hand[a] EXCEPT !.read = gen] \in HandType BY <2>1 DEF HandType
  <2> hand' = [hand EXCEPT ![a] = [hand[a] EXCEPT !.read = gen]]
    BY <1>5 DEF ReadsGeneration
  <2>2. KeyTypes'
    BY <1>5 DEF ReadsGeneration, KeyTypes, SecretType, RotType, HandType
  <2>3. RowsInv' BY <1>5 DEF ReadsGeneration, RowsInv
  <2>4. RotationInv' BY <1>5 DEF ReadsGeneration, RotationInv
  <2>5. AdmittedOnly' BY <1>5 DEF ReadsGeneration, AdmittedOnly, KeyHolders
  <2> QED BY <2>2, <2>3, <2>4, <2>5
<1>6. ASSUME NEW a \in Admin, HandsOver(a) PROVE KeyInv'
  <2>1. hand[a] \in HandType /\ NoHand \in HandType
    BY NoneFacts DEF KeyTypes, HandType
  <2>2. KeyTypes'
    BY <1>6, <2>1 DEF HandsOver, KeyTypes, SecretType, RotType, HandType
  <2>3. RowsInv' BY <1>6 DEF HandsOver, RowsInv
  <2>4. RotationInv' BY <1>6 DEF HandsOver, RotationInv
  <2>5. AdmittedOnly' BY <1>6 DEF HandsOver, AdmittedOnly, KeyHolders, KeyTypes
  <2> QED BY <2>2, <2>3, <2>4, <2>5
<1>7. ASSUME NEW p \in Teammate, NEW k \in {"proxy", "login"}, WritesSecret(p, k) PROVE KeyInv'
  <2>1. deks + 1 \in Dek /\ held[p] \in 0 .. gen
    BY <1>7, NoneFacts, KeyAssumption DEF WritesSecret, KeyTypes, Dek
  <2>2. [pay |-> deks + 1, dek |-> deks + 1, under |-> held[p]] \in SecretType
    BY <2>1 DEF SecretType
  <2>3. KeyTypes' BY <1>7, <2>1, <2>2 DEF WritesSecret, KeyTypes, SecretType, RotType, HandType
  <2>4. RowsInv' BY <1>7 DEF WritesSecret, RowsInv
  <2>5. RotationInv' BY <1>7 DEF WritesSecret, RotationInv
  <2>6. AdmittedOnly' BY <1>7 DEF WritesSecret, AdmittedOnly, KeyHolders
  <2> QED BY <2>3, <2>4, <2>5, <2>6
<1>8. ASSUME NEW p \in Teammate, Launches(p) PROVE KeyInv'
  <2>1. gen \in 0 .. gen /\ 0 \in 0 .. gen /\ held[p] \in 0 .. gen BY DEF KeyTypes, Gen
  <2>2. [key |-> held[p], label |-> gen] \in [key : 0 .. gen, label : 0 .. gen] BY <2>1
  <2> open' \in [Teammate -> [key : 0 .. gen, label : 0 .. gen]]
    BY <1>8, <2>2 DEF Launches, LaunchSpec, KeyTypes
  <2> held' \in [Teammate -> 0 .. gen] /\ seen' \in [Teammate -> 0 .. gen]
    <3>1. CASE seen' = [seen EXCEPT ![p] = IF gen > @ THEN gen ELSE @] /\ UNCHANGED held
      <4>1. (IF gen > seen[p] THEN gen ELSE seen[p]) \in 0 .. gen BY <2>1 DEF KeyTypes
      <4> QED BY <3>1, <4>1, <1>8 DEF Launches, LaunchSpec, KeyTypes
    <3>2. CASE held' = [held EXCEPT ![p] = 0] /\ UNCHANGED seen
      BY <3>2, <2>1, <1>8 DEF Launches, LaunchSpec, KeyTypes
    <3> QED BY <1>8, <3>1, <3>2 DEF Launches, LaunchSpec
  <2>3. KeyTypes'
    BY <1>8 DEF Launches, LaunchSpec, KeyTypes, SecretType, RotType, HandType
  <2>4. RowsInv' BY <1>8 DEF Launches, LaunchSpec, RowsInv
  <2>5. RotationInv' BY <1>8 DEF Launches, LaunchSpec, RotationInv
  <2>6. AdmittedOnly' BY <1>8 DEF Launches, LaunchSpec, AdmittedOnly, KeyHolders
  <2> QED BY <2>3, <2>4, <2>5, <2>6
<1>9. ASSUME NEW p \in Teammate, Uploads(p) PROVE KeyInv'
  <2>1. NoBrowser \in [key : 0 .. gen, label : 0 .. gen] BY NoneFacts DEF KeyTypes
  <2>2. KeyTypes' BY <1>9, <2>1 DEF Uploads, KeyTypes, SecretType, RotType, HandType
  <2>3. AdmittedOnly' BY <1>9 DEF Uploads, AdmittedOnly, KeyHolders
  <2>4. PICK n \in 0 .. MaxBundles : bundles \in [1 .. n -> 0 .. gen] BY DEF RowsInv
  <2>5. n \in Nat /\ MaxBundles \in Nat BY <2>4, NoneFacts, KeyAssumption
  <2>6. Cardinality(DOMAIN bundles) = n
    <3>1. Cardinality(1 .. n) = n
      <4>1. CASE n = 0
        <5>1. 1 .. n = {} BY <4>1
        <5> QED BY <4>1, <5>1, FS_EmptySet
      <4>2. CASE n # 0
        <5>1. Cardinality(1 .. n) = IF 1 > n THEN 0 ELSE n - 1 + 1 BY <2>5, FS_Interval
        <5> QED BY <4>2, <5>1, <2>5
      <4> QED BY <4>1, <4>2
    <3> QED BY <2>4, <3>1
  <2>7. CASE UNCHANGED bundles
    <3>1. RowsInv' BY <1>9, <2>7 DEF Uploads, RowsInv
    <3>2. RotationInv' BY <1>9, <2>7 DEF Uploads, RotationInv
    <3> QED BY <2>2, <2>3, <3>1, <3>2
  <2>8. CASE ~ UNCHANGED bundles
    <3>1. bundles' = [b \in 1 .. n + 1 |-> IF b \in 1 .. n THEN bundles[b] ELSE open[p].key]
          /\ n < MaxBundles
      BY <1>9, <2>4, <2>6, <2>8 DEF Uploads
    <3>2. open[p].key \in 0 .. gen BY DEF KeyTypes
    <3>3. bundles' \in [1 .. n + 1 -> 0 .. gen] BY <3>1, <3>2, <2>4, <2>5
    <3>4. RowsInv'
      <4>1. n + 1 \in 0 .. MaxBundles BY <3>1, <2>5
      <4>2. UNCHANGED gen BY <1>9 DEF Uploads
      <4> QED BY <3>3, <4>1, <4>2 DEF RowsInv
    <3>5. RotationInv'
      <4>1. locker = NoOne /\ UNCHANGED <<rot, locker, gen>> BY <1>9 DEF Uploads, OrgIsFree
      <4>2. \A b \in 1 .. n : bundles'[b] = bundles[b] BY <3>1, <2>5
      <4>3. DOMAIN bundles = 1 .. n /\ 1 .. n \subseteq DOMAIN bundles' BY <2>4, <2>5, <3>1
      <4> QED BY <4>1, <4>2, <4>3 DEF RotationInv
    <3> QED BY <2>2, <2>3, <3>4, <3>5
  <2> QED BY <2>7, <2>8
<1>10. ASSUME NEW a \in Admin, NEW gone \in Newcomer \cup {NoOne}, AsksMaterial(a, gone) PROVE KeyInv'
  <2> DEFINE r == [NoRot EXCEPT !.at = "asked", !.old = held[a], !.gone = gone,
                                !.members = KeyHolders, !.proxy = secret["proxy"].dek]
  <2>1. r \in RotType /\ r.at = "asked"
    <3>1. NoRot \in RotType BY NoneFacts DEF KeyTypes, RotType
    <3>2. held[a] \in 0 .. gen /\ KeyHolders \subseteq Teammate /\ secret["proxy"].dek \in Dek
      BY DEF KeyTypes, KeyHolders, SecretType
    <3> QED BY <3>1, <3>2 DEF RotType
  <2>2. rot' = [rot EXCEPT ![a] = r]
        /\ UNCHANGED <<gen, member, wrapped, stated, secret, bundles, held, seen,
                       open, hand, locker, deks, admitted>>
    BY <1>10 DEF AsksMaterial
  <2> HIDE DEF r
  <2>3. KeyTypes' BY <2>1, <2>2 DEF KeyTypes, SecretType, RotType, HandType
  <2>4. RowsInv' BY <2>2 DEF RowsInv
  <2>5. RotationInv' BY <2>1, <2>2 DEF RotationInv, KeyTypes
  <2>6. AdmittedOnly' BY <2>2 DEF AdmittedOnly, KeyHolders
  <2> QED BY <2>3, <2>4, <2>5, <2>6
<1>11. ASSUME NEW a \in Admin, ReadsRest(a) PROVE KeyInv'
  <2> DEFINE r == [rot[a] EXCEPT !.at = "sent", !.gen = gen, !.bundles = DOMAIN bundles,
                 !.moved = {b \in DOMAIN bundles : bundles[b] = rot[a].old},
                 !.login = IF secret["login"].under = rot[a].old
                           THEN secret["login"].dek ELSE 0,
                 !.listed = secret["login"].dek # 0]
  <2>1. /\ r \in RotType /\ r.at = "sent" /\ r.bundles = DOMAIN bundles
        /\ \A b \in DOMAIN bundles : bundles[b] = r.old => b \in r.moved
    <3>1. rot[a] \in RotType BY DEF KeyTypes
    <3>2. gen \in 0 .. gen /\ secret["login"].dek \in Dek /\ 0 \in Dek
      BY NoneFacts, KeyAssumption DEF KeyTypes, SecretType, Gen, Dek
    <3>3. DOMAIN bundles \subseteq Nat BY DEF RowsInv
    <3> DEFINE there == secret["login"].dek # 0
    <3>4. there \in BOOLEAN OBVIOUS
    <3> HIDE DEF there
    <3>5. \A t \in BOOLEAN :
            LET x == [rot[a] EXCEPT !.at = "sent", !.gen = gen, !.bundles = DOMAIN bundles,
                        !.moved = {b \in DOMAIN bundles : bundles[b] = rot[a].old},
                        !.login = IF secret["login"].under = rot[a].old
                                  THEN secret["login"].dek ELSE 0,
                        !.listed = t]
            IN /\ x \in RotType /\ x.at = "sent" /\ x.bundles = DOMAIN bundles
               /\ \A b \in DOMAIN bundles : bundles[b] = x.old => b \in x.moved
      BY <3>1, <3>2, <3>3 DEF RotType
    <3> QED BY <3>4, <3>5 DEF there
  <2>2. rot' = [rot EXCEPT ![a] = r]
        /\ UNCHANGED <<gen, member, wrapped, stated, secret, bundles, held, seen,
                       open, hand, locker, deks, admitted>>
    BY <1>11 DEF ReadsRest
  <2> HIDE DEF r
  <2>3. KeyTypes' BY <2>1, <2>2 DEF KeyTypes, SecretType, RotType, HandType
  <2>4. RowsInv' BY <2>2 DEF RowsInv
  <2>5. RotationInv' BY <2>1, <2>2 DEF RotationInv, KeyTypes
  <2>6. AdmittedOnly' BY <2>2 DEF AdmittedOnly, KeyHolders
  <2> QED BY <2>3, <2>4, <2>5, <2>6
<1>12. ASSUME NEW a \in Admin, Refused(a) PROVE KeyInv'
  <2>1. NoRot \in RotType /\ NoRot.at = "none" BY NoneFacts DEF KeyTypes, RotType
  <2>2. KeyTypes' BY <1>12, <2>1 DEF Refused, KeyTypes, SecretType, RotType, HandType
  <2>3. RowsInv' BY <1>12 DEF Refused, RowsInv
  <2>4. RotationInv' BY <1>12, <2>1 DEF Refused, RotationInv, KeyTypes
  <2>5. AdmittedOnly' BY <1>12 DEF Refused, AdmittedOnly, KeyHolders
  <2> QED BY <2>2, <2>3, <2>4, <2>5
<1>13. ASSUME NEW a \in Admin, Checks(a) PROVE KeyInv'
  <2>1. rot[a] \in RotType /\ rot' = [rot EXCEPT ![a].at = "checked"] /\ locker' = a
        /\ rot[a].at = "sent" /\ locker = NoOne
        /\ UNCHANGED <<gen, member, wrapped, stated, secret, bundles, held, seen,
                       open, hand, deks, admitted>>
    BY <1>13 DEF Checks, KeyTypes
  <2>2. KeyTypes' BY <2>1 DEF KeyTypes, SecretType, RotType, HandType
  <2>3. RowsInv' BY <2>1 DEF RowsInv
  <2>4. RotationInv'
    <3>1. gen < MaxGen /\ DOMAIN bundles \subseteq rot[a].bundles
      BY <1>13 DEF Checks, Supplied, BundlesNow
    <3>2. \A c \in Admin : rot[c].at # "checked" BY <2>1 DEF RotationInv
    <3>3. rot'[a].at = "checked" /\ rot'[a].bundles = rot[a].bundles /\ rot'[a].old = rot[a].old
          /\ rot'[a].moved = rot[a].moved /\ \A c \in Admin \ {a} : rot'[c] = rot[c]
      BY <2>1 DEF KeyTypes, RotType
    <3> QED BY <2>1, <3>1, <3>2, <3>3 DEF RotationInv
  <2>5. AdmittedOnly' BY <2>1 DEF AdmittedOnly, KeyHolders
  <2> QED BY <2>2, <2>3, <2>4, <2>5
<1>14. ASSUME NEW a \in Admin, NEW heard \in BOOLEAN, Commits(a, heard) PROVE KeyInv'
  <2> DEFINE r == rot[a]
             sealed == (r.members \ {r.gone}) \cap KeyHolders
  <2>0. r \in RotType /\ r.at = "checked" /\ NoRot \in RotType
    BY <1>14, NoneFacts DEF Commits, KeyTypes, RotType
  <2>1. gen \in Nat /\ gen' = gen + 1 /\ gen' \in Gen \ {0} /\ locker = a
        /\ 0 .. gen \subseteq 0 .. gen' /\ gen + 1 \in 0 .. gen' /\ 0 \in 0 .. gen'
        /\ gen + 1 \notin 0 .. gen
    <3>1. gen < MaxGen /\ locker = a BY <2>0 DEF RotationInv
    <3>2. gen \in Nat /\ gen' = gen + 1 /\ MaxGen \in Nat
      BY <1>14, NoneFacts, KeyAssumption DEF Commits, KeyTypes, Gen
    <3> QED BY <3>1, <3>2 DEF Gen
  <2>2. /\ member' = member \ {r.gone} /\ admitted' = admitted \ {r.gone}
        /\ wrapped' = [p \in Teammate |-> IF p \in sealed THEN gen + 1
                                  ELSE IF p = r.gone THEN 0 ELSE wrapped[p]]
        /\ stated' = [p \in Teammate |-> IF p \in sealed THEN gen + 1
                                  ELSE IF p = r.gone THEN 0 ELSE stated[p]]
        /\ bundles' = [b \in DOMAIN bundles |-> IF b \in r.moved THEN gen + 1 ELSE bundles[b]]
        /\ rot' = [rot EXCEPT ![a] = NoRot] /\ locker' = NoOne
        /\ UNCHANGED <<open, hand, deks>>
    BY <1>14 DEF Commits
  <2>3. AdmittedOnly'
    <3>1. ASSUME NEW p \in member', wrapped'[p] # 0 PROVE p \in admitted'
      <4>1. p \in Teammate /\ p \in member /\ p # r.gone BY <2>2, <3>1 DEF KeyTypes
      <4>2. p \in KeyHolders BY <2>2, <3>1, <4>1 DEF KeyHolders
      <4> QED BY <4>1, <4>2, <2>2 DEF AdmittedOnly
    <3> QED BY <3>1 DEF AdmittedOnly, KeyHolders
  <2>4. KeyTypes'
    <3>1. \A k \in {"proxy", "login"} : secret'[k] \in SecretType'
      <4>1. ASSUME NEW k \in {"proxy", "login"}, NEW d \in Dek PROVE Rewrapped(k, d) \in SecretType'
        <5>1. secret[k] \in SecretType BY DEF KeyTypes
        <5> QED BY <5>1, <4>1, <2>1 DEF Rewrapped, SecretType
      <4>2. r.proxy \in Dek /\ r.login \in Dek BY <2>0 DEF RotType
      <4>3. \A k \in {"proxy", "login"} :
              secret'[k] = Rewrapped(k, IF k = "proxy" THEN r.proxy ELSE r.login)
        BY <1>14 DEF Commits, KeyTypes
      <4> QED BY <4>1, <4>2, <4>3
    <3>2. secret' = [k \in {"proxy", "login"} |-> secret'[k]]
      BY <1>14 DEF Commits, KeyTypes
    <3>3. secret' \in [{"proxy", "login"} -> SecretType'] BY <3>1, <3>2
    <3>4. wrapped' \in [Teammate -> 0 .. gen'] /\ stated' \in [Teammate -> 0 .. gen']
      BY <2>1, <2>2 DEF KeyTypes
    <3>5. held' \in [Teammate -> 0 .. gen'] /\ seen' \in [Teammate -> 0 .. gen']
      <4>1. held \in [Teammate -> 0 .. gen'] /\ seen \in [Teammate -> 0 .. gen']
        BY <2>1 DEF KeyTypes
      <4>2. CASE heard
        BY <1>14, <2>1, <4>1, <4>2 DEF Commits
      <4>3. CASE ~ heard
        BY <1>14, <4>1, <4>3 DEF Commits
      <4> QED BY <4>2, <4>3
    <3>6. open' \in [Teammate -> [key : 0 .. gen', label : 0 .. gen']]
      BY <2>1, <2>2 DEF KeyTypes
    <3>7. hand' \in [Admin -> HandType']
      <4>1. HandType \subseteq HandType' BY <2>1 DEF HandType
      <4> QED BY <2>2, <4>1 DEF KeyTypes
    <3>8. rot' \in [Admin -> RotType']
      <4>1. RotType \subseteq RotType' BY <2>1 DEF RotType
      <4> QED BY <2>0, <2>2, <4>1 DEF KeyTypes
    <3> QED BY <2>1, <2>2, <3>3, <3>4, <3>5, <3>6, <3>7, <3>8 DEF KeyTypes
  <2>5. RowsInv'
    <3>1. PICK n \in 0 .. MaxBundles : bundles \in [1 .. n -> 0 .. gen] BY DEF RowsInv
    <3>2. bundles' \in [1 .. n -> 0 .. gen'] BY <3>1, <2>1, <2>2
    <3> QED BY <3>1, <3>2 DEF RowsInv
  <2>6. RotationInv'
    <3> SUFFICES ASSUME NEW c \in Admin
          PROVE /\ rot'[c].at # "checked"
                /\ rot'[c].at = "sent" =>
                     /\ rot'[c].bundles \subseteq DOMAIN bundles'
                     /\ \A b \in rot'[c].bundles : bundles'[b] = rot'[c].old => b \in rot'[c].moved
      BY DEF RotationInv
    <3>1. CASE c = a BY <3>1, <2>2, NoneFacts, KeyAssumption DEF KeyTypes, NoRot
    <3>2. CASE c # a
      <4>1. rot'[c] = rot[c] /\ rot[c].at # "checked" BY <3>2, <2>1, <2>2 DEF KeyTypes, RotationInv
      <4>2. rot[c].old \in 0 .. gen BY DEF KeyTypes, RotType
      <4>3. \A b \in DOMAIN bundles : bundles'[b] = gen + 1 \/ bundles'[b] = bundles[b] BY <2>2
      <4>4. DOMAIN bundles' = DOMAIN bundles BY <2>2
      <4> QED BY <4>1, <4>2, <4>3, <4>4, <2>1 DEF RotationInv
    <3> QED BY <3>1, <3>2
  <2> QED BY <2>3, <2>4, <2>5, <2>6
<1>15. ASSUME NEW a \in Admin, RollsBack(a) PROVE KeyInv'
  <2>1. NoRot \in RotType /\ NoRot.at = "none" BY NoneFacts DEF KeyTypes, RotType
  <2>2. KeyTypes' BY <1>15, <2>1 DEF RollsBack, KeyTypes, SecretType, RotType, HandType
  <2>3. RowsInv' BY <1>15 DEF RollsBack, RowsInv
  <2>4. RotationInv' BY <1>15, <2>1 DEF RollsBack, RotationInv, KeyTypes
  <2>5. AdmittedOnly' BY <1>15 DEF RollsBack, AdmittedOnly, KeyHolders
  <2> QED BY <2>2, <2>3, <2>4, <2>5
<1> QED
  BY <1>1, <1>2, <1>3, <1>4, <1>5, <1>6, <1>7, <1>8, <1>9, <1>10, <1>11, <1>12, <1>13, <1>14,
    <1>15
  DEF KeyNext, SavesProxy, SavesLogin

\* No key has a generation the server has not given.
LEMMA KeyTyped == KeyInv => KeyTypeOK
<1> SUFFICES ASSUME KeyInv PROVE KeyTypeOK
  OBVIOUS
<1>1. 0 .. gen \subseteq Gen /\ MaxBundles \in Nat
  BY NoneFacts, KeyAssumption DEF KeyInv, KeyTypes, Gen
<1>2. DOMAIN bundles \subseteq 1 .. MaxBundles BY <1>1 DEF KeyInv, RowsInv
<1> QED BY <1>1, <1>2 DEF KeyInv, KeyTypes, KeyTypeOK, SecretType

\* Nobody holds a sealed key whom nobody let in (api.rs 3577-3586).
THEOREM KeySafe == KeySpec => [](KeyTypeOK /\ AdmittedOnly)
<1>1. KeyInv => KeyTypeOK /\ AdmittedOnly BY KeyTyped DEF KeyInv
<1> QED BY <1>1, KeyStart, KeyStep, PTL DEF KeySpec

\* A rotation by a machine with the key in force leaves no bundle under the old
\* key, whatever was uploaded since its client was given the list (api.rs
\* 3987-3991, 4929-4955).
THEOREM KeyCarries == KeySpec => BundlesCarried
<1> DEFINE Carried == \A a \in Admin : (rot[a].at = "checked" /\ gen' # gen /\ rot[a].old = gen)
       => \A b \in DOMAIN bundles : bundles[b] = gen => bundles'[b] = gen'
<1>1. ASSUME KeyInv, [KeyNext]_keyVars PROVE [Carried]_keyVars
  <2> SUFFICES ASSUME NEW a \in Admin, rot[a].at = "checked", gen' # gen, rot[a].old = gen,
                      NEW b \in DOMAIN bundles, bundles[b] = gen
               PROVE  bundles'[b] = gen'
    OBVIOUS
  <2>1. PICK c \in Admin, heard \in BOOLEAN : Commits(c, heard)
    BY <1>1 DEF KeyNext, keyVars, Enrols, SignsIn, SealsFor, ReadsGeneration, HandsOver,
      SavesProxy, SavesLogin, WritesSecret, Launches, Uploads, AsksMaterial, ReadsRest, Refused, Checks,
      RollsBack
  <2>2. c = a BY <1>1, <2>1 DEF KeyInv, RotationInv, Commits
  <2>3. b \in rot[a].moved BY <1>1 DEF KeyInv, RotationInv
  <2> QED BY <2>1, <2>2, <2>3 DEF Commits
<1> QED BY <1>1, KeyStart, KeyStep, PTL DEF KeySpec, BundlesCarried

-----------------------------------------------------------------------------
(* Projects and the profiles in them.                                       *)

(* The rows a handler under way may still write. *)
Due == [w \in Worker |-> IF jobs[w].what = "insert" THEN jobs[w].left ELSE 0]
Waiting == Total(Due, CloneMax)

RowsBound == SumOf(live) + SumOf(trash) <= MaxRows
RoomInv == SumOf(live) + Waiting <= MaxProfiles + restored + (Workers - 1) * CloneMax

ProfilesInv == ProfilesTypeOK /\ RowsBound /\ RoomInv

\* So many pairs stand for a count.
LEMMA ColumnCounted ==
  ASSUME NEW j, NEW k \in Nat
  PROVE  IsFiniteSet({j} \X (1 .. k)) /\ Cardinality({j} \X (1 .. k)) = k
<1>1. IsFiniteSet({j}) /\ Cardinality({j}) = 1 BY FS_Singleton
<1>2. IsFiniteSet(1 .. k) /\ Cardinality(1 .. k) = k
  <2>1. IsFiniteSet(1 .. k) /\ Cardinality(1 .. k) = IF 1 > k THEN 0 ELSE k - 1 + 1 BY FS_Interval
  <2> QED BY <2>1
<1>3. IsFiniteSet({j} \X (1 .. k))
      /\ Cardinality({j} \X (1 .. k)) = Cardinality({j}) * Cardinality(1 .. k)
  BY <1>1, <1>2, FS_Product
<1> QED BY <1>1, <1>2, <1>3

(* The pairs of every count but one. *)
Others(f, most, j) == {x \in (DOMAIN f) \X (1 .. most) : x[2] <= f[x[1]] /\ x[1] # j}

\* A sum is one count and the pairs of the others.
LEMMA TotalIs ==
  ASSUME NEW D, IsFiniteSet(D), NEW most \in Nat, NEW f \in [D -> 0 .. most], NEW j \in D
  PROVE  /\ Total(f, most) \in Nat /\ Cardinality(Others(f, most, j)) \in Nat
         /\ Total(f, most) = Cardinality(Others(f, most, j)) + f[j]
<1> DEFINE All == {x \in D \X (1 .. most) : x[2] <= f[x[1]]}
           Rest == {x \in D \X (1 .. most) : x[2] <= f[x[1]] /\ x[1] # j}
           Col == {j} \X (1 .. f[j])
<1>1. IsFiniteSet(D \X (1 .. most))
  <2>1. IsFiniteSet(1 .. most) BY FS_Interval
  <2> QED BY <2>1, FS_Product
<1>2. IsFiniteSet(Rest) /\ Cardinality(Rest) \in Nat
  <2>1. Rest \in SUBSET (D \X (1 .. most)) OBVIOUS
  <2> QED BY <2>1, <1>1, FS_Subset, FS_CardinalityType
<1>3. f[j] \in Nat /\ f[j] <= most OBVIOUS
<1>4. IsFiniteSet(Col) /\ Cardinality(Col) = f[j] BY <1>3, ColumnCounted
<1>5. All = Rest \cup Col
  <2>1. ASSUME NEW x \in All PROVE x \in Rest \cup Col
    <3>1. PICK i \in D, n \in 1 .. most : x = <<i, n>> /\ n <= f[i] OBVIOUS
    <3>2. CASE i = j
      <4>1. n \in 1 .. f[j] BY <3>1, <3>2, <1>3
      <4> QED BY <3>1, <3>2, <4>1
    <3>3. CASE i # j BY <3>1, <3>3
    <3> QED BY <3>2, <3>3
  <2>2. Rest \subseteq All OBVIOUS
  <2>3. ASSUME NEW x \in Col PROVE x \in All
    <3>1. PICK n \in 1 .. f[j] : x = <<j, n>> OBVIOUS
    <3>2. n \in 1 .. most /\ n <= f[j] BY <1>3
    <3> QED BY <3>1, <3>2
  <2> QED BY <2>1, <2>2, <2>3
<1>6. Rest \cap Col = {} OBVIOUS
<1>7. Cardinality(All) = Cardinality(Rest) + Cardinality(Col) - Cardinality(Rest \cap Col)
  BY <1>2, <1>4, <1>5, FS_Union
<1>8. Cardinality(Rest \cap Col) = 0 BY <1>6, FS_EmptySet
<1>9. Total(f, most) = Cardinality(All) /\ Others(f, most, j) = Rest BY DEF Total, Others
<1> QED BY <1>2, <1>3, <1>4, <1>7, <1>8, <1>9

\* A sum changes by what one count changes.
LEMMA TotalChanges ==
  ASSUME NEW D, IsFiniteSet(D), NEW most \in Nat, NEW f \in [D -> 0 .. most],
         NEW g \in [D -> 0 .. most], NEW j \in D, \A i \in D \ {j} : g[i] = f[i]
  PROVE  /\ Total(f, most) \in Nat /\ f[j] <= Total(f, most)
         /\ Total(g, most) = Total(f, most) - f[j] + g[j]
<1>1. g[j] \in Nat /\ f[j] \in Nat OBVIOUS
<1>2. Others(f, most, j) = Others(g, most, j)
  <2>1. \A x \in D \X (1 .. most) : x[1] # j => g[x[1]] = f[x[1]] OBVIOUS
  <2> QED BY <2>1 DEF Others
<1>3. /\ Total(f, most) \in Nat /\ Cardinality(Others(f, most, j)) \in Nat
      /\ Total(f, most) = Cardinality(Others(f, most, j)) + f[j]
  BY TotalIs
<1>4. /\ Total(g, most) \in Nat /\ Cardinality(Others(g, most, j)) \in Nat
      /\ Total(g, most) = Cardinality(Others(g, most, j)) + g[j]
  BY TotalIs
<1> QED BY <1>1, <1>2, <1>3, <1>4

\* Nothing counted sums to nothing.
LEMMA TotalOfNone ==
  ASSUME NEW D, NEW most \in Nat PROVE Total([x \in D |-> 0], most) = 0
<1>1. {x \in D \X (1 .. most) : x[2] <= [y \in D |-> 0][x[1]]} = {} OBVIOUS
<1> QED BY <1>1, FS_EmptySet DEF Total

\* The counts of all but one are within all but one times the most.
LEMMA TotalOfOthers ==
  ASSUME NEW D, IsFiniteSet(D), NEW most \in Nat, NEW f \in [D -> 0 .. most], NEW j \in D, f[j] = 0
  PROVE  Total(f, most) <= (Cardinality(D) - 1) * most
<1>1. IsFiniteSet(D \ {j}) /\ Cardinality(D \ {j}) = Cardinality(D) - 1 BY FS_RemoveElement
<1>2. IsFiniteSet(1 .. most) /\ Cardinality(1 .. most) = most
  <2>1. IsFiniteSet(1 .. most) /\ Cardinality(1 .. most) = IF 1 > most THEN 0 ELSE most - 1 + 1
    BY FS_Interval
  <2> QED BY <2>1
<1>3. IsFiniteSet((D \ {j}) \X (1 .. most))
      /\ Cardinality((D \ {j}) \X (1 .. most)) = Cardinality(D \ {j}) * Cardinality(1 .. most)
  BY <1>1, <1>2, FS_Product
<1>4. {x \in D \X (1 .. most) : x[2] <= f[x[1]]} \in SUBSET ((D \ {j}) \X (1 .. most))
  OBVIOUS
<1>5. Cardinality({x \in D \X (1 .. most) : x[2] <= f[x[1]]}) <= Cardinality((D \ {j}) \X (1 .. most))
  BY <1>3, <1>4, FS_Subset
<1>6. Total(f, most) = Cardinality({x \in D \X (1 .. most) : x[2] <= f[x[1]]}) BY DEF Total
<1> QED BY <1>1, <1>2, <1>3, <1>5, <1>6

\* The ceilings are numbers, and there are finitely many projects and handlers.
LEMMA ProfilesNumbers ==
  /\ MaxRows \in Nat \ {0} /\ Projects \in Nat \ {0} /\ Workers \in Nat \ {0}
  /\ MaxProfiles \in Nat \ {0} /\ CloneMax \in Nat \ {0} /\ MaxRestores \in Nat \ {0}
  /\ (Workers - 1) * CloneMax \in Nat
  /\ IsFiniteSet(Project) /\ IsFiniteSet(Worker) /\ Cardinality(Worker) = Workers
<1>1. /\ MaxRows \in Nat \ {0} /\ Projects \in Nat \ {0} /\ Workers \in Nat \ {0}
      /\ MaxProfiles \in Nat \ {0} /\ CloneMax \in Nat \ {0} /\ MaxRestores \in Nat \ {0}
  BY ProfilesAssumption
<1>2. IsFiniteSet(Project) BY <1>1, FS_Interval DEF Project
<1>3. IsFiniteSet(Worker) /\ Cardinality(Worker) = Workers
  <2>1. IsFiniteSet(1 .. Workers)
        /\ Cardinality(1 .. Workers) = IF 1 > Workers THEN 0 ELSE Workers - 1 + 1
    BY <1>1, FS_Interval
  <2> QED BY <1>1, <2>1 DEF Worker
<1>4. Workers - 1 \in Nat /\ CloneMax \in Nat BY <1>1
<1>5. (Workers - 1) * CloneMax \in Nat BY <1>4
<1> QED BY <1>1, <1>2, <1>3, <1>5

\* The sum of the rows of all projects changes by what one project's do.
LEMMA RowsMove ==
  ASSUME NEW f \in [Project -> 0 .. MaxRows], NEW g \in [Project -> 0 .. MaxRows],
         NEW j \in Project, \A i \in Project \ {j} : g[i] = f[i]
  PROVE  /\ SumOf(f) \in Nat /\ f[j] <= SumOf(f)
         /\ SumOf(g) = SumOf(f) - f[j] + g[j]
<1>1. IsFiniteSet(Project) /\ MaxRows \in Nat BY ProfilesNumbers
<1> QED BY <1>1, TotalChanges DEF SumOf

\* ...when one project's rows are written.
LEMMA CountChanges ==
  ASSUME NEW f \in [Project -> 0 .. MaxRows], NEW j \in Project, NEW v \in 0 .. MaxRows
  PROVE  SumOf([f EXCEPT ![j] = v]) = SumOf(f) - f[j] + v
<1> DEFINE g == [f EXCEPT ![j] = v]
<1>1. g \in [Project -> 0 .. MaxRows] /\ g[j] = v /\ \A i \in Project \ {j} : g[i] = f[i] OBVIOUS
<1> HIDE DEF g
<1>2. SumOf(g) = SumOf(f) - f[j] + g[j] BY <1>1, RowsMove
<1> QED BY <1>1, <1>2 DEF g

\* A handler may write as many rows as one request asks for.
LEMMA DueTyped ==
  ASSUME ProfilesTypeOK
  PROVE  /\ Due \in [Worker -> 0 .. CloneMax] /\ Waiting \in Nat
<1>1. Due \in [Worker -> 0 .. CloneMax]
  BY ProfilesNumbers DEF Due, ProfilesTypeOK, Job, NoJob
<1>2. 1 \in Worker BY ProfilesNumbers DEF Worker
<1> QED BY <1>1, <1>2, TotalIs, ProfilesNumbers DEF Waiting

\* A handler that starts, goes on or ends changes what waits by its own part, and
\* what the others wait for is bounded.
LEMMA DueMoves ==
  ASSUME ProfilesTypeOK, NEW w \in Worker, NEW job \in Job \cup {NoJob},
         jobs' = [jobs EXCEPT ![w] = job]
  PROVE  LET v == IF job.what = "insert" THEN job.left ELSE 0 IN
           /\ v \in 0 .. CloneMax
           /\ Waiting' = Waiting - Due[w] + v
           /\ Due[w] = 0 => Waiting <= (Workers - 1) * CloneMax
<1> DEFINE v == IF job.what = "insert" THEN job.left ELSE 0
<1>1. v \in 0 .. CloneMax BY ProfilesNumbers DEF Job, NoJob
<1>2. Due' = [Due EXCEPT ![w] = v] BY DEF Due, ProfilesTypeOK
<1> HIDE DEF v
<1>3. Total(Due', CloneMax) = Total(Due, CloneMax) - Due[w] + v
  <2>1. Due \in [Worker -> 0 .. CloneMax] BY DueTyped
  <2>2. Due' \in [Worker -> 0 .. CloneMax] /\ Due'[w] = v /\ \A u \in Worker \ {w} : Due'[u] = Due[u]
    BY <1>1, <1>2, <2>1
  <2>3. IsFiniteSet(Worker) /\ CloneMax \in Nat BY ProfilesNumbers
  <2> HIDE DEF Due
  <2>4. Total(Due', CloneMax) = Total(Due, CloneMax) - Due[w] + Due'[w]
    BY <2>1, <2>2, <2>3, TotalChanges
  <2> QED BY <2>2, <2>4
<1>4. Due[w] = 0 => Total(Due, CloneMax) <= (Workers - 1) * CloneMax
  BY DueTyped, TotalOfOthers, ProfilesNumbers
<1>5. Waiting' = Total(Due', CloneMax) BY DEF Waiting
<1>6. Waiting' = Waiting - Due[w] + v BY <1>3, <1>5 DEF Waiting
<1>7. Due[w] = 0 => Waiting <= (Workers - 1) * CloneMax BY <1>4 DEF Waiting
<1> QED BY <1>1, <1>6, <1>7 DEF v

\* There is no project and nobody asks.
LEMMA ProfilesStart == ProfilesInit => ProfilesInv
<1> SUFFICES ASSUME ProfilesInit PROVE ProfilesInv
  OBVIOUS
<1>1. ProfilesTypeOK BY ProfilesNumbers DEF ProfilesInit, ProfilesTypeOK
<1>2. SumOf(live) = 0 /\ SumOf(trash) = 0
  BY TotalOfNone, ProfilesNumbers DEF ProfilesInit, SumOf
<1>3. Due = [w \in Worker |-> 0] BY DEF ProfilesInit, Due, NoJob
<1>4. Waiting = 0 BY <1>3, TotalOfNone, ProfilesNumbers DEF Waiting
<1>5. RowsBound BY <1>2, ProfilesNumbers DEF RowsBound
<1>6. RoomInv BY <1>2, <1>4, ProfilesNumbers DEF RoomInv, ProfilesInit
<1> QED BY <1>1, <1>5, <1>6 DEF ProfilesInv

\* One step per statement: a handler counts all it may write before it writes
\* any, so rows and promises together grow only from a count that found room,
\* or from the trash (api.rs ensure_room_for_profiles, clone_profile,
\* restore_profile, move_profiles).
LEMMA ProfilesStep == ProfilesInv /\ [ProfilesNext]_profilesVars => ProfilesInv'
<1> SUFFICES ASSUME ProfilesInv, [ProfilesNext]_profilesVars PROVE ProfilesInv'
  OBVIOUS
<1> USE ProfilesNumbers
<1>0. /\ project \in [Project -> {"none", "live", "deleted"}]
      /\ live \in [Project -> 0 .. MaxRows] /\ trash \in [Project -> 0 .. MaxRows]
      /\ jobs \in [Worker -> Job \cup {NoJob}] /\ restored \in 0 .. MaxRestores
  BY DEF ProfilesInv, ProfilesTypeOK
<1>00. /\ SumOf(live) + SumOf(trash) <= MaxRows
       /\ SumOf(live) + Waiting <= MaxProfiles + restored + (Workers - 1) * CloneMax
       /\ SumOf(live) \in Nat /\ SumOf(trash) \in Nat /\ Waiting \in Nat
  <2>1. 1 \in Project /\ 0 \in 0 .. MaxRows BY DEF Project
  <2> QED BY <1>0, <2>1, RowsMove, DueTyped DEF ProfilesInv, RowsBound, RoomInv
<1>1. CASE UNCHANGED profilesVars
  BY <1>1 DEF profilesVars, ProfilesInv, ProfilesTypeOK, RowsBound, RoomInv, Waiting, Due, SumOf
<1>2. ASSUME NEW j \in Project, CreatesProject(j) PROVE ProfilesInv'
  BY <1>2 DEF CreatesProject, ProfilesInv, ProfilesTypeOK, RowsBound, RoomInv, Waiting, Due, SumOf
<1>3. ASSUME NEW j \in Project, DeletesProject(j) PROVE ProfilesInv'
  <2>1. live[j] <= SumOf(live) /\ trash[j] <= SumOf(trash) /\ live[j] \in Nat /\ trash[j] \in Nat
    BY <1>0, RowsMove
  <2>2. trash[j] + live[j] \in 0 .. MaxRows /\ 0 \in 0 .. MaxRows BY <1>00, <2>1
  <2>3. live' = [live EXCEPT ![j] = 0] /\ trash' = [trash EXCEPT ![j] = trash[j] + live[j]]
        /\ UNCHANGED <<jobs, restored>> /\ project' = [project EXCEPT ![j] = "deleted"]
    BY <1>3 DEF DeletesProject
  <2>4. SumOf(live') = SumOf(live) - live[j] /\ SumOf(trash') = SumOf(trash) + live[j]
    <3>1. SumOf([live EXCEPT ![j] = 0]) = SumOf(live) - live[j] + 0 BY <1>0, <2>2, CountChanges
    <3>2. SumOf([trash EXCEPT ![j] = trash[j] + live[j]]) = SumOf(trash) - trash[j] + (trash[j] + live[j])
      BY <1>0, <2>2, CountChanges
    <3> QED BY <1>00, <2>1, <2>3, <3>1, <3>2
  <2>5. ProfilesTypeOK' BY <1>0, <2>2, <2>3 DEF ProfilesTypeOK
  <2>6. Waiting' = Waiting BY <2>3 DEF Waiting, Due
  <2>7. RowsBound' /\ RoomInv' BY <1>0, <1>00, <2>1, <2>3, <2>4, <2>6 DEF RowsBound, RoomInv, SumOf
  <2> QED BY <2>5, <2>7 DEF ProfilesInv
<1>4. ASSUME NEW w \in Worker, NEW job \in Job, Starts(w, job),
             job.what = "insert" => Room(job.left)
      PROVE  ProfilesInv'
  <2>1. jobs[w] = NoJob /\ jobs' = [jobs EXCEPT ![w] = job]
        /\ UNCHANGED <<project, live, trash, restored>>
    BY <1>4 DEF Starts
  <2>2. ProfilesTypeOK' BY <1>0, <2>1 DEF ProfilesTypeOK
  <2>3. Due[w] = 0 BY <2>1 DEF Due, NoJob
  <2>4. Waiting' = Waiting + (IF job.what = "insert" THEN job.left ELSE 0)
        /\ Waiting <= (Workers - 1) * CloneMax
    <3> DEFINE v == IF job.what = "insert" THEN job.left ELSE 0
    <3>1. v \in 0 .. CloneMax /\ Waiting' = Waiting - Due[w] + v /\ Waiting <= (Workers - 1) * CloneMax
      BY <2>1, <2>3, DueMoves DEF ProfilesInv
    <3>2. v \in Nat BY <3>1
    <3> HIDE DEF v
    <3>3. Waiting' = Waiting + v BY <1>00, <2>3, <3>1, <3>2
    <3> QED BY <3>1, <3>3 DEF v
  <2>5. SumOf(live') = SumOf(live) /\ SumOf(trash') = SumOf(trash) BY <2>1
  <2>6. RowsBound' BY <2>5, <1>00 DEF RowsBound, SumOf
  <2>7. RoomInv'
    <3>1. CASE job.what = "insert"
      <4>1. SumOf(live) + job.left <= MaxProfiles /\ job.left \in Nat BY <1>4, <3>1 DEF Room, Job
      <4> QED BY <1>0, <1>00, <2>1, <2>4, <2>5, <3>1, <4>1 DEF RoomInv, SumOf
    <3>2. CASE job.what # "insert"
      BY <1>0, <1>00, <2>1, <2>4, <2>5, <3>2 DEF RoomInv, SumOf
    <3> QED BY <3>1, <3>2
  <2> QED BY <2>2, <2>6, <2>7 DEF ProfilesInv
<1>5. ASSUME NEW w \in Worker, NEW j \in Project, AsksCreate(w, j) PROVE ProfilesInv'
  <2>1. [what |-> "insert", in |-> j, left |-> 1] \in Job BY DEF Job
  <2> QED BY <2>1, <1>4, <1>5 DEF AsksCreate
<1>6. ASSUME NEW w \in Worker, NEW j \in Project, NEW n \in 1 .. CloneMax, AsksClone(w, j, n)
      PROVE  ProfilesInv'
  <2>1. [what |-> "insert", in |-> j, left |-> n] \in Job BY DEF Job
  <2> QED BY <2>1, <1>4, <1>6 DEF AsksClone
<1>7. ASSUME NEW w \in Worker, NEW j \in Project, AsksRestore(w, j) PROVE ProfilesInv'
  <2>1. [what |-> "restore", in |-> j, left |-> 1] \in Job BY DEF Job
  <2> QED BY <2>1, <1>4, <1>7 DEF AsksRestore
<1>8. ASSUME NEW w \in Worker, Inserts(w) PROVE ProfilesInv'
  <2> DEFINE j == jobs[w].in
             job == IF jobs[w].left > 1 THEN [jobs[w] EXCEPT !.left = @ - 1] ELSE NoJob
             due == jobs[w].left
  <2>1. jobs[w] \in Job /\ jobs[w].what = "insert" /\ j \in Project /\ due \in 1 .. CloneMax
        /\ SumOf(live) + SumOf(trash) < MaxRows
    BY <1>0, <1>8 DEF Inserts, Job, NoJob
  <2>2. jobs' = [jobs EXCEPT ![w] = job] BY <1>0, <1>8 DEF Inserts, Ends
  <2>3. job \in Job \cup {NoJob} /\ (IF job.what = "insert" THEN job.left ELSE 0) = due - 1
    <3>1. CASE due > 1
      <4>1. due - 1 \in 1 .. CloneMax BY <2>1, <3>1
      <4> QED BY <2>1, <3>1, <4>1 DEF Job
    <3>2. CASE ~ (due > 1) BY <2>1, <3>2 DEF NoJob
    <3> QED BY <3>1, <3>2
  <2>4. Due[w] = due BY <2>1 DEF Due
  <2>5. live' = [live EXCEPT ![j] = live[j] + 1] /\ UNCHANGED <<project, trash, restored>>
    BY <1>8 DEF Inserts
  <2> HIDE DEF j, job, due
  <2>6. live[j] <= SumOf(live) /\ live[j] \in Nat BY <1>0, <2>1, RowsMove
  <2>7. live[j] + 1 \in 0 .. MaxRows BY <1>00, <2>1, <2>6
  <2>8. SumOf(live') = SumOf(live) + 1
    <3>1. SumOf([live EXCEPT ![j] = live[j] + 1]) = SumOf(live) - live[j] + (live[j] + 1)
      BY <1>0, <1>00, <2>1, <2>5, <2>6, <2>7, CountChanges
    <3>2. live' = [live EXCEPT ![j] = live[j] + 1] BY <1>0, <1>00, <2>1, <2>5, <2>6, <2>7
    <3> QED BY <1>0, <1>00, <2>1, <2>5, <2>6, <2>7, <3>1, <3>2
  <2>9. Waiting' = Waiting - 1
    <3>1. Waiting' = Waiting - due + (due - 1) BY <2>2, <2>3, <2>4, DueMoves DEF ProfilesInv
    <3> QED BY <3>1, <1>00, <2>1
  <2>10. ProfilesTypeOK' BY <1>0, <2>1, <2>2, <2>3, <2>5, <2>7 DEF ProfilesTypeOK
  <2>11. RowsBound' BY <1>00, <2>1, <2>5, <2>8 DEF RowsBound, SumOf
  <2>12. RoomInv' BY <1>0, <1>00, <2>5, <2>8, <2>9 DEF RoomInv, SumOf
  <2> QED BY <2>10, <2>11, <2>12 DEF ProfilesInv
<1>9. ASSUME NEW w \in Worker, Ends(w) PROVE Waiting' \in Nat /\ Waiting' <= Waiting
                                             /\ jobs' \in [Worker -> Job \cup {NoJob}]
  <2>1. jobs' = [jobs EXCEPT ![w] = NoJob] BY <1>9 DEF Ends
  <2>2. Waiting' = Waiting - Due[w] + 0
    <3>1. (IF NoJob.what = "insert" THEN NoJob.left ELSE 0) = 0 BY DEF NoJob
    <3>2. NoJob \in Job \cup {NoJob} OBVIOUS
    <3>3. Waiting' = Waiting - Due[w] + (IF NoJob.what = "insert" THEN NoJob.left ELSE 0)
      BY <2>1, <3>2, DueMoves DEF ProfilesInv
    <3> QED BY <3>1, <3>3
  <2>3. Due \in [Worker -> 0 .. CloneMax] /\ Due[w] <= Waiting
    BY DueTyped, TotalChanges DEF Waiting, ProfilesInv
  <2>4. Due[w] \in Nat BY <2>3
  <2> QED BY <1>0, <1>00, <2>1, <2>2, <2>3, <2>4
<1>10. ASSUME NEW w \in Worker, InsertFails(w) PROVE ProfilesInv'
  <2>1. Ends(w) /\ UNCHANGED <<project, live, trash, restored>> BY <1>10 DEF InsertFails
  <2>2. Waiting' \in Nat /\ Waiting' <= Waiting /\ jobs' \in [Worker -> Job \cup {NoJob}]
    BY <2>1, <1>9
  <2>3. ProfilesTypeOK' BY <1>0, <2>1, <2>2 DEF ProfilesTypeOK
  <2>4. RowsBound' /\ RoomInv' BY <1>0, <1>00, <2>1, <2>2 DEF RowsBound, RoomInv, SumOf
  <2> QED BY <2>3, <2>4 DEF ProfilesInv
<1>11. ASSUME NEW w \in Worker, Restores(w) PROVE ProfilesInv'
  <2>1. Ends(w) /\ UNCHANGED project BY <1>11 DEF Restores
  <2>2. Waiting' \in Nat /\ Waiting' <= Waiting /\ jobs' \in [Worker -> Job \cup {NoJob}]
    BY <2>1, <1>9
  <2>3. CASE UNCHANGED <<live, trash, restored>>
    <3>1. ProfilesTypeOK' BY <1>0, <2>1, <2>2, <2>3 DEF ProfilesTypeOK
    <3>2. RowsBound' /\ RoomInv' BY <1>0, <1>00, <2>2, <2>3 DEF RowsBound, RoomInv, SumOf
    <3> QED BY <3>1, <3>2 DEF ProfilesInv
  <2>4. ASSUME NEW j \in Project, trash[j] > 0, restored < MaxRestores,
               trash' = [trash EXCEPT ![j] = @ - 1], live' = [live EXCEPT ![j] = @ + 1],
               restored' = restored + 1
        PROVE  ProfilesInv'
    <3>1. live[j] <= SumOf(live) /\ trash[j] <= SumOf(trash) /\ live[j] \in Nat /\ trash[j] \in Nat
      BY <1>0, RowsMove
    <3>2. live[j] + 1 \in 0 .. MaxRows /\ trash[j] - 1 \in 0 .. MaxRows BY <1>00, <2>4, <3>1
    <3>3. SumOf(live') = SumOf(live) + 1
      <4>1. SumOf([live EXCEPT ![j] = live[j] + 1]) = SumOf(live) - live[j] + (live[j] + 1)
        BY <1>0, <1>00, <2>4, <3>1, <3>2, CountChanges
      <4>2. live' = [live EXCEPT ![j] = live[j] + 1] BY <1>0, <1>00, <2>4, <3>1, <3>2
      <4> QED BY <1>0, <1>00, <2>4, <3>1, <3>2, <4>1, <4>2
    <3>4. SumOf(trash') = SumOf(trash) - 1
      <4>1. SumOf([trash EXCEPT ![j] = trash[j] - 1]) = SumOf(trash) - trash[j] + (trash[j] - 1)
        BY <1>0, <1>00, <2>4, <3>1, <3>2, CountChanges
      <4>2. trash' = [trash EXCEPT ![j] = trash[j] - 1] BY <1>0, <1>00, <2>4, <3>1, <3>2
      <4> QED BY <1>0, <1>00, <2>4, <3>1, <3>2, <4>1, <4>2
    <3>5. ProfilesTypeOK' BY <1>0, <2>1, <2>2, <2>4, <3>2 DEF ProfilesTypeOK
    <3>6. RowsBound' /\ RoomInv' BY <1>0, <1>00, <2>2, <2>4, <3>3, <3>4 DEF RowsBound, RoomInv, SumOf
    <3> QED BY <3>5, <3>6 DEF ProfilesInv
  <2> QED BY <1>11, <2>3, <2>4 DEF Restores
<1>12. ASSUME NEW j \in Project, Deletes(j) PROVE ProfilesInv'
  <2>1. live[j] > 0 /\ live' = [live EXCEPT ![j] = live[j] - 1]
        /\ trash' = [trash EXCEPT ![j] = trash[j] + 1] /\ UNCHANGED <<project, jobs, restored>>
    BY <1>12 DEF Deletes
  <2>2. live[j] <= SumOf(live) /\ trash[j] <= SumOf(trash) /\ live[j] \in Nat /\ trash[j] \in Nat
    BY <1>0, RowsMove
  <2>3. live[j] - 1 \in 0 .. MaxRows /\ trash[j] + 1 \in 0 .. MaxRows BY <1>00, <2>1, <2>2
  <2>4. SumOf(live') = SumOf(live) - 1
    <3>1. SumOf([live EXCEPT ![j] = live[j] - 1]) = SumOf(live) - live[j] + (live[j] - 1)
      BY <1>0, <1>00, <2>1, <2>2, <2>3, CountChanges
    <3>2. live' = [live EXCEPT ![j] = live[j] - 1] BY <1>0, <1>00, <2>1, <2>2, <2>3
    <3> QED BY <1>0, <1>00, <2>1, <2>2, <2>3, <3>1, <3>2
  <2>5. SumOf(trash') = SumOf(trash) + 1
    <3>1. SumOf([trash EXCEPT ![j] = trash[j] + 1]) = SumOf(trash) - trash[j] + (trash[j] + 1)
      BY <1>0, <1>00, <2>1, <2>2, <2>3, CountChanges
    <3>2. trash' = [trash EXCEPT ![j] = trash[j] + 1] BY <1>0, <1>00, <2>1, <2>2, <2>3
    <3> QED BY <1>0, <1>00, <2>1, <2>2, <2>3, <3>1, <3>2
  <2>6. ProfilesTypeOK' BY <1>0, <2>1, <2>3 DEF ProfilesTypeOK
  <2>7. Waiting' = Waiting BY <2>1 DEF Waiting, Due
  <2>8. RowsBound' /\ RoomInv' BY <1>0, <1>00, <2>1, <2>4, <2>5, <2>7 DEF RowsBound, RoomInv, SumOf
  <2> QED BY <2>6, <2>8 DEF ProfilesInv
<1>13. ASSUME NEW j \in Project, Purges(j) PROVE ProfilesInv'
  <2>1. trash[j] > 0 /\ trash' = [trash EXCEPT ![j] = trash[j] - 1]
        /\ UNCHANGED <<project, live, jobs, restored>>
    BY <1>13 DEF Purges
  <2>2. trash[j] \in Nat BY <1>0
  <2>3. trash[j] - 1 \in 0 .. MaxRows BY <1>0, <2>1, <2>2
  <2>4. SumOf(trash') = SumOf(trash) - 1
    <3>1. SumOf([trash EXCEPT ![j] = trash[j] - 1]) = SumOf(trash) - trash[j] + (trash[j] - 1)
      BY <1>0, <1>00, <2>1, <2>2, <2>3, CountChanges
    <3>2. trash' = [trash EXCEPT ![j] = trash[j] - 1] BY <1>0, <1>00, <2>1, <2>2, <2>3
    <3> QED BY <1>0, <1>00, <2>1, <2>2, <2>3, <3>1, <3>2
  <2>5. ProfilesTypeOK' BY <1>0, <2>1, <2>3 DEF ProfilesTypeOK
  <2>6. Waiting' = Waiting BY <2>1 DEF Waiting, Due
  <2>7. RowsBound' /\ RoomInv' BY <1>0, <1>00, <2>1, <2>4, <2>6 DEF RowsBound, RoomInv, SumOf
  <2> QED BY <2>5, <2>7 DEF ProfilesInv
<1>14. ASSUME NEW n \in 1 .. MaxRows, NEW i \in Project, NEW j \in Project, Moves(n, i, j)
       PROVE  ProfilesInv'
  <2>1. i # j /\ n <= live[i] /\ UNCHANGED <<project, trash, jobs, restored>>
        /\ live' = [[live EXCEPT ![i] = live[i] - n] EXCEPT ![j] = live[j] + n]
    BY <1>0, <1>14 DEF Moves
  <2> DEFINE less == [live EXCEPT ![i] = live[i] - n]
  <2>2. live[i] \in Nat /\ live[j] \in Nat /\ n \in Nat /\ live[i] - n \in 0 .. MaxRows
    BY <1>0, <2>1
  <2>3. less \in [Project -> 0 .. MaxRows] /\ less[j] = live[j] BY <1>0, <2>1, <2>2
  <2>4. SumOf(less) = SumOf(live) - n
    <3>1. SumOf([live EXCEPT ![i] = live[i] - n]) = SumOf(live) - live[i] + (live[i] - n)
      BY <1>0, <2>2, CountChanges
    <3> QED BY <1>00, <2>2, <3>1
  <2>5. less[j] <= SumOf(less) BY <2>3, RowsMove
  <2> HIDE DEF less
  <2>6. live[j] + n \in 0 .. MaxRows BY <1>00, <2>2, <2>3, <2>4, <2>5
  <2>7. live' = [less EXCEPT ![j] = live[j] + n] BY <2>1 DEF less
  <2>8. SumOf([less EXCEPT ![j] = live[j] + n]) = SumOf(less) - less[j] + (live[j] + n)
    BY <2>3, <2>6, CountChanges
  <2>9. SumOf(live') = SumOf(live) BY <1>00, <2>2, <2>3, <2>4, <2>7, <2>8
  <2>10. ProfilesTypeOK' BY <1>0, <2>1, <2>3, <2>6, <2>7 DEF ProfilesTypeOK
  <2>11. Waiting' = Waiting BY <2>1 DEF Waiting, Due
  <2>12. RowsBound' /\ RoomInv' BY <1>0, <1>00, <2>1, <2>9, <2>11 DEF RowsBound, RoomInv, SumOf
  <2> QED BY <2>10, <2>12 DEF ProfilesInv
<1> QED
  BY <1>1, <1>2, <1>3, <1>5, <1>6, <1>7, <1>8, <1>10, <1>11, <1>12, <1>13, <1>14 DEF ProfilesNext

\* What waits is not listed yet.
LEMMA RoomIsKept == ProfilesInv => RoomKept
<1> SUFFICES ASSUME ProfilesInv PROVE RoomKept
  OBVIOUS
<1>1. 1 \in Project /\ 0 \in 0 .. MaxRows BY ProfilesNumbers DEF Project
<1>2. SumOf(live) \in Nat BY <1>1, RowsMove DEF ProfilesInv, ProfilesTypeOK
<1>3. Waiting \in Nat /\ restored \in Nat BY DueTyped DEF ProfilesInv, ProfilesTypeOK
<1> QED BY <1>2, <1>3, ProfilesNumbers DEF ProfilesInv, RoomInv, RoomKept

\* The ceiling on profiles gives way only to handlers that counted before one
\* another wrote and to what came back from the trash (api.rs 2545-2585,
\* 3176-3215).
THEOREM ProfilesSafe == ProfilesSpec => [](ProfilesTypeOK /\ RoomKept)
<1>1. ProfilesInv => ProfilesTypeOK /\ RoomKept BY RoomIsKept DEF ProfilesInv
<1> QED BY <1>1, ProfilesStart, ProfilesStep, PTL DEF ProfilesSpec

-----------------------------------------------------------------------------
(* The machines its profiles stand on.                                      *)

(* Whatever is on a machine that is gone, in the trash or on its way in too,*)
(* is loose; so is what went live on one that somebody is about to remove.  *)
LooseInv ==
  /\ \A f \in Seat : seat[f].at # "none" /\ seat[f].on \notin Catalogue => f \in loose
  /\ \A p \in Author : awaits[p].what = "create" /\ awaits[p].machine \notin Catalogue
       => awaits[p].of \in loose
  /\ \A f \in Seat : seat[f].at = "live" /\ Going(seat[f].on) => f \in loose
(* A row on its way in is one request's, and not there yet. *)
MadeOnceInv ==
  /\ \A p \in Author : awaits[p].what = "create" =>
       awaits[p].of \in Seat /\ seat[awaits[p].of].at = "none"
  /\ \A p, q \in Author : awaits[p].what = "create" /\ awaits[q].what = "create"
       /\ awaits[p].of = awaits[q].of => p = q

MachinesInv == MachinesTypeOK /\ LooseInv /\ MadeOnceInv

\* No machine is captured and no profile made.
LEMMA MachinesStart == MachinesInit => MachinesInv
BY DEF MachinesInit, MachinesInv, MachinesTypeOK, LooseInv, MadeOnceInv, Undecided

\* One step per statement of the handlers: what was checked about a machine may
\* be gone when the row is written, and that row is then loose (api.rs 1640-1710,
\* create_profile, clone_profile).
LEMMA MachinesStep == MachinesInv /\ [MachinesNext]_machineVars => MachinesInv'
<1> SUFFICES ASSUME MachinesInv, [MachinesNext]_machineVars PROVE MachinesInv'
  OBVIOUS
<1> USE MachinesAssumption DEF MachinesInv, MachinesTypeOK, Catalogue, Undecided, Defers, Writes, Going
<1>1. CASE UNCHANGED machineVars
  BY <1>1 DEF LooseInv, MadeOnceInv, machineVars
<1>2. ASSUME NEW p \in Author, NEW k \in Captured, AsksMachine(p, k) PROVE MachinesInv'
  BY <1>2 DEF AsksMachine, LooseInv, MadeOnceInv
<1>3. ASSUME NEW p \in Author, NEW k \in Captured, AsksDeletion(p, k) PROVE MachinesInv'
  <2>1. MachinesTypeOK' BY <1>3 DEF AsksDeletion
  <2>2. MadeOnceInv' BY <1>3 DEF AsksDeletion, MadeOnceInv
  <2>3. LooseInv' BY <1>3 DEF AsksDeletion, LooseInv, Used
  <2> QED BY <2>1, <2>2, <2>3
<1>4. ASSUME NEW p \in Author, AddsMachine(p) PROVE MachinesInv'
  <2>1. MachinesTypeOK' BY <1>4 DEF AddsMachine
  <2>2. MadeOnceInv' BY <1>4 DEF AddsMachine, MadeOnceInv
  <2>3. LooseInv' BY <1>4 DEF AddsMachine, LooseInv
  <2> QED BY <2>1, <2>2, <2>3
<1>5. ASSUME NEW p \in Author, RemovesMachine(p) PROVE MachinesInv'
  <2>1. MachinesTypeOK' BY <1>5 DEF RemovesMachine, Unseen
  <2>2. MadeOnceInv' BY <1>5 DEF RemovesMachine, MadeOnceInv
  <2>3. LooseInv' BY <1>5 DEF RemovesMachine, Unseen, LooseInv, MadeOnceInv
  <2> QED BY <2>1, <2>2, <2>3
<1>6. ASSUME NEW p \in Author, AddsSeat(p) PROVE MachinesInv'
  <2>1. MachinesTypeOK' BY <1>6 DEF AddsSeat, Late, MadeOnceInv
  <2>2. MadeOnceInv' BY <1>6 DEF AddsSeat, MadeOnceInv
  <2>3. LooseInv' BY <1>6 DEF AddsSeat, Late, LooseInv, MadeOnceInv
  <2> QED BY <2>1, <2>2, <2>3
<1>7. ASSUME NEW p \in Author, NEW f \in Seat, NEW k \in Captured \cup {Stock}, AsksSeat(p, f, k)
      PROVE MachinesInv'
  <2>1. MachinesTypeOK' BY <1>7 DEF AsksSeat
  <2>2. MadeOnceInv' BY <1>7 DEF AsksSeat, Fresh, MadeOnceInv
  <2>3. LooseInv' BY <1>7 DEF AsksSeat, LooseInv
  <2> QED BY <2>1, <2>2, <2>3
<1>8. ASSUME NEW p \in Author, NEW f \in Seat, NEW g \in Seat, AsksCopy(p, f, g) PROVE MachinesInv'
  <2>1. MachinesTypeOK' BY <1>8 DEF AsksCopy
  <2>2. MadeOnceInv' BY <1>8 DEF AsksCopy, Fresh, MadeOnceInv
  <2>3. LooseInv' BY <1>8 DEF AsksCopy, LooseInv
  <2> QED BY <2>1, <2>2, <2>3
<1>9. ASSUME NEW f \in Seat, NEW from \in {"live", "trash"}, NEW to \in {"live", "trash", "none"},
             MovesSeat(f, from, to)
      PROVE MachinesInv'
  <2>1. MachinesTypeOK' BY <1>9 DEF MovesSeat, Late
  <2>2. MadeOnceInv' BY <1>9 DEF MovesSeat, MadeOnceInv
  <2>3. LooseInv' BY <1>9 DEF MovesSeat, Late, LooseInv, MadeOnceInv
  <2> QED BY <2>1, <2>2, <2>3
<1> QED
  BY <1>1, <1>2, <1>3, <1>4, <1>5, <1>6, <1>7, <1>8, <1>9 DEF MachinesNext

\* A listed profile stands on a machine of the catalogue or of the program,
\* unless a deletion crossed it (api.rs 1704-1706).
THEOREM MachinesSafe == MachinesSpec => [](MachinesTypeOK /\ MachinesStand)
<1>1. MachinesInv => MachinesTypeOK /\ MachinesStand
  BY DEF MachinesInv, LooseInv, MachinesStand
<1> QED BY <1>1, MachinesStart, MachinesStep, PTL DEF MachinesSpec

-----------------------------------------------------------------------------
(* Its proxies and the forms they are edited in.                            *)

(* Every save may mask a host once more. *)
MaskInv ==
  /\ \A x \in ProxyRow : upstream[x].host.masks <= saves
  /\ \A p \in Hand : form[p].host.masks <= saves + 1 /\ sent[p].host.masks <= saves
(* A form shows what is stored, unless the host was changed under it, and   *)
(* what was made of it then is no mask.                                     *)
ShownInv == \A p \in Hand, x \in ProxyRow :
  /\ form[p].of = x => upstream[x].at # "none"
  /\ form[p].of = x /\ x \notin moved =>
       form[p].host = IF Reveals(p) THEN upstream[x].host ELSE MaskHost(upstream[x].host)
  /\ sent[p].of = x /\ x \notin moved => sent[p].host.masks = 0
(* An edit on its way writes no half, or both. *)
PairInv == \A p \in Hand :
  /\ sent[p].of \notin ProxyRow => sent[p] = Nothing
  /\ \A x \in ProxyRow :
       sent[p].of = x /\ x \notin half => sent[p].typed \in {{}, Halves}

ProxiesInv == ProxiesTypeOK /\ MaskInv /\ ShownInv /\ PairInv /\ ProxiesIntact

\* One half of a secret is neither none nor both.
LEMMA HalvesCounted ==
    ASSUME NEW typed \in SUBSET Halves
    PROVE  Cardinality(typed) = 1 <=> typed \notin {{}, Halves}
<1>1. Cardinality({}) = 0 BY FS_EmptySet
<1>2. \A h : Cardinality({h}) = 1 BY FS_Singleton
<1>3. Cardinality(Halves) = 2
  <2>1. IsFiniteSet({"login"}) /\ Cardinality({"login"}) = 1 BY FS_Singleton
  <2>2. Cardinality({"login"} \cup {"password"}) = 2 BY <2>1, FS_AddElement
  <2>3. Halves = {"login"} \cup {"password"} BY DEF Halves
  <2> QED BY <2>2, <2>3
<1>4. typed = {} \/ typed = Halves \/ typed = {"login"} \/ typed = {"password"} BY DEF Halves
<1>5. {"login"} \notin {{}, Halves} /\ {"password"} \notin {{}, Halves} BY DEF Halves
<1>6. Cardinality({}) # 1 /\ Cardinality(Halves) # 1 BY <1>1, <1>3
<1>7. CASE typed = {} \/ typed = Halves BY <1>6, <1>7
<1>8. CASE typed = {"login"} \/ typed = {"password"} BY <1>2, <1>5, <1>8
<1> QED BY <1>4, <1>7, <1>8

\* Masking a host adds one mask to it.
LEMMA TextFacts ==
  /\ \A t \in Text : t.masks \in Nat /\ MaskHost(t) = [of |-> t.of, masks |-> t.masks + 1]
  /\ \A t \in Text : t.masks <= MaxSaves => MaskHost(t) \in Text
  /\ AnyHost \in Text /\ AnyHost.masks = 0
BY ProxiesAssumption DEF Text, MaskHost, AnyHost

\* There is no proxy and no form open.
LEMMA ProxiesStart == ProxiesInit => ProxiesInv
<1> SUFFICES ASSUME ProxiesInit PROVE ProxiesInv
  OBVIOUS
<1> USE TextFacts, ProxiesAssumption DEF ProxiesInit, Closed, Nothing
<1>1. ProxiesTypeOK BY DEF ProxiesTypeOK
<1>2. MaskInv /\ ShownInv /\ PairInv BY DEF MaskInv, ShownInv, PairInv
<1>3. ProxiesIntact BY DEF ProxiesIntact, HostsDialled, PairsKept
<1> QED BY <1>1, <1>2, <1>3 DEF ProxiesInv

\* One step per statement: a form shows the host or its mask, the save undoes the
\* mask it recognises and takes the missing half from what is stored, and the row
\* is written later (api.rs edit_proxy, mask_host; commands.rs save_proxy).
LEMMA ProxiesStep == ProxiesInv /\ [ProxiesNext]_proxyVars => ProxiesInv'
<1> SUFFICES ASSUME ProxiesInv, [ProxiesNext]_proxyVars PROVE ProxiesInv'
  OBVIOUS
<1> USE ProxiesAssumption DEF ProxiesInv, ProxiesIntact
<1>1. CASE UNCHANGED proxyVars
  BY <1>1 DEF ProxiesTypeOK, MaskInv, ShownInv, PairInv, HostsDialled, PairsKept, proxyVars
<1>2. ASSUME NEW p \in Hand, GrantTurns(p) PROVE ProxiesInv'
  BY <1>2 DEF GrantTurns, ProxiesTypeOK, MaskInv, ShownInv, PairInv, HostsDialled, PairsKept
<1>3. ASSUME NEW p \in Hand, NEW x \in ProxyRow, NEW h \in Address, NEW typed \in SUBSET Halves,
             CreatesProxy(p, x, h, typed)
      PROVE ProxiesInv'
  <2>1. [of |-> h, masks |-> 0] \in Text BY DEF Text
  <2>2. ProxiesTypeOK' BY <1>3, <2>1 DEF CreatesProxy, ProxiesTypeOK
  <2>3. MaskInv' BY <1>3 DEF CreatesProxy, ProxiesTypeOK, MaskInv
  <2>4. ShownInv' BY <1>3 DEF CreatesProxy, ProxiesTypeOK, ShownInv
  <2>5. PairInv' BY <1>3 DEF CreatesProxy, PairInv
  <2>6. HostsDialled' BY <1>3 DEF CreatesProxy, ProxiesTypeOK, HostsDialled
  <2>7. PairsKept' BY <1>3 DEF CreatesProxy, ProxiesTypeOK, PairsKept
  <2> QED BY <2>2, <2>3, <2>4, <2>5, <2>6, <2>7
<1>4. ASSUME NEW p \in Hand, NEW x \in ProxyRow, OpensForm(p, x) PROVE ProxiesInv'
  <2> DEFINE t == IF Reveals(p) THEN upstream[x].host ELSE MaskHost(upstream[x].host)
  <2>1. upstream[x].host \in Text /\ saves <= MaxSaves /\ saves \in Nat BY DEF ProxiesTypeOK
  <2>2. t \in Text /\ t.masks <= saves + 1 BY <2>1, TextFacts DEF MaskInv
  <2>3. form' = [form EXCEPT ![p] = [of |-> x, host |-> t]] BY <1>4 DEF OpensForm
  <2>4. ShownInv' BY <1>4, <2>3 DEF OpensForm, ProxiesTypeOK, ShownInv, Reveals
  <2> HIDE DEF t
  <2>5. ProxiesTypeOK' BY <1>4, <2>2, <2>3 DEF OpensForm, ProxiesTypeOK
  <2>6. MaskInv' BY <1>4, <2>2, <2>3 DEF OpensForm, ProxiesTypeOK, MaskInv
  <2>7. PairInv' /\ HostsDialled' /\ PairsKept' BY <1>4 DEF OpensForm, PairInv, HostsDialled, PairsKept
  <2> QED BY <2>4, <2>5, <2>6, <2>7
<1>5. ASSUME NEW p \in Hand, NEW x \in ProxyRow, RetiresProxy(p, x) PROVE ProxiesInv'
  <2>1. upstream' = [upstream EXCEPT ![x].at = "retired"] /\ upstream[x].at = "live"
        /\ UNCHANGED <<trusted, form, sent, saves, moved, half>>
    BY <1>5 DEF RetiresProxy, MayChangeProxy
  <2>2. ProxiesTypeOK'
    <3>1. upstream[x] \in [at : {"none", "live", "retired"}, by : Hand \cup {NoMember},
                           host : Text, sealed : SUBSET Halves]
      BY DEF ProxiesTypeOK
    <3>2. [upstream[x] EXCEPT !.at = "retired"]
            \in [at : {"none", "live", "retired"}, by : Hand \cup {NoMember},
                 host : Text, sealed : SUBSET Halves]
      BY <3>1
    <3> QED BY <2>1, <3>2 DEF ProxiesTypeOK
  <2>3. \A y \in ProxyRow : /\ upstream'[y].host = upstream[y].host
                            /\ upstream'[y].sealed = upstream[y].sealed
                            /\ upstream'[y].at = "live" => upstream[y].at = "live"
                            /\ upstream[y].at # "none" => upstream'[y].at # "none"
    BY <2>1 DEF ProxiesTypeOK
  <2>4. MaskInv' BY <2>1, <2>3 DEF MaskInv
  <2>5. ShownInv' BY <2>1, <2>3 DEF ShownInv, Reveals
  <2>6. PairInv' BY <2>1 DEF PairInv
  <2>7. HostsDialled' BY <2>1, <2>3 DEF HostsDialled
  <2>8. PairsKept' BY <2>1, <2>3 DEF PairsKept
  <2> QED BY <2>2, <2>4, <2>5, <2>6, <2>7, <2>8
<1>6. ASSUME NEW p \in Hand, NEW text \in Text, NEW typed \in SUBSET Halves, SavesForm(p, text, typed)
      PROVE ProxiesInv'
  <2> DEFINE x == form[p].of
             h == HostMeant(upstream[x].host, text)
             w == WithStored(p, x, typed)
  <2>1. x \in ProxyRow /\ upstream[x].host \in Text /\ saves \in Nat /\ saves + 1 <= MaxSaves
    BY <1>6 DEF SavesForm, ProxiesTypeOK
  <2>2. sent' = [sent EXCEPT ![p] = [of |-> x, host |-> h, typed |-> w]]
        /\ saves' = saves + 1 /\ UNCHANGED <<upstream, form, moved, trusted>>
    BY <1>6 DEF SavesForm
  <2>3. h \in Text /\ h.masks <= saves + 1
    BY <1>6, <2>1, TextFacts DEF SavesForm, HostMeant, MaskInv
  <2>4. x \notin moved => h.masks = 0
    <3> SUFFICES ASSUME x \notin moved PROVE h.masks = 0
      OBVIOUS
    <3>1. upstream[x].host.masks = 0 BY <2>1, TextFacts DEF HostsDialled
    <3>2. text.masks = 0 \/ text = upstream[x].host \/ text = MaskHost(upstream[x].host)
      BY <1>6, <2>1 DEF SavesForm, ShownInv
    <3> QED BY <3>1, <3>2 DEF HostMeant
  <2>5. w \subseteq Halves BY <2>1 DEF WithStored, ProxiesTypeOK
  <2>6. x \notin half' => w \in {{}, Halves}
    <3>1. CASE Cardinality(typed) = 1
      <4>1. x \notin half' => upstream[x].sealed = Halves BY <1>6, <3>1 DEF SavesForm
      <4> QED BY <3>1, <4>1 DEF WithStored
    <3>2. CASE Cardinality(typed) # 1 BY <3>2, HalvesCounted DEF WithStored
    <3> QED BY <3>1, <3>2
  <2>7. half \subseteq half' /\ half' \subseteq ProxyRow BY <1>6, <2>1 DEF SavesForm, ProxiesTypeOK
  <2> HIDE DEF x, h, w
  <2>8. ProxiesTypeOK' BY <2>1, <2>2, <2>3, <2>5, <2>7 DEF ProxiesTypeOK
  <2>9. MaskInv'
    <3>1. \A y \in ProxyRow : upstream[y].host.masks \in Nat BY TextFacts DEF ProxiesTypeOK
    <3>2. \A q \in Hand : form[q].host.masks \in Nat /\ sent[q].host.masks \in Nat
      BY TextFacts DEF ProxiesTypeOK
    <3> QED BY <2>1, <2>2, <2>3, <3>1, <3>2 DEF MaskInv, ProxiesTypeOK
  <2>10. ShownInv' BY <2>2, <2>4 DEF ShownInv, ProxiesTypeOK
  <2>11. PairInv'
    <3>1. \A q \in Hand : sent'[q] = IF q = p THEN [of |-> x, host |-> h, typed |-> w] ELSE sent[q]
      BY <2>2 DEF ProxiesTypeOK
    <3>2. sent'[p].of = x /\ sent'[p].typed = w BY <3>1
    <3>3. ASSUME NEW q \in Hand, q # p
          PROVE  /\ sent'[q].of \notin ProxyRow => sent'[q] = Nothing
                 /\ \A y \in ProxyRow :
                      sent'[q].of = y /\ y \notin half' => sent'[q].typed \in {{}, Halves}
      BY <3>1, <3>3, <2>7 DEF PairInv
    <3> QED BY <3>2, <3>3, <2>1, <2>6 DEF PairInv
  <2>12. HostsDialled' /\ PairsKept' BY <2>2, <2>7 DEF HostsDialled, PairsKept
  <2> QED BY <2>8, <2>9, <2>10, <2>11, <2>12
<1>7. ASSUME NEW p \in Hand, EditsProxy(p) PROVE ProxiesInv'
  <2> DEFINE s == sent[p]
             x == s.of
  <2>1. s \in [of : ProxyRow \cup {"none"}, host : Text, typed : SUBSET Halves]
    BY DEF ProxiesTypeOK
  <2>2. Nothing \in [of : ProxyRow \cup {"none"}, host : Text, typed : SUBSET Halves]
        /\ Nothing.host.masks = 0 /\ Nothing.typed = {} /\ Closed.host.masks = 0 /\ Closed.of = "none"
        /\ Closed \in [of : ProxyRow \cup {"none"}, host : Text]
    BY TextFacts DEF Nothing, Closed
  <2>3. sent' = [sent EXCEPT ![p] = Nothing] /\ form' = [form EXCEPT ![p] = Closed]
        /\ UNCHANGED <<trusted, saves, half>>
    BY <1>7 DEF EditsProxy
  <2>4. CASE upstream[x].at = "live" /\ x \in ProxyRow
    <3> DEFINE w == IF s.typed = {} THEN upstream[x].sealed ELSE s.typed
    <3>1. /\ upstream' = [upstream EXCEPT ![x].host = s.host, ![x].sealed = w]
          /\ moved' = IF s.host # upstream[x].host /\ (\E q \in Hand \ {p} : form[q].of = x)
                      THEN moved \cup {x} ELSE moved
      BY <1>7, <2>4 DEF EditsProxy
    <3>2. w \in SUBSET Halves /\ (x \notin half => w = upstream[x].sealed \/ w = Halves)
      BY <2>1, <2>4 DEF PairInv, ProxiesTypeOK
    <3>3. s.host \in Text /\ s.host.masks <= saves /\ (x \notin moved => s.host.masks = 0)
      BY <2>1, <2>4 DEF MaskInv, ShownInv
    <3> HIDE DEF w, s, x
    <3>4. /\ \A y \in ProxyRow \ {x} : upstream'[y] = upstream[y]
          /\ upstream'[x].host = s.host /\ upstream'[x].sealed = w /\ upstream'[x].at = "live"
      BY <3>1, <2>4 DEF ProxiesTypeOK
    <3>5. ProxiesTypeOK'
      <4>1. upstream' \in [ProxyRow -> [at : {"none", "live", "retired"}, by : Hand \cup {NoMember},
                                        host : Text, sealed : SUBSET Halves]]
        <5>1. upstream[x] \in [at : {"none", "live", "retired"}, by : Hand \cup {NoMember},
                               host : Text, sealed : SUBSET Halves]
          BY <2>4 DEF ProxiesTypeOK
        <5>2. [upstream[x] EXCEPT !.host = s.host, !.sealed = w]
                \in [at : {"none", "live", "retired"}, by : Hand \cup {NoMember},
                    host : Text, sealed : SUBSET Halves]
          BY <5>1, <3>2, <3>3
        <5>3. upstream' = [upstream EXCEPT ![x] = [upstream[x] EXCEPT !.host = s.host, !.sealed = w]]
          BY <3>1, <2>4 DEF ProxiesTypeOK
        <5> HIDE DEF ProxiesTypeOK
        <5> QED BY <5>2, <5>3, <2>4 DEF ProxiesTypeOK
      <4> QED BY <4>1, <2>2, <2>3, <2>4, <3>1 DEF ProxiesTypeOK
    <3>6. MaskInv'
      <4>1. \A y \in ProxyRow : upstream'[y].host.masks <= saves'
        BY <2>3, <3>3, <3>4 DEF MaskInv
      <4>2. \A q \in Hand : form'[q].host.masks <= saves' + 1 /\ sent'[q].host.masks <= saves'
        BY <2>2, <2>3 DEF MaskInv, ProxiesTypeOK
      <4> QED BY <4>1, <4>2 DEF MaskInv
    <3>7. ShownInv'
      <4> SUFFICES ASSUME NEW q \in Hand, NEW y \in ProxyRow
                   PROVE  /\ form'[q].of = y => upstream'[y].at # "none"
                          /\ form'[q].of = y /\ y \notin moved' =>
                               form'[q].host = IF Reveals(q) THEN upstream'[y].host
                                               ELSE MaskHost(upstream'[y].host)
                          /\ sent'[q].of = y /\ y \notin moved' => sent'[q].host.masks = 0
        BY DEF ShownInv, Reveals
      <4>1. y \notin moved' => y \notin moved BY <3>1
      <4>2. CASE q = p
        BY <4>2, <2>2, <2>3, ProxiesAssumption DEF ProxiesTypeOK
      <4>3. CASE q # p
        <5>1. form'[q] = form[q] /\ sent'[q] = sent[q] BY <4>3, <2>3 DEF ProxiesTypeOK
        <5>2. form[q].of = x /\ x \notin moved' => s.host = upstream[x].host BY <4>3, <3>1
        <5>3. CASE y = x BY <5>1, <5>2, <5>3, <4>1, <3>4 DEF ShownInv
        <5>4. CASE y # x BY <5>1, <5>4, <4>1, <3>4 DEF ShownInv
        <5> QED BY <5>3, <5>4
      <4> QED BY <4>2, <4>3
    <3>8. PairInv' BY <2>2, <2>3 DEF PairInv, ProxiesTypeOK
    <3>9. HostsDialled'
      <4>1. upstream'[x].host.masks > 0 => x \in moved'
        BY <3>1, <3>3, <3>4, ProxiesAssumption
      <4>2. moved \subseteq moved' BY <3>1
      <4> QED BY <4>1, <4>2, <3>4 DEF HostsDialled
    <3>10. PairsKept' BY <2>3, <2>4, <3>2, <3>4 DEF PairsKept
    <3> QED BY <3>5, <3>6, <3>7, <3>8, <3>9, <3>10
  <2>5. CASE ~ (upstream[x].at = "live" /\ x \in ProxyRow)
    <3>1. x \in ProxyRow BY <1>7 DEF EditsProxy, PairInv
    <3>2. CASE upstream[x].at # "live"
      <4>1. UNCHANGED <<upstream, moved>> BY <1>7, <3>2 DEF EditsProxy
      <4>2. ProxiesTypeOK' BY <4>1, <2>2, <2>3 DEF ProxiesTypeOK
      <4>3. MaskInv' BY <4>1, <2>2, <2>3 DEF MaskInv, ProxiesTypeOK
      <4>4. ShownInv' BY <4>1, <2>2, <2>3 DEF ShownInv, ProxiesTypeOK, Reveals
      <4>5. PairInv' BY <2>2, <2>3 DEF PairInv, ProxiesTypeOK
      <4>6. HostsDialled' /\ PairsKept' BY <4>1, <2>3 DEF HostsDialled, PairsKept
      <4> QED BY <4>2, <4>3, <4>4, <4>5, <4>6
    <3> QED BY <2>5, <3>1, <3>2
  <2> QED BY <2>4, <2>5
<1> QED
  BY <1>1, <1>2, <1>3, <1>4, <1>5, <1>6, <1>7 DEF ProxiesNext

\* No proxy dials the mask of a host unless its host changed under an open form,
\* and one sealed with both halves keeps both (api.rs 2726-2729, commands.rs
\* 2613-2616).
THEOREM ProxiesSafe == ProxiesSpec => [](ProxiesTypeOK /\ ProxiesIntact)
<1>1. ProxiesInv => ProxiesTypeOK /\ ProxiesIntact BY DEF ProxiesInv
<1> QED BY <1>1, ProxiesStart, ProxiesStep, PTL DEF ProxiesSpec
=============================================================================
