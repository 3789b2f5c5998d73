------------------------------- MODULE MCServer ------------------------------
(* What the server keeps in its database, part by part: a behaviour is one  *)
(* component's, chosen at the start, and the others stand still.            *)
EXTENDS OrgKey, Enrolment, SignIn, Access, ProjectProfiles, OrgMachines,
        OrgProxies

(* Addresses outside the list are refused to everybody under each. *)
PoliciesOfTeam ==
  {[factor |-> "new_device", list |-> "everybody", stepUp |-> FALSE],
   [factor |-> "off",        list |-> "everybody", stepUp |-> FALSE],
   [factor |-> "always",     list |-> "everybody", stepUp |-> TRUE]}

VARIABLE part

all == <<part, keyVars, enrolVars, signInVars, accessVars, profilesVars,
         machineVars, proxyVars>>

Init ==
  /\ part \in {"key", "enrolment", "sign-in", "access", "profiles", "machines",
               "proxies"}
  /\ KeyInit /\ EnrolInit /\ SignInInit /\ AccessInit /\ ProfilesInit
  /\ MachinesInit /\ ProxiesInit

Next ==
  /\ UNCHANGED part
  /\ IF part = "key" THEN KeyNext ELSE UNCHANGED keyVars
  /\ IF part = "enrolment" THEN EnrolNext ELSE UNCHANGED enrolVars
  /\ IF part = "sign-in" THEN SignInNext ELSE UNCHANGED signInVars
  /\ IF part = "access" THEN AccessNext ELSE UNCHANGED accessVars
  /\ IF part = "profiles" THEN ProfilesNext ELSE UNCHANGED profilesVars
  /\ IF part = "machines" THEN MachinesNext ELSE UNCHANGED machineVars
  /\ IF part = "proxies" THEN ProxiesNext ELSE UNCHANGED proxyVars

Spec == Init /\ [][Next]_all

(* The state of the component that moves has its type. *)
ServerTypeOK ==
  CASE part = "key"       -> KeyTypeOK
    [] part = "enrolment" -> EnrolTypeOK
    [] part = "sign-in"   -> SignInTypeOK
    [] part = "access"    -> AccessTypeOK
    [] part = "profiles"  -> ProfilesTypeOK
    [] part = "machines"  -> MachinesTypeOK
    [] part = "proxies"   -> ProxiesTypeOK
=============================================================================
