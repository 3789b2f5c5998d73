----------------------------- MODULE ServerProofs -----------------------------
(* Theorems about the server's database as a whole (MCServer), from those   *)
(* about its parts.                                                         *)
EXTENDS MCServer, AccountProofs, TeamProofs

(* A step of the server is a step of one part, and the others stand still.  *)

\* The server starts every part as it starts by itself, and moves one.
THEOREM ServerPartsFollow ==
  Spec => /\ KeySpec /\ EnrolSpec /\ SignInSpec /\ AccessSpec
          /\ ProfilesSpec /\ MachinesSpec /\ ProxiesSpec
<1>1. Init => /\ KeyInit /\ EnrolInit /\ SignInInit /\ AccessInit
              /\ ProfilesInit /\ MachinesInit /\ ProxiesInit
  BY DEF Init
<1>2. [Next]_all => [KeyNext]_keyVars
  BY DEF Next, all, keyVars
<1>3. [Next]_all => [EnrolNext]_enrolVars
  BY DEF Next, all, enrolVars
<1>4. [Next]_all => [SignInNext]_signInVars
  BY DEF Next, all, signInVars
<1>5. [Next]_all => [AccessNext]_accessVars
  BY DEF Next, all, accessVars
<1>6. [Next]_all => [ProfilesNext]_profilesVars
  BY DEF Next, all, profilesVars
<1>7. [Next]_all => [MachinesNext]_machineVars
  BY DEF Next, all, machineVars
<1>8. [Next]_all => [ProxiesNext]_proxyVars
  BY DEF Next, all, proxyVars
<1> QED
  BY <1>1, <1>2, <1>3, <1>4, <1>5, <1>6, <1>7, <1>8, PTL
  DEF Spec, KeySpec, EnrolSpec, SignInSpec, AccessSpec, ProfilesSpec, MachinesSpec, ProxiesSpec

\* Every part's state keeps its type, the one that moves and the others.
THEOREM ServerTypes == Spec => []ServerTypeOK
<1> DEFINE OnePart == part \in {"key", "enrolment", "sign-in", "access", "profiles", "machines",
                              "proxies"}
           Typed == /\ KeyTypeOK /\ EnrolTypeOK /\ SignInTypeOK /\ AccessTypeOK
                    /\ ProfilesTypeOK /\ MachinesTypeOK /\ ProxiesTypeOK
<1>1. Init => OnePart BY DEF Init
<1>2. OnePart /\ [Next]_all => OnePart' BY DEF Next, all
<1>3. OnePart /\ Typed => ServerTypeOK BY DEF ServerTypeOK
<1> HIDE DEF OnePart
<1>4. Spec => []OnePart BY <1>1, <1>2, PTL DEF Spec
<1>5. Spec => []Typed
  BY ServerPartsFollow, KeySafe, EnrolSafe, SignInSafe, AccessSafe, ProfilesSafe, MachinesSafe,
     ProxiesSafe, PTL
<1> QED BY <1>3, <1>4, <1>5, PTL

\* What each part keeps by itself it keeps in the server: the key with those who
\* were let in, the bundles carried along, addresses confirmed, codes asked for,
\* roles and grants within bounds, the ceiling, the machines and the proxies.
THEOREM ServerSafe ==
  Spec => /\ [](/\ AdmittedOnly /\ AddressProven /\ CodeAsked /\ RightsHold
                /\ RoomKept /\ MachinesStand /\ ProxiesIntact)
          /\ BundlesCarried
BY ServerPartsFollow, KeySafe, KeyCarries, EnrolSafe, SignInSafe, AccessSafe, ProfilesSafe,
   MachinesSafe, ProxiesSafe, PTL
=============================================================================
