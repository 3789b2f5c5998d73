------------------------------ MODULE MCMachine ------------------------------
(* What a machine keeps, the paths its browsers' connections take and what  *)
(* they say of themselves, part by part: a behaviour is one component's,    *)
(* chosen at the start, and the others stand still.                         *)
EXTENDS LocalStore, Relay, Tunnel, Extensions, CookieJar, ProfileFiles, Persona, ExitFacts

VARIABLE part

all == <<part, localVars, relayVars, tunnelVars, appVars, jarVars, filesVars, personaVars, exitVars>>

Init ==
  /\ part \in {"store", "relay", "tunnel", "extensions", "jar", "files", "persona", "exit"}
  /\ TunnelInit /\ ExtensionsInit
  /\ LocalInit /\ (part # "store" => vault = "have")
  /\ RelayInit /\ (part # "relay" => way = "direct" /\ lists = {} /\ ~ reaching)
  /\ CookieJarInit /\ (part # "jar" => remote = NoBundle)
  /\ FilesInit /\ (part # "files" => safe = "have")
  /\ PersonaInit /\ (part # "persona" => profile = Row("mac", NoPins))
  /\ ExitInit /\ (part # "exit" => comesOut = [a \in Address |-> CHOOSE p \in Land : TRUE])

Next ==
  /\ UNCHANGED part
  /\ IF part = "store" THEN LocalNext ELSE UNCHANGED localVars
  /\ IF part = "relay" THEN RelayNext ELSE UNCHANGED relayVars
  /\ IF part = "tunnel" THEN TunnelNext ELSE UNCHANGED tunnelVars
  /\ IF part = "extensions" THEN ExtensionsNext ELSE UNCHANGED appVars
  /\ IF part = "jar" THEN CookieJarNext ELSE UNCHANGED jarVars
  /\ IF part = "files" THEN FilesNext ELSE UNCHANGED filesVars
  /\ IF part = "persona" THEN PersonaNext ELSE UNCHANGED personaVars
  /\ IF part = "exit" THEN ExitNext ELSE UNCHANGED exitVars

Spec == Init /\ [][Next]_all

(* The state of the component that moves has its type. *)
MachineTypeOK ==
  CASE part = "store"      -> LocalTypeOK
    [] part = "relay"      -> RelayTypeOK
    [] part = "tunnel"     -> TunnelTypeOK
    [] part = "extensions" -> ExtensionsTypeOK
    [] part = "jar"        -> CookieJarTypeOK
    [] part = "files"      -> FilesTypeOK
    [] part = "persona"    -> PersonaTypeOK
    [] part = "exit"       -> ExitTypeOK

(* What a browser claims agrees: with itself and the dialog, as one machine *)
(* that exists, and with the place its connections come out (persona.rs     *)
(* validate, ipc.rs launch).                                                *)
ClaimsAgree == OneMachine /\ OnePlace
=============================================================================
