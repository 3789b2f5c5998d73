------------------------------- MODULE Tunnel -------------------------------
(* The WireGuard tunnel of one config (agent/src/wg_stack.rs, wg_tunnel.rs):*)
(* one per process, shared by every relay and check that uses the config,   *)
(* started by the first dial and ended with the last user.                  *)
(*                                                                          *)
(* A user here is whatever holds the Arc: a relay, or a connection of one,  *)
(* which outlives it.                                                       *)
EXTENDS Naturals, FiniteSets

CONSTANTS Tenant,       \* holders of the upstream
          MaxShared   \* bound: Shared values made for the config

Tunnel == 1 .. MaxShared

ASSUME TunnelAssumption == MaxShared \in Nat

VARIABLES
  users,      \* Shared -> who holds it; its strong count
  cell,       \* Shared -> its OnceCell, and what became of the task in it
  dial        \* user -> the connection it asked for through its Shared

tunnelVars == <<users, cell, dial>>

TunnelInit ==
  /\ users = [g \in Tunnel |-> {}]
  /\ cell = [g \in Tunnel |-> "unmade"]
  /\ dial = [u \in Tenant |-> "none"]

Holds(u, g) == u \in users[g]
Holding(u) == \E g \in Tunnel : Holds(u, g)

(* Shared::for_config: the one somebody still holds, or a new one.          *)
FoundNone == {}
Found == {g \in Tunnel : users[g] # {}}

TakesHold(u, g) ==
  /\ ~ Holding(u)
  /\ \/ g \in Found
     \/ /\ Found = {} /\ cell[g] = "unmade"
        /\ \A h \in 1 .. g - 1 : cell[h] # "unmade"
  /\ users' = [users EXCEPT ![g] = @ \cup {u}]
  /\ cell' = IF cell[g] = "unmade" THEN [cell EXCEPT ![g] = "empty"] ELSE cell
  /\ UNCHANGED dial

(* A user gone, mid-dial too: a dropped initialiser leaves the cell to the  *)
(* next one waiting.  The registry's Weak is dead from here on; the stack   *)
(* is dropped, and its task aborted, a moment later.                        *)
Leaves(u, g) ==
  /\ Holds(u, g)
  /\ users' = [users EXCEPT ![g] = @ \ {u}]
  /\ dial' = [dial EXCEPT ![u] = "none"]
  /\ cell' = IF dial[u] = "starting" THEN [cell EXCEPT ![g] = "empty"] ELSE cell

Dropped(g) ==
  /\ users[g] = {} /\ cell[g] \in {"empty", "up", "dead"}
  /\ cell' = [cell EXCEPT ![g] = "dropped"]
  /\ UNCHANGED <<users, dial>>

-----------------------------------------------------------------------------
(* Dialling. *)

(* get_or_try_init: one starts the stack, the others wait for it.           *)
Dials(u, g) ==
  /\ Holds(u, g) /\ dial[u] = "none"
  /\ dial' = [dial EXCEPT ![u] = IF cell[g] = "dead" THEN "refused" ELSE "waiting"]
  /\ UNCHANGED <<users, cell>>

BeginsStack(u, g) ==
  /\ Holds(u, g) /\ dial[u] = "waiting" /\ cell[g] = "empty"
  /\ cell' = [cell EXCEPT ![g] = "starting"]
  /\ dial' = [dial EXCEPT ![u] = "starting"]
  /\ UNCHANGED users

(* Stack::start: keys, the peer's address, a socket, and a resolver of the  *)
(* peer's own, or no tunnel.                                                *)
StartEnds(u, g, ok) ==
  /\ Holds(u, g) /\ dial[u] = "starting"
  /\ cell' = [cell EXCEPT ![g] = IF ok THEN "up" ELSE "empty"]
  /\ dial' = [dial EXCEPT ![u] = IF ok THEN "waiting" ELSE "refused"]
  /\ UNCHANGED users

(* The task takes the name or the connection from its channel... *)
Takes(u, g) ==
  /\ Holds(u, g) /\ dial[u] = "waiting" /\ cell[g] = "up"
  /\ dial' = [dial EXCEPT ![u] = "taken"]
  /\ UNCHANGED <<users, cell>>

(* ...and the peer answers, or never does: nothing here bounds the wait.    *)
PeerAnswers(u, g, ok) ==
  /\ Holds(u, g) /\ dial[u] = "taken" /\ cell[g] = "up"
  /\ dial' = [dial EXCEPT ![u] = IF ok THEN "open" ELSE "refused"]
  /\ UNCHANGED <<users, cell>>

(* The caller's end of a stream: its EOF or its failure ends the connection.*)
HangsUp(u) ==
  /\ dial[u] \in {"open", "refused"}
  /\ dial' = [dial EXCEPT ![u] = "none"]
  /\ UNCHANGED <<users, cell>>

(* run returns: a datagram it cannot read, a socket error, an expired       *)
(* session.  Channels and streams close with it; the cell keeps the stack.  *)
Underway == {"waiting", "taken", "open"}
TaskEnds(g) ==
  /\ cell[g] = "up" /\ users[g] # {}
  /\ cell' = [cell EXCEPT ![g] = "dead"]
  /\ dial' = [u \in Tenant |-> IF Holds(u, g) /\ dial[u] \in Underway
                             THEN "refused" ELSE dial[u]]
  /\ UNCHANGED users

TunnelNext ==
  \/ \E u \in Tenant, g \in Tunnel :
       \/ TakesHold(u, g) \/ Leaves(u, g) \/ Dials(u, g) \/ BeginsStack(u, g) \/ Takes(u, g)
       \/ \E ok \in BOOLEAN : StartEnds(u, g, ok) \/ PeerAnswers(u, g, ok)
  \/ \E g \in Tunnel : Dropped(g) \/ TaskEnds(g)
  \/ \E u \in Tenant : HangsUp(u)

TunnelSpec == TunnelInit /\ [][TunnelNext]_tunnelVars

-----------------------------------------------------------------------------
TunnelTypeOK ==
  /\ users \in [Tunnel -> SUBSET Tenant]
  /\ cell \in [Tunnel -> {"unmade", "empty", "starting", "up", "dead", "dropped"}]
  /\ dial \in [Tenant -> {"none", "waiting", "starting", "taken", "open", "refused"}]

(* "A WireGuard key cannot be in two tunnels at once: the peer answers      *)
(* whichever endpoint handshook last" (wg_stack.rs 250-256): of two Shared  *)
(* values of one config only one is held, only that one's stack is started  *)
(* or dialled through, by one user at a time, and whatever is asked of a    *)
(* stack whose task ended has been answered.                                *)
OneTunnel ==
  /\ Cardinality({g \in Tunnel : users[g] # {}}) <= 1
  /\ \A g \in Tunnel : cell[g] = "starting" =>
       Cardinality({u \in users[g] : dial[u] = "starting"}) = 1
  /\ \A u \in Tenant, g \in Tunnel :
       /\ Holds(u, g) /\ dial[u] \in {"taken", "open"}
       => cell[g] = "up"
=============================================================================
