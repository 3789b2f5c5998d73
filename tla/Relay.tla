------------------------------- MODULE Relay -------------------------------
(* The relay every profile's browser speaks through (agent/src/relay.rs)    *)
(* and the lists it reads (shared-rs/src/domains.rs).  A name is looked up  *)
(* on this machine in two cases only, and what it resolves to may change    *)
(* between any two steps.                                                   *)
EXTENDS Naturals, FiniteSets

CONSTANTS Client,     \* connections from the browser
          Site,       \* names a page asks for
          Lan,        \* literal addresses on this machine's network
          Loop,       \* ... on this machine
          Outside,    \* ... public
          MaxEntries  \* bound: entries of a profile's lists

Host == Site \cup Lan \cup Loop \cup Outside
IsName(h) == h \in Site

(* Where an address is: is_local_ip is the last two, is_private_network the *)
(* second; loopback and link-local are on the machine.                      *)
Scope == {"public", "private", "machine"}
Upstream == {"socks5", "http", "direct", "wireguard"}

(* An entry of a list, and the kind its first line makes of the list.  An   *)
(* address is an entry of a @local list alone.                              *)
ListEntry == [kind : {"plain", "allow-only"}, host : Site]
           \cup [kind : {"local"}, host : Host]

ASSUME RelayAssumption ==
  /\ Site \cap (Lan \cup Loop \cup Outside) = {} /\ Lan \cap (Loop \cup Outside) = {}
  /\ Loop \cap Outside = {} /\ MaxEntries \in Nat

VARIABLES
  way,        \* the upstream the relay was made with
  lists,      \* the profile's, the organisation's and the machine's, merged
  reaching,   \* allow_local: the relay of a check, never of a profile
  line        \* connection -> what it asked for, how far the relay is, what
              \* this machine resolved it to and where it was dialled from here

relayVars == <<way, lists, reaching, line>>

Waiting == [at |-> "idle", host |-> "none", addrs |-> {}, to |-> "none"]

(* What this machine may resolve a host to; a name, something else whenever *)
(* it is asked.                                                             *)
ScopesOf(h) ==
  CASE h \in Outside -> {{"public"}}
    [] h \in Lan -> {{"private"}}
    [] h \in Loop -> {{"machine"}}
    [] IsName(h) -> SUBSET Scope \ {{}}

RelayInit ==
  /\ way \in Upstream
  /\ lists \in {l \in SUBSET ListEntry : Cardinality(l) <= MaxEntries}
  /\ reaching \in BOOLEAN /\ (reaching => lists = {})
  /\ line = [c \in Client |-> Waiting]

(* Blocklist::merge: each kind is the union of its lists. *)
Merged(kind) == {e.host : e \in {e \in lists : e.kind = kind}}

(* blocks: a whitelist refuses what it cannot name, a blocklist lets it by. *)
Blocks(h) ==
  \/ Merged("allow-only") # {} /\ h \notin Merged("allow-only")
  \/ h \in Merged("plain")

(* reached_locally: parse_net drops an address outside private space.       *)
ReachedLocally(h) == h \in Merged("local") /\ (IsName(h) \/ h \in Lan)

IsLocalTarget(h) == h \in Lan \cup Loop

Stands(c, at) ==
  /\ line' = [line EXCEPT ![c].at = at]
  /\ UNCHANGED <<way, lists, reaching>>

(* handle_client: the tokened page, 403 and 502 are answered at once;       *)
(* everything else is dialled: by this machine or through the upstream.     *)
FirstStep(h) ==
  IF ReachedLocally(h) \/ way = "direct" THEN "resolving"
  ELSE IF way = "wireguard" THEN "tunnelling" ELSE "connecting"

AnswersPage(c) ==
  /\ line[c].at = "idle" /\ Stands(c, "answered")

HandlesClient(c, h) ==
  LET refused == Blocks(h) \/ (IsLocalTarget(h) /\ ~ ReachedLocally(h) /\ ~ reaching) IN
  /\ line[c].at = "idle"
  /\ line' = [line EXCEPT ![c] =
       [Waiting EXCEPT !.at = IF refused THEN "answered" ELSE FirstStep(h), !.host = h]]
  /\ UNCHANGED <<way, lists, reaching>>

(* dial_local wants every address private; a direct dial none of them here. *)
MayDial(h, scopes) ==
  IF ReachedLocally(h) THEN scopes = {"private"} ELSE reaching \/ scopes = {"public"}

(* resolve_here, and the check of what came back. *)
ResolvesHere(c, scopes) ==
  /\ line[c].at = "resolving" /\ scopes \in ScopesOf(line[c].host)
  /\ line' = [line EXCEPT ![c].addrs = scopes,
                          ![c].at = IF MayDial(line[c].host, scopes) THEN "resolved"
                                    ELSE "answered"]
  /\ UNCHANGED <<way, lists, reaching>>

(* connect_resolved: one of the addresses that were checked.                *)
AskedAgain(c) == UNION ScopesOf(line[c].host)
Resolved(c) == line[c].addrs
DialsHere(c, to) ==
  /\ line[c].at = "resolved" /\ to \in Resolved(c)
  /\ line' = [line EXCEPT ![c].at = "open", ![c].to = to]
  /\ UNCHANGED <<way, lists, reaching>>

-----------------------------------------------------------------------------
(* Through the upstream. *)

ConnectsUpstream(c) ==
  /\ line[c].at = "connecting" /\ Stands(c, "greeting")

(* socks5_connect: a method, a login where one is asked for and there is    *)
(* one, then the name; http_connect: one request.                           *)
Greets(c) ==
  /\ line[c].at = "greeting" /\ way = "socks5"
  /\ \/ Stands(c, "asking") \/ Stands(c, "login")
Authenticates(c) ==
  /\ line[c].at = "login" /\ Stands(c, "asking")
Connects(c) ==
  /\ \/ line[c].at = "asking" \/ line[c].at = "tunnelling"
     \/ line[c].at = "greeting" /\ way = "http"
  /\ Stands(c, "open")

(* A refusal, a peer of another kind, a timeout at any step of a dial: 502, *)
(* "never a direct connection".                                             *)
Fails(c) ==
  /\ line[c].at \in {"resolving", "resolved", "connecting", "greeting", "login",
                     "asking", "tunnelling"}
  /\ Stands(c, "answered")

Closes(c) ==
  /\ line[c].at \in {"answered", "open"}
  /\ line' = [line EXCEPT ![c] = Waiting]
  /\ UNCHANGED <<way, lists, reaching>>

RelayNext ==
  \/ \E c \in Client : AnswersPage(c) \/ ConnectsUpstream(c) \/ Greets(c)
                         \/ Authenticates(c) \/ Connects(c) \/ Fails(c) \/ Closes(c)
  \/ \E c \in Client, scopes \in SUBSET Scope : ResolvesHere(c, scopes)
  \/ \E c \in Client, h \in Host : HandlesClient(c, h)
  \/ \E c \in Client, to \in Scope : DialsHere(c, to)

RelaySpec == RelayInit /\ [][RelayNext]_relayVars

-----------------------------------------------------------------------------
RelayTypeOK ==
  /\ way \in Upstream /\ lists \subseteq ListEntry /\ reaching \in BOOLEAN
  /\ line \in [Client -> [at : {"idle", "answered", "resolving", "resolved", "connecting",
                                "greeting", "login", "asking", "tunnelling", "open"},
                          host : Host \cup {"none"}, addrs : SUBSET Scope,
                          to : Scope \cup {"none"}]]

(* "Nothing on this machine or its network is reachable from a profile",    *)
(* and no site's name reaches this machine's resolver (relay.rs 321-341,    *)
(* 440-463, dial_local): what a profile's relay dials from here is a private*)
(* address of a host a @local list names, or, without a proxy, a public one;*)
(* and "a list on the operator's own machine must never loosen the          *)
(* organisation's" (domains.rs): neither is a host the other lists refuse.  *)
NothingHere ==
  ~ reaching => \A c \in Client :
    LET l == line[c]
        listed == l.host \in Merged("local") IN
    /\ l.to # "none" => \/ listed /\ l.to = "private"
                        \/ way = "direct" /\ l.to = "public"
    /\ l.addrs # {} => (listed \/ way = "direct") /\ ~ Blocks(l.host)
=============================================================================
