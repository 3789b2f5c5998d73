----------------------------- MODULE OrgProxies -----------------------------
(* The organisation's proxies, and the forms its members edit them in       *)
(* (server/src/api.rs create_proxy to delete_proxy, rbac_guard.rs           *)
(* may_change_proxy, desktop commands.rs proxies, save_proxy).              *)
(*                                                                          *)
(* A form shows what the list sent: a host, masked for who may not see      *)
(* secrets, and no login.  Who changes a proxy is checked, the mask is      *)
(* undone and the row is written in separate statements.                    *)
EXTENDS Naturals, FiniteSets

CONSTANTS Hand,       \* members of the organisation
          Chief,      \* the one who is owner or admin
          ProxyRow,   \* proxy rows
          Address,    \* hosts of proxies
          MaxSaves    \* bound: forms saved

NoMember == "nobody"
Halves == {"login", "password"}   \* sealed together, under one data key

ASSUME ProxiesAssumption ==
  /\ Chief \in Hand /\ NoMember \notin Hand /\ MaxSaves \in Nat
  /\ Address # {} /\ "none" \notin ProxyRow

VARIABLES
  trusted,    \* members some project gives edit_proxy
  upstream,   \* proxies: deleted_at, created_by, host, which halves are sealed
  form,       \* the proxy form a member has open, and the host it shows
  sent,       \* edits the server has checked and not written
  saves,
  moved,      \* history: proxies whose host changed under an open form
  half        \* history: proxies added with one half, or edited with one half
              \* while only one was stored

proxyVars == <<trusted, upstream, form, sent, saves, moved, half>>

(* A host as text: an address, or what mask_host made of one, so many times.*)
Text == [of : Address, masks : 0 .. MaxSaves + 1]
MaskHost(t) == [t EXCEPT !.masks = @ + 1]

AnyHost == [of |-> CHOOSE h \in Address : TRUE, masks |-> 0]
Closed == [of |-> "none", host |-> AnyHost]
Nothing == [of |-> "none", host |-> AnyHost, typed |-> {}]

ProxiesInit ==
  /\ trusted = Hand \ {Chief}
  /\ upstream = [x \in ProxyRow |->
       [at |-> "none", by |-> NoMember, host |-> AnyHost, sealed |-> {}]]
  /\ form = [p \in Hand |-> Closed] /\ sent = [p \in Hand |-> Nothing]
  /\ saves = 0 /\ moved = {} /\ half = {}

MayAddProxies(p) == p = Chief \/ p \in trusted
Reveals(p) == p = Chief
MayChangeProxy(p, x) ==
  /\ upstream[x].at = "live"
  /\ p = Chief \/ (upstream[x].by = p /\ MayAddProxies(p))

(* A grant made, changed or lapsed. *)
GrantTurns(p) ==
  /\ p # Chief
  /\ trusted' = IF p \in trusted THEN trusted \ {p} ELSE trusted \cup {p}
  /\ UNCHANGED <<upstream, form, sent, saves, moved, half>>

(* create_proxy: whatever was typed is sealed, a blank half as nothing.     *)
CreatesProxy(p, x, h, typed) ==
  /\ upstream[x].at = "none" /\ MayAddProxies(p)
  /\ upstream' = [upstream EXCEPT ![x] =
       [at |-> "live", by |-> p, host |-> [of |-> h, masks |-> 0], sealed |-> typed]]
  /\ half' = IF typed = Halves THEN half ELSE half \cup {x}
  /\ UNCHANGED <<trusted, form, sent, saves, moved>>

(* proxies and list_proxies: the host, or its mask. *)
OpensForm(p, x) ==
  /\ upstream[x].at = "live" /\ form[p] = Closed
  /\ form' = [form EXCEPT ![p] =
       [of |-> x, host |-> IF Reveals(p) THEN upstream[x].host
                           ELSE MaskHost(upstream[x].host)]]
  /\ UNCHANGED <<trusted, upstream, sent, saves, moved, half>>

(* save_proxy: nothing typed leaves what is stored; one half takes the      *)
(* other from there, which only who may read it can do (reveal_proxy).      *)
AsTyped(p, x, typed) == typed
WithStored(p, x, typed) ==
  IF Cardinality(typed) = 1 THEN typed \cup upstream[x].sealed ELSE typed
MaySend(p, typed) == Cardinality(typed) = 1 => Reveals(p)

(* edit_proxy: the mask of the stored host means "unchanged".               *)
HostAsSent(stored, text) == text
HostMeant(stored, text) == IF text = MaskHost(stored) THEN stored ELSE text

SavesForm(p, text, typed) ==
  LET x == form[p].of IN
  /\ sent[p] = Nothing /\ x # "none" /\ saves < MaxSaves /\ saves' = saves + 1
  /\ text = form[p].host \/ text.masks = 0
  /\ MaySend(p, typed) /\ MayChangeProxy(p, x)
  /\ sent' = [sent EXCEPT ![p] =
       [of |-> x, host |-> HostMeant(upstream[x].host, text),
        typed |-> WithStored(p, x, typed)]]
  /\ half' = IF Cardinality(typed) = 1 /\ upstream[x].sealed # Halves
             THEN half \cup {x} ELSE half
  /\ UNCHANGED <<trusted, upstream, form, moved>>

(* ...and the row, if it is still there. *)
EditsProxy(p) ==
  LET s == sent[p]
      watched == \E q \in Hand \ {p} : form[q].of = s.of IN
  /\ s # Nothing /\ sent' = [sent EXCEPT ![p] = Nothing]
  /\ form' = [form EXCEPT ![p] = Closed]
  /\ IF upstream[s.of].at = "live"
     THEN /\ upstream' = [upstream EXCEPT
               ![s.of].host = s.host,
               ![s.of].sealed = IF s.typed = {} THEN @ ELSE s.typed]
          /\ moved' = IF s.host # upstream[s.of].host /\ watched
                      THEN moved \cup {s.of} ELSE moved
     ELSE UNCHANGED <<upstream, moved>>
  /\ UNCHANGED <<trusted, saves, half>>

(* delete_proxy: soft, whoever goes out through it. *)
RetiresProxy(p, x) ==
  /\ MayChangeProxy(p, x)
  /\ upstream' = [upstream EXCEPT ![x].at = "retired"]
  /\ UNCHANGED <<trusted, form, sent, saves, moved, half>>

ProxiesNext ==
  \/ \E p \in Hand : GrantTurns(p) \/ EditsProxy(p)
  \/ \E p \in Hand, x \in ProxyRow, h \in Address, typed \in SUBSET Halves :
       CreatesProxy(p, x, h, typed)
  \/ \E p \in Hand, x \in ProxyRow : OpensForm(p, x) \/ RetiresProxy(p, x)
  \/ \E p \in Hand, text \in Text, typed \in SUBSET Halves : SavesForm(p, text, typed)

ProxiesSpec == ProxiesInit /\ [][ProxiesNext]_proxyVars

-----------------------------------------------------------------------------
ProxiesTypeOK ==
  /\ trusted \subseteq Hand
  /\ upstream \in [ProxyRow ->
       [at : {"none", "live", "retired"}, by : Hand \cup {NoMember}, host : Text,
        sealed : SUBSET Halves]]
  /\ form \in [Hand -> [of : ProxyRow \cup {"none"}, host : Text]]
  /\ sent \in [Hand -> [of : ProxyRow \cup {"none"}, host : Text,
                        typed : SUBSET Halves]]
  /\ saves \in 0 .. MaxSaves /\ moved \subseteq ProxyRow /\ half \subseteq ProxyRow

(* "Written, it turned a renamed proxy into one that dials ***1a2b.         *)
(* provider.net" (api.rs 2726-2729): no proxy dials the mask of a host,     *)
(* unless its host was changed under a form that was open.                  *)
HostsDialled == \A x \in ProxyRow : upstream[x].host.masks > 0 => x \in moved

(* "A new password used to erase the login this way" (commands.rs           *)
(* 2613-2616): a proxy sealed with both halves keeps both.                  *)
PairsKept ==
  \A x \in ProxyRow : upstream[x].at = "live" /\ upstream[x].sealed # Halves
                        => x \in half

ProxiesIntact == HostsDialled /\ PairsKept
=============================================================================
