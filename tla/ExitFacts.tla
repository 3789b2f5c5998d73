------------------------------ MODULE ExitFacts ------------------------------
(* Where a launched browser says it is: its clock, its languages and its    *)
(* position follow the proxy's exit unless the profile pins them            *)
(* (agent/src/ipc.rs start, resolve_exit and proxies.check; store.rs       *)
(* upsert_proxy, record_exit, profile; shared-rs/src/locale.rs,             *)
(* overrides.rs apply_context).                                             *)
(*                                                                          *)
(* A country, a timezone and a coordinate are the place they belong to. A   *)
(* language is what ui_locale_for tells apart in its tag.                   *)
EXTENDS Naturals

CONSTANTS Address,   \* proxy addresses
          Land,      \* places an address may come out at
          Here,      \* this machine's own place
          InTable,    \* places whose country has a row in locale.rs
          MaxTurns   \* bound: edits of the row, checks, and exits that move

Nowhere == "nowhere"          \* a fact nobody has
Fallback == "fallback"        \* UTC, and en-US
Fact == {"country", "timezone", "location"}
NoFacts == [f \in Fact |-> Nowhere]

(* The languages a profile may pin, by how their tag resolves. *)
Tag == {"es-MX", "xx-XX"}
(* SHIPPED: the interfaces Chrome comes with, of those the tags lead to. *)
Shipped == {"es-419", "en-US"}

ASSUME ExitAssumption ==
  /\ Address # {} /\ Nowhere \notin Address /\ MaxTurns \in Nat /\ Here \notin Land
  /\ InTable \subseteq Land \cup {Here}
  /\ ({Nowhere, Fallback, "pinned"} \cup Tag) \cap (Land \cup {Here}) = {}

(* ui_locale_for: the tag itself, narrowed by its region, by its alias, its *)
(* language alone, or English.                                              *)
UiLocaleFor == [t \in Tag |-> IF t = "es-MX" THEN "es-419" ELSE "en-US"]

VARIABLES
  comesOut,      \* where each address comes out now
  px,        \* the proxy's row: its address and what record_exit wrote
  check,     \* a proxies.check under way: the address asked, and the row's id given
  start,    \* how far a start is, the profile and the row it read
  browser,   \* what a running browser was told
  uneven,    \* history: the row's facts are not one answer of its address's exit
  turns      \* history: edits, checks and moves so far

exitVars == <<comesOut, px, check, start, browser, uneven, turns>>

(* A profile's way out and its pins, as they stand when it is opened.       *)
(* Bound: a pinned position goes with a pinned interface.                   *)
Opened == {f \in [proxied: BOOLEAN, zone: {Nowhere, "pinned"}, tag: {Nowhere} \cup Tag,
                  spot: {Nowhere, "pinned"}, ui: {Nowhere, "sw"}] :
             f.spot = "pinned" <=> f.ui # Nowhere}
Plain == [proxied |-> FALSE, zone |-> Nowhere, tag |-> Nowhere, spot |-> Nowhere, ui |-> Nowhere]

Idle == [at |-> "idle", profile |-> Plain, address |-> Nowhere, facts |-> NoFacts, uneven |-> FALSE]
NoCheck == [address |-> Nowhere, from |-> Nowhere]
Unopened == [zone |-> Nowhere, speaks |-> Nowhere, ui |-> Nowhere, spot |-> Nowhere,
             through |-> Nowhere, pinned |-> FALSE, uneven |-> FALSE]

ExitInit ==
  /\ comesOut \in [Address -> Land]
  /\ px = [address |-> CHOOSE a \in Address : TRUE, facts |-> NoFacts]
  /\ check = NoCheck
  /\ start = Idle /\ browser = Unopened /\ uneven = FALSE /\ turns = 0

(* Bound: nothing is written while a browser is up, which was told already. *)
Turn == browser = Unopened /\ turns < MaxTurns /\ turns' = turns + 1

-----------------------------------------------------------------------------
(* The row. *)

(* upsert_proxy writes the address and leaves what was recorded of the old. *)
EditsAddress(a) ==
  /\ Turn /\ a # px.address /\ px' = [px EXCEPT !.address = a]
  /\ uneven' = (uneven \/ px.facts # NoFacts)
  /\ UNCHANGED <<comesOut, check, start, browser>>

(* A rotating proxy, or a provider that moves one. *)
ExitMoves(a, p) ==
  /\ Turn /\ comesOut[a] # p /\ comesOut' = [comesOut EXCEPT ![a] = p]
  /\ uneven' = (uneven \/ (a = px.address /\ px.facts # NoFacts))
  /\ start' = [start EXCEPT !.uneven = @ \/ (a = start.address /\ start.facts # NoFacts)]
  /\ UNCHANGED <<px, check, browser>>

(* What a checker, or the file beside it, may have no word on. *)
Answers(p) == {[f \in Fact |-> IF f \in known THEN p ELSE Nowhere] : known \in SUBSET Fact}

(* record_exit: all three columns, those without an answer too. *)
Recorded(facts) == px' = [px EXCEPT !.facts = facts]
OfItsExit(a, p) == a = px.address /\ p = comesOut[px.address]

(* proxies.check: of the address typed in the form, under the row's id.     *)
AsksCheck(a) ==
  /\ Turn /\ check = NoCheck /\ check' = [address |-> a, from |-> comesOut[a]]
  /\ UNCHANGED <<comesOut, px, start, browser, uneven>>
CheckLands ==
  /\ check # NoCheck /\ check' = NoCheck
  /\ \E facts \in Answers(check.from) :
       /\ Recorded(facts) /\ uneven' = ~ OfItsExit(check.address, check.from)
  /\ UNCHANGED <<comesOut, start, browser, turns>>
CheckFails == /\ check # NoCheck /\ check' = NoCheck
              /\ UNCHANGED <<comesOut, px, start, browser, uneven, turns>>

-----------------------------------------------------------------------------
(* A start. *)

ReadsProfile(f) ==
  /\ start = Idle /\ browser = Unopened
  /\ start' = [at |-> "read", profile |-> f,
                address |-> IF f.proxied THEN px.address ELSE Nowhere,
                facts |-> IF f.proxied THEN px.facts ELSE NoFacts,
                uneven |-> f.proxied /\ uneven]
  /\ UNCHANGED <<comesOut, px, check, browser, uneven, turns>>

WantsLanguages == start.profile.tag = Nowhere
MustAsk == \/ start.profile.zone = Nowhere /\ start.facts["timezone"] = Nowhere
           \/ WantsLanguages /\ start.facts["country"] = Nowhere
           \/ start.facts["location"] = Nowhere

(* resolve_exit leaves through the profile's own upstream, or directly.     *)
Directly == Here                                                          \* mutant
AskedFrom == IF start.address = Nowhere THEN Here ELSE comesOut[start.address]

(* Only overwrite with an answer. *)
MergedFacts(facts) == [f \in Fact |-> IF facts[f] = Nowhere THEN start.facts[f] ELSE facts[f]]

ResolvesExit ==
  /\ start.at = "read" /\ MustAsk
  /\ \E facts \in Answers(AskedFrom) :
       /\ start' = [start EXCEPT !.at = "known", !.facts = MergedFacts(facts)]
       /\ IF start.profile.proxied
          THEN /\ Recorded(facts) /\ uneven' = ~ OfItsExit(start.address, AskedFrom)
          ELSE UNCHANGED <<px, uneven>>
  /\ UNCHANGED <<comesOut, check, browser, turns>>
(* The row says all of it, or the exit did not answer. *)
GoesOn ==
  /\ start.at = "read" /\ start' = [start EXCEPT !.at = "known"]
  /\ UNCHANGED <<comesOut, px, check, browser, uneven, turns>>

OrFallback(p) == IF p = Nowhere THEN Fallback ELSE p
(* for_country: what a Chrome installed there speaks, or English. *)
ForCountry(p) == IF p \in InTable THEN p ELSE Fallback
PinnedSpot == IF start.profile.spot = "pinned" THEN "pinned" ELSE start.facts["location"]
(* apply_context after the exit and the languages. *)
UiLocale == IF start.profile.ui # Nowhere THEN start.profile.ui
            ELSE IF WantsLanguages THEN ForCountry(start.facts["country"])
            ELSE UiLocaleFor[start.profile.tag]
Starts ==
  /\ start.at = "known"
  /\ browser' = [zone |-> IF start.profile.zone = "pinned" THEN "pinned"
                          ELSE OrFallback(start.facts["timezone"]),
                 speaks |-> IF WantsLanguages THEN ForCountry(start.facts["country"])
                            ELSE start.profile.tag,
                 ui |-> UiLocale, spot |-> PinnedSpot,
                 through |-> start.address, pinned |-> start.profile.ui # Nowhere,
                 uneven |-> start.uneven]
  /\ start' = Idle /\ UNCHANGED <<comesOut, px, check, uneven, turns>>
Quits == /\ browser # Unopened /\ browser' = Unopened
         /\ UNCHANGED <<comesOut, px, check, start, uneven, turns>>

ExitNext ==
  \/ \E a \in Address : EditsAddress(a) \/ AsksCheck(a) \/ \E p \in Land : ExitMoves(a, p)
  \/ CheckLands \/ CheckFails
  \/ (\E f \in Opened : ReadsProfile(f)) \/ ResolvesExit \/ GoesOn \/ Starts \/ Quits

ExitSpec == ExitInit /\ [][ExitNext]_exitVars

-----------------------------------------------------------------------------
Places == Land \cup {Here, Nowhere}

ExitTypeOK ==
  /\ comesOut \in [Address -> Land] /\ px.address \in Address /\ px.facts \in [Fact -> Places]
  /\ check.address \in Address \cup {Nowhere} /\ check.from \in Places
  /\ start.at \in {"idle", "read", "known"} /\ start.address \in Address \cup {Nowhere}
  /\ start.facts \in [Fact -> Places] /\ uneven \in BOOLEAN
  /\ browser.zone \in Places \cup {"pinned", Fallback} /\ turns \in 0 .. MaxTurns

(* What a browser says of its place that nobody pinned. *)
Followed(b) == ({b.zone, b.spot} \cup (IF b.speaks \in Tag THEN {} ELSE {b.speaks}))
                 \ {"pinned", Fallback, Nowhere}

(* A browser behind a proxy never says it is where this machine is, and     *)
(* one without says nothing else; what it follows is one place unless the   *)
(* row mixed answers: its address was edited, another was checked under its *)
(* id, or its exit moved. Its interface speaks what it announces, whichever *)
(* of the two was pinned.                                                   *)
OnePlace ==
  browser # Unopened =>
    /\ browser.through # Nowhere => Here \notin Followed(browser)
    /\ browser.through = Nowhere => Followed(browser) \subseteq {Here}
    /\ ~ browser.uneven => \A p, q \in Followed(browser) : p = q
    /\ ~ browser.pinned => IF browser.speaks \in Tag THEN browser.ui \in Shipped
                            ELSE browser.ui = browser.speaks
=============================================================================
