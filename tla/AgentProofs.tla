------------------------------ MODULE AgentProofs ------------------------------
(* Theorems about the agent's own components and the window (MCAgent): the  *)
(* farm, the browser's files, mirrored input and lifetimes, each for every  *)
(* value of its constants, and the model as a whole from those.             *)
EXTENDS MCAgent, FiniteSetTheorems, FunctionTheorems, SequenceTheorems,
        WellFoundedInduction, TLAPS

-----------------------------------------------------------------------------
(* The browser's files.                                                     *)

Installing(j) == task[j].at \notin {"none", "spawned"}

(* One task at most is past "spawned", and while it is, busy is set; a tree *)
(* it has run once is whole, and so is the archive it came from.            *)
CoreInv ==
  /\ CoreTypeOK
  /\ \A j \in Pressed : Installing(j) => busy
  /\ \A j, k \in Pressed : Installing(j) /\ Installing(k) => j = k
  /\ \A j \in Pressed : task[j].at \in {"checked", "aside"} => staging \in Build
  /\ \A j \in Pressed : task[j].at \in {"checked", "aside", "in"} => archive \in Build
  /\ CoreChecked

\* Nothing is being installed, and nothing was checked.
LEMMA CoreStart == CoreInit => CoreInv
<1> SUFFICES ASSUME CoreInit PROVE CoreInv
  OBVIOUS
<1>1. NoTask \in [at : {"none", "spawned", "fetching", "clearing",
                       "unpacking", "checked", "aside", "in", "recorded"}, had : Tree]
  BY DEF NoTask, Tree
<1>2. {dest, staging, previous, archive} \subseteq Tree /\ record \in Build \cup {"none"}
  BY DEF CoreInit, Tree, Build
<1>3. CoreTypeOK
  <2>1. busy \in BOOLEAN /\ verdict \in {"unasked", "yes", "no"} /\ inUse \subseteq Opened
    BY DEF CoreInit
  <2>3. falls = 0 /\ Crashes \in Nat BY CoreAssumption DEF CoreInit
  <2>4. falls \in 0 .. Crashes BY <2>3
  <2>2. task \in [Pressed -> [at : {"none", "spawned", "fetching", "clearing",
                       "unpacking", "checked", "aside", "in", "recorded"}, had : Tree]]
    BY <1>1 DEF CoreInit
  <2> QED BY <1>2, <2>1, <2>2, <2>4 DEF CoreTypeOK
<1>4. \A j \in Pressed : task[j].at = "none" BY DEF CoreInit, NoTask
<1> QED BY <1>3, <1>4 DEF CoreInv, CoreInit, CoreChecked, Installing

TaskState == [at : {"none", "spawned", "fetching", "clearing",
               "unpacking", "checked", "aside", "in", "recorded"}, had : Tree]

\* One step per action: one task at a time gets past the flag, so what it ran
\* once in staging is what it renames into place (core_download.rs; install_core.rs
\* install).
LEMMA CoreStep == CoreInv /\ [CoreNext]_coreVars => CoreInv'
<1> SUFFICES ASSUME CoreInv, [CoreNext]_coreVars PROVE CoreInv'
  OBVIOUS
<1> USE DEF CoreInv
<1>typed. \A j \in Pressed : task[j] \in TaskState /\ NoTask \in TaskState
  BY DEF CoreTypeOK, TaskState, NoTask, Tree
<1>1. CASE UNCHANGED coreVars
  BY <1>1 DEF coreVars, CoreTypeOK, CoreChecked, Installing
<1>looked. ASSUME Looked PROVE record' \in Build \cup {"none"} /\ verdict' \in {"unasked", "yes", "no"}
  BY <1>looked DEF Looked, Verdict, CoreTypeOK, Build
<1>2. CASE LooksAtIt
  BY <1>2, <1>looked DEF LooksAtIt, CoreTypeOK, CoreChecked, Installing
<1>3. ASSUME NEW j \in Pressed, Presses(j) PROVE CoreInv'
  <2>1. task' = [task EXCEPT ![j].at = "spawned"] /\ UNCHANGED <<dest, staging, previous, archive, busy, inUse, falls>>
        /\ task[j].at = "none" /\ Looked
    BY <1>3 DEF Presses
  <2>2. [task[j] EXCEPT !.at = "spawned"] \in TaskState BY <1>typed DEF TaskState
  <2>3. CoreTypeOK' BY <2>1, <2>2, <1>looked DEF CoreTypeOK, TaskState
  <2> QED BY <2>1, <2>3 DEF CoreTypeOK, CoreChecked, Installing
<1>4. ASSUME NEW j \in Pressed, Begins(j) PROVE CoreInv'
  <2> DEFINE next == IF busy THEN "none" ELSE "fetching"
  <2>1. task' = [task EXCEPT ![j].at = next] /\ task[j].at = "spawned" /\ busy' = TRUE
        /\ UNCHANGED <<dest, staging, previous, record, archive, verdict, inUse, falls>>
    BY <1>4 DEF Begins
  <2>2. [task[j] EXCEPT !.at = next] \in TaskState BY <1>typed DEF TaskState
  <2>3. CoreTypeOK' BY <2>1, <2>2 DEF CoreTypeOK, TaskState
  <2> QED BY <2>1, <2>3 DEF CoreTypeOK, CoreChecked, Installing
<1>over. ASSUME NEW j \in Pressed, Over(j), Installing(j)
         PROVE  /\ task' \in [Pressed -> TaskState] /\ busy' \in BOOLEAN
                /\ \A k \in Pressed : ~ Installing(k)'
  BY <1>over, <1>typed DEF Over, Installing, CoreTypeOK, TaskState, NoTask, Tree
<1>on. ASSUME NEW j \in Pressed, Installing(j), NEW t \in TaskState, task' = [task EXCEPT ![j] = t], UNCHANGED busy
       PROVE  /\ task' \in [Pressed -> TaskState] /\ busy' \in BOOLEAN
              /\ \A k \in Pressed : Installing(k)' => busy'
              /\ \A k, l \in Pressed : Installing(k)' /\ Installing(l)' => k = l
              /\ \A k \in Pressed : k # j => ~ Installing(k)'
              /\ task'[j] = t
  BY <1>on, <1>typed DEF Installing, CoreTypeOK, TaskState
<1>5. ASSUME NEW j \in Pressed, NEW got \in Build \cup {"part", "none"}, Fetches(j, got) PROVE CoreInv'
  <2>1. Installing(j) /\ archive' = got /\ UNCHANGED <<dest, staging, previous, record, verdict, inUse, falls>>
    BY <1>5 DEF Fetches, Installing
  <2>2. CASE got = "none"
    BY <1>5, <2>1, <2>2, <1>over DEF Fetches, CoreTypeOK, CoreChecked, Installing, Tree, TaskState
  <2>3. CASE got # "none"
    <3>1. task' = [task EXCEPT ![j] = [at |-> "clearing", had |-> dest]] /\ UNCHANGED busy
      BY <1>5, <2>3 DEF Fetches
    <3>2. [at |-> "clearing", had |-> dest] \in TaskState BY DEF TaskState, CoreTypeOK
    <3> QED BY <2>1, <3>1, <3>2, <1>on DEF CoreTypeOK, CoreChecked, Installing, Tree, TaskState
  <2> QED BY <2>2, <2>3
<1>6. ASSUME NEW j \in Pressed, NEW ok \in BOOLEAN, Clears(j, ok) PROVE CoreInv'
  <2>1. Installing(j) /\ UNCHANGED <<dest, previous, record, archive, verdict, inUse, falls>>
    BY <1>6 DEF Clears, Installing
  <2>2. CASE ~ ok
    BY <1>6, <2>1, <2>2, <1>over DEF Clears, CoreTypeOK, CoreChecked, Installing, Tree, TaskState
  <2>3. CASE ok
    <3>1. task' = [task EXCEPT ![j].at = "unpacking"] /\ UNCHANGED busy /\ staging' = "part"
      BY <1>6, <2>3 DEF Clears
    <3>2. [task[j] EXCEPT !.at = "unpacking"] \in TaskState BY <1>typed DEF TaskState
    <3>3. task' = [task EXCEPT ![j] = [task[j] EXCEPT !.at = "unpacking"]] BY <3>1
    <3>4. task'[j].at = "unpacking" BY <3>1, <1>typed DEF CoreTypeOK, TaskState
    <3> QED BY <2>1, <3>1, <3>2, <3>3, <3>4, <1>on DEF CoreTypeOK, CoreChecked, Installing, Tree, TaskState
  <2> QED BY <2>2, <2>3
<1>7. ASSUME NEW j \in Pressed, NEW ok \in BOOLEAN, Unpacks(j, ok) PROVE CoreInv'
  <2>1. Installing(j) /\ UNCHANGED <<dest, previous, record, archive, verdict, inUse, falls>>
    BY <1>7 DEF Unpacks, Installing
  <2>2. CASE ~ (ok /\ archive \in Build)
    BY <1>7, <2>1, <2>2, <1>over DEF Unpacks, CoreTypeOK, CoreChecked, Installing, Tree, TaskState
  <2>3. CASE ok /\ archive \in Build
    <3>1. task' = [task EXCEPT ![j].at = "checked"] /\ UNCHANGED busy /\ staging' = archive
      BY <1>7, <2>3 DEF Unpacks
    <3>2. [task[j] EXCEPT !.at = "checked"] \in TaskState BY <1>typed DEF TaskState
    <3>3. task' = [task EXCEPT ![j] = [task[j] EXCEPT !.at = "checked"]] BY <3>1
    <3> QED BY <2>1, <2>3, <3>1, <3>2, <3>3, <1>on DEF CoreTypeOK, CoreChecked, Installing, Tree, TaskState
  <2> QED BY <2>2, <2>3
<1>8. ASSUME NEW j \in Pressed, NEW ok \in BOOLEAN, MovesAside(j, ok) PROVE CoreInv'
  <2>1. Installing(j) /\ task[j].at = "checked" /\ UNCHANGED <<staging, record, archive, verdict, inUse, falls>>
    BY <1>8 DEF MovesAside, Installing
  <2>2. CASE ~ (ok \/ dest = "none")
    BY <1>8, <2>1, <2>2, <1>over DEF MovesAside, CoreTypeOK, CoreChecked, Installing, Tree, TaskState
  <2>3. CASE ok \/ dest = "none"
    <3>1. task' = [task EXCEPT ![j].at = "aside"] /\ UNCHANGED busy /\ previous' = dest /\ dest' = "none"
      BY <1>8, <2>3 DEF MovesAside
    <3>2. [task[j] EXCEPT !.at = "aside"] \in TaskState BY <1>typed DEF TaskState
    <3>3. task' = [task EXCEPT ![j] = [task[j] EXCEPT !.at = "aside"]] BY <3>1
    <3> QED BY <2>1, <3>1, <3>2, <3>3, <1>on DEF CoreTypeOK, CoreChecked, Installing, Tree, TaskState
  <2> QED BY <2>2, <2>3
<1>9. ASSUME NEW j \in Pressed, NEW ok \in BOOLEAN, MovesIn(j, ok) PROVE CoreInv'
  <2>1. Installing(j) /\ task[j].at = "aside" /\ UNCHANGED <<record, archive, verdict, inUse, falls>>
    BY <1>9 DEF MovesIn, Installing
  <2>2. CASE ~ ok
    BY <1>9, <2>1, <2>2, <1>over DEF MovesIn, CoreTypeOK, CoreChecked, Installing, Tree, TaskState
  <2>3. CASE ok
    <3>1. task' = [task EXCEPT ![j].at = "in"] /\ UNCHANGED busy
          /\ dest' = staging /\ staging' = "none" /\ previous' = "none"
      BY <1>9, <2>3 DEF MovesIn
    <3>2. [task[j] EXCEPT !.at = "in"] \in TaskState BY <1>typed DEF TaskState
    <3>3. task' = [task EXCEPT ![j] = [task[j] EXCEPT !.at = "in"]] BY <3>1
    <3>4. [task[j] EXCEPT !.at = "in"].at = "in" BY <1>typed DEF TaskState
    <3>5. dest' # "part" BY <2>1, <3>1 DEF Build
    <3> QED BY <2>1, <3>1, <3>2, <3>3, <3>4, <3>5, <1>on DEF CoreTypeOK, CoreChecked, Installing, Tree, TaskState
  <2> QED BY <2>2, <2>3
<1>10. ASSUME NEW j \in Pressed, NEW ok \in BOOLEAN, Records(j, ok) PROVE CoreInv'
  <2>1. Installing(j) /\ archive \in Build /\ UNCHANGED <<dest, staging, previous, busy, verdict, inUse, falls>>
        /\ record' = (IF ok THEN archive ELSE record) /\ archive' = "none"
        /\ task' = [task EXCEPT ![j].at = "recorded"]
    BY <1>10 DEF Records, Installing
  <2>2. [task[j] EXCEPT !.at = "recorded"] \in TaskState BY <1>typed DEF TaskState
  <2>3. task' = [task EXCEPT ![j] = [task[j] EXCEPT !.at = "recorded"]] BY <2>1
  <2>4. [task[j] EXCEPT !.at = "recorded"].at = "recorded" BY <1>typed DEF TaskState
  <2> QED BY <2>1, <2>2, <2>3, <2>4, <1>on DEF CoreTypeOK, CoreChecked, Installing, Tree, TaskState
<1>11. ASSUME NEW j \in Pressed, Ends(j) PROVE CoreInv'
  BY <1>11, <1>over DEF Ends, CoreTypeOK, CoreChecked, Installing, TaskState
<1>12. ASSUME NEW p \in Opened, RunsFor(p) PROVE CoreInv'
  BY <1>12 DEF RunsFor, CoreTypeOK, CoreChecked, Installing
<1>13. ASSUME NEW p \in Opened, LetsGo(p) PROVE CoreInv'
  BY <1>13 DEF LetsGo, CoreTypeOK, CoreChecked, Installing
<1>14. CASE AgentDies
  <2>1. \A j \in Pressed : task'[j].at = "none" BY <1>14 DEF AgentDies, NoTask
  <2>2. task' \in [Pressed -> TaskState] BY <1>14, <1>typed DEF AgentDies
  <2>3. falls' \in 0 .. Crashes BY <1>14, CoreAssumption DEF AgentDies, CoreTypeOK
  <2>4. {dest', staging', previous', archive'} \subseteq Tree /\ record' \in Build \cup {"none"}
        /\ busy' \in BOOLEAN /\ verdict' \in {"unasked", "yes", "no"} /\ inUse' \subseteq Opened
    BY <1>14 DEF AgentDies, CoreTypeOK
  <2>5. CoreTypeOK' BY <2>2, <2>3, <2>4 DEF CoreTypeOK, TaskState
  <2> QED BY <1>14, <2>1, <2>5 DEF AgentDies, CoreChecked, Installing
<1> QED
  BY <1>1, <1>2, <1>3, <1>4, <1>5, <1>6, <1>7, <1>8, <1>9, <1>10, <1>11, <1>12, <1>13, <1>14 DEF CoreNext

\* One task at a time installs, and where a launch looks there is never part of a
\* build (install_core.rs 59-131; core_download.rs run).
THEOREM CoreSafe == CoreSpec => [](CoreTypeOK /\ CoreChecked)
<1>1. CoreInv => CoreTypeOK /\ CoreChecked BY DEF CoreInv
<1> QED BY CoreStart, CoreStep, <1>1, PTL DEF CoreSpec

-----------------------------------------------------------------------------
(* Farming plans.                                                           *)

Marks == {"waiting", "running", "done", "failed", "skipped"}
Track == [days : 0 .. Days, open : BOOLEAN, sessions : SeqOf(Marks, Sittings), ready : BOOLEAN]

Credit(t) == IF t.open /\ Read(t) THEN t.days + 1 ELSE t.days
One(t) == \A i, j \in InFlight(t) : i = j

\* A set of numbers that is not empty has a least one.
LEMMA LeastOf == ASSUME NEW T \in SUBSET Nat, T # {} PROVE \E x \in T : \A y \in T : x <= y
<1>1. PICK x \in T : \A y \in T : <<y, x>> \notin OpToRel(<, Nat)
  BY WFMin, NatLessThanWellFounded
<1>2. \A y \in T : ~ (y < x)
  BY <1>1 DEF OpToRel
<1> QED BY <1>2

\* The first session of some is one of them.
LEMMA FirstFact == ASSUME NEW is \in SUBSET Nat, is # {} PROVE FirstOf(is) \in is
BY LeastOf DEF FirstOf

\* The sizes of a plan are numbers.
LEMMA FarmNumbers == {Plans, AtOnce, Days, Sittings, Visits, Meddling} \subseteq Nat \ {0}
BY FarmAssumption

\* A list of at most so many is a function on an interval.
LEMMA SeqOfIs == \A S, n : \A s \in SeqOf(S, n) : \E m \in 0 .. n : s \in [1 .. m -> S]
BY DEF SeqOf

\* ...and the other way round.
LEMMA IsSeqOf == \A S : \A n \in Nat : \A m \in 0 .. n : \A s \in [1 .. m -> S] : s \in SeqOf(S, n)
BY DEF SeqOf

\* What a track's parts are, and that a day under way may still count for one.
LEMMA TrackFacts ==
  ASSUME NEW t \in Track
  PROVE  /\ t.days \in 0 .. Days /\ t.open \in BOOLEAN /\ t.ready \in BOOLEAN
         /\ \E m \in 0 .. Sittings : t.sessions \in [1 .. m -> Marks]
         /\ DOMAIN t.sessions \subseteq 1 .. Sittings
         /\ InFlight(t) \subseteq DOMAIN t.sessions /\ Waiting(t) \subseteq DOMAIN t.sessions
         /\ Credit(t) \in Nat /\ t.days <= Credit(t)
<1>1. PICK m \in 0 .. Sittings : t.sessions \in [1 .. m -> Marks] BY SeqOfIs DEF Track
<1>2. DOMAIN t.sessions \subseteq 1 .. Sittings BY <1>1, FarmNumbers
<1>3. t.days \in 0 .. Days BY DEF Track
<1>4. Credit(t) \in Nat /\ t.days <= Credit(t) BY <1>3, FarmNumbers DEF Credit
<1> QED BY <1>1, <1>2, <1>3, <1>4 DEF Track, InFlight, Waiting

\* Marking a session changes that session alone (farm.rs Session::status).
LEMMA MarkedTyped ==
  ASSUME NEW t \in Track, NEW i \in DOMAIN t.sessions, NEW how \in Marks
  PROVE  /\ Marked(t, i, how) \in Track
         /\ Marked(t, i, how).days = t.days /\ Marked(t, i, how).open = t.open
         /\ DOMAIN Marked(t, i, how).sessions = DOMAIN t.sessions
         /\ \A k \in DOMAIN t.sessions :
              Marked(t, i, how).sessions[k] = IF k = i THEN how ELSE t.sessions[k]
<1>1. PICK m \in 0 .. Sittings : t.sessions \in [1 .. m -> Marks] BY TrackFacts
<1> DEFINE s == [t.sessions EXCEPT ![i] = how]
<1>2. s \in [1 .. m -> Marks] BY <1>1
<1>3. s \in SeqOf(Marks, Sittings) BY <1>2, IsSeqOf, FarmNumbers
<1>4. Marked(t, i, how) = [t EXCEPT !.sessions = s] BY DEF Marked, Track
<1>5. [t EXCEPT !.sessions = s] \in Track BY <1>3 DEF Track
<1> QED BY <1>1, <1>4, <1>5 DEF Track

\* A session that waits and is started or skipped makes no day count.
LEMMA MarkedFacts ==
  ASSUME NEW t \in Track, NEW i \in Waiting(t), NEW how \in {"running", "skipped"}
  PROVE  /\ Marked(t, i, how) \in Track
         /\ Marked(t, i, how).days = t.days /\ Credit(Marked(t, i, how)) = Credit(t)
         /\ InFlight(Marked(t, i, how)) =
              IF how = "running" THEN InFlight(t) \cup {i} ELSE InFlight(t)
<1> DEFINE u == Marked(t, i, how)
<1>1. i \in DOMAIN t.sessions /\ t.sessions[i] = "waiting" /\ how \in Marks BY DEF Waiting, Marks
<1>2. u \in Track /\ u.days = t.days /\ u.open = t.open
      /\ DOMAIN u.sessions = DOMAIN t.sessions
      /\ \A k \in DOMAIN t.sessions : u.sessions[k] = IF k = i THEN how ELSE t.sessions[k]
  BY <1>1, MarkedTyped
<1> HIDE DEF u
<1>3. Read(u) <=> Read(t) BY <1>1, <1>2 DEF Read
<1>4. InFlight(u) = IF how = "running" THEN InFlight(t) \cup {i} ELSE InFlight(t)
  BY <1>1, <1>2 DEF InFlight
<1>5. Credit(u) = Credit(t) BY <1>2, <1>3 DEF Credit
<1> QED BY <1>2, <1>4, <1>5 DEF u

\* A session that ends leaves none in flight, and makes a day count only if it
\* read something (farm.rs report, fail).
LEMMA EndedFacts ==
  ASSUME NEW t \in Track, One(t), NEW how \in {"failed", "done"}
  PROVE  /\ Ended(t, how) \in Track
         /\ Ended(t, how).days = t.days
         /\ InFlight(Ended(t, how)) = {}
         /\ Credit(Ended(t, how)) <= IF how = "done" THEN Credit(t) + 1 ELSE Credit(t)
<1>1. CASE InFlight(t) = {} BY <1>1, TrackFacts DEF Ended
<1>2. CASE InFlight(t) # {}
  <2> DEFINE i == FirstOf(InFlight(t))
             u == Marked(t, i, how)
  <2>1. InFlight(t) \subseteq Nat BY TrackFacts
  <2>2. i \in InFlight(t) BY <1>2, <2>1, FirstFact
  <2>3. i \in DOMAIN t.sessions /\ how \in Marks BY <2>2 DEF InFlight, Marks
  <2>4. Ended(t, how) = u BY <1>2 DEF Ended
  <2>5. u \in Track /\ u.days = t.days /\ u.open = t.open
        /\ DOMAIN u.sessions = DOMAIN t.sessions
        /\ \A k \in DOMAIN t.sessions : u.sessions[k] = IF k = i THEN how ELSE t.sessions[k]
    BY <2>3, MarkedTyped
  <2> HIDE DEF u, i
  <2>6. InFlight(u) = {} BY <2>2, <2>5 DEF InFlight, One
  <2>7. t.days \in Nat /\ t.open \in BOOLEAN BY TrackFacts
  <2>8. Credit(u) <= IF how = "done" THEN Credit(t) + 1 ELSE Credit(t)
    <3>1. how = "failed" => (Read(u) => Read(t)) BY <2>3, <2>5 DEF Read
    <3> QED BY <2>5, <2>7, <3>1 DEF Credit
  <2> QED BY <2>4, <2>5, <2>6, <2>8
<1> QED BY <1>1, <1>2

\* Closing a day counts it only if it counted already (farm.rs step, 403-420).
LEMMA DayClosedFacts ==
  ASSUME NEW t \in Track, t.open, t.days < Days, InFlight(t) = {}
  PROVE  /\ DayClosed(t) \in Track /\ InFlight(DayClosed(t)) = {}
         /\ t.days <= DayClosed(t).days /\ Credit(DayClosed(t)) <= Credit(t)
<1> DEFINE days == IF Read(t) THEN t.days + 1 ELSE t.days
           s == [i \in DOMAIN t.sessions |->
                   IF t.sessions[i] = "waiting" THEN "skipped" ELSE t.sessions[i]]
           u == [t EXCEPT !.open = FALSE, !.days = days, !.ready = t.ready \/ days >= Days,
                   !.sessions = s]
<1>1. PICK m \in 0 .. Sittings : t.sessions \in [1 .. m -> Marks] BY TrackFacts
<1>2. s \in [1 .. m -> Marks] BY <1>1 DEF Marks
<1>3. s \in SeqOf(Marks, Sittings) BY <1>2, IsSeqOf, FarmNumbers
<1>4. t.days \in 0 .. Days BY TrackFacts
<1>5. days \in 0 .. Days BY <1>4, FarmNumbers
<1>6. (t.ready \/ days >= Days) \in BOOLEAN OBVIOUS
<1>7. DayClosed(t) = u BY DEF DayClosed, Track
<1>8. u \in Track BY <1>3, <1>5, <1>6 DEF Track
<1>9. u.open = FALSE /\ u.days = days /\ u.sessions = s BY DEF Track
<1> HIDE DEF u
<1>10. InFlight(u) = {} BY <1>9 DEF InFlight
<1>11. t.days <= u.days /\ Credit(u) <= Credit(t) BY <1>4, <1>9 DEF Credit
<1> QED BY <1>7, <1>8, <1>10, <1>11

\* A new day has no session in flight and none that read.
LEMMA DayPlannedFacts ==
  ASSUME NEW t \in Track, NEW n \in 1 .. Sittings
  PROVE  /\ DayPlanned(t, n) \in Track /\ InFlight(DayPlanned(t, n)) = {}
         /\ DayPlanned(t, n).days = t.days /\ Credit(DayPlanned(t, n)) <= Credit(t)
<1> DEFINE s == [i \in 1 .. n |-> "waiting"]
           u == [t EXCEPT !.open = TRUE, !.sessions = s]
<1>1. s \in [1 .. n -> Marks] BY DEF Marks
<1>2. s \in SeqOf(Marks, Sittings) BY <1>1, IsSeqOf, FarmNumbers
<1>3. DayPlanned(t, n) = u BY DEF DayPlanned
<1>4. u \in Track BY <1>2 DEF Track
<1>5. u.days = t.days /\ u.sessions = s BY DEF Track
<1> HIDE DEF u
<1>6. InFlight(u) = {} BY <1>5 DEF InFlight
<1>7. ~ Read(u) BY <1>5 DEF Read
<1>8. Credit(u) <= Credit(t) BY <1>5, <1>7, TrackFacts DEF Credit
<1> QED BY <1>3, <1>4, <1>5, <1>6, <1>8

\* A list has finitely many members, all from the set it is over.
LEMMA RangeFinite == ASSUME NEW S, NEW w \in Seq(S) PROVE IsFiniteSet(ToSet(w)) /\ ToSet(w) \subseteq S
<1>1. Len(w) \in Nat /\ w \in [1 .. Len(w) -> S] /\ DOMAIN w = 1 .. Len(w) BY LenProperties
<1>2. w \in [1 .. Len(w) -> ToSet(w)] BY <1>1 DEF ToSet
<1>3. \A x \in ToSet(w) : \E i \in 1 .. Len(w) : w[i] = x BY <1>1 DEF ToSet
<1>4. w \in Surjection(1 .. Len(w), ToSet(w)) BY <1>2, <1>3, Fun_IsSurj
<1>5. IsFiniteSet(1 .. Len(w)) BY <1>1, FS_Interval
<1>6. IsFiniteSet(ToSet(w)) BY <1>4, <1>5, FS_Surjection
<1>7. ToSet(w) \subseteq S BY <1>1 DEF ToSet
<1> QED BY <1>6, <1>7

Planned == [who : Seq(Farmed), paused : BOOLEAN]

\* The sessions of a plan can be counted.
LEMMA UnderwayFinite ==
  ASSUME NEW f \in Plan, plan[f] \in Planned, NEW tr
  PROVE  IsFiniteSet(Underway(f, tr)) /\ Cardinality(Underway(f, tr)) \in Nat
<1>1. IsFiniteSet(Targets(f)) BY RangeFinite DEF Targets, Planned
<1>2. IsFiniteSet(1 .. Sittings) BY FS_Interval, FarmNumbers
<1>3. IsFiniteSet(Targets(f) \X (1 .. Sittings)) BY <1>1, <1>2, FS_Product
<1>4. Underway(f, tr) \in SUBSET (Targets(f) \X (1 .. Sittings)) BY DEF Underway
<1>5. IsFiniteSet(Underway(f, tr)) BY <1>3, <1>4, FS_Subset
<1> QED BY <1>5, FS_CardinalityType

\* One session more under way is one more at most.
LEMMA UnderwayGrows ==
  ASSUME NEW f \in Plan, plan[f] \in Planned, NEW a \in [Farmed -> Track], NEW b \in [Farmed -> Track],
         NEW p \in Farmed, NEW i,
         \A q \in Farmed : q # p => InFlight(b[q]) \subseteq InFlight(a[q]),
         InFlight(b[p]) \subseteq InFlight(a[p]) \cup {i}
  PROVE  Cardinality(Underway(f, b)) <= Cardinality(Underway(f, a)) + 1
<1>1. IsFiniteSet(Underway(f, a)) /\ Cardinality(Underway(f, a)) \in Nat BY UnderwayFinite
<1>2. Targets(f) \subseteq Farmed BY RangeFinite DEF Targets, Planned
<1>3. Underway(f, b) \subseteq Underway(f, a) \cup {<<p, i>>}
  <2> SUFFICES ASSUME NEW s \in Underway(f, b) PROVE s \in Underway(f, a) \cup {<<p, i>>}
    OBVIOUS
  <2>1. s \in Targets(f) \X (1 .. Sittings) /\ s[2] \in InFlight(b[s[1]]) BY DEF Underway
  <2>2. s[1] \in Farmed /\ s = <<s[1], s[2]>> BY <2>1, <1>2
  <2>3. CASE s[1] = p BY <2>1, <2>2, <2>3 DEF Underway
  <2>4. CASE s[1] # p BY <2>1, <2>2, <2>4 DEF Underway
  <2> QED BY <2>3, <2>4
<1>4. IsFiniteSet(Underway(f, a) \cup {<<p, i>>})
      /\ Cardinality(Underway(f, a) \cup {<<p, i>>}) <= Cardinality(Underway(f, a)) + 1
  <2> DEFINE U == Underway(f, a)
  <2>1. IsFiniteSet(U) /\ Cardinality(U) \in Nat BY <1>1
  <2> HIDE DEF U
  <2>2. IsFiniteSet(U \cup {<<p, i>>})
        /\ Cardinality(U \cup {<<p, i>>}) = IF <<p, i>> \in U THEN Cardinality(U) ELSE Cardinality(U) + 1
    BY <2>1, FS_AddElement
  <2>3. Cardinality(U \cup {<<p, i>>}) <= Cardinality(U) + 1 BY <2>1, <2>2
  <2> QED BY <2>2, <2>3 DEF U
<1>5. IsFiniteSet(Underway(f, b)) /\ Cardinality(Underway(f, b)) \in Nat
      /\ Cardinality(Underway(f, a) \cup {<<p, i>>}) \in Nat
  BY <1>4, UnderwayFinite, FS_CardinalityType
<1>6. Cardinality(Underway(f, b)) <= Cardinality(Underway(f, a) \cup {<<p, i>>})
  BY <1>3, <1>4, FS_Subset
<1> QED BY <1>1, <1>4, <1>5, <1>6

\* A session that ended is one less.
LEMMA UnderwayEnds ==
  ASSUME NEW f \in Plan, plan[f] \in Planned, NEW a \in [Farmed -> Track], NEW b \in [Farmed -> Track],
         \A q \in Farmed : InFlight(b[q]) \subseteq InFlight(a[q])
  PROVE  /\ Cardinality(Underway(f, b)) <= Cardinality(Underway(f, a))
         /\ \A p \in Targets(f) : InFlight(a[p]) # {} /\ InFlight(b[p]) = {} =>
              Cardinality(Underway(f, b)) + 1 <= Cardinality(Underway(f, a))
<1>1. IsFiniteSet(Underway(f, a)) /\ Cardinality(Underway(f, a)) \in Nat
      /\ IsFiniteSet(Underway(f, b)) /\ Cardinality(Underway(f, b)) \in Nat BY UnderwayFinite
<1>2. Targets(f) \subseteq Farmed BY RangeFinite DEF Targets, Planned
<1>3. Underway(f, b) \subseteq Underway(f, a)
  <2> SUFFICES ASSUME NEW s \in Underway(f, b) PROVE s \in Underway(f, a)
    OBVIOUS
  <2>1. s \in Targets(f) \X (1 .. Sittings) /\ s[2] \in InFlight(b[s[1]]) BY DEF Underway
  <2>2. s[1] \in Farmed BY <2>1, <1>2
  <2> QED BY <2>1, <2>2 DEF Underway
<1>4. Cardinality(Underway(f, b)) <= Cardinality(Underway(f, a)) BY <1>1, <1>3, FS_Subset
<1>5. ASSUME NEW p \in Targets(f), InFlight(a[p]) # {}, InFlight(b[p]) = {}
      PROVE  Cardinality(Underway(f, b)) + 1 <= Cardinality(Underway(f, a))
  <2>1. PICK i \in InFlight(a[p]) : TRUE BY <1>5
  <2>2. i \in 1 .. Sittings BY <1>2, TrackFacts
  <2>3. <<p, i>> \in Underway(f, a) BY <2>1, <2>2 DEF Underway
  <2>4. <<p, i>> \notin Underway(f, b) BY <1>5 DEF Underway
  <2>5. Cardinality(Underway(f, b)) # Cardinality(Underway(f, a))
    BY <1>1, <1>3, <2>3, <2>4, FS_Subset
  <2> QED BY <1>1, <1>4, <2>5
<1> QED BY <1>4, <1>5

(* What has been decided of a pass over plan f, from what b was before it.  *)
Deciding(acc, f, b) ==
  /\ acc \in [room : Nat, track : [Farmed -> Track], starts : SUBSET ({f} \X Farmed)]
  /\ \A p \in Farmed : /\ One(acc.track[p])
                       /\ Credit(acc.track[p]) <= Credit(b[p])
                       /\ b[p].days <= acc.track[p].days
                       /\ InFlight(acc.track[p]) # {} => p \in Targets(f)
  /\ Cardinality(Underway(f, acc.track)) + acc.room <= AtOnce

\* A target's turn keeps what has been decided: a session it starts takes a place
\* of the room, one that it ends gives one back, and it starts none where one is
\* in flight (farm.rs step).
LEMMA TurnDecides ==
  ASSUME NEW f \in Plan, plan[f] \in Planned, NEW b \in [Farmed -> Track], NEW acc, Deciding(acc, f, b),
         NEW p \in Targets(f), NEW sign \in [Farmed -> Signs], NEW n \in 1 .. Sittings
  PROVE  Deciding(Turn(acc, p, f, sign, n), f, b)
<1> DEFINE t == acc.track[p]
           today == IF DayOver(t, sign[p] = "over") THEN DayClosed(t) ELSE t
           next == FirstOf(Waiting(today))
           Keep(u) == [acc EXCEPT !.track[p] = u]
<1>1. p \in Farmed BY RangeFinite DEF Targets, Planned
<1>2. acc.room \in Nat /\ acc.track \in [Farmed -> Track] /\ acc.starts \subseteq {f} \X Farmed
      /\ acc = [room |-> acc.room, track |-> acc.track, starts |-> acc.starts]
  BY DEF Deciding
<1>3. t \in Track BY <1>1, <1>2
<1>4. t.days \in Nat /\ Days \in Nat BY <1>3, TrackFacts, FarmNumbers
<1>count. Cardinality(Underway(f, acc.track)) \in Nat /\ AtOnce \in Nat BY UnderwayFinite, FarmNumbers
<1>kept. ASSUME NEW u \in Track, InFlight(u) = {}, Credit(u) <= Credit(t), t.days <= u.days
         PROVE  /\ Deciding(Keep(u), f, b)
                /\ InFlight(t) # {} => Deciding([Keep(u) EXCEPT !.room = @ + 1], f, b)
  <2> DEFINE v == [acc.track EXCEPT ![p] = u]
  <2>1. Keep(u) = [room |-> acc.room, track |-> v, starts |-> acc.starts]
    BY <1>2
  <2>2. [Keep(u) EXCEPT !.room = @ + 1] = [room |-> acc.room + 1, track |-> v, starts |-> acc.starts]
    <3> HIDE DEF Keep
    <3>1. Keep(u).room = acc.room BY <2>1
    <3> QED BY <2>1, <3>1
  <2>3. v \in [Farmed -> Track] BY <1>2
  <2>4. v[p] = u /\ \A q \in Farmed : q # p => v[q] = acc.track[q] BY <1>1, <1>2
  <2> HIDE DEF v
  <2>5. \A q \in Farmed : /\ One(v[q]) /\ Credit(v[q]) <= Credit(b[q]) /\ b[q].days <= v[q].days
                          /\ InFlight(v[q]) # {} => q \in Targets(f)
    <3>1. One(u) BY <1>kept DEF One
    <3>2. Credit(u) \in Nat /\ Credit(t) \in Nat /\ Credit(b[p]) \in Nat /\ b[p].days \in Nat /\ u.days \in Nat
      BY <1>1, <1>3, <1>kept, TrackFacts
    <3>3. Credit(u) <= Credit(b[p]) /\ b[p].days <= u.days
      BY <1>1, <1>4, <1>kept, <3>2 DEF Deciding
    <3> QED BY <1>kept, <2>4, <3>1, <3>3 DEF Deciding
  <2>6. \A q \in Farmed : InFlight(v[q]) \subseteq InFlight(acc.track[q]) BY <2>4, <1>kept
  <2>7. Cardinality(Underway(f, v)) <= Cardinality(Underway(f, acc.track)) BY <1>2, <2>3, <2>6, UnderwayEnds
  <2>8. InFlight(t) # {} => Cardinality(Underway(f, v)) + 1 <= Cardinality(Underway(f, acc.track))
    BY <1>2, <1>kept, <2>3, <2>4, <2>6, UnderwayEnds
  <2>9. Cardinality(Underway(f, v)) \in Nat BY UnderwayFinite
  <2>10. Cardinality(Underway(f, acc.track)) + acc.room <= AtOnce BY DEF Deciding
  <2> HIDE DEF Keep
  <2>11. Deciding(Keep(u), f, b)
    BY <1>2, <1>count, <2>1, <2>3, <2>5, <2>7, <2>9, <2>10 DEF Deciding
  <2>12. InFlight(t) # {} => Deciding([Keep(u) EXCEPT !.room = @ + 1], f, b)
    <3> SUFFICES ASSUME InFlight(t) # {}
        PROVE  Deciding([room |-> acc.room + 1, track |-> v, starts |-> acc.starts], f, b)
      BY <2>2
    <3> DEFINE k == [room |-> acc.room + 1, track |-> v, starts |-> acc.starts]
    <3>1. k \in [room : Nat, track : [Farmed -> Track], starts : SUBSET ({f} \X Farmed)]
          /\ k.room = acc.room + 1 /\ k.track = v
      BY <1>2, <2>3
    <3> HIDE DEF k
    <3>2. Cardinality(Underway(f, k.track)) + k.room <= AtOnce
      BY <1>2, <1>count, <2>8, <2>9, <2>10, <3>1
    <3>3. Deciding(k, f, b) BY <2>5, <3>1, <3>2 DEF Deciding
    <3> QED BY <3>3 DEF k
  <2> QED BY <2>11, <2>12
<1>5. CASE t.days >= Days
  BY <1>4, <1>5 DEF Turn
<1>6. CASE t.days < Days /\ InFlight(t) # {}
  <2>1. Turn(acc, p, f, sign, n) =
          IF sign[p] = "over" THEN [Keep(Ended(t, "failed")) EXCEPT !.room = @ + 1] ELSE acc
    BY <1>4, <1>6 DEF Turn
  <2>2. One(t) BY <1>1 DEF Deciding
  <2>3. Ended(t, "failed") \in Track /\ InFlight(Ended(t, "failed")) = {}
        /\ Credit(Ended(t, "failed")) <= Credit(t) /\ Ended(t, "failed").days = t.days
    BY <1>3, <2>2, EndedFacts
  <2> HIDE DEF Keep
  <2>4. Deciding([Keep(Ended(t, "failed")) EXCEPT !.room = @ + 1], f, b)
    <3>1. t.days <= Ended(t, "failed").days BY <1>4, <2>3
    <3> QED BY <1>6, <1>kept, <2>3, <3>1
  <2> QED BY <2>1, <2>4
<1>7. CASE t.days < Days /\ InFlight(t) = {}
  <2>1. today \in Track /\ InFlight(today) = {} /\ Credit(today) <= Credit(t) /\ t.days <= today.days
    <3>1. CASE DayOver(t, sign[p] = "over")
      BY <1>3, <1>7, <3>1, DayClosedFacts DEF DayOver
    <3>2. CASE ~ DayOver(t, sign[p] = "over")
      <4>1. Credit(t) \in Nat BY <1>3, TrackFacts
      <4> QED BY <1>3, <1>4, <1>7, <3>2, <4>1
    <3> QED BY <3>1, <3>2
  <2>2. Turn(acc, p, f, sign, n) =
          CASE today.days >= Days -> Keep(today)
            [] today.days < Days /\ ~ today.open -> Keep(DayPlanned(today, n))
            [] OTHER ->
                 IF Waiting(today) = {} \/ sign[p] \notin {"due", "last"} THEN Keep(today)
                 ELSE IF p \in loop.seen
                      THEN Keep(IF sign[p] = "last" THEN Marked(today, next, "skipped") ELSE today)
                 ELSE IF p \in Shared \/ acc.room = 0 THEN Keep(today)
                 ELSE [room |-> acc.room - 1, starts |-> acc.starts \cup {<<f, p>>},
                       track |-> [acc.track EXCEPT ![p] = Marked(today, next, "running")]]
    BY <1>4, <1>7 DEF Turn
  <2> HIDE DEF today
  <2>3. Deciding(Keep(today), f, b) BY <1>kept, <2>1
  <2>4. today.days \in Nat /\ Credit(today) \in Nat /\ Credit(t) \in Nat BY <1>3, <2>1, TrackFacts
  <2>5. Deciding(Keep(DayPlanned(today, n)), f, b)
    <3>1. DayPlanned(today, n) \in Track /\ InFlight(DayPlanned(today, n)) = {}
          /\ DayPlanned(today, n).days = today.days /\ Credit(DayPlanned(today, n)) <= Credit(today)
      BY <2>1, DayPlannedFacts
    <3>2. Credit(DayPlanned(today, n)) \in Nat BY <3>1, TrackFacts
    <3>3. Credit(DayPlanned(today, n)) <= Credit(t) /\ t.days <= DayPlanned(today, n).days
      BY <1>4, <2>1, <2>4, <3>1, <3>2
    <3> HIDE DEF Keep
    <3> QED BY <1>kept, <3>1, <3>3
  <2>6. Waiting(today) # {} => next \in Waiting(today)
    <3>1. Waiting(today) \subseteq Nat BY <2>1, TrackFacts
    <3> QED BY <3>1, FirstFact
  <2> HIDE DEF next
  <2>7. Waiting(today) # {} => Deciding(Keep(Marked(today, next, "skipped")), f, b)
    <3> SUFFICES ASSUME Waiting(today) # {} PROVE Deciding(Keep(Marked(today, next, "skipped")), f, b)
      OBVIOUS
    <3>1. Marked(today, next, "skipped") \in Track /\ InFlight(Marked(today, next, "skipped")) = {}
          /\ Marked(today, next, "skipped").days = today.days
          /\ Credit(Marked(today, next, "skipped")) = Credit(today)
      BY <2>1, <2>6, MarkedFacts
    <3> HIDE DEF Keep
    <3> QED BY <1>kept, <2>1, <3>1
  <2>8. Waiting(today) # {} /\ acc.room # 0 =>
          Deciding([room |-> acc.room - 1, starts |-> acc.starts \cup {<<f, p>>},
                    track |-> [acc.track EXCEPT ![p] = Marked(today, next, "running")]], f, b)
    <3> SUFFICES ASSUME Waiting(today) # {}, acc.room # 0
        PROVE  Deciding([room |-> acc.room - 1, starts |-> acc.starts \cup {<<f, p>>},
                         track |-> [acc.track EXCEPT ![p] = Marked(today, next, "running")]], f, b)
      OBVIOUS
    <3> DEFINE u == Marked(today, next, "running")
               v == [acc.track EXCEPT ![p] = u]
    <3>1. u \in Track /\ InFlight(u) = {next} /\ u.days = today.days /\ Credit(u) = Credit(today)
      BY <2>1, <2>6, MarkedFacts
    <3> HIDE DEF u
    <3>3. v \in [Farmed -> Track] BY <1>2, <3>1
    <3>4. v[p] = u /\ \A q \in Farmed : q # p => v[q] = acc.track[q] BY <1>1, <1>2
    <3> HIDE DEF v
    <3>5. \A q \in Farmed : /\ One(v[q]) /\ Credit(v[q]) <= Credit(b[q]) /\ b[q].days <= v[q].days
                            /\ InFlight(v[q]) # {} => q \in Targets(f)
      <4>1. One(u) BY <3>1 DEF One
      <4>2. Credit(b[p]) \in Nat /\ b[p].days \in Nat BY <1>1, TrackFacts
      <4>3. Credit(u) <= Credit(b[p]) /\ b[p].days <= u.days
        BY <1>1, <1>4, <2>1, <2>4, <3>1, <4>2 DEF Deciding
      <4> QED BY <3>4, <4>1, <4>3 DEF Deciding
    <3>6. Cardinality(Underway(f, v)) <= Cardinality(Underway(f, acc.track)) + 1
      <4>1. InFlight(v[p]) \subseteq InFlight(acc.track[p]) \cup {next} BY <3>1, <3>4
      <4> QED BY <1>1, <1>2, <3>3, <3>4, <4>1, UnderwayGrows
    <3>7. Cardinality(Underway(f, v)) \in Nat BY UnderwayFinite
    <3>8. acc.starts \cup {<<f, p>>} \subseteq {f} \X Farmed BY <1>1, <1>2
    <3>9. Cardinality(Underway(f, acc.track)) + acc.room <= AtOnce BY DEF Deciding
    <3> HIDE DEF Keep
    <3> DEFINE k == [room |-> acc.room - 1, track |-> v, starts |-> acc.starts \cup {<<f, p>>}]
    <3>10. k \in [room : Nat, track : [Farmed -> Track], starts : SUBSET ({f} \X Farmed)]
           /\ k.room = acc.room - 1 /\ k.track = v
      BY <1>2, <3>3, <3>8
    <3> HIDE DEF k
    <3>11. Cardinality(Underway(f, k.track)) + k.room <= AtOnce
      BY <1>2, <1>count, <3>6, <3>7, <3>9, <3>10
    <3>12. Deciding(k, f, b) BY <3>5, <3>10, <3>11 DEF Deciding
    <3> QED BY <3>12 DEF k, u, v
  <2> HIDE DEF Keep
  <2>9. CASE today.days >= Days BY <1>4, <2>2, <2>3, <2>4, <2>9
  <2>10. CASE today.days < Days /\ ~ today.open BY <1>4, <2>2, <2>4, <2>5, <2>10
  <2>11. CASE today.days < Days /\ today.open
    BY <1>4, <2>2, <2>3, <2>4, <2>7, <2>8, <2>11
  <2>12. today.open \in BOOLEAN BY <2>1, TrackFacts
  <2> QED BY <1>4, <2>4, <2>9, <2>10, <2>11, <2>12
<1> QED BY <1>4, <1>5, <1>6, <1>7

Undecided(f) == [room |-> RoomOf(f), track |-> track[f], starts |-> {}]

(* The turns of the first m targets, one after another. *)
Turns(a, m, f, sign, n) ==
  a = [i \in 0 .. m |-> IF i = 0 THEN Undecided(f) ELSE Turn(a[i - 1], plan[f].who[i], f, sign, n)]

\* The turns of a list's first m members exist, by the least m for which they do
\* not.
LEMMA TurnsThere ==
  ASSUME NEW f \in Plan, NEW sign, NEW n, NEW m \in Nat
  PROVE  \E a : Turns(a, m, f, sign, n)
<1> DEFINE T == {k \in Nat : ~ \E a : Turns(a, k, f, sign, n)}
<1>1. SUFFICES T = {}
  OBVIOUS
<1>2. SUFFICES ASSUME T # {} PROVE FALSE
  OBVIOUS
<1>3. T \in SUBSET Nat OBVIOUS
<1> HIDE DEF T
<1>4. PICK x \in T : \A y \in T : x <= y BY <1>2, <1>3, LeastOf
<1>5. x \in Nat /\ ~ \E a : Turns(a, x, f, sign, n) BY <1>4 DEF T
<1>6. x # 0
  <2> DEFINE a0 == [i \in 0 .. 0 |-> Undecided(f)]
  <2>1. a0 = [i \in 0 .. 0 |-> IF i = 0 THEN Undecided(f)
                               ELSE Turn(a0[i - 1], plan[f].who[i], f, sign, n)]
    OBVIOUS
  <2>2. Turns(a0, 0, f, sign, n) BY <2>1 DEF Turns
  <2> QED BY <1>5, <2>2
<1>7. x - 1 \in Nat /\ x - 1 \notin T BY <1>3, <1>4, <1>5, <1>6
<1>8. PICK a : Turns(a, x - 1, f, sign, n) BY <1>7 DEF T
<1> DEFINE last == Turn(a[x - 1], plan[f].who[x], f, sign, n)
           b == [i \in 0 .. x |-> IF i = x THEN last ELSE a[i]]
           c == [i \in 0 .. x |-> IF i = 0 THEN Undecided(f)
                                  ELSE Turn(b[i - 1], plan[f].who[i], f, sign, n)]
<1>9. \A i \in 0 .. x : b[i] = c[i]
  <2> SUFFICES ASSUME NEW i \in 0 .. x PROVE b[i] = c[i]
    OBVIOUS
  <2>0. \A j \in 0 .. (x - 1) :
          a[j] = IF j = 0 THEN Undecided(f) ELSE Turn(a[j - 1], plan[f].who[j], f, sign, n)
    BY <1>8 DEF Turns
  <2>1. CASE i = 0
    <3>1. b[i] = a[0] /\ c[i] = Undecided(f) BY <1>5, <1>6, <2>1
    <3> QED BY <1>7, <2>0, <2>1, <3>1
  <2>2. CASE i = x
    <3>1. b[x - 1] = a[x - 1] BY <1>5, <1>7
    <3>2. b[i] = last /\ c[i] = Turn(b[x - 1], plan[f].who[x], f, sign, n) BY <1>5, <1>6, <2>2
    <3> QED BY <3>1, <3>2
  <2>3. CASE i # 0 /\ i # x
    <3>1. i \in 0 .. (x - 1) /\ i - 1 \in 0 .. x /\ i - 1 # x BY <1>5, <2>3
    <3>2. b[i] = a[i] /\ b[i - 1] = a[i - 1] BY <3>1, <2>3
    <3>3. c[i] = Turn(b[i - 1], plan[f].who[i], f, sign, n) BY <2>3
    <3>4. a[i] = Turn(a[i - 1], plan[f].who[i], f, sign, n) BY <2>0, <2>3, <3>1
    <3> QED BY <3>2, <3>3, <3>4
  <2> QED BY <2>1, <2>2, <2>3
<1>10. b = c BY <1>9
<1>11. Turns(b, x, f, sign, n) BY <1>10 DEF Turns
<1> QED BY <1>5, <1>11

\* So a whole pass over a plan does (farm.rs step).
LEMMA PassDecides ==
  ASSUME NEW f \in Plan, plan[f] \in Planned, track[f] \in [Farmed -> Track],
         PlanInFlight(f) <= AtOnce,
         \A p \in Farmed : One(track[f][p]) /\ (InFlight(track[f][p]) # {} => p \in Targets(f)),
         NEW sign \in [Farmed -> Signs], NEW n \in 1 .. Sittings
  PROVE  Deciding(PassOver(f, sign, n), f, track[f])
<1> DEFINE who == plan[f].who
           a == CHOOSE g : Turns(g, Len(who), f, sign, n)
<1>1. who \in Seq(Farmed) /\ Len(who) \in Nat /\ DOMAIN who = 1 .. Len(who)
  BY LenProperties DEF Planned
<1>2. Turns(a, Len(who), f, sign, n) BY <1>1, TurnsThere
<1>3. PassOver(f, sign, n) = IF plan[f].paused THEN Undecided(f) ELSE a[Len(who)]
  BY DEF PassOver, Turns, Undecided
<1>4. Deciding(Undecided(f), f, track[f])
  <2>1. PlanInFlight(f) \in Nat /\ AtOnce \in Nat BY UnderwayFinite, FarmNumbers DEF PlanInFlight
  <2>2. RoomOf(f) \in Nat /\ PlanInFlight(f) + RoomOf(f) <= AtOnce BY <2>1 DEF RoomOf
  <2>3. \A p \in Farmed : Credit(track[f][p]) \in Nat /\ track[f][p].days \in Nat
    BY TrackFacts
  <2>4. \A p \in Farmed : Credit(track[f][p]) <= Credit(track[f][p]) /\ track[f][p].days <= track[f][p].days
    BY <2>3
  <2> QED BY <2>2, <2>4 DEF Deciding, Undecided, PlanInFlight
<1> HIDE DEF a
<1>5. \A i \in 0 .. Len(who) :
        a[i] = IF i = 0 THEN Undecided(f) ELSE Turn(a[i - 1], who[i], f, sign, n)
  BY <1>2 DEF Turns
<1> DEFINE T == {i \in 0 .. Len(who) : ~ Deciding(a[i], f, track[f])}
<1>6. T = {}
  <2> SUFFICES ASSUME T # {} PROVE FALSE
    OBVIOUS
  <2>1. T \in SUBSET Nat BY <1>1
  <2> HIDE DEF T
  <2>2. PICK x \in T : \A y \in T : x <= y BY <2>1, LeastOf
  <2>3. x \in 0 .. Len(who) /\ ~ Deciding(a[x], f, track[f]) BY <2>2 DEF T
  <2>4. x # 0 BY <1>4, <1>5, <2>3
  <2>5. x - 1 \in 0 .. Len(who) /\ x - 1 \notin T /\ x \in 1 .. Len(who) BY <1>1, <2>1, <2>2, <2>3, <2>4
  <2>6. Deciding(a[x - 1], f, track[f]) BY <2>5 DEF T
  <2>7. who[x] \in Targets(f) BY <1>1, <2>5 DEF Targets, ToSet
  <2>8. a[x] = Turn(a[x - 1], who[x], f, sign, n) BY <1>5, <2>3, <2>4
  <2> HIDE DEF who
  <2>9. Deciding(Turn(a[x - 1], who[x], f, sign, n), f, track[f])
    BY <2>6, <2>7, TurnDecides
  <2> QED BY <2>3, <2>8, <2>9
<1>7. Deciding(a[Len(who)], f, track[f]) BY <1>1, <1>6
<1> QED BY <1>3, <1>4, <1>7

Job == [at : {"none", "running"}, by : Plan \cup {NoPlan}, stop : BOOLEAN, close : BOOLEAN, page : BOOLEAN]
End == [of : Farmed, by : Plan \cup {NoPlan}, read : BOOLEAN, reported : BOOLEAN, close : BOOLEAN]
Loop == [at : {"asleep", "passing", "starting", "warming"}, seen : SUBSET Farmed,
         starts : SUBSET (Plan \X Farmed)]

(* Runs of plan f that read something in p and have not reported yet.       *)
Pending(f, p) == {e \in ending : e.of = p /\ e.by = f /\ e.read /\ ~ e.reported}

Typed == /\ plan \in [Plan -> Planned] /\ track \in [Plan -> [Farmed -> Track]]
         /\ visits \in [Plan -> [Farmed -> Nat]]
Others == /\ browser \in [Farmed -> {"none", "somebody", "farm"}] /\ job \in [Farmed -> Job]
          /\ ending \subseteq End /\ loop \in Loop /\ window \subseteq Plan \X Farmed
          /\ taken \subseteq Farmed
Bounded == /\ \A f \in Plan : PlanInFlight(f) <= AtOnce
           /\ \A f \in Plan, p \in Farmed :
                One(track[f][p]) /\ (InFlight(track[f][p]) # {} => p \in Targets(f))
Apart == \A f, g \in Plan : f # g /\ Made(f) /\ Made(g) /\ ~ Finished(f) /\ ~ Finished(g)
           => Targets(f) \cap Targets(g) = {}
Earned == \A f \in Plan, p \in Farmed :
            Credit(track[f][p]) + Cardinality(Pending(f, p)) <= visits[f][p]

FarmInv == Typed /\ Others /\ Bounded /\ Apart /\ Earned

\* Runs that have yet to report can be counted.
LEMMA PendingFinite ==
  ASSUME NEW es \in SUBSET End, NEW f, NEW p
  PROVE  /\ IsFiniteSet({e \in es : e.of = p /\ e.by = f /\ e.read /\ ~ e.reported})
         /\ Cardinality({e \in es : e.of = p /\ e.by = f /\ e.read /\ ~ e.reported}) \in Nat
<1> DEFINE S == {e \in es : e.of = p /\ e.by = f /\ e.read /\ ~ e.reported}
           E(c) == [of |-> p, by |-> f, read |-> TRUE, reported |-> FALSE, close |-> c]
<1>1. IsFiniteSet({E(TRUE)}) BY FS_Singleton
<1>2. IsFiniteSet({E(TRUE)} \cup {E(FALSE)}) BY <1>1, FS_AddElement
<1>3. S \subseteq {E(TRUE)} \cup {E(FALSE)}
  <2> SUFFICES ASSUME NEW e \in S PROVE e = E(TRUE) \/ e = E(FALSE)
    OBVIOUS
  <2>1. e \in End /\ e.of = p /\ e.by = f /\ e.read /\ ~ e.reported OBVIOUS
  <2> HIDE DEF S
  <2>2. e.read = TRUE /\ e.reported = FALSE /\ e.close \in {TRUE, FALSE} BY <2>1 DEF End
  <2>3. e = [of |-> e.of, by |-> e.by, read |-> e.read, reported |-> e.reported, close |-> e.close]
    BY <2>1 DEF End
  <2> QED BY <2>1, <2>2, <2>3
<1> HIDE DEF S
<1>4. IsFiniteSet(S) BY <1>2, <1>3, FS_Subset
<1>5. Cardinality(S) \in Nat BY <1>4, FS_CardinalityType
<1> QED BY <1>4, <1>5 DEF S

\* ...those that have read something among them.
LEMMA PendingCounted ==
  ASSUME Others, NEW f, NEW p PROVE IsFiniteSet(Pending(f, p)) /\ Cardinality(Pending(f, p)) \in Nat
<1>1. ending \in SUBSET End BY DEF Others
<1> QED BY <1>1, PendingFinite DEF Pending

\* What writing one profile's track changes.
LEMMA TrackPut ==
  ASSUME Typed, NEW f \in Plan, NEW p \in Farmed, NEW u \in Track
  PROVE  /\ [track EXCEPT ![f][p] = u] \in [Plan -> [Farmed -> Track]]
         /\ \A g \in Plan, q \in Farmed :
              [track EXCEPT ![f][p] = u][g][q] = IF g = f /\ q = p THEN u ELSE track[g][q]
BY DEF Typed

\* When nothing gets under way and no day is taken back the bounds stand.
LEMMA Winds ==
  ASSUME Typed, Bounded, Apart, UNCHANGED plan, track' \in [Plan -> [Farmed -> Track]],
         \A g \in Plan, q \in Farmed : /\ One(track'[g][q])
                                       /\ InFlight(track'[g][q]) \subseteq InFlight(track[g][q])
                                       /\ track[g][q].days <= track'[g][q].days
  PROVE  Bounded' /\ Apart'
<1>1. ASSUME NEW g \in Plan PROVE PlanInFlight(g)' <= AtOnce
  <2>1. PlanInFlight(g)' = Cardinality(Underway(g, track'[g]))
    BY DEF PlanInFlight, Underway, Targets, InFlight
  <2>2. plan[g] \in Planned /\ track[g] \in [Farmed -> Track] /\ track'[g] \in [Farmed -> Track]
    BY DEF Typed
  <2>3. Cardinality(Underway(g, track'[g])) <= Cardinality(Underway(g, track[g])) BY <2>2, UnderwayEnds
  <2>4. Cardinality(Underway(g, track'[g])) \in Nat /\ Cardinality(Underway(g, track[g])) \in Nat
    BY <2>2, UnderwayFinite
  <2>5. Cardinality(Underway(g, track[g])) <= AtOnce /\ AtOnce \in Nat
    BY FarmNumbers DEF Bounded, PlanInFlight
  <2> QED BY <2>1, <2>3, <2>4, <2>5
<1>2. Bounded' BY <1>1 DEF Bounded, One, Targets, InFlight
<1>3. ASSUME NEW g \in Plan, Finished(g) PROVE Finished(g)'
  <2> SUFFICES ASSUME NEW q \in Targets(g) PROVE track'[g][q].days >= Days
    BY DEF Finished, Targets
  <2>1. q \in Farmed BY RangeFinite DEF Typed, Planned, Targets
  <2>2. track[g][q].days >= Days /\ track[g][q].days <= track'[g][q].days
    BY <1>3, <2>1 DEF Finished
  <2>3. track[g][q] \in Track /\ track'[g][q] \in Track BY <2>1 DEF Typed
  <2>4. track[g][q].days \in Nat /\ track'[g][q].days \in Nat /\ Days \in Nat
    BY <2>3, TrackFacts, FarmNumbers
  <2> QED BY <2>2, <2>4
<1>4. Apart' BY <1>3 DEF Apart, Made, Targets
<1> QED BY <1>2, <1>4

\* ...and when no plan and no track changes.
LEMMA Stands ==
  ASSUME Typed, Bounded, Apart, UNCHANGED <<plan, track>> PROVE Bounded' /\ Apart'
BY DEF Bounded, Apart, PlanInFlight, Underway, Targets, InFlight, Made, Finished, One

\* Credit that does not grow stays earned.
LEMMA EarnedStands ==
  ASSUME Typed, Others, Earned, UNCHANGED <<ending, visits>>, track' \in [Plan -> [Farmed -> Track]],
         \A g \in Plan, q \in Farmed : Credit(track'[g][q]) <= Credit(track[g][q])
  PROVE  Earned'
<1> SUFFICES ASSUME NEW g \in Plan, NEW q \in Farmed
    PROVE  Credit(track'[g][q]) + Cardinality(Pending(g, q)) <= visits[g][q]
  BY DEF Earned, Pending, Credit, Read
<1>1. track[g][q] \in Track /\ track'[g][q] \in Track /\ visits[g][q] \in Nat BY DEF Typed
<1>2. Credit(track[g][q]) \in Nat /\ Credit(track'[g][q]) \in Nat /\ Cardinality(Pending(g, q)) \in Nat
  BY <1>1, TrackFacts, PendingCounted
<1>3. Credit(track[g][q]) + Cardinality(Pending(g, q)) <= visits[g][q] BY DEF Earned
<1> QED BY <1>1, <1>2, <1>3

\* A step of a browser, a job or the loop alone.
LEMMA Calm ==
  ASSUME Typed, Others, Bounded, Apart, Earned, UNCHANGED <<plan, track, ending, visits>>
  PROVE  Typed' /\ Bounded' /\ Apart' /\ Earned'
<1>1. \A g \in Plan, q \in Farmed : Credit(track'[g][q]) <= Credit(track[g][q])
  <2> SUFFICES ASSUME NEW g \in Plan, NEW q \in Farmed PROVE Credit(track[g][q]) <= Credit(track[g][q])
    OBVIOUS
  <2>1. track[g][q] \in Track BY DEF Typed
  <2> QED BY <2>1, TrackFacts
<1>2. Earned' BY <1>1, EarnedStands DEF Typed
<1> QED BY <1>2, Stands DEF Typed

\* A session that could not be started is marked failed (ipc.rs farm_local).
LEMMA FailKeeps ==
  ASSUME Typed, Others, Bounded, Apart, Earned, NEW s \in Plan \X Farmed, Fails(s), UNCHANGED <<plan, ending, visits>>
  PROVE  Typed' /\ Bounded' /\ Apart' /\ Earned'
<1> DEFINE f == s[1]
           p == s[2]
           u == Ended(track[f][p], "failed")
<1>1. f \in Plan /\ p \in Farmed OBVIOUS
<1>2. track[f][p] \in Track /\ One(track[f][p]) BY <1>1 DEF Typed, Bounded
<1>3. u \in Track /\ u.days = track[f][p].days /\ InFlight(u) = {} /\ Credit(u) <= Credit(track[f][p])
  BY <1>2, EndedFacts
<1>4. track' = [track EXCEPT ![f][p] = u] BY DEF Fails
<1> HIDE DEF f, p, u
<1>5. track' \in [Plan -> [Farmed -> Track]]
      /\ \A g \in Plan, q \in Farmed : track'[g][q] = IF g = f /\ q = p THEN u ELSE track[g][q]
  BY <1>1, <1>3, <1>4, TrackPut
<1>6. \A g \in Plan, q \in Farmed : track[g][q].days \in Nat /\ Credit(track[g][q]) \in Nat
  <2> SUFFICES ASSUME NEW g \in Plan, NEW q \in Farmed
      PROVE  track[g][q].days \in Nat /\ Credit(track[g][q]) \in Nat
    OBVIOUS
  <2>1. track[g][q] \in Track BY DEF Typed
  <2> QED BY <2>1, TrackFacts
<1>7. \A g \in Plan, q \in Farmed : /\ One(track'[g][q])
                                    /\ InFlight(track'[g][q]) \subseteq InFlight(track[g][q])
                                    /\ track[g][q].days <= track'[g][q].days
                                    /\ Credit(track'[g][q]) <= Credit(track[g][q])
  <2> SUFFICES ASSUME NEW g \in Plan, NEW q \in Farmed
      PROVE  /\ One(track'[g][q])
             /\ InFlight(track'[g][q]) \subseteq InFlight(track[g][q])
             /\ track[g][q].days <= track'[g][q].days
             /\ Credit(track'[g][q]) <= Credit(track[g][q])
    OBVIOUS
  <2>1. CASE g = f /\ q = p
    <3>1. track'[g][q] = u BY <1>5, <2>1
    <3>2. One(u) BY <1>3 DEF One
    <3> QED BY <1>3, <1>6, <2>1, <3>1, <3>2
  <2>2. CASE ~ (g = f /\ q = p)
    <3>1. track'[g][q] = track[g][q] BY <1>5, <2>2
    <3> QED BY <1>6, <3>1 DEF Bounded
  <2> QED BY <2>1, <2>2
<1>8. Typed' BY <1>5 DEF Typed
<1> QED BY <1>5, <1>7, <1>8, Winds, EarnedStands

\* A profile that the plan has not begun with.
LEMMA NoTrackFacts == NoTrack \in Track /\ InFlight(NoTrack) = {} /\ Credit(NoTrack) = 0
<1>1. << >> \in [1 .. 0 -> Marks] OBVIOUS
<1>2. Sittings \in Nat /\ 0 \in 0 .. Sittings BY FarmNumbers
<1>3. << >> \in SeqOf(Marks, Sittings) BY <1>1, <1>2, IsSeqOf
<1>4. 0 \in 0 .. Days BY FarmNumbers
<1>5. InFlight(NoTrack) = {} BY DEF InFlight, NoTrack
<1>6. Credit(NoTrack) = 0 BY DEF Credit, NoTrack
<1> QED BY <1>3, <1>4, <1>5, <1>6 DEF NoTrack, Track

\* There is no plan.
LEMMA FarmStart == FarmInit => FarmInv
<1> SUFFICES ASSUME FarmInit PROVE FarmInv
  OBVIOUS
<1>1. NoTrack \in Track /\ InFlight(NoTrack) = {} /\ Credit(NoTrack) = 0 BY NoTrackFacts
<1>2. NoJob \in Job BY DEF NoJob, Job
<1>3. [who |-> << >>, paused |-> FALSE] \in Planned BY DEF Planned
<1>4. Typed BY <1>1, <1>3 DEF FarmInit, Typed
<1>5. loop \in Loop BY DEF FarmInit, Loop
<1>6. Others BY <1>2, <1>5 DEF FarmInit, Others
<1>7. \A f \in Plan : Targets(f) = {} /\ ~ Made(f) BY DEF FarmInit, Targets, ToSet, Made
<1>8. Bounded
  <2>1. \A f \in Plan : Underway(f, track[f]) = {} BY <1>7 DEF Underway
  <2>2. \A f \in Plan : PlanInFlight(f) = 0 BY <2>1, FS_EmptySet DEF PlanInFlight
  <2>3. 0 <= AtOnce BY FarmNumbers
  <2>4. \A f \in Plan, p \in Farmed : track[f][p] = NoTrack BY DEF FarmInit
  <2> QED BY <1>1, <2>2, <2>3, <2>4 DEF Bounded, One
<1>9. Apart BY <1>7 DEF Apart
<1>10. Earned
  <2>1. \A f, p : Cardinality(Pending(f, p)) = 0 BY FS_EmptySet DEF FarmInit, Pending
  <2>2. \A f \in Plan, p \in Farmed : Credit(track[f][p]) = 0 /\ visits[f][p] = 0
    BY <1>1 DEF FarmInit
  <2> QED BY <2>1, <2>2 DEF Earned
<1> QED BY <1>4, <1>6, <1>8, <1>9, <1>10 DEF FarmInv

\* One step per action.  A report adds to a day's credit what it takes from the
\* runs that have yet to report, so that a late one, one of an earlier session or
\* one that was given up cannot count twice (farm.rs report, step;
\* warm.rs run).
LEMMA FarmStep == FarmInv /\ [FarmNext]_farmVars => FarmInv'
<1> SUFFICES ASSUME FarmInv, [FarmNext]_farmVars PROVE FarmInv'
  OBVIOUS
<1> USE DEF FarmInv
<1>calm. ASSUME UNCHANGED <<plan, track, ending, visits>>, Others' PROVE FarmInv'
  BY <1>calm, Calm
<1>nat. \A g \in Plan, q \in Farmed : /\ track[g][q] \in Track /\ track[g][q].days \in Nat
                                      /\ Credit(track[g][q]) \in Nat /\ visits[g][q] \in Nat
                                      /\ Cardinality(Pending(g, q)) \in Nat
  <2> SUFFICES ASSUME NEW g \in Plan, NEW q \in Farmed
      PROVE  /\ track[g][q] \in Track /\ track[g][q].days \in Nat
             /\ Credit(track[g][q]) \in Nat /\ visits[g][q] \in Nat
             /\ Cardinality(Pending(g, q)) \in Nat
    OBVIOUS
  <2>1. track[g][q] \in Track /\ visits[g][q] \in Nat BY DEF Typed
  <2> QED BY <2>1, TrackFacts, PendingCounted
<1>unpaged. \A p \in Farmed : Unpaged(p) \in [Farmed -> Job]
  <2> SUFFICES ASSUME NEW p \in Farmed PROVE Unpaged(p) \in [Farmed -> Job]
    OBVIOUS
  <2>1. [job[p] EXCEPT !.page = FALSE] \in Job BY DEF Others, Job
  <2> QED BY <2>1 DEF Unpaged, Others
<1>started. \A p \in Farmed, f \in Plan \cup {NoPlan}, closing \in BOOLEAN, page \in BOOLEAN :
     [job EXCEPT ![p] = [at |-> "running", by |-> f, stop |-> FALSE, close |-> closing, page |-> page]]
       \in [Farmed -> Job]
  BY DEF Others, Job
<1>starts. ASSUME NEW p \in Farmed, NEW f \in Plan \cup {NoPlan}, NEW closing \in BOOLEAN,
                  StartsRun(p, f, closing)
           PROVE  job' \in [Farmed -> Job]
  <2> DEFINE page == p \in Open
  <2>1. page \in BOOLEAN OBVIOUS
  <2>2. job' = [job EXCEPT ![p] = [at |-> "running", by |-> f, stop |-> FALSE,
                                   close |-> closing, page |-> page]]
    BY <1>starts DEF StartsRun
  <2> HIDE DEF page
  <2> QED BY <2>1, <2>2, <1>started
<1>1. CASE UNCHANGED farmVars
  BY <1>1, <1>calm DEF farmVars, Others
<1>2. ASSUME NEW f \in Plan, Drops(f) PROVE FarmInv'
  <2>1. /\ plan' = [plan EXCEPT ![f] = [who |-> << >>, paused |-> FALSE]]
        /\ track' = [track EXCEPT ![f] = [p \in Farmed |-> NoTrack]]
        /\ visits' = [visits EXCEPT ![f] = [p \in Farmed |-> 0]]
        /\ UNCHANGED <<browser, job, ending, loop, window, taken>>
        /\ \A e \in ending : e.by # f
    BY <1>2 DEF Drops
  <2>2. NoTrack \in Track /\ InFlight(NoTrack) = {} /\ Credit(NoTrack) = 0 BY NoTrackFacts
  <2>3. Typed'
    <3>1. [who |-> << >>, paused |-> FALSE] \in Planned BY DEF Planned
    <3>2. [p \in Farmed |-> NoTrack] \in [Farmed -> Track] BY <2>2
    <3> QED BY <2>1, <3>1, <3>2 DEF Typed
  <2>4. Others' BY <2>1 DEF Others
  <2>5. \A g \in Plan : g # f => plan'[g] = plan[g] /\ track'[g] = track[g] /\ visits'[g] = visits[g]
    BY <2>1 DEF Typed
  <2>6. plan'[f].who = << >> /\ \A q \in Farmed : track'[f][q] = NoTrack /\ visits'[f][q] = 0
    BY <2>1 DEF Typed
  <2>7. Bounded'
    <3>1. \A g \in Plan : g # f => PlanInFlight(g)' = PlanInFlight(g)
      BY <2>5 DEF PlanInFlight, Underway, Targets, InFlight
    <3>2. PlanInFlight(f)' <= AtOnce
      <4>1. Targets(f)' = {} BY <2>6 DEF Targets, ToSet
      <4>2. Underway(f, track[f])' = {} BY <4>1 DEF Underway
      <4>3. PlanInFlight(f)' = 0 BY <4>2, FS_EmptySet DEF PlanInFlight
      <4> QED BY <4>3, FarmNumbers
    <3>3. \A g \in Plan : g # f => Targets(g)' = Targets(g) BY <2>5 DEF Targets
    <3>4. \A g \in Plan, q \in Farmed :
            One(track'[g][q]) /\ (InFlight(track'[g][q]) # {} => q \in Targets(g)')
      <4> SUFFICES ASSUME NEW g \in Plan, NEW q \in Farmed
          PROVE  One(track'[g][q]) /\ (InFlight(track'[g][q]) # {} => q \in Targets(g)')
        OBVIOUS
      <4>1. CASE g = f BY <2>2, <2>6, <4>1 DEF One
      <4>2. CASE g # f BY <2>5, <3>3, <4>2 DEF Bounded
      <4> QED BY <4>1, <4>2
    <3>5. \A g \in Plan : PlanInFlight(g)' <= AtOnce BY <3>1, <3>2 DEF Bounded
    <3> QED BY <3>4, <3>5 DEF Bounded, One, InFlight
  <2>8. Apart' BY <2>5, <2>6 DEF Apart, Made, Finished, Targets
  <2>9. Earned'
    <3> SUFFICES ASSUME NEW g \in Plan, NEW q \in Farmed
        PROVE  Credit(track'[g][q]) + Cardinality(Pending(g, q)) <= visits'[g][q]
      BY <2>1 DEF Earned, Pending, Credit, Read
    <3>1. CASE g = f
      <4>1. Pending(f, q) = {} BY <2>1 DEF Pending
      <4>2. Cardinality(Pending(f, q)) = 0 BY <4>1, FS_EmptySet
      <4> QED BY <2>2, <2>6, <3>1, <4>2
    <3>2. CASE g # f BY <2>5, <3>2 DEF Earned
    <3> QED BY <3>1, <3>2
  <2> QED BY <2>3, <2>4, <2>7, <2>8, <2>9
<1>3. ASSUME NEW f \in Plan, Pauses(f) PROVE FarmInv'
  <2>1. plan' = [plan EXCEPT ![f].paused = ~ @] /\ UNCHANGED <<track, browser, job, ending, loop, window, visits, taken>>
    BY <1>3 DEF Pauses
  <2>2. [plan[f] EXCEPT !.paused = ~ @] \in Planned BY DEF Typed, Planned
  <2>3. Typed' BY <2>1, <2>2 DEF Typed
  <2>4. \A g \in Plan : plan'[g].who = plan[g].who BY <2>1 DEF Typed, Planned
  <2>5. \A g \in Plan : /\ Targets(g)' = Targets(g) /\ (Made(g)' <=> Made(g))
                        /\ Underway(g, track[g])' = Underway(g, track[g])
                        /\ (Finished(g)' <=> Finished(g))
    BY <2>1, <2>4 DEF Targets, Made, Underway, Finished, InFlight
  <2>6. Bounded' BY <2>1, <2>5 DEF Bounded, PlanInFlight, One, InFlight
  <2>7. Apart' BY <2>5 DEF Apart
  <2>8. Earned' BY <2>1 DEF Earned, Pending, Credit, Read
  <2>9. Others' BY <2>1 DEF Others
  <2> QED BY <2>3, <2>6, <2>7, <2>8, <2>9
<1>4. ASSUME NEW f \in Plan, NEW who \in Lists, Makes(f, who) PROVE FarmInv'
  <2>1. plan' = [plan EXCEPT ![f] = [who |-> who, paused |-> FALSE]]
        /\ ~ Made(f) /\ Free(who)
        /\ UNCHANGED <<track, browser, job, ending, loop, window, visits, taken>>
    BY <1>4 DEF Makes
  <2>2. [who |-> who, paused |-> FALSE] \in Planned BY FarmAssumption DEF Planned
  <2>3. Typed' BY <2>1, <2>2 DEF Typed
  <2>4. \A g \in Plan : g # f => plan'[g] = plan[g] BY <2>1 DEF Typed
  <2>5. plan'[f].who = who BY <2>1 DEF Typed
  <2>6. \A g \in Plan : g # f => /\ Targets(g)' = Targets(g) /\ (Made(g)' <=> Made(g))
                                 /\ Underway(g, track[g])' = Underway(g, track[g])
                                 /\ (Finished(g)' <=> Finished(g))
    BY <2>1, <2>4 DEF Targets, Made, Underway, Finished, InFlight
  <2>7. Targets(f) = {} BY <2>1 DEF Made, Targets, ToSet
  <2>8. \A q \in Farmed : InFlight(track[f][q]) = {} BY <2>7 DEF Bounded
  <2>9. PlanInFlight(f)' <= AtOnce
    <3>1. Targets(f)' \subseteq Farmed
      <4>1. plan'[f].who \in Seq(Farmed) BY <2>5, FarmAssumption
      <4> QED BY <4>1, RangeFinite DEF Targets
    <3>2. Underway(f, track[f])' = {} BY <2>1, <2>8, <3>1 DEF Underway, InFlight
    <3>3. PlanInFlight(f)' = 0 BY <3>2, FS_EmptySet DEF PlanInFlight
    <3> QED BY <3>3, FarmNumbers
  <2>10. Bounded'
    <3>1. \A g \in Plan : PlanInFlight(g)' <= AtOnce BY <2>6, <2>9 DEF Bounded, PlanInFlight
    <3>2. \A g \in Plan, q \in Farmed :
            One(track[g][q]) /\ (InFlight(track[g][q]) # {} => q \in Targets(g)')
      BY <2>6, <2>8 DEF Bounded
    <3> QED BY <2>1, <3>1, <3>2 DEF Bounded, One, InFlight
  <2>11. Apart'
    <3>1. Targets(f)' = ToSet(who) BY <2>5 DEF Targets
    <3>2. \A g \in Plan : Made(g) /\ ~ Finished(g) => Targets(g) \cap ToSet(who) = {}
      BY <2>1 DEF Free
    <3>3. ASSUME NEW g \in Plan, NEW h \in Plan, g # h, Made(g)', Made(h)', ~ Finished(g)', ~ Finished(h)'
          PROVE  Targets(g)' \cap Targets(h)' = {}
      <4>1. CASE g = f BY <2>6, <3>1, <3>2, <3>3, <4>1
      <4>2. CASE h = f BY <2>6, <3>1, <3>2, <3>3, <4>2
      <4>3. CASE g # f /\ h # f BY <2>6, <3>3, <4>3 DEF Apart
      <4> QED BY <4>1, <4>2, <4>3
    <3> QED BY <3>3 DEF Apart
  <2>12. Earned' BY <2>1 DEF Earned, Pending, Credit, Read
  <2>13. Others' BY <2>1 DEF Others
  <2> QED BY <2>3, <2>10, <2>11, <2>12, <2>13
<1>5. ASSUME NEW f \in Plan, NEW p \in Farmed, SetsStage(f, p) PROVE FarmInv'
  <2> DEFINE u == [track[f][p] EXCEPT !.ready = FALSE]
  <2>1. track' = [track EXCEPT ![f][p] = u]
        /\ UNCHANGED <<plan, browser, job, ending, loop, window, visits, taken>>
    BY <1>5 DEF SetsStage
  <2>2. u \in Track /\ u.days = track[f][p].days /\ InFlight(u) = InFlight(track[f][p])
        /\ Credit(u) = Credit(track[f][p])
    BY <1>nat DEF Track, InFlight, Credit, Read
  <2> HIDE DEF u
  <2>3. track' \in [Plan -> [Farmed -> Track]]
        /\ \A g \in Plan, q \in Farmed : track'[g][q] = IF g = f /\ q = p THEN u ELSE track[g][q]
    BY <2>1, <2>2, TrackPut
  <2>4. \A g \in Plan, q \in Farmed : /\ One(track'[g][q])
                                      /\ InFlight(track'[g][q]) \subseteq InFlight(track[g][q])
                                      /\ track[g][q].days <= track'[g][q].days
                                      /\ Credit(track'[g][q]) <= Credit(track[g][q])
    <3> SUFFICES ASSUME NEW g \in Plan, NEW q \in Farmed
        PROVE  /\ One(track'[g][q])
               /\ InFlight(track'[g][q]) \subseteq InFlight(track[g][q])
               /\ track[g][q].days <= track'[g][q].days
               /\ Credit(track'[g][q]) <= Credit(track[g][q])
      OBVIOUS
    <3>1. InFlight(track'[g][q]) = InFlight(track[g][q]) /\ track'[g][q].days = track[g][q].days
          /\ Credit(track'[g][q]) = Credit(track[g][q])
      BY <2>2, <2>3
    <3>2. One(track[g][q]) BY DEF Bounded
    <3>3. One(track'[g][q]) BY <3>1, <3>2 DEF One
    <3> QED BY <1>nat, <3>1, <3>3
  <2>5. Bounded' /\ Apart' BY <2>1, <2>3, <2>4, Winds
  <2>6. Earned' BY <2>1, <2>3, <2>4, EarnedStands
  <2>7. Typed' /\ Others' BY <2>1, <2>3 DEF Typed, Others
  <2> QED BY <2>5, <2>6, <2>7
<1>6. ASSUME NEW p \in Farmed, SomebodyOpens(p) PROVE FarmInv'
  BY <1>6, <1>calm DEF SomebodyOpens, Others
<1>7. ASSUME NEW p \in Farmed, SomebodyCloses(p) PROVE FarmInv'
  BY <1>7, <1>calm, <1>unpaged DEF SomebodyCloses, Others
<1>8. ASSUME NEW p \in Farmed, NEW closing \in BOOLEAN, WarmsByHand(p, closing) PROVE FarmInv'
  <2>1. job' \in [Farmed -> Job] BY <1>8, <1>starts DEF WarmsByHand
  <2> QED BY <1>8, <2>1, <1>calm DEF WarmsByHand, Others
<1>9. ASSUME NEW p \in Farmed, StopsRun(p) PROVE FarmInv'
  <2>1. [job[p] EXCEPT !.stop = TRUE] \in Job BY DEF Others, Job
  <2>2. job' \in [Farmed -> Job] BY <1>9, <2>1 DEF StopsRun, Others
  <2> QED BY <1>9, <2>2, <1>calm DEF StopsRun, Others
<1>10. CASE Wakes
  <2>1. loop' \in Loop
    <3>1. Open \subseteq Farmed BY DEF Open
    <3> QED BY <1>10, <3>1 DEF Wakes, Others, Loop
  <2> QED BY <1>10, <2>1, <1>calm DEF Wakes, Others
<1>11. CASE Sleeps
  <2>1. loop' \in Loop BY <1>11 DEF Sleeps, Others, Loop
  <2> QED BY <1>11, <2>1, <1>calm DEF Sleeps, Others
<1>12. CASE WindowGone
  BY <1>12, <1>calm DEF WindowGone, Others
<1>13. ASSUME NEW sign \in [Farmed -> Signs], NEW n \in 1 .. Sittings, Passes(sign, n) PROVE FarmInv'
  <2>1. \A f \in Plan : Deciding(PassOver(f, sign, n), f, track[f])
    <3> SUFFICES ASSUME NEW f \in Plan PROVE Deciding(PassOver(f, sign, n), f, track[f])
      OBVIOUS
    <3>1. plan[f] \in Planned /\ track[f] \in [Farmed -> Track] BY DEF Typed
    <3>2. PlanInFlight(f) <= AtOnce
          /\ \A p \in Farmed : One(track[f][p]) /\ (InFlight(track[f][p]) # {} => p \in Targets(f))
      BY DEF Bounded
    <3> QED BY <3>1, <3>2, PassDecides
  <2>2. track' = [f \in Plan |-> PassOver(f, sign, n).track]
        /\ loop' = [at |-> "starting", seen |-> {}, starts |-> UNION {PassOver(f, sign, n).starts : f \in Plan}]
        /\ UNCHANGED <<plan, browser, job, ending, window, visits, taken>>
    BY <1>13 DEF Passes
  <2>3. \A f \in Plan : /\ track'[f] = PassOver(f, sign, n).track
                        /\ track'[f] \in [Farmed -> Track]
                        /\ PassOver(f, sign, n).starts \subseteq Plan \X Farmed
                        /\ PassOver(f, sign, n).room \in Nat
    BY <2>1, <2>2 DEF Deciding
  <2>4. track' \in [Plan -> [Farmed -> Track]] BY <2>2, <2>3
  <2>5. Typed' BY <2>2, <2>4 DEF Typed
  <2>6. loop' \in Loop BY <2>2, <2>3 DEF Loop
  <2>7. Others' BY <2>2, <2>6 DEF Others
  <2>8. \A f \in Plan, p \in Farmed : /\ One(track'[f][p])
                                      /\ Credit(track'[f][p]) <= Credit(track[f][p])
                                      /\ track[f][p].days <= track'[f][p].days
                                      /\ InFlight(track'[f][p]) # {} => p \in Targets(f)
    BY <2>1, <2>3 DEF Deciding
  <2>9. Bounded'
    <3>1. ASSUME NEW f \in Plan PROVE PlanInFlight(f)' <= AtOnce
      <4>1. PlanInFlight(f)' = Cardinality(Underway(f, track'[f]))
        BY <2>2 DEF PlanInFlight, Underway, Targets, InFlight
      <4>2. Cardinality(Underway(f, track'[f])) + PassOver(f, sign, n).room <= AtOnce
        BY <2>1, <2>3 DEF Deciding
      <4>3. plan[f] \in Planned BY DEF Typed
      <4>4. Cardinality(Underway(f, track'[f])) \in Nat BY <4>3, UnderwayFinite
      <4> QED BY <2>3, <4>1, <4>2, <4>4, FarmNumbers
    <3> QED BY <2>2, <2>8, <3>1 DEF Bounded, One, InFlight, Targets
  <2>10. Apart'
    <3>1. ASSUME NEW g \in Plan, Finished(g) PROVE Finished(g)'
      <4> SUFFICES ASSUME NEW q \in Targets(g) PROVE track'[g][q].days >= Days
        BY <2>2 DEF Finished, Targets
      <4>1. q \in Farmed BY RangeFinite DEF Typed, Planned, Targets
      <4>2. track[g][q].days >= Days /\ track[g][q].days <= track'[g][q].days
        BY <2>8, <3>1, <4>1 DEF Finished
      <4>3. track'[g][q] \in Track BY <2>4, <4>1
      <4>4. track[g][q].days \in Nat /\ track'[g][q].days \in Nat /\ Days \in Nat
        BY <1>nat, <4>1, <4>3, TrackFacts, FarmNumbers
      <4> QED BY <4>2, <4>4
    <3> QED BY <2>2, <3>1 DEF Apart, Made, Targets
  <2>11. Earned' BY <2>2, <2>4, <2>8, EarnedStands
  <2> QED BY <2>5, <2>7, <2>9, <2>10, <2>11
<1>fails. ASSUME NEW s \in Plan \X Farmed, Fails(s), UNCHANGED <<plan, ending, visits>>, Others' PROVE FarmInv'
  BY <1>fails, FailKeeps
<1>14. ASSUME NEW s \in loop.starts, Launches(s) PROVE FarmInv'
  <2>1. s \in Plan \X Farmed BY DEF Others, Loop
  <2>2. s[2] \in Farmed BY <2>1
  <2>3. loop' \in Loop BY <1>14, <2>2 DEF Launches, Others, Loop
  <2> QED BY <1>14, <2>2, <2>3, <1>calm DEF Launches, Others
<1>15. ASSUME NEW s \in loop.starts, LaunchFails(s) PROVE FarmInv'
  <2>1. s \in Plan \X Farmed BY DEF Others, Loop
  <2>2. loop' \in Loop BY <1>15 DEF LaunchFails, Others, Loop
  <2>3. Others' BY <1>15, <2>2 DEF LaunchFails, Others
  <2> QED BY <1>15, <2>1, <2>3, <1>fails DEF LaunchFails
<1>16. ASSUME NEW s \in loop.starts, Warms(s) PROVE FarmInv'
  <2>1. s \in Plan \X Farmed BY DEF Others, Loop
  <2>2. s[1] \in Plan \cup {NoPlan} /\ s[2] \in Farmed BY <2>1
  <2>3. loop' \in Loop BY <1>16 DEF Warms, Others, Loop
  <2>4. CASE s[2] \in Open /\ ~ Busy(s[2])
    <3>1. StartsRun(s[2], s[1], TRUE) /\ UNCHANGED <<track, browser, plan, ending, window, visits, taken>>
      BY <1>16, <2>4 DEF Warms
    <3>2. job' \in [Farmed -> Job] BY <3>1, <2>2, <1>starts
    <3>3. Others' BY <2>3, <3>1, <3>2 DEF Others
    <3> QED BY <3>1, <3>3, <1>calm
  <2>5. CASE ~ (s[2] \in Open /\ ~ Busy(s[2]))
    <3>1. Fails(s) /\ browser' = [browser EXCEPT ![s[2]] = "none"] /\ job' = Unpaged(s[2])
          /\ UNCHANGED <<plan, ending, window, visits, taken>>
      BY <1>16, <2>5 DEF Warms
    <3>2. Others' BY <2>2, <2>3, <3>1, <1>unpaged DEF Others
    <3> QED BY <2>1, <3>1, <3>2, <1>fails
  <2> QED BY <2>4, <2>5
<1>17. ASSUME NEW f \in Plan, NEW p \in Farmed, Claims(f, p) PROVE FarmInv'
  <2> DEFINE i == FirstOf(Waiting(track[f][p]))
             u == Marked(track[f][p], i, "running")
  <2>1. track' = [track EXCEPT ![f][p] = u] /\ window' = window \cup {<<f, p>>}
        /\ UNCHANGED <<plan, browser, job, ending, loop, visits, taken>>
        /\ RoomOf(f) > 0 /\ p \in Targets(f)
        /\ Waiting(track[f][p]) # {} /\ InFlight(track[f][p]) = {}
    BY <1>17 DEF Claims, IsDue
  <2>2. i \in Waiting(track[f][p])
    <3>1. Waiting(track[f][p]) \subseteq Nat BY <1>nat, TrackFacts
    <3> QED BY <2>1, <3>1, FirstFact
  <2> HIDE DEF i
  <2>3. u \in Track /\ u.days = track[f][p].days /\ Credit(u) = Credit(track[f][p]) /\ InFlight(u) = {i}
    BY <1>nat, <2>1, <2>2, MarkedFacts
  <2> HIDE DEF u
  <2>4. track' \in [Plan -> [Farmed -> Track]]
        /\ \A g \in Plan, q \in Farmed : track'[g][q] = IF g = f /\ q = p THEN u ELSE track[g][q]
    BY <2>1, <2>3, TrackPut
  <2>5. Typed' BY <2>1, <2>4 DEF Typed
  <2>6. Others' BY <2>1 DEF Others
  <2>7. Bounded'
    <3>1. ASSUME NEW g \in Plan PROVE PlanInFlight(g)' <= AtOnce
      <4>1. PlanInFlight(g)' = Cardinality(Underway(g, track'[g]))
        BY <2>1 DEF PlanInFlight, Underway, Targets, InFlight
      <4>2. plan[g] \in Planned /\ track[g] \in [Farmed -> Track] /\ track'[g] \in [Farmed -> Track]
        BY <2>4 DEF Typed
      <4>3. Cardinality(Underway(g, track'[g])) \in Nat /\ PlanInFlight(g) \in Nat /\ AtOnce \in Nat
        BY <4>2, UnderwayFinite, FarmNumbers DEF PlanInFlight
      <4>4. CASE g = f
        <5>1. PlanInFlight(f) < AtOnce BY <2>1, <4>3, <4>4 DEF RoomOf
        <5>2. Cardinality(Underway(f, track'[f])) <= Cardinality(Underway(f, track[f])) + 1
          <6>1. \A q \in Farmed : q # p => InFlight(track'[f][q]) \subseteq InFlight(track[f][q])
            BY <2>4
          <6>2. InFlight(track'[f][p]) \subseteq InFlight(track[f][p]) \cup {i} BY <2>3, <2>4
          <6> QED BY <4>2, <4>4, <6>1, <6>2, UnderwayGrows
        <5> QED BY <4>1, <4>3, <4>4, <5>1, <5>2 DEF PlanInFlight
      <4>5. CASE g # f
        <5>1. track'[g] = track[g] BY <2>1, <4>5 DEF Typed
        <5> QED BY <4>1, <5>1 DEF Bounded, PlanInFlight
      <4> QED BY <4>4, <4>5
    <3>2. \A g \in Plan, q \in Farmed :
            One(track'[g][q]) /\ (InFlight(track'[g][q]) # {} => q \in Targets(g))
      <4> SUFFICES ASSUME NEW g \in Plan, NEW q \in Farmed
          PROVE  One(track'[g][q]) /\ (InFlight(track'[g][q]) # {} => q \in Targets(g))
        OBVIOUS
      <4>1. One(u) BY <2>3 DEF One
      <4> QED BY <2>1, <2>4, <4>1 DEF Bounded
    <3> QED BY <2>1, <3>1, <3>2 DEF Bounded, One, InFlight, Targets
  <2>8. Apart'
    <3>1. \A g \in Plan, q \in Farmed : track'[g][q].days = track[g][q].days BY <2>3, <2>4
    <3>2. \A g \in Plan : Targets(g) \subseteq Farmed
      <4> SUFFICES ASSUME NEW g \in Plan PROVE Targets(g) \subseteq Farmed
        OBVIOUS
      <4>1. plan[g].who \in Seq(Farmed) BY DEF Typed, Planned
      <4> QED BY <4>1, RangeFinite DEF Targets
    <3>3. \A g \in Plan : (Finished(g)' <=> Finished(g)) /\ Targets(g)' = Targets(g) /\ (Made(g)' <=> Made(g))
      BY <2>1, <3>1, <3>2 DEF Finished, Targets, Made
    <3> QED BY <3>3 DEF Apart
  <2>9. Earned'
    <3>1. \A g \in Plan, q \in Farmed : Credit(track'[g][q]) <= Credit(track[g][q])
      <4> SUFFICES ASSUME NEW g \in Plan, NEW q \in Farmed
          PROVE  Credit(track'[g][q]) <= Credit(track[g][q])
        OBVIOUS
      <4>1. Credit(track'[g][q]) = Credit(track[g][q]) BY <2>3, <2>4
      <4> QED BY <1>nat, <4>1
    <3> QED BY <2>1, <2>4, <3>1, EarnedStands
  <2> QED BY <2>5, <2>6, <2>7, <2>8, <2>9
<1>18. ASSUME NEW s \in window, WindowStarts(s) PROVE FarmInv'
  <2>1. s \in Plan \X Farmed BY DEF Others
  <2>2. s[1] \in Plan \cup {NoPlan} /\ s[2] \in Farmed BY <2>1
  <2>3. job' \in [Farmed -> Job] BY <1>18, <2>2, <1>started DEF WindowStarts
  <2>4. Others' BY <1>18, <2>2, <2>3 DEF WindowStarts, Others
  <2> QED BY <1>18, <2>4, <1>calm DEF WindowStarts
<1>19. ASSUME NEW s \in window, WindowFails(s) PROVE FarmInv'
  <2>1. s \in Plan \X Farmed BY DEF Others
  <2>2. Others' BY <1>19 DEF WindowFails, Others
  <2> QED BY <1>19, <2>1, <2>2, <1>fails DEF WindowFails
<1>20. ASSUME NEW p \in Farmed, NEW fine \in BOOLEAN, NEW some \in BOOLEAN, RunEnds(p, fine, some)
       PROVE  FarmInv'
  <2> DEFINE j == job[p]
             x == [of |-> p, by |-> j.by, read |-> some, reported |-> FALSE,
                   close |-> j.close /\ ~ j.stop /\ (fine \/ j.by # NoPlan)]
  <2>1. /\ job' = [job EXCEPT ![p] = NoJob]
        /\ visits' = IF some /\ j.by # NoPlan THEN [visits EXCEPT ![j.by][p] = @ + 1] ELSE visits
        /\ ending' = ending \cup {x}
        /\ UNCHANGED <<plan, track, browser, loop, window, taken>>
    BY <1>20 DEF RunEnds
  <2>2. j \in Job BY DEF Others
  <2>3. x \in End
    <3> DEFINE closes == j.close /\ ~ j.stop /\ (fine \/ j.by # NoPlan)
    <3>1. closes \in BOOLEAN OBVIOUS
    <3>2. j.by \in Plan \cup {NoPlan} BY <2>2 DEF Job
    <3> HIDE DEF closes
    <3>3. [of |-> p, by |-> j.by, read |-> some, reported |-> FALSE, close |-> closes] \in End
      BY <3>1, <3>2 DEF End
    <3> QED BY <3>3 DEF closes
  <2>4. x.of = p /\ x.by = j.by /\ x.read = some OBVIOUS
  <2>5. j.by # NoPlan => j.by \in Plan BY <2>2 DEF Job
  <2> HIDE DEF x, j
  <2>6. visits' \in [Plan -> [Farmed -> Nat]]
        /\ \A g \in Plan, q \in Farmed :
             visits'[g][q] = IF some /\ j.by = g /\ q = p THEN visits[g][q] + 1 ELSE visits[g][q]
    <3>1. CASE some /\ j.by # NoPlan
      <4>1. j.by \in Plan BY <2>5, <3>1
      <4>2. visits' = [visits EXCEPT ![j.by][p] = @ + 1] BY <2>1, <3>1
      <4>3. visits[j.by][p] + 1 \in Nat BY <4>1, <1>nat
      <4> QED BY <3>1, <4>1, <4>2, <4>3 DEF Typed
    <3>2. CASE ~ (some /\ j.by # NoPlan)
      <4>1. visits' = visits BY <2>1, <3>2
      <4>2. ~ (some /\ j.by \in Plan) BY <3>2 DEF NoPlan, Plan
      <4> QED BY <4>1, <4>2 DEF Typed
    <3> QED BY <3>1, <3>2
  <2>7. Typed' BY <2>1, <2>6 DEF Typed
  <2>8. Others'
    <3>1. NoJob \in Job BY DEF NoJob, Job
    <3> QED BY <2>1, <2>3, <3>1 DEF Others
  <2>9. Bounded' /\ Apart' BY <2>1, Stands
  <2>10. Earned'
    <3> SUFFICES ASSUME NEW g \in Plan, NEW q \in Farmed
        PROVE  Credit(track[g][q]) + Cardinality(Pending(g, q)') <= visits'[g][q]
      BY <2>1 DEF Earned, Pending, Credit, Read
    <3>1. Credit(track[g][q]) + Cardinality(Pending(g, q)) <= visits[g][q] BY DEF Earned
    <3>2. CASE some /\ j.by = g /\ q = p
      <4>1. Pending(g, q)' \subseteq Pending(g, q) \cup {x} BY <2>1 DEF Pending
      <4> DEFINE S == Pending(g, q)
      <4>2. IsFiniteSet(S) /\ Cardinality(S) \in Nat BY PendingCounted
      <4> HIDE DEF S
      <4>3. IsFiniteSet(S \cup {x}) /\ Cardinality(S \cup {x}) = IF x \in S THEN Cardinality(S) ELSE Cardinality(S) + 1
        BY <4>2, FS_AddElement
      <4>4. Cardinality(S \cup {x}) <= Cardinality(S) + 1 /\ Cardinality(S \cup {x}) \in Nat BY <4>2, <4>3
      <4>5. Pending(g, q)' \in SUBSET (S \cup {x}) BY <4>1 DEF S
      <4>6. IsFiniteSet(Pending(g, q)') /\ Cardinality(Pending(g, q)') <= Cardinality(S \cup {x})
        BY <4>3, <4>5, FS_Subset
      <4>7. Cardinality(Pending(g, q)') \in Nat BY <4>6, FS_CardinalityType
      <4>8. visits'[g][q] = visits[g][q] + 1 BY <2>6, <3>2
      <4>9. Credit(track[g][q]) \in Nat /\ visits[g][q] \in Nat BY <1>nat
      <4>10. Credit(track[g][q]) + Cardinality(S) <= visits[g][q] BY <3>1 DEF S
      <4> QED BY <4>2, <4>4, <4>6, <4>7, <4>8, <4>9, <4>10
    <3>3. CASE ~ (some /\ j.by = g /\ q = p)
      <4>1. Pending(g, q)' = Pending(g, q) BY <2>1, <2>4, <3>3 DEF Pending
      <4>2. visits'[g][q] = visits[g][q] BY <2>6, <3>3
      <4> QED BY <3>1, <4>1, <4>2
    <3> QED BY <3>2, <3>3
  <2> QED BY <2>7, <2>8, <2>9, <2>10
<1>21. ASSUME NEW e \in ending, Reports(e) PROVE FarmInv'
  <2> DEFINE d == [e EXCEPT !.reported = TRUE]
  <2>1. /\ ~ e.reported /\ ending' = (ending \ {e}) \cup {d}
        /\ UNCHANGED <<plan, browser, job, loop, window, visits, taken>>
        /\ e \in End
    BY <1>21 DEF Reports, Others
  <2>2. d \in End /\ d.reported = TRUE BY <2>1 DEF End
  <2> HIDE DEF d
  <2>3. Others' BY <2>1, <2>2 DEF Others
  <2>4. \A g \in Plan, q \in Farmed : Pending(g, q)' \subseteq Pending(g, q) \ {e}
    BY <2>1, <2>2 DEF Pending
  <2>5. \A g \in Plan, q \in Farmed :
          /\ Cardinality(Pending(g, q)') \in Nat
          /\ Cardinality(Pending(g, q)') <= Cardinality(Pending(g, q))
          /\ e \in Pending(g, q) => Cardinality(Pending(g, q)') + 1 <= Cardinality(Pending(g, q))
    <3> SUFFICES ASSUME NEW g \in Plan, NEW q \in Farmed
        PROVE  /\ Cardinality(Pending(g, q)') \in Nat
               /\ Cardinality(Pending(g, q)') <= Cardinality(Pending(g, q))
               /\ e \in Pending(g, q) => Cardinality(Pending(g, q)') + 1 <= Cardinality(Pending(g, q))
      OBVIOUS
    <3> DEFINE S == Pending(g, q)
    <3>1. IsFiniteSet(S) /\ Cardinality(S) \in Nat BY PendingCounted
    <3> HIDE DEF S
    <3>2. IsFiniteSet(S \ {e}) /\ Cardinality(S \ {e}) = IF e \in S THEN Cardinality(S) - 1 ELSE Cardinality(S)
      BY <3>1, FS_RemoveElement
    <3>3. Pending(g, q)' \in SUBSET (S \ {e}) BY <2>4 DEF S
    <3>4. IsFiniteSet(Pending(g, q)') /\ Cardinality(Pending(g, q)') <= Cardinality(S \ {e})
      BY <3>2, <3>3, FS_Subset
    <3>5. Cardinality(Pending(g, q)') \in Nat BY <3>4, FS_CardinalityType
    <3>6. Cardinality(S \ {e}) \in Nat BY <3>2, FS_CardinalityType
    <3>7. Cardinality(Pending(g, q)') <= Cardinality(S)
          /\ (e \in S => Cardinality(Pending(g, q)') + 1 <= Cardinality(S))
      BY <3>1, <3>2, <3>4, <3>5, <3>6
    <3> QED BY <3>5, <3>7 DEF S
  <2>6. CASE e.by = NoPlan
    <3>1. UNCHANGED track BY <1>21, <2>6 DEF Reports
    <3>2. Typed' /\ Bounded' /\ Apart' BY <2>1, <3>1, Stands DEF Typed
    <3>3. Earned'
      <4> SUFFICES ASSUME NEW g \in Plan, NEW q \in Farmed
          PROVE  Credit(track[g][q]) + Cardinality(Pending(g, q)') <= visits[g][q]
        BY <2>1, <3>1 DEF Earned, Pending, Credit, Read
      <4>1. Credit(track[g][q]) + Cardinality(Pending(g, q)) <= visits[g][q] BY DEF Earned
      <4> QED BY <1>nat, <2>5, <4>1
    <3> QED BY <2>3, <3>2, <3>3
  <2>7. CASE e.by # NoPlan
    <3> DEFINE f == e.by
               p == e.of
               how == IF e.read THEN "done" ELSE "failed"
               u == Ended(track[f][p], how)
    <3>1. f \in Plan /\ p \in Farmed BY <2>1, <2>7 DEF End
    <3>2. track' = [track EXCEPT ![f][p] = u] BY <1>21, <2>7 DEF Reports
    <3>3. One(track[f][p]) /\ track[f][p] \in Track BY <3>1, <1>nat DEF Bounded
    <3>4. how \in {"failed", "done"} /\ (how = "done" <=> e.read) OBVIOUS
    <3> HIDE DEF how
    <3>5. u \in Track /\ u.days = track[f][p].days /\ InFlight(u) = {}
          /\ Credit(u) <= IF how = "done" THEN Credit(track[f][p]) + 1 ELSE Credit(track[f][p])
      BY <3>3, <3>4, EndedFacts
    <3>6. Credit(u) \in Nat BY <3>5, TrackFacts
    <3>7. e.read => e \in Pending(f, p) BY <2>1 DEF Pending
    <3> HIDE DEF u, f, p
    <3>8. track' \in [Plan -> [Farmed -> Track]]
          /\ \A g \in Plan, q \in Farmed : track'[g][q] = IF g = f /\ q = p THEN u ELSE track[g][q]
      BY <3>1, <3>2, <3>5, TrackPut
    <3>9. \A g \in Plan, q \in Farmed : /\ One(track'[g][q])
                                        /\ InFlight(track'[g][q]) \subseteq InFlight(track[g][q])
                                        /\ track[g][q].days <= track'[g][q].days
      <4> SUFFICES ASSUME NEW g \in Plan, NEW q \in Farmed
          PROVE  /\ One(track'[g][q])
                 /\ InFlight(track'[g][q]) \subseteq InFlight(track[g][q])
                 /\ track[g][q].days <= track'[g][q].days
        OBVIOUS
      <4>1. CASE g = f /\ q = p
        <5>1. track'[g][q] = u BY <3>8, <4>1
        <5>2. One(u) BY <3>5 DEF One
        <5> QED BY <1>nat, <3>5, <4>1, <5>1, <5>2
      <4>2. CASE ~ (g = f /\ q = p)
        <5>1. track'[g][q] = track[g][q] BY <3>8, <4>2
        <5> QED BY <1>nat, <5>1 DEF Bounded
      <4> QED BY <4>1, <4>2
    <3>10. Bounded' /\ Apart' BY <2>1, <3>8, <3>9, Winds
    <3>11. Typed' BY <2>1, <3>8 DEF Typed
    <3>12. Earned'
      <4> SUFFICES ASSUME NEW g \in Plan, NEW q \in Farmed
          PROVE  Credit(track'[g][q]) + Cardinality(Pending(g, q)') <= visits[g][q]
        BY <2>1 DEF Earned, Pending, Credit, Read
      <4>1. Credit(track[g][q]) + Cardinality(Pending(g, q)) <= visits[g][q] BY DEF Earned
      <4>2. CASE g = f /\ q = p
        <5>1. track'[g][q] = u BY <3>8, <4>2
        <5>2. CASE how = "done"
          <6>1. Credit(u) <= Credit(track[g][q]) + 1 BY <3>5, <4>2, <5>2
          <6>2. Cardinality(Pending(g, q)') + 1 <= Cardinality(Pending(g, q))
            BY <2>5, <3>4, <3>7, <4>2, <5>2
          <6> QED BY <1>nat, <2>5, <3>6, <4>1, <5>1, <6>1, <6>2
        <5>3. CASE how # "done"
          <6>1. Credit(u) <= Credit(track[g][q]) BY <3>5, <4>2, <5>3
          <6>2. Cardinality(Pending(g, q)') <= Cardinality(Pending(g, q)) BY <2>5
          <6> QED BY <1>nat, <2>5, <3>6, <4>1, <5>1, <6>1, <6>2
        <5> QED BY <5>2, <5>3
      <4>3. CASE ~ (g = f /\ q = p)
        <5>1. track'[g][q] = track[g][q] BY <3>8, <4>3
        <5> QED BY <1>nat, <2>5, <4>1, <5>1
      <4> QED BY <4>2, <4>3
    <3> QED BY <2>3, <3>10, <3>11, <3>12
  <2> QED BY <2>6, <2>7
<1>22. ASSUME NEW e \in ending, ClosesUp(e) PROVE FarmInv'
  <2>1. ending' \subseteq ending /\ e \in End /\ e.reported
        /\ ending' = ending \ {e} /\ UNCHANGED <<plan, track, loop, window, visits>>
    BY <1>22 DEF ClosesUp, Others
  <2>2. e.of \in Farmed BY <2>1 DEF End
  <2>3. Others'
    <3>1. CASE e.close
      <4>1. browser' = [browser EXCEPT ![e.of] = "none"] /\ job' = Unpaged(e.of)
            /\ taken' \subseteq taken \cup {e.of}
        BY <1>22, <3>1 DEF ClosesUp
      <4> QED BY <2>1, <2>2, <4>1, <1>unpaged DEF Others
    <3>2. CASE ~ e.close
      <4>1. UNCHANGED <<browser, job, taken>> BY <1>22, <3>2 DEF ClosesUp
      <4> QED BY <2>1, <4>1 DEF Others
    <3> QED BY <3>1, <3>2
  <2>4. Typed' /\ Bounded' /\ Apart' BY <2>1, Stands DEF Typed
  <2>5. \A g \in Plan, q \in Farmed : Pending(g, q)' = Pending(g, q) BY <2>1 DEF Pending
  <2>6. Earned' BY <2>1, <2>5 DEF Earned, Credit, Read
  <2> QED BY <2>3, <2>4, <2>6
<1>23. CASE AgentRestarts
  <2>1. track' = [f \in Plan |-> [p \in Farmed |-> Ended(track[f][p], "failed")]]
        /\ browser' = [p \in Farmed |-> "none"] /\ job' = [p \in Farmed |-> NoJob]
        /\ ending' = {} /\ loop' = [at |-> "asleep", seen |-> {}, starts |-> {}]
        /\ UNCHANGED <<plan, window, visits, taken>>
    BY <1>23 DEF AgentRestarts
  <2>2. \A f \in Plan, p \in Farmed : track'[f][p] = Ended(track[f][p], "failed") BY <2>1
  <2>3. \A f \in Plan, p \in Farmed : /\ track'[f][p] \in Track
                                      /\ track'[f][p].days = track[f][p].days
                                      /\ InFlight(track'[f][p]) = {}
                                      /\ Credit(track'[f][p]) <= Credit(track[f][p])
    <3> SUFFICES ASSUME NEW f \in Plan, NEW p \in Farmed
        PROVE  /\ track'[f][p] \in Track
               /\ track'[f][p].days = track[f][p].days
               /\ InFlight(track'[f][p]) = {}
               /\ Credit(track'[f][p]) <= Credit(track[f][p])
      OBVIOUS
    <3>1. One(track[f][p]) /\ track[f][p] \in Track BY <1>nat DEF Bounded
    <3> QED BY <2>2, <3>1, EndedFacts
  <2>4. track' \in [Plan -> [Farmed -> Track]] BY <2>1, <2>3
  <2>5. Typed' BY <2>1, <2>4 DEF Typed
  <2>6. Others'
    <3>1. NoJob \in Job BY DEF NoJob, Job
    <3> QED BY <2>1, <3>1 DEF Others, Loop
  <2>7. \A g \in Plan, q \in Farmed : /\ One(track'[g][q])
                                      /\ InFlight(track'[g][q]) \subseteq InFlight(track[g][q])
                                      /\ track[g][q].days <= track'[g][q].days
    BY <1>nat, <2>3 DEF One
  <2>8. Bounded' /\ Apart' BY <2>1, <2>4, <2>7, Winds
  <2>9. Earned'
    <3> SUFFICES ASSUME NEW g \in Plan, NEW q \in Farmed
        PROVE  Credit(track'[g][q]) + Cardinality(Pending(g, q)') <= visits[g][q]
      BY <2>1 DEF Earned, Pending, Credit, Read
    <3>1. Pending(g, q)' = {} BY <2>1 DEF Pending
    <3>2. Cardinality(Pending(g, q)') = 0 BY <3>1, FS_EmptySet
    <3>3. Credit(track[g][q]) + Cardinality(Pending(g, q)) <= visits[g][q] BY DEF Earned
    <3>4. Credit(track'[g][q]) \in Nat BY <2>3, TrackFacts
    <3> QED BY <1>nat, <2>3, <3>2, <3>3, <3>4
  <2> QED BY <2>5, <2>6, <2>8, <2>9
<1> QED
  BY <1>1, <1>2, <1>3, <1>4, <1>5, <1>6, <1>7, <1>8, <1>9, <1>10, <1>11, <1>12, <1>13, <1>14, <1>15,
     <1>16, <1>17, <1>18, <1>19, <1>20, <1>21, <1>22, <1>23 DEF FarmNext

\* The invariant gives the types and the bounds.
LEMMA FarmTyped == FarmInv => FarmTypeOK /\ FarmBounded
<1> SUFFICES ASSUME FarmInv PROVE FarmTypeOK /\ FarmBounded
  OBVIOUS
<1> USE DEF FarmInv
<1>1. \A f \in Plan : Targets(f) \subseteq Farmed /\ plan[f].paused \in BOOLEAN
  <2> SUFFICES ASSUME NEW f \in Plan PROVE Targets(f) \subseteq Farmed /\ plan[f].paused \in BOOLEAN
    OBVIOUS
  <2>1. plan[f].who \in Seq(Farmed) /\ plan[f].paused \in BOOLEAN BY DEF Typed, Planned
  <2> QED BY <2>1, RangeFinite DEF Targets
<1>2. \A f \in Plan, p \in Farmed :
        /\ track[f][p].days \in 0 .. Days /\ track[f][p].open \in BOOLEAN
        /\ track[f][p].sessions \in SeqOf({"waiting", "running", "done", "failed", "skipped"}, Sittings)
  BY DEF Typed, Track, Marks
<1>3. FarmTypeOK
  <2>1. \A p \in Farmed : job[p].at \in {"none", "running"} /\ job[p].by \in Plan \cup {NoPlan}
    BY DEF Others, Job
  <2>2. \A e \in ending : e.of \in Farmed /\ e.by \in Plan \cup {NoPlan} BY DEF Others, End
  <2>3. loop.at \in {"asleep", "passing", "starting", "warming"} /\ loop.seen \subseteq Farmed
    BY DEF Others, Loop
  <2> QED BY <1>1, <1>2, <2>1, <2>2, <2>3 DEF FarmTypeOK, Others
<1>4. ASSUME NEW f \in Plan, NEW p \in Farmed
      PROVE  Cardinality(InFlight(track[f][p])) <= 1 /\ track[f][p].days <= visits[f][p]
  <2>1. track[f][p] \in Track /\ visits[f][p] \in Nat /\ One(track[f][p]) BY DEF Typed, Bounded
  <2>2. Cardinality(InFlight(track[f][p])) <= 1
    <3>1. CASE InFlight(track[f][p]) = {} BY <3>1, FS_EmptySet
    <3>2. CASE InFlight(track[f][p]) # {}
      <4>1. PICK i : i \in InFlight(track[f][p]) BY <3>2
      <4>2. InFlight(track[f][p]) = {i} BY <2>1, <4>1 DEF One
      <4> QED BY <4>2, FS_Singleton
    <3> QED BY <3>1, <3>2
  <2>3. Cardinality(Pending(f, p)) \in Nat BY PendingCounted
  <2>4. Credit(track[f][p]) \in Nat /\ track[f][p].days \in Nat /\ track[f][p].days <= Credit(track[f][p])
    BY <2>1, TrackFacts
  <2>5. Credit(track[f][p]) + Cardinality(Pending(f, p)) <= visits[f][p] BY DEF Earned
  <2> QED BY <2>1, <2>2, <2>3, <2>4, <2>5
<1>5. FarmBounded BY <1>4 DEF FarmBounded, Bounded, Apart
<1> QED BY <1>3, <1>5

\* However the loop, the runs, the windows and restarts take turns, a plan stays
\* within its at_once, a profile has one session in flight and one unfinished plan,
\* and no day counts on which nothing was read (farm.rs 33-35, 250-256, 345-347,
\* 395-399).
THEOREM FarmSafe == FarmSpec => [](FarmTypeOK /\ FarmBounded)
BY FarmStart, FarmStep, FarmTyped, PTL DEF FarmSpec

-----------------------------------------------------------------------------
(* Mirrored input.                                                          *)

Wire == [of : Window, armed : BOOLEAN, at : {"open", "dropped", "ended"},
         todo : Seq(Nat), hand : Seq(Nat), done : Seq(Nat)]
Act == [kind : {"key", "click"}, twice : BOOLEAN, beside : SUBSET Nat]
Report == [of : Window, act : 1 .. Len(acts), echo : BOOLEAN, by : Nat]

(* Of what was given out: one before another, a line that keeps its order,  *)
(* a line that is before another, a connection whose lines do and are.      *)
Before(g, m, n) == \E p, q \in DOMAIN g : p < q /\ g[p] = m /\ g[q] = n
Drawn(g, a) == \A i \in DOMAIN a : \E p \in DOMAIN g : g[p] = a[i]
Ordered(g, a) == \A i, j \in DOMAIN a : i < j => Before(g, a[i], a[j])
Follows(g, a, b) == \A i \in DOMAIN a, j \in DOMAIN b : Before(g, a[i], b[j])
InLine(g, x) ==
  /\ Drawn(g, x.todo) /\ Drawn(g, x.hand) /\ Drawn(g, x.done)
  /\ Ordered(g, x.todo) /\ Ordered(g, x.hand) /\ Ordered(g, x.done)
  /\ Follows(g, x.done, x.hand) /\ Follows(g, x.done, x.todo) /\ Follows(g, x.hand, x.todo)

MirrorKept ==
  /\ alive \subseteq Window /\ wires \in Seq(Wire) /\ Len(wires) <= MaxJoins
  /\ hub \in [Window -> 0 .. Len(wires)]
  /\ acts \in Seq(Act) /\ Len(acts) <= MaxActs
  /\ typing \in BOOLEAN /\ muted \subseteq Window /\ reports \subseteq Report
  /\ given \in Seq(1 .. Len(acts)) /\ Len(given) <= MaxGiven /\ late \subseteq 1 .. Len(acts)

(* Every connection's lines keep the order things were given out in, and a  *)
(* window is muted, or was unmuted too early, for what it has to echo.      *)
LinesInv == \A k \in 1 .. Len(wires) : InLine(given, wires[k])
HandInv == \A k \in 1 .. Len(wires) : \A i \in DOMAIN wires[k].hand :
  wires[k].of \in muted \/ wires[k].hand[i] \in late
EchoInv == \A r \in reports : r.echo =>
  /\ r.of \in muted \/ r.act \in late
  /\ \E p \in DOMAIN given : given[p] = r.act
(* A report under way was under way when anything later was done; it is the *)
(* only one of its action, which nobody has been given yet, unless two      *)
(* connections reported it.                                                 *)
BesideInv == \A r \in reports : ~ r.echo =>
  \A m \in 1 .. Len(acts) : r.act < m => r.act \in acts[m].beside
FreshInv == \A r \in reports : ~ r.echo =>
  \/ acts[r.act].twice
  \/ /\ \A q \in reports : ~ q.echo /\ q.act = r.act => q = r
     /\ \A p \in DOMAIN given : given[p] # r.act
GivenInv == \A p, q \in DOMAIN given : p < q =>
  /\ given[p] = given[q] => ~ Single(given[q])
  /\ given[q] < given[p] => given[q] \in acts[given[p]].beside \/ ~ Single(given[q])
MirrorInv == /\ MirrorKept /\ LinesInv /\ HandInv /\ EchoInv
             /\ BesideInv /\ FreshInv /\ GivenInv

\* The bounds are numbers.
LEMMA MirrorNumbers ==
  {MaxJoins, MaxActs, MaxGiven} \subseteq Nat /\ Cardinality(Began) <= MaxJoins
BY MirrorAssumption

\* A function on an interval from one is a sequence.
LEMMA SeqIs ==
  ASSUME NEW S, NEW n \in Nat, NEW s \in [1 .. n -> S]
  PROVE  s \in Seq(S) /\ Len(s) = n /\ DOMAIN s = 1 .. n
OBVIOUS

\* The members of the group at the start can be listed, each once.
LEMMA BeganListed ==
  /\ Cardinality(Began) \in Nat
  /\ SetToSeq(Began) \in [1 .. Cardinality(Began) -> Began]
  /\ \A x \in Began : \E k \in 1 .. Cardinality(Began) : SetToSeq(Began)[k] = x
<1> DEFINE n == Cardinality(Began)
<1>1. IsFiniteSet(Began) BY MirrorAssumption, FS_Subset
<1>2. n \in Nat /\ ExistsBijection(1 .. n, Began) BY <1>1, FS_CardinalityType
<1>3. PICK g \in Bijection(1 .. n, Began) : TRUE BY <1>2 DEF ExistsBijection
<1>4. g \in [1 .. n -> Began] /\ IsInjective(g)
  BY <1>3 DEF Bijection, Injection, IsInjective
<1>5. SetToSeq(Began) \in [1 .. n -> Began] /\ IsInjective(SetToSeq(Began))
  BY <1>4 DEF SetToSeq
<1> DEFINE f == SetToSeq(Began)
<1>6. f \in Injection(1 .. n, Began)
  BY <1>5 DEF IsInjective, Injection
<1>7. Cardinality(1 .. n) = n /\ IsFiniteSet(1 .. n) BY <1>2, FS_Interval
<1> HIDE DEF n, f
<1>8. f \in Surjection(1 .. n, Began) BY <1>1, <1>6, <1>7, FS_Injection DEF n
<1>9. \A x \in Began : \E k \in 1 .. n : f[k] = x BY <1>8 DEF Surjection
<1> QED BY <1>2, <1>5, <1>9 DEF n, f

\* What adding an element at the end and taking the first one do.
LEMMA EndAndHead ==
  ASSUME NEW S, NEW a \in Seq(S), NEW n \in S
  PROVE  /\ Len(a) \in Nat /\ DOMAIN a = 1 .. Len(a)
         /\ Append(a, n) \in Seq(S) /\ Len(Append(a, n)) = Len(a) + 1
         /\ DOMAIN Append(a, n) = 1 .. Len(a) + 1
         /\ \A i \in DOMAIN a : Append(a, n)[i] = a[i]
         /\ Append(a, n)[Len(a) + 1] = n
         /\ a # << >> => /\ 0 < Len(a) /\ Head(a) = a[1] /\ Head(a) \in S
                         /\ Tail(a) \in Seq(S) /\ DOMAIN Tail(a) = 1 .. Len(a) - 1
                         /\ \A i \in DOMAIN Tail(a) : Tail(a)[i] = a[i + 1]
<1>1. Len(a) \in Nat /\ DOMAIN a = 1 .. Len(a) BY LenProperties
<1>2. /\ Append(a, n) \in Seq(S) /\ Len(Append(a, n)) = Len(a) + 1
      /\ (\A i \in 1 .. Len(a) : Append(a, n)[i] = a[i]) /\ Append(a, n)[Len(a) + 1] = n
  BY AppendProperties
<1>3. DOMAIN Append(a, n) = 1 .. Len(a) + 1 BY <1>2, LenProperties
<1>4. ASSUME a # << >>
      PROVE  /\ 0 < Len(a) /\ Head(a) = a[1] /\ Head(a) \in S
             /\ Tail(a) \in Seq(S) /\ DOMAIN Tail(a) = 1 .. Len(a) - 1
             /\ \A i \in DOMAIN Tail(a) : Tail(a)[i] = a[i + 1]
  <2>1. 0 < Len(a) /\ Head(a) = a[1] BY <1>1, <1>4
  <2>2. /\ Head(a) \in S /\ Tail(a) \in Seq(S) /\ Len(Tail(a)) = Len(a) - 1
        /\ \A i \in 1 .. Len(Tail(a)) : Tail(a)[i] = a[i + 1]
    BY <1>4, HeadTailProperties
  <2>3. DOMAIN Tail(a) = 1 .. Len(a) - 1 BY <2>2, LenProperties
  <2> QED BY <2>1, <2>2, <2>3
<1> QED BY <1>1, <1>2, <1>3, <1>4

\* What is given out last comes after everything before it, and disturbs nothing.
LEMMA GivenGrows ==
  ASSUME NEW g \in Seq(Nat), NEW n \in Nat
  PROVE  /\ \A x, y : Before(g, x, y) => Before(Append(g, n), x, y)
         /\ \A p \in DOMAIN g : Before(Append(g, n), g[p], n)
         /\ \A x : InLine(g, x) => InLine(Append(g, n), x)
<1> DEFINE h == Append(g, n)
<1>1. /\ Len(g) \in Nat /\ DOMAIN g = 1 .. Len(g) /\ DOMAIN h = 1 .. Len(g) + 1
      /\ (\A i \in DOMAIN g : h[i] = g[i]) /\ h[Len(g) + 1] = n
  BY EndAndHead
<1> HIDE DEF h
<1>2. \A p \in DOMAIN g : p \in DOMAIN h /\ p < Len(g) + 1 /\ Len(g) + 1 \in DOMAIN h BY <1>1
<1>3. \A x, y : Before(g, x, y) => Before(h, x, y) BY <1>1, <1>2 DEF Before
<1>4. \A p \in DOMAIN g : Before(h, g[p], n) BY <1>1, <1>2 DEF Before
<1>5. \A a : Drawn(g, a) => Drawn(h, a)
  <2> SUFFICES ASSUME NEW a, Drawn(g, a), NEW i \in DOMAIN a PROVE \E p \in DOMAIN h : h[p] = a[i]
    BY DEF Drawn
  <2>1. PICK p \in DOMAIN g : g[p] = a[i] BY DEF Drawn
  <2> QED BY <1>1, <1>2, <2>1
<1>6. \A a : Ordered(g, a) => Ordered(h, a) BY <1>3 DEF Ordered
<1>7. \A a, b : Follows(g, a, b) => Follows(h, a, b) BY <1>3 DEF Follows
<1>8. \A x : InLine(g, x) => InLine(h, x) BY <1>5, <1>6, <1>7 DEF InLine
<1> QED BY <1>3, <1>4, <1>8 DEF h

\* An action is given out and put in a queue.
LEMMA LineQueues ==
  ASSUME NEW g \in Seq(Nat), NEW n \in Nat, NEW x \in Wire, InLine(g, x)
  PROVE  InLine(Append(g, n), [x EXCEPT !.todo = Append(@, n)])
<1> DEFINE h == Append(g, n)
           t == Append(x.todo, n)
           y == [x EXCEPT !.todo = t]
<1>1. y.todo = t /\ y.hand = x.hand /\ y.done = x.done BY DEF Wire
<1>2. InLine(h, x) /\ \A p \in DOMAIN g : Before(h, g[p], n) BY GivenGrows
<1>3. Len(g) + 1 \in DOMAIN h /\ h[Len(g) + 1] = n BY EndAndHead
<1>4. x.todo \in Seq(Nat) BY DEF Wire
<1>5. \A i \in DOMAIN t : (i \in DOMAIN x.todo /\ t[i] = x.todo[i]) \/ (i = Len(x.todo) + 1 /\ t[i] = n)
  BY <1>4, EndAndHead
<1>6. DOMAIN x.todo = 1 .. Len(x.todo) /\ Len(x.todo) \in Nat BY <1>4, EndAndHead
<1> HIDE DEF h, t, y
<1>7. \A a \in {x.todo, x.hand, x.done} : \A i \in DOMAIN a : Before(h, a[i], n)
  <2> SUFFICES ASSUME NEW a \in {x.todo, x.hand, x.done}, NEW i \in DOMAIN a PROVE Before(h, a[i], n)
    OBVIOUS
  <2>1. Drawn(g, a) BY DEF InLine
  <2>2. PICK p \in DOMAIN g : g[p] = a[i] BY <2>1 DEF Drawn
  <2> QED BY <1>2, <2>2
<1>8. Drawn(h, t) BY <1>2, <1>3, <1>5 DEF Drawn, InLine
<1>9. Ordered(h, t)
  <2> SUFFICES ASSUME NEW i \in DOMAIN t, NEW j \in DOMAIN t, i < j PROVE Before(h, t[i], t[j])
    BY DEF Ordered
  <2>1. i \in DOMAIN x.todo /\ t[i] = x.todo[i] BY <1>5, <1>6
  <2>2. CASE j \in DOMAIN x.todo /\ t[j] = x.todo[j] BY <1>2, <2>1, <2>2 DEF InLine, Ordered
  <2>3. CASE t[j] = n BY <1>7, <2>1, <2>3
  <2> QED BY <1>5, <2>2, <2>3
<1>10. Follows(h, x.done, t) /\ Follows(h, x.hand, t)
  BY <1>2, <1>5, <1>7 DEF InLine, Follows
<1> QED BY <1>1, <1>2, <1>8, <1>9, <1>10 DEF InLine, h, t, y

\* The first of a line goes to the end of the one before it, or away.
LEMMA LineMoves ==
  ASSUME NEW g, NEW a \in Seq(Nat), NEW b \in Seq(Nat), b # << >>,
         Drawn(g, a), Drawn(g, b), Ordered(g, a), Ordered(g, b), Follows(g, a, b)
  PROVE  /\ Drawn(g, Append(a, Head(b))) /\ Drawn(g, Tail(b))
         /\ Ordered(g, Append(a, Head(b))) /\ Ordered(g, Tail(b))
         /\ Follows(g, a, Tail(b)) /\ Follows(g, Append(a, Head(b)), Tail(b))
         /\ \A c : Follows(g, c, b) => Follows(g, c, Tail(b))
         /\ \A c : Follows(g, c, a) /\ Follows(g, c, b) => Follows(g, c, Append(a, Head(b)))
         /\ \A c : Follows(g, b, c) => Follows(g, Tail(b), c)
         /\ \A c : Follows(g, a, c) /\ Follows(g, b, c) => Follows(g, Append(a, Head(b)), c)
<1> DEFINE n == Head(b)
           t == Tail(b)
           e == Append(a, n)
<1>1. /\ 0 < Len(b) /\ n = b[1] /\ n \in Nat /\ DOMAIN t = 1 .. Len(b) - 1
      /\ (\A i \in DOMAIN t : t[i] = b[i + 1]) /\ Len(b) \in Nat /\ DOMAIN b = 1 .. Len(b)
  BY EndAndHead
<1>2. /\ Len(a) \in Nat /\ DOMAIN a = 1 .. Len(a) /\ DOMAIN e = 1 .. Len(a) + 1
      /\ (\A i \in DOMAIN a : e[i] = a[i]) /\ e[Len(a) + 1] = n
  BY <1>1, EndAndHead
<1> HIDE DEF n, t, e
<1>3. 1 \in DOMAIN b /\ \A i \in DOMAIN t : i + 1 \in DOMAIN b /\ 1 < i + 1 BY <1>1
<1>4. \A i \in DOMAIN e : (i \in DOMAIN a /\ e[i] = a[i]) \/ (i = Len(a) + 1 /\ e[i] = b[1])
  BY <1>1, <1>2
<1>5. Drawn(g, e) BY <1>3, <1>4 DEF Drawn
<1>6. Drawn(g, t) BY <1>1, <1>3 DEF Drawn
<1>7. Ordered(g, e)
  <2> SUFFICES ASSUME NEW i \in DOMAIN e, NEW j \in DOMAIN e, i < j PROVE Before(g, e[i], e[j])
    BY DEF Ordered
  <2>1. i \in DOMAIN a /\ e[i] = a[i] BY <1>2, <1>4
  <2>2. CASE j \in DOMAIN a /\ e[j] = a[j] BY <2>1, <2>2 DEF Ordered
  <2>3. CASE e[j] = b[1] BY <1>3, <2>1, <2>3 DEF Follows
  <2> QED BY <1>4, <2>2, <2>3
<1>8. Ordered(g, t)
  <2> SUFFICES ASSUME NEW i \in DOMAIN t, NEW j \in DOMAIN t, i < j PROVE Before(g, t[i], t[j])
    BY DEF Ordered
  <2>1. i + 1 \in DOMAIN b /\ j + 1 \in DOMAIN b BY <1>3
  <2>2. DOMAIN t \subseteq Nat BY <1>1
  <2>3. i + 1 < j + 1 BY <2>2
  <2> QED BY <1>1, <2>1, <2>3 DEF Ordered
<1>9. \A c : Follows(g, c, b) => Follows(g, c, t) BY <1>1, <1>3 DEF Follows
<1>10. \A c : Follows(g, b, c) => Follows(g, t, c) BY <1>1, <1>3 DEF Follows
<1>11. \A c : Follows(g, c, a) /\ Follows(g, c, b) => Follows(g, c, e) BY <1>3, <1>4 DEF Follows
<1>12. \A c : Follows(g, a, c) /\ Follows(g, b, c) => Follows(g, e, c) BY <1>3, <1>4 DEF Follows
<1>13. Follows(g, a, t) BY <1>9
<1>14. Follows(g, e, t)
  <2> SUFFICES ASSUME NEW i \in DOMAIN e, NEW j \in DOMAIN t PROVE Before(g, e[i], t[j])
    BY DEF Follows
  <2>1. CASE i \in DOMAIN a /\ e[i] = a[i] BY <1>13, <2>1 DEF Follows
  <2>2. CASE e[i] = b[1] BY <1>1, <1>3, <2>2 DEF Ordered
  <2> QED BY <1>4, <2>1, <2>2
<1> QED
  BY <1>5, <1>6, <1>7, <1>8, <1>9, <1>10, <1>11, <1>12, <1>13, <1>14 DEF n, t, e

\* A hand takes, the browser performs, a call fails: a connection stays in line.
LEMMA LineTakes ==
  ASSUME NEW g, NEW x \in Wire, InLine(g, x), x.todo # << >>
  PROVE  /\ InLine(g, [x EXCEPT !.todo = Tail(x.todo)])
         /\ InLine(g, [x EXCEPT !.todo = Tail(x.todo), !.hand = Append(@, Head(x.todo))])
<1>1. x.todo \in Seq(Nat) /\ x.hand \in Seq(Nat) BY DEF Wire
<1> DEFINE a == x.hand
           b == x.todo
<1>2. /\ Drawn(g, a) /\ Drawn(g, b) /\ Ordered(g, a) /\ Ordered(g, b) /\ Follows(g, a, b)
      /\ a \in Seq(Nat) /\ b \in Seq(Nat) /\ b # << >>
  BY <1>1 DEF InLine
<1> HIDE DEF a, b
<1>3. /\ Drawn(g, Append(a, Head(b))) /\ Drawn(g, Tail(b))
      /\ Ordered(g, Append(a, Head(b))) /\ Ordered(g, Tail(b))
      /\ Follows(g, a, Tail(b)) /\ Follows(g, Append(a, Head(b)), Tail(b))
      /\ \A c : Follows(g, c, b) => Follows(g, c, Tail(b))
      /\ \A c : Follows(g, c, a) /\ Follows(g, c, b) => Follows(g, c, Append(a, Head(b)))
  BY <1>2, LineMoves
<1> DEFINE y == [x EXCEPT !.todo = Tail(b)]
           z == [x EXCEPT !.todo = Tail(b), !.hand = Append(a, Head(b))]
<1>4. y.todo = Tail(b) /\ y.hand = a /\ y.done = x.done BY DEF Wire, a
<1>5. z.todo = Tail(b) /\ z.hand = Append(a, Head(b)) /\ z.done = x.done BY DEF Wire
<1>6. /\ Drawn(g, x.done) /\ Ordered(g, x.done) /\ Follows(g, x.done, a) /\ Follows(g, x.done, b)
  BY DEF InLine, a, b
<1>7. /\ z = [x EXCEPT !.todo = Tail(x.todo), !.hand = Append(@, Head(x.todo))]
      /\ y = [x EXCEPT !.todo = Tail(x.todo)]
  BY DEF a, b
<1> HIDE DEF y, z
<1>8. InLine(g, y) BY <1>2, <1>3, <1>4, <1>6 DEF InLine
<1>9. InLine(g, z) BY <1>3, <1>5, <1>6 DEF InLine
<1> QED BY <1>7, <1>8, <1>9

\* The same for what the browser was sent.
LEMMA LinePerforms ==
  ASSUME NEW g, NEW x \in Wire, InLine(g, x), x.hand # << >>
  PROVE  /\ InLine(g, [x EXCEPT !.hand = Tail(@)])
         /\ InLine(g, [x EXCEPT !.hand = Tail(@), !.done = Append(@, Head(x.hand))])
<1>1. x.hand \in Seq(Nat) /\ x.done \in Seq(Nat) BY DEF Wire
<1> DEFINE a == x.done
           b == x.hand
<1>2. /\ Drawn(g, a) /\ Drawn(g, b) /\ Ordered(g, a) /\ Ordered(g, b) /\ Follows(g, a, b)
      /\ a \in Seq(Nat) /\ b \in Seq(Nat) /\ b # << >>
  BY <1>1 DEF InLine
<1> HIDE DEF a, b
<1>3. /\ Drawn(g, Append(a, Head(b))) /\ Drawn(g, Tail(b))
      /\ Ordered(g, Append(a, Head(b))) /\ Ordered(g, Tail(b))
      /\ Follows(g, a, Tail(b)) /\ Follows(g, Append(a, Head(b)), Tail(b))
      /\ \A c : Follows(g, b, c) => Follows(g, Tail(b), c)
      /\ \A c : Follows(g, a, c) /\ Follows(g, b, c) => Follows(g, Append(a, Head(b)), c)
  BY <1>2, LineMoves
<1> DEFINE y == [x EXCEPT !.hand = Tail(b)]
           z == [x EXCEPT !.hand = Tail(b), !.done = Append(a, Head(b))]
<1>4. y.todo = x.todo /\ y.hand = Tail(b) /\ y.done = a BY DEF Wire, a
<1>5. z.todo = x.todo /\ z.hand = Tail(b) /\ z.done = Append(a, Head(b)) BY DEF Wire
<1>6. /\ Drawn(g, x.todo) /\ Ordered(g, x.todo) /\ Follows(g, a, x.todo) /\ Follows(g, b, x.todo)
  BY DEF InLine, a, b
<1>7. /\ z = [x EXCEPT !.hand = Tail(@), !.done = Append(@, Head(x.hand))]
      /\ y = [x EXCEPT !.hand = Tail(@)]
  BY DEF a, b
<1> HIDE DEF y, z
<1>8. InLine(g, y) BY <1>2, <1>3, <1>4, <1>6 DEF InLine
<1>9. InLine(g, z) BY <1>3, <1>5, <1>6 DEF InLine
<1> QED BY <1>7, <1>8, <1>9

\* The lengths are numbers and the elements what they should be.
LEMMA MirrorLens ==
  ASSUME MirrorKept
  PROVE  /\ Len(wires) \in Nat /\ DOMAIN wires = 1 .. Len(wires)
         /\ wires \in [1 .. Len(wires) -> Wire]
         /\ Len(acts) \in Nat /\ DOMAIN acts = 1 .. Len(acts)
         /\ Len(given) \in Nat /\ DOMAIN given = 1 .. Len(given) /\ given \in Seq(Nat)
         /\ \A p \in DOMAIN given : given[p] \in 1 .. Len(acts)
<1>1. /\ Len(wires) \in Nat /\ DOMAIN wires = 1 .. Len(wires)
      /\ wires \in [1 .. Len(wires) -> Wire]
  BY LenProperties DEF MirrorKept
<1>2. Len(acts) \in Nat /\ DOMAIN acts = 1 .. Len(acts) BY LenProperties DEF MirrorKept
<1> DEFINE S == 1 .. Len(acts)
<1>3. given \in Seq(S) /\ S \subseteq Nat BY <1>2 DEF MirrorKept
<1> HIDE DEF S
<1>4. /\ Len(given) \in Nat /\ DOMAIN given = 1 .. Len(given)
      /\ \A p \in DOMAIN given : given[p] \in S
  BY <1>3, LenProperties
<1>5. given \in Seq(Nat) BY <1>3, SeqMonotonic
<1> QED BY <1>1, <1>2, <1>4, <1>5 DEF S

\* A window's reports are its own, of what they say.
LEMMA ReportTyped ==
  ASSUME NEW w \in Window, NEW n, NEW e \in BOOLEAN, MirrorKept, NEW r \in ReportsOf(w, n, e)
  PROVE  /\ r.of = w /\ r.act = n /\ r.echo = e /\ r.by \in Nat
         /\ r = [of |-> w, act |-> n, echo |-> e, by |-> r.by]
<1>1. Len(wires) \in Nat /\ DOMAIN wires = 1 .. Len(wires) BY MirrorLens
<1>2. PICK k \in Sent(w) : r = [of |-> w, act |-> n, echo |-> e, by |-> k] BY DEF ReportsOf
<1>3. k \in Nat BY <1>1, <1>2 DEF Sent
<1> QED BY <1>2, <1>3

\* A window is unmuted: what it had to echo may come late.
LEMMA MuteFacts ==
  ASSUME MirrorInv, NEW w \in Window, MuteEnds(w)
  PROVE  /\ muted' \subseteq Window /\ late' \subseteq 1 .. Len(acts) /\ late \subseteq late'
         /\ \A k \in 1 .. Len(wires) : \A i \in DOMAIN wires[k].hand :
              wires[k].of \in muted' \/ wires[k].hand[i] \in late'
         /\ \A r \in reports : r.echo => r.of \in muted' \/ r.act \in late'
<1> USE DEF MirrorInv
<1>1. muted' = muted \ {w} /\ late' = late \cup ToEcho(w) BY DEF MuteEnds
<1>2. Len(wires) \in Nat /\ DOMAIN wires = 1 .. Len(wires)
      /\ \A p \in DOMAIN given : given[p] \in 1 .. Len(acts)
  BY MirrorLens
<1>echoes. \A n : n \in ToEcho(w) <=>
             \/ \E k \in DOMAIN wires : wires[k].of = w /\ n \in ToSet(wires[k].hand)
             \/ \E r \in reports : r.of = w /\ r.echo /\ n = r.act
  <2> DEFINE K == {l \in DOMAIN wires : wires[l].of = w}
             Q == {q \in reports : q.of = w /\ q.echo}
             A == UNION {ToSet(wires[k].hand) : k \in K}
             B == {r.act : r \in Q}
  <2>1. ToEcho(w) = B \cup A BY DEF ToEcho
  <2>2. \A n : n \in A <=> \E k \in K : n \in ToSet(wires[k].hand)
    <3> HIDE DEF K
    <3>1. \A F : \A n : n \in UNION F <=> \E f \in F : n \in f OBVIOUS
    <3> QED BY <3>1
  <2>3. \A n : n \in B <=> \E r \in Q : n = r.act OBVIOUS
  <2> HIDE DEF A, B
  <2> QED BY <2>1, <2>2, <2>3
<1>3. ASSUME NEW k \in 1 .. Len(wires), wires[k].of = w, NEW i \in DOMAIN wires[k].hand
      PROVE  wires[k].hand[i] \in ToEcho(w)
  BY <1>2, <1>3, <1>echoes DEF ToSet
<1>4. ASSUME NEW r \in reports, r.echo, r.of = w PROVE r.act \in ToEcho(w)
  BY <1>4, <1>echoes
<1>5. ToEcho(w) \subseteq 1 .. Len(acts)
  <2> SUFFICES ASSUME NEW n \in ToEcho(w) PROVE n \in 1 .. Len(acts)
    OBVIOUS
  <2>1. CASE \E r \in reports : n = r.act BY <2>1 DEF MirrorKept, Report
  <2>2. CASE \E k \in DOMAIN wires : n \in ToSet(wires[k].hand)
    <3>1. PICK k \in DOMAIN wires : n \in ToSet(wires[k].hand) BY <2>2
    <3>2. PICK i \in DOMAIN wires[k].hand : n = wires[k].hand[i] BY <3>1 DEF ToSet
    <3>3. Drawn(given, wires[k].hand) BY <1>2 DEF LinesInv, InLine
    <3> QED BY <1>2, <3>2, <3>3 DEF Drawn
  <2> QED BY <1>echoes, <2>1, <2>2
<1>6. muted' \subseteq Window /\ late' \subseteq 1 .. Len(acts) /\ late \subseteq late'
  BY <1>1, <1>5 DEF MirrorKept
<1>7. \A k \in 1 .. Len(wires) : \A i \in DOMAIN wires[k].hand :
        wires[k].of \in muted' \/ wires[k].hand[i] \in late'
  BY <1>1, <1>3 DEF HandInv
<1>8. \A r \in reports : r.echo => r.of \in muted' \/ r.act \in late'
  BY <1>1, <1>4 DEF EchoInv
<1> QED BY <1>6, <1>7, <1>8

\* What was given out and reported stays as it is where only the group, or a mute,
\* changes.
LEMMA GivenStands ==
  ASSUME MirrorInv, UNCHANGED <<acts, reports, given>>, late \subseteq late'
  PROVE  BesideInv' /\ FreshInv' /\ GivenInv'
<1> USE DEF MirrorInv
<1>1. \A n : ~ Single(n) => ~ Single(n)' BY DEF Single
<1> QED BY <1>1 DEF BesideInv, FreshInv, GivenInv

\* The group changes, and the connections' queues do not.
LEMMA Regroups ==
  ASSUME MirrorInv, NEW ws \in [1 .. Len(wires) -> Wire], wires' = ws,
         \A k \in 1 .. Len(wires) : /\ ws[k].of = wires[k].of /\ ws[k].todo = wires[k].todo
                                    /\ ws[k].hand = wires[k].hand /\ ws[k].done = wires[k].done,
         alive' \subseteq Window, typing' \in BOOLEAN, hub' \in [Window -> 0 .. Len(wires)],
         UNCHANGED <<acts, reports, muted, given, late>>
  PROVE  MirrorInv'
<1> USE DEF MirrorInv
<1>1. Len(wires) \in Nat BY MirrorLens
<1>2. ws \in Seq(Wire) /\ Len(ws) = Len(wires) BY <1>1, SeqIs
<1>3. MirrorKept' BY <1>2 DEF MirrorKept, Report
<1>4. LinesInv' BY <1>2 DEF LinesInv, InLine
<1>5. HandInv' BY <1>2 DEF HandInv
<1>6. EchoInv' BY DEF EchoInv
<1> QED BY <1>3, <1>4, <1>5, <1>6, GivenStands

\* A hand takes, performs or gives up, and its window may have an echo to report.
LEMMA HandMoves ==
  ASSUME MirrorInv, NEW k \in 1 .. Len(wires), NEW x \in Wire, wires' = [wires EXCEPT ![k] = x],
         x.of = wires[k].of, InLine(given, x), muted \subseteq muted', muted' \subseteq Window,
         \A i \in DOMAIN x.hand : x.of \in muted' \/ x.hand[i] \in late,
         NEW R \in SUBSET Report, reports' = reports \cup R,
         \A r \in R : /\ r.echo = TRUE /\ (r.of \in muted' \/ r.act \in late)
                      /\ \E p \in DOMAIN given : given[p] = r.act,
         UNCHANGED <<alive, hub, typing, acts, given, late>>
  PROVE  MirrorInv'
<1> USE DEF MirrorInv
<1>1. Len(wires) \in Nat /\ wires \in [1 .. Len(wires) -> Wire] BY MirrorLens
<1>2. wires' \in [1 .. Len(wires) -> Wire] BY <1>1
<1>3. wires' \in Seq(Wire) /\ Len(wires') = Len(wires) BY <1>1, <1>2, SeqIs
<1>4. \A l \in 1 .. Len(wires) : wires'[l] = IF l = k THEN x ELSE wires[l] BY <1>1
<1>5. reports' \subseteq Report' BY DEF MirrorKept, Report
<1>6. MirrorKept' BY <1>3, <1>5 DEF MirrorKept
<1>7. LinesInv' BY <1>3, <1>4 DEF LinesInv
<1>8. HandInv' BY <1>3, <1>4 DEF HandInv
<1>9. EchoInv' BY DEF EchoInv
<1>10. \A r \in reports' : ~ r.echo => r \in reports OBVIOUS
<1>11. BesideInv' BY <1>10 DEF BesideInv
<1>12. FreshInv' BY <1>10 DEF FreshInv
<1>13. GivenInv' BY DEF GivenInv, Single
<1> QED BY <1>6, <1>7, <1>8, <1>9, <1>11, <1>12, <1>13

\* The same where nothing is reported.
LEMMA HandMovesQuietly ==
  ASSUME MirrorInv, NEW k \in 1 .. Len(wires), NEW x \in Wire, wires' = [wires EXCEPT ![k] = x],
         x.of = wires[k].of, InLine(given, x), muted \subseteq muted', muted' \subseteq Window,
         \A i \in DOMAIN x.hand : x.of \in muted' \/ x.hand[i] \in late,
         UNCHANGED <<alive, hub, typing, acts, reports, given, late>>
  PROVE  MirrorInv'
<1>1. /\ {} \in SUBSET Report /\ reports' = reports \cup {}
      /\ \A r \in {} : /\ r.echo = TRUE /\ (r.of \in muted' \/ r.act \in late)
                       /\ \E p \in DOMAIN given : given[p] = r.act
  OBVIOUS
<1> QED BY <1>1, HandMoves

\* Nothing is done yet.
LEMMA MirrorStart == MirrorInit => MirrorInv
<1> SUFFICES ASSUME MirrorInit PROVE MirrorInv
  OBVIOUS
<1> DEFINE n == Cardinality(Began)
           f == SetToSeq(Began)
<1>1. n \in Nat /\ f \in [1 .. n -> Began] /\ \A x \in Began : \E k \in 1 .. n : f[k] = x
  BY BeganListed
<1> HIDE DEF n, f
<1>2. wires = [k \in 1 .. n |-> NewWire(f[k], TRUE)] BY <1>1 DEF MirrorInit, f
<1>3. \A k \in 1 .. n : f[k] \in Window BY <1>1, MirrorAssumption
<1>4. wires \in [1 .. n -> Wire] BY <1>2, <1>3 DEF Wire, NewWire
<1>5. wires \in Seq(Wire) /\ Len(wires) = n /\ DOMAIN wires = 1 .. n BY <1>1, <1>4, SeqIs
<1>6. hub \in [Window -> 0 .. Len(wires)]
  <2>1. ASSUME NEW w \in Began PROVE (CHOOSE k \in DOMAIN wires : wires[k].of = w) \in 1 .. n
    <3>1. \E k \in DOMAIN wires : wires[k].of = w BY <1>1, <1>2, <1>5 DEF NewWire
    <3> QED BY <1>5, <3>1
  <2> DEFINE at(w) == CHOOSE k \in DOMAIN wires : wires[k].of = w
  <2>2. hub = [w \in Window |-> IF w \in Began THEN at(w) ELSE 0] BY DEF MirrorInit
  <2>3. \A w \in Began : at(w) \in 0 .. n
    <3> HIDE DEF at
    <3> QED BY <1>1, <2>1 DEF at
  <2> HIDE DEF at
  <2> QED BY <1>1, <1>5, <2>2, <2>3
<1>7. MirrorKept
  <2>1. acts \in Seq(Act) /\ Len(acts) = 0 /\ 0 <= MaxActs /\ 0 <= MaxGiven
        /\ given \in Seq(1 .. Len(acts)) /\ Len(given) = 0 /\ late \subseteq 1 .. Len(acts)
    BY MirrorNumbers DEF MirrorInit
  <2>2. Len(wires) <= MaxJoins BY <1>5, MirrorNumbers DEF n
  <2>3. alive \subseteq Window /\ typing \in BOOLEAN /\ muted \subseteq Window /\ reports \subseteq Report
    BY DEF MirrorInit
  <2> QED BY <1>5, <1>6, <2>1, <2>2, <2>3 DEF MirrorKept
<1>8. LinesInv /\ HandInv
  <2>1. \A k \in 1 .. n : wires[k].todo = << >> /\ wires[k].hand = << >> /\ wires[k].done = << >>
    BY <1>2 DEF NewWire
  <2> QED BY <1>5, <2>1 DEF LinesInv, HandInv, InLine, Drawn, Ordered, Follows
<1>9. EchoInv /\ BesideInv /\ FreshInv BY DEF EchoInv, BesideInv, FreshInv, MirrorInit
<1>10. GivenInv
  <2>1. DOMAIN given = {} BY DEF MirrorInit
  <2> QED BY <2>1 DEF GivenInv
<1> QED BY <1>7, <1>8, <1>9, <1>10 DEF MirrorInv

\* One step per action: what is given out goes to the end of the lines, and what it
\* overtakes was under way with it or is given out again (mirror.rs fan_out, pump,
\* replay).
LEMMA MirrorStep == MirrorInv /\ [MirrorNext]_mirrorVars => MirrorInv'
<1> SUFFICES ASSUME MirrorInv, [MirrorNext]_mirrorVars PROVE MirrorInv'
  OBVIOUS
<1>inv. /\ MirrorKept /\ LinesInv /\ HandInv /\ EchoInv
        /\ BesideInv /\ FreshInv /\ GivenInv
  BY DEF MirrorInv
<1>len. /\ Len(wires) \in Nat /\ DOMAIN wires = 1 .. Len(wires)
        /\ wires \in [1 .. Len(wires) -> Wire]
        /\ Len(acts) \in Nat /\ DOMAIN acts = 1 .. Len(acts)
        /\ Len(given) \in Nat /\ DOMAIN given = 1 .. Len(given) /\ given \in Seq(Nat)
        /\ \A p \in DOMAIN given : given[p] \in 1 .. Len(acts)
  BY <1>inv, MirrorLens
<1>plain. alive \subseteq Window /\ typing \in BOOLEAN /\ hub \in [Window -> 0 .. Len(wires)]
  BY <1>inv DEF MirrorKept
<1>unplugged. ASSUME NEW ks
              PROVE  /\ Unplugged(ks) \in [1 .. Len(wires) -> Wire]
                     /\ \A k \in 1 .. Len(wires) :
                          LET y == Unplugged(ks)[k] IN
                          /\ y.of = wires[k].of /\ y.todo = wires[k].todo
                          /\ y.hand = wires[k].hand /\ y.done = wires[k].done
  <2> DEFINE ws == Unplugged(ks)
  <2>1. ws = [k \in 1 .. Len(wires) |->
                IF k \in ks THEN [wires[k] EXCEPT !.at = "dropped"] ELSE wires[k]]
    BY <1>len DEF Unplugged
  <2> HIDE DEF ws
  <2>2. \A k \in 1 .. Len(wires) :
          LET y == [wires[k] EXCEPT !.at = "dropped"] IN
          /\ y \in Wire /\ y.of = wires[k].of /\ y.todo = wires[k].todo
          /\ y.hand = wires[k].hand /\ y.done = wires[k].done
    BY <1>len DEF Wire
  <2>3. ws \in [1 .. Len(wires) -> Wire] BY <1>len, <2>1, <2>2
  <2>4. \A k \in 1 .. Len(wires) : /\ ws[k].of = wires[k].of /\ ws[k].todo = wires[k].todo
                                   /\ ws[k].hand = wires[k].hand /\ ws[k].done = wires[k].done
    BY <2>1, <2>2
  <2> QED BY <2>3, <2>4 DEF ws
<1>1. CASE UNCHANGED mirrorVars
  BY <1>1, <1>len, <1>plain, Regroups DEF mirrorVars
<1>2. ASSUME NEW w \in Window, Joins(w) PROVE MirrorInv'
  <2> DEFINE old == Unplugged({hub[w]})
             x == NewWire(w, FALSE)
  <2>1. /\ Len(wires) < MaxJoins /\ hub' = [hub EXCEPT ![w] = Len(wires) + 1]
        /\ wires' = Append(old, x) /\ MuteEnds(w) /\ UNCHANGED <<alive, typing, acts, reports, given>>
    BY <1>2 DEF Joins
  <2>2. /\ old \in [1 .. Len(wires) -> Wire]
        /\ \A k \in 1 .. Len(wires) : /\ old[k].of = wires[k].of /\ old[k].todo = wires[k].todo
                                      /\ old[k].hand = wires[k].hand /\ old[k].done = wires[k].done
    BY <1>unplugged
  <2>3. x \in Wire /\ x.todo = << >> /\ x.hand = << >> /\ x.done = << >> BY DEF NewWire, Wire
  <2> HIDE DEF old, x
  <2>4. old \in Seq(Wire) /\ Len(old) = Len(wires) BY <1>len, <2>2, SeqIs
  <2>5. wires' \in Seq(Wire) /\ Len(wires') = Len(wires) + 1 /\ wires'[Len(wires) + 1] = x
        /\ \A k \in 1 .. Len(wires) : wires'[k] = old[k]
    BY <2>1, <2>3, <2>4, AppendProperties
  <2>6. /\ muted' \subseteq Window /\ late' \subseteq 1 .. Len(acts) /\ late \subseteq late'
        /\ \A k \in 1 .. Len(wires) : \A i \in DOMAIN wires[k].hand :
             wires[k].of \in muted' \/ wires[k].hand[i] \in late'
        /\ \A r \in reports : r.echo => r.of \in muted' \/ r.act \in late'
    BY <2>1, MuteFacts
  <2>7. \A k \in 1 .. Len(wires') : k \in 1 .. Len(wires) \/ k = Len(wires) + 1 BY <1>len, <2>5
  <2>8. MirrorKept'
    <3>1. Len(wires') <= MaxJoins BY <1>len, <2>1, <2>5, MirrorNumbers
    <3>2. hub' \in [Window -> 0 .. Len(wires')] BY <1>len, <1>plain, <2>1, <2>5
    <3> QED BY <1>inv, <2>1, <2>5, <2>6, <3>1, <3>2 DEF MirrorKept, Report
  <2>9. LinesInv'
    <3>1. \A k \in 1 .. Len(wires) : InLine(given, old[k]) BY <1>inv, <2>2 DEF LinesInv, InLine
    <3>2. InLine(given, x) BY <2>3 DEF InLine, Drawn, Ordered, Follows
    <3> QED BY <2>1, <2>5, <2>7, <3>1, <3>2 DEF LinesInv
  <2>10. HandInv' BY <2>2, <2>3, <2>5, <2>6, <2>7 DEF HandInv
  <2>11. EchoInv' BY <1>inv, <2>1, <2>6 DEF EchoInv
  <2>12. BesideInv' /\ FreshInv' /\ GivenInv' BY <2>1, <2>6, GivenStands
  <2> QED BY <2>8, <2>9, <2>10, <2>11, <2>12 DEF MirrorInv
<1>3. ASSUME NEW w \in Window, Arms(w) PROVE MirrorInv'
  <2>1. hub[w] \in 1 .. Len(wires) BY <1>3, <1>len, <1>plain DEF Arms
  <2>2. wires' = [wires EXCEPT ![hub[w]].armed = TRUE]
        /\ UNCHANGED <<alive, hub, typing, acts, reports, muted, given, late>>
    BY <1>3 DEF Arms
  <2> DEFINE ws == wires'
             y == [wires[hub[w]] EXCEPT !.armed = TRUE]
  <2>3. y \in Wire /\ y.of = wires[hub[w]].of /\ y.todo = wires[hub[w]].todo
        /\ y.hand = wires[hub[w]].hand /\ y.done = wires[hub[w]].done
    BY <1>len, <2>1 DEF Wire
  <2>4. wires' = [wires EXCEPT ![hub[w]] = y] BY <2>2
  <2> HIDE DEF y
  <2>5. ws \in [1 .. Len(wires) -> Wire]
        /\ \A k \in 1 .. Len(wires) : /\ ws[k].of = wires[k].of /\ ws[k].todo = wires[k].todo
                                      /\ ws[k].hand = wires[k].hand /\ ws[k].done = wires[k].done
    BY <1>len, <2>1, <2>3, <2>4
  <2> QED BY <1>plain, <2>2, <2>5, Regroups
<1>4. ASSUME NEW k \in DOMAIN wires, PumpEnds(k) PROVE MirrorInv'
  <2> DEFINE w == wires[k].of
             old == Unplugged({hub[w]})
             y == [old[k] EXCEPT !.at = "ended"]
             ws == wires'
  <2>1. hub' = [hub EXCEPT ![w] = 0] /\ wires' = [old EXCEPT ![k].at = "ended"]
        /\ UNCHANGED <<alive, typing, acts, reports, muted, given, late>>
    BY <1>4 DEF PumpEnds
  <2>2. /\ old \in [1 .. Len(wires) -> Wire]
        /\ \A l \in 1 .. Len(wires) : /\ old[l].of = wires[l].of /\ old[l].todo = wires[l].todo
                                      /\ old[l].hand = wires[l].hand /\ old[l].done = wires[l].done
    BY <1>unplugged
  <2> HIDE DEF old, w
  <2>3. y \in Wire /\ y.of = old[k].of /\ y.todo = old[k].todo
        /\ y.hand = old[k].hand /\ y.done = old[k].done
    <3> DEFINE o == old[k]
    <3>1. o \in Wire BY <1>len, <2>2
    <3> HIDE DEF o
    <3>2. /\ [o EXCEPT !.at = "ended"] \in Wire
          /\ [o EXCEPT !.at = "ended"].of = o.of /\ [o EXCEPT !.at = "ended"].todo = o.todo
          /\ [o EXCEPT !.at = "ended"].hand = o.hand /\ [o EXCEPT !.at = "ended"].done = o.done
      BY <3>1 DEF Wire
    <3> QED BY <3>2 DEF o
  <2>4. wires' = [old EXCEPT ![k] = y] BY <2>1
  <2> HIDE DEF y
  <2>5. ws \in [1 .. Len(wires) -> Wire]
        /\ \A l \in 1 .. Len(wires) : /\ ws[l].of = wires[l].of /\ ws[l].todo = wires[l].todo
                                      /\ ws[l].hand = wires[l].hand /\ ws[l].done = wires[l].done
    BY <1>len, <2>2, <2>3, <2>4
  <2>6. hub' \in [Window -> 0 .. Len(wires)]
    <3> DEFINE N == 0 .. Len(wires)
    <3>1. hub \in [Window -> N] /\ 0 \in N BY <1>len, <1>plain
    <3> HIDE DEF N
    <3>2. [hub EXCEPT ![w] = 0] \in [Window -> N] BY <3>1
    <3> QED BY <2>1, <3>2 DEF N
  <2>7. alive' \subseteq Window /\ typing' \in BOOLEAN BY <1>plain, <2>1
  <2> QED BY <2>1, <2>5, <2>6, <2>7, Regroups
<1>5. CASE Stops
  <2>1. /\ hub' = [w \in Window |-> 0] /\ wires' = Unplugged({hub[w] : w \in Members})
        /\ UNCHANGED <<alive, typing, acts, reports, muted, given, late>>
    BY <1>5 DEF Stops
  <2>2. hub' \in [Window -> 0 .. Len(wires)] BY <1>len, <2>1
  <2> QED BY <1>plain, <1>unplugged, <2>1, <2>2, Regroups
<1>6. ASSUME NEW w \in Window, ClosesWindow(w) PROVE MirrorInv'
  <2>1. alive' \subseteq Window BY <1>6, <1>plain DEF ClosesWindow
  <2> QED BY <1>6, <1>len, <1>plain, <2>1, Regroups DEF ClosesWindow
<1>7. CASE SwitchesTyping
  BY <1>7, <1>len, <1>plain, Regroups DEF SwitchesTyping
<1>8. ASSUME NEW w \in Worked, NEW kind \in Kinds, Acts(w, kind) PROVE MirrorInv'
  <2> DEFINE n == Len(acts) + 1
             own == ReportsOf(w, n, FALSE)
             Q == {q \in reports : ~ q.echo}
             a == [kind |-> kind, twice |-> \E q, r \in own : q # r, beside |-> {r.act : r \in Q}]
  <2>1. Len(acts) < MaxActs /\ acts' = Append(acts, a) /\ reports' = reports \cup own
        /\ UNCHANGED <<alive, hub, wires, typing, muted, given, late>>
    BY <1>8 DEF Acts
  <2>2. w \in Window /\ kind \in {"key", "click"} BY MirrorAssumption
  <2>3. \A r \in reports : r.act \in 1 .. Len(acts) /\ r.act \in Nat
    BY <1>inv, <1>len DEF MirrorKept, Report
  <2>4. a \in Act /\ a.twice = (\E q, r \in own : q # r) /\ a.beside = {r.act : r \in Q}
    BY <2>2, <2>3 DEF Act
  <2>5. \A r \in own : /\ r.of = w /\ r.act = n /\ r.echo = FALSE /\ r.by \in Nat
                       /\ r = [of |-> w, act |-> n, echo |-> FALSE, by |-> r.by]
    <3> HIDE DEF n
    <3> QED BY <1>inv, <2>2, ReportTyped
  <2> HIDE DEF own, a
  <2>6. acts' \in Seq(Act) /\ Len(acts') = n /\ acts'[n] = a
        /\ \A m \in 1 .. Len(acts) : acts'[m] = acts[m]
    BY <1>inv, <2>1, <2>4, AppendProperties DEF MirrorKept
  <2>7. \A m \in 1 .. Len(acts') : m \in 1 .. Len(acts) \/ m = n BY <1>len, <2>6
  <2>8. 1 .. Len(acts) \subseteq 1 .. Len(acts') /\ n \in 1 .. Len(acts') BY <1>len, <2>6
  <2>9. given' \in Seq(1 .. Len(acts'))
    <3> DEFINE S == 1 .. Len(acts)
               T == 1 .. Len(acts')
    <3>1. given \in Seq(S) /\ S \subseteq T /\ given' = given BY <1>inv, <2>1, <2>8 DEF MirrorKept
    <3> HIDE DEF S, T
    <3>2. given' \in Seq(T) BY <3>1, SeqMonotonic
    <3> QED BY <3>2 DEF T
  <2>10. reports' \subseteq Report'
    <3>1. \A r \in own : r \in Report'
      <4> SUFFICES ASSUME NEW r \in own PROVE r \in Report'
        OBVIOUS
      <4>1. [of |-> w, act |-> n, echo |-> FALSE, by |-> r.by] \in Report'
        BY <2>2, <2>5, <2>8 DEF Report
      <4> QED BY <2>5, <4>1
    <3>2. \A r \in reports : r \in Report' BY <1>inv, <2>8 DEF MirrorKept, Report
    <3> QED BY <2>1, <3>1, <3>2
  <2>11. MirrorKept'
    <3>1. Len(acts') <= MaxActs BY <1>len, <2>1, <2>6, MirrorNumbers
    <3> QED BY <1>inv, <2>1, <2>6, <2>8, <2>9, <2>10, <3>1 DEF MirrorKept
  <2>12. LinesInv' /\ HandInv' BY <1>inv, <2>1 DEF LinesInv, HandInv
  <2>13. EchoInv' BY <1>inv, <2>1, <2>5 DEF EchoInv
  <2>14. BesideInv'
    <3> SUFFICES ASSUME NEW r \in reports', ~ r.echo, NEW m \in 1 .. Len(acts'), r.act < m
        PROVE  r.act \in acts'[m].beside
      BY DEF BesideInv
    <3>1. CASE r \in own BY <1>len, <2>5, <2>7, <3>1
    <3>2. CASE r \in reports /\ m \in 1 .. Len(acts) BY <1>inv, <2>6, <3>2 DEF BesideInv
    <3>3. CASE r \in reports /\ m = n BY <2>4, <2>6, <3>3
    <3> QED BY <2>1, <2>7, <3>1, <3>2, <3>3
  <2>15. FreshInv'
    <3> SUFFICES ASSUME NEW r \in reports', ~ r.echo, ~ acts'[r.act].twice
        PROVE  /\ \A q \in reports' : ~ q.echo /\ q.act = r.act => q = r
               /\ \A p \in DOMAIN given : given[p] # r.act
      BY <2>1 DEF FreshInv
    <3>1. \A q \in reports, o \in own : q.act # o.act BY <1>len, <2>3, <2>5
    <3>2. CASE r \in own
      <4>1. \A q \in own : q = r BY <2>4, <2>5, <2>6, <3>2
      <4>2. \A p \in DOMAIN given : given[p] # n BY <1>len
      <4> QED BY <2>1, <2>5, <3>1, <3>2, <4>1, <4>2
    <3>3. CASE r \in reports
      <4>1. acts'[r.act] = acts[r.act] BY <2>3, <2>6, <3>3
      <4> QED BY <1>inv, <2>1, <3>1, <3>3, <4>1 DEF FreshInv
    <3> QED BY <2>1, <3>2, <3>3
  <2>16. GivenInv'
    <3>1. \A p \in DOMAIN given : acts'[given[p]] = acts[given[p]] BY <1>len, <2>6
    <3> QED BY <1>inv, <2>1, <3>1 DEF GivenInv, Single
  <2> QED BY <2>11, <2>12, <2>13, <2>14, <2>15, <2>16 DEF MirrorInv
<1>9. ASSUME NEW r \in reports, FansOut(r) PROVE MirrorInv'
  <2> DEFINE others == IF Dropped(r) THEN {} ELSE {w \in Window \ {r.of} : Armed(w)}
             n == r.act
  <2>1. /\ others # {} => Len(given) < MaxGiven
        /\ reports' = reports \ {r} /\ muted' = muted \cup others
        /\ wires' = [k \in DOMAIN wires |->
                       IF \E w \in others : hub[w] = k
                       THEN [wires[k] EXCEPT !.todo = Append(@, n)] ELSE wires[k]]
        /\ given' = IF others = {} THEN given ELSE Append(given, n)
        /\ UNCHANGED <<alive, hub, typing, acts, late>>
    BY <1>9 DEF FansOut
  <2>2. others \subseteq Window /\ (r.of \in muted => others = {}) BY DEF Dropped
  <2>3. n \in 1 .. Len(acts) /\ n \in Nat BY <1>inv, <1>len DEF MirrorKept, Report
  <2> HIDE DEF others
  <2>4. /\ wires' \in [1 .. Len(wires) -> Wire]
        /\ \A k \in 1 .. Len(wires) : wires'[k].of = wires[k].of /\ wires'[k].hand = wires[k].hand
    <3>1. \A k \in 1 .. Len(wires) :
            LET y == [wires[k] EXCEPT !.todo = Append(@, n)] IN
            y \in Wire /\ y.of = wires[k].of /\ y.hand = wires[k].hand
      <4> SUFFICES ASSUME NEW k \in 1 .. Len(wires)
          PROVE  LET y == [wires[k] EXCEPT !.todo = Append(@, n)] IN
                 y \in Wire /\ y.of = wires[k].of /\ y.hand = wires[k].hand
        OBVIOUS
      <4>1. wires[k] \in Wire BY <1>len
      <4>2. Append(wires[k].todo, n) \in Seq(Nat) BY <2>3, <4>1, AppendProperties DEF Wire
      <4> QED BY <4>1, <4>2 DEF Wire
    <3> QED BY <1>len, <2>1, <3>1
  <2>5. wires' \in Seq(Wire) /\ Len(wires') = Len(wires) BY <1>len, <2>4, SeqIs
  <2>6. reports' \subseteq reports /\ muted \subseteq muted' /\ muted' \subseteq Window
    BY <1>inv, <2>1, <2>2 DEF MirrorKept
  <2>7. HandInv' BY <1>inv, <2>1, <2>4, <2>5, <2>6 DEF HandInv
  <2>8. BesideInv' BY <1>inv, <2>1, <2>6 DEF BesideInv
  <2>9. CASE others = {}
    <3>1. given' = given /\ \A k \in 1 .. Len(wires) : wires'[k] = wires[k] BY <1>len, <2>1, <2>9
    <3>2. MirrorKept' BY <1>inv, <2>1, <2>5, <2>6, <3>1 DEF MirrorKept, Report
    <3>3. LinesInv' BY <1>inv, <2>5, <3>1 DEF LinesInv
    <3>4. EchoInv' BY <1>inv, <2>1, <2>6, <3>1 DEF EchoInv
    <3>5. FreshInv' BY <1>inv, <2>1, <2>6, <3>1 DEF FreshInv
    <3>6. GivenInv' BY <1>inv, <2>1, <3>1 DEF GivenInv, Single
    <3> QED BY <2>7, <2>8, <3>2, <3>3, <3>4, <3>5, <3>6 DEF MirrorInv
  <2>10. CASE others # {}
    <3>1. given' = Append(given, n) BY <2>1, <2>10
    <3>2. /\ Len(given') = Len(given) + 1 /\ DOMAIN given' = 1 .. Len(given) + 1
          /\ (\A p \in DOMAIN given : given'[p] = given[p]) /\ given'[Len(given) + 1] = n
      BY <1>len, <2>3, <3>1, EndAndHead
    <3>3. MirrorKept'
      <4>1. given' \in Seq(1 .. Len(acts)) BY <1>inv, <2>3, <3>1, AppendProperties DEF MirrorKept
      <4>2. Len(given') <= MaxGiven BY <1>len, <2>1, <2>10, <3>2, MirrorNumbers
      <4> QED BY <1>inv, <2>1, <2>5, <2>6, <4>1, <4>2 DEF MirrorKept, Report
    <3>4. LinesInv'
      <4> SUFFICES ASSUME NEW k \in 1 .. Len(wires) PROVE InLine(given', wires'[k])
        BY <2>5 DEF LinesInv
      <4>1. wires[k] \in Wire /\ InLine(given, wires[k]) BY <1>inv, <1>len DEF LinesInv
      <4>2. InLine(Append(given, n), wires[k]) BY <1>len, <2>3, <4>1, GivenGrows
      <4>3. InLine(Append(given, n), [wires[k] EXCEPT !.todo = Append(@, n)])
        BY <1>len, <2>3, <4>1, LineQueues
      <4>4. wires'[k] \in {wires[k], [wires[k] EXCEPT !.todo = Append(@, n)]} BY <1>len, <2>1
      <4> QED BY <3>1, <4>2, <4>3, <4>4
    <3>5. EchoInv'
      <4>1. \A p \in DOMAIN given : p \in DOMAIN given' BY <1>len, <3>2
      <4> QED BY <1>inv, <2>1, <2>6, <3>2, <4>1 DEF EchoInv
    <3>6. \A p \in DOMAIN given' : (p \in DOMAIN given /\ given'[p] = given[p])
                                   \/ (p = Len(given) + 1 /\ given'[p] = n)
      BY <1>len, <3>2
    <3>7. r.echo => n \in late /\ \E p \in DOMAIN given : given[p] = n
      BY <1>inv, <2>2, <2>10 DEF EchoInv
    <3>8. FreshInv'
      <4> SUFFICES ASSUME NEW q \in reports', ~ q.echo, ~ acts[q.act].twice
          PROVE  /\ \A s \in reports' : ~ s.echo /\ s.act = q.act => s = q
                 /\ \A p \in DOMAIN given' : given'[p] # q.act
        BY <2>1 DEF FreshInv
      <4>1. /\ \A s \in reports : ~ s.echo /\ s.act = q.act => s = q
            /\ \A p \in DOMAIN given : given[p] # q.act
        BY <1>inv, <2>6 DEF FreshInv
      <4>2. q # r BY <2>1
      <4>3. n # q.act BY <3>7, <4>1, <4>2
      <4> QED BY <2>6, <3>6, <4>1, <4>3
    <3>9. \A m : Single(m)' = Single(m) BY <2>1 DEF Single
    <3>10. GivenInv'
      <4> SUFFICES ASSUME NEW p \in DOMAIN given', NEW q \in DOMAIN given', p < q
          PROVE  /\ given'[p] = given'[q] => ~ Single(given'[q])
                 /\ given'[q] < given'[p] =>
                      given'[q] \in acts[given'[p]].beside \/ ~ Single(given'[q])
        BY <2>1, <3>9 DEF GivenInv
      <4>1. p \in DOMAIN given /\ given'[p] = given[p] BY <1>len, <3>2, <3>6
      <4>2. CASE q \in DOMAIN given /\ given'[q] = given[q] BY <1>inv, <4>1, <4>2 DEF GivenInv
      <4>3. CASE given'[q] = n
        <5>1. CASE r.echo BY <3>7, <4>3, <5>1 DEF Single
        <5>2. CASE ~ r.echo
          <6>1. given[p] = n => acts[n].twice BY <1>inv, <4>1, <5>2 DEF FreshInv
          <6>2. n < given[p] => n \in acts[given[p]].beside
            BY <1>inv, <1>len, <4>1, <5>2 DEF BesideInv
          <6> QED BY <4>1, <4>3, <6>1, <6>2 DEF Single
        <5> QED BY <5>1, <5>2
      <4> QED BY <3>6, <4>2, <4>3
    <3> QED BY <2>7, <2>8, <3>3, <3>4, <3>5, <3>8, <3>10 DEF MirrorInv
  <2> QED BY <2>9, <2>10
<1>10. ASSUME NEW k \in DOMAIN wires, Takes(k) PROVE MirrorInv'
  <2> DEFINE x == wires[k]
             w == x.of
             y == [x EXCEPT !.todo = Tail(x.todo)]
             z == [x EXCEPT !.todo = Tail(x.todo), !.hand = Append(@, Head(x.todo))]
  <2>1. /\ x.todo # << >>
        /\ wires' = [wires EXCEPT ![k].todo = Tail(x.todo),
                                  ![k].hand = IF hub[w] = k THEN Append(@, Head(x.todo)) ELSE @]
        /\ muted' = (IF hub[w] # 0 THEN muted \cup {w} ELSE muted)
        /\ UNCHANGED <<alive, hub, typing, acts, reports, given, late>>
    BY <1>10 DEF Takes, Taken
  <2>2. x \in Wire /\ k \in 1 .. Len(wires) /\ k # 0 /\ w \in Window /\ InLine(given, x)
    BY <1>inv, <1>len DEF Wire, LinesInv
  <2>3. InLine(given, y) /\ InLine(given, z) BY <2>1, <2>2, LineTakes
  <2>4. x.todo \in Seq(Nat) /\ x.hand \in Seq(Nat) BY <2>2 DEF Wire
  <2>5. /\ Tail(x.todo) \in Seq(Nat) /\ Append(x.hand, Head(x.todo)) \in Seq(Nat)
        /\ \A i \in DOMAIN Append(x.hand, Head(x.todo)) :
             (i \in DOMAIN x.hand /\ Append(x.hand, Head(x.todo))[i] = x.hand[i]) \/ i = Len(x.hand) + 1
    <3>1. Tail(x.todo) \in Seq(Nat) /\ Head(x.todo) \in Nat BY <2>1, <2>4, HeadTailProperties
    <3> DEFINE h == x.hand
               n == Head(x.todo)
    <3>2. h \in Seq(Nat) /\ n \in Nat BY <2>4, <3>1
    <3> HIDE DEF h, n
    <3>3. Append(h, n) \in Seq(Nat) /\ \A i \in DOMAIN Append(h, n) :
            (i \in DOMAIN h /\ Append(h, n)[i] = h[i]) \/ i = Len(h) + 1
      BY <3>2, EndAndHead
    <3> QED BY <3>1, <3>3 DEF h, n
  <2>6. y \in Wire /\ y.of = w /\ y.hand = x.hand BY <2>2, <2>5 DEF Wire
  <2>7. z \in Wire /\ z.of = w /\ z.hand = Append(x.hand, Head(x.todo)) BY <2>2, <2>5 DEF Wire
  <2>8. muted \subseteq muted' /\ muted' \subseteq Window BY <1>inv, <2>1, <2>2 DEF MirrorKept
  <2>9. \A i \in DOMAIN x.hand : w \in muted' \/ x.hand[i] \in late BY <1>inv, <2>2, <2>8 DEF HandInv
  <2>11. CASE hub[w] = k
    <3>1. wires' = [wires EXCEPT ![k] = z] BY <2>1, <2>11
    <3>2. w \in muted' BY <2>1, <2>2, <2>11
    <3> HIDE DEF z
    <3> QED BY <2>1, <2>2, <2>3, <2>7, <2>8, <3>1, <3>2, HandMovesQuietly
  <2>12. CASE hub[w] # k
    <3>1. wires' = [wires EXCEPT ![k] = y] BY <1>len, <2>1, <2>2, <2>12 DEF Wire
    <3> HIDE DEF y
    <3> QED BY <2>1, <2>2, <2>3, <2>6, <2>8, <2>9, <3>1, HandMovesQuietly
  <2> QED BY <2>11, <2>12
<1>11. ASSUME NEW k \in DOMAIN wires, Performs(k) \/ GivesUp(k) PROVE MirrorInv'
  <2> DEFINE x == wires[k]
             w == x.of
             y == [x EXCEPT !.hand = Tail(@)]
             z == [x EXCEPT !.hand = Tail(@), !.done = Append(@, Head(x.hand))]
             n == Head(x.hand)
             R == ReportsOf(w, n, TRUE)
  <2>1. x \in Wire /\ k \in 1 .. Len(wires) /\ w \in Window /\ InLine(given, x)
    BY <1>inv, <1>len DEF Wire, LinesInv
  <2>2. x.hand \in Seq(Nat) /\ x.done \in Seq(Nat) /\ x.hand # << >>
    BY <1>11, <2>1 DEF Wire, Performs, GivesUp
  <2>3. /\ Tail(x.hand) \in Seq(Nat) /\ n = x.hand[1] /\ 1 \in DOMAIN x.hand /\ n \in Nat
        /\ \A i \in DOMAIN Tail(x.hand) : i + 1 \in DOMAIN x.hand /\ Tail(x.hand)[i] = x.hand[i + 1]
    <3> DEFINE h == x.hand
    <3>1. h \in Seq(Nat) /\ h # << >> /\ 1 \in Nat BY <2>2
    <3> HIDE DEF h
    <3>2. /\ Len(h) \in Nat /\ DOMAIN h = 1 .. Len(h) /\ 0 < Len(h) /\ Head(h) = h[1] /\ Head(h) \in Nat
          /\ Tail(h) \in Seq(Nat) /\ DOMAIN Tail(h) = 1 .. Len(h) - 1
          /\ \A i \in DOMAIN Tail(h) : Tail(h)[i] = h[i + 1]
      BY <3>1, EndAndHead
    <3>3. 1 \in DOMAIN h /\ \A i \in DOMAIN Tail(h) : i + 1 \in DOMAIN h BY <3>2
    <3> QED BY <3>2, <3>3 DEF h
  <2>4. InLine(given, y) /\ InLine(given, z) BY <2>1, <2>2, LinePerforms
  <2>5. Append(x.done, n) \in Seq(Nat) BY <2>2, <2>3, AppendProperties
  <2>6. y \in Wire /\ y.of = w /\ y.hand = Tail(x.hand) BY <2>1, <2>3 DEF Wire
  <2>7. z \in Wire /\ z.of = w /\ z.hand = Tail(x.hand) BY <2>1, <2>3, <2>5 DEF Wire
  <2>8. \A i \in DOMAIN x.hand : w \in muted \/ x.hand[i] \in late BY <1>inv, <2>1 DEF HandInv
  <2>9. \A i \in DOMAIN Tail(x.hand) : w \in muted \/ Tail(x.hand)[i] \in late BY <2>3, <2>8
  <2>10. muted \subseteq Window BY <1>inv DEF MirrorKept
  <2>11. CASE GivesUp(k)
    <3>1. wires' = [wires EXCEPT ![k] = y]
          /\ UNCHANGED <<alive, hub, typing, acts, reports, muted, given, late>>
      BY <2>11 DEF GivesUp
    <3> HIDE DEF y
    <3> QED BY <2>1, <2>4, <2>6, <2>9, <2>10, <3>1, HandMovesQuietly
  <2>12. CASE Performs(k)
    <3>1. wires' = [wires EXCEPT ![k] = z] /\ reports' = reports \cup R
          /\ UNCHANGED <<alive, hub, typing, acts, muted, given, late>>
      BY <2>12 DEF Performs
    <3>2. PICK p \in DOMAIN given : given[p] = n BY <2>1, <2>3 DEF InLine, Drawn
    <3>3. n \in 1 .. Len(acts) BY <1>len, <3>2
    <3>4. \A r \in R : /\ r.of = w /\ r.act = n /\ r.echo = TRUE /\ r.by \in Nat
                       /\ r = [of |-> w, act |-> n, echo |-> TRUE, by |-> r.by]
      <4> HIDE DEF n, w
      <4> QED BY <1>inv, <2>1, ReportTyped
    <3> HIDE DEF R, z
    <3>5. \A r \in R : r \in Report
      <4> SUFFICES ASSUME NEW r \in R PROVE r \in Report
        OBVIOUS
      <4>1. [of |-> w, act |-> n, echo |-> TRUE, by |-> r.by] \in Report
        BY <2>1, <3>3, <3>4 DEF Report
      <4> QED BY <3>4, <4>1
    <3>6. \A r \in R : /\ r.echo = TRUE /\ (r.of \in muted' \/ r.act \in late)
                       /\ \E q \in DOMAIN given : given[q] = r.act
      BY <2>3, <2>8, <3>1, <3>2, <3>4
    <3> QED BY <2>1, <2>4, <2>7, <2>9, <2>10, <3>1, <3>5, <3>6, HandMoves
  <2> QED BY <1>11, <2>11, <2>12
<1>12. ASSUME NEW w \in Window, Unmutes(w) PROVE MirrorInv'
  <2>1. MuteEnds(w) /\ UNCHANGED <<alive, hub, wires, typing, acts, reports, given>>
    BY <1>12 DEF Unmutes
  <2>2. /\ muted' \subseteq Window /\ late' \subseteq 1 .. Len(acts) /\ late \subseteq late'
        /\ \A k \in 1 .. Len(wires) : \A i \in DOMAIN wires[k].hand :
             wires[k].of \in muted' \/ wires[k].hand[i] \in late'
        /\ \A r \in reports : r.echo => r.of \in muted' \/ r.act \in late'
    BY <2>1, MuteFacts
  <2>3. MirrorKept' BY <1>inv, <2>1, <2>2 DEF MirrorKept, Report
  <2>4. LinesInv' /\ HandInv' BY <1>inv, <2>1, <2>2 DEF LinesInv, HandInv
  <2>5. EchoInv' BY <1>inv, <2>1, <2>2 DEF EchoInv
  <2>6. BesideInv' /\ FreshInv' /\ GivenInv' BY <2>1, <2>2, GivenStands
  <2> QED BY <2>3, <2>4, <2>5, <2>6 DEF MirrorInv
<1> QED
  BY <1>1, <1>2, <1>3, <1>4, <1>5, <1>6, <1>7, <1>8, <1>9, <1>10, <1>11, <1>12 DEF MirrorNext

\* The invariant gives the types and the order.
LEMMA MirrorTyped == MirrorInv => MirrorTypeOK /\ SameOrder
<1> SUFFICES ASSUME MirrorInv PROVE MirrorTypeOK /\ SameOrder
  OBVIOUS
<1>inv. MirrorKept /\ LinesInv /\ GivenInv BY DEF MirrorInv
<1>len. /\ Len(wires) \in Nat /\ DOMAIN wires = 1 .. Len(wires)
        /\ wires \in [1 .. Len(wires) -> Wire]
        /\ Len(acts) \in Nat /\ DOMAIN acts = 1 .. Len(acts)
        /\ Len(given) \in Nat /\ DOMAIN given = 1 .. Len(given) /\ given \in Seq(Nat)
        /\ \A p \in DOMAIN given : given[p] \in 1 .. Len(acts)
  BY <1>inv, MirrorLens
<1>1. MirrorTypeOK
  <2>1. ASSUME NEW k \in DOMAIN wires
        PROVE  /\ wires[k].of \in Window
               /\ wires[k].armed \in BOOLEAN /\ wires[k].at \in {"open", "dropped", "ended"}
               /\ {wires[k].todo, wires[k].hand, wires[k].done} \subseteq Seq(DOMAIN acts)
    <3>1. wires[k] \in Wire /\ InLine(given, wires[k]) BY <1>inv, <1>len DEF LinesInv
    <3>2. ASSUME NEW a \in Seq(Nat), Drawn(given, a) PROVE a \in Seq(DOMAIN acts)
      <4>1. a \in [1 .. Len(a) -> Nat] /\ Len(a) \in Nat BY LenProperties
      <4>2. \A i \in 1 .. Len(a) : a[i] \in DOMAIN acts BY <1>len, <3>2, <4>1 DEF Drawn
      <4>3. a \in [1 .. Len(a) -> DOMAIN acts] BY <4>1, <4>2
      <4> QED BY <4>1, <4>3, SeqIs
    <3> QED BY <3>1, <3>2 DEF Wire, InLine
  <2>2. given \in Seq(DOMAIN acts) /\ late \subseteq DOMAIN acts BY <1>inv, <1>len DEF MirrorKept
  <2> QED BY <1>inv, <2>1, <2>2 DEF MirrorTypeOK, MirrorKept
<1>2. SameOrder
  <2> SUFFICES ASSUME NEW k \in DOMAIN wires, NEW i \in DOMAIN wires[k].done,
                      NEW j \in DOMAIN wires[k].done, i < j,
                      wires[k].done[i] # wires[k].done[j]
      PROVE  LET first == wires[k].done[i]
                 then  == wires[k].done[j]
             IN /\ first < then \/ then \in acts[first].beside \/ ~ Single(then)
                /\ Single(first) /\ Single(then) =>
                     \A l \in DOMAIN wires : \A m, n \in DOMAIN wires[l].done :
                       wires[l].done[m] = first /\ wires[l].done[n] = then => m < n
    BY DEF SameOrder
  <2> DEFINE first == wires[k].done[i]
             then  == wires[k].done[j]
  <2>1. Before(given, first, then) BY <1>inv, <1>len DEF LinesInv, InLine, Ordered
  <2>2. PICK p, q \in DOMAIN given : p < q /\ given[p] = first /\ given[q] = then
    BY <2>1 DEF Before
  <2>3. first \in Nat /\ then \in Nat BY <1>len, <2>2
  <2>4. first < then \/ then \in acts[first].beside \/ ~ Single(then)
    BY <1>inv, <2>2, <2>3 DEF GivenInv
  <2>5. ASSUME Single(first), Single(then), NEW l \in DOMAIN wires,
               NEW m \in DOMAIN wires[l].done, NEW n \in DOMAIN wires[l].done,
               wires[l].done[m] = first, wires[l].done[n] = then
        PROVE  m < n
    <3>1. m # n BY <2>5
    <3>2. wires[l].done \in Seq(Nat) BY <1>len DEF Wire
    <3>3. m \in Nat /\ n \in Nat
      <4> DEFINE d == wires[l].done
      <4>1. d \in Seq(Nat) BY <3>2
      <4> HIDE DEF d
      <4>2. DOMAIN d = 1 .. Len(d) /\ Len(d) \in Nat BY <4>1, LenProperties
      <4>3. \A e \in DOMAIN d : e \in Nat BY <4>2
      <4> QED BY <4>3 DEF d
    <3>4. CASE n < m
      <4>1. Before(given, then, first) BY <1>inv, <1>len, <2>5, <3>4 DEF LinesInv, InLine, Ordered
      <4>2. PICK a, b \in DOMAIN given : a < b /\ given[a] = then /\ given[b] = first
        BY <4>1 DEF Before
      <4>3. \A c, d \in DOMAIN given : c # d /\ given[c] = given[d] => ~ Single(given[c])
        BY <1>inv, <1>len DEF GivenInv
      <4>4. p = b /\ q = a BY <2>2, <2>5, <4>2, <4>3
      <4> QED BY <1>len, <2>2, <4>2, <4>4
    <3> QED BY <3>1, <3>3, <3>4
  <2> QED BY <2>4, <2>5
<1> QED BY <1>1, <1>2

\* Whatever happens to the group and to its connections, two hands perform in one
\* order what is given out once, and a hand leaves the operator's order only for
\* what was reported together or given out again (mirror.rs 103-108, 208-213,
\* 307-309, 403).
THEOREM MirrorSafe == MirrorSpec => [](MirrorTypeOK /\ SameOrder)
BY MirrorStart, MirrorStep, MirrorTyped, PTL DEF MirrorSpec

-----------------------------------------------------------------------------
(* The window and its agent.                                                *)

Life == [at : {"none", "starting", "probed", "serving"}, version : Version \cup {0},
         leaving : BOOLEAN, whenIdle : BOOLEAN, open : BOOLEAN]
Phase == {"none", "asking", "dismissing", "watching", "alone", "cold"}

\* An agent's record stays one when a field of it is set.
LEMMA LifeFacts ==
  ASSUME NEW a \in Life
  PROVE  /\ [a EXCEPT !.whenIdle = FALSE] \in Life
         /\ [a EXCEPT !.whenIdle = TRUE] \in Life
         /\ [a EXCEPT !.leaving = TRUE] \in Life
         /\ [a EXCEPT !.open = FALSE] \in Life
         /\ [a EXCEPT !.at = "probed"] \in Life
         /\ [a EXCEPT !.at = "serving"] \in Life
BY DEF Life

\* The window is there and no agent.
LEMMA ShellStart == ShellInit => ShellTypeOK
<1>1. NoAgent \in Life BY DEF NoAgent, Life
<1> QED BY <1>1 DEF ShellInit, ShellTypeOK, Version, Life

\* One step per action of the window, its update and the agents.
LEMMA ShellStep == ShellTypeOK /\ [ShellNext]_shellVars => ShellTypeOK'
<1> SUFFICES ASSUME ShellTypeOK, [ShellNext]_shellVars PROVE ShellTypeOK'
  OBVIOUS
<1> DEFINE Agents == [Process -> Life]
<1>1. agent \in Agents /\ NoAgent \in Life /\ owner \in Process \cup {0}
  BY DEF ShellTypeOK, NoAgent, Life
<1>2. \A i \in Process : [agent EXCEPT ![i] = NoAgent] \in Agents
  BY <1>1
<1>3. \A i \in Process :
        /\ [agent EXCEPT ![i].whenIdle = FALSE] \in Agents
        /\ [agent EXCEPT ![i].whenIdle = TRUE] \in Agents
        /\ [agent EXCEPT ![i].leaving = TRUE] \in Agents
        /\ [agent EXCEPT ![i].open = FALSE] \in Agents
        /\ [agent EXCEPT ![i].at = "probed"] \in Agents
        /\ [agent EXCEPT ![i].at = "serving"] \in Agents
  BY <1>1, LifeFacts
<1>4. Answers => owner \in Process BY <1>1 DEF Answers
<1>heard. Heard => agent' \in Agents
  BY <1>1, <1>3, <1>4 DEF Heard
<1>leaving. Answers => Leaving \in Agents
  BY <1>3, <1>4 DEF Leaving
<1>gone. \A i \in Process : Gone(i) => agent' \in Agents /\ owner' \in Process \cup {0}
  BY <1>1, <1>2 DEF Gone
<1>call. \A c \in Call, phase \in Phase : At(c, phase) => call' \in [Call -> Phase]
  BY DEF ShellTypeOK, At, Phase
<1>rest. ASSUME agent' \in Agents, owner' \in Process \cup {0}, call' \in [Call -> Phase],
                UNCHANGED <<shell, bundle, checked, installing, update>>
         PROVE  ShellTypeOK'
  BY <1>rest DEF ShellTypeOK, Phase, Life
<1>own. ASSUME agent' \in Agents, owner' \in Process \cup {0}, UNCHANGED <<shell, bundle, checked, installing, update, call>>
        PROVE  ShellTypeOK'
  BY <1>own DEF ShellTypeOK, Life
<1>win. ASSUME agent' \in Agents, owner' \in Process \cup {0}, shell' \in Version \cup {0}, ShellGone,
               UNCHANGED bundle
        PROVE  ShellTypeOK'
  BY <1>win DEF ShellTypeOK, ShellGone, Life
<1>shellgone. ShellGone => agent' \in Agents
  BY <1>1, <1>3, <1>4, <1>leaving DEF ShellGone
<1> HIDE DEF Agents
<1>5. ASSUME NEW c \in Call, CallStep(c) PROVE ShellTypeOK'
  <2> USE <1>1 DEF Phase
  <2>0. call \in [Call -> Phase] BY DEF ShellTypeOK
  <2>1. CASE Polls(c) BY <2>0, <2>1, <1>heard, <1>call, <1>rest DEF Polls
  <2>2. CASE Asks(c)
    <3>1. agent' \in Agents BY <2>2, <1>heard DEF Asks
    <3>2. call' \in [Call -> Phase] BY <2>2, <1>call DEF Asks
    <3>3. checked' \in BOOLEAN BY <2>2 DEF Asks, ShellTypeOK
    <3> QED BY <2>2, <3>1, <3>2, <3>3 DEF Asks, ShellTypeOK, Agents, Life
  <2>3. CASE Dismisses(c) BY <2>0, <2>3, <1>leaving, <1>call, <1>rest DEF Dismisses
  <2>4. CASE Watches(c) BY <2>4, <1>call, <1>rest DEF Watches
  <2>5. CASE Spawns(c)
    <3>1. call' \in [Call -> Phase] BY <2>5, <1>call DEF Spawns
    <3>2. agent' \in Agents
      <4>1. CASE installing BY <2>5, <4>1 DEF Spawns
      <4>2. CASE ~ installing
        <5> DEFINE new == [NoAgent EXCEPT !.at = "starting", !.version = shell]
        <5>1. PICK i \in Process : agent' = [agent EXCEPT ![i] = new] BY <2>5, <4>2 DEF Spawns
        <5>2. new \in Life BY DEF new, NoAgent, Life, ShellTypeOK
        <5> HIDE DEF new
        <5> QED BY <5>1, <5>2 DEF Agents
      <4> QED BY <4>1, <4>2 DEF ShellTypeOK
    <3> QED BY <2>5, <3>1, <3>2, <1>rest DEF Spawns
  <2>6. CASE StopsWaiting(c) BY <2>6, <1>heard, <1>call, <1>rest DEF StopsWaiting
  <2> QED BY <1>5, <2>1, <2>2, <2>3, <2>4, <2>5, <2>6 DEF CallStep
<1>6. ASSUME NEW i \in Process, AgentStep(i) PROVE ShellTypeOK'
  <2>1. CASE Probes(i) BY <2>1, <1>1, <1>2, <1>3, <1>own DEF Probes
  <2>2. CASE Binds(i) BY <2>2, <1>1, <1>3, <1>gone, <1>own DEF Binds
  <2>3. CASE Leaves(i) BY <2>3, <1>gone, <1>own DEF Leaves
  <2> QED BY <1>6, <2>1, <2>2, <2>3 DEF AgentStep
<1>7. ASSUME NEW i \in Process, Dies(i) PROVE ShellTypeOK'
  BY <1>7, <1>gone, <1>own DEF Dies
<1>8. ASSUME NEW i \in Process, ClosesProfile(i) PROVE ShellTypeOK'
  BY <1>8, <1>1, <1>3, <1>own DEF ClosesProfile
<1>9. CASE OpensProfile
  <2> DEFINE a == agent[owner]
  <2>1. owner \in Process /\ a \in Life BY <1>1, <1>4, <1>9 DEF OpensProfile, Agents
  <2>2. [[a EXCEPT !.open = TRUE] EXCEPT !.whenIdle = FALSE] \in Life BY <2>1 DEF Life
  <2>3. agent' = [agent EXCEPT ![owner] = [[a EXCEPT !.open = TRUE] EXCEPT !.whenIdle = FALSE]]
    BY <1>1, <1>9, <2>1 DEF OpensProfile, Agents
  <2>4. agent' \in Agents BY <1>1, <2>1, <2>2, <2>3 DEF Agents
  <2> QED BY <1>1, <1>9, <2>4, <1>own DEF OpensProfile
<1>10. CASE Quits
  BY <1>1, <1>10, <1>win, <1>shellgone DEF Quits
<1>11. CASE Starts
  BY <1>1, <1>11 DEF Starts, ShellTypeOK
<1>12. CASE UpdateBegins
  BY <1>1, <1>12 DEF UpdateBegins, ShellTypeOK
<1>13. CASE UpdateStep
  <2>1. ASSUME NEW verified \in BOOLEAN, Downloaded(verified) PROVE ShellTypeOK'
    BY <2>1 DEF Downloaded, ShellTypeOK
  <2>2. CASE StopsAgent
    <3>1. agent' \in Agents BY <1>1, <1>leaving, <2>2 DEF StopsAgent
    <3> QED BY <2>2, <3>1 DEF StopsAgent, ShellTypeOK, Agents, Life
  <2>3. CASE StopsWaitingForIt BY <2>3 DEF StopsWaitingForIt, ShellTypeOK
  <2>4. CASE UpdateFails BY <2>4 DEF UpdateFails, ShellTypeOK
  <2>5. CASE Installs
    <3>1. agent' \in Agents /\ owner' \in Process \cup {0}
      BY <1>1, <2>5 DEF Installs, Agents
    <3> QED BY <2>5, <3>1 DEF Installs, ShellTypeOK, Agents, Life, Version
  <2>6. CASE ShellRestarts
    <3>1. shell' \in Version \cup {0} BY <2>6 DEF ShellRestarts, ShellTypeOK
    <3> QED BY <1>1, <2>6, <3>1, <1>win, <1>shellgone DEF ShellRestarts
  <2> QED BY <1>13, <2>1, <2>2, <2>3, <2>4, <2>5, <2>6 DEF UpdateStep
<1>14. CASE UNCHANGED shellVars
  BY <1>14 DEF shellVars, ShellTypeOK
<1> QED
  BY <1>5, <1>6, <1>7, <1>8, <1>9, <1>10, <1>11, <1>12, <1>13, <1>14 DEF ShellNext

\* The window, its update and the agents are where the code can be (agent.rs,
\* update.rs; ipc.rs serve, start_reaper).
THEOREM ShellTypes == ShellInit /\ [][ShellNext]_shellVars => []ShellTypeOK
BY ShellStart, ShellStep, PTL

-----------------------------------------------------------------------------
(* All of them: a step is one part's, and the others stand still.           *)

\* The model starts every part as it starts by itself, and moves one.
THEOREM AgentPartsFollow ==
  Spec => FarmSpec /\ CoreSpec /\ MirrorSpec /\ ShellInit /\ [][ShellNext]_shellVars
<1>1. Init => FarmInit /\ CoreInit /\ MirrorInit /\ ShellInit
  BY DEF Init
<1>2. [Next]_all => [FarmNext]_farmVars
  BY DEF Next, InShell, all, farmVars
<1>3. [Next]_all => [CoreNext]_coreVars
  BY DEF Next, InShell, all, coreVars
<1>4. [Next]_all => [MirrorNext]_mirrorVars
  BY DEF Next, InShell, all, mirrorVars
<1>5. [Next]_all => [ShellNext]_shellVars
  BY DEF Next, InShell, all, shellVars
<1> QED
  BY <1>1, <1>2, <1>3, <1>4, <1>5, PTL DEF Spec, FarmSpec, CoreSpec, MirrorSpec

\* Every part's state keeps its type, the one that moves and the others.
THEOREM AgentTypes == Spec => []AgentTypeOK
<1> DEFINE Known == part \in {"farm", "core", "mirror", "shell"}
           AllTyped == FarmTypeOK /\ CoreTypeOK /\ MirrorTypeOK /\ ShellTypeOK
<1>1. Init => Known BY DEF Init
<1>2. Known /\ [Next]_all => Known' BY DEF Next, InShell, all
<1>3. Known /\ AllTyped => AgentTypeOK BY DEF AgentTypeOK
<1> HIDE DEF Known
<1>4. Spec => []Known BY <1>1, <1>2, PTL DEF Spec
<1>5. Spec => []AllTyped
  BY AgentPartsFollow, FarmSafe, CoreSafe, MirrorSafe, ShellTypes, PTL
<1> QED BY <1>3, <1>4, <1>5, PTL

\* What each part keeps by itself it keeps here: the farm within its bounds, the
\* build in use checked, mirrored windows in one order but for what was reported
\* together or given out again.
THEOREM AgentSafe == Spec => [](FarmBounded /\ CoreChecked /\ SameOrder)
BY AgentPartsFollow, FarmSafe, CoreSafe, MirrorSafe, PTL
=============================================================================
