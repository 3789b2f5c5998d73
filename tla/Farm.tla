-------------------------------- MODULE Farm --------------------------------
(* Farming plans and warm-ups (agent/src/farm.rs, warm.rs, and their        *)
(* handlers in ipc.rs).                                                     *)
(*                                                                          *)
(* The loop looks at the open browsers, and then, under the plans' mutex,   *)
(* makes one pass over every plan.  Local sessions it starts itself; a      *)
(* team's waits for the window, which asks, claims, opens and starts it in  *)
(* calls of its own.  A run reports and closes the browser after its job is *)
(* marked finished.  Clocks are left out: what they say of each session     *)
(* is chosen anew for every pass.                                           *)
EXTENDS Naturals, FiniteSets, SequencesExt

CONSTANTS Farmed,       \* profiles
          Shared,       \* those of a team, which the window opens
          Lists,        \* bound: the lists of profiles a plan is made for
          Plans,        \* bound: plans; a deleted one's number is reused
          AtOnce,       \* Spec::at_once
          Days,         \* Spec::days
          Sittings,     \* bound: sessions a day (the code: up to three)
          Visits,       \* bound: runs of one profile that read something
          Meddling      \* bound: openings, closings, stops, pauses and restarts

NoPlan == 0

ASSUME FarmAssumption ==
  /\ Shared \subseteq Farmed
  /\ Lists \subseteq Seq(Farmed) \ {<< >>} /\ \A w \in Lists : IsInjective(w)
  /\ {Plans, AtOnce, Days, Sittings, Visits, Meddling} \subseteq Nat \ {0}

VARIABLES
  plan,     \* Farms::list: the targets in order, and whether it is paused
  track,    \* Farm::tracks
  browser,  \* the running map: "none", or who opened it
  job,      \* Warmer::jobs
  ending,   \* runs whose job is finished and which have not closed up
  loop,     \* the farming loop: what it does, what it saw, what it starts
  window,   \* the sessions the window has claimed and not opened
  visits,   \* history: runs of a plan that read something
  taken,    \* history: profiles whose browser a farming run took from somebody
  meddled   \* how often somebody meddled

farmVars == <<plan, track, browser, job, ending, loop, window, visits, taken,
              meddled>>

Plan == 1 .. Plans
NoTrack == [days |-> 0, open |-> FALSE, sessions |-> << >>, ready |-> FALSE]
NoJob == [at |-> "none", by |-> NoPlan, stop |-> FALSE, close |-> FALSE, page |-> FALSE]

FarmInit ==
  /\ plan = [f \in Plan |-> [who |-> << >>, paused |-> FALSE]]
  /\ track = [f \in Plan |-> [p \in Farmed |-> NoTrack]]
  /\ browser = [p \in Farmed |-> "none"]
  /\ job = [p \in Farmed |-> NoJob]
  /\ ending = {} /\ taken = {} /\ meddled = 0
  /\ loop = [at |-> "asleep", seen |-> {}, starts |-> {}]
  /\ window = {}
  /\ visits = [f \in Plan |-> [p \in Farmed |-> 0]]

Open == {p \in Farmed : browser[p] # "none"}
Made(f) == plan[f].who # << >>
Targets(f) == ToSet(plan[f].who)
InFlight(t) == {i \in DOMAIN t.sessions : t.sessions[i] = "running"}
Waiting(t) == {i \in DOMAIN t.sessions : t.sessions[i] = "waiting"}
FirstOf(is) == CHOOSE i \in is : \A k \in is : i <= k
Marked(t, i, how) == [t EXCEPT !.sessions[i] = how]
Ended(t, how) == IF InFlight(t) = {} THEN t ELSE Marked(t, FirstOf(InFlight(t)), how)

Underway(f, tracks) ==
  {s \in Targets(f) \X (1 .. Sittings) : s[2] \in InFlight(tracks[s[1]])}
PlanInFlight(f) == Cardinality(Underway(f, track[f]))
RoomOf(f) == IF PlanInFlight(f) >= AtOnce THEN 0 ELSE AtOnce - PlanInFlight(f)
Finished(f) == \A p \in Targets(f) : track[f][p].days >= Days

-----------------------------------------------------------------------------
(* What the operator does. *)

Meddles == meddled < Meddling /\ meddled' = meddled + 1

Free(who) == \A g \in Plan : Made(g) /\ ~ Finished(g) => Targets(g) \cap ToSet(who) = {}
Makes(f, who) ==
  /\ ~ Made(f) /\ Free(who)
  /\ plan' = [plan EXCEPT ![f] = [who |-> who, paused |-> FALSE]]
  /\ UNCHANGED <<track, browser, job, ending, loop, window, visits, taken, meddled>>

(* The number is reused once nothing of the old plan is under way. *)
Drops(f) ==
  /\ Meddles
  /\ Made(f) /\ \A p \in Farmed : job[p].by # f
  /\ (\A e \in ending : e.by # f) /\ (\A s \in loop.starts \cup window : s[1] # f)
  /\ plan' = [plan EXCEPT ![f] = [who |-> << >>, paused |-> FALSE]]
  /\ track' = [track EXCEPT ![f] = [p \in Farmed |-> NoTrack]]
  /\ visits' = [visits EXCEPT ![f] = [p \in Farmed |-> 0]]
  /\ UNCHANGED <<browser, job, ending, loop, window, taken>>

Pauses(f) ==
  /\ Meddles
  /\ Made(f) /\ plan' = [plan EXCEPT ![f].paused = ~ @]
  /\ UNCHANGED <<track, browser, job, ending, loop, window, visits, taken>>

SetsStage(f, p) ==
  /\ track[f][p].ready /\ track' = [track EXCEPT ![f][p].ready = FALSE]
  /\ UNCHANGED <<plan, browser, job, ending, loop, window, visits, taken, meddled>>

SomebodyOpens(p) ==
  /\ Meddles
  /\ browser[p] = "none" /\ browser' = [browser EXCEPT ![p] = "somebody"]
  /\ UNCHANGED <<plan, track, job, ending, loop, window, visits, taken>>

Unpaged(p) == [job EXCEPT ![p].page = FALSE]
SomebodyCloses(p) ==
  /\ Meddles
  /\ p \in Open /\ browser' = [browser EXCEPT ![p] = "none"] /\ job' = Unpaged(p)
  /\ UNCHANGED <<plan, track, ending, loop, window, visits, taken>>

Busy(p) == job[p].at = "running"
StartsRun(p, f, closing) ==
  job' = [job EXCEPT ![p] = [at |-> "running", by |-> f, stop |-> FALSE,
                             close |-> closing, page |-> p \in Open]]

WarmsByHand(p, closing) ==
  /\ Meddles
  /\ ~ Busy(p) /\ StartsRun(p, NoPlan, closing) /\ browser[p] = "somebody"
  /\ UNCHANGED <<plan, track, browser, ending, loop, window, visits, taken>>

StopsRun(p) ==
  /\ Meddles
  /\ Busy(p) /\ ~ job[p].stop /\ job' = [job EXCEPT ![p].stop = TRUE]
  /\ UNCHANGED <<plan, track, browser, ending, loop, window, visits, taken>>

-----------------------------------------------------------------------------
(* A pass. *)

(* What the clock says of a profile's session, or of its day: too early;    *)
(* due; due and with no half hour left to wait; two hours without a report, *)
(* or the day's hours over.                                                 *)
Signs == {"early", "due", "last", "over"}

Sat(t) == Len(t.sessions) > 0                    \* mutant: a day is a day
Read(t) == \E i \in DOMAIN t.sessions : t.sessions[i] = "done"
DayOver(t, late) ==
  t.open /\ (late \/ \A i \in DOMAIN t.sessions : t.sessions[i] \notin {"waiting", "running"})
DayClosed(t) ==
  LET days == IF Read(t) THEN t.days + 1 ELSE t.days IN
  [t EXCEPT !.open = FALSE, !.days = days, !.ready = @ \/ days >= Days,
     !.sessions = [i \in DOMAIN @ |-> IF @[i] = "waiting" THEN "skipped" ELSE @[i]]]
DaysPlanned(t, n) ==       \* mutant: yesterday's sessions stay
  [t EXCEPT !.open = TRUE, !.sessions = @ \o [i \in 1 .. n |-> "waiting"]]
DayPlanned(t, n) ==
  [t EXCEPT !.open = TRUE, !.sessions = [i \in 1 .. n |-> "waiting"]]

(* One target, with the room the ones before it left. *)
Turn(acc, p, f, sign, n) ==
  LET t == acc.track[p]
      Keep(u) == [acc EXCEPT !.track[p] = u]
      today == IF DayOver(t, sign[p] = "over") THEN DayClosed(t) ELSE t
      next == FirstOf(Waiting(today))
  IN CASE t.days >= Days -> acc
       [] t.days < Days /\ InFlight(t) # {} ->
            IF sign[p] = "over" THEN [Keep(Ended(t, "failed")) EXCEPT !.room = @ + 1] ELSE acc
       [] t.days < Days /\ InFlight(t) = {} ->
            CASE today.days >= Days -> Keep(today)
              [] today.days < Days /\ ~ today.open -> Keep(DayPlanned(today, n))
              [] OTHER ->
                   IF Waiting(today) = {} \/ sign[p] \notin {"due", "last"} THEN Keep(today)
                   ELSE IF p \in loop.seen
                        THEN Keep(IF sign[p] = "last" THEN Marked(today, next, "skipped") ELSE today)
                   ELSE IF p \in Shared \/ acc.room = 0 THEN Keep(today)
                   ELSE [room |-> acc.room - 1, starts |-> acc.starts \cup {<<f, p>>},
                         track |-> [acc.track EXCEPT ![p] = Marked(today, next, "running")]]

PassOver(f, sign, n) ==
  LET nothing == [room |-> RoomOf(f), track |-> track[f], starts |-> {}]
      after[i \in 0 .. Len(plan[f].who)] ==
        IF i = 0 THEN nothing ELSE Turn(after[i - 1], plan[f].who[i], f, sign, n)
  IN IF plan[f].paused THEN nothing ELSE after[Len(plan[f].who)]

Wakes ==
  /\ loop.at = "asleep" /\ loop' = [loop EXCEPT !.at = "passing", !.seen = Open]
  /\ UNCHANGED <<plan, track, browser, job, ending, window, visits, taken, meddled>>

Passes(sign, n) ==
  LET pass == [f \in Plan |-> PassOver(f, sign, n)] IN
  /\ loop.at = "passing"
  /\ track' = [f \in Plan |-> pass[f].track]
  /\ loop' = [at |-> "starting", seen |-> {}, starts |-> UNION {pass[f].starts : f \in Plan}]
  /\ UNCHANGED <<plan, browser, job, ending, window, visits, taken, meddled>>

Sleeps ==
  /\ loop.at = "starting" /\ loop.starts = {} /\ loop' = [loop EXCEPT !.at = "asleep"]
  /\ UNCHANGED <<plan, track, browser, job, ending, window, visits, taken, meddled>>

Fails(s) == track' = [track EXCEPT ![s[1]][s[2]] = Ended(@, "failed")]

(* farm_local: the launch refuses an open profile, and may fail. *)
Launches(s) ==
  /\ loop.at = "starting" /\ s \in loop.starts /\ browser[s[2]] = "none"
  /\ browser' = [browser EXCEPT ![s[2]] = "farm"]
  /\ loop' = [at |-> "warming", seen |-> {s[2]}, starts |-> loop.starts]
  /\ UNCHANGED <<plan, track, job, ending, window, visits, taken, meddled>>

LaunchFails(s) ==
  /\ loop.at = "starting" /\ s \in loop.starts /\ Fails(s)
  /\ loop' = [loop EXCEPT !.starts = @ \ {s}]
  /\ UNCHANGED <<plan, browser, job, ending, window, visits, taken, meddled>>

Warms(s) ==
  LET p == s[2] IN
  /\ loop.at = "warming" /\ s \in loop.starts /\ p \in loop.seen
  /\ loop' = [at |-> "starting", seen |-> {}, starts |-> loop.starts \ {s}]
  /\ IF p \in Open /\ ~ Busy(p)
     THEN StartsRun(p, s[1], TRUE) /\ UNCHANGED <<track, browser>>
     ELSE /\ Fails(s) /\ browser' = [browser EXCEPT ![p] = "none"]
          /\ job' = Unpaged(p)
  /\ UNCHANGED <<plan, ending, window, visits, taken, meddled>>

-----------------------------------------------------------------------------
(* The window's calls for a team's session. *)

IsListed(f, p) ==       \* mutant: what the window was told is believed
  /\ p \in Targets(f) \cap Shared /\ Waiting(track[f][p]) # {}
IsDue(f, p) ==
  /\ ~ plan[f].paused /\ RoomOf(f) > 0 /\ p \in Targets(f) \cap Shared
  /\ Waiting(track[f][p]) # {} /\ InFlight(track[f][p]) = {} /\ p \notin Open

Claims(f, p) ==
  /\ IsDue(f, p)
  /\ track' = [track EXCEPT ![f][p] = Marked(@, FirstOf(Waiting(@)), "running")]
  /\ window' = window \cup {<<f, p>>}
  /\ UNCHANGED <<plan, browser, job, ending, loop, visits, taken, meddled>>

WindowStarts(s) ==
  LET p == s[2] IN
  /\ s \in window /\ window' = window \ {s}
  /\ browser[p] = "none" /\ ~ Busy(p) /\ browser' = [browser EXCEPT ![p] = "farm"]
  /\ job' = [job EXCEPT ![p] = [at |-> "running", by |-> s[1], stop |-> FALSE,
                                close |-> TRUE, page |-> TRUE]]
  /\ UNCHANGED <<plan, track, ending, loop, visits, taken, meddled>>

WindowFails(s) ==
  /\ s \in window /\ window' = window \ {s} /\ Fails(s)
  /\ UNCHANGED <<plan, browser, job, ending, loop, visits, taken, meddled>>

WindowGone ==
  /\ Meddles
  /\ window # {} /\ window' = {}
  /\ UNCHANGED <<plan, track, browser, job, ending, loop, visits, taken>>

-----------------------------------------------------------------------------
(* A run, which fails when its browser goes. *)

RunEnds(p, fine, some) ==
  LET j == job[p] IN
  /\ Busy(p) /\ fine \in {FALSE, j.page}
  /\ some \in {FALSE, IF j.by = NoPlan THEN TRUE ELSE visits[j.by][p] < Visits}
  /\ job' = [job EXCEPT ![p] = NoJob]
  /\ visits' = IF some /\ j.by # NoPlan THEN [visits EXCEPT ![j.by][p] = @ + 1] ELSE visits
  /\ ending' = ending \cup {[of |-> p, by |-> j.by, read |-> some, reported |-> FALSE,
       close |-> j.close /\ ~ j.stop /\ (fine \/ j.by # NoPlan)]}
  /\ UNCHANGED <<plan, track, browser, loop, window, taken, meddled>>

(* Whichever session of the profile is in flight is the one it ends. *)
Reports(e) ==
  /\ e \in ending /\ ~ e.reported
  /\ ending' = (ending \ {e}) \cup {[e EXCEPT !.reported = TRUE]}
  /\ track' = IF e.by = NoPlan THEN track
              ELSE [track EXCEPT ![e.by][e.of] =
                      Ended(@, IF e.read THEN "done" ELSE "failed")]
  /\ UNCHANGED <<plan, browser, job, loop, window, visits, taken, meddled>>

(* Agent::stop, of whatever browser the profile has by now. *)
ClosesUp(e) ==
  /\ e \in ending /\ e.reported /\ ending' = ending \ {e}
  /\ IF e.close
     THEN /\ browser' = [browser EXCEPT ![e.of] = "none"] /\ job' = Unpaged(e.of)
          /\ taken' = IF e.by # NoPlan /\ browser[e.of] = "somebody"
                      THEN taken \cup {e.of} ELSE taken
     ELSE UNCHANGED <<browser, job, taken>>
  /\ UNCHANGED <<plan, track, loop, window, visits, meddled>>

(* Farms::load: what was in flight is over. *)
AgentRestarts ==
  /\ Meddles
  /\ track' = [f \in Plan |-> [p \in Farmed |-> Ended(track[f][p], "failed")]]
  /\ browser' = [p \in Farmed |-> "none"] /\ job' = [p \in Farmed |-> NoJob]
  /\ ending' = {} /\ loop' = [at |-> "asleep", seen |-> {}, starts |-> {}]
  /\ UNCHANGED <<plan, window, visits, taken>>

FarmNext ==
  \/ \E f \in Plan : Drops(f) \/ Pauses(f) \/ (\E who \in Lists : Makes(f, who))
  \/ \E f \in Plan, p \in Farmed : SetsStage(f, p) \/ Claims(f, p)
  \/ \E p \in Farmed : SomebodyOpens(p) \/ SomebodyCloses(p) \/ StopsRun(p)
  \/ \E p \in Farmed, closing \in BOOLEAN : WarmsByHand(p, closing)
  \/ Wakes \/ Sleeps \/ WindowGone \/ AgentRestarts
  \/ \E sign \in [Farmed -> Signs], n \in 1 .. Sittings : Passes(sign, n)
  \/ \E s \in loop.starts : Launches(s) \/ LaunchFails(s) \/ Warms(s)
  \/ \E s \in window : WindowStarts(s) \/ WindowFails(s)
  \/ \E p \in Farmed, fine, some \in BOOLEAN : RunEnds(p, fine, some)
  \/ \E e \in ending : Reports(e) \/ ClosesUp(e)

FarmSpec == FarmInit /\ [][FarmNext]_farmVars

-----------------------------------------------------------------------------
FarmTypeOK ==
  /\ \A f \in Plan : Targets(f) \subseteq Farmed /\ plan[f].paused \in BOOLEAN
  /\ \A f \in Plan, p \in Farmed :
       /\ track[f][p].days \in 0 .. Days /\ track[f][p].open \in BOOLEAN
       /\ track[f][p].sessions \in
            SeqOf({"waiting", "running", "done", "failed", "skipped"}, Sittings)
  /\ browser \in [Farmed -> {"none", "somebody", "farm"}]
  /\ \A p \in Farmed : job[p].at \in {"none", "running"} /\ job[p].by \in Plan \cup {NoPlan}
  /\ \A e \in ending : e.of \in Farmed /\ e.by \in Plan \cup {NoPlan}
  /\ loop.at \in {"asleep", "passing", "starting", "warming"} /\ loop.seen \subseteq Farmed
  /\ taken \subseteq Farmed

(* However the loop and the windows take turns, a plan has no more sessions *)
(* in flight than it may, a profile never two, and no profile is in two     *)
(* plans that are not finished (farm.rs 33-35, 250-256, 345-347); and a day *)
(* that counts is one on which a run of the plan read something, late and   *)
(* lost reports, restarts and pauses or not (farm.rs 395-399).              *)
FarmBounded ==
  /\ \A f \in Plan : PlanInFlight(f) <= AtOnce
  /\ \A f \in Plan, p \in Farmed : Cardinality(InFlight(track[f][p])) <= 1
  /\ \A f, g \in Plan : f # g /\ Made(f) /\ Made(g) /\ ~ Finished(f) /\ ~ Finished(g)
       => Targets(f) \cap Targets(g) = {}
  /\ \A f \in Plan, p \in Farmed : track[f][p].days <= visits[f][p]

(* A farming run closes no browser that somebody else opened (farm.rs       *)
(* 28-30: an open profile is the operator's).                               *)
OperatorKeeps == taken = {}
=============================================================================
