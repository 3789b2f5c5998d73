-------------------------- MODULE AgentSupervisor --------------------------
(***************************************************************************)
(* The agent's supervisor (agent/src/ipc.rs): the map of running browsers, *)
(* and the tasks that work on it at the same time.                         *)
(*                                                                         *)
(* Every connection of the socket, every call of the local HTTP API and    *)
(* the farming loop is a task of its own.  A task launches a profile or    *)
(* stops one; the reaper is one more task, which looks every two seconds   *)
(* for browsers that have gone and stops their profiles.  The map is under *)
(* a mutex, but the mutex is released at once: a launch checks the map     *)
(* when it begins and adds its entry when it ends, seconds or minutes      *)
(* later, and a stop takes the entry out first and then waits for the      *)
(* browser and for the upload.  An action here is what a task does between *)
(* two awaits.                                                             *)
(*                                                                         *)
(* Launches are numbered.  A launch owns a relay (a listening task), a     *)
(* heartbeat if the profile is a team's, and a browser process.            *)
(***************************************************************************)
EXTENDS Integers

CONSTANTS
    Profile,        \* the profiles of this machine
    Team,           \* those that come from a server and go back to it
    Caller,         \* the tasks that serve calls
    Reaper,         \* the reaper's task
    None,           \* no profile
    StoreFails,     \* whether the local database may refuse a write
    MaxLaunches     \* bound: launches begun

ASSUME SupervisorAssumption ==
    /\ Team \subseteq Profile
    /\ Reaper \notin Caller
    /\ None \notin Profile
    /\ StoreFails \in BOOLEAN
    /\ MaxLaunches \in Nat

VARIABLES
    alive,          \* the agent process is up
    exiting,        \* it will exit in 300 ms
    exitWhenIdle,   \* it is to exit once nothing is open
    running,        \* running[p]: the launch whose entry the map holds, or 0
    launches,       \* launches begun so far
    of,             \* of[l]: the profile launch l opens
    browser,        \* browser[l]: "none", "open" or "exited"
    relay,          \* relay[l]: its relay is listening
    beat,           \* beat[l]: its lock is being renewed
    settled,        \* settled[l]: its session was pushed, or marked unsent
    pc,             \* where each task is
    arg,            \* the profile it works on
    mine,           \* the launch it is making, or 0
    taken,          \* the launch it took out of the map to stop, or 0
    errand,         \* it launched to drive the page and close again
    gone            \* the profiles the reaper has still to stop

agentVars == <<alive, exiting, exitWhenIdle>>
startVars == <<launches, of>>
partVars  == <<browser, relay, beat, settled>>
taskVars  == <<pc, arg, mine, taken, errand, gone>>
vars == <<alive, exiting, exitWhenIdle, running, launches, of, browser, relay, beat,
          settled, pc, arg, mine, taken, errand, gone>>

Launch == 1..MaxLaunches
Task == Caller \cup {Reaper}

Starting == {"starting", "relayed", "spawned"}
Stopping == {"stopping", "closing", "pushing"}
PC == {"idle", "driving", "next"} \cup Starting \cup Stopping

\* A task has a launch in the making, and one taken out, only where it needs it;
\* the reaper launches nothing.
TaskOK ==
    /\ mine[Reaper] = 0
    /\ \A t \in Task :
          /\ (taken[t] # 0) <=> (pc[t] \in {"closing", "pushing"})
          /\ pc[t] \in Starting => mine[t] # 0
          /\ mine[t] # 0 => pc[t] \in Starting \cup Stopping
          /\ pc[t] \in Starting \cup Stopping \cup {"driving"} => arg[t] \in Profile

AgentType ==
    /\ alive \in BOOLEAN
    /\ exiting \in BOOLEAN
    /\ exitWhenIdle \in BOOLEAN
    /\ running \in [Profile -> 0..MaxLaunches]

LaunchType ==
    /\ launches \in 0..MaxLaunches
    /\ of \in [Launch -> Profile \cup {None}]
    /\ browser \in [Launch -> {"none", "open", "exited"}]
    /\ relay \in [Launch -> BOOLEAN]
    /\ beat \in [Launch -> BOOLEAN]
    /\ settled \in [Launch -> BOOLEAN]

TaskType ==
    /\ pc \in [Task -> PC]
    /\ arg \in [Task -> Profile \cup {None}]
    /\ mine \in [Task -> 0..MaxLaunches]
    /\ taken \in [Task -> 0..MaxLaunches]
    /\ errand \in [Task -> BOOLEAN]
    /\ gone \subseteq Profile

TypeOK == AgentType /\ LaunchType /\ TaskType /\ TaskOK

Init ==
    /\ alive = TRUE
    /\ exiting = FALSE
    /\ exitWhenIdle = FALSE
    /\ running = [p \in Profile |-> 0]
    /\ launches = 0
    /\ of = [l \in Launch |-> None]
    /\ browser = [l \in Launch |-> "none"]
    /\ relay = [l \in Launch |-> FALSE]
    /\ beat = [l \in Launch |-> FALSE]
    /\ settled = [l \in Launch |-> FALSE]
    /\ pc = [t \in Task |-> "idle"]
    /\ arg = [t \in Task |-> None]
    /\ mine = [t \in Task |-> 0]
    /\ taken = [t \in Task |-> 0]
    /\ errand = [t \in Task |-> FALSE]
    /\ gone = {}

Goto(t, where) == pc' = [pc EXCEPT ![t] = where]

\* Where a task goes on after a stop: the reaper to its next profile, a launch
\* that tidied up to its own business, any other call to its answer.
AfterStop(t) ==
    IF t = Reaper THEN "next" ELSE IF mine[t] # 0 THEN "starting" ELSE "idle"

----------------------------------------------------------------------------
(* A launch.                                                               *)

\* The request arrives.  A team launch starts renewing its lock at once; then
\* the map is looked at.  Launches made to drive a page (a cookie exchange, the
\* farm, the mirror) are of local profiles, and only a launch asked for by name
\* cancels a pending exit.
Begin(t, p, e) ==
    /\ alive
    /\ t \in Caller
    /\ pc[t] = "idle"
    /\ launches < MaxLaunches
    /\ e => p \notin Team
    /\ launches' = launches + 1
    /\ of' = [of EXCEPT ![launches + 1] = p]
    /\ beat' = [beat EXCEPT ![launches + 1] = p \in Team]
    /\ arg' = [arg EXCEPT ![t] = p]
    /\ mine' = [mine EXCEPT ![t] = launches + 1]
    /\ errand' = [errand EXCEPT ![t] = e]
    /\ exitWhenIdle' = (exitWhenIdle /\ e)
    /\ UNCHANGED <<alive, exiting, running, browser, relay, settled, taken, gone>>

BeginClosed(t, p, e) ==
    /\ running[p] = 0
    /\ Begin(t, p, e)
    /\ Goto(t, "starting")

\* Mutant: the dead entry is dropped and the launch goes on.
BeginDropping(t, p, e) ==
    /\ running[p] # 0
    /\ browser[running[p]] = "exited"
    /\ alive
    /\ t \in Caller
    /\ pc[t] = "idle"
    /\ launches < MaxLaunches
    /\ e => p \notin Team
    /\ launches' = launches + 1
    /\ of' = [of EXCEPT ![launches + 1] = p]
    /\ beat' = [beat EXCEPT ![launches + 1] = p \in Team, ![running[p]] = FALSE]
    /\ relay' = [relay EXCEPT ![running[p]] = FALSE]
    /\ running' = [running EXCEPT ![p] = 0]
    /\ arg' = [arg EXCEPT ![t] = p]
    /\ mine' = [mine EXCEPT ![t] = launches + 1]
    /\ errand' = [errand EXCEPT ![t] = e]
    /\ exitWhenIdle' = (exitWhenIdle /\ e)
    /\ Goto(t, "starting")
    /\ UNCHANGED <<alive, exiting, browser, settled, taken, gone>>

\* Closed from its own window and not yet reaped: the whole teardown first.
BeginUnreaped(t, p, e) ==
    /\ running[p] # 0
    /\ browser[running[p]] = "exited"
    /\ Begin(t, p, e)
    /\ Goto(t, "stopping")

\* Any `?` before the relay is up.  The guard aborts the heartbeat.
FailEarly(t) ==
    /\ alive
    /\ pc[t] = "starting"
    /\ beat' = [beat EXCEPT ![mine[t]] = FALSE]
    /\ mine' = [mine EXCEPT ![t] = 0]
    /\ errand' = [errand EXCEPT ![t] = FALSE]
    /\ Goto(t, "idle")
    /\ UNCHANGED <<agentVars, running, startVars, browser, relay, settled, arg, taken, gone>>

ServeRelay(t) ==
    /\ alive
    /\ pc[t] = "starting"
    /\ relay' = [relay EXCEPT ![mine[t]] = TRUE]
    /\ Goto(t, "relayed")
    /\ UNCHANGED <<agentVars, running, startVars, browser, beat, settled, arg, mine, taken, errand, gone>>

\* Any `?` after it: the bundle, the cookie key, the directory, the spawn.  The
\* relay's handle is dropped, which detaches its task.
FailLate(t) ==
    /\ alive
    /\ pc[t] = "relayed"
    /\ beat' = [beat EXCEPT ![mine[t]] = FALSE]
    /\ mine' = [mine EXCEPT ![t] = 0]
    /\ errand' = [errand EXCEPT ![t] = FALSE]
    /\ Goto(t, "idle")
    /\ UNCHANGED <<agentVars, running, startVars, browser, relay, settled, arg, taken, gone>>

SpawnBrowser(t) ==
    /\ alive
    /\ pc[t] = "relayed"
    /\ browser' = [browser EXCEPT ![mine[t]] = "open"]
    /\ Goto(t, "spawned")
    /\ UNCHANGED <<agentVars, running, startVars, relay, beat, settled, arg, mine, taken, errand, gone>>

\* touch_opened, of a local profile, after the spawn.
FailSpawned(t) ==
    /\ alive
    /\ StoreFails
    /\ pc[t] = "spawned"
    /\ arg[t] \notin Team
    /\ mine' = [mine EXCEPT ![t] = 0]
    /\ errand' = [errand EXCEPT ![t] = FALSE]
    /\ Goto(t, "idle")
    /\ UNCHANGED <<agentVars, running, startVars, partVars, arg, taken, gone>>

\* Mutant: no Drop, so dropping the handles detaches the tasks.
DetachedDrop(l, k) == FALSE

\* The tasks of an entry that is dropped: its Drop aborts both.
Dropped(l, k) == k # 0 /\ l = k

\* The entry goes into the map; one that was there is dropped.
Insert(t) ==
    /\ alive
    /\ pc[t] = "spawned"
    /\ running' = [running EXCEPT ![arg[t]] = mine[t]]
    /\ relay' = [l \in Launch |-> relay[l] /\ ~Dropped(l, running[arg[t]])]
    /\ beat' = [l \in Launch |-> beat[l] /\ ~Dropped(l, running[arg[t]])]
    /\ mine' = [mine EXCEPT ![t] = 0]
    /\ errand' = [errand EXCEPT ![t] = FALSE]
    /\ Goto(t, IF errand[t] THEN "driving" ELSE "idle")
    /\ UNCHANGED <<agentVars, startVars, browser, settled, arg, taken, gone>>

\* The page was driven, well or badly: the profile is closed again.
ErrandEnds(t) ==
    /\ alive
    /\ pc[t] = "driving"
    /\ Goto(t, "stopping")
    /\ UNCHANGED <<agentVars, running, startVars, partVars, arg, mine, taken, errand, gone>>

\* The browser wrote no debugging endpoint: the call returns at once.
ErrandFails(t) ==
    /\ alive
    /\ pc[t] = "driving"
    /\ Goto(t, "idle")
    /\ UNCHANGED <<agentVars, running, startVars, partVars, arg, mine, taken, errand, gone>>

----------------------------------------------------------------------------
(* A stop.                                                                 *)

CallStop(t, p) ==
    /\ alive
    /\ t \in Caller
    /\ pc[t] = "idle"
    /\ arg' = [arg EXCEPT ![t] = p]
    /\ Goto(t, "stopping")
    /\ UNCHANGED <<agentVars, running, startVars, partVars, mine, taken, errand, gone>>

\* Nothing is running under that name: another stop was quicker, or nobody
\* launched it.
StopsNothing(t) ==
    /\ alive
    /\ pc[t] = "stopping"
    /\ running[arg[t]] = 0
    /\ Goto(t, AfterStop(t))
    /\ UNCHANGED <<agentVars, running, startVars, partVars, arg, mine, taken, errand, gone>>

\* Mutant: the entry stays in the map until the browser has gone.
ReadsEntry(t) ==
    /\ alive
    /\ pc[t] = "stopping"
    /\ running[arg[t]] # 0
    /\ taken' = [taken EXCEPT ![t] = running[arg[t]]]
    /\ Goto(t, "closing")
    /\ UNCHANGED <<agentVars, running, startVars, partVars, arg, mine, errand, gone>>

\* The entry leaves the map before the browser and the upload are waited for.
TakesEntry(t) ==
    /\ alive
    /\ pc[t] = "stopping"
    /\ running[arg[t]] # 0
    /\ taken' = [taken EXCEPT ![t] = running[arg[t]]]
    /\ running' = [running EXCEPT ![arg[t]] = 0]
    /\ Goto(t, "closing")
    /\ UNCHANGED <<agentVars, startVars, partVars, arg, mine, errand, gone>>

\* Mutant: the relay is left to its dropped handle.
ClosesBrowserOnly(t) ==
    /\ alive
    /\ pc[t] = "closing"
    /\ browser' = [browser EXCEPT ![taken[t]] = "exited"]
    /\ beat' = [beat EXCEPT ![taken[t]] = FALSE]
    /\ \/ /\ arg[t] \in Team
          /\ taken' = taken
          /\ Goto(t, "pushing")
       \/ /\ arg[t] \notin Team
          /\ taken' = [taken EXCEPT ![t] = 0]
          /\ Goto(t, AfterStop(t))
    /\ UNCHANGED <<agentVars, running, startVars, relay, settled, arg, mine, errand, gone>>

\* The browser exits when asked, or is killed after ten seconds; its heartbeat
\* and its relay are aborted with it.
ClosesBrowser(t) ==
    /\ alive
    /\ pc[t] = "closing"
    /\ browser' = [browser EXCEPT ![taken[t]] = "exited"]
    /\ relay' = [relay EXCEPT ![taken[t]] = FALSE]
    /\ beat' = [beat EXCEPT ![taken[t]] = FALSE]
    /\ \/ /\ arg[t] \in Team
          /\ taken' = taken
          /\ Goto(t, "pushing")
       \/ /\ arg[t] \notin Team
          /\ taken' = [taken EXCEPT ![t] = 0]
          /\ Goto(t, AfterStop(t))
    /\ UNCHANGED <<agentVars, running, startVars, settled, arg, mine, errand, gone>>

\* The upload is answered or given up, the session recorded as pushed or as
\* unsent, and the lock released.
Settles(t) ==
    /\ alive
    /\ pc[t] = "pushing"
    /\ settled' = [settled EXCEPT ![taken[t]] = TRUE]
    /\ taken' = [taken EXCEPT ![t] = 0]
    /\ Goto(t, AfterStop(t))
    /\ UNCHANGED <<agentVars, running, startVars, browser, relay, beat, arg, mine, errand, gone>>

----------------------------------------------------------------------------
(* The reaper, and the end of the agent.                                   *)

\* The person closes the window, or the browser crashes.
BrowserExits(l) ==
    /\ browser[l] = "open"
    /\ browser' = [browser EXCEPT ![l] = "exited"]
    /\ UNCHANGED <<agentVars, running, startVars, relay, beat, settled, taskVars>>

Exited(p) == running[p] # 0 /\ browser[running[p]] = "exited"

\* Mutant: looking takes the dead entries out of the map.
ReaperForgets ==
    /\ alive
    /\ pc[Reaper] = "idle"
    /\ running' = [p \in Profile |-> IF Exited(p) THEN 0 ELSE running[p]]
    /\ Goto(Reaper, "next")
    /\ UNCHANGED <<agentVars, startVars, partVars, arg, mine, taken, errand, gone>>

\* A snapshot of the profiles whose browser has gone.
ReaperLooks ==
    /\ alive
    /\ pc[Reaper] = "idle"
    /\ gone' = {p \in Profile : Exited(p)}
    /\ Goto(Reaper, "next")
    /\ UNCHANGED <<agentVars, running, startVars, partVars, arg, mine, taken, errand>>

\* One after another, in the order of the snapshot it took.
ReaperStops ==
    /\ alive
    /\ pc[Reaper] = "next"
    /\ \E p \in gone :
          /\ gone' = gone \ {p}
          /\ arg' = [arg EXCEPT ![Reaper] = p]
    /\ Goto(Reaper, "stopping")
    /\ UNCHANGED <<agentVars, running, startVars, partVars, mine, taken, errand>>

\* No entry of the map has a browser that is alive.
Idle == \A p \in Profile : running[p] # 0 => Exited(p)

\* The process ends, with every task in it; the browsers are not its threads.
Dies ==
    /\ alive' = FALSE
    /\ relay' = [l \in Launch |-> FALSE]
    /\ beat' = [l \in Launch |-> FALSE]
    /\ running' = [p \in Profile |-> 0]
    /\ pc' = [t \in Task |-> "idle"]
    /\ mine' = [t \in Task |-> 0]
    /\ taken' = [t \in Task |-> 0]
    /\ errand' = [t \in Task |-> FALSE]
    /\ gone' = {}
    /\ UNCHANGED <<exiting, exitWhenIdle, startVars, browser, settled, arg>>

ReaperEnds ==
    /\ alive
    /\ pc[Reaper] = "next"
    /\ gone = {}
    /\ \/ exitWhenIdle /\ Idle /\ Dies
       \/ /\ ~(exitWhenIdle /\ Idle)
          /\ Goto(Reaper, "idle")
          /\ UNCHANGED <<agentVars, running, startVars, partVars, arg, mine, taken, errand, gone>>

\* agent.shutdown with when_idle: the shell is quitting.
ShellQuits ==
    /\ alive
    /\ exiting' = (exiting \/ Idle)
    /\ exitWhenIdle' = (exitWhenIdle \/ ~Idle)
    /\ UNCHANGED <<alive, running, startVars, partVars, taskVars>>

\* agent.shutdown without it: the application is about to be updated.
Shutdown ==
    /\ alive
    /\ \A p \in Profile : running[p] = 0
    /\ exiting' = TRUE
    /\ UNCHANGED <<alive, exitWhenIdle, running, startVars, partVars, taskVars>>

\* The shell asks for the status, or for a launch that is refused because the
\* browser is open: either cancels the exit that waits for the last profile.
CancelExit ==
    /\ alive
    /\ exitWhenIdle' = FALSE
    /\ UNCHANGED <<alive, exiting, running, startVars, partVars, taskVars>>

ExitNow == alive /\ exiting /\ Dies

----------------------------------------------------------------------------
LaunchStep(t) ==
    \/ FailEarly(t)
    \/ ServeRelay(t)
    \/ FailLate(t)
    \/ SpawnBrowser(t)
    \/ FailSpawned(t)
    \/ Insert(t)
    \/ ErrandEnds(t)
    \/ ErrandFails(t)

StopStep(t) ==
    \/ StopsNothing(t)
    \/ TakesEntry(t)
    \/ ClosesBrowser(t)
    \/ Settles(t)

ReaperStep == ReaperLooks \/ ReaperStops \/ ReaperEnds

ExitStep == ShellQuits \/ Shutdown \/ CancelExit \/ ExitNow

Next ==
    \/ \E t \in Caller, p \in Profile :
          \/ \E e \in BOOLEAN : BeginClosed(t, p, e) \/ BeginUnreaped(t, p, e)
          \/ CallStop(t, p)
    \/ \E t \in Task : LaunchStep(t) \/ StopStep(t)
    \/ \E l \in Launch : BrowserExits(l)
    \/ ReaperStep
    \/ ExitStep

Spec == Init /\ [][Next]_vars

----------------------------------------------------------------------------
(* Properties.                                                             *)

\* What the agent has a launch by: its entry in the map, the launch that is
\* making it, or the stop that took it out.
InMap(l) == of[l] # None /\ running[of[l]] = l
Held(l, t) == mine[t] = l \/ taken[t] = l
InHand(l) == InMap(l) \/ \E t \in Task : Held(l, t)

\* A launch has one owner: no two stops tear down the same browser or upload
\* the same session twice, and no entry is in the map while its stop runs.
OneOwner ==
    \A l \in Launch :
       /\ InMap(l) => \A t \in Task : ~Held(l, t)
       /\ \A t, u \in Task : Held(l, t) /\ Held(l, u) => t = u

\* A lock is renewed only for a launch the agent has in hand: a browser that
\* closed, failed to start or lost its entry never keeps its profile locked.
BeatsInHand == \A l \in Launch : beat[l] => InHand(l)

Unsent(l) == of[l] \in Team /\ browser[l] = "exited" /\ ~settled[l]

\* A browser that is open and a session that is not yet sent are in hand, so
\* that the reaper or a stop will come to them.
Managed ==
    alive => \A l \in Launch : browser[l] = "open" \/ Unsent(l) => InHand(l)

\* No profile directory has two browsers on it ("two Chromiums on one
\* user-data-dir is how a cookie jar gets corrupted", Running.ws_endpoint).
OneBrowserEach ==
    \A l, k \in Launch :
       browser[l] = "open" /\ browser[k] = "open" /\ of[l] = of[k] => l = k

Fairness ==
    /\ \A t \in Task : WF_vars(LaunchStep(t)) /\ WF_vars(StopStep(t))
    /\ WF_vars(ReaperStep)

FairSpec == Spec /\ Fairness

\* A team session whose browser has gone is pushed, or recorded as unsent, if
\* the agent lives.
SessionsSettle == \A l \in Launch : Unsent(l) ~> settled[l] \/ ~alive

\* A browser that has gone takes its relay with it.
RelaysGo == \A l \in Launch : browser[l] = "exited" ~> ~relay[l]
============================================================================
