----------------------- MODULE AgentSupervisorProofs -----------------------
(***************************************************************************)
(* Theorems about AgentSupervisor, for every set of profiles and callers   *)
(* and every number of launches.                                           *)
(***************************************************************************)
EXTENDS AgentSupervisor, TLAPS

USE DEF Goto, agentVars, startVars, partVars, taskVars, Task, Launch, Starting, Stopping, PC

----------------------------------------------------------------------------
(* Types, and what a task holds where.                                     *)

\* The agent starts with an empty map and every task idle (ipc.rs, serve).
THEOREM InitTypeOK == Init => TypeOK
<1> SUFFICES ASSUME Init PROVE TypeOK
  OBVIOUS
<1> USE SupervisorAssumption DEF Init
<1>1. AgentType
  <2>1. running \in [Profile -> 0..MaxLaunches] OBVIOUS
  <2>2. alive \in BOOLEAN /\ exiting \in BOOLEAN /\ exitWhenIdle \in BOOLEAN OBVIOUS
  <2> QED BY <2>1, <2>2 DEF AgentType
<1>2. LaunchType BY DEF LaunchType
<1>3. TaskType BY DEF TaskType
<1>4. TaskOK BY DEF TaskOK
<1> QED BY <1>1, <1>2, <1>3, <1>4 DEF TypeOK

\* After a stop, only a launch that tidied up first goes on launching.
LEMMA AfterFact ==
    ASSUME NEW t \in Task, mine[Reaper] = 0
    PROVE  /\ AfterStop(t) \in {"idle", "next", "starting"}
           /\ mine[t] # 0 <=> AfterStop(t) = "starting"
  BY DEF AfterStop

\* What a task does between two awaits keeps every type: in particular a task
\* holds a launch in the making, or one taken out of the map, only where the
\* code has one in scope.
THEOREM NextTypeOK == TypeOK /\ [Next]_vars => TypeOK'
<1> SUFFICES ASSUME TypeOK, [Next]_vars PROVE TypeOK'
  OBVIOUS
<1> USE SupervisorAssumption DEF TypeOK
<1>1. ASSUME NEW t \in Caller, NEW p \in Profile, NEW e \in BOOLEAN, BeginClosed(t, p, e) PROVE TypeOK'
  <2>1. AgentType' BY <1>1 DEF AgentType, BeginClosed, Begin
  <2>2. LaunchType' BY <1>1 DEF LaunchType, BeginClosed, Begin
  <2>3. TaskType' BY <1>1 DEF TaskType, LaunchType, BeginClosed, Begin
  <2>4. TaskOK' BY <1>1 DEF TaskOK, LaunchType, TaskType, BeginClosed, Begin
  <2> QED BY <2>1, <2>2, <2>3, <2>4
<1>2. ASSUME NEW t \in Caller, NEW p \in Profile, NEW e \in BOOLEAN, BeginUnreaped(t, p, e) PROVE TypeOK'
  <2>1. AgentType' BY <1>2 DEF AgentType, BeginUnreaped, Begin
  <2>2. LaunchType' BY <1>2 DEF LaunchType, BeginUnreaped, Begin
  <2>3. TaskType' BY <1>2 DEF TaskType, LaunchType, BeginUnreaped, Begin
  <2>4. TaskOK' BY <1>2 DEF TaskOK, TaskType, BeginUnreaped, Begin
  <2> QED BY <2>1, <2>2, <2>3, <2>4
<1>3. ASSUME NEW t \in Caller, NEW p \in Profile, CallStop(t, p) PROVE TypeOK'
  <2>1. AgentType' BY <1>3 DEF AgentType, CallStop
  <2>2. LaunchType' BY <1>3 DEF LaunchType, CallStop
  <2>3. TaskType' BY <1>3 DEF TaskType, CallStop
  <2>4. TaskOK' BY <1>3 DEF TaskOK, TaskType, CallStop
  <2> QED BY <2>1, <2>2, <2>3, <2>4
<1>4. ASSUME NEW t \in Task, LaunchStep(t) PROVE TypeOK'
  <2>1. CASE FailEarly(t)
    <3>1. AgentType' BY <2>1 DEF AgentType, FailEarly
    <3>2. LaunchType' BY <2>1 DEF LaunchType, FailEarly
    <3>3. TaskType' BY <2>1 DEF TaskType, FailEarly
    <3>4. TaskOK' BY <2>1 DEF TaskOK, TaskType, FailEarly
    <3> QED BY <3>1, <3>2, <3>3, <3>4
  <2>2. CASE ServeRelay(t)
    <3>1. AgentType' BY <2>2 DEF AgentType, ServeRelay
    <3>2. LaunchType' BY <2>2 DEF LaunchType, ServeRelay
    <3>3. TaskType' BY <2>2 DEF TaskType, ServeRelay
    <3>4. TaskOK' BY <2>2 DEF TaskOK, ServeRelay
    <3> QED BY <3>1, <3>2, <3>3, <3>4
  <2>3. CASE FailLate(t)
    <3>1. AgentType' BY <2>3 DEF AgentType, FailLate
    <3>2. LaunchType' BY <2>3 DEF LaunchType, FailLate
    <3>3. TaskType' BY <2>3 DEF TaskType, FailLate
    <3>4. TaskOK' BY <2>3 DEF TaskOK, TaskType, FailLate
    <3> QED BY <3>1, <3>2, <3>3, <3>4
  <2>4. CASE SpawnBrowser(t)
    <3>1. AgentType' BY <2>4 DEF AgentType, SpawnBrowser
    <3>2. LaunchType' BY <2>4 DEF LaunchType, SpawnBrowser
    <3>3. TaskType' BY <2>4 DEF TaskType, SpawnBrowser
    <3>4. TaskOK' BY <2>4 DEF TaskOK, SpawnBrowser
    <3> QED BY <3>1, <3>2, <3>3, <3>4
  <2>5. CASE FailSpawned(t)
    <3>1. AgentType' BY <2>5 DEF AgentType, FailSpawned
    <3>2. LaunchType' BY <2>5 DEF LaunchType, FailSpawned
    <3>3. TaskType' BY <2>5 DEF TaskType, FailSpawned
    <3>4. TaskOK' BY <2>5 DEF TaskOK, TaskType, FailSpawned
    <3> QED BY <3>1, <3>2, <3>3, <3>4
  <2>6. CASE Insert(t)
    <3>1. AgentType' BY <2>6 DEF AgentType, TaskType, Insert
    <3>2. LaunchType' BY <2>6 DEF LaunchType, Insert
    <3>3. TaskType' BY <2>6 DEF TaskType, Insert
    <3>4. TaskOK' BY <2>6 DEF TaskOK, TaskType, Insert
    <3> QED BY <3>1, <3>2, <3>3, <3>4
  <2>7. CASE ErrandEnds(t)
    <3>1. AgentType' BY <2>7 DEF AgentType, ErrandEnds
    <3>2. LaunchType' BY <2>7 DEF LaunchType, ErrandEnds
    <3>3. TaskType' BY <2>7 DEF TaskType, ErrandEnds
    <3>4. TaskOK' BY <2>7 DEF TaskOK, ErrandEnds
    <3> QED BY <3>1, <3>2, <3>3, <3>4
  <2>8. CASE ErrandFails(t)
    <3>1. AgentType' BY <2>8 DEF AgentType, ErrandFails
    <3>2. LaunchType' BY <2>8 DEF LaunchType, ErrandFails
    <3>3. TaskType' BY <2>8 DEF TaskType, ErrandFails
    <3>4. TaskOK' BY <2>8 DEF TaskOK, ErrandFails
    <3> QED BY <3>1, <3>2, <3>3, <3>4
  <2> QED BY <1>4, <2>1, <2>2, <2>3, <2>4, <2>5, <2>6, <2>7, <2>8 DEF LaunchStep
<1>5. ASSUME NEW t \in Task, StopStep(t) PROVE TypeOK'
  <2>1. CASE StopsNothing(t)
    <3>1. AgentType' BY <2>1 DEF AgentType, StopsNothing
    <3>2. LaunchType' BY <2>1 DEF LaunchType, StopsNothing
    <3>3. TaskType' BY <2>1, AfterFact DEF TaskType, TaskOK, StopsNothing
    <3>4. TaskOK' BY <2>1, AfterFact DEF TaskOK, StopsNothing
    <3> QED BY <3>1, <3>2, <3>3, <3>4
  <2>2. CASE TakesEntry(t)
    <3>1. AgentType' BY <2>2 DEF AgentType, TaskOK, TakesEntry
    <3>2. LaunchType' BY <2>2 DEF LaunchType, TakesEntry
    <3>3. TaskType' BY <2>2 DEF TaskType, AgentType, TaskOK, TakesEntry
    <3>4. TaskOK' BY <2>2 DEF TaskOK, TaskType, TakesEntry
    <3> QED BY <3>1, <3>2, <3>3, <3>4
  <2>3. CASE ClosesBrowser(t)
    <3>1. AgentType' BY <2>3 DEF AgentType, ClosesBrowser
    <3>2. LaunchType' BY <2>3 DEF LaunchType, ClosesBrowser
    <3>3. TaskType'
      <4>1. pc' \in [Task -> PC] BY <2>3, AfterFact DEF TaskType, TaskOK, ClosesBrowser
      <4>2. taken' \in [Task -> 0..MaxLaunches] BY <2>3 DEF TaskType, ClosesBrowser
      <4> QED BY <2>3, <4>1, <4>2 DEF TaskType, ClosesBrowser
    <3>4. TaskOK' BY <2>3, AfterFact DEF TaskOK, AgentType, TaskType, ClosesBrowser
    <3> QED BY <3>1, <3>2, <3>3, <3>4
  <2>4. CASE Settles(t)
    <3>1. AgentType' BY <2>4 DEF AgentType, Settles
    <3>2. LaunchType' BY <2>4 DEF LaunchType, Settles
    <3>3. TaskType' BY <2>4, AfterFact DEF TaskType, TaskOK, Settles
    <3>4. TaskOK' BY <2>4, AfterFact DEF TaskOK, TaskType, Settles
    <3> QED BY <3>1, <3>2, <3>3, <3>4
  <2> QED BY <1>5, <2>1, <2>2, <2>3, <2>4 DEF StopStep
<1>6. ASSUME NEW l \in Launch, BrowserExits(l) PROVE TypeOK'
  <2>1. AgentType' BY <1>6 DEF AgentType, BrowserExits
  <2>2. LaunchType' BY <1>6 DEF LaunchType, BrowserExits
  <2>3. TaskType' BY <1>6 DEF TaskType, BrowserExits
  <2>4. TaskOK' BY <1>6 DEF TaskOK, BrowserExits
  <2> QED BY <2>1, <2>2, <2>3, <2>4
<1>7. CASE ReaperLooks
  <2>1. AgentType' BY <1>7 DEF AgentType, ReaperLooks
  <2>2. LaunchType' BY <1>7 DEF LaunchType, ReaperLooks
  <2>3. TaskType' BY <1>7 DEF TaskType, ReaperLooks
  <2>4. TaskOK' BY <1>7 DEF TaskOK, ReaperLooks
  <2> QED BY <2>1, <2>2, <2>3, <2>4
<1>8. CASE ReaperStops
  <2>1. AgentType' BY <1>8 DEF AgentType, ReaperStops
  <2>2. LaunchType' BY <1>8 DEF LaunchType, ReaperStops
  <2>3. TaskType' BY <1>8 DEF TaskType, ReaperStops
  <2>4. TaskOK' BY <1>8 DEF TaskOK, TaskType, ReaperStops
  <2> QED BY <2>1, <2>2, <2>3, <2>4
<1>9. CASE Dies
  <2>1. AgentType' BY <1>9 DEF AgentType, TaskType, TaskOK, Dies
  <2>2. LaunchType' BY <1>9 DEF LaunchType, Dies
  <2>3. TaskType' BY <1>9 DEF TaskType, Dies
  <2>4. TaskOK' BY <1>9 DEF TaskOK, Dies
  <2> QED BY <2>1, <2>2, <2>3, <2>4
<1>10. CASE ReaperEnds /\ ~Dies
  <2>1. AgentType' BY <1>10 DEF AgentType, ReaperEnds
  <2>2. LaunchType' BY <1>10 DEF LaunchType, ReaperEnds
  <2>3. TaskType' BY <1>10 DEF TaskType, ReaperEnds
  <2>4. TaskOK' BY <1>10 DEF TaskOK, AgentType, TaskType, ReaperEnds
  <2> QED BY <2>1, <2>2, <2>3, <2>4
<1>11. CASE ShellQuits \/ Shutdown \/ CancelExit
  <2>1. AgentType' BY <1>11 DEF AgentType, ShellQuits, Shutdown, CancelExit
  <2>2. LaunchType' BY <1>11 DEF LaunchType, ShellQuits, Shutdown, CancelExit
  <2>3. TaskType' BY <1>11 DEF TaskType, ShellQuits, Shutdown, CancelExit
  <2>4. TaskOK' BY <1>11 DEF TaskOK, ShellQuits, Shutdown, CancelExit
  <2> QED BY <2>1, <2>2, <2>3, <2>4
<1>12. CASE UNCHANGED vars
  <2>1. AgentType' BY <1>12 DEF AgentType, vars
  <2>2. LaunchType' BY <1>12 DEF LaunchType, vars
  <2>3. TaskType' BY <1>12 DEF TaskType, vars
  <2>4. TaskOK' BY <1>12 DEF TaskOK, vars
  <2> QED BY <2>1, <2>2, <2>3, <2>4
<1> QED
  BY <1>1, <1>2, <1>3, <1>4, <1>5, <1>6, <1>7, <1>8, <1>9, <1>10, <1>11, <1>12 DEF Next, ReaperStep, ReaperEnds, ExitStep, ExitNow

\* Every variable keeps its type, and every task has in hand what its place in
\* the code says.
THEOREM TypeCorrect == Spec => []TypeOK
  BY InitTypeOK, NextTypeOK, PTL DEF Spec

----------------------------------------------------------------------------
(* Who owns a launch.                                                      *)

\* A launch not begun yet is nobody's; only a team launch renews a lock.
LaunchInv ==
    \A l \in Launch :
       /\ l > launches => of[l] = None /\ ~beat[l]
       /\ beat[l] => of[l] \in Team

\* The map holds a profile's entry under the profile's own name.
EntryInv ==
    \A p \in Profile : running[p] # 0 => running[p] <= launches /\ of[running[p]] = p

\* A task works on launches of its own profile, and the heartbeat of a session on its way to the server has been aborted.
HeldInv ==
    \A t \in Task :
       /\ mine[t] # 0 => mine[t] <= launches /\ of[mine[t]] = arg[t]
       /\ taken[t] # 0 => taken[t] <= launches /\ of[taken[t]] = arg[t]
       /\ pc[t] = "pushing" => ~beat[taken[t]]

OwnerInv == LaunchInv /\ EntryInv /\ HeldInv /\ OneOwner /\ BeatsInHand

\* What a task does that takes no launch up and gives none away.
SameHands ==
    /\ UNCHANGED <<running, launches, of, beat, mine, taken>>
    /\ \A t \in Task :
          /\ arg'[t] = arg[t] \/ (mine[t] = 0 /\ taken[t] = 0)
          /\ pc'[t] = "pushing" => pc[t] = "pushing"

\* Starting a relay, spawning the browser, a call to stop, and the reaper's look
\* at the map leave every launch with its owner.
LEMMA HandsFrame ==
    ASSUME TypeOK, OwnerInv, SameHands PROVE OwnerInv'
<1> USE DEF SameHands, OwnerInv
<1>1. LaunchInv' BY DEF LaunchInv
<1>2. EntryInv' BY DEF EntryInv
<1>3. HeldInv' BY SupervisorAssumption DEF HeldInv
<1>4. OneOwner' BY DEF OneOwner, InMap, Held
<1>5. BeatsInHand' BY DEF BeatsInHand, InHand, InMap, Held
<1> QED BY <1>1, <1>2, <1>3, <1>4, <1>5

\* Taking an entry out of the map under its mutex, putting one in, and giving a
\* launch up each move a launch from one owner to one other or to none, and a
\* launch that ends up with none has had its heartbeat aborted.
THEOREM NextOwnerInv == TypeOK /\ OwnerInv /\ [Next]_vars => OwnerInv'
<1> SUFFICES ASSUME TypeOK, OwnerInv, [Next]_vars PROVE OwnerInv'
  OBVIOUS
<1> USE SupervisorAssumption
<1>1. ASSUME NEW t \in Caller, NEW p \in Profile, NEW e \in BOOLEAN, BeginClosed(t, p, e) PROVE OwnerInv'
  <2>1. LaunchInv' BY <1>1 DEF LaunchInv, BeginClosed, Begin, OwnerInv, TypeOK, LaunchType, TaskOK
  <2>2. EntryInv' BY <1>1 DEF EntryInv, BeginClosed, Begin, OwnerInv, TypeOK, AgentType, LaunchType
  <2>3. HeldInv' BY <1>1 DEF HeldInv, BeginClosed, Begin, OwnerInv, TypeOK, LaunchType, TaskType, TaskOK
  <2>4. OneOwner' BY <1>1 DEF OneOwner, BeginClosed, Begin, OwnerInv, TypeOK, LaunchType, InMap, Held, LaunchInv, HeldInv
  <2>5. BeatsInHand'
    <3> SUFFICES ASSUME NEW l \in Launch, beat'[l] PROVE InHand(l)'
      BY DEF BeatsInHand
    <3>1. CASE l = launches + 1
      <4>1. Held(l, t)' BY <1>1, <3>1 DEF Held, BeginClosed, Begin, TypeOK, TaskType
      <4> QED BY <4>1 DEF InHand
    <3>2. CASE l # launches + 1
      <4>1. beat[l] BY <1>1, <3>2 DEF BeginClosed, Begin
      <4>2. InMap(l) => InMap(l)' BY <1>1, <3>2 DEF InMap, BeginClosed, Begin
      <4>3. ASSUME NEW u \in Task, Held(l, u) PROVE InHand(l)'
        <5>1. Held(l, u)' BY <1>1, <4>3 DEF Held, BeginClosed, Begin, TypeOK, TaskOK
        <5> QED BY <5>1 DEF InHand
      <4> QED BY <4>1, <4>2, <4>3 DEF BeatsInHand, InHand, OwnerInv
    <3> QED BY <3>1, <3>2
  <2> QED BY <2>1, <2>2, <2>3, <2>4, <2>5 DEF OwnerInv
<1>2. ASSUME NEW t \in Caller, NEW p \in Profile, NEW e \in BOOLEAN, BeginUnreaped(t, p, e) PROVE OwnerInv'
  <2>1. LaunchInv' BY <1>2 DEF LaunchInv, BeginUnreaped, Begin, OwnerInv, TypeOK, LaunchType
  <2>2. EntryInv' BY <1>2 DEF EntryInv, BeginUnreaped, Begin, OwnerInv, TypeOK, AgentType, LaunchType
  <2>3. HeldInv' BY <1>2 DEF HeldInv, BeginUnreaped, Begin, OwnerInv, TypeOK, LaunchType, TaskType, TaskOK
  <2>4. OneOwner' BY <1>2 DEF OneOwner, BeginUnreaped, Begin, OwnerInv, TypeOK, LaunchType, InMap, Held, LaunchInv, EntryInv, HeldInv
  <2>5. BeatsInHand'
    <3> SUFFICES ASSUME NEW l \in Launch, beat'[l] PROVE InHand(l)'
      BY DEF BeatsInHand
    <3>1. CASE l = launches + 1
      <4>1. Held(l, t)' BY <1>2, <3>1 DEF Held, BeginUnreaped, Begin, TypeOK, TaskType
      <4> QED BY <4>1 DEF InHand
    <3>2. CASE l # launches + 1
      <4>1. beat[l] BY <1>2, <3>2 DEF BeginUnreaped, Begin
      <4>2. InMap(l) => InMap(l)' BY <1>2, <3>2 DEF InMap, BeginUnreaped, Begin
      <4>3. ASSUME NEW u \in Task, Held(l, u) PROVE InHand(l)'
        <5>1. Held(l, u)' BY <1>2, <4>3 DEF Held, BeginUnreaped, Begin, TypeOK, TaskOK
        <5> QED BY <5>1 DEF InHand
      <4> QED BY <4>1, <4>2, <4>3 DEF BeatsInHand, InHand, OwnerInv
    <3> QED BY <3>1, <3>2
  <2> QED BY <2>1, <2>2, <2>3, <2>4, <2>5 DEF OwnerInv
<1>3. ASSUME NEW t \in Caller, NEW p \in Profile, CallStop(t, p) PROVE OwnerInv'
  <2>1. SameHands BY <1>3 DEF CallStop, SameHands, TypeOK, TaskOK
  <2> QED BY <2>1, HandsFrame
<1>4. ASSUME NEW t \in Task, LaunchStep(t) PROVE OwnerInv'
  <2>1. CASE FailEarly(t)
    <3>1. LaunchInv' BY <2>1 DEF LaunchInv, FailEarly, OwnerInv
    <3>2. EntryInv' BY <2>1 DEF EntryInv, FailEarly, OwnerInv
    <3>3. HeldInv' BY <2>1 DEF HeldInv, FailEarly, OwnerInv
    <3>4. OneOwner' BY <2>1 DEF OneOwner, FailEarly, OwnerInv, InMap, Held
    <3>5. BeatsInHand'
      <4> SUFFICES ASSUME NEW l \in Launch, beat'[l] PROVE InHand(l)'
        BY DEF BeatsInHand
      <4>1. beat[l] /\ l # mine[t] BY <2>1 DEF FailEarly, TypeOK, LaunchType
      <4>2. InMap(l) => InMap(l)' BY <2>1 DEF InMap, FailEarly
      <4>3. ASSUME NEW u \in Task, Held(l, u) PROVE InHand(l)'
        <5>1. Held(l, u)' BY <2>1, <4>1, <4>3 DEF Held, FailEarly
        <5> QED BY <5>1 DEF InHand
      <4> QED BY <4>1, <4>2, <4>3 DEF BeatsInHand, InHand, OwnerInv
    <3> QED BY <3>1, <3>2, <3>3, <3>4, <3>5 DEF OwnerInv
  <2>2. CASE ServeRelay(t)
    <3>1. SameHands BY <2>2 DEF ServeRelay, SameHands
    <3> QED BY <3>1, HandsFrame
  <2>3. CASE FailLate(t)
    <3>1. LaunchInv' BY <2>3 DEF LaunchInv, FailLate, OwnerInv
    <3>2. EntryInv' BY <2>3 DEF EntryInv, FailLate, OwnerInv
    <3>3. HeldInv' BY <2>3 DEF HeldInv, FailLate, OwnerInv
    <3>4. OneOwner' BY <2>3 DEF OneOwner, FailLate, OwnerInv, InMap, Held
    <3>5. BeatsInHand'
      <4> SUFFICES ASSUME NEW l \in Launch, beat'[l] PROVE InHand(l)'
        BY DEF BeatsInHand
      <4>1. beat[l] /\ l # mine[t] BY <2>3 DEF FailLate, TypeOK, LaunchType
      <4>2. InMap(l) => InMap(l)' BY <2>3 DEF InMap, FailLate
      <4>3. ASSUME NEW u \in Task, Held(l, u) PROVE InHand(l)'
        <5>1. Held(l, u)' BY <2>3, <4>1, <4>3 DEF Held, FailLate
        <5> QED BY <5>1 DEF InHand
      <4> QED BY <4>1, <4>2, <4>3 DEF BeatsInHand, InHand, OwnerInv
    <3> QED BY <3>1, <3>2, <3>3, <3>4, <3>5 DEF OwnerInv
  <2>4. CASE SpawnBrowser(t)
    <3>1. SameHands BY <2>4 DEF SpawnBrowser, SameHands
    <3> QED BY <3>1, HandsFrame
  <2>5. CASE FailSpawned(t)
    <3>1. LaunchInv' BY <2>5 DEF LaunchInv, FailSpawned, OwnerInv
    <3>2. EntryInv' BY <2>5 DEF EntryInv, FailSpawned, OwnerInv
    <3>3. HeldInv' BY <2>5 DEF HeldInv, FailSpawned, OwnerInv
    <3>4. OneOwner' BY <2>5 DEF OneOwner, FailSpawned, OwnerInv, InMap, Held
    <3>5. BeatsInHand'
      <4> SUFFICES ASSUME NEW l \in Launch, beat'[l] PROVE InHand(l)'
        BY DEF BeatsInHand
      <4>1. beat[l] /\ l # mine[t] BY <2>5 DEF FailSpawned, OwnerInv, LaunchInv, HeldInv
      <4>2. InMap(l) => InMap(l)' BY <2>5 DEF InMap, FailSpawned
      <4>3. ASSUME NEW u \in Task, Held(l, u) PROVE InHand(l)'
        <5>1. Held(l, u)' BY <2>5, <4>1, <4>3 DEF Held, FailSpawned
        <5> QED BY <5>1 DEF InHand
      <4> QED BY <4>1, <4>2, <4>3 DEF BeatsInHand, InHand, OwnerInv
    <3> QED BY <3>1, <3>2, <3>3, <3>4, <3>5 DEF OwnerInv
  <2>6. CASE Insert(t)
    <3>1. LaunchInv' BY <2>6 DEF LaunchInv, Insert, OwnerInv
    <3>2. EntryInv' BY <2>6 DEF EntryInv, Insert, OwnerInv, HeldInv
    <3>3. HeldInv' BY <2>6 DEF HeldInv, Insert, OwnerInv, TypeOK, LaunchType, TaskType, TaskOK
    <3>4. OneOwner' BY <2>6 DEF OneOwner, Insert, OwnerInv, TypeOK, TaskType, TaskOK, InMap, Held, HeldInv
    <3>5. BeatsInHand'
      <4> SUFFICES ASSUME NEW l \in Launch, beat'[l] PROVE InHand(l)'
        BY DEF BeatsInHand
      <4>1. beat[l] /\ l # running[arg[t]]
        <5>1. beat'[l] = (beat[l] /\ ~Dropped(l, running[arg[t]])) BY <2>6 DEF Insert
        <5>2. l # 0 BY SupervisorAssumption
        <5> QED BY <5>1, <5>2 DEF Dropped
      <4>2. InMap(l) => InMap(l)' BY <2>6, <4>1 DEF InMap, Insert
      <4>3. ASSUME NEW u \in Task, Held(l, u) PROVE InHand(l)'
        <5>1. CASE u = t
          <6>0. taken[t] = 0 BY <2>6 DEF Insert, TypeOK, TaskOK
          <6>1. l = mine[t] BY <4>3, <5>1, <6>0 DEF Held
          <6>2. of[l] = arg[t] /\ arg[t] \in Profile BY <2>6, <6>1 DEF Insert, TypeOK, TaskOK, OwnerInv, HeldInv
          <6> QED BY <2>6, <6>1, <6>2 DEF InHand, InMap, Insert, TypeOK, AgentType, LaunchType, TaskType, TaskOK
        <5>2. CASE u # t
          <6>1. Held(l, u)' BY <2>6, <4>3, <5>2 DEF Held, Insert
          <6> QED BY <6>1 DEF InHand
        <5> QED BY <5>1, <5>2
      <4> QED BY <4>1, <4>2, <4>3 DEF BeatsInHand, InHand, OwnerInv
    <3> QED BY <3>1, <3>2, <3>3, <3>4, <3>5 DEF OwnerInv
  <2>7. CASE ErrandEnds(t)
    <3>1. SameHands BY <2>7 DEF ErrandEnds, SameHands
    <3> QED BY <3>1, HandsFrame
  <2>8. CASE ErrandFails(t)
    <3>1. SameHands BY <2>8 DEF ErrandFails, SameHands
    <3> QED BY <3>1, HandsFrame
  <2> QED BY <1>4, <2>1, <2>2, <2>3, <2>4, <2>5, <2>6, <2>7, <2>8 DEF LaunchStep
<1>5. ASSUME NEW t \in Task, StopStep(t) PROVE OwnerInv'
  <2>1. CASE StopsNothing(t)
    <3>1. SameHands BY <2>1 DEF StopsNothing, AfterStop, SameHands
    <3> QED BY <3>1, HandsFrame
  <2>2. CASE TakesEntry(t)
    <3>1. LaunchInv' BY <2>2 DEF LaunchInv, TakesEntry, OwnerInv
    <3>2. EntryInv' BY <2>2 DEF EntryInv, TakesEntry, OwnerInv
    <3>3. HeldInv' BY <2>2 DEF HeldInv, TakesEntry, OwnerInv, TypeOK, TaskOK, EntryInv
    <3>4. OneOwner'
      <4>1. ASSUME NEW l \in Launch, InMap(l)' PROVE InMap(l) /\ of[l] # arg[t]
        BY <2>2, <4>1 DEF InMap, TakesEntry, TypeOK, AgentType, TaskOK
      <4>2. ASSUME NEW l \in Launch, NEW u \in Task, Held(l, u)' PROVE Held(l, u) \/ (u = t /\ l = running[arg[t]])
        BY <2>2, <4>2 DEF Held, TakesEntry
      <4>3. of[running[arg[t]]] = arg[t] /\ arg[t] \in Profile
        BY <2>2 DEF TakesEntry, TypeOK, TaskOK, OwnerInv, EntryInv
      <4>4. InMap(running[arg[t]])
        BY <4>3, <2>2 DEF InMap, TakesEntry
      <4> QED BY <4>1, <4>2, <4>3, <4>4 DEF OneOwner, OwnerInv
    <3>5. BeatsInHand'
      <4> SUFFICES ASSUME NEW l \in Launch, beat'[l] PROVE InHand(l)'
        BY DEF BeatsInHand
      <4>1. beat[l] BY <2>2 DEF TakesEntry
      <4>2. InMap(l) => InMap(l)' \/ Held(l, t)' BY <2>2 DEF InMap, Held, TakesEntry, TypeOK, TaskType
      <4>3. ASSUME NEW u \in Task, Held(l, u) PROVE InHand(l)'
        <5>1. Held(l, u)' BY <2>2, <4>1, <4>3 DEF Held, TakesEntry, TypeOK, AgentType, TaskOK
        <5> QED BY <5>1 DEF InHand
      <4> QED BY <4>1, <4>2, <4>3 DEF BeatsInHand, InHand, OwnerInv
    <3> QED BY <3>1, <3>2, <3>3, <3>4, <3>5 DEF OwnerInv
  <2>3. CASE ClosesBrowser(t)
    <3>1. LaunchInv' BY <2>3 DEF LaunchInv, ClosesBrowser, OwnerInv
    <3>2. EntryInv' BY <2>3 DEF EntryInv, ClosesBrowser, OwnerInv
    <3>3. HeldInv' BY <2>3 DEF HeldInv, ClosesBrowser, AfterStop, OwnerInv, TypeOK, LaunchType, TaskType, TaskOK
    <3>4. OneOwner' BY <2>3 DEF OneOwner, ClosesBrowser, OwnerInv, TypeOK, TaskType, InMap, Held
    <3>5. BeatsInHand'
      <4> SUFFICES ASSUME NEW l \in Launch, beat'[l] PROVE InHand(l)'
        BY DEF BeatsInHand
      <4>1. beat[l] /\ l # taken[t] BY <2>3 DEF ClosesBrowser, TypeOK, LaunchType
      <4>2. InMap(l) => InMap(l)' BY <2>3 DEF InMap, ClosesBrowser
      <4>3. ASSUME NEW u \in Task, Held(l, u) PROVE InHand(l)'
        <5>1. Held(l, u)' BY <2>3, <4>1, <4>3 DEF Held, ClosesBrowser, TypeOK, TaskType
        <5> QED BY <5>1 DEF InHand
      <4> QED BY <4>1, <4>2, <4>3 DEF BeatsInHand, InHand, OwnerInv
    <3> QED BY <3>1, <3>2, <3>3, <3>4, <3>5 DEF OwnerInv
  <2>4. CASE Settles(t)
    <3>1. LaunchInv' BY <2>4 DEF LaunchInv, Settles, OwnerInv
    <3>2. EntryInv' BY <2>4 DEF EntryInv, Settles, OwnerInv
    <3>3. HeldInv' BY <2>4 DEF HeldInv, Settles, AfterStop, OwnerInv, TypeOK, TaskType
    <3>4. OneOwner' BY <2>4 DEF OneOwner, Settles, OwnerInv, InMap, Held
    <3>5. BeatsInHand'
      <4> SUFFICES ASSUME NEW l \in Launch, beat'[l] PROVE InHand(l)'
        BY DEF BeatsInHand
      <4>1. beat[l] /\ l # taken[t] BY <2>4 DEF Settles, OwnerInv, HeldInv
      <4>2. InMap(l) => InMap(l)' BY <2>4 DEF InMap, Settles
      <4>3. ASSUME NEW u \in Task, Held(l, u) PROVE InHand(l)'
        <5>1. Held(l, u)' BY <2>4, <4>1, <4>3 DEF Held, Settles
        <5> QED BY <5>1 DEF InHand
      <4> QED BY <4>1, <4>2, <4>3 DEF BeatsInHand, InHand, OwnerInv
    <3> QED BY <3>1, <3>2, <3>3, <3>4, <3>5 DEF OwnerInv
  <2> QED BY <1>5, <2>1, <2>2, <2>3, <2>4 DEF StopStep
<1>6. ASSUME NEW l \in Launch, BrowserExits(l) PROVE OwnerInv'
  <2>1. SameHands BY <1>6 DEF BrowserExits, SameHands
  <2> QED BY <2>1, HandsFrame
<1>7. CASE ReaperLooks
  <2>1. SameHands BY <1>7 DEF ReaperLooks, SameHands
  <2> QED BY <2>1, HandsFrame
<1>8. CASE ReaperStops
  <2>1. SameHands BY <1>8 DEF ReaperStops, SameHands, TypeOK, TaskOK
  <2> QED BY <2>1, HandsFrame
<1>9. CASE Dies
  <2>1. LaunchInv' BY <1>9 DEF LaunchInv, Dies, OwnerInv
  <2>2. EntryInv' BY <1>9 DEF EntryInv, Dies
  <2>3. HeldInv' BY <1>9 DEF HeldInv, Dies
  <2>4. OneOwner' BY <1>9 DEF OneOwner, Dies, Held
  <2>5. BeatsInHand' BY <1>9 DEF BeatsInHand, Dies
  <2> QED BY <2>1, <2>2, <2>3, <2>4, <2>5 DEF OwnerInv
<1>10. CASE ReaperEnds /\ ~Dies
  <2>1. SameHands BY <1>10 DEF ReaperEnds, SameHands, TypeOK, TaskType
  <2> QED BY <2>1, HandsFrame
<1>11. CASE ShellQuits \/ Shutdown \/ CancelExit
  <2>1. SameHands BY <1>11 DEF ShellQuits, Shutdown, CancelExit, SameHands
  <2> QED BY <2>1, HandsFrame
<1>12. CASE UNCHANGED vars
  <2>1. SameHands BY <1>12 DEF vars, SameHands
  <2> QED BY <2>1, HandsFrame
<1> QED
  BY <1>1, <1>2, <1>3, <1>4, <1>5, <1>6, <1>7, <1>8, <1>9, <1>10, <1>11, <1>12 DEF Next, ReaperStep, ReaperEnds, ExitStep, ExitNow

\* An agent that has launched nothing owns nothing.
LEMMA InitOwnerInv == Init => OwnerInv
  BY SupervisorAssumption DEF Init, OwnerInv, LaunchInv, EntryInv, HeldInv, OneOwner, Held, BeatsInHand

\* With any number of callers, no launch is torn down twice, and none is in the
\* map while a stop works on it: whatever order launches, stops and the reaper
\* come in.
THEOREM OwnersApart == Spec => []OneOwner
<1>1. OwnerInv => OneOwner
  BY DEF OwnerInv
<1> QED
  BY <1>1, TypeCorrect, InitOwnerInv, NextOwnerInv, PTL DEF Spec

\* With any number of callers, a lock is renewed only for a launch in hand: no
\* launch that failed, was replaced or was stopped goes on holding its profile.
THEOREM NoStrayBeat == Spec => []BeatsInHand
<1>1. OwnerInv => BeatsInHand
  BY DEF OwnerInv
<1> QED
  BY <1>1, TypeCorrect, InitOwnerInv, NextOwnerInv, PTL DEF Spec

----------------------------------------------------------------------------
(* Nothing is left unmanaged when calls come one at a time.                *)

\* No browser before its launch.
FreshInv == \A l \in Launch : l > launches => browser[l] = "none"

\* A launch past its look at the map finds no entry under its profile: what it
\* saw there is still so when it inserts its own.
ClearInv ==
    \A t \in Task :
       mine[t] # 0 /\ pc[t] # "stopping" => running[arg[t]] = 0

\* A launch has no browser until it spawns it, and is not the one it tears down.
UnbornInv ==
    \A t \in Task :
       mine[t] # 0 => mine[t] # taken[t] /\ (pc[t] # "spawned" => browser[mine[t]] = "none")

\* The browser of a session on its way to the server has gone.
ClosedInv == \A t \in Task : pc[t] = "pushing" => browser[taken[t]] = "exited"

SoloInv == FreshInv /\ ClearInv /\ UnbornInv /\ ClosedInv /\ Managed

\* What a task does that touches no browser, no entry and no session.
SameBrowsers ==
    /\ UNCHANGED <<running, launches, of, browser, settled, mine, taken>>
    /\ alive' => alive
    /\ \A t \in Task :
          /\ arg'[t] = arg[t] \/ mine[t] = 0
          /\ pc'[t] = "pushing" => pc[t] = "pushing"
          /\ pc'[t] # pc[t] => mine[t] = 0 \/ (pc[t] = "starting" /\ pc'[t] = "relayed")

\* Starting a relay, driving a page, a call to stop and the reaper's look leave
\* every browser as it is and as managed as it is.
LEMMA BrowsersFrame ==
    ASSUME TypeOK, SoloInv, SameBrowsers PROVE SoloInv'
<1> USE DEF SameBrowsers, SoloInv
<1>1. FreshInv' BY DEF FreshInv
<1>2. ClearInv' BY DEF ClearInv
<1>3. UnbornInv' BY DEF UnbornInv
<1>4. Managed' BY DEF Managed, Unsent, InHand, InMap, Held
<1>5. ClosedInv' BY DEF ClosedInv
<1> QED BY <1>1, <1>2, <1>3, <1>4, <1>5

\* With one caller and a database that takes its writes, each step of launch,
\* stop and reaper leaves an open browser in the map or in a task's hands: the
\* entry a launch would have overwritten was torn down before it.
THEOREM NextSoloInv ==
    ASSUME StoreFails = FALSE, \A c, d \in Caller : c = d,
           TypeOK, OwnerInv, SoloInv, [Next]_vars
    PROVE  SoloInv'
<1> USE SupervisorAssumption
<1>a. \A t, u \in Task : mine[t] # 0 /\ mine[u] # 0 => t = u
  BY DEF TypeOK, TaskOK
<1>1. ASSUME NEW t \in Caller, NEW p \in Profile, NEW e \in BOOLEAN, BeginClosed(t, p, e) PROVE SoloInv'
  <2>1. FreshInv' BY <1>1 DEF FreshInv, BeginClosed, Begin, SoloInv, OwnerInv, HeldInv, TypeOK, AgentType, LaunchType, TaskType, TaskOK
  <2>2. ClearInv' BY <1>1 DEF ClearInv, BeginClosed, Begin, SoloInv, TypeOK, TaskType
  <2>3. UnbornInv' BY <1>1 DEF UnbornInv, BeginClosed, Begin, SoloInv, FreshInv, OwnerInv, HeldInv, TypeOK, LaunchType
  <2>4. Managed'
    <3> SUFFICES ASSUME alive', NEW l \in Launch, (browser[l] = "open" \/ Unsent(l))' PROVE InHand(l)'
      BY DEF Managed
    <3>1. alive /\ (browser[l] = "open" \/ Unsent(l)) BY <1>1 DEF Unsent, BeginClosed, Begin, SoloInv, FreshInv, TypeOK, LaunchType
    <3>2. InMap(l) => InMap(l)' BY <1>1, <3>1 DEF InMap, BeginClosed, Begin, SoloInv, FreshInv, TypeOK, LaunchType, Unsent
    <3>3. ASSUME NEW u \in Task, Held(l, u) PROVE InHand(l)'
      <4>1. Held(l, u)' BY <1>1, <3>3 DEF Held, BeginClosed, Begin, TypeOK, TaskOK
      <4> QED BY <4>1 DEF InHand
    <3> QED BY <3>1, <3>2, <3>3 DEF SoloInv, Managed, InHand
  <2>5. ClosedInv' BY <1>1 DEF ClosedInv, BeginClosed, Begin, SoloInv
  <2> QED BY <2>1, <2>2, <2>3, <2>4, <2>5 DEF SoloInv
<1>2. ASSUME NEW t \in Caller, NEW p \in Profile, NEW e \in BOOLEAN, BeginUnreaped(t, p, e) PROVE SoloInv'
  <2>1. FreshInv' BY <1>2 DEF FreshInv, BeginUnreaped, Begin, SoloInv, TypeOK, LaunchType
  <2>2. ClearInv' BY <1>2 DEF ClearInv, BeginUnreaped, Begin, SoloInv, TypeOK, TaskType
  <2>3. UnbornInv' BY <1>2 DEF UnbornInv, BeginUnreaped, Begin, SoloInv, FreshInv, OwnerInv, HeldInv, TypeOK, LaunchType
  <2>4. Managed'
    <3> SUFFICES ASSUME alive', NEW l \in Launch, (browser[l] = "open" \/ Unsent(l))' PROVE InHand(l)'
      BY DEF Managed
    <3>1. alive /\ (browser[l] = "open" \/ Unsent(l)) BY <1>2 DEF Unsent, BeginUnreaped, Begin, SoloInv, FreshInv, OwnerInv, HeldInv, TypeOK, LaunchType
    <3>2. InMap(l) => InMap(l)' BY <1>2, <3>1 DEF InMap, BeginUnreaped, Begin, SoloInv, FreshInv, TypeOK, LaunchType, Unsent
    <3>3. ASSUME NEW u \in Task, Held(l, u) PROVE InHand(l)'
      <4>1. Held(l, u)' BY <1>2, <3>3 DEF Held, BeginUnreaped, Begin, TypeOK, TaskOK
      <4> QED BY <4>1 DEF InHand
    <3> QED BY <3>1, <3>2, <3>3 DEF SoloInv, Managed, InHand
  <2>5. ClosedInv' BY <1>2 DEF ClosedInv, BeginUnreaped, Begin, SoloInv
  <2> QED BY <2>1, <2>2, <2>3, <2>4, <2>5 DEF SoloInv
<1>3. ASSUME NEW t \in Caller, NEW p \in Profile, CallStop(t, p) PROVE SoloInv'
  <2>1. SameBrowsers BY <1>3 DEF CallStop, SameBrowsers, TypeOK, TaskOK
  <2> QED BY <2>1, BrowsersFrame
<1>4. ASSUME NEW t \in Task, LaunchStep(t) PROVE SoloInv'
  <2>1. CASE FailEarly(t)
    <3>1. FreshInv' BY <2>1 DEF FreshInv, FailEarly, SoloInv
    <3>2. ClearInv' BY <2>1 DEF ClearInv, FailEarly, SoloInv
    <3>3. UnbornInv' BY <2>1 DEF UnbornInv, FailEarly, SoloInv
    <3>4. Managed'
      <4> SUFFICES ASSUME alive', NEW l \in Launch, (browser[l] = "open" \/ Unsent(l))' PROVE InHand(l)'
        BY DEF Managed
      <4>1. alive /\ (browser[l] = "open" \/ Unsent(l)) /\ l # mine[t] BY <2>1 DEF Unsent, FailEarly, SoloInv, UnbornInv
      <4>2. InMap(l) => InMap(l)' BY <2>1 DEF InMap, FailEarly
      <4>3. ASSUME NEW u \in Task, Held(l, u) PROVE InHand(l)'
        <5>1. Held(l, u)' BY <2>1, <4>1, <4>3 DEF Held, FailEarly
        <5> QED BY <5>1 DEF InHand
      <4> QED BY <4>1, <4>2, <4>3 DEF SoloInv, Managed, InHand
    <3>5. ClosedInv' BY <2>1 DEF ClosedInv, FailEarly, SoloInv
    <3> QED BY <3>1, <3>2, <3>3, <3>4, <3>5 DEF SoloInv
  <2>2. CASE ServeRelay(t)
    <3>1. SameBrowsers BY <2>2 DEF ServeRelay, SameBrowsers
    <3> QED BY <3>1, BrowsersFrame
  <2>3. CASE FailLate(t)
    <3>1. FreshInv' BY <2>3 DEF FreshInv, FailLate, SoloInv
    <3>2. ClearInv' BY <2>3 DEF ClearInv, FailLate, SoloInv
    <3>3. UnbornInv' BY <2>3 DEF UnbornInv, FailLate, SoloInv
    <3>4. Managed'
      <4> SUFFICES ASSUME alive', NEW l \in Launch, (browser[l] = "open" \/ Unsent(l))' PROVE InHand(l)'
        BY DEF Managed
      <4>1. alive /\ (browser[l] = "open" \/ Unsent(l)) /\ l # mine[t] BY <2>3 DEF Unsent, FailLate, SoloInv, UnbornInv
      <4>2. InMap(l) => InMap(l)' BY <2>3 DEF InMap, FailLate
      <4>3. ASSUME NEW u \in Task, Held(l, u) PROVE InHand(l)'
        <5>1. Held(l, u)' BY <2>3, <4>1, <4>3 DEF Held, FailLate
        <5> QED BY <5>1 DEF InHand
      <4> QED BY <4>1, <4>2, <4>3 DEF SoloInv, Managed, InHand
    <3>5. ClosedInv' BY <2>3 DEF ClosedInv, FailLate, SoloInv
    <3> QED BY <3>1, <3>2, <3>3, <3>4, <3>5 DEF SoloInv
  <2>4. CASE SpawnBrowser(t)
    <3>1. FreshInv' BY <2>4 DEF FreshInv, SpawnBrowser, SoloInv, OwnerInv, HeldInv, TypeOK, LaunchType, TaskOK
    <3>2. ClearInv' BY <2>4 DEF ClearInv, SpawnBrowser, SoloInv
    <3>3. UnbornInv' BY <2>4, <1>a DEF UnbornInv, SpawnBrowser, SoloInv, TypeOK, TaskType
    <3>4. Managed'
      <4> SUFFICES ASSUME alive', NEW l \in Launch, (browser[l] = "open" \/ Unsent(l))' PROVE InHand(l)'
        BY DEF Managed
      <4>1. CASE l = mine[t]
        <5>1. Held(l, t)' BY <2>4, <4>1 DEF Held, SpawnBrowser
        <5> QED BY <5>1 DEF InHand
      <4>2. CASE l # mine[t]
        <5>1. alive /\ (browser[l] = "open" \/ Unsent(l)) BY <2>4, <4>2 DEF Unsent, SpawnBrowser
        <5>2. InHand(l)' <=> InHand(l) BY <2>4 DEF InHand, InMap, Held, SpawnBrowser
        <5> QED BY <5>1, <5>2 DEF SoloInv, Managed
      <4> QED BY <4>1, <4>2
    <3>5. ClosedInv' BY <2>4 DEF ClosedInv, SpawnBrowser, SoloInv, OwnerInv, OneOwner, Held, TypeOK, TaskType, TaskOK
    <3> QED BY <3>1, <3>2, <3>3, <3>4, <3>5 DEF SoloInv
  <2>5. CASE FailSpawned(t)
    BY <2>5 DEF FailSpawned
  <2>6. CASE Insert(t)
    <3>1. FreshInv' BY <2>6 DEF FreshInv, Insert, SoloInv
    <3>2. ClearInv' BY <2>6, <1>a DEF ClearInv, Insert, SoloInv, TypeOK, TaskType
    <3>3. UnbornInv' BY <2>6 DEF UnbornInv, Insert, SoloInv, TypeOK, TaskType
    <3>4. Managed'
      <4> SUFFICES ASSUME alive', NEW l \in Launch, (browser[l] = "open" \/ Unsent(l))' PROVE InHand(l)'
        BY DEF Managed
      <4>1. alive /\ (browser[l] = "open" \/ Unsent(l)) BY <2>6 DEF Unsent, Insert
      <4>2. InMap(l) => InMap(l)'
        <5>1. running[arg[t]] = 0 BY <2>6 DEF Insert, SoloInv, ClearInv, TypeOK, TaskOK
        <5>2. l # 0 /\ (of[l] # None => of[l] \in Profile) BY DEF TypeOK, AgentType, LaunchType, TaskType, TaskOK
        <5> QED BY <2>6, <5>1, <5>2 DEF InMap, Insert, AgentType, TypeOK
      <4>3. ASSUME NEW u \in Task, Held(l, u) PROVE InHand(l)'
        <5>1. CASE u = t
          <6>1. taken[t] = 0 BY <2>6 DEF Insert, TypeOK, TaskOK
          <6>2. l = mine[t] BY <4>3, <5>1, <6>1 DEF Held
          <6>3. of[l] = arg[t] /\ arg[t] \in Profile BY <2>6, <6>2 DEF Insert, TypeOK, TaskOK, OwnerInv, HeldInv
          <6> QED BY <2>6, <6>2, <6>3 DEF InHand, InMap, Insert, TypeOK, AgentType, LaunchType, TaskType, TaskOK
        <5>2. CASE u # t
          <6>1. Held(l, u)' BY <2>6, <4>3, <5>2 DEF Held, Insert
          <6> QED BY <6>1 DEF InHand
        <5> QED BY <5>1, <5>2
      <4> QED BY <4>1, <4>2, <4>3 DEF SoloInv, Managed, InHand
    <3>5. ClosedInv' BY <2>6 DEF ClosedInv, Insert, SoloInv
    <3> QED BY <3>1, <3>2, <3>3, <3>4, <3>5 DEF SoloInv
  <2>7. CASE ErrandEnds(t)
    <3>1. SameBrowsers BY <2>7 DEF ErrandEnds, SameBrowsers, TypeOK, TaskOK
    <3> QED BY <3>1, BrowsersFrame
  <2>8. CASE ErrandFails(t)
    <3>1. SameBrowsers BY <2>8 DEF ErrandFails, SameBrowsers, TypeOK, TaskOK
    <3> QED BY <3>1, BrowsersFrame
  <2> QED BY <1>4, <2>1, <2>2, <2>3, <2>4, <2>5, <2>6, <2>7, <2>8 DEF LaunchStep
<1>5. ASSUME NEW t \in Task, StopStep(t) PROVE SoloInv'
  <2>1. CASE StopsNothing(t)
    <3>1. FreshInv' BY <2>1 DEF FreshInv, StopsNothing, SoloInv
    <3>2. ClearInv' BY <2>1 DEF ClearInv, StopsNothing, SoloInv
    <3>3. UnbornInv' BY <2>1 DEF UnbornInv, StopsNothing, SoloInv
    <3>4. Managed'
      <4> SUFFICES ASSUME alive', NEW l \in Launch, (browser[l] = "open" \/ Unsent(l))' PROVE InHand(l)'
        BY DEF Managed
      <4>1. alive /\ (browser[l] = "open" \/ Unsent(l)) BY <2>1 DEF Unsent, StopsNothing
      <4>2. InHand(l)' <=> InHand(l) BY <2>1 DEF InHand, InMap, Held, StopsNothing
      <4> QED BY <4>1, <4>2 DEF SoloInv, Managed
    <3>5. ClosedInv' BY <2>1 DEF ClosedInv, StopsNothing, AfterStop, SoloInv
    <3> QED BY <3>1, <3>2, <3>3, <3>4, <3>5 DEF SoloInv
  <2>2. CASE TakesEntry(t)
    <3>1. FreshInv' BY <2>2 DEF FreshInv, TakesEntry, SoloInv
    <3>2. ClearInv' BY <2>2 DEF ClearInv, TakesEntry, SoloInv, TypeOK, AgentType, TaskOK
    <3>3. UnbornInv'
      <4>1. of[running[arg[t]]] = arg[t] /\ arg[t] \in Profile
        BY <2>2 DEF TakesEntry, TypeOK, TaskOK, OwnerInv, EntryInv
      <4>2. InMap(running[arg[t]]) /\ running[arg[t]] \in Launch
        BY <4>1, <2>2 DEF InMap, TakesEntry, TypeOK, AgentType
      <4>3. \A u \in Task : mine[u] # running[arg[t]]
        BY <4>2 DEF OwnerInv, OneOwner, Held
      <4> QED BY <2>2, <4>3 DEF UnbornInv, TakesEntry, SoloInv, TypeOK, AgentType, LaunchType, TaskType, TaskOK
    <3>4. Managed'
      <4> SUFFICES ASSUME alive', NEW l \in Launch, (browser[l] = "open" \/ Unsent(l))' PROVE InHand(l)'
        BY DEF Managed
      <4>1. alive /\ (browser[l] = "open" \/ Unsent(l)) BY <2>2 DEF Unsent, TakesEntry
      <4>2. InMap(l) => InMap(l)' \/ Held(l, t)' BY <2>2 DEF InMap, Held, TakesEntry, TypeOK, TaskType
      <4>3. ASSUME NEW u \in Task, Held(l, u) PROVE InHand(l)'
        <5>0. taken[t] = 0 BY <2>2 DEF TakesEntry, TypeOK, TaskOK
        <5>1. Held(l, u)' BY <2>2, <5>0, <4>3 DEF Held, TakesEntry
        <5> QED BY <5>1 DEF InHand
      <4> QED BY <4>1, <4>2, <4>3 DEF SoloInv, Managed, InHand
    <3>5. ClosedInv' BY <2>2 DEF ClosedInv, TakesEntry, SoloInv
    <3> QED BY <3>1, <3>2, <3>3, <3>4, <3>5 DEF SoloInv
  <2>3. CASE ClosesBrowser(t)
    <3>1. FreshInv' BY <2>3 DEF FreshInv, ClosesBrowser, SoloInv, OwnerInv, HeldInv, TypeOK, LaunchType
    <3>2. ClearInv' BY <2>3 DEF ClearInv, ClosesBrowser, SoloInv, TypeOK, TaskType
    <3>3. UnbornInv' BY <2>3 DEF UnbornInv, ClosesBrowser, SoloInv, OwnerInv, OneOwner, Held, TypeOK, TaskType
    <3>4. Managed'
      <4> SUFFICES ASSUME alive', NEW l \in Launch, (browser[l] = "open" \/ Unsent(l))' PROVE InHand(l)'
        BY DEF Managed
      <4>1. CASE l = taken[t]
        <5>1. arg[t] \in Team BY <2>3, <4>1 DEF Unsent, ClosesBrowser, OwnerInv, HeldInv, TypeOK, AgentType, LaunchType, TaskType, TaskOK
        <5>2. Held(l, t)' BY <2>3, <4>1, <5>1 DEF Held, ClosesBrowser
        <5> QED BY <5>2 DEF InHand
      <4>2. CASE l # taken[t]
        <5>1. alive /\ (browser[l] = "open" \/ Unsent(l)) BY <2>3, <4>2 DEF Unsent, ClosesBrowser
        <5>2. InMap(l) => InMap(l)' BY <2>3 DEF InMap, ClosesBrowser
        <5>3. ASSUME NEW u \in Task, Held(l, u) PROVE InHand(l)'
          <6>1. Held(l, u)' BY <2>3, <4>2, <5>3 DEF Held, ClosesBrowser, TypeOK, TaskType
          <6> QED BY <6>1 DEF InHand
        <5> QED BY <5>1, <5>2, <5>3 DEF SoloInv, Managed, InHand
      <4> QED BY <4>1, <4>2
    <3>5. ClosedInv' BY <2>3 DEF ClosedInv, ClosesBrowser, AfterStop, SoloInv, TypeOK, LaunchType, TaskType, TaskOK
    <3> QED BY <3>1, <3>2, <3>3, <3>4, <3>5 DEF SoloInv
  <2>4. CASE Settles(t)
    <3>1. FreshInv' BY <2>4 DEF FreshInv, Settles, SoloInv
    <3>2. ClearInv' BY <2>4 DEF ClearInv, Settles, SoloInv
    <3>3. UnbornInv' BY <2>4 DEF UnbornInv, Settles, SoloInv
    <3>4. Managed'
      <4> SUFFICES ASSUME alive', NEW l \in Launch, (browser[l] = "open" \/ Unsent(l))' PROVE InHand(l)'
        BY DEF Managed
      <4>1. alive /\ (browser[l] = "open" \/ Unsent(l)) /\ l # taken[t] BY <2>4 DEF Unsent, Settles, SoloInv, ClosedInv, TypeOK, LaunchType
      <4>2. InMap(l) => InMap(l)' BY <2>4 DEF InMap, Settles
      <4>3. ASSUME NEW u \in Task, Held(l, u) PROVE InHand(l)'
        <5>1. Held(l, u)' BY <2>4, <4>1, <4>3 DEF Held, Settles
        <5> QED BY <5>1 DEF InHand
      <4> QED BY <4>1, <4>2, <4>3 DEF SoloInv, Managed, InHand
    <3>5. ClosedInv' BY <2>4 DEF ClosedInv, Settles, AfterStop, SoloInv, TypeOK, TaskType
    <3> QED BY <3>1, <3>2, <3>3, <3>4, <3>5 DEF SoloInv
  <2> QED BY <1>5, <2>1, <2>2, <2>3, <2>4 DEF StopStep
<1>6. ASSUME NEW b \in Launch, BrowserExits(b) PROVE SoloInv'
  <2>1. FreshInv' BY <1>6 DEF FreshInv, BrowserExits, SoloInv
  <2>2. ClearInv' BY <1>6 DEF ClearInv, BrowserExits, SoloInv
  <2>3. UnbornInv' BY <1>6 DEF UnbornInv, BrowserExits, SoloInv
  <2>4. Managed'
    <3> SUFFICES ASSUME alive', NEW l \in Launch, (browser[l] = "open" \/ Unsent(l))' PROVE InHand(l)'
      BY DEF Managed
    <3>1. alive /\ (browser[l] = "open" \/ Unsent(l)) BY <1>6 DEF Unsent, BrowserExits
    <3>2. InHand(l)' <=> InHand(l) BY <1>6 DEF InHand, InMap, Held, BrowserExits
    <3> QED BY <3>1, <3>2 DEF SoloInv, Managed
  <2>5. ClosedInv' BY <1>6 DEF ClosedInv, BrowserExits, SoloInv
  <2> QED BY <2>1, <2>2, <2>3, <2>4, <2>5 DEF SoloInv
<1>7. CASE ReaperLooks
  <2>1. SameBrowsers BY <1>7 DEF ReaperLooks, SameBrowsers, TypeOK, TaskOK
  <2> QED BY <2>1, BrowsersFrame
<1>8. CASE ReaperStops
  <2>1. SameBrowsers BY <1>8 DEF ReaperStops, SameBrowsers, TypeOK, TaskOK
  <2> QED BY <2>1, BrowsersFrame
<1>9. CASE Dies
  <2>1. FreshInv' BY <1>9 DEF FreshInv, Dies, SoloInv
  <2>2. ClearInv' BY <1>9 DEF ClearInv, Dies
  <2>3. UnbornInv' BY <1>9 DEF UnbornInv, Dies
  <2>4. Managed' BY <1>9 DEF Managed, Dies
  <2>5. ClosedInv' BY <1>9 DEF ClosedInv, Dies
  <2> QED BY <2>1, <2>2, <2>3, <2>4, <2>5 DEF SoloInv
<1>10. CASE ReaperEnds /\ ~Dies
  <2>1. SameBrowsers BY <1>10 DEF ReaperEnds, SameBrowsers, TypeOK, TaskType, TaskOK
  <2> QED BY <2>1, BrowsersFrame
<1>11. CASE ShellQuits \/ Shutdown \/ CancelExit
  <2>1. SameBrowsers BY <1>11 DEF ShellQuits, Shutdown, CancelExit, SameBrowsers
  <2> QED BY <2>1, BrowsersFrame
<1>12. CASE UNCHANGED vars
  <2>1. SameBrowsers BY <1>12 DEF vars, SameBrowsers
  <2> QED BY <2>1, BrowsersFrame
<1> QED
  BY <1>1, <1>2, <1>3, <1>4, <1>5, <1>6, <1>7, <1>8, <1>9, <1>10, <1>11, <1>12 DEF Next, ReaperStep, ReaperEnds, ExitStep, ExitNow

\* An agent that has launched nothing manages nothing.
LEMMA InitSoloInv == Init => SoloInv
  BY SupervisorAssumption DEF Init, SoloInv, FreshInv, ClearInv, UnbornInv, ClosedInv, Managed, Unsent

\* If calls come one at a time and the local database takes its writes, every
\* open browser and every session not yet sent is in the map or in hand, beside
\* a reaper that runs at any moment.  Both hypotheses are needed: see v_overlap
\* for two callers.
THEOREM AllManaged ==
    ASSUME StoreFails = FALSE, \A c, d \in Caller : c = d
    PROVE  Spec => []Managed
<1>1. TypeOK /\ OwnerInv /\ SoloInv /\ [Next]_vars => SoloInv'
  BY NextSoloInv
<1>2. SoloInv => Managed
  BY DEF SoloInv
<1> QED
  BY <1>1, <1>2, TypeCorrect, InitOwnerInv, NextOwnerInv, InitSoloInv, PTL DEF Spec

============================================================================
