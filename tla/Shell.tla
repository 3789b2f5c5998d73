------------------------------- MODULE Shell -------------------------------
(* The window and its agent (desktop agent.rs, update.rs and main.rs;       *)
(* agent/src/ipc.rs serve, start_reaper and agent.shutdown): a window       *)
(* starts the agent when nothing answers, asks another version's to go,     *)
(* stops it before an update and leaves it to its profiles when it quits.   *)
(*                                                                          *)
(* The window's calls overlap: each that finds no agent starts one.  Agents *)
(* are processes; one address leads to one of them.  Versions are 1 and 2.  *)
EXTENDS Naturals

CONSTANTS Call,        \* the window's commands that overlap
          Processes,   \* agents alive at once
          Unix,        \* a socket file, or a named pipe that has one owner
          MaxDeaths,   \* bound: agents that crash
          MaxTries     \* bound: updates begun

ASSUME ShellAssumption ==
  /\ Processes \in Nat \ {0} /\ Unix \in BOOLEAN
  /\ {MaxDeaths, MaxTries} \subseteq Nat

VARIABLES
  shell,       \* version of the window on the screen, 0 for none
  bundle,      \* version of the application on disk
  checked,     \* CHECKED: this window has looked at the agent's version
  installing,  \* INSTALLING
  update,      \* where install_update is
  call,        \* where each ensure_running is
  agent,       \* the processes
  owner,       \* the process the address leads to, 0 for none
  crashes, tries

shellVars == <<shell, bundle, checked, installing, update, call, agent, owner,
               crashes, tries>>

Process == 1 .. Processes
Version == {1, 2}
NoAgent == [at |-> "none", version |-> 0, leaving |-> FALSE, whenIdle |-> FALSE,
            open |-> FALSE]

ShellInit ==
  /\ shell = 1 /\ bundle = 1 /\ checked = FALSE /\ installing = FALSE
  /\ update = "none" /\ call = [c \in Call |-> "none"]
  /\ agent = [i \in Process |-> NoAgent] /\ owner = 0
  /\ crashes = 0 /\ tries = 0

Answers == owner # 0
At(c, phase) == call' = [call EXCEPT ![c] = phase]

-----------------------------------------------------------------------------
(* ensure_running and retire_other_version, then shell_state's "status",    *)
(* which calls off an exit that was waiting for the last profile.           *)

Heard == agent' = IF Answers THEN [agent EXCEPT ![owner].whenIdle = FALSE]
                  ELSE agent

Polls(c) ==
  /\ shell # 0 /\ call[c] = "none"
  /\ IF ~ Answers THEN At(c, "alone") /\ UNCHANGED agent
     ELSE IF checked THEN Heard /\ UNCHANGED call
     ELSE At(c, "asking") /\ UNCHANGED agent
  /\ UNCHANGED <<shell, bundle, checked, installing, update, owner, crashes, tries>>

Asks(c) ==
  /\ call[c] = "asking"
  /\ Heard
  /\ IF ~ Answers THEN At(c, "none") /\ UNCHANGED checked
     ELSE /\ checked' = TRUE
          /\ At(c, IF agent[owner].version = shell \/ agent[owner].open
                   THEN "none" ELSE "dismissing")
  /\ UNCHANGED <<shell, bundle, installing, update, owner, crashes, tries>>

(* agent.shutdown: refused under an open profile, else gone in 300 ms. *)
Leaving == [agent EXCEPT ![owner].leaving = TRUE]

Dismisses(c) ==
  /\ call[c] = "dismissing"
  /\ IF ~ Answers \/ agent[owner].open
     THEN At(c, "none") /\ UNCHANGED agent
     ELSE At(c, "watching") /\ agent' = Leaving
  /\ UNCHANGED <<shell, bundle, checked, installing, update, owner, crashes, tries>>

(* Watched for three seconds: it has gone, or is left to serve. *)
Watches(c) ==
  /\ call[c] = "watching"
  /\ At(c, IF Answers THEN "none" ELSE "alone")
  /\ UNCHANGED <<shell, bundle, checked, installing, update, agent, owner,
                 crashes, tries>>

Spawns(c) ==
  /\ call[c] = "alone"
  /\ IF installing THEN At(c, "none") /\ UNCHANGED agent
     ELSE /\ At(c, "cold")
          /\ \E i \in Process :
               /\ agent[i] = NoAgent /\ \A j \in 1 .. i - 1 : agent[j] # NoAgent
               /\ agent' = [agent EXCEPT ![i] =
                    [NoAgent EXCEPT !.at = "starting", !.version = shell]]
  /\ UNCHANGED <<shell, bundle, checked, installing, update, owner, crashes, tries>>

(* Polled for four seconds, then "the local agent is not running". *)
StopsWaiting(c) ==
  /\ call[c] = "cold"
  /\ At(c, "none")
  /\ Heard
  /\ UNCHANGED <<shell, bundle, checked, installing, update, owner, crashes, tries>>

-----------------------------------------------------------------------------
(* The agent's own life. *)

Gone(i) == /\ agent' = [agent EXCEPT ![i] = NoAgent]
           /\ owner' = IF owner = i THEN 0 ELSE owner

(* serve: does anything answer?  Then this one is not needed. *)
Probes(i) ==
  /\ agent[i].at = "starting"
  /\ IF Answers THEN agent' = [agent EXCEPT ![i] = NoAgent]
     ELSE agent' = [agent EXCEPT ![i].at = "probed"]
  /\ UNCHANGED <<shell, bundle, checked, installing, update, call, owner, crashes, tries>>

(* Listener::bind: a socket file that is there is removed first; a pipe     *)
(* that is there refuses.                                                   *)
Binds(i) ==
  /\ agent[i].at = "probed"
  /\ IF Answers /\ ~ Unix THEN Gone(i)
     ELSE agent' = [agent EXCEPT ![i].at = "serving"] /\ owner' = i
  /\ UNCHANGED <<shell, bundle, checked, installing, update, call, crashes, tries>>

Leaves(i) ==
  /\ agent[i].leaving \/ (agent[i].whenIdle /\ ~ agent[i].open)
  /\ Gone(i)
  /\ UNCHANGED <<shell, bundle, checked, installing, update, call, crashes, tries>>

Dies(i) ==
  /\ agent[i].at = "serving" /\ crashes < MaxDeaths
  /\ crashes' = crashes + 1
  /\ Gone(i)
  /\ UNCHANGED <<shell, bundle, checked, installing, update, call, tries>>

(* A profile opens through whoever is reached, and closes by its window. *)
OpensProfile ==
  /\ Answers /\ ~ agent[owner].open
  /\ agent' = [agent EXCEPT ![owner].open = TRUE, ![owner].whenIdle = FALSE]
  /\ UNCHANGED <<shell, bundle, checked, installing, update, call, owner, crashes, tries>>

ClosesProfile(i) ==
  /\ agent[i].open
  /\ agent' = [agent EXCEPT ![i].open = FALSE]
  /\ UNCHANGED <<shell, bundle, checked, installing, update, call, owner, crashes, tries>>

-----------------------------------------------------------------------------
(* The window's own life. *)

(* RunEvent::Exit: the agent is to go once it is idle; everything this      *)
(* window had under way goes with it.                                       *)
ShellGone ==
  /\ agent' = IF ~ Answers THEN agent
              ELSE IF agent[owner].open THEN [agent EXCEPT ![owner].whenIdle = TRUE]
              ELSE Leaving
  /\ call' = [c \in Call |-> "none"]
  /\ checked' = FALSE /\ installing' = FALSE /\ update' = "none"

Quits ==
  /\ shell # 0 /\ update # "restarting"
  /\ shell' = 0
  /\ ShellGone
  /\ UNCHANGED <<bundle, owner, crashes, tries>>

Starts ==
  /\ shell = 0
  /\ shell' = bundle
  /\ UNCHANGED <<bundle, checked, installing, update, call, agent, owner, crashes, tries>>

(* install_update: refused over open profiles, asked once, before the       *)
(* download.                                                                *)
UpdateBegins ==
  /\ shell # 0 /\ bundle = 1 /\ update = "none" /\ tries < MaxTries
  /\ tries' = tries + 1
  /\ update' = IF Answers /\ agent[owner].open THEN "none" ELSE "downloading"
  /\ UNCHANGED <<shell, bundle, checked, installing, call, agent, owner, crashes>>

Downloaded(verified) ==
  /\ update = "downloading"
  /\ update' = IF verified THEN "stopping" ELSE "none"
  /\ installing' = verified
  /\ UNCHANGED <<shell, bundle, checked, call, agent, owner, crashes, tries>>

(* A refusal is printed, and the update goes on. *)
StopsAgent ==
  /\ update = "stopping"
  /\ IF ~ Answers \/ agent[owner].open
     THEN update' = "installing" /\ UNCHANGED agent
     ELSE update' = "waiting" /\ agent' = Leaving
  /\ UNCHANGED <<shell, bundle, checked, installing, call, owner, crashes, tries>>

(* Gone, or three seconds have passed. *)
StopsWaitingForIt ==
  /\ update = "waiting"
  /\ update' = "installing"
  /\ UNCHANGED <<shell, bundle, checked, installing, call, agent, owner, crashes, tries>>

UpdateFailsForGood ==      \* mutant: INSTALLING stays set
  /\ update = "installing"
  /\ update' = "none"
  /\ UNCHANGED <<shell, bundle, checked, installing, call, agent, owner, crashes, tries>>

(* Nothing replaced: the next ensure_running brings the agent back. *)
UpdateFails ==
  /\ update = "installing"
  /\ update' = "none" /\ installing' = FALSE
  /\ UNCHANGED <<shell, bundle, checked, call, agent, owner, crashes, tries>>

(* The installer of Windows kills the agents. *)
Installs ==
  /\ update = "installing"
  /\ update' = "restarting" /\ bundle' = 2
  /\ IF Unix THEN UNCHANGED <<agent, owner>>
     ELSE agent' = [i \in Process |-> NoAgent] /\ owner' = 0
  /\ UNCHANGED <<shell, checked, installing, call, crashes, tries>>

ShellRestarts ==
  /\ update = "restarting"
  /\ shell' = bundle
  /\ ShellGone
  /\ UNCHANGED <<bundle, owner, crashes, tries>>

-----------------------------------------------------------------------------
CallStep(c) == Polls(c) \/ Asks(c) \/ Dismisses(c) \/ Watches(c) \/ Spawns(c)
               \/ StopsWaiting(c)
AgentStep(i) == Probes(i) \/ Binds(i) \/ Leaves(i)
UpdateStep == \/ \E verified \in BOOLEAN : Downloaded(verified)
              \/ StopsAgent \/ StopsWaitingForIt \/ UpdateFails \/ Installs \/ ShellRestarts

ShellNext ==
  \/ \E c \in Call : CallStep(c)
  \/ \E i \in Process : AgentStep(i)
  \/ \E i \in Process : Dies(i)
  \/ \E i \in Process : ClosesProfile(i)
  \/ OpensProfile \/ Quits \/ Starts \/ UpdateBegins \/ UpdateStep

(* The window polls while it is there, an update's own steps and a process's*)
(* own steps go on; nobody has to open a profile or quit.                   *)
ShellFairness ==
  /\ \A c \in Call : WF_shellVars(CallStep(c))
  /\ \A i \in Process : WF_shellVars(AgentStep(i))
  /\ WF_shellVars(UpdateStep)

ShellSpec == ShellInit /\ [][ShellNext]_shellVars /\ ShellFairness

-----------------------------------------------------------------------------
ShellTypeOK ==
  /\ shell \in Version \cup {0} /\ bundle \in Version
  /\ checked \in BOOLEAN /\ installing \in BOOLEAN
  /\ update \in {"none", "downloading", "stopping", "waiting", "installing",
                 "restarting"}
  /\ call \in [Call -> {"none", "asking", "dismissing", "watching", "alone", "cold"}]
  /\ agent \in [Process -> [at : {"none", "starting", "probed", "serving"},
       version : Version \cup {0}, leaving : BOOLEAN, whenIdle : BOOLEAN,
       open : BOOLEAN]]
  /\ owner \in Process \cup {0}

(* A window that stays has an agent again, whatever stopped the last one: a *)
(* crash, its own request, an update that failed or one that restarted it   *)
(* (agent.rs 214-270; update.rs 326-430).                                   *)
Served == shell # 0 ~> Answers \/ shell = 0

(* One agent has the machine: a second "should say so rather than take the  *)
(* address" (ipc.rs 548-553; platform-rs ipc.rs 277).                       *)
OneAgent == \A i \in Process : agent[i].at = "serving" => owner = i
=============================================================================
