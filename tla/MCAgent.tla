------------------------------- MODULE MCAgent -------------------------------
(* The machine's components that run side by side: a behaviour is one       *)
(* component's, chosen at the start, and the others stand still.            *)
EXTENDS Farm, CoreFiles, Mirror, Shell

CONSTANTS lone, team     \* a profile of this machine, one of a team

(* One plan for both; one for each alone as well. *)
OneList == {<<lone, team>>}
TwoLists == {<<lone>>, <<lone, team>>}

VARIABLE part

all == <<part, farmVars, coreVars, mirrorVars, shellVars>>

Init == /\ part \in {"farm", "core", "mirror", "shell"}
        /\ FarmInit /\ CoreInit /\ MirrorInit /\ ShellInit
        /\ part # "core" => dest = "none"
        /\ part # "mirror" => ~ typing

InShell(A) == part = "shell" /\ A /\ UNCHANGED <<part, farmVars, coreVars, mirrorVars>>

Next ==
  \/ /\ part = "farm" /\ FarmNext
     /\ UNCHANGED <<part, coreVars, mirrorVars, shellVars>>
  \/ /\ part = "core" /\ CoreNext
     /\ UNCHANGED <<part, farmVars, mirrorVars, shellVars>>
  \/ /\ part = "mirror" /\ MirrorNext
     /\ UNCHANGED <<part, farmVars, coreVars, shellVars>>
  \/ InShell(ShellNext)

(* Shell's fairness, for the behaviours that are the shell's. *)
Fairness ==
  /\ \A c \in Call : WF_all(InShell(CallStep(c)))
  /\ \A i \in Process : WF_all(InShell(AgentStep(i)))
  /\ WF_all(InShell(UpdateStep))

Spec == Init /\ [][Next]_all /\ Fairness

(* The state of the component that moves has its type. *)
AgentTypeOK ==
  CASE part = "farm"   -> FarmTypeOK
    [] part = "core"   -> CoreTypeOK
    [] part = "mirror" -> MirrorTypeOK
    [] part = "shell"  -> ShellTypeOK

(* Served, for the behaviours that are the shell's: a window that stays has *)
(* an agent again, whatever stopped the last one: a crash, its own request, *)
(* an update that failed or one that restarted it (agent.rs 214-270;        *)
(* update.rs 326-430).                                                      *)
WindowServed == (part = "shell" /\ shell # 0) ~> (Answers \/ shell = 0)
=============================================================================
