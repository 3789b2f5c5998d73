-------------------------- MODULE MCAgentSupervisor --------------------------
(* Instances of AgentSupervisor for TLC.                                    *)
EXTENDS AgentSupervisor, TLC

CONSTANTS p1, p2, c1, c2, reaper, none

Both == {p1, p2}
OneTeam == {p1}
OneCaller == {c1}
TwoCallers == {c1, c2}
NoProfiles == {}
CallerSymmetry == Permutations(TwoCallers)
ProfileSymmetry == Permutations(Both)
==============================================================================
