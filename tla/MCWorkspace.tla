----------------------------- MODULE MCWorkspace -----------------------------
(* Operations that decide by what they have read, in one run: on the rows  *)
(* of a crew, on the sessions of a mission, and on the keys of Codex       *)
(* sessions.  They share no variable: a behaviour is one of one part, the  *)
(* others stay where they began.                                           *)
EXTENDS Crew, SessionLifecycle, KeyCapture, TLC

CONSTANTS claude, codex, renamed
MCEngines == {claude, codex}
MCNewSlots == {[engine |-> Inherit, model |-> "chosen"]}
MCPatches ==
    {[name |-> renamed, engine |-> Omit, model |-> "kept"],
     [name |-> Omit, engine |-> claude, model |-> "kept"],
     [name |-> Omit, engine |-> Inherit, model |-> "kept"],
     [name |-> Omit, engine |-> Omit, model |-> "chosen"]}

VARIABLE part
workspaceVars == <<part, crewVars, vars, captureVars>>

\* Parts that are not the behaviour's begin in one of their initial states.
WorkspaceInit ==
    /\ part \in {"crew", "sessions", "capture"}
    /\ CrewInit /\ Init /\ CaptureInit
    /\ part # "crew" => \A r \in Runners : runtimes[r] = claude
    /\ part # "sessions" => \A s \in Slots : row[s] = "exited"

WorkspaceNext ==
    \/ part = "crew" /\ CrewNext /\ UNCHANGED <<part, vars, captureVars>>
    \/ part = "sessions" /\ Next /\ UNCHANGED <<part, crewVars, captureVars>>
    \/ part = "capture" /\ CaptureNext /\ UNCHANGED <<part, crewVars, vars>>

WorkspaceSpec == WorkspaceInit /\ [][WorkspaceNext]_workspaceVars

\* The parts use the same model values, so that the group stays small.
WorkspaceSymmetry == Permutations(CodexRows) \cup Permutations(Watchers)
=============================================================================
