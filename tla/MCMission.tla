------------------------------ MODULE MCMission ------------------------------
(* How a mission ends, in one run: its sessions, ended by one caller or by *)
(* themselves, with a fair scheduler; and its row, terminal event, runtime *)
(* and node under two clients.  The two share no variable: a behaviour is  *)
(* one of one part, the other stays where it began, with nothing to        *)
(* proceed with.  MCWorkspace has the sessions under two callers and all   *)
(* commands.                                                               *)
EXTENDS SessionLifecycle, Missions

VARIABLE part
partVars == <<part, vars, missionVars>>

PartsInit ==
    /\ part \in {"sessions", "missions"}
    /\ Init /\ MissionInit
    /\ part # "sessions" => \A s \in Slots : row[s] = "exited"

PartsNext ==
    \/ part = "sessions" /\ Next /\ UNCHANGED <<part, missionVars>>
    \/ part = "missions" /\ MissionNext /\ UNCHANGED <<part, vars>>

PartsSpec == PartsInit /\ [][PartsNext]_partVars /\ WF_vars(Proceed)
=============================================================================
