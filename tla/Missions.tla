------------------------------ MODULE Missions ------------------------------
(***************************************************************************)
(* One mission from start to delete                                        *)
(* (crates/runner-backend/src/ops/mission.rs, repo/mission.rs, the archive *)
(* steps of ops/node.rs, event_bus::BusRegistry, router::RouterRegistry).  *)
(* Its row and its tree node are in the database, its terminal event is in *)
(* the log, its bus and router are in two registries of the process.       *)
(* Windows and MCP clients command it from threads of their own; the only  *)
(* mutual exclusion between them is the database's write transaction.      *)
(*                                                                         *)
(* A step is one transaction, one statement outside of one, or one call of *)
(* a registry.  `stop` is three steps: its transaction stays open while it *)
(* appends to the log.  The sessions of the mission are SessionLifecycle,  *)
(* what the bus reads EventLog, and what the router does RouterDispatch.   *)
(***************************************************************************)
EXTENDS Integers

CONSTANTS
    Clients,      \* threads that command the mission
    Nobody,       \* no thread
    MaxRouters,   \* bound: routers built
    MaxCommands   \* bound: commands given, calls that fail and crashes, together

MissionAssumption ==
    /\ Nobody \notin Clients
    /\ MaxRouters \in Nat /\ MaxCommands \in Nat
ASSUME MissionAssumption

VARIABLES
    status,     \* missions.status, "none" before and "deleted" after the row
    archived,   \* archived_at is stamped
    node,       \* the sidebar tree has the mission's node
    stops,      \* mission_stopped events in the log
    writer,     \* thread whose write transaction is open
    bus,        \* router that the mounted bus emits to, 0 without a bus
    reg,        \* router in the registry, 0 when none
    cmd,        \* where each thread is
    built,      \* routers built
    spent,      \* commands, failures and crashes
    torn,       \* history: mission_stopped events whose transaction was lost
    overlap,    \* history: two threads set up or took down the runtime at once
    ghost       \* history: an unarchive was overtaken or ended before its node

runtime      == <<bus, reg, built>>
missionRow   == <<status, archived, node>>
missionVars  == <<missionRow, stops, writer, runtime, cmd, spent, torn, overlap, ghost>>

NoCmd == [pc |-> "idle", router |-> 0, start |-> FALSE, sweep |-> FALSE]

MissionInit ==
    /\ status = "none" /\ archived = FALSE /\ node = FALSE
    /\ stops = 0 /\ writer = Nobody
    /\ bus = 0 /\ reg = 0 /\ built = 0
    /\ cmd = [k \in Clients |-> NoCmd]
    /\ spent = 0 /\ torn = 0 /\ overlap = FALSE /\ ghost = FALSE

-----------------------------------------------------------------------------
Listed == status \in {"running", "completed", "aborted"} /\ ~archived
Stored == status \in {"running", "completed", "aborted"}

At(k, pcs)     == cmd[k].pc \in pcs
Others(k, pcs) == \E j \in Clients \ {k} : At(j, pcs)
GoTo(k, pc)    == cmd' = [cmd EXCEPT ![k].pc = pc]
EndsCall(k)    == cmd' = [cmd EXCEPT ![k] = NoCmd]

\* An idle thread takes a command.
Takes(k, rec) ==
    /\ At(k, {"idle"}) /\ spent < MaxCommands
    /\ cmd' = [cmd EXCEPT ![k] = rec]
    /\ spent' = spent + 1

\* A call that can fail does.
Fails == spent < MaxCommands /\ spent' = spent + 1

MayBuild  == {"check", "mount", "route"}        \* start, once its row is committed
Attaching == {"read", "build"}                  \* attach, before its router exists
TearsDown == {"unmount", "unroute"}             \* archive, once it is committed

\* The runtime is about to exist or to go on another thread too.
RunsInto(k) == Others(k, MayBuild \cup Attaching \cup TearsDown \cup {"abort"})

\* The mission stops running although a thread that saw it run builds on.
LeavesBehind(k) == Others(k, MayBuild \cup {"build"}) \/ (At(k, {"abort"}) /\ bus + reg # 0)

\* A new router, held by the thread until it is registered.
Builds(k, pc) ==
    /\ built < MaxRouters
    /\ built' = built + 1
    /\ cmd' = [cmd EXCEPT ![k].pc = pc, ![k].router = built + 1]

-----------------------------------------------------------------------------
(* mission_start.                                                           *)

\* The transaction of `start`: row, node and opening events, or nothing.
StartCommits(k) ==
    /\ status = "none" /\ writer = Nobody
    /\ Takes(k, [NoCmd EXCEPT !.pc = "check", !.start = TRUE])
    /\ status' = "running" /\ node' = TRUE
    /\ UNCHANGED <<archived, stops, writer, runtime, torn, overlap, ghost>>

\* First turns, log, router, session rows: any of them may fail.
StartBuilds(k) ==
    /\ At(k, {"check"})
    /\ \/ Builds(k, "mount") /\ UNCHANGED spent
       \/ Fails /\ GoTo(k, "abort") /\ UNCHANGED built
    /\ UNCHANGED <<missionRow, stops, writer, bus, reg, torn, overlap, ghost>>

\* Best effort, whatever the row has become meanwhile.
StartAborts(k) ==
    /\ At(k, {"abort"}) /\ writer = Nobody
    /\ \/ /\ status' = IF Stored THEN "aborted" ELSE status
          /\ overlap' = (overlap \/ LeavesBehind(k))
          /\ UNCHANGED spent
       \/ Fails /\ UNCHANGED <<status, overlap>>
    /\ EndsCall(k)
    /\ UNCHANGED <<archived, node, stops, writer, runtime, torn, ghost>>

-----------------------------------------------------------------------------
(* mission_attach.                                                          *)

AttachLooks(k) ==
    /\ Stored /\ reg = 0
    /\ Takes(k, [NoCmd EXCEPT !.pc = "read"])
    /\ overlap' = (overlap \/ RunsInto(k))
    /\ UNCHANGED <<missionRow, stops, writer, runtime, torn, ghost>>

MutAttachReads(k) ==  \* attaches whatever is stored
    /\ At(k, {"read"})
    /\ IF Stored THEN GoTo(k, "build") ELSE EndsCall(k)
    /\ UNCHANGED <<missionRow, stops, writer, runtime, spent, torn, overlap, ghost>>

AttachReads(k) ==
    /\ At(k, {"read"})
    /\ IF status = "running" THEN GoTo(k, "build") ELSE EndsCall(k)
    /\ UNCHANGED <<missionRow, stops, writer, runtime, spent, torn, overlap, ghost>>

\* Router::new, register_sessions and reconstruct_from_log.
AttachBuilds(k) ==
    /\ At(k, {"build"})
    /\ \/ Builds(k, "mount") /\ UNCHANGED spent
       \/ Fails /\ EndsCall(k) /\ UNCHANGED built
    /\ UNCHANGED <<missionRow, stops, writer, bus, reg, torn, overlap, ghost>>

-----------------------------------------------------------------------------
(* The registries.  A bus that is there stays, and keeps its emitter; a     *)
(* router that is there is replaced.                                        *)

Mounts(k) ==
    /\ At(k, {"mount"})
    /\ \/ /\ bus' = IF bus = 0 THEN cmd[k].router ELSE bus
          /\ GoTo(k, "route") /\ UNCHANGED spent
       \/ /\ bus = 0 /\ Fails
          /\ IF cmd[k].start THEN GoTo(k, "abort") ELSE EndsCall(k)
          /\ UNCHANGED bus
    /\ UNCHANGED <<missionRow, stops, writer, reg, built, torn, overlap, ghost>>

Routes(k) ==
    /\ At(k, {"route"})
    /\ reg' = cmd[k].router
    /\ EndsCall(k)
    /\ UNCHANGED <<missionRow, stops, writer, bus, built, spent, torn, overlap, ghost>>

Unmounts(k) ==
    /\ At(k, {"unmount"})
    /\ bus' = 0 /\ GoTo(k, "unroute")
    /\ UNCHANGED <<missionRow, stops, writer, reg, built, spent, torn, overlap, ghost>>

Unroutes(k) ==
    /\ At(k, {"unroute"})
    /\ reg' = 0 /\ EndsCall(k)
    /\ UNCHANGED <<missionRow, stops, writer, bus, built, spent, torn, overlap, ghost>>

-----------------------------------------------------------------------------
(* mission_archive.  Its sessions are killed by now (SessionLifecycle).     *)

Archives(k) ==
    /\ Takes(k, [NoCmd EXCEPT !.pc = "stop"])
    /\ UNCHANGED <<missionRow, stops, writer, runtime, torn, overlap, ghost>>

MutStopBegins(k) ==  \* one UPDATE for every mission that is not archived
    /\ At(k, {"stop"}) /\ writer = Nobody
    /\ \/ /\ Listed
          /\ writer' = k /\ GoTo(k, "append")
       \/ /\ ~Listed
          /\ IF archived /\ cmd[k].sweep THEN GoTo(k, "sweep") ELSE EndsCall(k)
          /\ UNCHANGED writer
    /\ UNCHANGED <<missionRow, stops, runtime, spent, torn, overlap, ghost>>

\* The first UPDATE of `stop` takes the write transaction: a running mission is
\* stopped and archived, one that is not running only archived.
StopBegins(k) ==
    /\ At(k, {"stop"}) /\ writer = Nobody
    /\ \/ /\ status = "running"
          /\ writer' = k /\ GoTo(k, "append")
       \/ /\ Listed /\ status # "running"
          /\ writer' = k /\ GoTo(k, "commit")
       \/ /\ ~Listed  \* refused; a sweep goes on when the goal is met
          /\ IF archived /\ cmd[k].sweep THEN GoTo(k, "sweep") ELSE EndsCall(k)
          /\ UNCHANGED writer
    /\ UNCHANGED <<missionRow, stops, runtime, spent, torn, overlap, ghost>>

StopAppends(k) ==
    /\ At(k, {"append"})
    /\ \/ /\ stops' = stops + 1 /\ GoTo(k, "commit")
          /\ UNCHANGED <<writer, spent>>
       \/ /\ Fails  \* rolls back, the mission runs on
          /\ writer' = Nobody /\ EndsCall(k)
          /\ UNCHANGED stops
    /\ UNCHANGED <<missionRow, runtime, torn, overlap, ghost>>

\* The mission_stopped in the log whose transaction is not committed yet.
Uncommitted == IF status = "running" /\ \E k \in Clients : At(k, {"commit"}) THEN 1 ELSE 0

StopCommits(k) ==
    /\ At(k, {"commit"})
    /\ writer' = Nobody
    /\ \/ /\ status' = IF status = "running" THEN "completed" ELSE status
          /\ archived' = TRUE /\ node' = FALSE
          /\ GoTo(k, "unmount")
          /\ overlap' = (overlap \/ LeavesBehind(k))
          /\ ghost' = (ghost \/ Others(k, {"node"}))
          /\ UNCHANGED <<spent, torn>>
       \/ /\ Fails /\ EndsCall(k)
          /\ torn' = torn + Uncommitted
          /\ UNCHANGED <<missionRow, overlap, ghost>>
    /\ UNCHANGED <<stops, runtime>>

-----------------------------------------------------------------------------
(* archive_child_missions: one transaction that archives a stopped mission  *)
(* and hands a running one to mission_archive, again while that one loses.  *)

Sweeps(k) ==
    /\ Takes(k, [NoCmd EXCEPT !.pc = "sweep", !.sweep = TRUE])
    /\ UNCHANGED <<missionRow, stops, writer, runtime, torn, overlap, ghost>>

MutArchiveMissionStep(k) ==  \* leaves the node to the next reconciliation
    /\ At(k, {"sweep"}) /\ writer = Nobody
    /\ IF status = "running"
       THEN GoTo(k, "stop") /\ UNCHANGED <<missionRow, ghost>>
       ELSE /\ archived' = (archived \/ Stored)
            /\ ghost' = (ghost \/ Others(k, {"node"}))
            /\ EndsCall(k)
            /\ UNCHANGED <<status, node>>
    /\ UNCHANGED <<stops, writer, runtime, spent, torn, overlap>>

ArchiveMissionStep(k) ==
    /\ At(k, {"sweep"}) /\ writer = Nobody
    /\ IF status = "running"
       THEN GoTo(k, "stop") /\ UNCHANGED <<missionRow, ghost>>
       ELSE /\ archived' = (archived \/ Stored)
            /\ node' = (node /\ ~Stored)
            /\ ghost' = (ghost \/ Others(k, {"node"}))
            /\ EndsCall(k)
            /\ UNCHANGED status
    /\ UNCHANGED <<stops, writer, runtime, spent, torn, overlap>>

-----------------------------------------------------------------------------
(* Unarchive, delete, and the reconciliation of every read of the tree.     *)

\* The marker goes and the row is read again; the node is another statement.
UnarchiveClears(k) ==
    /\ Stored /\ writer = Nobody
    /\ Takes(k, [NoCmd EXCEPT !.pc = "node"])
    /\ archived' = FALSE
    /\ UNCHANGED <<status, node, stops, writer, runtime, torn, overlap, ghost>>

UnarchiveNodes(k) ==
    /\ At(k, {"node"}) /\ writer = Nobody
    /\ node' = TRUE
    /\ EndsCall(k)
    /\ UNCHANGED <<status, archived, stops, writer, runtime, spent, torn, overlap, ghost>>

DeleteArchived(k) ==
    /\ Stored /\ archived /\ writer = Nobody
    /\ Takes(k, NoCmd)
    /\ status' = "deleted" /\ archived' = FALSE
    /\ ghost' = (ghost \/ Others(k, {"node"}))
    /\ UNCHANGED <<node, stops, writer, runtime, torn, overlap>>

ListWithRepair ==
    /\ writer = Nobody /\ node # Listed
    /\ node' = Listed
    /\ ghost' = \E k \in Clients : At(k, {"node"}) /\ ~Listed
    /\ UNCHANGED <<status, archived, stops, writer, runtime, cmd, spent, torn, overlap>>

-----------------------------------------------------------------------------
\* The app ends and is opened again: before a window opens, running missions are
\* mounted, or that fails and the first workspace attaches.
Reopens ==
    /\ status # "none" /\ Fails
    /\ cmd' = [k \in Clients |-> NoCmd]
    /\ writer' = Nobody
    /\ torn' = torn + Uncommitted
    /\ \/ /\ status = "running" /\ built < MaxRouters
          /\ built' = built + 1 /\ bus' = built' /\ reg' = built'
       \/ bus' = 0 /\ reg' = 0 /\ UNCHANGED built
    /\ overlap' = FALSE
    /\ ghost' = (ghost \/ \E k \in Clients : At(k, {"node"}))
    /\ UNCHANGED <<missionRow, stops>>

MissionNext ==
    \/ \E k \in Clients :
          \/ StartCommits(k) \/ StartBuilds(k) \/ StartAborts(k)
          \/ AttachLooks(k) \/ AttachReads(k) \/ AttachBuilds(k)
          \/ Mounts(k) \/ Routes(k) \/ Unmounts(k) \/ Unroutes(k)
          \/ Archives(k) \/ StopBegins(k) \/ StopAppends(k) \/ StopCommits(k)
          \/ Sweeps(k) \/ ArchiveMissionStep(k)
          \/ UnarchiveClears(k) \/ UnarchiveNodes(k) \/ DeleteArchived(k)
    \/ ListWithRepair
    \/ Reopens

MissionSpec == MissionInit /\ [][MissionNext]_missionVars

-----------------------------------------------------------------------------
(* Properties.                                                              *)

\* The types of the state, and that only the thread in `stop` holds the transaction.
MissionTypeOK ==
    /\ status \in {"none", "running", "completed", "aborted", "deleted"}
    /\ archived \in BOOLEAN /\ node \in BOOLEAN
    /\ stops \in Nat /\ torn \in Nat /\ spent \in 0 .. MaxCommands
    /\ built \in 0 .. MaxRouters /\ bus \in 0 .. built /\ reg \in 0 .. built
    /\ overlap \in BOOLEAN /\ ghost \in BOOLEAN
    /\ cmd \in [Clients ->
          [pc : {"idle", "check", "abort", "read", "build", "mount", "route", "stop", "append",
                 "commit", "unmount", "unroute", "sweep", "node"},
           router : 0 .. built, start : BOOLEAN, sweep : BOOLEAN]]
    /\ writer \in Clients \cup {Nobody}
    /\ \A k \in Clients : At(k, {"append", "commit"}) <=> writer = k

\* A mission that was stopped has one mission_stopped in its log and a running one
\* has none, whatever windows, sweeps and restores race: the log gains another only
\* when the transaction around an append was lost.
OneTerminalEvent ==
    LET kept == stops - torn - Uncommitted
    IN /\ kept \in {0, 1}
       /\ status = "running" => kept = 0
       /\ status = "completed" => kept = 1

RuntimeSettled ==
    \A k \in Clients : ~At(k, MayBuild \cup Attaching \cup TearsDown \cup {"abort"})

\* The bus feeds the router that commands go to, and there is a bus only for a
\* running mission, unless two threads were at the runtime at once: neither
\* registry knows of the other, nor of the row.
RuntimeIsTheMissions ==
    RuntimeSettled /\ ~overlap => bus = reg /\ (status # "running" => bus = 0)

\* The tree shows a mission exactly while it is listed, except that an unarchive
\* restores the node in a statement of its own, which an archive or a delete may
\* have overtaken.
TreeShowsTheMission ==
    ~ghost => (node <=> Listed) \/ \E k \in Clients : At(k, {"node"})

=============================================================================
