------------------------------ MODULE KeyCapture ------------------------------
(***************************************************************************)
(* How a Codex session gets its conversation key                           *)
(* (crates/runner-backend/src/session/codex_capture.rs, the spawn paths of *)
(* session/manager/spawn.rs, repo/session.rs).  Codex names its own        *)
(* conversation and writes it into a rollout file; a watcher thread looks  *)
(* for the file of its launch, claims it in a set of the process, and      *)
(* stores its id in the session's row, for the next resume.                *)
(*                                                                         *)
(* All sessions here are Codex sessions of one directory, as the panes of  *)
(* a split chat are; a user may run Codex there outside of the app.  A     *)
(* rollout is named by the launch that wrote it.  Times are counted in     *)
(* forks: a rollout matches a launch if it is not older than its fork.     *)
(***************************************************************************)
EXTENDS Integers

CONSTANTS
    CodexRows,     \* sessions
    Stranger,      \* owner of a Codex that the app did not launch
    Watchers,      \* bound: watcher threads at a time
    Markers,       \* whether first turns carry the marker: TRUE, FALSE, or either
    MaxLaunches,   \* bound: launches; a stranger's rollout comes after them
    MaxAppRuns     \* bound: times the app is opened

CaptureAssumption ==
    /\ Stranger \notin CodexRows /\ Markers \subseteq BOOLEAN
    /\ MaxLaunches \in Nat /\ MaxAppRuns \in Nat
ASSUME CaptureAssumption

VARIABLES
    stored,     \* per session: status, launch of started_at, agent_session_key (0: NULL)
    launch,     \* per launch: owner, state of its process, whether it resumes a
                \*   conversation, whether its first turn has the marker
    born,       \* per launch: forks when it was forked, 0 before
    rollout,    \* per launch: forks when its rollout appeared, 0 before
    launches,   \* launches so far
    forks,      \* forks so far
    watcher,    \* watcher threads: step of run, launch they watch for, rollout found
    claimed,    \* claimed_rollouts of the process: by a watcher of which session,
                \*   Stranger when not claimed
    appRuns

captureVars == <<stored, launch, born, rollout, launches, forks, watcher, claimed, appRuns>>

LaunchIds == 1 .. MaxLaunches
Strange   == MaxLaunches + 1              \* the rollout of a stranger
Rollouts  == 1 .. Strange
NoLaunch  == [owner |-> Stranger, state |-> "none", resumes |-> FALSE, marked |-> FALSE]
NoWatch   == [pc |-> "none", of |-> 0, found |-> 0]

CaptureInit ==
    /\ stored = [r \in CodexRows |-> [status |-> "stopped", of |-> 0, key |-> 0]]
    /\ launch = [n \in LaunchIds |-> NoLaunch]
    /\ born = [n \in LaunchIds |-> 0] /\ rollout = [n \in Rollouts |-> 0]
    /\ launches = 0 /\ forks = 0
    /\ watcher = [w \in Watchers |-> NoWatch]
    /\ claimed = [n \in Rollouts |-> Stranger]
    /\ appRuns = 1

-----------------------------------------------------------------------------
(* The sessions.                                                            *)

Unkeyed(r)  == stored[r].status = "running" /\ stored[r].key = 0
Written(n)  == rollout[n] # 0
OwnerOf(w)  == launch[watcher[w].of].owner

\* The row is inserted, or updated in place, before the fork.  A fresh restart
\* forgets the key; a resume of a keyed row goes on in the old rollout.
Launches(r, fresh, marked) ==
    /\ stored[r].status = "stopped" /\ launches < MaxLaunches
    /\ LET n == launches + 1
           key == IF fresh THEN 0 ELSE stored[r].key
       IN  /\ launches' = n
           /\ stored' = [stored EXCEPT ![r] = [status |-> "running", of |-> n, key |-> key]]
           /\ launch' = [launch EXCEPT ![n] =
                           [owner |-> r, state |-> "pending", resumes |-> key # 0,
                            marked |-> marked]]
    /\ UNCHANGED <<born, rollout, forks, watcher, claimed, appRuns>>

Forks(n) ==
    /\ launch[n].state = "pending"
    /\ launch' = [launch EXCEPT ![n].state = "live"]
    /\ forks' = forks + 1 /\ born' = [born EXCEPT ![n] = forks + 1]
    /\ UNCHANGED <<stored, rollout, launches, watcher, claimed, appRuns>>

\* The process ends, or its fork was cancelled or failed; the row follows later.
ProcessEnds(n) ==
    /\ launch[n].state \in {"pending", "live"}
    /\ launch' = [launch EXCEPT ![n].state = "dead"]
    /\ UNCHANGED <<stored, born, rollout, launches, forks, watcher, claimed, appRuns>>

\* The forwarder's exit: a resume that failed at once forgets the key.
RowSettles(r) ==
    /\ stored[r].status = "running" /\ launch[stored[r].of].state = "dead"
    /\ \/ stored' = [stored EXCEPT ![r].status = "stopped"]
       \/ /\ launch[stored[r].of].resumes
          /\ stored' = [stored EXCEPT ![r].status = "stopped", ![r].key = 0]
    /\ UNCHANGED <<launch, born, rollout, launches, forks, watcher, claimed, appRuns>>

\* Codex has written the first line of a new conversation, and its marker.
WritesRollout(n) ==
    /\ launch[n].state = "live" /\ ~launch[n].resumes /\ ~Written(n)
    /\ rollout' = [rollout EXCEPT ![n] = forks]
    /\ UNCHANGED <<stored, launch, born, launches, forks, watcher, claimed, appRuns>>

StrangerWrites ==
    /\ forks > 0 /\ ~Written(Strange)
    /\ rollout' = [rollout EXCEPT ![Strange] = forks]
    /\ UNCHANGED <<stored, launch, born, launches, forks, watcher, claimed, appRuns>>

\* The app ends with its processes; cleanup_stale_running at the next start.
AppEnds ==
    /\ appRuns < MaxAppRuns /\ appRuns' = appRuns + 1
    /\ stored' = [r \in CodexRows |-> [stored[r] EXCEPT !.status = "stopped"]]
    /\ launch' = [n \in LaunchIds |->
                    IF launch[n].state = "none" THEN NoLaunch
                    ELSE [launch[n] EXCEPT !.state = "gone"]]
    /\ watcher' = [w \in Watchers |-> NoWatch]
    /\ claimed' = [n \in Rollouts |-> Stranger]
    /\ UNCHANGED <<born, rollout, launches, forks>>

-----------------------------------------------------------------------------
(* The watchers.                                                            *)

Moves(w, pc)  == watcher' = [watcher EXCEPT ![w].pc = pc]
PollsAgain(w) == watcher' = [watcher EXCEPT ![w].pc = "poll", ![w].found = 0]
WatchersOnly ==
    UNCHANGED <<stored, launch, born, rollout, launches, forks, appRuns>>

\* spawn_codex_capture_if_unkeyed, after the spawn and after every Enter.
Watches(w, r) ==
    /\ watcher[w].pc = "none" /\ stored[r].key = 0
    /\ stored[r].of # 0 /\ born[stored[r].of] # 0
    /\ launch[stored[r].of].state \in {"live", "dead"} /\ ~launch[stored[r].of].resumes
    /\ watcher' = [watcher EXCEPT ![w] = [pc |-> "poll", of |-> stored[r].of, found |-> 0]]
    /\ WatchersOnly /\ UNCHANGED claimed

Candidates(w) ==
    {n \in Rollouts : Written(n) /\ rollout[n] >= born[watcher[w].of] /\ claimed[n] = Stranger}

\* The rollout that the process has open, or that contains the launch's marker.
Proves(w) ==
    LET own == watcher[w].of
    IN  /\ watcher[w].pc = "poll"
        /\ launch[own].state = "live" \/ launch[own].marked
        /\ own \in Candidates(w)
        /\ watcher' = [watcher EXCEPT ![w].pc = "claim", ![w].found = own]
        /\ WatchersOnly /\ UNCHANGED claimed

\* Without a marker, and without an answer about the process: the only candidate.
Guesses(w) ==
    /\ watcher[w].pc = "poll" /\ ~launch[watcher[w].of].marked
    /\ \E n \in Candidates(w) :
          /\ Candidates(w) = {n}
          /\ watcher' = [watcher EXCEPT ![w].pc = "row", ![w].found = n]
    /\ WatchersOnly /\ UNCHANGED claimed

MutUnambiguous(w) ==  \* without the siblings
    LET r == OwnerOf(w) IN Unkeyed(r) /\ stored[r].of = watcher[w].of

\* fallback_row_is_unambiguous.
Unambiguous(w) ==
    LET r == OwnerOf(w)
    IN  /\ Unkeyed(r) /\ stored[r].of = watcher[w].of
        /\ \A s \in CodexRows \ {r} : ~Unkeyed(s)

Checks(w) ==
    /\ watcher[w].pc = "row"
    /\ IF Unambiguous(w) THEN Moves(w, "claim") ELSE PollsAgain(w)
    /\ WatchersOnly /\ UNCHANGED claimed

MutClaims(w) ==  \* whoever else has it
    /\ watcher[w].pc = "claim"
    /\ claimed' = [claimed EXCEPT ![watcher[w].found] = OwnerOf(w)]
    /\ Moves(w, "persist")
    /\ WatchersOnly

Claims(w) ==
    /\ watcher[w].pc = "claim"
    /\ IF claimed[watcher[w].found] # Stranger
       THEN PollsAgain(w) /\ UNCHANGED claimed
       ELSE /\ claimed' = [claimed EXCEPT ![watcher[w].found] = OwnerOf(w)]
            /\ Moves(w, "persist")
    /\ WatchersOnly

MutMayPersist(w) == stored[OwnerOf(w)].key = 0

\* The guards of capture_agent_session_key's UPDATE.
MayPersist(w) == stored[OwnerOf(w)].key = 0 /\ stored[OwnerOf(w)].of = watcher[w].of

\* The UPDATE may fail too; the rollout stays claimed.
Persists(w) ==
    /\ watcher[w].pc = "persist"
    /\ \/ /\ MayPersist(w)
          /\ stored' = [stored EXCEPT ![OwnerOf(w)].key = watcher[w].found]
       \/ UNCHANGED stored
    /\ watcher' = [watcher EXCEPT ![w] = NoWatch]
    /\ UNCHANGED <<launch, born, rollout, launches, forks, claimed, appRuns>>

\* CAPTURE_TIMEOUT_SECS.
GivesUp(w) ==
    /\ watcher[w].pc = "poll"
    /\ watcher' = [watcher EXCEPT ![w] = NoWatch]
    /\ WatchersOnly /\ UNCHANGED claimed

CaptureNext ==
    \/ \E r \in CodexRows, fresh \in BOOLEAN, marked \in Markers : Launches(r, fresh, marked)
    \/ \E n \in LaunchIds : Forks(n) \/ ProcessEnds(n) \/ WritesRollout(n)
    \/ \E r \in CodexRows : RowSettles(r)
    \/ StrangerWrites
    \/ AppEnds
    \/ \E w \in Watchers : \/ \E r \in CodexRows : Watches(w, r)
                           \/ Proves(w) \/ Guesses(w) \/ Checks(w) \/ Claims(w)
                           \/ Persists(w) \/ GivesUp(w)

CaptureSpec == CaptureInit /\ [][CaptureNext]_captureVars

-----------------------------------------------------------------------------
(* Properties.                                                              *)

\* Types; a watcher watches for a launch of a session.
CaptureTypeOK ==
    /\ stored \in [CodexRows -> [status : {"running", "stopped"}, of : 0 .. MaxLaunches,
                              key : 0 .. Strange]]
    /\ launch \in [LaunchIds -> [owner : CodexRows \cup {Stranger},
                                 state : {"none", "pending", "live", "dead", "gone"},
                                 resumes : BOOLEAN, marked : BOOLEAN]]
    /\ launches \in 0 .. MaxLaunches /\ forks \in Nat
    /\ born \in [LaunchIds -> Nat] /\ rollout \in [Rollouts -> Nat]
    /\ watcher \in [Watchers -> [pc : {"none", "poll", "row", "claim", "persist"},
                                 of : 0 .. MaxLaunches, found : 0 .. Strange]]
    /\ \A w \in Watchers : watcher[w].pc # "none" =>
          watcher[w].of \in LaunchIds /\ OwnerOf(w) \in CodexRows
    /\ claimed \in [Rollouts -> CodexRows \cup {Stranger}]
    /\ appRuns \in Nat

\* Two sessions never get one conversation, however their watchers overlap and
\* although the claims are forgotten when the app ends.
KeysAreNotShared ==
    \A r, s \in CodexRows : r # s /\ stored[r].key # 0 => stored[r].key # stored[s].key

\* While a session runs and has no key, no other session has taken the rollout of
\* its process: the guess about a lonely rollout waits for every sibling that could
\* have written it.
NobodyIsRobbed ==
    \A s \in CodexRows :
        Unkeyed(s) /\ Written(stored[s].of) =>
            /\ claimed[stored[s].of] \in {s, Stranger}
            /\ \A r \in CodexRows \ {s} : stored[r].key # stored[s].of

\* A session that was launched without a conversation never comes to hold one that
\* is older than its launch: a watcher that outlived a fresh restart stores nothing.
FreshStaysFresh ==
    \A r \in CodexRows :
        stored[r].key # 0 /\ ~launch[stored[r].of].resumes =>
            rollout[stored[r].key] >= born[stored[r].of]
=============================================================================
