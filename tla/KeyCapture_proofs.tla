-------------------------- MODULE KeyCapture_proofs --------------------------
(***************************************************************************)
(* Proofs about KeyCapture, for any sessions, watchers, launches and runs  *)
(* of the app.                                                             *)
(***************************************************************************)
EXTENDS KeyCapture, TLAPS

\* Launches are numbered as they come; what was written was launched and forked.
LaunchInv ==
    /\ \A n \in LaunchIds : n <= launches <=> launch[n].state # "none"
    /\ \A n \in LaunchIds : launch[n].state \in {"none", "pending"} => born[n] = 0
    /\ \A n \in LaunchIds : Written(n) => n <= launches
    /\ \A n \in Rollouts : rollout[n] <= forks

\* A row's launch is the row's; a launch without a conversation starts without a key.
RowInv ==
    \A r \in CodexRows :
        /\ stored[r].of <= launches
        /\ stored[r].of # 0 => launch[stored[r].of].owner = r
        /\ stored[r].key # 0 => stored[r].of # 0 /\ Written(stored[r].key)
        /\ stored[r].of # 0 /\ launch[stored[r].of].state = "pending" /\ ~launch[stored[r].of].resumes
             => stored[r].key = 0

\* A watcher's launch is of this run of the app and has been forked; what it found is
\* not older.  What it is about to store is claimed for its session, and nobody has it.
WatchInv ==
    \A w \in Watchers : watcher[w].pc # "none" =>
        /\ launch[watcher[w].of].state \in {"live", "dead"} /\ born[watcher[w].of] # 0
        /\ watcher[w].pc # "poll" =>
              /\ watcher[w].found # 0 /\ Written(watcher[w].found)
              /\ rollout[watcher[w].found] >= born[watcher[w].of]
        /\ watcher[w].pc = "persist" =>
              /\ claimed[watcher[w].found] = OwnerOf(w)
              /\ \A r \in CodexRows : stored[r].key # watcher[w].found
              /\ \A v \in Watchers \ {w} : watcher[v].pc = "persist"
                                           => watcher[v].found # watcher[w].found

\* Too old for every process of this run of the app.
Old(k) == \A n \in LaunchIds :
              born[n] # 0 /\ launch[n].state \in {"live", "dead"} => rollout[k] < born[n]

\* A key is claimed for its session, or is from an earlier run of the app.
ClaimInv ==
    /\ \A k \in Rollouts : claimed[k] # Stranger => Written(k)
    /\ \A r \in CodexRows : stored[r].key # 0 => claimed[stored[r].key] = r \/ Old(stored[r].key)

\* The process of session s runs, has no key, and is the one that wrote k.
Waits(s, k) == Unkeyed(s) /\ stored[s].of = k

\* A session that waits for its rollout is the only one to claim or have it.
RobInv ==
    /\ \A k \in Rollouts : \A s \in CodexRows :
          Waits(s, k) => claimed[k] \in {s, Stranger}
    /\ \A r, s \in CodexRows : r # s /\ stored[r].key # 0 => ~Waits(s, stored[r].key)
    /\ \A w \in Watchers : watcher[w].pc \in {"claim", "persist"} =>
          \A s \in CodexRows : Waits(s, watcher[w].found) => s = OwnerOf(w)

\* A session that runs was launched.
RunningInv == \A r \in CodexRows : stored[r].status = "running" => stored[r].of # 0

CaptureInv ==
    /\ CaptureTypeOK /\ RunningInv /\ LaunchInv /\ RowInv /\ WatchInv /\ ClaimInv /\ RobInv
    /\ KeysAreNotShared /\ FreshStaysFresh

-----------------------------------------------------------------------------
(* The initial state.                                                      *)

\* The invariant holds when the app is first opened.
LEMMA CaptureStarts == CaptureInit => CaptureInv
<1> SUFFICES ASSUME CaptureInit PROVE CaptureInv
  OBVIOUS
<1>1. CaptureTypeOK
  BY CaptureAssumption DEF CaptureInit, CaptureTypeOK, CaptureAssumption, NoLaunch, NoWatch,
     LaunchIds, Rollouts, Strange
<1>2. LaunchInv /\ RowInv
  BY CaptureAssumption DEF CaptureInit, CaptureAssumption, LaunchInv, RowInv, NoLaunch, LaunchIds,
     Rollouts, Strange, Written
<1>3. WatchInv /\ ClaimInv /\ RobInv
  BY DEF CaptureInit, WatchInv, ClaimInv, RobInv, NoWatch, Waits, Unkeyed
<1>4. KeysAreNotShared /\ FreshStaysFresh /\ RunningInv
  BY DEF CaptureInit, KeysAreNotShared, FreshStaysFresh, RunningInv
<1> QED
  BY <1>1, <1>2, <1>3, <1>4 DEF CaptureInv

-----------------------------------------------------------------------------
(* Where each step takes its watcher.                                      *)

WatchSteps  == {"none", "poll", "row", "claim", "persist"}
WatchStates == [pc : WatchSteps, of : 0 .. MaxLaunches, found : 0 .. Strange]

\* Watcher w comes to be at pc, and no other watcher moves.
WatcherAt(w, pc, of, found) ==
    /\ watcher' \in [Watchers -> WatchStates]
    /\ watcher'[w].pc = pc /\ watcher'[w].of = of /\ watcher'[w].found = found
    /\ \A v \in Watchers \ {w} : watcher'[v] = watcher[v]

\* The two ways to move on, and the start and the end of a watch.
LEMMA WatcherMoves ==
    ASSUME CaptureTypeOK, NEW w \in Watchers
    PROVE  /\ \A pc \in WatchSteps :
                 Moves(w, pc) => WatcherAt(w, pc, watcher[w].of, watcher[w].found)
           /\ \A pc \in WatchSteps, n \in 0 .. Strange :
                 watcher' = [watcher EXCEPT ![w].pc = pc, ![w].found = n]
                   => WatcherAt(w, pc, watcher[w].of, n)
           /\ \A of \in 0 .. MaxLaunches :
                 watcher' = [watcher EXCEPT ![w] = [pc |-> "poll", of |-> of, found |-> 0]]
                   => WatcherAt(w, "poll", of, 0)
           /\ watcher' = [watcher EXCEPT ![w] = NoWatch] => WatcherAt(w, "none", 0, 0)
<1>1. watcher \in [Watchers -> WatchStates] /\ 0 \in 0 .. MaxLaunches /\ 0 \in 0 .. Strange
  BY CaptureAssumption DEF CaptureTypeOK, WatchStates, WatchSteps, CaptureAssumption, Strange
<1>2. ASSUME NEW pc \in WatchSteps, Moves(w, pc)
      PROVE  WatcherAt(w, pc, watcher[w].of, watcher[w].found)
  <2>1. [watcher[w] EXCEPT !.pc = pc]
          = [pc |-> pc, of |-> watcher[w].of, found |-> watcher[w].found]
    BY <1>1 DEF WatchStates
  <2>2. watcher' = [watcher EXCEPT ![w] = [watcher[w] EXCEPT !.pc = pc]]
    BY <1>1, <1>2 DEF Moves
  <2> QED
    BY <1>1, <2>1, <2>2 DEF WatcherAt, WatchStates
<1>3. ASSUME NEW pc \in WatchSteps, NEW n \in 0 .. Strange,
             watcher' = [watcher EXCEPT ![w].pc = pc, ![w].found = n]
      PROVE  WatcherAt(w, pc, watcher[w].of, n)
  <2> DEFINE mid == [pc |-> pc, of |-> watcher[w].of, found |-> watcher[w].found]
  <2>0. [watcher[w] EXCEPT !.pc = pc] = mid
    BY <1>1 DEF WatchStates
  <2>1. [watcher[w] EXCEPT !.pc = pc, !.found = n]
          = [pc |-> pc, of |-> watcher[w].of, found |-> n]
    <3>1. [mid EXCEPT !.found = n] = [pc |-> pc, of |-> watcher[w].of, found |-> n]
      OBVIOUS
    <3> HIDE DEF mid
    <3> QED
      BY <2>0, <3>1
  <2>2. watcher' = [watcher EXCEPT ![w] = [watcher[w] EXCEPT !.pc = pc, !.found = n]]
    BY <1>1, <1>3
  <2> QED
    BY <1>1, <2>1, <2>2 DEF WatcherAt, WatchStates
<1>4. \A of \in 0 .. MaxLaunches :
        watcher' = [watcher EXCEPT ![w] = [pc |-> "poll", of |-> of, found |-> 0]]
          => WatcherAt(w, "poll", of, 0)
  BY <1>1 DEF WatcherAt, WatchStates, WatchSteps
<1>5. watcher' = [watcher EXCEPT ![w] = NoWatch] => WatcherAt(w, "none", 0, 0)
  BY <1>1 DEF WatcherAt, WatchStates, WatchSteps, NoWatch
<1> QED
  BY <1>2, <1>3, <1>4, <1>5

\* Every step of a watcher, in these terms.
LEMMA WatcherActs ==
    ASSUME CaptureTypeOK, NEW w \in Watchers
    PROVE  /\ \A r \in CodexRows : Watches(w, r) => WatcherAt(w, "poll", stored[r].of, 0)
           /\ Proves(w) => WatcherAt(w, "claim", watcher[w].of, watcher[w].of)
           /\ Guesses(w) => \E n \in Candidates(w) : WatcherAt(w, "row", watcher[w].of, n)
           /\ Checks(w) => \/ Unambiguous(w)
                               /\ WatcherAt(w, "claim", watcher[w].of, watcher[w].found)
                           \/ WatcherAt(w, "poll", watcher[w].of, 0)
           /\ Claims(w) => \/ claimed' = claimed /\ WatcherAt(w, "poll", watcher[w].of, 0)
                           \/ /\ claimed[watcher[w].found] = Stranger
                              /\ claimed' = [claimed EXCEPT ![watcher[w].found] = OwnerOf(w)]
                              /\ WatcherAt(w, "persist", watcher[w].of, watcher[w].found)
           /\ Persists(w) => WatcherAt(w, "none", 0, 0)
           /\ GivesUp(w) => WatcherAt(w, "none", 0, 0)
<1>1. /\ \A pc \in WatchSteps :
            Moves(w, pc) => WatcherAt(w, pc, watcher[w].of, watcher[w].found)
      /\ \A pc \in WatchSteps, n \in 0 .. Strange :
            watcher' = [watcher EXCEPT ![w].pc = pc, ![w].found = n]
              => WatcherAt(w, pc, watcher[w].of, n)
      /\ \A of \in 0 .. MaxLaunches :
            watcher' = [watcher EXCEPT ![w] = [pc |-> "poll", of |-> of, found |-> 0]]
              => WatcherAt(w, "poll", of, 0)
      /\ watcher' = [watcher EXCEPT ![w] = NoWatch] => WatcherAt(w, "none", 0, 0)
  BY WatcherMoves
<1>2. /\ {"poll", "row", "claim", "persist"} \subseteq WatchSteps
      /\ Rollouts \subseteq 0 .. Strange /\ 0 \in 0 .. Strange
      /\ \A r \in CodexRows : stored[r].of \in 0 .. MaxLaunches
  BY CaptureAssumption DEF CaptureTypeOK, WatchSteps, CaptureAssumption, Strange, Rollouts
<1>3. Candidates(w) \subseteq Rollouts
  BY DEF Candidates
<1>4. \A r \in CodexRows : Watches(w, r) => WatcherAt(w, "poll", stored[r].of, 0)
  BY <1>1, <1>2 DEF Watches
<1>5. Proves(w) => WatcherAt(w, "claim", watcher[w].of, watcher[w].of)
  BY <1>1, <1>2, <1>3 DEF Proves
<1>6. Guesses(w) => \E n \in Candidates(w) : WatcherAt(w, "row", watcher[w].of, n)
  BY <1>1, <1>2, <1>3 DEF Guesses
<1>7. PollsAgain(w) => WatcherAt(w, "poll", watcher[w].of, 0)
  BY <1>1, <1>2 DEF PollsAgain
<1>8. Checks(w) => \/ Unambiguous(w)
                      /\ WatcherAt(w, "claim", watcher[w].of, watcher[w].found)
                  \/ WatcherAt(w, "poll", watcher[w].of, 0)
  BY <1>1, <1>2, <1>7 DEF Checks
<1>9. Claims(w) => \/ claimed' = claimed /\ WatcherAt(w, "poll", watcher[w].of, 0)
                  \/ /\ claimed[watcher[w].found] = Stranger
                     /\ claimed' = [claimed EXCEPT ![watcher[w].found] = OwnerOf(w)]
                     /\ WatcherAt(w, "persist", watcher[w].of, watcher[w].found)
  BY <1>1, <1>2, <1>7 DEF Claims
<1>10. (Persists(w) => WatcherAt(w, "none", 0, 0)) /\ (GivesUp(w) => WatcherAt(w, "none", 0, 0))
  BY <1>1 DEF Persists, GivesUp
<1> QED
  BY <1>4, <1>5, <1>6, <1>8, <1>9, <1>10

-----------------------------------------------------------------------------
(* What each step does to rows and launches.                               *)

RowStates    == [status : {"running", "stopped"}, of : 0 .. MaxLaunches, key : 0 .. Strange]
LaunchStates == [owner : CodexRows \cup {Stranger},
                 state : {"none", "pending", "live", "dead", "gone"},
                 resumes : BOOLEAN, marked : BOOLEAN]

RowAt(r, status, of, key) ==
    /\ stored' \in [CodexRows -> RowStates]
    /\ stored'[r].status = status /\ stored'[r].of = of /\ stored'[r].key = key
    /\ \A s \in CodexRows \ {r} : stored'[s] = stored[s]

LaunchAt(n, state, owner) ==
    /\ launch' \in [LaunchIds -> LaunchStates]
    /\ launch'[n].state = state /\ launch'[n].owner = owner
    /\ \A m \in LaunchIds \ {n} : launch'[m] = launch[m]

\* The row of a launch, of an exit, of the app's end, and of a key that is stored.
LEMMA RowActs ==
    ASSUME CaptureTypeOK
    PROVE  /\ \A r \in CodexRows, fresh \in BOOLEAN, marked \in Markers :
                Launches(r, fresh, marked) =>
                    RowAt(r, "running", launches + 1, IF fresh THEN 0 ELSE stored[r].key)
           /\ \A r \in CodexRows : RowSettles(r) => \/ RowAt(r, "stopped", stored[r].of, stored[r].key)
                                                     \/ RowAt(r, "stopped", stored[r].of, 0)
           /\ AppEnds => /\ stored' \in [CodexRows -> RowStates]
                         /\ \A r \in CodexRows : /\ stored'[r].status = "stopped"
                                                  /\ stored'[r].of = stored[r].of
                                                  /\ stored'[r].key = stored[r].key
           /\ \A w \in Watchers : Persists(w) =>
                \/ stored' = stored
                \/ /\ MayPersist(w) /\ OwnerOf(w) \in CodexRows
                   /\ RowAt(OwnerOf(w), stored[OwnerOf(w)].status, stored[OwnerOf(w)].of, watcher[w].found)
<1>1. stored \in [CodexRows -> RowStates] /\ 0 \in 0 .. Strange
  BY CaptureAssumption DEF CaptureTypeOK, RowStates, CaptureAssumption, Strange
<1>2. \A r \in CodexRows : stored[r] \in RowStates
  BY <1>1
<1>3. ASSUME NEW r \in CodexRows, NEW new \in RowStates, stored' = [stored EXCEPT ![r] = new]
      PROVE  RowAt(r, new.status, new.of, new.key)
  BY <1>1, <1>3 DEF RowAt
<1>4. ASSUME NEW r \in CodexRows, NEW fresh \in BOOLEAN, NEW marked \in Markers,
             Launches(r, fresh, marked)
      PROVE  RowAt(r, "running", launches + 1, IF fresh THEN 0 ELSE stored[r].key)
  <2> DEFINE new == [status |-> "running", of |-> launches + 1,
                     key |-> IF fresh THEN 0 ELSE stored[r].key]
  <2>1. launches + 1 \in 0 .. MaxLaunches
    BY <1>4, CaptureAssumption DEF Launches, CaptureTypeOK, CaptureAssumption
  <2>2. (IF fresh THEN 0 ELSE stored[r].key) \in 0 .. Strange
    BY <1>1, <1>2 DEF RowStates
  <2>3. new \in RowStates
    BY <2>1, <2>2 DEF RowStates
  <2>4. stored' = [stored EXCEPT ![r] = new]
    BY <1>4 DEF Launches
  <2>5. new.status = "running" /\ new.of = launches + 1 /\ new.key = IF fresh THEN 0 ELSE stored[r].key
    OBVIOUS
  <2> HIDE DEF new
  <2>6. RowAt(r, new.status, new.of, new.key)
    BY <1>3, <2>3, <2>4
  <2> QED
    BY <2>5, <2>6
<1>5. ASSUME NEW r \in CodexRows, RowSettles(r)
      PROVE  \/ RowAt(r, "stopped", stored[r].of, stored[r].key)
             \/ RowAt(r, "stopped", stored[r].of, 0)
  <2>1. \A key \in 0 .. Strange : [status |-> "stopped", of |-> stored[r].of, key |-> key] \in RowStates
    BY <1>2 DEF RowStates
  <2>2. stored[r].key \in 0 .. Strange
    BY <1>2 DEF RowStates
  <2>3. CASE stored' = [stored EXCEPT ![r].status = "stopped"]
    <3> DEFINE new == [status |-> "stopped", of |-> stored[r].of, key |-> stored[r].key]
    <3>1. [stored[r] EXCEPT !.status = "stopped"] = new
      BY <1>2 DEF RowStates
    <3>2. stored' = [stored EXCEPT ![r] = new] /\ new \in RowStates
      BY <1>1, <2>1, <2>2, <2>3, <3>1
    <3> HIDE DEF new
    <3>3. RowAt(r, new.status, new.of, new.key)
      BY <1>3, <3>2
    <3> QED
      BY <3>3 DEF new
  <2>4. CASE stored' = [stored EXCEPT ![r].status = "stopped", ![r].key = 0]
    <3> DEFINE new == [status |-> "stopped", of |-> stored[r].of, key |-> 0]
    <3> DEFINE mid == [status |-> "stopped", of |-> stored[r].of, key |-> stored[r].key]
    <3>0. [stored[r] EXCEPT !.status = "stopped"] = mid
      BY <1>2 DEF RowStates
    <3>1. [stored[r] EXCEPT !.status = "stopped", !.key = 0] = new
      <4>1. [mid EXCEPT !.key = 0] = new
        OBVIOUS
      <4> HIDE DEF mid, new
      <4> QED
        BY <3>0, <4>1
    <3>2. stored' = [stored EXCEPT ![r] = [stored[r] EXCEPT !.status = "stopped", !.key = 0]]
      BY <1>1, <2>4
    <3>3. stored' = [stored EXCEPT ![r] = new] /\ new \in RowStates
      BY <1>1, <2>1, <3>1, <3>2
    <3> HIDE DEF new
    <3>4. RowAt(r, new.status, new.of, new.key)
      BY <1>3, <3>3
    <3> QED
      BY <3>4 DEF new
  <2> QED
    BY <1>5, <2>3, <2>4 DEF RowSettles
<1>6. ASSUME AppEnds
      PROVE  /\ stored' \in [CodexRows -> RowStates]
             /\ \A r \in CodexRows : /\ stored'[r].status = "stopped" /\ stored'[r].of = stored[r].of
                                      /\ stored'[r].key = stored[r].key
  <2>1. \A r \in CodexRows :
           /\ [stored[r] EXCEPT !.status = "stopped"] \in RowStates
           /\ [stored[r] EXCEPT !.status = "stopped"].status = "stopped"
           /\ [stored[r] EXCEPT !.status = "stopped"].of = stored[r].of
           /\ [stored[r] EXCEPT !.status = "stopped"].key = stored[r].key
    BY <1>2 DEF RowStates
  <2>2. stored' = [r \in CodexRows |-> [stored[r] EXCEPT !.status = "stopped"]]
    BY <1>6 DEF AppEnds
  <2> QED
    BY <2>1, <2>2
<1>7. ASSUME NEW w \in Watchers, Persists(w)
      PROVE  \/ stored' = stored
             \/ /\ MayPersist(w) /\ OwnerOf(w) \in CodexRows
                /\ RowAt(OwnerOf(w), stored[OwnerOf(w)].status, stored[OwnerOf(w)].of, watcher[w].found)
  <2>1. OwnerOf(w) \in CodexRows /\ watcher[w].found \in 0 .. Strange
    BY <1>7 DEF Persists, CaptureTypeOK
  <2>2. CASE stored' = [stored EXCEPT ![OwnerOf(w)].key = watcher[w].found] /\ MayPersist(w)
    <3> DEFINE r == OwnerOf(w)
               new == [status |-> stored[r].status, of |-> stored[r].of, key |-> watcher[w].found]
    <3> HIDE DEF r
    <3>0. r \in CodexRows /\ stored' = [stored EXCEPT ![r].key = watcher[w].found]
      BY <2>1, <2>2 DEF r
    <3>1. [stored[r] EXCEPT !.key = watcher[w].found] = new
      BY <1>2, <3>0 DEF RowStates
    <3>2. stored' = [stored EXCEPT ![r] = new] /\ new \in RowStates
      BY <1>1, <1>2, <2>1, <3>0, <3>1 DEF RowStates
    <3> HIDE DEF new
    <3>3. RowAt(r, new.status, new.of, new.key)
      BY <1>3, <3>0, <3>2
    <3> QED
      BY <2>1, <2>2, <3>3 DEF new, r
  <2> QED
    BY <1>7, <2>2 DEF Persists
<1> QED
  BY <1>4, <1>5, <1>6, <1>7

\* The launch of a launch, a fork, a process's end, and of the app's end.
LEMMA LaunchActs ==
    ASSUME CaptureTypeOK
    PROVE  /\ \A r \in CodexRows, fresh \in BOOLEAN, marked \in Markers :
                Launches(r, fresh, marked) =>
                    /\ launches + 1 \in LaunchIds /\ LaunchAt(launches + 1, "pending", r)
                    /\ launch'[launches + 1].resumes <=> ~fresh /\ stored[r].key # 0
           /\ \A n \in LaunchIds :
                /\ Forks(n) => /\ LaunchAt(n, "live", launch[n].owner)
                               /\ launch'[n].resumes <=> launch[n].resumes
                /\ ProcessEnds(n) => /\ LaunchAt(n, "dead", launch[n].owner)
                                     /\ launch'[n].resumes <=> launch[n].resumes
           /\ AppEnds => /\ launch' \in [LaunchIds -> LaunchStates]
                         /\ \A n \in LaunchIds :
                              IF launch[n].state = "none" THEN launch'[n].state = "none"
                              ELSE /\ launch'[n].state = "gone"
                                   /\ launch'[n].owner = launch[n].owner
                                   /\ launch'[n].resumes <=> launch[n].resumes
<1>1. launch \in [LaunchIds -> LaunchStates] /\ \A n \in LaunchIds : launch[n] \in LaunchStates
  BY DEF CaptureTypeOK, LaunchStates
<1>2. ASSUME NEW n \in LaunchIds, NEW new \in LaunchStates, launch' = [launch EXCEPT ![n] = new]
      PROVE  LaunchAt(n, new.state, new.owner) /\ launch'[n] = new
  BY <1>1, <1>2 DEF LaunchAt
<1>3. ASSUME NEW r \in CodexRows, NEW fresh \in BOOLEAN, NEW marked \in Markers,
             Launches(r, fresh, marked)
      PROVE  /\ launches + 1 \in LaunchIds /\ LaunchAt(launches + 1, "pending", r)
             /\ launch'[launches + 1].resumes <=> ~fresh /\ stored[r].key # 0
  <2> DEFINE resumes == (IF fresh THEN 0 ELSE stored[r].key) # 0
             new == [owner |-> r, state |-> "pending", resumes |-> resumes, marked |-> marked]
  <2>1. launches + 1 \in LaunchIds
    BY <1>3, CaptureAssumption DEF Launches, CaptureTypeOK, CaptureAssumption, LaunchIds
  <2>2. resumes \in BOOLEAN /\ marked \in BOOLEAN /\ (resumes <=> ~fresh /\ stored[r].key # 0)
    BY CaptureAssumption DEF CaptureAssumption
  <2>3. launch' = [launch EXCEPT ![launches + 1] = new]
    BY <1>3 DEF Launches
  <2> HIDE DEF resumes
  <2>4. /\ new \in LaunchStates /\ new.state = "pending" /\ new.owner = r
        /\ new.resumes = resumes
    BY <2>2 DEF LaunchStates
  <2> HIDE DEF new
  <2>5. LaunchAt(launches + 1, new.state, new.owner) /\ launch'[launches + 1] = new
    BY <1>2, <2>1, <2>3, <2>4
  <2> QED
    BY <2>1, <2>2, <2>4, <2>5
<1>4. ASSUME NEW n \in LaunchIds, NEW state \in {"live", "dead"},
             launch' = [launch EXCEPT ![n].state = state]
      PROVE  /\ LaunchAt(n, state, launch[n].owner)
             /\ launch'[n].resumes <=> launch[n].resumes
  <2> DEFINE new == [launch[n] EXCEPT !.state = state]
  <2>1. /\ new \in LaunchStates /\ new.state = state /\ new.owner = launch[n].owner
        /\ new.resumes = launch[n].resumes
    BY <1>1 DEF LaunchStates
  <2>2. launch' = [launch EXCEPT ![n] = new]
    BY <1>1, <1>4
  <2> HIDE DEF new
  <2>3. LaunchAt(n, new.state, new.owner) /\ launch'[n] = new
    BY <1>2, <2>1, <2>2
  <2> QED
    BY <2>1, <2>3
<1>5. ASSUME NEW n \in LaunchIds
      PROVE  /\ Forks(n) => /\ LaunchAt(n, "live", launch[n].owner)
                            /\ launch'[n].resumes <=> launch[n].resumes
             /\ ProcessEnds(n) => /\ LaunchAt(n, "dead", launch[n].owner)
                                  /\ launch'[n].resumes <=> launch[n].resumes
  <2>1. Forks(n) => launch' = [launch EXCEPT ![n].state = "live"]
    BY DEF Forks
  <2>2. ProcessEnds(n) => launch' = [launch EXCEPT ![n].state = "dead"]
    BY DEF ProcessEnds
  <2> QED
    BY <1>4, <2>1, <2>2
<1>6. ASSUME AppEnds
      PROVE  /\ launch' \in [LaunchIds -> LaunchStates]
             /\ \A n \in LaunchIds :
                  IF launch[n].state = "none" THEN launch'[n].state = "none"
                  ELSE /\ launch'[n].state = "gone"
                       /\ launch'[n].owner = launch[n].owner
                       /\ launch'[n].resumes <=> launch[n].resumes
  <2>1. NoLaunch \in LaunchStates /\ NoLaunch.state = "none"
    BY DEF NoLaunch, LaunchStates
  <2>2. \A n \in LaunchIds :
           /\ [launch[n] EXCEPT !.state = "gone"] \in LaunchStates
           /\ [launch[n] EXCEPT !.state = "gone"].state = "gone"
           /\ [launch[n] EXCEPT !.state = "gone"].owner = launch[n].owner
           /\ [launch[n] EXCEPT !.state = "gone"].resumes = launch[n].resumes
    BY <1>1 DEF LaunchStates
  <2>3. launch' = [n \in LaunchIds |-> IF launch[n].state = "none" THEN NoLaunch
                                        ELSE [launch[n] EXCEPT !.state = "gone"]]
    BY <1>6 DEF AppEnds
  <2> QED
    BY <2>1, <2>2, <2>3
<1> QED
  BY <1>3, <1>5, <1>6

-----------------------------------------------------------------------------
(* Types.                                                                  *)


\* Types stay, and a watcher keeps the owner of its launch.
LEMMA CaptureTypes ==
    ASSUME CaptureTypeOK, LaunchInv, RowInv, WatchInv, CaptureNext
    PROVE  CaptureTypeOK'
<1>1. /\ stored \in [CodexRows -> RowStates] /\ launch \in [LaunchIds -> LaunchStates]
      /\ launches \in 0 .. MaxLaunches /\ forks \in Nat
      /\ born \in [LaunchIds -> Nat] /\ rollout \in [Rollouts -> Nat]
      /\ watcher \in [Watchers -> WatchStates]
      /\ \A w \in Watchers : watcher[w].pc # "none" =>
            watcher[w].of \in LaunchIds /\ OwnerOf(w) \in CodexRows
      /\ claimed \in [Rollouts -> CodexRows \cup {Stranger}]
      /\ appRuns \in Nat
  BY DEF CaptureTypeOK, RowStates, LaunchStates, WatchStates, WatchSteps
<1>2. /\ Stranger \notin CodexRows /\ Markers \subseteq BOOLEAN /\ MaxLaunches \in Nat
      /\ Strange = MaxLaunches + 1 /\ LaunchIds = 1 .. MaxLaunches
      /\ Rollouts = 1 .. MaxLaunches + 1
  BY CaptureAssumption DEF CaptureAssumption, Strange, LaunchIds, Rollouts
<1>3. \A w \in Watchers : watcher[w].pc # "none" => launch[watcher[w].of].state \in {"live", "dead"}
  BY DEF WatchInv
<1>4. \A n \in LaunchIds : n <= launches <=> launch[n].state # "none"
  BY DEF LaunchInv
<1>5. \A r \in CodexRows : stored[r].of # 0 => launch[stored[r].of].owner = r
  BY DEF RowInv
<1>6. ASSUME NEW r \in CodexRows, NEW fresh \in BOOLEAN, NEW marked \in Markers,
             Launches(r, fresh, marked)
      PROVE  CaptureTypeOK'
  <2>1. stored' \in [CodexRows -> RowStates]
    BY <1>1, <1>6, RowActs DEF Launches, RowAt
  <2>2. launch' \in [LaunchIds -> LaunchStates]
    BY <1>1, <1>6, LaunchActs DEF Launches, LaunchAt
  <2>3. /\ launches' \in 0 .. MaxLaunches /\ forks' \in Nat /\ appRuns' \in Nat
        /\ born' \in [LaunchIds -> Nat] /\ rollout' \in [Rollouts -> Nat]
        /\ claimed' \in [Rollouts -> CodexRows \cup {Stranger}]
    BY <1>1, <1>2, <1>6 DEF Launches
  <2>4. watcher' \in [Watchers -> WatchStates]
    BY <1>1, <1>2, <1>6 DEF Launches, NoWatch, WatchStates, WatchSteps
  <2>5. \A v \in Watchers : watcher'[v].pc # "none" =>
          watcher'[v].of \in LaunchIds /\ launch'[watcher'[v].of].owner \in CodexRows
    BY <1>1, <1>2, <1>3, <1>4, <1>5, <1>6, LaunchActs DEF Launches, LaunchAt, NoWatch, OwnerOf
  <2> QED
    BY <2>1, <2>2, <2>3, <2>4, <2>5
    DEF CaptureTypeOK, OwnerOf, RowStates, LaunchStates, WatchStates, WatchSteps
<1>7. ASSUME NEW n \in LaunchIds, Forks(n) PROVE CaptureTypeOK'
  <2>1. stored' \in [CodexRows -> RowStates]
    BY <1>1, <1>7, RowActs DEF Forks, RowAt
  <2>2. launch' \in [LaunchIds -> LaunchStates]
    BY <1>1, <1>7, LaunchActs DEF Forks, LaunchAt
  <2>3. /\ launches' \in 0 .. MaxLaunches /\ forks' \in Nat /\ appRuns' \in Nat
        /\ born' \in [LaunchIds -> Nat] /\ rollout' \in [Rollouts -> Nat]
        /\ claimed' \in [Rollouts -> CodexRows \cup {Stranger}]
    BY <1>1, <1>2, <1>7 DEF Forks
  <2>4. watcher' \in [Watchers -> WatchStates]
    BY <1>1, <1>2, <1>7 DEF Forks, NoWatch, WatchStates, WatchSteps
  <2>5. \A v \in Watchers : watcher'[v].pc # "none" =>
          watcher'[v].of \in LaunchIds /\ launch'[watcher'[v].of].owner \in CodexRows
    BY <1>1, <1>2, <1>3, <1>4, <1>5, <1>7, LaunchActs DEF Forks, LaunchAt, NoWatch, OwnerOf
  <2> QED
    BY <2>1, <2>2, <2>3, <2>4, <2>5
    DEF CaptureTypeOK, OwnerOf, RowStates, LaunchStates, WatchStates, WatchSteps
<1>8. ASSUME NEW n \in LaunchIds, ProcessEnds(n) PROVE CaptureTypeOK'
  <2>1. stored' \in [CodexRows -> RowStates]
    BY <1>1, <1>8, RowActs DEF ProcessEnds, RowAt
  <2>2. launch' \in [LaunchIds -> LaunchStates]
    BY <1>1, <1>8, LaunchActs DEF ProcessEnds, LaunchAt
  <2>3. /\ launches' \in 0 .. MaxLaunches /\ forks' \in Nat /\ appRuns' \in Nat
        /\ born' \in [LaunchIds -> Nat] /\ rollout' \in [Rollouts -> Nat]
        /\ claimed' \in [Rollouts -> CodexRows \cup {Stranger}]
    BY <1>1, <1>2, <1>8 DEF ProcessEnds
  <2>4. watcher' \in [Watchers -> WatchStates]
    BY <1>1, <1>2, <1>8 DEF ProcessEnds, NoWatch, WatchStates, WatchSteps
  <2>5. \A v \in Watchers : watcher'[v].pc # "none" =>
          watcher'[v].of \in LaunchIds /\ launch'[watcher'[v].of].owner \in CodexRows
    BY <1>1, <1>2, <1>3, <1>4, <1>5, <1>8, LaunchActs DEF ProcessEnds, LaunchAt, NoWatch, OwnerOf
  <2> QED
    BY <2>1, <2>2, <2>3, <2>4, <2>5
    DEF CaptureTypeOK, OwnerOf, RowStates, LaunchStates, WatchStates, WatchSteps
<1>9. ASSUME NEW r \in CodexRows, RowSettles(r) PROVE CaptureTypeOK'
  <2>1. stored' \in [CodexRows -> RowStates]
    BY <1>1, <1>9, RowActs DEF RowSettles, RowAt
  <2>2. launch' \in [LaunchIds -> LaunchStates]
    BY <1>1, <1>9, LaunchActs DEF RowSettles, LaunchAt
  <2>3. /\ launches' \in 0 .. MaxLaunches /\ forks' \in Nat /\ appRuns' \in Nat
        /\ born' \in [LaunchIds -> Nat] /\ rollout' \in [Rollouts -> Nat]
        /\ claimed' \in [Rollouts -> CodexRows \cup {Stranger}]
    BY <1>1, <1>2, <1>9 DEF RowSettles
  <2>4. watcher' \in [Watchers -> WatchStates]
    BY <1>1, <1>2, <1>9 DEF RowSettles, NoWatch, WatchStates, WatchSteps
  <2>5. \A v \in Watchers : watcher'[v].pc # "none" =>
          watcher'[v].of \in LaunchIds /\ launch'[watcher'[v].of].owner \in CodexRows
    BY <1>1, <1>2, <1>3, <1>4, <1>5, <1>9, LaunchActs DEF RowSettles, LaunchAt, NoWatch, OwnerOf
  <2> QED
    BY <2>1, <2>2, <2>3, <2>4, <2>5
    DEF CaptureTypeOK, OwnerOf, RowStates, LaunchStates, WatchStates, WatchSteps
<1>10. ASSUME NEW n \in LaunchIds, WritesRollout(n) PROVE CaptureTypeOK'
  <2>1. stored' \in [CodexRows -> RowStates]
    BY <1>1, <1>10, RowActs DEF WritesRollout, RowAt
  <2>2. launch' \in [LaunchIds -> LaunchStates]
    BY <1>1, <1>10, LaunchActs DEF WritesRollout, LaunchAt
  <2>3. /\ launches' \in 0 .. MaxLaunches /\ forks' \in Nat /\ appRuns' \in Nat
        /\ born' \in [LaunchIds -> Nat] /\ rollout' \in [Rollouts -> Nat]
        /\ claimed' \in [Rollouts -> CodexRows \cup {Stranger}]
    BY <1>1, <1>2, <1>10 DEF WritesRollout
  <2>4. watcher' \in [Watchers -> WatchStates]
    BY <1>1, <1>2, <1>10 DEF WritesRollout, NoWatch, WatchStates, WatchSteps
  <2>5. \A v \in Watchers : watcher'[v].pc # "none" =>
          watcher'[v].of \in LaunchIds /\ launch'[watcher'[v].of].owner \in CodexRows
    BY <1>1, <1>2, <1>3, <1>4, <1>5, <1>10, LaunchActs DEF WritesRollout, LaunchAt, NoWatch, OwnerOf
  <2> QED
    BY <2>1, <2>2, <2>3, <2>4, <2>5
    DEF CaptureTypeOK, OwnerOf, RowStates, LaunchStates, WatchStates, WatchSteps
<1>11. ASSUME StrangerWrites PROVE CaptureTypeOK'
  <2>1. stored' \in [CodexRows -> RowStates]
    BY <1>1, <1>11, RowActs DEF StrangerWrites, RowAt
  <2>2. launch' \in [LaunchIds -> LaunchStates]
    BY <1>1, <1>11, LaunchActs DEF StrangerWrites, LaunchAt
  <2>3. /\ launches' \in 0 .. MaxLaunches /\ forks' \in Nat /\ appRuns' \in Nat
        /\ born' \in [LaunchIds -> Nat] /\ rollout' \in [Rollouts -> Nat]
        /\ claimed' \in [Rollouts -> CodexRows \cup {Stranger}]
    BY <1>1, <1>2, <1>11 DEF StrangerWrites
  <2>4. watcher' \in [Watchers -> WatchStates]
    BY <1>1, <1>2, <1>11 DEF StrangerWrites, NoWatch, WatchStates, WatchSteps
  <2>5. \A v \in Watchers : watcher'[v].pc # "none" =>
          watcher'[v].of \in LaunchIds /\ launch'[watcher'[v].of].owner \in CodexRows
    BY <1>1, <1>2, <1>3, <1>4, <1>5, <1>11, LaunchActs
       DEF StrangerWrites, LaunchAt, NoWatch, OwnerOf
  <2> QED
    BY <2>1, <2>2, <2>3, <2>4, <2>5
    DEF CaptureTypeOK, OwnerOf, RowStates, LaunchStates, WatchStates, WatchSteps
<1>12. ASSUME AppEnds PROVE CaptureTypeOK'
  <2>1. stored' \in [CodexRows -> RowStates]
    BY <1>1, <1>12, RowActs DEF AppEnds, RowAt
  <2>2. launch' \in [LaunchIds -> LaunchStates]
    BY <1>1, <1>12, LaunchActs DEF AppEnds, LaunchAt
  <2>3. /\ launches' \in 0 .. MaxLaunches /\ forks' \in Nat /\ appRuns' \in Nat
        /\ born' \in [LaunchIds -> Nat] /\ rollout' \in [Rollouts -> Nat]
        /\ claimed' \in [Rollouts -> CodexRows \cup {Stranger}]
    BY <1>1, <1>2, <1>12 DEF AppEnds
  <2>4. watcher' \in [Watchers -> WatchStates]
    BY <1>1, <1>2, <1>12 DEF AppEnds, NoWatch, WatchStates, WatchSteps
  <2>5. \A v \in Watchers : watcher'[v].pc # "none" =>
          watcher'[v].of \in LaunchIds /\ launch'[watcher'[v].of].owner \in CodexRows
    BY <1>1, <1>2, <1>3, <1>4, <1>5, <1>12, LaunchActs DEF AppEnds, LaunchAt, NoWatch, OwnerOf
  <2> QED
    BY <2>1, <2>2, <2>3, <2>4, <2>5
    DEF CaptureTypeOK, OwnerOf, RowStates, LaunchStates, WatchStates, WatchSteps
<1>13. ASSUME NEW w \in Watchers, NEW r \in CodexRows, Watches(w, r) PROVE CaptureTypeOK'
  <2>0. WatcherAt(w, "poll", stored[r].of, 0)
    BY <1>13, WatcherActs
  <2>5. watcher' \in [Watchers -> WatchStates]
    BY <2>0 DEF WatcherAt
  <2>6. stored[r].of \in LaunchIds /\ launch[stored[r].of].owner = r
    <3>1. stored[r].of \in 0 .. MaxLaunches /\ stored[r].of # 0
      BY <1>1, <1>13 DEF Watches, RowStates
    <3> QED
      BY <1>2, <1>5, <3>1
  <2>2. claimed' \in [Rollouts -> CodexRows \cup {Stranger}]
    BY <1>1, <1>13 DEF Watches
  <2>3. /\ stored' = stored /\ launch' = launch /\ launches' = launches /\ forks' = forks
        /\ born' = born /\ rollout' = rollout /\ appRuns' = appRuns
    BY <1>13 DEF Watches, WatchersOnly
  <2>4. \A v \in Watchers : watcher'[v].pc # "none" =>
          watcher'[v].of \in LaunchIds /\ launch'[watcher'[v].of].owner \in CodexRows
    BY <1>1, <2>0, <2>6, <2>3 DEF WatcherAt, OwnerOf
  <2> QED
    BY <1>1, <2>2, <2>3, <2>4, <2>5
       DEF CaptureTypeOK, OwnerOf, RowStates, LaunchStates, WatchStates, WatchSteps
<1>14. ASSUME NEW w \in Watchers, Proves(w) PROVE CaptureTypeOK'
  <2>1. PICK pc, of, found : /\ WatcherAt(w, pc, of, found)
                             /\ pc = "none" \/ (of \in LaunchIds /\ launch[of].owner \in CodexRows)
    BY <1>1, <1>2, <1>3, <1>4, <1>5, <1>14, WatcherActs DEF Proves, OwnerOf
  <2>5. watcher' \in [Watchers -> WatchStates]
    BY <2>1 DEF WatcherAt
  <2>2. claimed' \in [Rollouts -> CodexRows \cup {Stranger}]
    BY <1>1, <1>14 DEF Proves
  <2>3. /\ stored' = stored /\ launch' = launch /\ launches' = launches /\ forks' = forks
        /\ born' = born /\ rollout' = rollout /\ appRuns' = appRuns
    BY <1>14 DEF Proves, WatchersOnly
  <2>4. \A v \in Watchers : watcher'[v].pc # "none" =>
          watcher'[v].of \in LaunchIds /\ launch'[watcher'[v].of].owner \in CodexRows
    BY <1>1, <2>1, <2>3 DEF WatcherAt, OwnerOf
  <2> QED
    BY <1>1, <2>2, <2>3, <2>4, <2>5
       DEF CaptureTypeOK, OwnerOf, RowStates, LaunchStates, WatchStates, WatchSteps
<1>15. ASSUME NEW w \in Watchers, Guesses(w) PROVE CaptureTypeOK'
  <2>1. PICK pc, of, found : /\ WatcherAt(w, pc, of, found)
                             /\ pc = "none" \/ (of \in LaunchIds /\ launch[of].owner \in CodexRows)
    BY <1>1, <1>2, <1>3, <1>4, <1>5, <1>15, WatcherActs DEF Guesses, OwnerOf
  <2>5. watcher' \in [Watchers -> WatchStates]
    BY <2>1 DEF WatcherAt
  <2>2. claimed' \in [Rollouts -> CodexRows \cup {Stranger}]
    BY <1>1, <1>15 DEF Guesses
  <2>3. /\ stored' = stored /\ launch' = launch /\ launches' = launches /\ forks' = forks
        /\ born' = born /\ rollout' = rollout /\ appRuns' = appRuns
    BY <1>15 DEF Guesses, WatchersOnly
  <2>4. \A v \in Watchers : watcher'[v].pc # "none" =>
          watcher'[v].of \in LaunchIds /\ launch'[watcher'[v].of].owner \in CodexRows
    BY <1>1, <2>1, <2>3 DEF WatcherAt, OwnerOf
  <2> QED
    BY <1>1, <2>2, <2>3, <2>4, <2>5
       DEF CaptureTypeOK, OwnerOf, RowStates, LaunchStates, WatchStates, WatchSteps
<1>16. ASSUME NEW w \in Watchers, Checks(w) PROVE CaptureTypeOK'
  <2>1. PICK pc, of, found : /\ WatcherAt(w, pc, of, found)
                             /\ pc = "none" \/ (of \in LaunchIds /\ launch[of].owner \in CodexRows)
    BY <1>1, <1>2, <1>3, <1>4, <1>5, <1>16, WatcherActs DEF Checks, OwnerOf
  <2>5. watcher' \in [Watchers -> WatchStates]
    BY <2>1 DEF WatcherAt
  <2>2. claimed' \in [Rollouts -> CodexRows \cup {Stranger}]
    BY <1>1, <1>16 DEF Checks
  <2>3. /\ stored' = stored /\ launch' = launch /\ launches' = launches /\ forks' = forks
        /\ born' = born /\ rollout' = rollout /\ appRuns' = appRuns
    BY <1>16 DEF Checks, WatchersOnly
  <2>4. \A v \in Watchers : watcher'[v].pc # "none" =>
          watcher'[v].of \in LaunchIds /\ launch'[watcher'[v].of].owner \in CodexRows
    BY <1>1, <2>1, <2>3 DEF WatcherAt, OwnerOf
  <2> QED
    BY <1>1, <2>2, <2>3, <2>4, <2>5
       DEF CaptureTypeOK, OwnerOf, RowStates, LaunchStates, WatchStates, WatchSteps
<1>17. ASSUME NEW w \in Watchers, Claims(w) PROVE CaptureTypeOK'
  <2>1. PICK pc, of, found : /\ WatcherAt(w, pc, of, found)
                             /\ pc = "none" \/ (of \in LaunchIds /\ launch[of].owner \in CodexRows)
    BY <1>1, <1>2, <1>3, <1>4, <1>5, <1>17, WatcherActs DEF Claims, OwnerOf
  <2>5. watcher' \in [Watchers -> WatchStates]
    BY <2>1 DEF WatcherAt
  <2>2. claimed' \in [Rollouts -> CodexRows \cup {Stranger}]
    BY <1>1, <1>17, WatcherActs DEF Claims
  <2>3. /\ stored' = stored /\ launch' = launch /\ launches' = launches /\ forks' = forks
        /\ born' = born /\ rollout' = rollout /\ appRuns' = appRuns
    BY <1>17 DEF Claims, WatchersOnly
  <2>4. \A v \in Watchers : watcher'[v].pc # "none" =>
          watcher'[v].of \in LaunchIds /\ launch'[watcher'[v].of].owner \in CodexRows
    BY <1>1, <2>1, <2>3 DEF WatcherAt, OwnerOf
  <2> QED
    BY <1>1, <2>2, <2>3, <2>4, <2>5
       DEF CaptureTypeOK, OwnerOf, RowStates, LaunchStates, WatchStates, WatchSteps
<1>18. ASSUME NEW w \in Watchers, Persists(w) PROVE CaptureTypeOK'
  <2>0. WatcherAt(w, "none", 0, 0)
    BY <1>18, WatcherActs
  <2>5. watcher' \in [Watchers -> WatchStates]
    BY <2>0 DEF WatcherAt
  <2>2. stored' \in [CodexRows -> RowStates]
    BY <1>1, <1>18, RowActs DEF RowAt
  <2>3. /\ launch' = launch /\ launches' = launches /\ forks' = forks /\ born' = born
        /\ rollout' = rollout /\ claimed' = claimed /\ appRuns' = appRuns
    BY <1>18 DEF Persists
  <2>4. \A v \in Watchers : watcher'[v].pc # "none" =>
          watcher'[v].of \in LaunchIds /\ launch'[watcher'[v].of].owner \in CodexRows
    BY <1>1, <2>0, <2>3 DEF WatcherAt, OwnerOf
  <2> QED
    BY <1>1, <2>2, <2>3, <2>4, <2>5
       DEF CaptureTypeOK, OwnerOf, RowStates, LaunchStates, WatchStates, WatchSteps
<1>19. ASSUME NEW w \in Watchers, GivesUp(w) PROVE CaptureTypeOK'
  <2>0. WatcherAt(w, "none", 0, 0)
    BY <1>19, WatcherActs
  <2>5. watcher' \in [Watchers -> WatchStates]
    BY <2>0 DEF WatcherAt
  <2>2. claimed' \in [Rollouts -> CodexRows \cup {Stranger}]
    BY <1>1, <1>19 DEF GivesUp
  <2>3. /\ stored' = stored /\ launch' = launch /\ launches' = launches /\ forks' = forks
        /\ born' = born /\ rollout' = rollout /\ appRuns' = appRuns
    BY <1>19 DEF GivesUp, WatchersOnly
  <2>4. \A v \in Watchers : watcher'[v].pc # "none" =>
          watcher'[v].of \in LaunchIds /\ launch'[watcher'[v].of].owner \in CodexRows
    BY <1>1, <2>0, <2>3 DEF WatcherAt, OwnerOf
  <2> QED
    BY <1>1, <2>2, <2>3, <2>4, <2>5
       DEF CaptureTypeOK, OwnerOf, RowStates, LaunchStates, WatchStates, WatchSteps
<1> QED
  BY <1>6, <1>7, <1>8, <1>9, <1>10, <1>11, <1>12, <1>13, <1>14, <1>15, <1>16, <1>17, <1>18,
     <1>19
     DEF CaptureNext

-----------------------------------------------------------------------------
(* The other parts, action by action.                                      *)

Rest == LaunchInv /\ RowInv /\ WatchInv /\ ClaimInv /\ RobInv /\ KeysAreNotShared /\ FreshStaysFresh

\* The types as the steps use them.
LEMMA CaptureTyped ==
    ASSUME CaptureTypeOK
    PROVE
      /\ stored \in [CodexRows -> RowStates] /\ launch \in [LaunchIds -> LaunchStates]
      /\ launches \in 0 .. MaxLaunches /\ forks \in Nat
      /\ born \in [LaunchIds -> Nat] /\ rollout \in [Rollouts -> Nat]
      /\ watcher \in [Watchers -> WatchStates]
      /\ \A w \in Watchers : watcher[w].pc # "none" =>
            watcher[w].of \in LaunchIds /\ OwnerOf(w) \in CodexRows
      /\ claimed \in [Rollouts -> CodexRows \cup {Stranger}]
      /\ \A r \in CodexRows : stored[r].of \in 0 .. MaxLaunches /\ stored[r].key \in 0 .. Strange
      /\ \A w \in Watchers : watcher[w].found \in 0 .. Strange
      /\ Stranger \notin CodexRows /\ MaxLaunches \in Nat
      /\ Strange = MaxLaunches + 1 /\ LaunchIds = 1 .. MaxLaunches
      /\ Rollouts = 1 .. MaxLaunches + 1
<1>1. stored \in [CodexRows -> RowStates] /\ watcher \in [Watchers -> WatchStates]
  BY DEF CaptureTypeOK, RowStates, WatchStates, WatchSteps
<1>2. /\ \A r \in CodexRows : stored[r].of \in 0 .. MaxLaunches /\ stored[r].key \in 0 .. Strange
      /\ \A w \in Watchers : watcher[w].found \in 0 .. Strange
  BY <1>1 DEF RowStates, WatchStates
<1> QED
  BY <1>1, <1>2, CaptureAssumption DEF CaptureTypeOK, LaunchStates, CaptureAssumption, Strange,
     LaunchIds, Rollouts

\* One watcher moves while rows, launches and rollouts stay.
LEMMA WatchOne ==
    ASSUME WatchInv, UNCHANGED <<stored, launch, born, rollout>>, NEW w \in Watchers,
           \A v \in Watchers \ {w} : watcher'[v] = watcher[v],
           \A v \in Watchers \ {w} : watcher[v].pc = "persist"
                => claimed'[watcher[v].found] = claimed[watcher[v].found],
           watcher'[w].pc # "none" =>
              /\ launch[watcher'[w].of].state \in {"live", "dead"} /\ born[watcher'[w].of] # 0,
           watcher'[w].pc \notin {"none", "poll"} =>
              /\ watcher'[w].found # 0 /\ Written(watcher'[w].found)
              /\ rollout[watcher'[w].found] >= born[watcher'[w].of],
           watcher'[w].pc = "persist" =>
              /\ claimed'[watcher'[w].found] = launch[watcher'[w].of].owner
              /\ \A r \in CodexRows : stored[r].key # watcher'[w].found
              /\ \A v \in Watchers \ {w} : watcher[v].pc = "persist"
                                           => watcher[v].found # watcher'[w].found
    PROVE  WatchInv'
<1> SUFFICES ASSUME NEW v \in Watchers, watcher'[v].pc # "none"
             PROVE  /\ launch'[watcher'[v].of].state \in {"live", "dead"} /\ born'[watcher'[v].of] # 0
                    /\ watcher'[v].pc # "poll" =>
                          /\ watcher'[v].found # 0 /\ rollout'[watcher'[v].found] # 0
                          /\ rollout'[watcher'[v].found] >= born'[watcher'[v].of]
                    /\ watcher'[v].pc = "persist" =>
                          /\ claimed'[watcher'[v].found] = launch'[watcher'[v].of].owner
                          /\ \A r \in CodexRows : stored'[r].key # watcher'[v].found
                          /\ \A u \in Watchers \ {v} : watcher'[u].pc = "persist"
                                           => watcher'[u].found # watcher'[v].found
  BY DEF WatchInv, Written, OwnerOf
<1>1. CASE v = w
  BY <1>1 DEF Written
<1>2. CASE v # w
  <2>1. /\ launch[watcher[v].of].state \in {"live", "dead"} /\ born[watcher[v].of] # 0
        /\ watcher[v].pc # "poll" =>
              /\ watcher[v].found # 0 /\ rollout[watcher[v].found] # 0
              /\ rollout[watcher[v].found] >= born[watcher[v].of]
        /\ watcher[v].pc = "persist" =>
              /\ claimed[watcher[v].found] = launch[watcher[v].of].owner
              /\ \A r \in CodexRows : stored[r].key # watcher[v].found
              /\ \A u \in Watchers \ {v} : watcher[u].pc = "persist"
                                           => watcher[u].found # watcher[v].found
    BY <1>2 DEF WatchInv, Written, OwnerOf
  <2>2. \A u \in Watchers \ {v} : watcher[v].pc = "persist" /\ watcher'[u].pc = "persist"
                                  => watcher'[u].found # watcher[v].found
    BY <1>2, <2>1
  <2> QED
    BY <1>2, <2>1, <2>2
<1> QED
  BY <1>1, <1>2

\* One watcher moves while rows, launches and claims stay.
LEMMA RobOne ==
    ASSUME RobInv, UNCHANGED <<stored, launch, claimed>>, NEW w \in Watchers,
           \A v \in Watchers \ {w} : watcher'[v] = watcher[v],
           watcher'[w].pc \in {"claim", "persist"} =>
              \A s \in CodexRows : Waits(s, watcher'[w].found) => s = launch[watcher'[w].of].owner
    PROVE  RobInv'
<1>1. \A s \in CodexRows : \A k : Waits(s, k)' <=> Waits(s, k)
  BY DEF Waits, Unkeyed
<1>2. \A k \in Rollouts : \A s \in CodexRows : Waits(s, k) => claimed[k] \in {s, Stranger}
  BY DEF RobInv
<1>3. \A r, s \in CodexRows : r # s /\ stored[r].key # 0 => ~Waits(s, stored[r].key)
  BY DEF RobInv
<1>4. ASSUME NEW v \in Watchers, watcher'[v].pc \in {"claim", "persist"}, NEW s \in CodexRows,
             Waits(s, watcher'[v].found)
      PROVE  s = launch[watcher'[v].of].owner
  BY <1>4 DEF RobInv, OwnerOf
<1> QED
  BY <1>1, <1>2, <1>3, <1>4 DEF RobInv, OwnerOf

\* A new launch has no rollout yet: no key, claim or watcher is about it.
LEMMA LaunchesKeep ==
    ASSUME CaptureTypeOK, Rest, NEW r \in CodexRows, NEW fresh \in BOOLEAN,
           NEW marked \in Markers, Launches(r, fresh, marked)
    PROVE  Rest'
<1>1. CaptureTypeOK /\ LaunchInv /\ RowInv /\ WatchInv /\ ClaimInv /\ RobInv
  BY DEF Rest
<1>2. RowAt(r, "running", launches + 1, IF fresh THEN 0 ELSE stored[r].key)
  BY RowActs
<1>3. /\ launches + 1 \in LaunchIds /\ LaunchAt(launches + 1, "pending", r)
      /\ launch'[launches + 1].resumes <=> ~fresh /\ stored[r].key # 0
  BY LaunchActs
<1>4. /\ born' = born /\ rollout' = rollout /\ forks' = forks
      /\ watcher' = watcher /\ claimed' = claimed
      /\ launches' = launches + 1
  BY DEF Launches
<1>5. \A s \in CodexRows : stored'[s].key = stored[s].key \/ stored'[s].key = 0
  BY <1>2 DEF RowAt
<1>6. /\ ~Written(launches + 1) /\ launch[launches + 1].state = "none" /\ born[launches + 1] = 0
      /\ \A m \in LaunchIds : m <= launches + 1 <=> m <= launches \/ m = launches + 1
  <2>1. launches + 1 \in LaunchIds /\ launches + 1 \in Rollouts /\ ~(launches + 1 <= launches)
    BY <1>3, CaptureTyped
  <2>2. ~Written(launches + 1) /\ launch[launches + 1].state = "none"
    BY <1>1, <2>1 DEF LaunchInv
  <2>3. born[launches + 1] = 0
    BY <1>1, <2>1, <2>2 DEF LaunchInv
  <2> QED
    BY <2>2, <2>3, CaptureTyped
<1>7. \A m \in LaunchIds : m # launches + 1 => launch'[m] = launch[m]
  BY <1>3 DEF LaunchAt
<1>8. launch'[launches + 1].state = "pending"
  BY <1>3 DEF LaunchAt
<1>9. LaunchInv'
  <2>1. \A m \in LaunchIds : m <= launches + 1 <=> launch'[m].state # "none"
    BY <1>1, <1>6, <1>7, <1>8 DEF LaunchInv
  <2>2. \A m \in LaunchIds : launch'[m].state \in {"none", "pending"} => born[m] = 0
    BY <1>1, <1>6, <1>7, <1>8 DEF LaunchInv
  <2> QED
    BY <1>1, <1>2, <1>3, <1>4, <1>5, <1>6, <1>7, <1>8, <2>1, <2>2, CaptureTyped
       DEF LaunchInv, Written
<1>10. RowInv'
  <2> SUFFICES ASSUME NEW s \in CodexRows
               PROVE  /\ stored'[s].of <= launches + 1
                      /\ stored'[s].of # 0 => launch'[stored'[s].of].owner = s
                      /\ stored'[s].key # 0 => stored'[s].of # 0 /\ Written(stored'[s].key)
                      /\ stored'[s].of # 0 /\ launch'[stored'[s].of].state = "pending"
                           /\ ~launch'[stored'[s].of].resumes => stored'[s].key = 0
    BY <1>2, <1>3, <1>4, <1>5, <1>6, <1>7, <1>8 DEF RowInv, Written
  <2>1. CASE s = r
    <3>1. stored[r].key # 0 => Written(stored[r].key)
      BY <1>1 DEF RowInv
    <3>2. stored'[r].of = launches + 1 /\ stored'[r].key = IF fresh THEN 0 ELSE stored[r].key
      BY <1>2 DEF RowAt
    <3>3. launch'[launches + 1].owner = r
      BY <1>3 DEF LaunchAt
    <3> QED
      BY <1>3, <2>1, <3>1, <3>2, <3>3, CaptureTyped
  <2>2. CASE s # r
    <3>1. stored'[s] = stored[s]
      BY <1>2, <2>2 DEF RowAt
    <3>2. stored[s].of # 0 => launch'[stored[s].of] = launch[stored[s].of]
      <4>1. stored[s].of <= launches /\ (stored[s].of # 0 => stored[s].of \in LaunchIds)
        BY <1>1, CaptureTyped DEF RowInv
      <4> QED
        BY <1>3, <4>1, CaptureTyped DEF LaunchAt
    <3> QED
      BY <1>1, <3>1, <3>2, CaptureTyped DEF RowInv
  <2> QED
    BY <2>1, <2>2
<1>11. WatchInv'
  <2>1. \A w \in Watchers : watcher[w].pc # "none" => launch'[watcher[w].of] = launch[watcher[w].of]
    <3>1. \A w \in Watchers : watcher[w].pc # "none" =>
             watcher[w].of \in LaunchIds /\ watcher[w].of # launches + 1
      BY <1>1, <1>6, CaptureTyped DEF WatchInv
    <3> QED
      BY <1>3, <3>1 DEF LaunchAt
  <2>2. \A s \in CodexRows : \A k : k # 0 /\ stored[s].key # k => stored'[s].key # k
    BY <1>5
  <2> QED
    BY <1>1, <1>4, <2>1, <2>2 DEF WatchInv, Written, OwnerOf
<1>12. ClaimInv'
  BY <1>1, <1>2, <1>3, <1>4, <1>5, <1>6, <1>7, <1>8, CaptureTyped
     DEF ClaimInv, Written, Old, LaunchAt
<1>13. RobInv'
  <2>1. \A s \in CodexRows : \A k : Waits(s, k)' => Waits(s, k) \/ (s = r /\ k = launches + 1)
    BY <1>2 DEF Waits, Unkeyed, RowAt
  <2>2. claimed[launches + 1] = Stranger /\ \A s \in CodexRows : stored[s].key # launches + 1
    BY <1>1, <1>3, <1>6, CaptureTyped DEF ClaimInv, RowInv
  <2>3. \A w \in Watchers : watcher[w].pc \in {"claim", "persist"} =>
           watcher[w].found # launches + 1 /\ launch'[watcher[w].of].owner = launch[watcher[w].of].owner
    <3>1. \A w \in Watchers : watcher[w].pc \in {"claim", "persist"} =>
             /\ watcher[w].found # launches + 1 /\ watcher[w].of \in LaunchIds
             /\ watcher[w].of # launches + 1
      BY <1>1, <1>6, CaptureTyped DEF WatchInv
    <3> QED
      BY <1>3, <3>1 DEF LaunchAt
  <2> QED
    BY <1>1, <1>4, <1>5, <2>1, <2>2, <2>3 DEF RobInv, OwnerOf
<1>14. KeysAreNotShared'
  BY <1>1, <1>2, <1>3, <1>4, <1>5, <1>6, <1>7, <1>8, CaptureTyped DEF KeysAreNotShared, Rest
<1>15. FreshStaysFresh'
  <2> SUFFICES ASSUME NEW s \in CodexRows, stored'[s].key # 0, ~launch'[stored'[s].of].resumes
               PROVE  rollout[stored'[s].key] >= born[stored'[s].of]
    BY <1>4 DEF FreshStaysFresh
  <2>1. s # r
    BY <1>2, <1>3 DEF RowAt
  <2>2. stored'[s] = stored[s]
    BY <1>2, <2>1 DEF RowAt
  <2>3. stored[s].of \in LaunchIds /\ stored[s].of # launches + 1
    BY <1>1, <2>2, CaptureTyped DEF RowInv
  <2>4. launch'[stored[s].of] = launch[stored[s].of]
    BY <1>3, <2>3 DEF LaunchAt
  <2> QED
    BY <2>2, <2>4 DEF Rest, FreshStaysFresh
<1> QED
  BY <1>9, <1>10, <1>11, <1>12, <1>13, <1>14, <1>15 DEF Rest

\* A fork is later than every rollout there is.
LEMMA ForksKeep ==
    ASSUME CaptureTypeOK, Rest, NEW n \in LaunchIds, Forks(n)
    PROVE  Rest'
<1>1. CaptureTypeOK /\ LaunchInv /\ RowInv /\ WatchInv /\ ClaimInv /\ RobInv
  BY DEF Rest
<1>2. LaunchAt(n, "live", launch[n].owner) /\ (launch'[n].resumes <=> launch[n].resumes)
  BY LaunchActs
<1>3. /\ launch[n].state \in {"pending", "live"} /\ stored' = stored /\ rollout' = rollout
      /\ launches' = launches /\ watcher' = watcher /\ claimed' = claimed
  BY DEF Forks
<1>4. launch[n].state = "pending" /\ forks' = forks + 1 /\ born' = [born EXCEPT ![n] = forks + 1]
  BY DEF Forks
<1>5. /\ \A m \in LaunchIds : /\ launch'[m].owner = launch[m].owner
                              /\ launch'[m].resumes <=> launch[m].resumes
                              /\ m # n => launch'[m].state = launch[m].state
      /\ launch'[n].state = "live" /\ \A m \in LaunchIds : m # n => born'[m] = born[m]
  <2>1. \A m \in LaunchIds : m # n => launch'[m] = launch[m]
    BY <1>2 DEF LaunchAt
  <2>2. \A m \in LaunchIds : m # n => born'[m] = born[m]
    BY <1>4, CaptureTyped
  <2>3. launch'[n].state = "live" /\ launch'[n].owner = launch[n].owner
    BY <1>2 DEF LaunchAt
  <2>4. \A m \in LaunchIds : launch'[m].resumes <=> launch[m].resumes
    BY <1>2, <2>1
  <2>5. \A m \in LaunchIds : launch'[m].owner = launch[m].owner
    BY <2>1, <2>3
  <2> QED
    BY <2>1, <2>2, <2>3, <2>4, <2>5
<1>6. \A w \in Watchers : watcher[w].pc # "none" => OwnerOf(w)' = OwnerOf(w)
  BY <1>3, <1>5, CaptureTyped DEF OwnerOf
<1>7. LaunchInv'
  <2>1. \A m \in LaunchIds : m <= launches <=> launch'[m].state # "none"
    BY <1>1, <1>2, <1>3, <1>4, <1>5, <1>6 DEF LaunchInv
  <2>2. \A m \in LaunchIds : launch'[m].state \in {"none", "pending"} => born'[m] = 0
    <3>1. \A m \in LaunchIds : launch'[m].state \in {"none", "pending"}
             => m # n /\ launch[m].state \in {"none", "pending"}
      BY <1>2, <1>3, <1>4, <1>5, <1>6
    <3> QED
      BY <1>1, <1>2, <1>3, <1>4, <1>5, <1>6, <3>1 DEF LaunchInv
  <2>3. \A m \in Rollouts : rollout[m] <= forks + 1
    BY <1>1, CaptureTyped DEF LaunchInv
  <2> QED
    BY <1>1, <1>3, <1>4, <2>1, <2>2, <2>3 DEF LaunchInv, Written
<1>8. RowInv'
  <2> SUFFICES ASSUME NEW s \in CodexRows
               PROVE  /\ stored[s].of <= launches
                      /\ stored[s].of # 0 => launch'[stored[s].of].owner = s
                      /\ stored[s].key # 0 => stored[s].of # 0 /\ Written(stored[s].key)
                      /\ stored[s].of # 0 /\ launch'[stored[s].of].state = "pending"
                           /\ ~launch'[stored[s].of].resumes => stored[s].key = 0
    BY <1>2, <1>3, <1>4, <1>5, <1>6 DEF RowInv, Written
  <2>1. stored[s].of # 0 => stored[s].of \in LaunchIds
    BY CaptureTyped
  <2> QED
    BY <1>1, <1>2, <1>3, <1>4, <1>5, <1>6, <2>1 DEF RowInv
<1>9. WatchInv'
  <2>1. \A w \in Watchers : watcher[w].pc # "none" =>
           watcher[w].of \in LaunchIds /\ watcher[w].of # n
    BY <1>1, <1>4, CaptureTyped DEF WatchInv
  <2>2. \A w \in Watchers : watcher[w].pc # "none" =>
           /\ launch'[watcher[w].of].state = launch[watcher[w].of].state
           /\ born'[watcher[w].of] = born[watcher[w].of]
    BY <1>5, <2>1
  <2> QED
    BY <1>1, <1>3, <1>6, <2>1, <2>2 DEF WatchInv, Written
<1>10. ClaimInv'
  BY <1>1, <1>2, <1>3, <1>4, <1>5, <1>6, CaptureTyped DEF ClaimInv, LaunchInv, Written, Old
<1>11. RobInv'
  BY <1>1, <1>2, <1>3, <1>4, <1>5, <1>6, CaptureTyped DEF RobInv, Waits, Unkeyed
<1>12. KeysAreNotShared'
  BY <1>1, <1>2, <1>3, <1>4, <1>5, <1>6, CaptureTyped DEF KeysAreNotShared, Rest
<1>13. FreshStaysFresh'
  <2> SUFFICES ASSUME NEW s \in CodexRows, stored'[s].key # 0, ~launch'[stored'[s].of].resumes
               PROVE  rollout'[stored'[s].key] >= born'[stored'[s].of]
    BY DEF FreshStaysFresh
  <2>1. stored[s].of \in LaunchIds
    BY <1>1, <1>2, <1>3, <1>4, <1>5, <1>6, CaptureTyped DEF RowInv
  <2>2. rollout[stored[s].key] >= born[stored[s].of]
    BY <1>2, <1>3, <1>4, <1>5, <1>6, <2>1 DEF Rest, FreshStaysFresh
  <2>3. stored[s].of = n => launch[n].state # "pending"
    BY <1>1, <1>2, <1>3, <1>4, <1>5, <1>6, <2>1 DEF RowInv
  <2> QED
    BY <1>2, <1>3, <1>4, <1>5, <1>6, <2>1, <2>2, <2>3, CaptureTyped
<1> QED
  BY <1>7, <1>8, <1>9, <1>10, <1>11, <1>12, <1>13 DEF Rest

\* A process that ends was forked, or its launch never is.
LEMMA ProcessEndsKeep ==
    ASSUME CaptureTypeOK, Rest, NEW n \in LaunchIds, ProcessEnds(n)
    PROVE  Rest'
<1>1. CaptureTypeOK /\ LaunchInv /\ RowInv /\ WatchInv /\ ClaimInv /\ RobInv
  BY DEF Rest
<1>2. LaunchAt(n, "dead", launch[n].owner) /\ (launch'[n].resumes <=> launch[n].resumes)
  BY LaunchActs
<1>3. /\ launch[n].state \in {"pending", "live"} /\ stored' = stored /\ rollout' = rollout
      /\ launches' = launches /\ watcher' = watcher /\ claimed' = claimed
  BY DEF ProcessEnds
<1>4. forks' = forks /\ born' = born
  BY DEF ProcessEnds
<1>5. /\ \A m \in LaunchIds : /\ launch'[m].owner = launch[m].owner
                              /\ launch'[m].resumes <=> launch[m].resumes
                              /\ m # n => launch'[m].state = launch[m].state
      /\ launch'[n].state = "dead" /\ \A m \in LaunchIds : m # n => born'[m] = born[m]
  <2>1. \A m \in LaunchIds : m # n => launch'[m] = launch[m]
    BY <1>2 DEF LaunchAt
  <2>2. \A m \in LaunchIds : m # n => born'[m] = born[m]
    BY <1>4, CaptureTyped
  <2>3. launch'[n].state = "dead" /\ launch'[n].owner = launch[n].owner
    BY <1>2 DEF LaunchAt
  <2>4. \A m \in LaunchIds : launch'[m].resumes <=> launch[m].resumes
    BY <1>2, <2>1
  <2>5. \A m \in LaunchIds : launch'[m].owner = launch[m].owner
    BY <2>1, <2>3
  <2> QED
    BY <2>1, <2>2, <2>3, <2>4, <2>5
<1>6. \A w \in Watchers : watcher[w].pc # "none" => OwnerOf(w)' = OwnerOf(w)
  BY <1>3, <1>5, CaptureTyped DEF OwnerOf
<1>7. LaunchInv'
  BY <1>1, <1>2, <1>3, <1>4, <1>5, <1>6, CaptureTyped DEF LaunchInv, Written
<1>8. RowInv'
  <2> SUFFICES ASSUME NEW s \in CodexRows
               PROVE  /\ stored[s].of <= launches
                      /\ stored[s].of # 0 => launch'[stored[s].of].owner = s
                      /\ stored[s].key # 0 => stored[s].of # 0 /\ Written(stored[s].key)
                      /\ stored[s].of # 0 /\ launch'[stored[s].of].state = "pending"
                           /\ ~launch'[stored[s].of].resumes => stored[s].key = 0
    BY <1>2, <1>3, <1>4, <1>5, <1>6 DEF RowInv, Written
  <2>1. stored[s].of # 0 => stored[s].of \in LaunchIds
    BY CaptureTyped
  <2> QED
    BY <1>1, <1>2, <1>3, <1>4, <1>5, <1>6, <2>1 DEF RowInv
<1>9. WatchInv'
  BY <1>1, <1>2, <1>3, <1>4, <1>5, <1>6, CaptureTyped DEF WatchInv, Written, OwnerOf
<1>10. ClaimInv'
  BY <1>1, <1>2, <1>3, <1>4, <1>5, <1>6, CaptureTyped DEF ClaimInv, LaunchInv, Written, Old
<1>11. RobInv'
  BY <1>1, <1>2, <1>3, <1>4, <1>5, <1>6, CaptureTyped DEF RobInv, Waits, Unkeyed
<1>12. KeysAreNotShared'
  BY <1>1, <1>2, <1>3, <1>4, <1>5, <1>6, CaptureTyped DEF KeysAreNotShared, Rest
<1>13. FreshStaysFresh'
  <2> SUFFICES ASSUME NEW s \in CodexRows, stored'[s].key # 0, ~launch'[stored'[s].of].resumes
               PROVE  rollout'[stored'[s].key] >= born'[stored'[s].of]
    BY DEF FreshStaysFresh
  <2>1. stored[s].of \in LaunchIds
    BY <1>1, <1>2, <1>3, <1>4, <1>5, <1>6, CaptureTyped DEF RowInv
  <2>2. rollout[stored[s].key] >= born[stored[s].of]
    BY <1>2, <1>3, <1>4, <1>5, <1>6, <2>1 DEF Rest, FreshStaysFresh
  <2>3. stored[s].of = n => launch[n].state # "pending"
    BY <1>1, <1>2, <1>3, <1>4, <1>5, <1>6, <2>1 DEF RowInv
  <2> QED
    BY <1>2, <1>3, <1>4, <1>5, <1>6, <2>1, <2>2, <2>3, CaptureTyped
<1> QED
  BY <1>7, <1>8, <1>9, <1>10, <1>11, <1>12, <1>13 DEF Rest

\* A row that settles waits for nothing.
LEMMA RowSettlesKeep ==
    ASSUME CaptureTypeOK, Rest, NEW r \in CodexRows, RowSettles(r)
    PROVE  Rest'
<1>1. CaptureTypeOK /\ LaunchInv /\ RowInv /\ WatchInv /\ ClaimInv /\ RobInv
  BY DEF Rest
<1>2. RowAt(r, "stopped", stored[r].of, stored[r].key) \/ RowAt(r, "stopped", stored[r].of, 0)
  BY RowActs
<1>3. /\ launch' = launch /\ born' = born /\ rollout' = rollout /\ launches' = launches
      /\ forks' = forks /\ watcher' = watcher /\ claimed' = claimed
  BY DEF RowSettles
<1>4. \A s \in CodexRows : /\ stored'[s].of = stored[s].of /\ (stored'[s].key = stored[s].key \/ stored'[s].key = 0)
                           /\ stored'[s].status = "running" => stored'[s].key = stored[s].key /\ stored[s].status = "running"
  BY <1>2 DEF RowAt
<1>5. /\ \A s \in CodexRows : \A k : Waits(s, k)' => Waits(s, k)
      /\ \A w \in Watchers : OwnerOf(w)' = OwnerOf(w)
  BY <1>3, <1>4 DEF Waits, Unkeyed, OwnerOf
<1>6. LaunchInv'
  BY <1>1, <1>2, <1>3, <1>4, <1>5, CaptureTyped DEF LaunchInv, Written
<1>7. RowInv'
  BY <1>1, <1>2, <1>3, <1>4, <1>5, CaptureTyped DEF RowInv, Written
<1>8. WatchInv'
  BY <1>1, <1>2, <1>3, <1>4, <1>5, CaptureTyped DEF WatchInv, Written, OwnerOf
<1>9. ClaimInv'
  BY <1>1, <1>2, <1>3, <1>4, <1>5, CaptureTyped DEF ClaimInv, Written, Old
<1>10. RobInv'
  BY <1>1, <1>2, <1>3, <1>4, <1>5, CaptureTyped DEF RobInv
<1>11. KeysAreNotShared'
  BY <1>1, <1>2, <1>3, <1>4, <1>5, CaptureTyped DEF KeysAreNotShared, Rest
<1>12. FreshStaysFresh'
  BY <1>1, <1>2, <1>3, <1>4, <1>5, CaptureTyped DEF FreshStaysFresh, Rest
<1> QED
  BY <1>6, <1>7, <1>8, <1>9, <1>10, <1>11, <1>12 DEF Rest

\* A rollout is as new as the last fork when it appears.
LEMMA WritesRolloutKeep ==
    ASSUME CaptureTypeOK, Rest, NEW n \in LaunchIds, WritesRollout(n)
    PROVE  Rest'
<1>1. CaptureTypeOK /\ LaunchInv /\ RowInv /\ WatchInv /\ ClaimInv /\ RobInv
  BY DEF Rest
<1>2. /\ stored' = stored /\ launch' = launch /\ born' = born /\ launches' = launches
      /\ forks' = forks /\ watcher' = watcher /\ claimed' = claimed
  BY DEF WritesRollout
<1>3. /\ n \in Rollouts /\ ~Written(n) /\ rollout' = [rollout EXCEPT ![n] = forks]
      /\ launch[n].state = "live"
  BY CaptureTyped DEF WritesRollout
<1>4. \A m \in Rollouts : m # n => rollout'[m] = rollout[m]
  BY <1>3, CaptureTyped
<1>5. LaunchInv'
  BY <1>1, <1>2, <1>3, <1>4, CaptureTyped DEF LaunchInv, Written
<1>6. RowInv'
  BY <1>1, <1>2, <1>3, <1>4, CaptureTyped DEF RowInv, Written
<1>7. WatchInv'
  BY <1>1, <1>2, <1>3, <1>4, CaptureTyped DEF WatchInv, Written, OwnerOf
<1>8. ClaimInv'
  <2>1. \A m \in Rollouts : claimed[m] # Stranger => Written(m)'
    BY <1>1, <1>2, <1>3, <1>4, CaptureTyped DEF ClaimInv, Written
  <2>2. ASSUME NEW s \in CodexRows, stored[s].key # 0, Old(stored[s].key) PROVE Old(stored[s].key)'
    <3>1. rollout'[stored[s].key] = rollout[stored[s].key]
      BY <1>1, <1>2, <1>3, <1>4, <2>2, CaptureTyped DEF RowInv
    <3> QED
      BY <1>2, <1>3, <1>4, <2>2, <3>1 DEF Old
  <2> QED
    BY <1>1, <1>2, <1>3, <1>4, <2>1, <2>2 DEF ClaimInv
<1>9. RobInv'
  BY <1>1, <1>2, <1>3, <1>4, CaptureTyped DEF RobInv, Waits, Unkeyed, OwnerOf
<1>10. KeysAreNotShared'
  BY <1>1, <1>2, <1>3, <1>4, CaptureTyped DEF KeysAreNotShared, Rest
<1>11. FreshStaysFresh'
  BY <1>1, <1>2, <1>3, <1>4, CaptureTyped DEF FreshStaysFresh, RowInv, Written, Rest
<1> QED
  BY <1>5, <1>6, <1>7, <1>8, <1>9, <1>10, <1>11 DEF Rest

\* So is the rollout of a stranger.
LEMMA StrangerWritesKeep ==
    ASSUME CaptureTypeOK, Rest, StrangerWrites
    PROVE  Rest'
<1>1. CaptureTypeOK /\ LaunchInv /\ RowInv /\ WatchInv /\ ClaimInv /\ RobInv
  BY DEF Rest
<1>2. /\ stored' = stored /\ launch' = launch /\ born' = born /\ launches' = launches
      /\ forks' = forks /\ watcher' = watcher /\ claimed' = claimed
  BY DEF StrangerWrites
<1>3. /\ Strange \in Rollouts /\ ~Written(Strange) /\ rollout' = [rollout EXCEPT ![Strange] = forks]
  BY CaptureTyped DEF StrangerWrites
<1>4. \A m \in Rollouts : m # Strange => rollout'[m] = rollout[m]
  BY <1>3, CaptureTyped
<1>5. LaunchInv'
  BY <1>1, <1>2, <1>3, <1>4, CaptureTyped DEF LaunchInv, Written
<1>6. RowInv'
  BY <1>1, <1>2, <1>3, <1>4, CaptureTyped DEF RowInv, Written
<1>7. WatchInv'
  BY <1>1, <1>2, <1>3, <1>4, CaptureTyped DEF WatchInv, Written, OwnerOf
<1>8. ClaimInv'
  <2>1. \A m \in Rollouts : claimed[m] # Stranger => Written(m)'
    BY <1>1, <1>2, <1>3, <1>4, CaptureTyped DEF ClaimInv, Written
  <2>2. ASSUME NEW s \in CodexRows, stored[s].key # 0, Old(stored[s].key) PROVE Old(stored[s].key)'
    <3>1. rollout'[stored[s].key] = rollout[stored[s].key]
      BY <1>1, <1>2, <1>3, <1>4, <2>2, CaptureTyped DEF RowInv
    <3> QED
      BY <1>2, <1>3, <1>4, <2>2, <3>1 DEF Old
  <2> QED
    BY <1>1, <1>2, <1>3, <1>4, <2>1, <2>2 DEF ClaimInv
<1>9. RobInv'
  BY <1>1, <1>2, <1>3, <1>4, CaptureTyped DEF RobInv, Waits, Unkeyed, OwnerOf
<1>10. KeysAreNotShared'
  BY <1>1, <1>2, <1>3, <1>4, CaptureTyped DEF KeysAreNotShared, Rest
<1>11. FreshStaysFresh'
  BY <1>1, <1>2, <1>3, <1>4, CaptureTyped DEF FreshStaysFresh, RowInv, Written, Rest
<1> QED
  BY <1>5, <1>6, <1>7, <1>8, <1>9, <1>10, <1>11 DEF Rest

\* After the app has ended no session waits, and every key is old.
LEMMA AppEndsKeep ==
    ASSUME CaptureTypeOK, Rest, AppEnds
    PROVE  Rest'
<1>1. CaptureTypeOK /\ LaunchInv /\ RowInv /\ WatchInv /\ ClaimInv /\ RobInv
  BY DEF Rest
<1>2. /\ stored' \in [CodexRows -> RowStates]
      /\ \A r \in CodexRows : stored'[r].status = "stopped" /\ stored'[r].of = stored[r].of /\ stored'[r].key = stored[r].key
  BY RowActs
<1>3. /\ launch' \in [LaunchIds -> LaunchStates]
      /\ \A n \in LaunchIds :
           IF launch[n].state = "none" THEN launch'[n].state = "none"
           ELSE /\ launch'[n].state = "gone" /\ launch'[n].owner = launch[n].owner
                /\ launch'[n].resumes <=> launch[n].resumes
  BY LaunchActs
<1>4. born' = born /\ rollout' = rollout /\ launches' = launches /\ forks' = forks
  BY DEF AppEnds
<1>5. /\ \A w \in Watchers : watcher'[w].pc = "none"
      /\ \A k \in Rollouts : claimed'[k] = Stranger
  BY DEF AppEnds, NoWatch
<1>6. LaunchInv'
  BY <1>1, <1>2, <1>3, <1>4, <1>5, CaptureTyped DEF LaunchInv, Written
<1>7. RowInv'
  <2> SUFFICES ASSUME NEW s \in CodexRows
               PROVE  /\ stored'[s].of <= launches
                      /\ stored'[s].of # 0 => launch'[stored'[s].of].owner = s
                      /\ stored'[s].key # 0 => stored'[s].of # 0 /\ Written(stored'[s].key)
                      /\ stored'[s].of # 0 => launch'[stored'[s].of].state # "pending"
    BY <1>2, <1>3, <1>4, <1>5 DEF RowInv, Written
  <2>1. stored[s].of # 0 => stored[s].of \in LaunchIds /\ launch[stored[s].of].state # "none"
    BY <1>1, CaptureTyped DEF RowInv, LaunchInv
  <2> QED
    BY <1>1, <1>2, <1>3, <1>4, <1>5, <2>1 DEF RowInv
<1>8. WatchInv'
  BY <1>1, <1>2, <1>3, <1>4, <1>5, CaptureTyped DEF WatchInv, Written, OwnerOf
<1>9. ClaimInv'
  BY <1>1, <1>2, <1>3, <1>4, <1>5, CaptureTyped DEF ClaimInv, Old
<1>10. RobInv'
  BY <1>1, <1>2, <1>3, <1>4, <1>5, CaptureTyped DEF RobInv, Waits, Unkeyed, OwnerOf
<1>11. KeysAreNotShared'
  BY <1>1, <1>2, <1>3, <1>4, <1>5, CaptureTyped DEF KeysAreNotShared, Rest
<1>12. FreshStaysFresh'
  <2> SUFFICES ASSUME NEW s \in CodexRows, stored'[s].key # 0, ~launch'[stored'[s].of].resumes
               PROVE  rollout'[stored'[s].key] >= born'[stored'[s].of]
    BY DEF FreshStaysFresh
  <2>1. stored[s].of \in LaunchIds /\ launch[stored[s].of].state # "none"
    BY <1>1, <1>2, <1>3, <1>4, <1>5, CaptureTyped DEF RowInv, LaunchInv
  <2> QED
    BY <1>2, <1>3, <1>4, <1>5, <2>1 DEF Rest, FreshStaysFresh
<1> QED
  BY <1>6, <1>7, <1>8, <1>9, <1>10, <1>11, <1>12 DEF Rest

\* A watch begins for a launch of this run.
LEMMA WatchesKeep ==
    ASSUME CaptureTypeOK, Rest, NEW w \in Watchers, NEW r \in CodexRows, Watches(w, r)
    PROVE  Rest'
<1>1. CaptureTypeOK /\ LaunchInv /\ RowInv /\ WatchInv /\ ClaimInv /\ RobInv
  BY DEF Rest
<1>2. /\ stored' = stored /\ launch' = launch /\ born' = born /\ rollout' = rollout
      /\ launches' = launches /\ forks' = forks /\ claimed' = claimed
  BY DEF Watches, WatchersOnly
<1>3. /\ WatcherAt(w, "poll", stored[r].of, 0) /\ watcher[w].pc = "none"
      /\ born[stored[r].of] # 0 /\ launch[stored[r].of].state \in {"live", "dead"}
  BY WatcherActs DEF Watches
<1>4. LaunchInv'
  BY <1>1, <1>2, <1>3, CaptureTyped DEF LaunchInv, Written
<1>5. RowInv'
  BY <1>1, <1>2, <1>3, CaptureTyped DEF RowInv, Written
<1>6. WatchInv'
  <2>1. /\ watcher'[w].pc # "none" =>
              /\ launch[watcher'[w].of].state \in {"live", "dead"} /\ born[watcher'[w].of] # 0
        /\ watcher'[w].pc \notin {"none", "poll"} =>
              /\ watcher'[w].found # 0 /\ Written(watcher'[w].found)
              /\ rollout[watcher'[w].found] >= born[watcher'[w].of]
        /\ watcher'[w].pc # "persist"
    BY <1>1, <1>2, <1>3, CaptureTyped DEF WatchInv, WatcherAt
  <2> QED
    BY <1>1, <1>2, <1>3, <2>1, WatchOne DEF WatcherAt
<1>7. ClaimInv'
  BY <1>1, <1>2, <1>3, CaptureTyped DEF ClaimInv, Written, Old
<1>8. RobInv'
  <2>1. watcher'[w].pc \in {"claim", "persist"} =>
           \A s \in CodexRows : Waits(s, watcher'[w].found) => s = launch[watcher'[w].of].owner
    BY <1>1, <1>2, <1>3, CaptureTyped DEF RobInv, RowInv, Waits, Unkeyed, OwnerOf, WatcherAt
  <2> QED
    BY <1>1, <1>2, <1>3, <2>1, RobOne DEF WatcherAt
<1>9. KeysAreNotShared'
  BY <1>1, <1>2, <1>3, CaptureTyped DEF KeysAreNotShared, Rest
<1>10. FreshStaysFresh'
  BY <1>1, <1>2, <1>3, CaptureTyped DEF FreshStaysFresh, Rest
<1> QED
  BY <1>4, <1>5, <1>6, <1>7, <1>8, <1>9, <1>10 DEF Rest

\* A proof is about the rollout of the watcher's own launch.
LEMMA ProvesKeep ==
    ASSUME CaptureTypeOK, Rest, NEW w \in Watchers, Proves(w)
    PROVE  Rest'
<1>1. CaptureTypeOK /\ LaunchInv /\ RowInv /\ WatchInv /\ ClaimInv /\ RobInv
  BY DEF Rest
<1>2. /\ stored' = stored /\ launch' = launch /\ born' = born /\ rollout' = rollout
      /\ launches' = launches /\ forks' = forks /\ claimed' = claimed
  BY DEF Proves, WatchersOnly
<1>3. /\ WatcherAt(w, "claim", watcher[w].of, watcher[w].of) /\ watcher[w].pc = "poll"
      /\ watcher[w].of \in Candidates(w)
  BY WatcherActs DEF Proves
<1>4. Written(watcher[w].of) /\ rollout[watcher[w].of] >= born[watcher[w].of]
  BY <1>3 DEF Candidates
<1>5. LaunchInv'
  BY <1>1, <1>2, <1>3, <1>4, CaptureTyped DEF LaunchInv, Written
<1>6. RowInv'
  BY <1>1, <1>2, <1>3, <1>4, CaptureTyped DEF RowInv, Written
<1>7. WatchInv'
  <2>1. /\ watcher'[w].pc # "none" =>
              /\ launch[watcher'[w].of].state \in {"live", "dead"} /\ born[watcher'[w].of] # 0
        /\ watcher'[w].pc \notin {"none", "poll"} =>
              /\ watcher'[w].found # 0 /\ Written(watcher'[w].found)
              /\ rollout[watcher'[w].found] >= born[watcher'[w].of]
        /\ watcher'[w].pc # "persist"
    BY <1>1, <1>2, <1>3, <1>4, CaptureTyped DEF WatchInv, WatcherAt
  <2> QED
    BY <1>1, <1>2, <1>3, <1>4, <2>1, WatchOne DEF WatcherAt
<1>8. ClaimInv'
  BY <1>1, <1>2, <1>3, <1>4, CaptureTyped DEF ClaimInv, Written, Old
<1>9. RobInv'
  <2>1. watcher'[w].pc \in {"claim", "persist"} =>
           \A s \in CodexRows : Waits(s, watcher'[w].found) => s = launch[watcher'[w].of].owner
    BY <1>1, <1>2, <1>3, <1>4, CaptureTyped DEF RobInv, RowInv, Waits, Unkeyed, OwnerOf, WatcherAt
  <2> QED
    BY <1>1, <1>2, <1>3, <1>4, <2>1, RobOne DEF WatcherAt
<1>10. KeysAreNotShared'
  BY <1>1, <1>2, <1>3, <1>4, CaptureTyped DEF KeysAreNotShared, Rest
<1>11. FreshStaysFresh'
  BY <1>1, <1>2, <1>3, <1>4, CaptureTyped DEF FreshStaysFresh, Rest
<1> QED
  BY <1>5, <1>6, <1>7, <1>8, <1>9, <1>10, <1>11 DEF Rest

\* A guess has yet to be checked.
LEMMA GuessesKeep ==
    ASSUME CaptureTypeOK, Rest, NEW w \in Watchers, Guesses(w)
    PROVE  Rest'
<1>1. CaptureTypeOK /\ LaunchInv /\ RowInv /\ WatchInv /\ ClaimInv /\ RobInv
  BY DEF Rest
<1>2. /\ stored' = stored /\ launch' = launch /\ born' = born /\ rollout' = rollout
      /\ launches' = launches /\ forks' = forks /\ claimed' = claimed
  BY DEF Guesses, WatchersOnly
<1>3. watcher[w].pc = "poll" /\ \E k \in Candidates(w) : WatcherAt(w, "row", watcher[w].of, k)
  BY WatcherActs DEF Guesses
<1>4. \A k \in Candidates(w) : k \in Rollouts /\ Written(k) /\ rollout[k] >= born[watcher[w].of]
  BY DEF Candidates
<1>5. LaunchInv'
  BY <1>1, <1>2, <1>3, <1>4, CaptureTyped DEF LaunchInv, Written
<1>6. RowInv'
  BY <1>1, <1>2, <1>3, <1>4, CaptureTyped DEF RowInv, Written
<1>7. WatchInv'
  <2>1. /\ watcher'[w].pc # "none" =>
              /\ launch[watcher'[w].of].state \in {"live", "dead"} /\ born[watcher'[w].of] # 0
        /\ watcher'[w].pc \notin {"none", "poll"} =>
              /\ watcher'[w].found # 0 /\ Written(watcher'[w].found)
              /\ rollout[watcher'[w].found] >= born[watcher'[w].of]
        /\ watcher'[w].pc # "persist"
    BY <1>1, <1>2, <1>3, <1>4, CaptureTyped DEF WatchInv, WatcherAt
  <2> QED
    BY <1>1, <1>2, <1>3, <1>4, <2>1, WatchOne DEF WatcherAt
<1>8. ClaimInv'
  BY <1>1, <1>2, <1>3, <1>4, CaptureTyped DEF ClaimInv, Written, Old
<1>9. RobInv'
  <2>1. watcher'[w].pc \in {"claim", "persist"} =>
           \A s \in CodexRows : Waits(s, watcher'[w].found) => s = launch[watcher'[w].of].owner
    BY <1>1, <1>2, <1>3, <1>4, CaptureTyped DEF RobInv, RowInv, Waits, Unkeyed, OwnerOf, WatcherAt
  <2> QED
    BY <1>1, <1>2, <1>3, <1>4, <2>1, RobOne DEF WatcherAt
<1>10. KeysAreNotShared'
  BY <1>1, <1>2, <1>3, <1>4, CaptureTyped DEF KeysAreNotShared, Rest
<1>11. FreshStaysFresh'
  BY <1>1, <1>2, <1>3, <1>4, CaptureTyped DEF FreshStaysFresh, Rest
<1> QED
  BY <1>5, <1>6, <1>7, <1>8, <1>9, <1>10, <1>11 DEF Rest

\* A guess passes when no other session waits for anything.
LEMMA ChecksKeep ==
    ASSUME CaptureTypeOK, Rest, NEW w \in Watchers, Checks(w)
    PROVE  Rest'
<1>1. CaptureTypeOK /\ LaunchInv /\ RowInv /\ WatchInv /\ ClaimInv /\ RobInv
  BY DEF Rest
<1>2. /\ stored' = stored /\ launch' = launch /\ born' = born /\ rollout' = rollout
      /\ launches' = launches /\ forks' = forks /\ claimed' = claimed
  BY DEF Checks, WatchersOnly
<1>3. watcher[w].pc = "row"
  BY DEF Checks
<1>4. \/ WatcherAt(w, "poll", watcher[w].of, 0)
      \/ /\ WatcherAt(w, "claim", watcher[w].of, watcher[w].found)
         /\ \A s \in CodexRows : Unkeyed(s) => s = OwnerOf(w)
  BY WatcherActs DEF Unambiguous
<1>5. LaunchInv'
  BY <1>1, <1>2, <1>3, <1>4, CaptureTyped DEF LaunchInv, Written
<1>6. RowInv'
  BY <1>1, <1>2, <1>3, <1>4, CaptureTyped DEF RowInv, Written
<1>7. WatchInv'
  <2>1. /\ watcher'[w].pc # "none" =>
              /\ launch[watcher'[w].of].state \in {"live", "dead"} /\ born[watcher'[w].of] # 0
        /\ watcher'[w].pc \notin {"none", "poll"} =>
              /\ watcher'[w].found # 0 /\ Written(watcher'[w].found)
              /\ rollout[watcher'[w].found] >= born[watcher'[w].of]
        /\ watcher'[w].pc # "persist"
    BY <1>1, <1>2, <1>3, <1>4, CaptureTyped DEF WatchInv, WatcherAt
  <2> QED
    BY <1>1, <1>2, <1>3, <1>4, <2>1, WatchOne DEF WatcherAt
<1>8. ClaimInv'
  BY <1>1, <1>2, <1>3, <1>4, CaptureTyped DEF ClaimInv, Written, Old
<1>9. RobInv'
  <2>1. watcher'[w].pc \in {"claim", "persist"} =>
           \A s \in CodexRows : Waits(s, watcher'[w].found) => s = launch[watcher'[w].of].owner
    BY <1>1, <1>2, <1>3, <1>4, CaptureTyped DEF RobInv, RowInv, Waits, Unkeyed, OwnerOf, WatcherAt
  <2> QED
    BY <1>1, <1>2, <1>3, <1>4, <2>1, RobOne DEF WatcherAt
<1>10. KeysAreNotShared'
  BY <1>1, <1>2, <1>3, <1>4, CaptureTyped DEF KeysAreNotShared, Rest
<1>11. FreshStaysFresh'
  BY <1>1, <1>2, <1>3, <1>4, CaptureTyped DEF FreshStaysFresh, Rest
<1> QED
  BY <1>5, <1>6, <1>7, <1>8, <1>9, <1>10, <1>11 DEF Rest

\* What is claimed was free, and nobody has it: its key would be claimed or old.
LEMMA ClaimsKeep ==
    ASSUME CaptureTypeOK, Rest, NEW w \in Watchers, Claims(w)
    PROVE  Rest'
<1>1. CaptureTypeOK /\ LaunchInv /\ RowInv /\ WatchInv /\ ClaimInv /\ RobInv
  BY DEF Rest
<1>2. /\ stored' = stored /\ launch' = launch /\ born' = born
      /\ rollout' = rollout /\ launches' = launches /\ forks' = forks
  BY DEF Claims, WatchersOnly
<1>3. watcher[w].pc = "claim"
  BY DEF Claims
<1>4. \/ claimed' = claimed /\ WatcherAt(w, "poll", watcher[w].of, 0)
      \/ /\ claimed[watcher[w].found] = Stranger
         /\ claimed' = [claimed EXCEPT ![watcher[w].found] = OwnerOf(w)]
         /\ WatcherAt(w, "persist", watcher[w].of, watcher[w].found)
  BY WatcherActs
<1>5. /\ watcher[w].found \in Rollouts /\ Written(watcher[w].found) /\ OwnerOf(w) \in CodexRows
      /\ ~Old(watcher[w].found)
  BY <1>1, <1>3, CaptureTyped DEF WatchInv, Old
<1>6. claimed[watcher[w].found] = Stranger => \A r \in CodexRows : stored[r].key # watcher[w].found
  <2> SUFFICES ASSUME claimed[watcher[w].found] = Stranger, NEW r \in CodexRows,
                      stored[r].key = watcher[w].found
               PROVE  FALSE
    OBVIOUS
  <2>1. stored[r].key # 0
    BY <1>5, CaptureTyped
  <2> QED
    BY <1>1, <1>5, <2>1, CaptureTyped DEF ClaimInv
<1>7. \A v \in Watchers \ {w} : watcher[v].pc = "persist" /\ claimed[watcher[w].found] = Stranger
             => watcher[v].found # watcher[w].found
  BY <1>1, CaptureTyped DEF WatchInv
<1>8. LaunchInv'
  BY <1>1, <1>2, <1>3, <1>4, <1>5, <1>6, <1>7, CaptureTyped DEF LaunchInv, Written
<1>9. RowInv'
  BY <1>1, <1>2, <1>3, <1>4, <1>5, <1>6, <1>7, CaptureTyped DEF RowInv, Written
<1>10. WatchInv'
  <2>1. CASE claimed' = claimed /\ WatcherAt(w, "poll", watcher[w].of, 0)
    BY <1>1, <1>2, <1>3, <1>4, <1>5, <1>6, <1>7, <2>1, WatchOne DEF WatchInv, WatcherAt
  <2>2. CASE /\ claimed[watcher[w].found] = Stranger
             /\ claimed' = [claimed EXCEPT ![watcher[w].found] = OwnerOf(w)]
             /\ WatcherAt(w, "persist", watcher[w].of, watcher[w].found)
    <3>1. /\ claimed'[watcher[w].found] = OwnerOf(w)
          /\ \A k : k # watcher[w].found => claimed'[k] = claimed[k]
      BY <2>2, <1>5, CaptureTyped
    <3>2. /\ launch[watcher[w].of].state \in {"live", "dead"} /\ born[watcher[w].of] # 0
          /\ watcher[w].found # 0 /\ rollout[watcher[w].found] >= born[watcher[w].of]
      BY <1>1, <1>3 DEF WatchInv
    <3>3. \A v \in Watchers \ {w} : watcher[v].pc = "persist"
             => claimed'[watcher[v].found] = claimed[watcher[v].found]
      BY <1>7, <2>2, <3>1
    <3> QED
      BY <1>1, <1>2, <1>5, <1>6, <1>7, <2>2, <3>1, <3>2, <3>3, WatchOne DEF WatcherAt, OwnerOf
  <2> QED
    BY <1>4, <2>1, <2>2
<1>11. ClaimInv'
  <2>1. \A k \in Rollouts : claimed'[k] = claimed[k] \/ (k = watcher[w].found /\ claimed[k] = Stranger)
    BY <1>4, <1>5, CaptureTyped
  <2>2. \A k \in Rollouts : claimed'[k] # Stranger => Written(k)'
    BY <1>1, <1>2, <1>5, <2>1 DEF ClaimInv, Written
  <2>3. ASSUME NEW r \in CodexRows, stored[r].key # 0
        PROVE  claimed'[stored[r].key] = r \/ Old(stored[r].key)
    <3>1. stored[r].key \in Rollouts
      BY <2>3, CaptureTyped
    <3> QED
      BY <1>1, <2>1, <2>3, <3>1, CaptureTyped DEF ClaimInv
  <2>4. \A k : Old(k)' <=> Old(k)
    BY <1>2 DEF Old
  <2> QED
    BY <1>2, <2>2, <2>3, <2>4 DEF ClaimInv
<1>12. RobInv'
  <2>1. CASE claimed' = claimed /\ WatcherAt(w, "poll", watcher[w].of, 0)
    BY <1>1, <1>2, <1>3, <1>4, <1>5, <1>6, <1>7, <2>1, RobOne DEF WatcherAt
  <2>2. CASE /\ claimed' = [claimed EXCEPT ![watcher[w].found] = OwnerOf(w)]
             /\ WatcherAt(w, "persist", watcher[w].of, watcher[w].found)
    <3>1. \A s \in CodexRows : \A k : Waits(s, k)' <=> Waits(s, k)
      BY <1>2 DEF Waits, Unkeyed
    <3>2. \A s \in CodexRows : Waits(s, watcher[w].found) => s = OwnerOf(w)
      BY <1>1, <1>3 DEF RobInv
    <3>3. ASSUME NEW k \in Rollouts, NEW s \in CodexRows, Waits(s, k)
          PROVE  claimed'[k] \in {s, Stranger}
      BY <1>1, <1>5, <2>2, <3>2, <3>3, CaptureTyped DEF RobInv
    <3>4. ASSUME NEW v \in Watchers, watcher'[v].pc \in {"claim", "persist"}, NEW s \in CodexRows,
                 Waits(s, watcher'[v].found)
          PROVE  s = launch[watcher'[v].of].owner
      BY <1>1, <2>2, <3>2, <3>4 DEF RobInv, WatcherAt, OwnerOf
    <3> QED
      BY <1>1, <1>2, <3>1, <3>3, <3>4 DEF RobInv, OwnerOf
  <2> QED
    BY <1>4, <2>1, <2>2
<1>13. KeysAreNotShared'
  BY <1>1, <1>2, <1>3, <1>4, <1>5, <1>6, <1>7, CaptureTyped DEF KeysAreNotShared, Rest
<1>14. FreshStaysFresh'
  BY <1>1, <1>2, <1>3, <1>4, <1>5, <1>6, <1>7, CaptureTyped DEF FreshStaysFresh, Rest
<1> QED
  BY <1>8, <1>9, <1>10, <1>11, <1>12, <1>13, <1>14 DEF Rest

\* What is stored was claimed for the session, and nobody else waits for it or has it.
LEMMA PersistsKeep ==
    ASSUME CaptureTypeOK, Rest, NEW w \in Watchers, Persists(w)
    PROVE  Rest'
<1>1. CaptureTypeOK /\ LaunchInv /\ RowInv /\ WatchInv /\ ClaimInv /\ RobInv
  BY DEF Rest
<1>2. /\ launch' = launch /\ born' = born /\ rollout' = rollout
      /\ launches' = launches /\ forks' = forks /\ claimed' = claimed
  BY DEF Persists
<1>3. watcher[w].pc = "persist" /\ WatcherAt(w, "none", 0, 0)
  BY WatcherActs DEF Persists
<1>4. \/ stored' = stored
      \/ /\ stored[OwnerOf(w)].key = 0 /\ stored[OwnerOf(w)].of = watcher[w].of /\ OwnerOf(w) \in CodexRows
         /\ RowAt(OwnerOf(w), stored[OwnerOf(w)].status, stored[OwnerOf(w)].of, watcher[w].found)
  BY RowActs DEF MayPersist
<1>5. LaunchInv'
  BY <1>1, <1>2, <1>3, <1>4, CaptureTyped DEF LaunchInv, Written
<1>6. RowInv'
  <2>1. CASE stored' = stored
    BY <1>1, <1>2, <2>1 DEF RowInv, Written
  <2>2. CASE stored' # stored
    <3> DEFINE r == OwnerOf(w)
    <3>1. /\ r \in CodexRows /\ stored[r].of = watcher[w].of /\ stored'[r].of = stored[r].of
          /\ stored'[r].key = watcher[w].found /\ \A s \in CodexRows \ {r} : stored'[s] = stored[s]
      BY <1>4, <2>2 DEF RowAt
    <3>2. /\ launch[stored[r].of].state \in {"live", "dead"} /\ Written(watcher[w].found)
          /\ watcher[w].of \in LaunchIds
      BY <1>1, <1>3, <3>1, CaptureTyped DEF WatchInv
    <3> HIDE DEF r
    <3>3. stored[r].of # 0
      BY <3>1, <3>2, CaptureTyped
    <3> QED
      BY <1>1, <1>2, <3>1, <3>2, <3>3 DEF RowInv, Written
  <2> QED
    BY <2>1, <2>2
<1>7. WatchInv'
  <2>1. \A s \in CodexRows : stored'[s].key = stored[s].key \/ stored'[s].key = watcher[w].found
    BY <1>4 DEF RowAt
  <2> SUFFICES ASSUME NEW v \in Watchers, watcher'[v].pc # "none"
               PROVE  /\ launch[watcher'[v].of].state \in {"live", "dead"} /\ born[watcher'[v].of] # 0
                      /\ watcher'[v].pc # "poll" =>
                            /\ watcher'[v].found # 0 /\ Written(watcher'[v].found)
                            /\ rollout[watcher'[v].found] >= born[watcher'[v].of]
                      /\ watcher'[v].pc = "persist" =>
                            /\ claimed[watcher'[v].found] = launch[watcher'[v].of].owner
                            /\ \A r \in CodexRows : stored'[r].key # watcher'[v].found
                            /\ \A u \in Watchers \ {v} : watcher'[u].pc = "persist"
                                           => watcher'[u].found # watcher'[v].found
    BY <1>2 DEF WatchInv, Written, OwnerOf
  <2>2. v # w /\ watcher'[v] = watcher[v]
    BY <1>3 DEF WatcherAt
  <2>3. /\ watcher[v].pc = "persist" => watcher[v].found # watcher[w].found
        /\ watcher[v].pc = "persist" => \A r \in CodexRows : stored[r].key # watcher[v].found
    BY <1>1, <1>3, <2>2 DEF WatchInv
  <2>4. \A u \in Watchers \ {v} : watcher'[u].pc = "persist" => u # w /\ watcher'[u] = watcher[u]
    BY <1>3 DEF WatcherAt
  <2> QED
    BY <1>1, <2>1, <2>2, <2>3, <2>4 DEF WatchInv, OwnerOf
<1>8. ClaimInv'
  <2>1. \A k : (Old(k)' <=> Old(k)) /\ (Written(k)' <=> Written(k))
    BY <1>2 DEF Old, Written
  <2>2. claimed[watcher[w].found] = OwnerOf(w)
    BY <1>1, <1>3 DEF WatchInv
  <2>3. \A s \in CodexRows : stored'[s].key = stored[s].key \/ (s = OwnerOf(w) /\ stored'[s].key = watcher[w].found)
    BY <1>4 DEF RowAt
  <2> QED
    BY <1>1, <1>2, <2>1, <2>2, <2>3 DEF ClaimInv
<1>9. RobInv'
  <2>1. \A s \in CodexRows : \A k : Waits(s, k)' => Waits(s, k)
    BY <1>1, <1>3, <1>4, CaptureTyped DEF Waits, Unkeyed, RowAt, WatchInv
  <2>2. \A s \in CodexRows : Waits(s, watcher[w].found) => s = OwnerOf(w)
    BY <1>1, <1>3 DEF RobInv
  <2>3. \A s \in CodexRows : stored'[s].key = stored[s].key \/ (s = OwnerOf(w) /\ stored'[s].key = watcher[w].found)
    BY <1>4 DEF RowAt
  <2>4. \A r, s \in CodexRows : r # s /\ stored'[r].key # 0 => ~Waits(s, stored'[r].key)
    BY <1>1, <2>2, <2>3 DEF RobInv
  <2>5. ASSUME NEW v \in Watchers, watcher'[v].pc \in {"claim", "persist"}, NEW s \in CodexRows,
               Waits(s, watcher'[v].found)
        PROVE  s = launch[watcher'[v].of].owner
    BY <1>1, <1>3, <2>5 DEF RobInv, WatcherAt, OwnerOf
  <2> QED
    BY <1>1, <1>2, <2>1, <2>4, <2>5 DEF RobInv, OwnerOf
<1>10. KeysAreNotShared'
  BY <1>1, <1>2, <1>3, <1>4, CaptureTyped DEF KeysAreNotShared, WatchInv, Rest, RowAt
<1>11. FreshStaysFresh'
  BY <1>1, <1>2, <1>3, <1>4, CaptureTyped DEF FreshStaysFresh, WatchInv, Rest, RowAt
<1> QED
  BY <1>5, <1>6, <1>7, <1>8, <1>9, <1>10, <1>11 DEF Rest

\* A watch that ends leaves all as it is.
LEMMA GivesUpKeep ==
    ASSUME CaptureTypeOK, Rest, NEW w \in Watchers, GivesUp(w)
    PROVE  Rest'
<1>1. CaptureTypeOK /\ LaunchInv /\ RowInv /\ WatchInv /\ ClaimInv /\ RobInv
  BY DEF Rest
<1>2. /\ stored' = stored /\ launch' = launch /\ born' = born /\ rollout' = rollout
      /\ launches' = launches /\ forks' = forks /\ claimed' = claimed
  BY DEF GivesUp, WatchersOnly
<1>3. watcher[w].pc = "poll" /\ WatcherAt(w, "none", 0, 0)
  BY WatcherActs DEF GivesUp
<1>4. LaunchInv'
  BY <1>1, <1>2, <1>3, CaptureTyped DEF LaunchInv, Written
<1>5. RowInv'
  BY <1>1, <1>2, <1>3, CaptureTyped DEF RowInv, Written
<1>6. WatchInv'
  <2>1. /\ watcher'[w].pc # "none" =>
              /\ launch[watcher'[w].of].state \in {"live", "dead"} /\ born[watcher'[w].of] # 0
        /\ watcher'[w].pc \notin {"none", "poll"} =>
              /\ watcher'[w].found # 0 /\ Written(watcher'[w].found)
              /\ rollout[watcher'[w].found] >= born[watcher'[w].of]
        /\ watcher'[w].pc # "persist"
    BY <1>1, <1>2, <1>3, CaptureTyped DEF WatchInv, WatcherAt
  <2> QED
    BY <1>1, <1>2, <1>3, <2>1, WatchOne DEF WatcherAt
<1>7. ClaimInv'
  BY <1>1, <1>2, <1>3, CaptureTyped DEF ClaimInv, Written, Old
<1>8. RobInv'
  <2>1. watcher'[w].pc \in {"claim", "persist"} =>
           \A s \in CodexRows : Waits(s, watcher'[w].found) => s = launch[watcher'[w].of].owner
    BY <1>1, <1>2, <1>3, CaptureTyped DEF RobInv, RowInv, Waits, Unkeyed, OwnerOf, WatcherAt
  <2> QED
    BY <1>1, <1>2, <1>3, <2>1, RobOne DEF WatcherAt
<1>9. KeysAreNotShared'
  BY <1>1, <1>2, <1>3, CaptureTyped DEF KeysAreNotShared, Rest
<1>10. FreshStaysFresh'
  BY <1>1, <1>2, <1>3, CaptureTyped DEF FreshStaysFresh, Rest
<1> QED
  BY <1>4, <1>5, <1>6, <1>7, <1>8, <1>9, <1>10 DEF Rest

\* A launch is what makes a session run.
LEMMA RunningStays ==
    ASSUME CaptureTypeOK, RunningInv, CaptureNext
    PROVE  RunningInv'
<1>1. ASSUME NEW r \in CodexRows, NEW fresh \in BOOLEAN, NEW marked \in Markers,
             Launches(r, fresh, marked)
      PROVE  RunningInv'
  <2>1. RowAt(r, "running", launches + 1, IF fresh THEN 0 ELSE stored[r].key)
    BY <1>1, RowActs
  <2> QED
    BY <2>1, CaptureTyped DEF RowAt, RunningInv
<1>2. ASSUME NEW n \in LaunchIds, Forks(n) \/ ProcessEnds(n) \/ WritesRollout(n)
      PROVE  RunningInv'
  BY <1>2 DEF Forks, ProcessEnds, WritesRollout, RunningInv
<1>3. ASSUME NEW r \in CodexRows, RowSettles(r)
      PROVE  RunningInv'
  BY <1>3, RowActs DEF RowAt, RunningInv
<1>4. StrangerWrites \/ AppEnds => RunningInv'
  BY RowActs DEF StrangerWrites, RunningInv
<1>5. ASSUME NEW w \in Watchers, NEW r \in CodexRows, Watches(w, r)
      PROVE  RunningInv'
  BY <1>5 DEF Watches, WatchersOnly, RunningInv
<1>6. ASSUME NEW w \in Watchers,
             Proves(w) \/ Guesses(w) \/ Checks(w) \/ Claims(w) \/ GivesUp(w)
      PROVE  RunningInv'
  BY <1>6 DEF Proves, Guesses, Checks, Claims, GivesUp, WatchersOnly, RunningInv
<1>7. ASSUME NEW w \in Watchers, Persists(w)
      PROVE  RunningInv'
  BY <1>7, RowActs DEF RowAt, RunningInv
<1> QED
  BY <1>1, <1>2, <1>3, <1>4, <1>5, <1>6, <1>7 DEF CaptureNext

-----------------------------------------------------------------------------
(* The theorems.                                                           *)

\* Every step keeps the invariant, and so does a stutter.
LEMMA CaptureStays ==
    ASSUME CaptureInv, [CaptureNext]_captureVars
    PROVE  CaptureInv'
<1>1. CaptureTypeOK /\ RunningInv /\ Rest
  BY DEF CaptureInv, Rest
<1>2. CASE CaptureNext
  <2>1. CaptureTypeOK'
    BY <1>1, <1>2, CaptureTypes DEF Rest
  <2>2. ASSUME NEW r \in CodexRows, NEW fresh \in BOOLEAN, NEW marked \in Markers,
               Launches(r, fresh, marked)
        PROVE  Rest'
    BY <1>1, <2>2, LaunchesKeep
  <2>3. ASSUME NEW n \in LaunchIds, Forks(n) \/ ProcessEnds(n) \/ WritesRollout(n)
        PROVE  Rest'
    BY <1>1, <2>3, ForksKeep, ProcessEndsKeep, WritesRolloutKeep
  <2>4. ASSUME NEW r \in CodexRows, RowSettles(r)
        PROVE  Rest'
    BY <1>1, <2>4, RowSettlesKeep
  <2>5. StrangerWrites \/ AppEnds => Rest'
    BY <1>1, StrangerWritesKeep, AppEndsKeep
  <2>6. ASSUME NEW w \in Watchers, NEW r \in CodexRows, Watches(w, r)
        PROVE  Rest'
    BY <1>1, <2>6, WatchesKeep
  <2>7. ASSUME NEW w \in Watchers,
               Proves(w) \/ Guesses(w) \/ Checks(w) \/ Claims(w) \/ Persists(w) \/ GivesUp(w)
        PROVE  Rest'
    BY <1>1, <2>7, ProvesKeep, GuessesKeep, ChecksKeep, ClaimsKeep, PersistsKeep, GivesUpKeep
  <2> HIDE DEF Rest
  <2>8. Rest'
    BY <1>2, <2>2, <2>3, <2>4, <2>5, <2>6, <2>7 DEF CaptureNext
  <2> QED
    BY <1>1, <1>2, <2>1, <2>8, RunningStays DEF CaptureInv, Rest
<1>3. CASE UNCHANGED captureVars
  BY <1>3 DEF captureVars, CaptureInv, CaptureTypeOK, LaunchInv, RowInv, WatchInv, ClaimInv, RobInv,
     RunningInv,
     KeysAreNotShared, FreshStaysFresh, Written, Old, Waits, Unkeyed, OwnerOf
<1> QED
  BY <1>2, <1>3

\* The invariant, which everything about the keys follows from.
THEOREM CaptureInvariance == CaptureSpec => []CaptureInv
<1>1. CaptureInit => CaptureInv
  BY CaptureStarts
<1>2. CaptureInv /\ [CaptureNext]_captureVars => CaptureInv'
  BY CaptureStays
<1> QED
  BY <1>1, <1>2, PTL DEF CaptureSpec

\* Types: a watcher always watches for a launch of one of the sessions.
THEOREM CaptureIsTyped == CaptureSpec => []CaptureTypeOK
<1>1. CaptureInv => CaptureTypeOK
  BY DEF CaptureInv
<1> QED
  BY <1>1, CaptureInvariance, PTL

\* Two sessions never get one conversation.
THEOREM KeysStayApart == CaptureSpec => []KeysAreNotShared
<1>1. CaptureInv => KeysAreNotShared
  BY DEF CaptureInv
<1> QED
  BY <1>1, CaptureInvariance, PTL

\* The rollout of a running session that has no key yet is taken by no other session.
THEOREM RolloutsAreNotRobbed == CaptureSpec => []NobodyIsRobbed
<1>1. CaptureInv => NobodyIsRobbed
  <2> SUFFICES ASSUME CaptureInv, NEW s \in CodexRows, Unkeyed(s), Written(stored[s].of)
               PROVE  /\ claimed[stored[s].of] \in {s, Stranger}
                      /\ \A r \in CodexRows \ {s} : stored[r].key # stored[s].of
    BY DEF NobodyIsRobbed
  <2>1. CaptureTypeOK /\ RunningInv /\ RobInv
    BY DEF CaptureInv
  <2>2. Waits(s, stored[s].of)
    BY DEF Waits
  <2>3. stored[s].of \in Rollouts /\ stored[s].of # 0
    BY <2>1, CaptureTyped DEF Unkeyed, RunningInv
  <2>4. claimed[stored[s].of] \in {s, Stranger}
    BY <2>1, <2>2, <2>3 DEF RobInv
  <2>5. \A r \in CodexRows \ {s} : stored[r].key # stored[s].of
    BY <2>1, <2>2, <2>3, CaptureTyped DEF RobInv
  <2> QED
    BY <2>4, <2>5
<1> QED
  BY <1>1, CaptureInvariance, PTL

\* A session that was launched afresh holds no conversation older than its launch.
THEOREM FreshSessionsStayFresh == CaptureSpec => []FreshStaysFresh
<1>1. CaptureInv => FreshStaysFresh
  BY DEF CaptureInv
<1> QED
  BY <1>1, CaptureInvariance, PTL


=============================================================================
