------------------------------ MODULE Attention ------------------------------
(***************************************************************************)
(* The unread dot of a chat tab                                            *)
(* (crates/runner-backend/src/ops/node.rs, repo/node.rs, ops/window.rs,    *)
(* windows.rs, session/manager/{mod,output,spawn,lifecycle}.rs).           *)
(* A session is Busy or Idle; the human's input arms it.  When it goes     *)
(* idle its forwarder asks, in one write transaction, whether the whole    *)
(* tab is idle and one of its sessions armed, and if so puts a dot on the  *)
(* tab, unless a focused window shows it.  The UI thread focuses windows,  *)
(* changes what they show, and takes the dot off what has come into view.  *)
(*                                                                         *)
(* Session states, window registry and database have a lock each and none  *)
(* is held over another, except that the transaction of a check spans its  *)
(* reads of the other two.  Shells of a tab count for nothing here and are *)
(* left out; mission sessions have no tab.                                 *)
(***************************************************************************)
EXTENDS Integers, FiniteSets

CONSTANTS
    Sessions,   \* direct sessions with an agent
    Tabs,       \* tab nodes
    Windows,    \* windows of the app
    NoOne,      \* no session
    MaxTurns    \* bound: inputs, agents that go busy by themselves, spawns, changes of
                \*   windows and transactions that fail, together

AttentionAssumption == NoOne \notin Sessions /\ MaxTurns \in Nat
ASSUME AttentionAssumption

VARIABLES
    tabOf,      \* tab whose layout has the session
    activity,   \* "busy", "idle", or "none" without a handle
    armed,      \* completion_armed
    check,      \* record_session_completion of each session's forwarder
    viewed,     \* what a check read from the window registry
    committing, \* check that has the write transaction open
    focused,    \* windows in front
    shows,      \* sessions a window has on screen
    marking,    \* sessions the UI thread is about to mark viewed
    stamp,      \* node_mark_viewed has taken its time and row: "none", "taken", or
                \*   "older" than a completion of the tab by now
    dots,       \* tabs with an unread completion
    turns,      \* bounded events so far
    turn,       \* history: "running", "done" or "none", the human's turn with a session
    lost,       \* history: sessions whose done turn nobody will announce
    missedMarks \* history: tabs in view whose mark was not written or too old

sessionState  == <<activity, armed>>
windowState   == <<focused, shows, marking, stamp>>
checkState    == <<check, viewed, committing>>
attentionVars == <<tabOf, sessionState, checkState, windowState, dots, turns, turn, lost,
                   missedMarks>>

AttentionInit ==
    /\ tabOf \in [Sessions -> Tabs]
    /\ activity = [s \in Sessions |-> "none"] /\ armed = {}
    /\ check = [s \in Sessions |-> "none"] /\ viewed = [s \in Sessions |-> FALSE]
    /\ committing = NoOne
    /\ focused = {} /\ shows = [w \in Windows |-> {}] /\ marking = {}
    /\ stamp = "none"
    /\ dots = {} /\ turns = 0
    /\ turn = [s \in Sessions |-> "none"] /\ lost = {} /\ missedMarks = {}

-----------------------------------------------------------------------------
Members(t)   == {s \in Sessions : tabOf[s] = t}
Siblings(s)  == Members(tabOf[s])
Done(S)      == {s \in S : turn[s] = "done"}
TabsOf(S)    == {tabOf[s] : s \in S}
Displayed(t) == \E w \in focused : shows[w] \cap Members(t) # {}
Counted      == turns < MaxTurns /\ turns' = turns + 1

\* The human's turn with session s begins.
NewTurn(s) ==
    /\ armed' = armed \cup {s}
    /\ turn' = [turn EXCEPT ![s] = "running"]
    /\ lost' = lost \ {s}

\* A first turn in argv arms the session; a fork has none.
Spawn(s) ==
    /\ activity[s] = "none" /\ check[s] = "none" /\ Counted
    /\ activity' = [activity EXCEPT ![s] = "busy"]
    /\ NewTurn(s) \/ UNCHANGED <<armed, turn, lost>>
    /\ UNCHANGED <<tabOf, checkState, windowState, dots, missedMarks>>

\* write_stdin with an Enter: activity and arm under one hold of the session.
Submit(s) ==
    /\ activity[s] # "none" /\ Counted
    /\ activity' = [activity EXCEPT ![s] = "busy"]
    /\ NewTurn(s)
    /\ UNCHANGED <<tabOf, checkState, windowState, dots, missedMarks>>

\* The forwarder, which is busy itself while it checks.
AgentBusy(s) ==
    /\ activity[s] = "idle" /\ check[s] = "none" /\ Counted
    /\ activity' = [activity EXCEPT ![s] = "busy"]
    /\ UNCHANGED <<tabOf, armed, checkState, windowState, dots, turn, lost, missedMarks>>

AgentIdle(s) ==
    /\ activity[s] = "busy" /\ check[s] = "none"
    /\ activity' = [activity EXCEPT ![s] = "idle"]
    /\ check' = [check EXCEPT ![s] = "wait"]
    /\ turn' = [turn EXCEPT ![s] = IF @ = "running" THEN "done" ELSE @]
    /\ UNCHANGED <<tabOf, armed, viewed, committing, windowState, dots, turns, lost, missedMarks>>

\* Killed or ended.  No transition is published: the siblings of a session that was
\* busy have waited for an idle that does not come.
Exit(s) ==
    /\ activity[s] # "none"
    /\ activity' = [activity EXCEPT ![s] = "none"]
    /\ armed' = armed \ {s}
    /\ turn' = [turn EXCEPT ![s] = "none"]
    /\ lost' = (IF activity[s] = "busy" THEN lost \cup Done(Siblings(s)) ELSE lost) \ {s}
    /\ UNCHANGED <<tabOf, checkState, windowState, dots, turns, missedMarks>>

-----------------------------------------------------------------------------
(* record_session_completion.                                               *)

Ends(s) ==
    /\ check' = [check EXCEPT ![s] = "none"]
    /\ committing' = NoOne

CheckBegins(s) ==
    /\ check[s] = "wait" /\ committing = NoOne
    /\ \/ /\ check' = [check EXCEPT ![s] = "read"]
          /\ committing' = s
          /\ UNCHANGED <<turns, lost>>
       \/ /\ Counted /\ Ends(s)  \* no connection, or the repair of the tree fails
          /\ lost' = lost \cup Done(Siblings(s))
    /\ UNCHANGED <<tabOf, sessionState, viewed, windowState, dots, turn, missedMarks>>

MutCheckReads(s) ==  \* takes the arms before it looks at the siblings
    /\ check[s] = "read"
    /\ \/ /\ \E m \in Siblings(s) : activity[m] = "busy"
          /\ armed' = armed \ Siblings(s)
          /\ Ends(s)
       \/ /\ \A m \in Siblings(s) : activity[m] # "busy"
          /\ check' = [check EXCEPT ![s] = "take"]
          /\ UNCHANGED <<armed, committing>>
    /\ UNCHANGED <<tabOf, activity, viewed, windowState, dots, turns, turn, lost, missedMarks>>

CheckReads(s) ==
    /\ check[s] = "read"
    /\ \/ /\ \E m \in Siblings(s) : activity[m] = "busy"
          /\ Ends(s)
       \/ /\ \A m \in Siblings(s) : activity[m] # "busy"
          /\ check' = [check EXCEPT ![s] = "take"]
          /\ UNCHANGED committing
    /\ UNCHANGED <<tabOf, sessionState, viewed, windowState, dots, turns, turn, lost, missedMarks>>

\* The arm of an input that came after the read is taken too, and its turn is not
\* announced when it is done.
CheckTakes(s) ==
    /\ check[s] = "take"
    /\ armed' = armed \ Siblings(s)
    /\ \/ armed \cap Siblings(s) = {} /\ Ends(s)
       \/ /\ armed \cap Siblings(s) # {}
          /\ check' = [check EXCEPT ![s] = "look"]
          /\ UNCHANGED committing
    /\ lost' = lost \cup {m \in armed \cap Siblings(s) : turn[m] = "running"}
    /\ UNCHANGED <<tabOf, activity, viewed, windowState, dots, turns, turn, missedMarks>>

MutCheckLooks(s) ==  \* looks at the windows outside of the transaction
    /\ check[s] = "look"
    /\ viewed' = [viewed EXCEPT ![s] = Displayed(tabOf[s])]
    /\ check' = [check EXCEPT ![s] = "write"]
    /\ committing' = NoOne
    /\ UNCHANGED <<tabOf, sessionState, windowState, dots, turns, turn, lost, missedMarks>>

CheckLooks(s) ==
    /\ check[s] = "look"
    /\ viewed' = [viewed EXCEPT ![s] = Displayed(tabOf[s])]
    /\ check' = [check EXCEPT ![s] = "write"]
    /\ UNCHANGED <<tabOf, sessionState, committing, windowState, dots, turns, turn, lost,
                   missedMarks>>

\* record_completion and commit.  When they fail the arms are gone all the same.
CheckWrites(s) ==
    /\ check[s] = "write"
    /\ \/ /\ dots' = IF viewed[s] THEN dots \ {tabOf[s]} ELSE dots \cup {tabOf[s]}
          /\ turn' = [m \in Sessions |-> IF m \in Done(Siblings(s)) THEN "none" ELSE turn[m]]
          /\ lost' = lost \ Done(Siblings(s))
          /\ missedMarks' = missedMarks \ {tabOf[s]}
          /\ stamp' \in {stamp} \cup
                IF stamp = "taken" /\ tabOf[s] \in TabsOf(marking) THEN {"older"} ELSE {}
          /\ UNCHANGED turns
       \/ /\ Counted
          /\ lost' = lost \cup Done(Siblings(s))
          /\ UNCHANGED <<dots, turn, missedMarks, stamp>>
    /\ Ends(s)
    /\ UNCHANGED <<tabOf, sessionState, viewed, focused, shows, marking>>

-----------------------------------------------------------------------------
(* The UI thread: it changes the registry, then marks what is in view in a  *)
(* transaction of its own, before it does anything else.                    *)

Visible(w) == IF w \in focused' THEN shows'[w] ELSE {}

UIStep ==
    /\ marking = {} /\ Counted
    /\ UNCHANGED <<tabOf, sessionState, checkState, stamp, dots, turn, lost, missedMarks>>

ReportSubjects(w) ==
    /\ UIStep
    /\ \E S \in SUBSET Sessions : shows' = [shows EXCEPT ![w] = S]
    /\ UNCHANGED focused
    /\ marking' = Visible(w)

MarkFocused(w) ==
    /\ UIStep
    /\ focused' = focused \cup {w}
    /\ UNCHANGED shows
    /\ marking' = Visible(w)

\* Blurred, hidden or closed.
MarkBlurred(w) ==
    /\ UIStep
    /\ focused' = focused \ {w}
    /\ UNCHANGED <<shows, marking>>

MarkDirectSessionsViewed ==
    /\ marking # {} /\ stamp = "none" /\ committing = NoOne
    /\ \/ /\ dots' = dots \ TabsOf(marking)
          /\ missedMarks' = missedMarks \ TabsOf(marking)
          /\ UNCHANGED turns
       \/ /\ Counted
          /\ missedMarks' = missedMarks \cup TabsOf(marking)
          /\ UNCHANGED dots
    /\ marking' = {}
    /\ UNCHANGED <<tabOf, sessionState, checkState, focused, shows, stamp, turn, lost>>

\* An active window turns to a tab.  It reads time and row of the tab outside of a
\* transaction, and the statement that writes them may wait for a check.
NodeMarkViewed(w) ==
    /\ marking = {} /\ Counted
    /\ focused' = focused \cup {w}
    /\ \E t \in TabsOf(Sessions) : shows' = [shows EXCEPT ![w] = Members(t)]
    /\ marking' = Visible(w)
    /\ stamp' = "taken"
    /\ UNCHANGED <<tabOf, sessionState, checkState, dots, turn, lost, missedMarks>>

\* The statement overwrites what the row holds by now: an older time shows the
\* completion as unread, also to a check that had the tab in view.
NodeIsMarked ==
    /\ marking # {} /\ stamp # "none" /\ committing = NoOne
    /\ \/ /\ stamp = "taken"
          /\ dots' = dots \ TabsOf(marking) /\ missedMarks' = missedMarks \ TabsOf(marking)
          /\ UNCHANGED turns
       \/ /\ stamp = "older"
          /\ dots' = dots \cup TabsOf(marking) /\ missedMarks' = missedMarks \cup TabsOf(marking)
          /\ UNCHANGED turns
       \/ /\ Counted
          /\ missedMarks' = missedMarks \cup TabsOf(marking)
          /\ UNCHANGED dots
    /\ marking' = {} /\ stamp' = "none"
    /\ UNCHANGED <<tabOf, sessionState, checkState, focused, shows, turn, lost>>

AttentionNext ==
    \/ \E s \in Sessions :
          \/ Spawn(s) \/ Submit(s) \/ AgentBusy(s) \/ AgentIdle(s) \/ Exit(s)
          \/ CheckBegins(s) \/ CheckReads(s) \/ CheckTakes(s) \/ CheckLooks(s)
          \/ CheckWrites(s)
    \/ \E w \in Windows :
          ReportSubjects(w) \/ MarkFocused(w) \/ MarkBlurred(w) \/ NodeMarkViewed(w)
    \/ MarkDirectSessionsViewed \/ NodeIsMarked

AttentionSpec == AttentionInit /\ [][AttentionNext]_attentionVars

-----------------------------------------------------------------------------
(* Properties.                                                              *)

\* The types of the state, and that one check at a time is inside its transaction.
AttentionTypeOK ==
    /\ tabOf \in [Sessions -> Tabs]
    /\ activity \in [Sessions -> {"busy", "idle", "none"}]
    /\ armed \subseteq Sessions /\ lost \subseteq Sessions /\ marking \subseteq Sessions
    /\ check \in [Sessions -> {"none", "wait", "read", "take", "look", "write"}]
    /\ viewed \in [Sessions -> BOOLEAN]
    /\ committing \in Sessions \cup {NoOne}
    /\ stamp \in {"none", "taken", "older"}
    /\ focused \subseteq Windows /\ shows \in [Windows -> SUBSET Sessions]
    /\ dots \subseteq Tabs /\ missedMarks \subseteq Tabs
    /\ turns \in 0 .. MaxTurns
    /\ turn \in [Sessions -> {"none", "running", "done"}]
    /\ \A s \in Sessions : check[s] \in {"read", "take", "look", "write"} <=> committing = s

\* What the human is looking at has no unread dot: whichever way a completion and a
\* change of focus overlap, one of them sees the other, unless the mark failed or
\* node_mark_viewed had taken its time before the completion took its own and put the
\* dot back (MarksAddNoDot).
NoDotInView ==
    \A t \in dots \ missedMarks : Displayed(t) => t \in TabsOf(marking)

\* What the UI thread marks viewed is not unread because of it: last_viewed_at never
\* goes back behind a completion that the human has seen.  Refuted.
MarksAddNoDot ==
    [][marking # {} /\ marking' = {} => dots' \subseteq dots]_attentionVars

\* A check of the tab will still find the arm of session s.
WillAnnounce(s) ==
    \/ \E m \in Siblings(s) : check[m] \in {"look", "write"}
    \/ /\ s \in armed
       /\ \E m \in Siblings(s) :
             activity[m] = "busy" \/ check[m] \in {"wait", "read", "take"}

\* A turn that is done is announced, or a check that will announce it is under way,
\* or waits for a sibling that is busy.  Nobody announces it when that sibling ends
\* without going idle, when a check of the tab took the arm while the turn was still
\* running, or when a check could not write.
TurnsAreAnnounced ==
    \A s \in Sessions \ lost : turn[s] = "done" => WillAnnounce(s)

=============================================================================
