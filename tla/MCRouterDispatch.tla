-------------------------- MODULE MCRouterDispatch --------------------------
EXTENDS RouterDispatch

\* A broadcast, a relay to the lead, and one to a handle that no session has.
MCPosts == {Event("message", "lead", Everyone, 0),
            Event("ask_lead", "impl", Everyone, 0),
            Event("human_said", Human, "gone", 0)}
=============================================================================
