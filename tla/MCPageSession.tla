--------------------------- MODULE MCPageSession ----------------------------
(* Two tabs, two sessions, and two calls under way at the same time. *)
EXTENDS PageSession, TLC

Symmetry == Permutations(Tabs) \cup Permutations(SessionIds) \cup Permutations(CallIds)

Open == {s \in SessionIds : server[s].status = "open"}

\* Once the last token is given out, behaviours end that have two sessions open.
TwoOpenOnlyEarly == issued = MaxTokens => \A r, s \in Open : r = s
=============================================================================
