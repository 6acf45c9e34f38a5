-------------------------- MODULE MCPromptDelivery --------------------------
(* Small instances of PromptDelivery for TLC. *)
EXTENDS PromptDelivery, TLC

CONSTANTS a1, a2, s1, s2, t1, t2, r1, r2, c1, c2, w1, w2, slot1, slot2, slot3

View(session, status, ready) ==
  [session |-> session, status |-> status, ready |-> ready]

To(a, s, t) == [agent |-> a, session |-> s, text |-> t]

\* One pane whose occupant works, settles, blocks, is replaced, and is gone.
ViewsOccupants ==
  {View(s1, "sendable", TRUE), View(s1, "midturn", TRUE),
   View(s1, "needs_terminal", TRUE), View(s2, "sendable", TRUE),
   View(s2, "midturn", TRUE), View(NoSession, "unknown", FALSE)}
BodiesTwoSessions == {To(a1, s1, t1), To(a1, s2, t1)}
RaceSymmetry ==
  Permutations(Clients) \cup Permutations(Workers) \cup
  Permutations(Requests) \cup Permutations(Slots)

\* One session after another in a pane; t2 is a text only an edit brings.
ViewsSuccession ==
  {View(s1, "sendable", TRUE), View(s1, "midturn", TRUE),
   View(s2, "sendable", FALSE), View(s2, "midturn", TRUE)}
SuccessionSymmetry ==
  Permutations(Workers) \cup Permutations(Requests) \cup Permutations(Slots)

\* A pane whose turns begin and end.
ViewsTurns == {View(s1, "sendable", TRUE), View(s1, "midturn", TRUE)}
BodiesOne  == {To(a1, s1, t1)}

\* The same request id sent to two panes.
BodiesTwoPanes == {To(a1, s1, t1), To(a2, s1, t1)}
PaneSymmetry ==
  Permutations(Clients) \cup Permutations(Workers) \cup
  Permutations(Agents) \cup Permutations(Slots)
=============================================================================
