----------------------------- MODULE AnswerOnce ------------------------------
(***************************************************************************)
(* What the interaction broker promises, whatever races: an interaction is *)
(* decided once, and the provider that waits for it hears that decision,   *)
(* or that its wait failed, once and never before the decision.            *)
(***************************************************************************)
CONSTANTS Interactions, Decisions, Failures, Undecided, Unheard

VARIABLES
  decided,   \* how each interaction was settled
  heard      \* what the provider was told

Init ==
  /\ decided = [i \in Interactions |-> Undecided]
  /\ heard = [i \in Interactions |-> Unheard]

\* Several interactions may be settled at once, in the same way.
Decide(S, d) ==
  /\ \A i \in S : decided[i] = Undecided /\ heard[i] = Unheard
  /\ decided' = [i \in Interactions |-> IF i \in S THEN d ELSE decided[i]]
  /\ UNCHANGED heard

Hear(i) ==
  /\ decided[i] # Undecided
  /\ heard[i] = Unheard
  /\ \E h \in {decided[i]} \cup Failures : heard' = [heard EXCEPT ![i] = h]
  /\ UNCHANGED decided

Next ==
  \/ \E S \in SUBSET Interactions, d \in Decisions : Decide(S, d)
  \/ \E i \in Interactions : Hear(i)

Spec == Init /\ [][Next]_<<decided, heard>>
=============================================================================
