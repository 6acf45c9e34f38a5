----------------------------- MODULE PromptOnce -----------------------------
(***************************************************************************)
(* What the Host promises about one logical prompt, whatever threads carry *)
(* it: it is sent at most once, and a request that was sent, returned to   *)
(* the user, refused or dropped with its session stays so.                 *)
(***************************************************************************)
CONSTANT Requests

VARIABLE phase

Phases == {"new", "held", "failed", "sent", "returned", "refused", "dropped"}

TypeOK == phase \in [Requests -> Phases]

Init == phase = [r \in Requests |-> "new"]

Move(r, from, to) ==
  /\ phase[r] \in from
  /\ \E next \in to : phase' = [phase EXCEPT ![r] = next]

\* The answer to a submission.
Answer(r) == Move(r, {"new"}, {"sent", "held", "refused"})

\* A queued follow-up is sent, or certainly was not, and then is never retried.
Deliver(r) == Move(r, {"held"}, {"sent", "failed"})

\* The user takes the text back, or the session it was meant for is gone.
GiveUp(r) == Move(r, {"held", "failed"}, {"returned", "dropped"})

\* A follow-up for a new occupant takes the place of an old one's trail.
Supersede(r, old) ==
  /\ phase[r] = "new" /\ phase[old] = "failed"
  /\ phase' = [phase EXCEPT ![r] = "held", ![old] = "dropped"]

Next ==
  \/ \E r \in Requests : Answer(r) \/ Deliver(r) \/ GiveUp(r)
  \/ \E r, old \in Requests : Supersede(r, old)

Spec == Init /\ [][Next]_phase
=============================================================================
