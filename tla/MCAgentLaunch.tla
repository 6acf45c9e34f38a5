--------------------------- MODULE MCAgentLaunch ----------------------------
(* A small instance of AgentLaunch for TLC. *)
EXTENDS AgentLaunch

CONSTANTS o1, o2, f1, f2, c1, c2, e1, e2, e3

LaunchSymmetry ==
  Permutations(Ids) \cup Permutations(Callers) \cup
  Permutations(Arcs) \cup Permutations(Fingerprints)
=============================================================================
