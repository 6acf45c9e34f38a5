---------------------------- MODULE MCTuiRegistry ----------------------------
(* Small instances of TuiRegistry for TLC. *)
EXTENDS TuiRegistry, TLC

CONSTANTS m1, m2, c1, c2, c3, w1, w2
=============================================================================
