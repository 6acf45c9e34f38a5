--------------------------- MODULE MCLiveSessions ----------------------------
(* A small instance of LiveSessions for TLC. *)
EXTENDS LiveSessions

CONSTANTS w1, w2, r1
=============================================================================
