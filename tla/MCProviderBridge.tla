-------------------------- MODULE MCProviderBridge --------------------------
(* A small instance of ProviderBridge for TLC. *)
EXTENDS ProviderBridge

CONSTANTS k1, k2, u1, u2, r1, r2, s1, s2
=============================================================================
