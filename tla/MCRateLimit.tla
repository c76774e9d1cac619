---------------------------- MODULE MCRateLimit -----------------------------
(* Instances of RateLimit for TLC. *)
EXTENDS RateLimit
=============================================================================
