---------------------------- MODULE MCRateLimit ----------------------------
(* A window of three ticks with room for two, two requests at a time, each *)
(* up to two ticks late: longer than the slack of the key.                 *)
EXTENDS RateLimit
=============================================================================
