--------------------------- MODULE MCRateLimiter ---------------------------
(***************************************************************************)
(* Two clients, two hits per window of two ticks; the clock runs for       *)
(* three windows and more, so that every hit can age out and every idle   *)
(* client be collected and come back.                                      *)
(***************************************************************************)
EXTENDS RateLimiter

CONSTANTS k1, k2

MCKeys == {k1, k2}
=============================================================================
