----------------------------- MODULE MCGateway -----------------------------
(***************************************************************************)
(* Two requests, one of them with a response that may be longer than a     *)
(* capture; one worker with a queue of one, so that the second capture may *)
(* be dropped and the sentinel has to wait for room.                       *)
(***************************************************************************)
EXTENDS Gateway

CONSTANTS r1, r2, w1

MCRequests == {r1, r2}
MCResponseBound == [r \in MCRequests |-> IF r = r1 THEN 2 ELSE 1]
MCWorkers == {w1}
MCMalformed == {}
MCCacheable == {r1, r2}
MCUncaught == {"cache"}
=============================================================================
