------------------------------ MODULE MCRelay ------------------------------
(***************************************************************************)
(* Three requests for two permits, and two for one.  The response of r1    *)
(* may be longer than a capture may be, in one chunk or in several.        *)
(***************************************************************************)
EXTENDS Relay

CONSTANTS r1, r2, r3

MCRequests == {r1, r2, r3}
MCResponseBound == [r \in MCRequests |-> IF r = r1 THEN 2 ELSE 1]

MCTwoRequests == {r1, r2}
MCTwoResponseBound == [r \in MCTwoRequests |-> 1]
=============================================================================
