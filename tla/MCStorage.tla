----------------------------- MODULE MCStorage -----------------------------
(***************************************************************************)
(* Two gateways and an `init` that start in any order, one more gateway    *)
(* without a key; one start may fail and one process start again, enough   *)
(* for a failed start that is repaired and for a crash in the middle of    *)
(* one.                                                                    *)
(***************************************************************************)
EXTENDS Storage

CONSTANTS g1, g2, keyless, init

MCGateways == {g1, g2, keyless}
MCInits == {init}
MCMisconfigured == {keyless}
MCMayBePlain == {"intents"}
NothingBefore == {}
=============================================================================
