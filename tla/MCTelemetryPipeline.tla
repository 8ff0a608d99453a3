------------------------ MODULE MCTelemetryPipeline ------------------------
(***************************************************************************)
(* Two workers, a queue of two, batches of two and three captures: a batch *)
(* fills, a queue overflows, a batch of drained captures exceeds           *)
(* batch_size, and the second sentinel may find the queue full.            *)
(***************************************************************************)
EXTENDS TelemetryPipeline

CONSTANTS plain, opted, broken, w1, w2

MCCaptures == {plain, opted, broken}
MCWorkers == {w1, w2}
MCMalformed == {broken}
MCCacheable == {opted, broken}
MCUncaught == {"write"}
MCNothing == {}
=============================================================================
