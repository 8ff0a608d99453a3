------------------------------ MODULE Gateway ------------------------------
(***************************************************************************)
(* The process as the lifespan wires it: the Relay and the telemetry       *)
(* pipeline together.  The capture of a request is named by the request,   *)
(* and the step in which a generator finishes is the step in which the     *)
(* pipeline's submit() is called.                                          *)
(*                                                                         *)
(* The lifespan starts the pipeline before the server takes a request, and *)
(* stops it after the server has: uvicorn takes no new request, waits for  *)
(* the tasks of those it has, and then runs the lifespan's finally.  A     *)
(* generator left behind by a client that went is not a task it waits for. *)
(***************************************************************************)
EXTENDS Integers, Sequences, FiniteSets

CONSTANTS
    Requests, MaxConcurrent, MaxBody, MaxCapture, ResponseBound,    \* Relay
    Workers, MaxSize, BatchSize, Malformed, Cacheable, Uncaught,
    Shutdown                                                        \* TelemetryPipeline

VARIABLES
    inflight, req, captures,                                        \* Relay
    phase, owed, queue, pc, batch, flight, tocache, leaving,
    receipt, stored, metrics, early,                                \* TelemetryPipeline
    serving         \* the server still takes requests

relayVars == <<inflight, req, captures>>
pipelineVars == <<phase, owed, queue, pc, batch, flight, tocache, leaving,
                  receipt, stored, metrics, early>>
vars == <<relayVars, pipelineVars, serving>>

DataPlane == INSTANCE Relay

Telemetry == INSTANCE TelemetryPipeline WITH Captures <- Requests

\* The constants are what the two components assume.
ASSUME GatewayAssumption == DataPlane!RelayAssumption /\ Telemetry!PipelineAssumption

----------------------------------------------------------------------------
(* Helpers *)

\* A task of the server still works on the request.  A generator that closes
\* after it was orphaned has a chunk whose send never returned.
TaskRunning(r) ==
    \/ req[r].pc \in {"reading", "lookup", "sending", "handed", "streaming", "yielded"}
    \/ req[r].pc = "closing" /\ req[r].sent = req[r].seen

\* Mutant: submit() waits for room in the queue.
HandOverWaiting(r) ==
    IF captures'[r] # captures[r]
    THEN Len(queue) < MaxSize /\ Telemetry!Submit(r)
    ELSE UNCHANGED pipelineVars

\* The capture a step of the relay finalizes is submitted in the same step.
HandOver(r) ==
    IF captures'[r] # captures[r] THEN Telemetry!Submit(r) ELSE UNCHANGED pipelineVars

\* Mutant: the truncation mark is not looked at.
QualifiesCut(r) ==
    \E i \in 1..Len(captures[r]) :
        captures[r][i].source = "upstream" /\ captures[r][i].status = "ok"

\* _cacheable_identity: what of the capture decides, apart from the opt-in.
Qualifies(r) ==
    \E i \in 1..Len(captures[r]) :
        LET c == captures[r][i] IN
        c.source = "upstream" /\ c.status = "ok" /\ ~c.cut

----------------------------------------------------------------------------
Init ==
    /\ DataPlane!Init
    /\ Telemetry!Init
    /\ serving = TRUE

Arrive(r) ==
    /\ serving
    /\ phase = "running"
    /\ DataPlane!Arrive(r)
    /\ UNCHANGED <<pipelineVars, serving>>

Handle(r) ==
    /\ DataPlane!Handle(r)
    /\ UNCHANGED <<pipelineVars, serving>>

Generate(r) ==
    /\ DataPlane!Generate(r)
    /\ HandOver(r)
    /\ UNCHANGED serving

\* A worker's step; a record whose capture does not qualify is not cached.
Work(w) ==
    /\ Telemetry!Worker(w)
    /\ \A r \in Requests :
         metrics'["cached"][r] > metrics["cached"][r] => Qualifies(r)
    /\ UNCHANGED <<relayVars, serving>>

\* The start of the lifespan.
StartUp ==
    /\ Telemetry!Start
    /\ UNCHANGED <<relayVars, serving>>

\* The server is told to exit.
Terminate ==
    /\ phase = "running"
    /\ serving
    /\ serving' = FALSE
    /\ UNCHANGED <<relayVars, pipelineVars>>

\* The finally of the lifespan begins.
ShutDown ==
    /\ ~serving
    /\ \A r \in Requests : ~TaskRunning(r)
    /\ Telemetry!Stop
    /\ UNCHANGED <<relayVars, serving>>

\* stop() goes on, or its drain timeout expires.
ShuttingDown ==
    /\ Telemetry!Stopper \/ Telemetry!DrainTimeout
    /\ UNCHANGED <<relayVars, serving>>

Next ==
    \/ \E r \in Requests : Arrive(r) \/ Handle(r) \/ Generate(r)
    \/ \E w \in Workers : Work(w)
    \/ StartUp \/ Terminate \/ ShutDown \/ ShuttingDown

Spec == Init /\ [][Next]_vars

\* The relay's coroutines run.  Nothing is assumed of the telemetry plane: its
\* workers may be stuck in the database for ever.
RelayFairSpec ==
    /\ Spec
    /\ \A r \in Requests : WF_vars(Handle(r)) /\ WF_vars(Generate(r))

----------------------------------------------------------------------------
(* Properties *)

\* From the stream to the cache (relay.py:254-264, capture.py:118-130,
\* stages.py:165-180): what is cached was sent by an upstream, reached its
\* client in full, and is all of it.
CachedWasDelivered ==
    \A r \in Requests : metrics["cached"][r] > 0 =>
        \A i \in 1..Len(captures[r]) :
            LET c == captures[r][i] IN c.source = "upstream" /\ c.delivered /\ c.whole

\* main.py:174-176 with pipeline.py:117 "drain remaining captures": when every
\* worker left through its sentinel, a response some client got in full before
\* the shutdown is settled, unless it was dropped.
DeliveredIsSettled ==
    phase = "stopped" /\ Workers # {} /\ (\A w \in Workers : pc[w] = "exited") =>
        \A r \in Requests : \A i \in 1..Len(captures[r]) :
            captures[r][i].delivered => receipt[r] = "dropped" \/ Telemetry!Settled(r)

\* ADR 0001, relay.py:274-275 "Non-blocking, fail-open": permits come back even
\* if no worker ever takes another step.
IndependentOfTelemetry == DataPlane!PermitReturnedOnceStarted
=============================================================================
