--------------------------- MODULE Gateway_proofs ---------------------------
(***************************************************************************)
(* The two planes together, for any requests, workers and bounds: each of  *)
(* them behaves as its own module says, so that what was proved of it      *)
(* alone holds here; and what no plane knows alone, what the cache may     *)
(* hold of the responses that ended, and what the shutdown settles.        *)
(*                                                                         *)
(* R and T bring in the theorems about the components; their definitions   *)
(* are those of DataPlane and Telemetry under another name, which the      *)
(* lemmas of the first section say.                                        *)
(*                                                                         *)
(* The strengthening joins both invariants.  Its last part is about the    *)
(* shutdown: once stop() has been called no task of the server runs, and   *)
(* the generators that are left cannot deliver a response any more.        *)
(***************************************************************************)
EXTENDS Gateway, TLAPS

R == INSTANCE Relay_proofs

T == INSTANCE TelemetryPipeline_proofs WITH Captures <- Requests

\* What is handed over is what ended.
Offered == \A r \in Requests : receipt[r] # "none" <=> req[r].pc = "done"

\* What is cached qualified for it.
CachedOK == \A r \in Requests : metrics["cached"][r] > 0 => Qualifies(r)

Unplugged == phase \in {"stopping", "draining", "stopped"}

\* What was delivered when stop() was called, was accepted early.
ShutDownOK ==
    Unplugged =>
        /\ ~serving
        /\ \A r \in Requests : ~TaskRunning(r)
        /\ \A r \in Requests : \A i \in 1..Len(captures[r]) :
             captures[r][i].delivered => receipt[r] = "dropped" \/ r \in early

GInv ==
    /\ R!IInv
    /\ T!FInv
    /\ Offered
    /\ CachedOK
    /\ ShutDownOK

----------------------------------------------------------------------------
(* One module under two names *)

LEMMA RelayAssumed == R!RelayAssumption
BY GatewayAssumption DEF R!IsFiniteSet, DataPlane!IsFiniteSet

LEMMA PipelineAssumed == T!PipelineAssumption
BY GatewayAssumption DEF T!IsFiniteSet, Telemetry!IsFiniteSet

LEMMA RelayInit == DataPlane!Init => R!Init
BY DEF DataPlane!Init, DataPlane!At, R!Init, R!At

\* The steps of the relay.
LEMMA RelayStep ==
    ASSUME NEW r \in Requests
    PROVE  /\ DataPlane!Arrive(r) => R!Arrive(r)
           /\ DataPlane!Handle(r) => R!Handle(r)
           /\ DataPlane!Generate(r) => R!Generate(r)
<1>1. DataPlane!Arrive(r) => R!Arrive(r)
    BY DEF DataPlane!Arrive, DataPlane!Refuse, DataPlane!Overloaded, DataPlane!Admit,
           DataPlane!Goto, DataPlane!AtCapacity,
           R!Arrive, R!Refuse, R!Overloaded, R!Admit, R!Goto, R!AtCapacity
<1>2. DataPlane!Handle(r) => R!Handle(r)
    BY DEF DataPlane!Handle, DataPlane!ReadBody, DataPlane!BodyRead, DataPlane!LookupMiss,
           DataPlane!LookupHit, DataPlane!SendOk, DataPlane!EarlyExit, DataPlane!Goto,
           DataPlane!At,
           R!Handle, R!ReadBody, R!BodyRead, R!LookupMiss, R!LookupHit, R!SendOk,
           R!EarlyExit, R!Goto, R!At
<1>3. DataPlane!Generate(r) => R!Generate(r)
    BY DEF DataPlane!Generate, DataPlane!StartFails, DataPlane!StartStream, DataPlane!Chunk,
           DataPlane!ChunkSent, DataPlane!StreamEnds, DataPlane!StreamBreaks,
           DataPlane!CancelledAtUpstream, DataPlane!CancelledAtClient, DataPlane!Close,
           DataPlane!ReplaySent, DataPlane!FinalizeUpstream, DataPlane!FinalizeReplay,
           DataPlane!Goto, DataPlane!At, DataPlane!Observe, DataPlane!Finish,
           DataPlane!FinalStatus,
           R!Generate, R!StartFails, R!StartStream, R!Chunk, R!ChunkSent, R!StreamEnds,
           R!StreamBreaks, R!CancelledAtUpstream, R!CancelledAtClient, R!Close, R!ReplaySent,
           R!FinalizeUpstream, R!FinalizeReplay, R!Goto, R!At, R!Observe, R!Finish,
           R!FinalStatus
<1> QED BY <1>1, <1>2, <1>3

LEMMA PipelineInit == Telemetry!Init => T!Init
BY DEF Telemetry!Init, Telemetry!Counters, T!Init, T!Counters

LEMMA SubmitSame == ASSUME NEW r \in Requests, Telemetry!Submit(r) PROVE T!Submit(r)
BY DEF Telemetry!Submit, Telemetry!Count, Telemetry!AddTo, T!Submit, T!Count, T!AddTo

\* The steps of a worker.
LEMMA WorkerSame == ASSUME NEW w \in Workers, Telemetry!Worker(w) PROVE T!Worker(w)
<1>1. Telemetry!Get(w) => T!Get(w)
    BY DEF Telemetry!Get, Telemetry!Full, Telemetry!Flush, Telemetry!Buildable,
           T!Get, T!Full, T!Flush, T!Buildable, Telemetry!Cardinality, T!Cardinality
<1>2. Telemetry!FlushTimeout(w) => T!FlushTimeout(w)
    BY DEF Telemetry!FlushTimeout, Telemetry!Flush, Telemetry!Buildable,
           T!FlushTimeout, T!Flush, T!Buildable
<1>3. Telemetry!TakeShutdown(w) => T!TakeShutdown(w)
    BY DEF Telemetry!TakeShutdown, Telemetry!Flush, Telemetry!Buildable, Telemetry!Queued,
           T!TakeShutdown, T!Flush, T!Buildable, T!Queued
<1>4. Telemetry!Embed(w) => T!Embed(w)
    BY DEF Telemetry!Embed, Telemetry!Count, Telemetry!AddTo, T!Embed, T!Count, T!AddTo
<1>5. Telemetry!WriteOk(w) => T!WriteOk(w)
    BY DEF Telemetry!WriteOk, Telemetry!Count, Telemetry!AddTo, T!WriteOk, T!Count, T!AddTo
<1>6. Telemetry!WriteFails(w) => T!WriteFails(w)
    BY DEF Telemetry!WriteFails, Telemetry!Count, Telemetry!AddTo, Telemetry!AfterFlush,
           T!WriteFails, T!Count, T!AddTo, T!AfterFlush
<1>7. Telemetry!CachePut(w) => T!CachePut(w)
    BY DEF Telemetry!CachePut, Telemetry!Count, Telemetry!AddTo, T!CachePut, T!Count, T!AddTo
<1>8. Telemetry!FlushDone(w) \/ Telemetry!StageRaises(w) => T!FlushDone(w) \/ T!StageRaises(w)
    BY DEF Telemetry!FlushDone, Telemetry!AfterFlush, Telemetry!StageRaises,
           T!FlushDone, T!AfterFlush, T!StageRaises
<1> QED BY <1>1, <1>2, <1>3, <1>4, <1>5, <1>6, <1>7, <1>8 DEF Telemetry!Worker, T!Worker

\* The steps of start() and stop().
LEMMA LifespanSame ==
    /\ Telemetry!Start => T!Start
    /\ Telemetry!Stop => T!Stop
    /\ Telemetry!Stopper => T!Stopper
    /\ Telemetry!DrainTimeout => T!DrainTimeout
<1>1. Telemetry!Start => T!Start
    BY DEF Telemetry!Start, T!Start
<1>2. Telemetry!Stop => T!Stop
    BY DEF Telemetry!Stop, Telemetry!PutSentinels, Telemetry!Cardinality,
           T!Stop, T!PutSentinels, T!Cardinality
<1>3. Telemetry!Stopper => T!Stopper
    BY DEF Telemetry!Stopper, Telemetry!StopResumes, Telemetry!StopReturns, Telemetry!AllEnded,
           Telemetry!PutSentinels, Telemetry!Ended,
           T!Stopper, T!StopResumes, T!StopReturns, T!AllEnded, T!PutSentinels, T!Ended
<1>4. Telemetry!DrainTimeout => T!DrainTimeout
    BY DEF Telemetry!DrainTimeout, Telemetry!AllEnded, Telemetry!Alive, Telemetry!Ended,
           Telemetry!AddTo, T!DrainTimeout, T!AllEnded, T!Alive, T!Ended, T!AddTo
<1> QED BY <1>1, <1>2, <1>3, <1>4

----------------------------------------------------------------------------
(* What the steps of one plane leave of the other's view *)

\* What submit() changes.
LEMMA SubmitEffect ==
    ASSUME T!TypeOK, NEW r \in Requests, T!Submit(r)
    PROVE  /\ receipt[r] = "none" /\ receipt'[r] \in {"accepted", "dropped"}
           /\ \A q \in Requests \ {r} : receipt'[q] = receipt[q]
           /\ \A q \in Requests : metrics'["cached"][q] = metrics["cached"][q]
           /\ UNCHANGED <<phase, early>>
BY DEF T!TypeOK, T!Submit, T!Count, T!AddTo, T!Counters

\* What the workers leave alone.
LEMMA WorkerEffect ==
    ASSUME NEW w \in Workers, T!Worker(w) PROVE UNCHANGED <<phase, receipt, early>>
BY DEF T!Worker, T!Get, T!FlushTimeout, T!TakeShutdown, T!Embed, T!WriteOk, T!WriteFails,
       T!CachePut, T!FlushDone, T!StageRaises

\* And what start() and stop() do.
LEMMA LifespanEffect ==
    ASSUME T!Start \/ T!Stop \/ T!Stopper \/ T!DrainTimeout
    PROVE  /\ UNCHANGED <<receipt, metrics>>
           /\ T!Stop => early' = {r \in Requests : receipt[r] = "accepted"}
           /\ ~T!Stop => early' = early
           /\ T!Start => phase' = "running"
           /\ T!Stopper \/ T!DrainTimeout => phase \in {"stopping", "draining"}
BY DEF T!Start, T!Stop, T!Stopper, T!StopResumes, T!StopReturns, T!DrainTimeout

\* The invariants of the components, step by step.
LEMMA RelayKeeps ==
    ASSUME R!IInv, \/ \E r \in Requests : R!Arrive(r) \/ R!Handle(r) \/ R!Generate(r)
                   \/ UNCHANGED relayVars
    PROVE  R!IInv'
<1>1. [R!Next]_(R!vars)
    BY DEF R!Next, R!vars, relayVars
<1> QED BY <1>1, RelayAssumed, R!NextIInv

LEMMA PipelineKeeps ==
    ASSUME T!FInv, \/ \E r \in Requests : T!Submit(r)
                   \/ \E w \in Workers : T!Worker(w)
                   \/ T!Start \/ T!Stop \/ T!Stopper \/ T!DrainTimeout
                   \/ UNCHANGED pipelineVars
    PROVE  T!FInv'
<1>1. [T!Next]_(T!vars)
    BY DEF T!Next, T!PatientNext, T!vars, pipelineVars
<1> QED BY <1>1, PipelineAssumed, T!NextFInv

LEMMA Typed == GInv => R!TypeOK /\ R!OneCapturePerResponse /\ T!TypeOK
BY DEF GInv, R!IInv, T!FInv, T!IInv, T!Typed

\* The captures of a response that has ended are there to stay.
LEMMA CapturesKept ==
    ASSUME GInv, R!IInv', NEW r \in Requests, R!Arrive(r) \/ R!Handle(r) \/ R!Generate(r)
    PROVE  /\ \A q \in Requests \ {r} : req'[q] = req[q] /\ captures'[q] = captures[q]
           /\ req[r].pc # "done" /\ captures[r] = <<>>
           /\ captures'[r] # captures[r] <=> req'[r].pc = "done"
<1>1. \A q \in Requests \ {r} : req'[q] = req[q] /\ captures'[q] = captures[q]
    BY Typed, RelayAssumed, R!OthersKept
<1>2. req[r].pc # "done"
    BY RelayAssumed, R!WhoSubmits DEF R!Arrive, R!Refuse, R!Overloaded, R!Admit
<1>3. captures \in [Requests -> Seq(R!Captured)] /\ captures' \in [Requests -> Seq(R!Captured)]
    BY DEF GInv, R!IInv, R!TypeOK
<1>4. /\ Len(captures[r]) = 0
      /\ Len(captures'[r]) = (IF req'[r].pc = "done" THEN 1 ELSE 0)
    BY <1>2, Typed DEF R!IInv, R!OneCapturePerResponse
<1>5. captures[r] = <<>>
    BY <1>3, <1>4
<1>6. captures'[r] # <<>> <=> req'[r].pc = "done"
    <2>1. captures'[r] \in Seq(R!Captured)
        BY <1>3
    <2>2. captures'[r] = <<>> <=> Len(captures'[r]) = 0
        BY <2>1
    <2> QED BY <1>4, <2>2
<1> QED BY <1>1, <1>2, <1>5, <1>6

----------------------------------------------------------------------------
(* The invariant, step by step *)

\* A request arrives, or its coroutine goes on before the hand-off.
LEMMA HandleStep ==
    ASSUME GInv, NEW r \in Requests, Arrive(r) \/ Handle(r) PROVE GInv'
<1>1. /\ R!Arrive(r) \/ R!Handle(r)
      /\ UNCHANGED <<pipelineVars, serving>>
    BY RelayStep DEF Arrive, Handle
<1>2. R!IInv' /\ T!FInv'
    BY <1>1, RelayKeeps, PipelineKeeps DEF GInv
<1>3. captures' = captures
    BY <1>1, RelayAssumed, R!WhoSubmits
<1>4. Offered'
    BY <1>1, <1>2, <1>3, CapturesKept DEF GInv, Offered, pipelineVars
<1>5. CachedOK'
    BY <1>1, <1>3 DEF GInv, CachedOK, Qualifies, pipelineVars
<1>6. ~Unplugged
    <2>1. CASE Arrive(r)
        BY <2>1 DEF Arrive, Unplugged
    <2>2. CASE Handle(r)
        <3>1. req[r].pc \in {"reading", "lookup", "sending"}
            BY <2>2, RelayStep, RelayAssumed, R!WhoSubmits DEF Handle
        <3> QED BY <3>1 DEF GInv, ShutDownOK, TaskRunning
    <2> QED BY <2>1, <2>2
<1>7. ShutDownOK'
    BY <1>1, <1>6 DEF ShutDownOK, Unplugged, pipelineVars
<1> QED BY <1>2, <1>4, <1>5, <1>7 DEF GInv

\* A generator goes on, or ends and hands its capture over.
LEMMA GenerateStep ==
    ASSUME GInv, NEW r \in Requests, Generate(r) PROVE GInv'
<1>1. /\ R!Generate(r) /\ serving' = serving
      /\ IF captures'[r] # captures[r] THEN T!Submit(r) ELSE UNCHANGED pipelineVars
    BY RelayStep, SubmitSame DEF Generate, HandOver
<1>2. R!IInv' /\ T!FInv'
    BY <1>1, RelayKeeps, PipelineKeeps DEF GInv
<1>3. /\ \A q \in Requests \ {r} : req'[q] = req[q] /\ captures'[q] = captures[q]
      /\ req[r].pc # "done" /\ captures[r] = <<>>
      /\ captures'[r] # captures[r] <=> req'[r].pc = "done"
    BY <1>1, <1>2, CapturesKept
<1>4. /\ \A q \in Requests \ {r} : receipt'[q] = receipt[q]
      /\ \A q \in Requests : metrics'["cached"][q] = metrics["cached"][q]
      /\ UNCHANGED <<phase, early>>
      /\ receipt[r] = "none"
      /\ IF req'[r].pc = "done" THEN receipt'[r] # "none" ELSE receipt'[r] = "none"
    <2>1. receipt[r] = "none"
        BY <1>3 DEF GInv, Offered
    <2>2. CASE captures'[r] # captures[r]
        BY <1>1, <1>3, <2>1, <2>2, Typed, SubmitEffect
    <2>3. CASE captures'[r] = captures[r]
        BY <1>1, <1>3, <2>1, <2>3 DEF pipelineVars
    <2> QED BY <2>2, <2>3
<1>5. Offered'
    BY <1>3, <1>4 DEF GInv, Offered
<1>6. CachedOK'
    <2>1. ~Qualifies(r)
        BY <1>3 DEF Qualifies
    <2>2. \A q \in Requests \ {r} : Qualifies(q)' = Qualifies(q)
        BY <1>3 DEF Qualifies
    <2> QED BY <1>4, <2>1, <2>2 DEF GInv, CachedOK
<1>7. ShutDownOK'
    <2> SUFFICES ASSUME Unplugged
                 PROVE  /\ ~serving'
                        /\ \A q \in Requests : ~TaskRunning(q)'
                        /\ \A q \in Requests : \A i \in 1..Len(captures'[q]) :
                             captures'[q][i].delivered =>
                                receipt'[q] = "dropped" \/ q \in early'
        BY <1>4 DEF ShutDownOK, Unplugged
    <2>1. /\ ~serving
          /\ \A q \in Requests : ~TaskRunning(q)
          /\ \A q \in Requests : \A i \in 1..Len(captures[q]) :
               captures[q][i].delivered => receipt[q] = "dropped" \/ q \in early
        BY DEF GInv, ShutDownOK
    <2>2. R!LeftBehind(r)
        <3>1. req[r].pc \in {"handed", "streaming", "yielded", "orphaned", "closing"}
            BY <1>1, RelayAssumed, R!WhoSubmits
        <3> QED BY <2>1, <3>1 DEF R!LeftBehind, TaskRunning
    <2>3. \/ R!LeftBehind(r)'
          \/ req'[r].pc = "done" /\ \A i \in 1..Len(captures'[r]) : ~captures'[r][i].delivered
        BY <1>1, <2>2, RelayAssumed, R!LeftBehindStep DEF GInv
    <2>4. ~TaskRunning(r)'
        BY <2>3 DEF R!LeftBehind, TaskRunning
    <2>5. \A i \in 1..Len(captures'[r]) : ~captures'[r][i].delivered
        <3>1. CASE R!LeftBehind(r)'
            <4>1. captures'[r] = <<>>
                BY <1>3, <3>1 DEF R!LeftBehind
            <4> QED BY <4>1
        <3> QED BY <2>3, <3>1
    <2>6. \A q \in Requests \ {r} : ~TaskRunning(q)'
        BY <1>3, <2>1 DEF TaskRunning
    <2> QED BY <1>1, <1>3, <1>4, <2>1, <2>4, <2>5, <2>6
<1> QED BY <1>2, <1>5, <1>6, <1>7 DEF GInv

\* A worker goes on; what it caches qualified.
LEMMA WorkStep ==
    ASSUME GInv, NEW w \in Workers, Work(w) PROVE GInv'
<1>1. /\ T!Worker(w)
      /\ \A r \in Requests : metrics'["cached"][r] > metrics["cached"][r] => Qualifies(r)
      /\ UNCHANGED <<relayVars, serving>>
    BY WorkerSame DEF Work
<1>2. R!IInv' /\ T!FInv'
    BY <1>1, RelayKeeps, PipelineKeeps DEF GInv
<1>3. UNCHANGED <<phase, receipt, early, req, captures>>
    BY <1>1, WorkerEffect DEF relayVars
<1>4. \A r \in Requests : metrics["cached"][r] \in Nat /\ metrics'["cached"][r] \in Nat
    BY <1>2, Typed DEF T!FInv, T!IInv, T!Typed, T!TypeOK, T!Counters
<1>5. \A r \in Requests : Qualifies(r)' = Qualifies(r)
    BY <1>3 DEF Qualifies
<1>6. CachedOK'
    BY <1>1, <1>4, <1>5 DEF GInv, CachedOK
<1>7. Offered' /\ ShutDownOK'
    BY <1>1, <1>3 DEF GInv, Offered, ShutDownOK, Unplugged, TaskRunning
<1> QED BY <1>2, <1>6, <1>7 DEF GInv

\* The lifespan starts, is told to end, and ends.
LEMMA LifespanStep ==
    ASSUME GInv, StartUp \/ Terminate \/ ShutDown \/ ShuttingDown PROVE GInv'
<1>0. UNCHANGED relayVars
    BY DEF StartUp, Terminate, ShutDown, ShuttingDown
<1>1. \/ T!Start \/ T!Stop \/ T!Stopper \/ T!DrainTimeout
      \/ Terminate /\ UNCHANGED pipelineVars
    BY LifespanSame DEF StartUp, Terminate, ShutDown, ShuttingDown
<1>2. R!IInv' /\ T!FInv'
    BY <1>0, <1>1, RelayKeeps, PipelineKeeps DEF GInv
<1>3. UNCHANGED <<receipt, metrics, req, captures>>
    BY <1>0, <1>1, LifespanEffect DEF relayVars, pipelineVars
<1>4. Offered' /\ CachedOK'
    BY <1>3 DEF GInv, Offered, CachedOK, Qualifies
<1>5. ShutDownOK'
    <2>1. CASE StartUp
        <3>1. phase' = "running"
            BY <2>1, LifespanSame, LifespanEffect DEF StartUp
        <3> QED BY <3>1 DEF ShutDownOK, Unplugged
    <2>2. CASE Terminate
        BY <1>3, <2>2 DEF Terminate, GInv, ShutDownOK, Unplugged, TaskRunning, pipelineVars
    <2>3. CASE ShutDown
        <3>1. /\ ~serving' /\ \A r \in Requests : ~TaskRunning(r)
              /\ early' = {r \in Requests : receipt[r] = "accepted"}
            BY <2>3, LifespanSame, LifespanEffect DEF ShutDown
        <3>2. \A r \in Requests : ~TaskRunning(r)'
            BY <1>3, <3>1 DEF TaskRunning
        <3>3. ASSUME NEW r \in Requests, NEW i \in 1..Len(captures'[r])
              PROVE  receipt'[r] = "dropped" \/ r \in early'
            <4>1. req[r].pc = "done"
                BY <1>3, <3>3, Typed DEF R!OneCapturePerResponse
            <4>2. receipt[r] \in {"accepted", "dropped"}
                BY <4>1, Typed DEF GInv, Offered, T!TypeOK
            <4> QED BY <1>3, <3>1, <4>2
        <3> QED BY <3>1, <3>2, <3>3 DEF ShutDownOK
    <2>4. CASE ShuttingDown
        <3>1. T!Stopper \/ T!DrainTimeout
            BY <2>4, LifespanSame DEF ShuttingDown
        <3>2. Unplugged /\ ~T!Stop
            BY <3>1, LifespanEffect DEF Unplugged, T!Stop
        <3>3. UNCHANGED <<serving, early>>
            BY <2>4, <3>1, <3>2, LifespanEffect DEF ShuttingDown
        <3> QED BY <1>3, <3>2, <3>3 DEF GInv, ShutDownOK, TaskRunning
    <2> QED BY <2>1, <2>2, <2>3, <2>4
<1> QED BY <1>2, <1>4, <1>5 DEF GInv

\* Nothing has happened yet.
LEMMA InitGInv == Init => GInv
<1> SUFFICES ASSUME Init PROVE GInv
    OBVIOUS
<1>1. R!Init /\ T!Init
    BY RelayInit, PipelineInit DEF Init
<1>2. R!IInv /\ T!FInv
    BY <1>1, RelayAssumed, PipelineAssumed, R!InitIInv, T!InitFInv
<1>3. Offered
    BY <1>1 DEF R!Init, R!At, T!Init, Offered
<1>4. CachedOK
    BY <1>1 DEF T!Init, T!Counters, CachedOK
<1>5. ShutDownOK
    BY <1>1 DEF T!Init, ShutDownOK, Unplugged
<1> QED BY <1>2, <1>3, <1>4, <1>5 DEF GInv

\* Every step of both planes and of the lifespan preserves it.
LEMMA NextGInv == GInv /\ [Next]_vars => GInv'
<1> SUFFICES ASSUME GInv, [Next]_vars PROVE GInv'
    OBVIOUS
<1>1. CASE UNCHANGED vars
    <2>1. R!IInv' /\ T!FInv'
        BY <1>1, RelayKeeps, PipelineKeeps DEF GInv, vars
    <2>2. Offered' /\ CachedOK' /\ ShutDownOK'
        BY <1>1 DEF GInv, vars, relayVars, pipelineVars, Offered, CachedOK, Qualifies,
                    ShutDownOK, Unplugged, TaskRunning
    <2> QED BY <2>1, <2>2 DEF GInv
<1> QED BY <1>1, HandleStep, GenerateStep, WorkStep, LifespanStep DEF Next

----------------------------------------------------------------------------
(* The theorems *)

\* The invariant of the two planes together.
THEOREM GatewayInvariant == Spec => []GInv
BY InitGInv, NextGInv, PTL DEF Spec

\* Seen from its clients, the gateway is the relay: the telemetry plane and the
\* lifespan add no behaviour to it (relay.py:273-276, ADR 0001).
THEOREM ImplementsRelay == Spec => DataPlane!Spec
<1>1. Init => DataPlane!Init
    BY DEF Init
<1>2. [Next]_vars => [DataPlane!Next]_(DataPlane!vars)
    BY DEF Next, Arrive, Handle, Generate, Work, StartUp, Terminate, ShutDown, ShuttingDown,
           vars, relayVars, DataPlane!Next, DataPlane!vars
<1> QED BY <1>1, <1>2, PTL DEF Spec, DataPlane!Spec

\* Seen from the database, it is the pipeline: the relay only submits, each
\* capture once, and the lifespan only starts and stops (main.py:160-176).
THEOREM ImplementsPipeline == Spec => Telemetry!Spec
<1>1. Init => Telemetry!Init
    BY DEF Init
<1>2. [Next]_vars => [Telemetry!Next]_(Telemetry!vars)
    BY DEF Next, Arrive, Handle, Generate, HandOver, Work, StartUp, Terminate, ShutDown,
           ShuttingDown, vars, pipelineVars, Telemetry!Next, Telemetry!PatientNext,
           Telemetry!vars
<1> QED BY <1>1, <1>2, PTL DEF Spec, Telemetry!Spec

\* What is cached came from an upstream, reached its client in full, and is all
\* of the response (relay.py:254-264, stages.py:165-180).
THEOREM CachedWasDeliveredHolds == Spec => []CachedWasDelivered
<1>1. GInv => CachedWasDelivered
    <2> SUFFICES ASSUME GInv, NEW r \in Requests, metrics["cached"][r] > 0,
                        NEW i \in 1..Len(captures[r])
                 PROVE  /\ captures[r][i].source = "upstream"
                        /\ captures[r][i].delivered
                        /\ captures[r][i].whole
        BY DEF CachedWasDelivered
    <2>1. PICK j \in 1..Len(captures[r]) :
            /\ captures[r][j].source = "upstream"
            /\ captures[r][j].status = "ok"
            /\ ~captures[r][j].cut
        BY DEF GInv, CachedOK, Qualifies
    <2>2. Len(captures[r]) \in {0, 1}
        BY Typed DEF R!OneCapturePerResponse
    <2>3. i = j
        <3>1. \A n \in {0, 1} : \A k \in 1..n : k = 1
            OBVIOUS
        <3> QED BY <2>1, <2>2, <3>1, Zenon
    <2>4. R!CaptureOK(captures[r][i])
        BY DEF GInv, R!IInv
    <2> QED BY <2>1, <2>3, <2>4 DEF R!CaptureOK
<1> QED BY <1>1, GatewayInvariant, PTL

\* A response some client got in full before the shutdown is settled when the
\* workers have left through their sentinels, unless it was dropped: a generator
\* that ends after stop() was called delivered nothing in full (main.py:174-176).
THEOREM DeliveredIsSettledHolds == Spec => []DeliveredIsSettled
<1>1. GInv => DeliveredIsSettled
    <2> SUFFICES ASSUME GInv, phase = "stopped", Workers # {}, \A w \in Workers : pc[w] = "exited",
                        NEW r \in Requests, NEW i \in 1..Len(captures[r]),
                        captures[r][i].delivered, receipt[r] # "dropped"
                 PROVE  Telemetry!Settled(r)
        BY DEF DeliveredIsSettled
    <2>1. r \in early
        BY DEF GInv, ShutDownOK, Unplugged
    <2>2. T!Settled(r)
        BY <2>1, PipelineAssumed, T!EarlySettled DEF GInv
    <2> QED BY <2>2 DEF T!Settled, Telemetry!Settled
<1> QED BY <1>1, GatewayInvariant, PTL

\* The permits are conserved in the whole process too (relay.py:122-125).
THEOREM PermitsConservedHere == Spec => []DataPlane!PermitsConserved
<1>1. GInv => DataPlane!PermitsConserved
    BY DEF GInv, R!IInv, R!PermitsConserved, R!Holders, R!Holding, R!Cardinality,
           DataPlane!PermitsConserved, DataPlane!Holders, DataPlane!Holding,
           DataPlane!Cardinality
<1> QED BY <1>1, GatewayInvariant, PTL
=============================================================================
