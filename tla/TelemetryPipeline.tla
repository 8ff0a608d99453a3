------------------------- MODULE TelemetryPipeline -------------------------
(***************************************************************************)
(* The out-of-band telemetry pipeline: a bounded asyncio queue that the    *)
(* relay's submit() fills without blocking, drained by worker tasks that   *)
(* batch captures and pass each batch through the stages (embed, write to  *)
(* MongoDB, write cache entries), and the stop() coroutine that shuts the  *)
(* workers down with sentinels and a drain timeout.                        *)
(*                                                                         *)
(* Grain of atomicity: a coroutine runs without interruption between two   *)
(* awaits that suspend, so each action is one such stretch.  A worker's    *)
(* successive gets are separate actions although the code may perform      *)
(* several without suspending, which only adds interleavings.              *)
(*                                                                         *)
(* A counter of PipelineMetrics is kept as what each capture added to it:  *)
(* the program's number is the sum over the captures.  A batch is a set:   *)
(* the order inside a list of captures decides nothing.                    *)
(***************************************************************************)
EXTENDS Integers, Sequences, FiniteSets

CONSTANTS
    Captures,       \* the captures the relay hands over, each of them once
    Workers,        \* the worker tasks, worker_count of them
    MaxSize,        \* maxsize of the queue
    BatchSize,      \* batch_size
    Malformed,      \* captures build_document raises on
    Cacheable,      \* captures _cacheable_identity returns an identity for
    Uncaught,       \* stages that may raise what their except does not name
    Shutdown        \* the sentinel

Counters == {"submitted", "dropped", "written", "failed", "embedded", "cached"}

ASSUME PipelineAssumption ==
    /\ IsFiniteSet(Workers)
    /\ MaxSize \in Nat \ {0}
    /\ BatchSize \in Nat \ {0}
    /\ Malformed \subseteq Captures
    /\ Cacheable \subseteq Captures
    /\ Uncaught \subseteq {"embed", "write", "cache"}
    /\ Shutdown \notin Captures

VARIABLES
    phase,          \* _started and how far stop() got
    owed,           \* sentinels stop() has still to put
    queue,          \* _queue
    pc,             \* where each worker task is suspended
    batch,          \* the list the worker fills
    flight,         \* the batch between _flush and the result of its write
    tocache,        \* persisted records CacheWriteStage has still to look at
    leaving,        \* the worker took a sentinel
    receipt,        \* what submit() returned for a capture
    stored,         \* documents of a capture in the collection
    metrics,        \* PipelineMetrics
    early           \* history: what was accepted before stop() was called

vars == <<phase, owed, queue, pc, batch, flight, tocache, leaving, receipt,
          stored, metrics, early>>

Ended == {"exited", "dead", "cancelled"}

TypeOK ==
    /\ phase \in {"new", "running", "stopping", "draining", "stopped"}
    /\ owed \in 0..Cardinality(Workers)
    /\ queue \in Seq(Captures \cup {Shutdown})
    /\ pc \in [Workers -> {"new", "get", "embed", "write", "cache"} \cup Ended]
    /\ batch \in [Workers -> SUBSET Captures]
    /\ flight \in [Workers -> SUBSET Captures]
    /\ tocache \in [Workers -> SUBSET Captures]
    /\ leaving \in [Workers -> BOOLEAN]
    /\ receipt \in [Captures -> {"none", "accepted", "dropped"}]
    /\ stored \in [Captures -> Nat]
    /\ metrics \in [Counters -> [Captures -> Nat]]
    /\ early \subseteq Captures

----------------------------------------------------------------------------
(* Helpers *)

Queued == {queue[i] : i \in 1..Len(queue)} \ {Shutdown}

Alive(w) == pc[w] \notin Ended \cup {"new"}

AllEnded == \A w \in Workers : pc[w] \in Ended

AddTo(f, S) == [c \in Captures |-> IF c \in S THEN f[c] + 1 ELSE f[c]]

Count(counter, S) == metrics' = [metrics EXCEPT ![counter] = AddTo(@, S)]

\* build_document returns for every capture of the batch.
Buildable(b) == b \cap Malformed = {}

\* Mutant: the batch is passed on and not cleared.
FlushKeepingBatch(w, b) ==
    /\ batch' = [batch EXCEPT ![w] = b]
    /\ flight' = [flight EXCEPT ![w] = b]
    /\ pc' = [pc EXCEPT ![w] = IF Buildable(b) THEN "embed" ELSE "dead"]

\* _flush of a non-empty batch up to the first await: the batch is copied and
\* cleared, then every document is built; an exception there ends the task.
Flush(w, b) ==
    /\ batch' = [batch EXCEPT ![w] = {}]
    /\ flight' = [flight EXCEPT ![w] = b]
    /\ pc' = [pc EXCEPT ![w] = IF Buildable(b) THEN "embed" ELSE "dead"]

\* Where a worker goes on after _flush: the loop, or the end of the task.
AfterFlush(w) == IF leaving[w] THEN "exited" ELSE "get"

----------------------------------------------------------------------------
(* The relay *)

\* put_nowait: a full queue drops the capture, whatever the phase.
Submit(c) ==
    /\ receipt[c] = "none"
    /\ \/ /\ Len(queue) < MaxSize
          /\ queue' = Append(queue, c)
          /\ receipt' = [receipt EXCEPT ![c] = "accepted"]
          /\ Count("submitted", {c})
       \/ /\ Len(queue) >= MaxSize
          /\ receipt' = [receipt EXCEPT ![c] = "dropped"]
          /\ Count("dropped", {c})
          /\ UNCHANGED queue
    /\ UNCHANGED <<phase, owed, pc, batch, flight, tocache, leaving, stored, early>>

----------------------------------------------------------------------------
(* The workers *)

\* The batch has reached the size at which the worker flushes it.
Full(b) == Cardinality(b) >= BatchSize

\* queue.get() returned a capture.
Get(w) ==
    /\ pc[w] = "get"
    /\ queue # <<>>
    /\ Head(queue) # Shutdown
    /\ queue' = Tail(queue)
    /\ LET b == batch[w] \cup {Head(queue)} IN
         \/ /\ ~Full(b)
            /\ batch' = [batch EXCEPT ![w] = b]
            /\ UNCHANGED <<flight, pc>>
         \/ /\ Full(b)
            /\ Flush(w, b)
    /\ UNCHANGED <<phase, owed, tocache, leaving, receipt, stored, metrics, early>>

\* Mutant: a timeout flushes nothing.
FlushNothing(w) == FALSE

\* flush_interval_s passed in get(), which it may do with an item waiting; with
\* an empty batch nothing happens and the worker calls get() again.
FlushTimeout(w) ==
    /\ pc[w] = "get"
    /\ batch[w] # {}
    /\ Flush(w, batch[w])
    /\ UNCHANGED <<phase, owed, queue, tocache, leaving, receipt, stored, metrics, early>>

\* Mutant: the worker leaves its loop without _drain_remaining and discards
\* what was queued behind its sentinel together with its batch.
TakeShutdownNoFlush(w) ==
    /\ pc[w] = "get"
    /\ queue # <<>>
    /\ Head(queue) = Shutdown
    /\ queue' = Tail(queue)
    /\ leaving' = [leaving EXCEPT ![w] = TRUE]
    /\ pc' = [pc EXCEPT ![w] = "exited"]
    /\ UNCHANGED <<phase, owed, batch, flight, tocache, receipt, stored, metrics, early>>

\* queue.get() returned the sentinel: _drain_remaining empties the queue with
\* get_nowait, the sentinels of the other workers included, and one last
\* _flush takes everything, however much it is.
TakeShutdown(w) ==
    /\ pc[w] = "get"
    /\ queue # <<>>
    /\ Head(queue) = Shutdown
    /\ queue' = <<>>
    /\ leaving' = [leaving EXCEPT ![w] = TRUE]
    /\ LET b == batch[w] \cup Queued IN
         \/ /\ b = {}
            /\ pc' = [pc EXCEPT ![w] = "exited"]
            /\ UNCHANGED <<batch, flight>>
         \/ /\ b # {}
            /\ Flush(w, b)
    /\ UNCHANGED <<phase, owed, tocache, receipt, stored, metrics, early>>

\* EmbedStage: a record gets a vector or, when the embedder is off, when it has
\* no text, or when the call for its window was skipped or failed, none; the
\* whole batch goes on either way.
Embed(w) ==
    /\ pc[w] = "embed"
    /\ \E S \in SUBSET flight[w] : Count("embedded", S)
    /\ pc' = [pc EXCEPT ![w] = "write"]
    /\ UNCHANGED <<phase, owed, queue, batch, flight, tocache, leaving, receipt, stored, early>>

\* Mutant: insert_many raised and the batch is retried without being counted.
WriteFailsRetried(w) ==
    /\ pc[w] = "write"
    /\ \E T \in SUBSET flight[w] : stored' = AddTo(stored, T)
    /\ UNCHANGED <<phase, owed, queue, pc, batch, flight, tocache, leaving, receipt, metrics, early>>

\* MongoWriteStage, insert_many returned: every record is persisted.
WriteOk(w) ==
    /\ pc[w] = "write"
    /\ stored' = AddTo(stored, flight[w])
    /\ Count("written", flight[w])
    /\ tocache' = [tocache EXCEPT ![w] = flight[w] \cap Cacheable]
    /\ flight' = [flight EXCEPT ![w] = {}]
    /\ pc' = [pc EXCEPT ![w] = "cache"]
    /\ UNCHANGED <<phase, owed, queue, batch, leaving, receipt, early>>

\* MongoWriteStage, insert_many raised a PyMongoError: no record is persisted
\* and all count as failed, although an unordered insert that partly failed,
\* or one whose reply was lost, did store some.
WriteFails(w) ==
    /\ pc[w] = "write"
    /\ \E T \in SUBSET flight[w] : stored' = AddTo(stored, T)
    /\ Count("failed", flight[w])
    /\ flight' = [flight EXCEPT ![w] = {}]
    /\ pc' = [pc EXCEPT ![w] = AfterFlush(w)]
    /\ UNCHANGED <<phase, owed, queue, batch, tocache, leaving, receipt, early>>

\* CacheWriteStage, one record: the put succeeds, or raises a PyMongoError
\* that is logged.
CachePut(w) ==
    /\ pc[w] = "cache"
    /\ \E c \in tocache[w] :
         /\ tocache' = [tocache EXCEPT ![w] = @ \ {c}]
         /\ Count("cached", {c}) \/ UNCHANGED metrics
    /\ UNCHANGED <<phase, owed, queue, pc, batch, flight, leaving, receipt, stored, early>>

\* The last stage returned: the worker goes on after _flush.
FlushDone(w) ==
    /\ pc[w] = "cache"
    /\ tocache[w] = {}
    /\ pc' = [pc EXCEPT ![w] = AfterFlush(w)]
    /\ UNCHANGED <<phase, owed, queue, batch, flight, tocache, leaving, receipt, stored, metrics, early>>

\* An exception that is not in the stage's except clause leaves _flush and ends
\* the task; one of the write stage (a document BSON cannot encode) is raised
\* before anything is sent.
StageRaises(w) ==
    /\ pc[w] \in Uncaught
    /\ pc' = [pc EXCEPT ![w] = "dead"]
    /\ UNCHANGED <<phase, owed, queue, batch, flight, tocache, leaving, receipt, stored, metrics, early>>

----------------------------------------------------------------------------
(* start() and stop() *)

\* start(): the lifespan calls it once, before requests are served.
Start ==
    /\ phase = "new"
    /\ phase' = "running"
    /\ pc' = [w \in Workers |-> "get"]
    /\ UNCHANGED <<owed, queue, batch, flight, tocache, leaving, receipt, stored, metrics, early>>

\* Mutant: what is left to put is reckoned from the room there was.
SentinelsMiscounted(n) ==
    LET room == MaxSize - Len(queue)
        k == IF n <= room THEN n ELSE room
    IN  /\ queue' = queue \o [i \in 1..k |-> Shutdown]
        /\ owed' = n - room
        /\ phase' = IF n = k THEN "draining" ELSE "stopping"

\* Mutant: the sentinels bypass the bound, as the comment at pipeline.py:121 has it.
SentinelsBypassBound(n) ==
    /\ queue' = queue \o [i \in 1..n |-> Shutdown]
    /\ owed' = 0
    /\ phase' = "draining"

\* `await queue.put(_SHUTDOWN)` suspends only while the queue is full, so the
\* sentinels there is room for go in together.
PutSentinels(n) ==
    LET room == MaxSize - Len(queue)
        k == IF n <= room THEN n ELSE room
    IN  /\ queue' = queue \o [i \in 1..k |-> Shutdown]
        /\ owed' = n - k
        /\ phase' = IF n = k THEN "draining" ELSE "stopping"

\* stop(): one sentinel for each worker task, running or not.
Stop ==
    /\ phase = "running"
    /\ PutSentinels(Cardinality(Workers))
    /\ early' = {c \in Captures : receipt[c] = "accepted"}
    /\ UNCHANGED <<pc, batch, flight, tocache, leaving, receipt, stored, metrics>>

\* A get() made room for a put that was waiting.
StopResumes ==
    /\ phase = "stopping"
    /\ Len(queue) < MaxSize
    /\ PutSentinels(owed)
    /\ UNCHANGED <<pc, batch, flight, tocache, leaving, receipt, stored, metrics, early>>

\* Mutant: gather without return_exceptions, which passes on a worker's.
StopReturnsUnlessRaised ==
    /\ phase = "draining"
    /\ \A w \in Workers : pc[w] \in {"exited", "cancelled"}
    /\ phase' = "stopped"
    /\ UNCHANGED <<owed, queue, pc, batch, flight, tocache, leaving, receipt, stored, metrics, early>>

\* gather returned: every worker task is done.
StopReturns ==
    /\ phase = "draining"
    /\ AllEnded
    /\ phase' = "stopped"
    /\ UNCHANGED <<owed, queue, pc, batch, flight, tocache, leaving, receipt, stored, metrics, early>>

\* Mutant: the workers cancelled on a timeout put their batches back.
DrainTimeoutRequeues ==
    /\ phase = "draining"
    /\ ~AllEnded
    /\ phase' = "stopped"
    /\ pc' = [w \in Workers |-> IF Alive(w) THEN "get" ELSE pc[w]]
    /\ stored' = AddTo(stored, UNION {flight[w] : w \in Workers})
    /\ UNCHANGED <<owed, queue, batch, flight, tocache, leaving, receipt, metrics, early>>

\* drain_timeout_s passed: wait_for cancels the gather and with it every worker
\* at its await.  An insert_many under way may have reached the server.
DrainTimeout ==
    /\ phase = "draining"
    /\ ~AllEnded
    /\ phase' = "stopped"
    /\ pc' = [w \in Workers |-> IF Alive(w) THEN "cancelled" ELSE pc[w]]
    /\ \E T \in SUBSET UNION {flight[w] : w \in {v \in Workers : pc[v] = "write"}} :
         stored' = AddTo(stored, T)
    /\ UNCHANGED <<owed, queue, batch, flight, tocache, leaving, receipt, metrics, early>>

----------------------------------------------------------------------------
Init ==
    /\ phase = "new"
    /\ owed = 0
    /\ queue = <<>>
    /\ pc = [w \in Workers |-> "new"]
    /\ batch = [w \in Workers |-> {}]
    /\ flight = [w \in Workers |-> {}]
    /\ tocache = [w \in Workers |-> {}]
    /\ leaving = [w \in Workers |-> FALSE]
    /\ receipt = [c \in Captures |-> "none"]
    /\ stored = [c \in Captures |-> 0]
    /\ metrics = [m \in Counters |-> [c \in Captures |-> 0]]
    /\ early = {}

Worker(w) ==
    \/ Get(w) \/ FlushTimeout(w) \/ TakeShutdown(w)
    \/ Embed(w) \/ WriteOk(w) \/ WriteFails(w) \/ CachePut(w) \/ FlushDone(w)
    \/ StageRaises(w)

Stopper == StopResumes \/ StopReturns

\* stop() with a drain timeout that never expires.
PatientNext ==
    \/ \E c \in Captures : Submit(c)
    \/ \E w \in Workers : Worker(w)
    \/ Start \/ Stop \/ Stopper

Next == PatientNext \/ DrainTimeout

Spec == Init /\ [][Next]_vars

\* The event loop runs every task that can go on, and the embedder's and the
\* driver's own timeouts end every call of a stage.
Fairness ==
    /\ \A w \in Workers : WF_vars(Worker(w))
    /\ WF_vars(Stopper)

FairSpec == Spec /\ Fairness /\ WF_vars(Start) /\ WF_vars(DrainTimeout)

PatientSpec == Init /\ [][PatientNext]_vars /\ Fairness /\ WF_vars(Start)

----------------------------------------------------------------------------
(* Safety *)

\* A capture the worker still answers for: not yet written, failed or lost.
Held(w) == batch[w] \cup flight[w]

Settled(c) == metrics["written"][c] + metrics["failed"][c] > 0

\* Conservation (pipeline.py:100-114, 135-176): a capture that submit() accepted
\* and counted is in the queue, or in one list of one worker, or was counted
\* written or failed; it is in exactly one of these, once.  Nothing is counted
\* or held that was not accepted.
Conserved ==
    \A c \in Captures :
        /\ metrics["submitted"][c] = (IF receipt[c] = "accepted" THEN 1 ELSE 0)
        /\ metrics["dropped"][c] = (IF receipt[c] = "dropped" THEN 1 ELSE 0)
        /\ Cardinality({i \in 1..Len(queue) : queue[i] = c})
             + Cardinality({w \in Workers : c \in batch[w]})
             + Cardinality({w \in Workers : c \in flight[w]})
             + metrics["written"][c] + metrics["failed"][c]
           = metrics["submitted"][c]

\* At most one document for a capture, whatever failed or was cancelled, and one
\* exactly for a capture counted as written (stages.py:117-130).
StoredAtMostOnce ==
    \A c \in Captures :
        /\ stored[c] <= 1
        /\ metrics["written"][c] <= stored[c]

\* The cache stage acts only on records the write stage persisted, and at most
\* once on each (stages.py:140-161).
CachedOnlyPersisted ==
    \A c \in Captures :
        /\ metrics["cached"][c] <= metrics["written"][c]
        /\ metrics["cached"][c] > 0 => c \in Cacheable

\* pipeline.py:1-5 "a bounded queue drained by workers": what the pipeline holds
\* is bounded in every phase.  The queue never exceeds its maxsize, sentinels
\* included, although pipeline.py:121 has it that they bypass the bound; a worker
\* answers for at most a batch, and one that leaves for what it had begun and the
\* rest of one full queue: the captures submitted meanwhile are not added.
HeldBounded ==
    /\ Len(queue) <= MaxSize
    /\ \A w \in Workers :
         Cardinality(Held(w)) <=
            IF leaving[w] THEN (BatchSize - 1) + (MaxSize - 1) ELSE BatchSize

\* A batch is flushed when it reaches batch_size: a worker that waits for the
\* next item holds fewer (pipeline.py:147-148).
WaitingBatchNotFull ==
    \A w \in Workers : pc[w] = "get" => Cardinality(batch[w]) < BatchSize

\* A stop() that saw every worker leave through a sentinel left nothing behind
\* of what was accepted before it was called (pipeline.py:117 "drain remaining
\* captures"): those captures are all settled.  Without a worker nothing is.
GracefulStopSettles ==
    /\ phase = "stopped"
    /\ Workers # {}
    /\ \A w \in Workers : pc[w] = "exited"
    => \A c \in early : Settled(c)

----------------------------------------------------------------------------
(* Refinement of CaptureLedger *)

Lost(c) == \E w \in Workers : pc[w] \in {"dead", "cancelled"} /\ c \in Held(w)

FateOf(c) ==
    IF receipt[c] = "none" THEN "new"
    ELSE IF receipt[c] = "dropped" THEN "dropped"
    ELSE IF metrics["written"][c] > 0 THEN "written"
    ELSE IF metrics["failed"][c] > 0 THEN "failed"
    ELSE IF Lost(c) THEN "abandoned"
    ELSE "pending"

Ledger == INSTANCE CaptureLedger WITH
    fate <- [c \in Captures |-> FateOf(c)],
    documents <- {c \in Captures : stored[c] > 0},
    entries <- {c \in Captures : metrics["cached"][c] > 0}

\* The pipeline implements the ledger: no capture is settled twice, none leaves
\* "written", "failed" or "abandoned" again, no document appears for a capture
\* that is not being settled.
RefinesLedger == Ledger!LedgerSpec

----------------------------------------------------------------------------
(* Liveness *)

\* A capture accepted before stop() is settled, or goes down with a worker; a
\* worker that died leaves the others to empty the queue (pipeline.py:135-176).
\* The exception Lost(c) is what stages.py:5-7 denies, "never propagated, so it can
\* neither lose the batch": build_document and a stage may raise past _flush.
AcceptedIsSettled ==
    \A c \in Captures :
        receipt[c] = "accepted" /\ phase \in {"new", "running"} ~>
            \/ Settled(c) \/ Lost(c)
            \/ phase = "stopped"
            \/ \A w \in Workers : pc[w] = "dead"

\* stop() returns, whatever the workers do (pipeline.py:116-133), unless it is
\* still waiting for room for a sentinel when the last worker ends: then nobody
\* makes room, and the put has no timeout.
StopEnds ==
    phase \in {"stopping", "draining"} ~>
        phase = "stopped" \/ (phase = "stopping" /\ AllEnded)

\* pipeline.py:37 "Sentinel enqueued to tell a worker to drain and exit": given
\* time, every worker exits after stop() has put a sentinel for each.
WorkersExitOnShutdown == phase = "draining" ~> AllEnded
=============================================================================
