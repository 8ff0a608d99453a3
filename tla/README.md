# Verification of blackbox-ai

blackbox-ai is a pass-through gateway for LLM APIs. The *data plane* relays a
request to the provider and streams the answer back; the *telemetry plane* keeps
a record of it in MongoDB, out of band, with a bounded queue and a few worker
tasks. This directory models the parts of the program that have behaviour over
time, checks them with TLC on small instances, and proves the main safety
results for all values of the constants with TLAPS.

Paths below are relative to `src/src/blackbox_ai/`; line numbers refer to the
modelled commit. `PROJECT.json` maps every definition to its lines.

    tlc -workers 2 -config Relay.cfg MCRelay      # one run
    tlapm TelemetryPipeline_proofs.tla            # one proof module

Contents: [1 The system](#1-the-system) ·
[2 The modules](#2-the-modules-and-how-they-correspond-to-the-code) ·
[3 The runs](#3-the-runs) · [4 Findings](#4-where-the-code-and-its-documentation-disagree) ·
[5 The proofs](#5-the-proofs) · [6 Limits](#6-what-is-only-model-checked-and-what-is-not-modelled) ·
[7 Plan](#7-plan)

## 1 The system

One asyncio process: an ASGI application, one event loop, no threads that touch
shared state. Coroutines interleave at awaits only. The shared state is the
relay's permit counter, the telemetry queue and its counters, the rate limiter's
table, the circuit breaker, and, between processes, the MongoDB collections.

### Inventory

| component | state it keeps | operations |
|---|---|---|
| Relay `proxy/relay.py`, `proxy/tee.py`, `telemetry/capture.py` | `_inflight`; per request the body read so far, the capture buffer, the status | `handle`: authenticate, rate-limit, `_acquire`, `_read_body`, cache branch, upstream send, hand-off; the generators `_stream_and_capture` and `_replay_and_capture` with their `finally` |
| Rate limiter `security/rate_limit.py` | per client a deque of hit times; `_last_gc` | `check`: collect, prune, decide |
| Response cache `cache/` | a collection with a TTL index | `CacheGate.identity_for`, `CacheGate.lookup`, `CacheStore.put` |
| Telemetry pipeline `telemetry/pipeline.py`, `stages.py`, `sink_mongo.py`, `builder.py` | queue, worker tasks, the batch of each, `PipelineMetrics` | `submit`, `start`, `stop`, `_worker`, `_drain_remaining`, `_flush`, the stages embed, write, cache |
| Embedding and its circuit breaker `telemetry/embeddings.py` | `_failures`, `_opened_at`; per call the texts, the positions still to send, the result list | `embed_documents`, `embed_query`, `_embed_many`, `_embed_batch`; `allow`, `record_success`, `record_failure` around each window |
| Search `search.py`, `api/admin.py`, `cli.py` | per search its stage | query embedding, hybrid aggregation, fallback, vector aggregation |
| Response parsers `telemetry/parsers/` | the accumulators of one parse | one parser for each of four wire dialects; `build_document` picks and guards it |
| Storage bootstrap `bootstrap.py`, `security/encryption.py`, `db/`, `main.py`, `cli.py` | collections (plain or encrypted) and indexes in the database | `ensure_storage`, the lifespan of the application, `blackbox-ai init` |
| Replay export and request identity `replay.py`, `middleware/context.py` | the id of each request, the documents | the middleware's id, `ReplayService.fetch`, `ReplayArtifact.as_curl` |
| The process `main.py` | whether the server serves | the lifespan: start, serve, stop |
| Providers, health and metrics endpoints, configuration, errors, logging | immutable after start-up, or views of the above | |

### Interactions

- The relay calls the rate limiter and the cache gate before it goes upstream.
  It hands each finished response to the pipeline with `submit()`, which never
  blocks: a full queue drops the capture.
- A pipeline worker builds documents with the parsers, calls the embedder behind
  the breaker, writes to the collection, and inserts cache entries. The entry a
  lookup finds was thus made by a worker, long after the response was streamed,
  or by another process.
- Searches share the embedder, and so the breaker, with the workers.
- An export is made of a document by the id its client may have chosen. Its curl
  command goes through the gateway, and so through the cache, once more.
- The lifespan runs the storage bootstrap, starts the workers, and stops them at
  the end. The bootstrap fails closed on a bad key and open on a database error.
- The ASGI server iterates the relay's generators. When the client leaves it
  cancels what it awaits, and the generator it no longer iterates is finalized
  whenever the event loop does so, also after the server has waited for its tasks
  and the lifespan has begun to stop the pipeline.

### What is hard about it

| behaviour | where | what makes it correct |
|---|---|---|
| a permit changes owner in the middle of a request; every await may be cancelled | relay | each permit is given back once; memory stays within the documented bound |
| a stream may end in five ways, some of them long after the client has gone | relay | one capture for each response; its status and its truncation mark are true |
| batches are copied, cleared and handled across awaits; a worker may die, fail, be cancelled while it inserts, or be told to exit | pipeline | no accepted capture is lost from sight, counted twice or stored twice; a stop leaves nothing behind |
| windows of one batch fail, succeed or are skipped; blanks are left out | embedder | a vector goes to its own text; while the backend is up nobody misses one |
| outcomes of overlapping calls are recorded in any order | breaker | a failing backend is probed rarely; one that is back is used again |
| the time an entry was stamped, looked up, expired and purged are four different times | cache | a replay is whole, of equal content, in the right format, hardly past its expiry |
| ids are shared, query strings and odd bodies are lost | export | a re-issue asks what was asked, and is answered afresh |
| a server refuses one kind of query | search | the fallback asks the same question |
| two planes with separate life cycles in one process | gateway | what was delivered is recorded; the relay never waits for telemetry |
| history is forgotten to save memory | rate limiter | forgetting changes no decision |
| several processes set up one database, any of them may fail half-way | storage | no collection becomes plain by a race; a start that succeeded left complete storage |
| fragments of interleaved tool calls, damaged payloads, a capture cut anywhere | parsers | nothing is mixed up, nothing invented, the status tells |

`PROJECT.json` lists the single hazards under `hazards`, each at its line.

## 2 The modules and how they correspond to the code

A common convention: an action is a stretch of a coroutine between two awaits
that suspend, or one call to a database. Everything the code does in that
stretch is in the action. A definition whose comment begins with "Mutant:" is
not part of the model: it is the definition below it with a plausible bug, kept
to show that the properties can tell the difference.

**CaptureLedger** (abstract). What the telemetry plane promises about a capture:
`fate` goes from new to dropped or pending, from pending to written, failed or
abandoned, and no further. `documents` and `entries` only grow, and only with
the captures being settled.

**TelemetryPipeline** implements it. `queue` is the asyncio queue (the sentinel
is the model value `Shutdown`), `pc[w]` the await at which worker `w` is
suspended, `batch[w]` the list it fills, `flight[w]` the batch inside `_flush`
until its write ended, `tocache[w]` what the cache stage has still to do, `owed`
the sentinels `stop()` could not put yet. `Submit`, `Get`, `FlushTimeout`,
`TakeShutdown` (with `_drain_remaining`), `Embed`, `WriteOk`, `WriteFails`,
`CachePut`, `FlushDone`, `Start`, `Stop`, `StopResumes`, `StopReturns` and
`DrainTimeout` are the program's steps. `Flush` kills the worker when
`build_document` raises, and `StageRaises` when a stage raises what its `except`
does not name. `Malformed` and `Uncaught` say for which captures and stages
that may happen. `Embed` gives vectors to any part of the batch. A failed `insert_many` may have stored any part of the batch, and
a cancelled one too. A counter is kept as what each capture added to it.

**Relay**. `req[r]` are the locals of the coroutine of request `r`. Its `pc`
runs from `reading` through `lookup`, `sending`, `handed` (the StreamingResponse
is the server's) to `streaming` (awaits the upstream), `yielded` (awaits the
client), `closing` (awaits `aclose`) and `done`, or into `refused`, `failed`,
`orphaned` (left at its yield until it is finalized) and `unstarted`. Bodies are
lengths. `EarlyExit` is every way out of `handle` before the hand-off.
`inflight` is the code's counter and not derived from `req`. `Buffered` is the set of
units of body and capture that are held in memory, each with its request.

**SlidingWindow** (abstract): a hit is granted exactly when fewer than
`MaxRequests` were granted in the window before, nothing is ever forgotten.
**RateLimiter** implements it with pruned, collected deques. `granted` and
`answer` are history variables and the refinement mapping is the identity.

**CircuitBreaker**. `failures`, `opened`, `age` are the breaker's fields, the
time since `_opened_at` kept up to `Cooldown` because the code only compares it
with that. `calling` says which callers are inside a call, `up` is the backend. `Abort` is a call
that is cancelled or raises what is no `VoyageError`: it records neither outcome
(`embeddings.py:162-176`).

**Embedder** extends it with `_embed_many`: `todo[c]` are the positions of
non-blank texts a caller has still to send, `out[c]` its result list. A window
is sent (`SendWindow`, the breaker's `Call`) or skipped, succeeds or fails, and
the next one is tried all the same; one that raises ends the call
(`WindowRaises`). A vector is named by the text it came from.
`Filled` are the positions that are not blank, `Indexed` lists them in order.

**Search** puts the two users of the embedder on it: the `EmbedStage` of each
worker and the searches. A worker whose batch raised is `dead` (`BatchRaises`), as is
one that ended for another reason between its batches (`WorkerEnds`); a search that
raises fails (`SearchRaises`). `EmbeddingText` gives for each document what of it is embedded.
`VectorLeg`, `TextLeg` and `Fusion` are the sets of answers the aggregations allow:
what an index holds and how it ranks is the server's, what the pipeline filters
and limits is the program's. The requests of `POST /admin/search` and those of
`blackbox-ai search` are the same; the latter has a process, and a breaker, of
its own.

**ResponseCache**. The path of a request from `identity_for` through the lookup,
the upstream and the worker's insertion. A request is a record of what the gate
and the upstream tell apart: provider, method, path, body, stream flag, opt-in
header, query. The stream flag is set, cleared or left out: `_wants_stream` takes the
last two for the same (`gate.py:106-114`), a provider in `StreamsByDefault` (Ollama,
`catalog.py:89-94`) does not. `since[r]` is the clock the lookup or the put read before its
await. `Purge` is MongoDB's TTL monitor, which runs when it likes. The upstream may
frame a plain document in chunks, as HTTP/1.1 allows.

**Replay** extends it with what follows: `id[r]` from the middleware, `documents`
written by the workers, and `Reissue`, in which somebody runs the curl command of
an export. `Artifact` and `Curl` say what the export keeps and what it loses.

**Gateway** composes Relay and TelemetryPipeline (`INSTANCE`). A step of a generator
that finalizes a capture is also the pipeline's `Submit` of it (`HandOver`).
`Terminate`, `ShutDown` and `ShuttingDown` are the server's exit in its order:
no new requests, the tasks waited for, then the lifespan's `finally`. `Qualifies`
binds what the cache stage may take to what the relay captured.

**Storage**. `pc[s]` is the call a starting process makes next, in the order of
`ensure_storage`. `kind[c]` is what a collection is, for ever after its
creation. `Implicitly(c)` is the server's own creation of a collection on the
first index or insert, without encryption. `StartFails` ends a start: gateways go
on to serve, `init` stops. Any call may end so (`DatabaseFails`, bounded), and
so may the creation of a collection that is already there: the server's code 48
counts as success, any other error is raised again (`encryption.py:207-214`), and
which one comes is the driver's affair (`Create` allows both, as often as it
happens). `cleartext` are the collections into which one of the modelled processes
wrote a document that can be read; what was there before is not in it.

**ResponseParsers**. A provider sends a message payload by payload in one of
four dialects. `acc` is what the parser would have accumulated if the capture
ended here, `Result` what it would return. A payload may be garbled (skipped and
noted), or be JSON of an unexpected shape (raises, caught by `_run_parser`).
`wire` holds what the parser can see of the framing. What a provider sends is
external and modelled from what the parsers and their tests expect.

The `MC*` modules only name the elements of the sets for TLC.

## 3 The runs

| run | question | distinct states |
|---|---|---|
| `TelemetryPipeline` | Is every accepted capture somewhere, once, until it is settled, and does it get settled? Does a stop end? Does the pipeline implement the ledger? | 132 686 |
| `PipelineSentinels` | (violated) Do the workers exit when told to? | |
| `Relay` | Are permits, memory and what telemetry is told right under every mix of early exits, disconnects and late finalizers? | 436 204 |
| `RelayPermitLeak` | (violated) Does every permit come back? | |
| `RateLimiter` | Window bound, exact `retry_after`, forgetting of idle clients; does it implement the window that forgets nothing? | 2 368 856 |
| `CircuitBreaker` | A worker and searches on one breaker: how often is a failing backend probed, is it used again, do vectors and hits belong where they go? | 34 670 |
| `SearchFilter` | (violated) Does every hit of a filtered search pass the filter? | |
| `ResponseCache` | What can be replayed, to whom, how late, and what does a re-issue from an export get? | 4 105 257 |
| `Gateway` | Relay and pipeline in one process, from start to stop: is what was delivered recorded, is what is cached whole, does the relay depend on telemetry? | 429 916 |
| `Storage` | What do starts that race, fail and crash leave behind, and what can make a document readable? | 361 142 |
| `StoragePlaintext` | (violated) Is nothing ever written in the clear? | |
| `ResponseParsers` | What is extracted from every prefix of a response? | 7 400 |

### What the properties say

- *Pipeline.* `Conserved`: an accepted capture is at one place of the queue, or
  in one list of one worker, or counted written or failed, once, and nothing else
  is counted. `HeldBounded`: the queue never exceeds its size, and a worker answers for
  a batch at most, or, on its way out, for what it had begun and one queue more.
  `StoredAtMostOnce`: at most one document for each capture.
  `GracefulStopSettles`: if every worker left through a sentinel, all that was
  accepted before `stop()` is settled. `RefinesLedger`. `AcceptedIsSettled`
  (liveness): a capture accepted before `stop()` is settled or goes down with its
  worker, unless all workers die. `StopEnds` (liveness): `stop()` returns unless it
  waits for room in the queue when the last worker has ended.
- *Relay.* `PermitsConserved`: the counter is the number of requests that own a
  permit. `MemoryBounded`: `config.py:133-136`, bodies and captures together.
  `OneCapturePerResponse`. `StatusTruthful`: "ok" only if the client was sent all.
  `UncutCaptureIsWhole`: an "ok" capture not marked truncated is the whole body.
- *Rate limiter.* `WindowBound`, `RetryAfterExact`, `RefinesSlidingWindow`.
  `IdleKeysForgotten`: after a check no client is kept whose last hit is two windows
  old.
- *Breaker, embedder, search.* `OneTrialPerCooldown`: no caller probes an open
  breaker twice in a cooldown; a trial that ended without an outcome does not
  count. `Recovers` (liveness): a backend that stays up ends up with a closed breaker, as
  long as one worker lives to try it. `VectorsAligned`: each position of a result holds the
  vector of its own text or none. `NothingMissedWhileUp`: while the backend answers
  every text of a call that returns gets its vector and no query is refused for want
  of one.
  `VectorHitsInScope`: a vector search, and a hybrid one that fell back to it,
  answers only what passes the filter and was embedded.
- *Cache and export.* `ReplaysAreWhole`: replays come from completed, untruncated
  responses to a request with the same key, never from replays. `StalenessBounded`: at
  most the lookup timeout past the expiry. `FormatSafe`: in the format the client
  would have got, but for three exceptions (section 4). `ReissueAsksTheSame`: a
  re-issue has the key and format of an interaction recorded under its id, if that
  one had a JSON object for a body. `ReissueIsFresh`: it is not answered by the
  cache unless the cache is on by default.
- *Gateway.* `CachedWasDelivered`: what is cached came from
  an upstream, is whole, and reached its client in full. `DeliveredIsSettled`: after
  a stop in which all workers exited, what a client got in full is settled or was
  dropped. `IndependentOfTelemetry` (liveness): permits come back though no worker
  may ever take a step.
- *Storage.* `PlaintextHasACause`: with encryption on, a readable document is written,
  and a collection made plain, only where a gateway serves after a failed start or in a
  collection that was found plain. `CompletedHasStorage`: a start that went through
  left collections and indexes complete.
- *Parsers.* `WholeParsed`: a response that arrives whole parses to the same
  result streamed or not, however its calls' fragments are ordered.
  `ToolsNotMixed`, `StatusHonest` (what was lost shows in the status).

### Bounds, and why they are enough

- *Pipeline*: two workers (a worker can take what was meant for another), a queue
  of two (it fills; with one capture in it the second sentinel has no room),
  batches of two (they fill, wait half full, and the drained one can exceed the
  size), three captures of which one makes `build_document` raise; the write stage
  may raise. Captures, workers and the reasons to die are symmetric in the code.
- *Relay*: three requests for two permits, so that one is refused while the others
  may be anywhere. A byte is the unit: `MaxBody` 1, `MaxCapture` 1, a body of up
  to two for `r1` and one for the others. That gives captures that fit exactly,
  that are cut in the middle of a chunk and before one, and an empty body.
- *Rate limiter*: two clients, since a collection for one must not harm the other.
  A window of two ticks, a budget of two and a clock of seven: more than three
  windows, so hits age out, are collected, and the client returns. `MaxTime` is the
  only bound that is not a parameter of the program.
- *Breaker, embedder, search*: a worker and a search, so that calls of both overlap;
  threshold two and cooldown two: an outcome that arrives after the breaker opened,
  and one after it closed again. Windows of two positions and a batch of four texts
  with a blank one among them: two windows, either of which may fail or be
  skipped. Three documents, one with nothing to embed, and two projects. No bound on
  time: ages saturate at the cooldown.
- *Cache and export*: three requests, one to fill an entry and two to hit it or
  overwrite it, or to be re-issued; a TTL of one within a clock of two, so entries
  expire, unpurged or purged, and a lookup can straddle the expiry (timeout one).
  Requests ask Ollama for one content with the stream flag set, cleared and left out,
  ask for Gemini's stream with `alt=sse`, or are a GET without a body; two of them may share an id. Requests are symmetric.
- *Gateway*: two requests, one of which may be truncated, a worker and a queue of
  one: the second capture may be dropped, and the sentinel has to wait for room. A
  batch of two lets the drained captures join the one in hand.
- *Storage*: two gateways, an `init`, and a gateway without a key; one database error
  and one restart; a collection of intents that may be there already, plain. A race needs two starters; a repaired failure needs one failure
  and one restart. Starts that fail because they lost a race are not bounded. One more
  of each only repeats them.
- *Parsers*: messages with thoughts, text in two fragments, two calls, a call in two
  fragments, and only overlapping calls; up to two damaged payloads, so that
  a stream can be garbled and odd, in either order.

`CHECK_DEADLOCK FALSE` is given where the system may stop: all requests are
over, the pipeline is stopped, the clock reached its bound, all starts are done. One
state of the pipeline is a stop for another reason, the exception that `StopEnds`
names: `stop()` waits for room in a full queue that no living worker empties.
Searches never stop, and their run checks for deadlock.

### Fairness, and why the code justifies it

- *Pipeline*: weak fairness of each worker: the event loop runs every task that can go
  on, and the calls of the stages end by the embedder's and the driver's timeouts. A
  worker with a non-empty batch can always take a step because `get()` has a
  timeout. Weak fairness of `Start` (the lifespan calls it), of `stop()` once it
  was called, and of the drain timeout. Nothing makes a client submit or the
  operator stop. `PatientSpec` drops the drain timeout, for the one question
  whether the workers would exit by themselves.
- *Relay*, on its own (`RelayPermitLeak`) and in the process (`Gateway`): weak
  fairness of each request's `handle` and generator. The upstream's awaits end by
  httpx's timeouts and the lookup by its own. That the client sends, reads or leaves
  is an assumption about the environment, and so is that the event loop finalizes the
  generators it was left with. `RelayFairSpec` assumes nothing of the telemetry plane,
  which is the point of `IndependentOfTelemetry`.
- *Breaker, embedder, search*: time passes, workers that live get batches and go on
  with them, a search under way goes on; calls end by their timeout. Nothing makes anybody
  search.
- Relay (in its own run), rate limiter, cache, export, storage and parsers state
  safety only.

## 4 Where the code and its documentation disagree

Each of these runs checks one sentence of a comment or document of the repository
and ends with a counterexample.

- `PipelineSentinels`: `pipeline.py:37` says a sentinel tells a worker to exit. The
  worker that takes the first one drains the queue and discards the others'
  (`pipeline.py:159`); they wait until the drain timeout cancels them. With the
  default of two workers every `stop()` lasts the whole drain timeout.
- `RelayPermitLeak`: `relay.py:122` says the permit is released exactly once, after
  the hand-off by the generator. A generator that is never iterated has no
  `finally` to run, and its permit is gone.
- `SearchFilter`: `search.py:84` promises "optional metadata pre-filters", and the
  options that make the filter read "Filter by X-Project-ID." (`cli.py:61`). In
  hybrid mode, the default, the filter reaches the vector leg only
  (`search.py:185`). The text leg has none and nothing filters the fusion
  (`search.py:179-200`): documents of other projects are among the hits.
- `StoragePlaintext`: `encryption.py:17-19` says the gateway never falls back to
  plaintext, and ADR 0002 that no plaintext is ever written under the belief it was
  encrypted. There are two ways to it. A database that is down while a gateway starts
  skips the creation of the encrypted collections (`main.py:94-97`), nothing retries
  it, and the first insert creates a plain one. And a collection that is found
  unencrypted is left as it is, with a line in the log (`encryption.py:195-198`): the
  gateway writes into it in the clear. `PlaintextHasACause` says that there is no
  third.

More limits of what the documentation says are written into properties that hold:

- `stages.py:5-7` says a stage's failure is "never propagated, so it can neither lose the
  batch", `stages.py:81` that `process` "must never raise", and ADR 0004 that loss is
  "not a silent failure". The stages that write catch `PyMongoError` only
  (`stages.py:123`, `158`), and `build_document` runs before the stages, outside any
  `except` (`pipeline.py:168-174`). Anything else they raise ends the worker with its
  batch; no counter tells. `AcceptedIsSettled` holds but for the captures lost so
  (`Lost`).
- `pipeline.py:121` says sentinels bypass the bound and the queue allows "transient
  over-capacity". It does not: `stop()` puts them with `put`, which waits for room.
  `HeldBounded` says so, and the last item of this list is what comes of it.

- `embeddings.py:60` allows "a single trial call" of a half-open breaker. `allow()` does
  not note that a trial is under way, so every caller is let through until the first
  outcome. `OneTrialPerCooldown` is what holds: one for each caller.
- ADR 0003 says a streaming request can never hit a non-streaming entry. The format of
  an entry is read off the framing of the response, and a JSON document sent in
  chunks counts as a stream (`relay.py:439`). The key leaves out the query string,
  and with it Gemini's `alt=sse` (`keys.py:60`). And Ollama streams unless told
  not to, but a body without a stream flag looks up the document of one that cleared it
  (`gate.py:106-114`). `FormatSafe` holds but for these three.
- `stop()` ends by its drain timeout, but puts its sentinels before the timeout starts
  to run (`pipeline.py:122`). When the last worker has died, or has exited on the
  sentinel of another, while the queue is full and a sentinel still owed, the put
  never returns. `StopEnds` holds but for this.

## 5 The proofs

All of them for any value of the constants that satisfies the module's named
`ASSUME`. Each module proves that a strengthened invariant is inductive
(`Init => IInv`, `IInv /\ [Next]_vars => IInv'`), and derives the properties.

**TelemetryPipeline_proofs** — `TypeCorrect`, `ConservedHolds`,
`HeldBoundedHolds`, `StoredAtMostOnceHolds`, `CachedOnlyPersistedHolds`,
`WaitingBatchNotFullHolds`, `GracefulStopSettlesHolds`, `RefinesLedgerHolds`.
`Conserved` is not inductive: it counts, but does not say why a `TakeShutdown`
cannot find a capture it already holds, nor why a write cannot store what is
stored. `IInv` adds the size of the queue (`Typed`), that no capture is twice in the queue (`Distinct`), where each
list can be non-empty (`ControlOK`), that no capture is in two lists or in a list
and the queue (`HeldOK`), that accepted means open or settled, never both
(`CountsOK`), that only a worker cancelled in the middle of its insert can hold a capture
already stored (`StoredOK`), and that what waits for the cache is written and
not yet cached (`CacheOK`). `FInv` adds that before the start no worker runs
(`Fresh`), the batch bound (`BatchOK`), and, for the graceful stop, that no
sentinel precedes an early capture and that an exited worker implies an empty
early queue (`EarlyOK`). The sum in `Conserved` then follows by the cardinality
of sets of at most one element. For the refinement each action is mapped: `Submit` to
`Accept` or `Drop`, the writes to `SettleWritten` and `SettleFailed`, a `Flush`
that raises, `StageRaises` and `DrainTimeout` to `Abandon`, `CachePut` to
`CacheEntry`, all others to a stutter. Assumed: `Workers` finite, queue and batch
size at least one, the sentinel is no capture.

**RateLimiter_proofs** — `TypeCorrect`, `WindowBoundHolds`,
`RetryAfterExactHolds`, `IdleKeysForgottenHolds`, `RefinesSlidingWindowHolds`.
`Remembers`: the deque is the end of the history of grants and all before it
has aged out. With `InOrder` (times do not decrease) the recent hits of the
history are then exactly those left by `Prune`, so that both specifications count the
same. `Spaced` is `WindowBound`; `Fresh` bounds how old a remembered hit can be
when the last collection is; `Waits` ties a denied client's answer to the history.

**Replay_proofs** — first the cache alone: `TypeCorrect`, `ReplaysAreWholeHolds`,
`StalenessBoundedHolds`, `FormatSafeHolds`. `EntriesOK` says of each entry which
finished request it came from, `StagesOK` what the stage of a request implies,
`ReplaysOK` what tied the entry to the request when it was replayed. The steps are
proved for any set of arriving requests (`Steps(S)`), because re-issues are not
among those clients send. Then the cache with exports: `ReplayTypeCorrect`,
`ReplaysAreWholeHere`, `FormatSafeHere`, `StalenessBoundedHere`, because each step of
the export is a step of the cache or none, whatever is re-issued.
`ReissueAsksTheSameHolds` and `ReissueIsFreshHolds` need that documents are never
removed and that a request keeps what it asked and its id once it has arrived.

**Relay_proofs** — `TypeCorrect`, `PermitsConservedHolds`,
`OneCapturePerResponseHolds`, `StatusTruthfulHolds`, `UncutCaptureIsWholeHolds`,
`MemoryBoundedHolds`.
`LocalsOK` relates, at each label of a coroutine, what it took from its source
(`seen`), what the client was sent (`sent`) and what the buffer kept (`kept`): a stream
that awaits the upstream has sent all it has seen, an untruncated buffer kept all of
it, a completed one saw it all. Permits are counted with the theorems on finite sets.
The lemmas `Keeps`, `Takes`, `GivesBack` and `Finishes` say what a step of each kind
does to the invariant, and each action is shown to be of its kind. For
`MemoryBoundedHolds`, `Buffered` is part of a product: the owners of a permit, of
which there are at most `MaxConcurrent`, by the units one of them can hold.

**Storage_proofs** — `TypeCorrect`, `PlaintextHasACauseHolds`,
`CompletedHasStorageHolds`, for any number of processes, failures and restarts.
`Has(l, k, ix)` is what the collections and indexes hold for certain when a starter
stands before step `l`. Collections and indexes are only added, so no process takes
away what another relies on (`HasGrows`), and each step hands over to one that can
rely on it (`AfterHas`), or fails, which leaves no more to rely on (`FailStep`).

**Search_proofs** — first the breaker alone: `TypeCorrect`,
`OneTrialPerCooldownHolds`, `QuietAfterFailureHolds`. `Spaced`: a caller that was let
through an open breaker finds it still open, and after its trial the running cooldown
is younger than the trial was; one that was aborted leaves no trial behind. Then, for any workers, searches, documents and window
size:

- `ImplementsBreaker`: workers and searches with the embedder implement
  `CircuitBreaker!Spec`, each of their steps being one of its own or none. From
  that and the breaker's theorems follow `OneTrialPerCooldownHere` and
  `QuietAfterFailureHere`.
- `VectorHitsInScopeHolds`: a request keeps its filter as long as it keeps its answer.
- `VectorsAlignedHolds`, `SearchTypeCorrect`. `EmbedInv` says that what a caller has
  still to send are positions of texts that are not blank, and that its result
  list is as long as its texts, each vector in it of the text at its position. That `Indexed` lists
  exactly the positions in `Filled`, in order, is proved from the existence of such a
  list for every finite set of naturals (`AllListable`), by choosing least elements.
- `NothingMissedWhileUpHolds`: a temporal implication, proved as an invariant (`UpInv`)
  of the behaviours in which the backend is always up. The breaker then never counts a
  failure, every text of a call has its vector or is still to send (`Covered`), and
  no search is answered "unavailable" unless embedding is off or its query blank
  (`Served`).

**Gateway_proofs** — `ImplementsRelay` and `ImplementsPipeline`: each step of the
process is a step of Relay, or none, and a step of TelemetryPipeline, or none, so what
was proved of either holds in the process (`PermitsConservedHere`). Of what
neither knows alone: `CachedWasDeliveredHolds`, `DeliveredIsSettledHolds`. `GInv` joins both invariants with three facts: a request
has a receipt exactly when it is done (`Offered`), what is cached qualified
(`CachedOK`), and once `stop()` was called no task of the server runs and what
was delivered by then was dropped or accepted early (`ShutDownOK`). The last one is why
`DeliveredIsSettled` follows from the pipeline's `GracefulStopSettles`.

**ResponseParsers_proofs** — `ParsersInvariant`, `WholeParsedHolds`,
`ToolsNotMixedHolds`, `StatusHonestHolds`, for messages of any length with any number
of tool calls, in any of the four dialects. `IInv` relates the accumulator to what was
sent so far: without a loss it holds exactly that (`Heard`), text, thoughts, calls,
usage and finish reason; with losses every extracted call has the name of one that was
begun, or none, its arguments are among those sent for it, in their order (`ToolsFit`), and the
flags remember the loss. None of the three properties is inductive without it:
they speak of the end of a response, or of lists that the next payload extends. A
payload brings at most one choice, part or fragment, so that the folds over a payload
are unfolded once (`ChoicesFolds`, `FragmentsFolds` and the like) and need no
induction. For each dialect a lemma says what its parser does with a payload
(`OpenAIParsed` and the like, in terms of `Becomes`), for each action one says that it
keeps `IInv`. Assumed: messages are sequences of tokens, and `Null` is neither a
number nor a model or finish reason.

## 6 What is only model-checked, and what is not modelled

Every invariant, action property and refinement the passing runs check is proved. Only
model-checked are the liveness properties `AcceptedIsSettled`, `StopEnds`, `Recovers`
and `IndependentOfTelemetry`: the prover does not handle liveness under
fairness or `ENABLED`. The refinements are proved for the specifications without
fairness. That the runs' counterexamples exist (section 4) is TLC's word too.

Abstractions a reader should know of:

- *Pipeline*: `worker_count` 0 is excluded from `GracefulStopSettles`, since then
  nothing drains the queue. `maxsize` 0, which asyncio reads as
  unbounded, is excluded by the assumption. A batch is a set: the order inside it
  decides nothing. What a document holds is left out.
- *Relay*: URLs, headers, credentials and the extraction of the client key are
  "refused or not". The server cancels a response once; a second cancellation inside
  a `finally` is not modelled. httpx's connection pool is not modelled.
- *Cache*: a key is the record of what is hashed. That equal bodies hash equally and
  different ones differently (`cache/keys.py`) is assumed.
- *Embedder*: the retries inside the Voyage client are one call, and the backend is
  up or down for all callers. Clipping maps a text to a text.
- *Search*: scores, ranks and highlights are the server's, as is how far an index
  lags behind the collection. The collection does not change while searches run.
- *Export*: the export and the re-issue made from it are one step, since documents never
  change. The grouping headers and what the middleware logs are left out.
- *Gateway*: the lifespan starts the pipeline before the server takes requests, and
  stops it after the tasks of the requests have ended, as uvicorn does.
- *Storage*: `create_encrypted_collection`, which makes data keys first, is one
  step. Whether it reports a collection that exists by the error the code takes for
  success depends on the driver; both are modelled. The driver's cache of collection schemas is not modelled, so a process
  sees the kind of a collection as soon as it is created.
- *Parsers*: text is a sequence of fragments; the splitting of bytes into lines is
  left out. A capture cut between two payloads parses as "ok" without a finish
  reason: the code does not tell it from a whole one and no property says so.
  `WholeParsed` is for wires whose framing is what the parser guesses from
  (`Honest`), since `looks_like_sse` is a heuristic by its own comment
  (`base.py:58`). `base.py:48` says a parser must never raise; some do on JSON of
  an unexpected shape, and `_run_parser` catches it (`builder.py:74`).
  Anthropic's empty tool input is `{}` in one form and empty in the other.

Not modelled: providers and credentials (immutable tables, URLs), the health and
metrics endpoints (views), configuration, errors and logging (no behaviour over
time), the teaching steps under `steps/` and the demo (earlier versions of the same
program). A second cancellation in the relay's `finally`, and an exception
between the upstream's answer and the hand-off, are not modelled either: the server
cancels a response once, and the code between the two does not await.

## 7 Plan

Order of the modules, the most important behaviour first. Done:

1. CaptureLedger, TelemetryPipeline: runs, and all safety proved, refinement included.
2. Relay: runs, and all safety proved, the memory bound included.
3. SlidingWindow, RateLimiter; CircuitBreaker; ResponseCache: runs and proofs.
4. Storage, ResponseParsers: runs and proofs.
5. Embedder and Search on the breaker: runs and proofs.
6. Replay on the cache: run and proofs.
7. Gateway, Relay and TelemetryPipeline composed from start to stop: run and proofs.

Left, in the order of what they would add:

8. A collection that grows while searches run: Search and TelemetryPipeline composed.
9. An upstream that answers some callers and not others, for the breaker.
10. How long a capture may wait in a batch: the timeout of `get()` starts anew with
    each capture (`pipeline.py:139`).
