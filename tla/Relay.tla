------------------------------- MODULE Relay -------------------------------
(***************************************************************************)
(* The data plane: Relay.handle from the guards to the hand-off of a       *)
(* StreamingResponse, and the two generators that stream a response to the *)
(* client, mirror it into a bounded CaptureBuffer, submit the capture to   *)
(* telemetry and give the in-flight permit back.                           *)
(*                                                                         *)
(* Each request is one coroutine; an action is a stretch of it between two *)
(* awaits that suspend.  Bodies are lengths: what a byte says decides      *)
(* nothing here.  The ASGI server and the upstream are the environment:    *)
(* at every await they may answer, fail, or cancel the coroutine.          *)
(***************************************************************************)
EXTENDS Integers, Sequences, FiniteSets

CONSTANTS
    Requests,           \* the requests that arrive
    MaxConcurrent,      \* max_concurrent_requests
    MaxBody,            \* max_request_bytes
    MaxCapture,         \* telemetry_max_capture_bytes
    ResponseBound       \* bound: the longest response body of each request

ASSUME RelayAssumption ==
    /\ MaxConcurrent \in Nat \ {0}
    /\ MaxBody \in Nat
    /\ MaxCapture \in Nat
    /\ ResponseBound \in [Requests -> Nat \ {0}]
    /\ IsFiniteSet(Requests)

VARIABLES
    inflight,           \* _inflight
    req,                \* the locals of each request's coroutine
    captures            \* what each request handed to pipeline.submit()

vars == <<inflight, req, captures>>

Statuses == {"ok", "upstream_error", "client_disconnect"}

\* Where a request's coroutine is: in handle ("reading", "lookup", "sending"),
\* handed to the ASGI server ("handed"), in a generator ("streaming" awaits the
\* upstream, "yielded" awaits the client, "orphaned" is left at its yield until
\* the event loop finalizes it, "closing" awaits response.aclose()), or over.
Holding == {"reading", "lookup", "sending", "handed", "streaming", "yielded",
            "orphaned", "closing", "unstarted"}
Over == {"refused", "failed", "done"}

Locals ==
    [pc : {"idle"} \cup Holding \cup Over,
     source : {"none", "upstream", "cache"},
     body : 0..MaxBody,             \* request bytes buffered
     total : Nat,                    \* length of the response body
     seen : Nat,                     \* bytes taken from upstream or the entry
     sent : Nat,                     \* bytes whose send to the client returned
     kept : 0..MaxCapture,          \* len(_response) of the CaptureBuffer
     cut : BOOLEAN,                 \* _truncated
     status : Statuses,
     completed : BOOLEAN]

\* A RawCapture; "whole" and "delivered" record, for the properties, whether its
\* response_body was all of the body and whether the client was sent all of it.
Captured ==
    [source : {"upstream", "cache"}, status : Statuses, cut : BOOLEAN,
     whole : BOOLEAN, delivered : BOOLEAN]

TypeOK ==
    /\ inflight \in 0..MaxConcurrent
    /\ req \in [Requests -> Locals]
    /\ captures \in [Requests -> Seq(Captured)]

Holders == {r \in Requests : req[r].pc \in Holding}

\* The bytes of requests and captures that are in memory, numbered by request.
Buffered == UNION {{r} \X (1..(req[r].body + req[r].kept)) : r \in Holders}

----------------------------------------------------------------------------
(* Helpers *)

\* The locals of a coroutine that has none yet, or is over.
At(label) ==
    [pc |-> label, source |-> "none", body |-> 0, total |-> 0, seen |-> 0,
     sent |-> 0, kept |-> 0, cut |-> FALSE, status |-> "ok", completed |-> FALSE]

Goto(r, label) == req' = [req EXCEPT ![r].pc = label]

\* Mutant: a chunk that does not fit is kept whole and not marked.
ObserveUnbounded(l, n) ==
    [l EXCEPT !.seen = @ + n,
              !.kept = IF @ + n > MaxCapture THEN MaxCapture ELSE @ + n]

\* CaptureBuffer.observe of n bytes: keep what fits, mark the rest as cut.
Observe(l, n) ==
    LET remaining == MaxCapture - l.kept IN
    [l EXCEPT !.seen = @ + n,
              !.kept = @ + (IF n <= remaining THEN n ELSE remaining),
              !.cut = @ \/ remaining <= 0 \/ n > remaining]

\* Mutant: the in-flight check is off by one.
AtCapacityLate == inflight > MaxConcurrent

AtCapacity == inflight >= MaxConcurrent

\* Mutant: a stream that ends without completing keeps its initial status.
FinalStatusAsIs(l) == l.status

\* The status _stream_and_capture settles on in its finally; a replay is "ok"
\* whatever happened to it.
FinalStatus(l) ==
    IF l.source = "upstream" /\ ~l.completed /\ l.status = "ok"
    THEN "client_disconnect"
    ELSE l.status

\* The end of a generator's finally: finalize, record, submit, release.  The
\* client was sent that many bytes; the buffers are garbage from here on.
Finish(r, sent) ==
    LET l == req[r] IN
    /\ captures' = [captures EXCEPT ![r] = Append(@,
            [source |-> l.source, status |-> FinalStatus(l), cut |-> l.cut,
             whole |-> l.kept = l.total, delivered |-> sent = l.total])]
    /\ req' = [req EXCEPT ![r] = At("done")]
    /\ inflight' = inflight - 1

----------------------------------------------------------------------------
(* handle *)

\* 401 from _authenticate or 429 from _check_rate_limit, before any permit.
Refuse(r) ==
    /\ req[r].pc = "idle"
    /\ Goto(r, "refused")
    /\ UNCHANGED <<inflight, captures>>

\* _acquire finds the gateway at capacity: 503.
Overloaded(r) ==
    /\ req[r].pc = "idle"
    /\ AtCapacity
    /\ Goto(r, "refused")
    /\ UNCHANGED <<inflight, captures>>

\* _acquire takes a permit.
Admit(r) ==
    /\ req[r].pc = "idle"
    /\ ~AtCapacity
    /\ inflight' = inflight + 1
    /\ Goto(r, "reading")
    /\ UNCHANGED captures

\* _read_body: one more byte of the request within the limit.
ReadBody(r) ==
    /\ req[r].pc = "reading"
    /\ req[r].body < MaxBody
    /\ req' = [req EXCEPT ![r].body = @ + 1]
    /\ UNCHANGED <<inflight, captures>>

\* The body is complete: identity_for decides whether the cache is asked.
BodyRead(r) ==
    /\ req[r].pc = "reading"
    /\ \E next \in {"lookup", "sending"} : Goto(r, next)
    /\ UNCHANGED <<inflight, captures>>

\* The lookup found nothing, timed out or failed: fail-open to the upstream.
LookupMiss(r) ==
    /\ req[r].pc = "lookup"
    /\ Goto(r, "sending")
    /\ UNCHANGED <<inflight, captures>>

\* The lookup found an entry: _replay_from_cache is handed off.  Entries outlive
\* the process: one may be longer than the capture limit of today.
LookupHit(r) ==
    /\ req[r].pc = "lookup"
    /\ \E n \in 1..ResponseBound[r] :
         req' = [req EXCEPT ![r].pc = "handed", ![r].source = "cache", ![r].total = n]
    /\ UNCHANGED <<inflight, captures>>

\* The upstream answered with its headers: _stream_and_capture is handed off.
SendOk(r) ==
    /\ req[r].pc = "sending"
    /\ \E n \in 0..ResponseBound[r], s \in {"ok", "upstream_error"} :
         req' = [req EXCEPT ![r].pc = "handed", ![r].source = "upstream",
                            ![r].total = n, ![r].status = s]
    /\ UNCHANGED <<inflight, captures>>

\* Mutant: handle releases its permit only when the upstream failed.
EarlyExitKeepsPermit(r) ==
    /\ req[r].pc \in {"reading", "lookup", "sending"}
    /\ req' = [req EXCEPT ![r] = At("failed")]
    /\ inflight' = IF req[r].pc = "sending" THEN inflight - 1 ELSE inflight
    /\ UNCHANGED captures

\* handle raises before the hand-off and its finally releases the permit: an
\* oversized body (413), a client gone while it sends, an upstream that times
\* out (504) or cannot be reached (502), a cancellation at any await.
EarlyExit(r) ==
    /\ req[r].pc \in {"reading", "lookup", "sending"}
    /\ req' = [req EXCEPT ![r] = At("failed")]
    /\ inflight' = inflight - 1
    /\ UNCHANGED captures

----------------------------------------------------------------------------
(* The ASGI server and the generators *)

\* The server's send of the response head was cancelled or raised, so that the
\* generator is never iterated: its finally does not run, now or later.
StartFails(r) ==
    /\ req[r].pc = "handed"
    /\ Goto(r, "unstarted")
    /\ UNCHANGED <<inflight, captures>>

\* The first iteration.  A replay observes and yields the whole entry.
StartStream(r) ==
    /\ req[r].pc = "handed"
    /\ req' = [req EXCEPT ![r] =
         IF @.source = "upstream"
         THEN [@ EXCEPT !.pc = "streaming"]
         ELSE [Observe(@, @.total) EXCEPT !.pc = "yielded"]]
    /\ UNCHANGED <<inflight, captures>>

\* tee_stream got a chunk: it is observed, then yielded to the client.
Chunk(r) ==
    /\ req[r].pc = "streaming"
    /\ \E n \in 1..(req[r].total - req[r].seen) :
         req' = [req EXCEPT ![r] = [Observe(@, n) EXCEPT !.pc = "yielded"]]
    /\ UNCHANGED <<inflight, captures>>

\* The send of a chunk returned: the relay asks the upstream for the next one.
ChunkSent(r) ==
    /\ req[r].pc = "yielded"
    /\ req[r].source = "upstream"
    /\ req' = [req EXCEPT ![r].pc = "streaming", ![r].sent = req[r].seen]
    /\ UNCHANGED <<inflight, captures>>

\* The upstream ended the body as announced.
StreamEnds(r) ==
    /\ req[r].pc = "streaming"
    /\ req[r].seen = req[r].total
    /\ req' = [req EXCEPT ![r].pc = "closing", ![r].completed = TRUE]
    /\ UNCHANGED <<inflight, captures>>

\* Mutant: the failure is submitted at once, and again by the finally.
StreamBreaksSubmits(r) ==
    /\ req[r].pc = "streaming"
    /\ req' = [req EXCEPT ![r].pc = "closing", ![r].status = "upstream_error"]
    /\ captures' = [captures EXCEPT ![r] = Append(@,
            [source |-> "upstream", status |-> "upstream_error", cut |-> req[r].cut,
             whole |-> FALSE, delivered |-> FALSE])]
    /\ UNCHANGED inflight

\* The upstream broke off, an httpx.HTTPError: the stream ends as if complete.
StreamBreaks(r) ==
    /\ req[r].pc = "streaming"
    /\ req' = [req EXCEPT ![r].pc = "closing", ![r].status = "upstream_error"]
    /\ UNCHANGED <<inflight, captures>>

\* The client left while the generator awaited the upstream: the cancellation
\* is raised there and runs its finally.
CancelledAtUpstream(r) ==
    /\ req[r].pc = "streaming"
    /\ Goto(r, "closing")
    /\ UNCHANGED <<inflight, captures>>

\* The client left while the server sent a chunk: the cancellation hits the
\* server's send and leaves the generator suspended at its yield.
CancelledAtClient(r) ==
    /\ req[r].pc = "yielded"
    /\ Goto(r, "orphaned")
    /\ UNCHANGED <<inflight, captures>>

\* aclose() returned: the rest of _stream_and_capture's finally.
Close(r) ==
    /\ req[r].pc = "closing"
    /\ Finish(r, req[r].sent)

\* The send of the entry returned: _replay_and_capture ends.
ReplaySent(r) ==
    /\ req[r].pc = "yielded"
    /\ req[r].source = "cache"
    /\ Finish(r, req[r].seen)

\* The event loop finalizes a generator nobody iterates any more: GeneratorExit
\* at the yield runs its finally.
FinalizeUpstream(r) ==
    /\ req[r].pc = "orphaned"
    /\ req[r].source = "upstream"
    /\ Goto(r, "closing")
    /\ UNCHANGED <<inflight, captures>>

FinalizeReplay(r) ==
    /\ req[r].pc = "orphaned"
    /\ req[r].source = "cache"
    /\ Finish(r, req[r].sent)

----------------------------------------------------------------------------
Init ==
    /\ inflight = 0
    /\ req = [r \in Requests |-> At("idle")]
    /\ captures = [r \in Requests |-> <<>>]

Arrive(r) == Refuse(r) \/ Overloaded(r) \/ Admit(r)

Handle(r) ==
    \/ ReadBody(r) \/ BodyRead(r) \/ LookupMiss(r) \/ LookupHit(r)
    \/ SendOk(r) \/ EarlyExit(r)

Generate(r) ==
    \/ StartFails(r) \/ StartStream(r) \/ Chunk(r) \/ ChunkSent(r)
    \/ StreamEnds(r) \/ StreamBreaks(r)
    \/ CancelledAtUpstream(r) \/ CancelledAtClient(r)
    \/ Close(r) \/ ReplaySent(r) \/ FinalizeUpstream(r) \/ FinalizeReplay(r)

Next == \E r \in Requests : Arrive(r) \/ Handle(r) \/ Generate(r)

Spec == Init /\ [][Next]_vars

\* Every await ends: the upstream's by httpx's timeouts, the cache's by its
\* lookup timeout, the client's when it sends, reads or leaves.
FairSpec == Spec /\ \A r \in Requests : WF_vars(Handle(r)) /\ WF_vars(Generate(r))

----------------------------------------------------------------------------
(* Safety *)

\* relay.py:122-125, 191-192: a permit is released once for each acquired, so
\* the counter is the number of requests that still own one, whatever mix of
\* early exits, completions, disconnects and late finalizers has run.
PermitsConserved == inflight = Cardinality(Holders)

\* config.py:133-136: the bodies and captures of the requests in flight never
\* take more than max_concurrent * (max_request + max_capture) bytes together.
MemoryBounded == Cardinality(Buffered) <= MaxConcurrent * (MaxBody + MaxCapture)

\* relay.py:261-276, 317-326: a request reaches telemetry at most once, exactly
\* when its generator ran to its end, and never when handle failed.
OneCapturePerResponse ==
    \A r \in Requests : Len(captures[r]) = (IF req[r].pc = "done" THEN 1 ELSE 0)

\* relay.py:252-264: a relayed response is reported "ok" only if the client was
\* sent every byte of it.
StatusTruthful ==
    \A r \in Requests : \A i \in 1..Len(captures[r]) :
        LET c == captures[r][i] IN
        c.source = "upstream" /\ c.status = "ok" => c.delivered

\* capture.py:118-130: an untruncated capture holds all the relay took from its
\* source; with status "ok" that is the whole response body.
UncutCaptureIsWhole ==
    \A r \in Requests : \A i \in 1..Len(captures[r]) :
        LET c == captures[r][i] IN
        c.status = "ok" /\ ~c.cut => c.whole

----------------------------------------------------------------------------
(* Liveness *)

\* A request that took a permit gives it back, unless its generator was never
\* started (relay.py:240-276).
PermitReturnedOnceStarted ==
    \A r \in Requests :
        req[r].pc = "reading" ~> req[r].pc \in Over \cup {"unstarted"}

\* relay.py:122-125 "The permit is released exactly once: by the streaming
\* generator if we hand off a response".
PermitReturned ==
    \A r \in Requests : req[r].pc = "reading" ~> req[r].pc \in Over
=============================================================================
