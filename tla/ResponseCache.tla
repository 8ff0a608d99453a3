--------------------------- MODULE ResponseCache ---------------------------
(***************************************************************************)
(* The opt-in response cache: CacheGate resolves the identity of a request *)
(* and looks it up within a timeout, CacheStore finds the newest entry     *)
(* that has not expired, and the telemetry workers insert an entry for a   *)
(* response long after the relay streamed it.                              *)
(*                                                                         *)
(* An identity is a content key and a wire format.  The key covers the     *)
(* provider, the method, the path and the body without its stream flag; it *)
(* leaves out the query string and the headers.  The lookup infers the     *)
(* format from the request, the insertion from the upstream's response.    *)
(* The collection and its TTL index are MongoDB's; time is a discrete      *)
(* clock.                                                                  *)
(***************************************************************************)
EXTENDS Integers, FiniteSets

CONSTANTS
    Requests,       \* the requests that reach the relay
    Asks,           \* what a request may ask: see AskType
    Providers,      \* the routes
    Paths,          \* upstream paths, without their leading slashes
    StreamPaths,    \* those that name Gemini's streamGenerateContent
    StreamsByDefault,   \* routes whose upstream streams unless stream is false: Ollama
    Contents,       \* request bodies, without their stream flag
    DefaultOn,      \* cache_default_on: what a request without the header opts for
    NoAsk,          \* what a request asks that has not arrived
    Ttl,            \* cache_ttl_s
    LookupTimeout,  \* cache_lookup_timeout_s
    MaxTime         \* bound: where the clock of the model stops

\* A request, as far as the gate and the upstream tell requests apart: whether
\* its body is a JSON object and how it sets stream, its opt-in header, and
\* whether its query string asks Gemini for SSE.
AskType == [provider : Providers, method : {"POST", "GET"}, path : Paths,
            content : Contents, object : BOOLEAN, stream : {"yes", "no", "unset"},
            header : {"on", "off", "none"}, alt : BOOLEAN]

ASSUME CacheAssumption ==
    /\ Ttl \in Nat \ {0}
    /\ LookupTimeout \in Nat
    /\ MaxTime \in Nat
    /\ DefaultOn \in BOOLEAN
    /\ StreamPaths \subseteq Paths
    /\ StreamsByDefault \subseteq Providers
    /\ Asks \subseteq AskType
    /\ NoAsk \notin AskType

VARIABLES
    now,            \* the clock
    ask,            \* what each request asks, once it has arrived
    pc,             \* how far a request and then its capture have come
    since,          \* when a lookup or put under way read its clock, 0 otherwise
    response,       \* what the upstream answered, until its capture is dropped
    entries,        \* the documents of the cache collection
    replays         \* the entries replayed, to whom and when

vars == <<now, ask, pc, since, response, entries, replays>>

Pcs == {"idle", "finding", "asking", "answered", "putting", "over"}

\* "whole": 2xx, completed, not truncated and not empty; "partial": anything
\* else the relay may have streamed.
Responses == [outcome : {"none", "whole", "partial"}, streams : BOOLEAN, chunked : BOOLEAN]

NoResponse == [outcome |-> "none", streams |-> FALSE, chunked |-> FALSE]
Partial == [NoResponse EXCEPT !.outcome = "partial"]

Keys == [provider : Providers, method : {"POST", "GET"}, path : Paths, content : Contents]

Entries == [origin : Requests, key : Keys, streamed : BOOLEAN, created : 0..MaxTime]

TypeOK ==
    /\ now \in 0..MaxTime
    /\ ask \in [Requests -> AskType \cup {NoAsk}]
    /\ \A r \in Requests : pc[r] # "idle" => ask[r] # NoAsk
    /\ pc \in [Requests -> Pcs]
    /\ since \in [Requests -> 0..MaxTime]
    /\ response \in [Requests -> Responses]
    /\ entries \subseteq Entries
    /\ replays \subseteq [to : Requests, entry : Entries, at : 0..MaxTime]

----------------------------------------------------------------------------
(* Helpers *)

\* canonical_request_key: every field of the body but stream, none of the query.
Key(a) == [provider |-> a.provider, method |-> a.method, path |-> a.path,
           content |-> a.content]

\* _wants_stream: the path says so, or the body does; a flag that is not set
\* counts as false.
WantsStream(a) == a.path \in StreamPaths \/ (a.object /\ a.stream = "yes")

\* _opted_in: an explicit header wins over the default.
OptedIn(a) == a.header = "on" \/ (a.header = "none" /\ DefaultOn)

\* identity_for is not None.
Identified(a) == a.method = "POST" /\ OptedIn(a) /\ a.object

Expiry(e) == e.created + Ttl

\* Mutant: the query does not ask for the format.
MatchesKeyOnly(r, e) == e.key = Key(ask[r]) /\ Expiry(e) > since[r]

\* Mutant: the query leaves the expiry to MongoDB's TTL monitor.
MatchesExpired(r, e) == e.key = Key(ask[r]) /\ e.streamed = WantsStream(ask[r])

\* CacheStore.lookup's query.
Matches(r, e) ==
    /\ e.key = Key(ask[r])
    /\ e.streamed = WantsStream(ask[r])
    /\ Expiry(e) > since[r]

Newest(S) == {e \in S : \A f \in S : f.created <= e.created}

\* _is_streaming_response: by the content type or by the transfer encoding.
Observed(a) == a.streams \/ a.chunked

\* Mutant: whatever an opted-in request got is cached.
CacheableWhenOpted(r) == Identified(ask[r])

\* _cacheable_identity gives an identity.
CacheableResponse(r) == Identified(ask[r]) /\ response[r].outcome = "whole"

\* The client said nothing of the format to an upstream that then streams.
StreamsUnasked(a) == a.object /\ a.stream = "unset" /\ a.provider \in StreamsByDefault

\* Whether the upstream answers in a streaming format (SSE, NDJSON).  Gemini
\* streams a JSON array unless the query asks for SSE, the others follow the
\* stream flag, and Ollama streams when there is none.
AnswersStream(a) ==
    IF a.path \in StreamPaths THEN a.alt
    ELSE a.object /\ (a.stream = "yes" \/ StreamsUnasked(a))

----------------------------------------------------------------------------
Init ==
    /\ now = 0
    /\ ask = [r \in Requests |-> NoAsk]
    /\ pc = [r \in Requests |-> "idle"]
    /\ since = [r \in Requests |-> 0]
    /\ response = [r \in Requests |-> NoResponse]
    /\ entries = {}
    /\ replays = {}

\* The clock.  wait_for ends a lookup that has taken LookupTimeout.
Tick ==
    /\ now < MaxTime
    /\ \A r \in Requests : pc[r] = "finding" => now - since[r] < LookupTimeout
    /\ now' = now + 1
    /\ UNCHANGED <<ask, pc, since, response, entries, replays>>

\* A request arrives and identity_for is None: the cache is not asked.
Bypass(r, a) ==
    /\ pc[r] = "idle"
    /\ ~Identified(a)
    /\ ask' = [ask EXCEPT ![r] = a]
    /\ pc' = [pc EXCEPT ![r] = "asking"]
    /\ UNCHANGED <<now, since, response, entries, replays>>

\* A request arrives with an identity: lookup reads its clock and sends the query.
Lookup(r, a) ==
    /\ pc[r] = "idle"
    /\ Identified(a)
    /\ ask' = [ask EXCEPT ![r] = a]
    /\ pc' = [pc EXCEPT ![r] = "finding"]
    /\ since' = [since EXCEPT ![r] = now]
    /\ UNCHANGED <<now, response, entries, replays>>

\* The query found an entry: it is replayed, and its capture is not cacheable.
Hit(r) ==
    /\ pc[r] = "finding"
    /\ \E e \in Newest({e \in entries : Matches(r, e)}) :
         replays' = replays \cup {[to |-> r, entry |-> e, at |-> now]}
    /\ pc' = [pc EXCEPT ![r] = "over"]
    /\ since' = [since EXCEPT ![r] = 0]
    /\ UNCHANGED <<now, ask, response, entries>>

\* The query found nothing, failed or timed out: fail-open to the upstream.
Miss(r) ==
    /\ pc[r] = "finding"
    /\ pc' = [pc EXCEPT ![r] = "asking"]
    /\ since' = [since EXCEPT ![r] = 0]
    /\ UNCHANGED <<now, ask, response, entries, replays>>

\* The upstream answers; whether it sends a document in chunks is its own affair.
\* Of an answer that is not whole nothing is looked at again.
Answer(r) ==
    /\ pc[r] = "asking"
    /\ \E a \in {Partial} \cup [outcome : {"whole"}, streams : {AnswersStream(ask[r])},
                               chunked : BOOLEAN] :
         response' = [response EXCEPT ![r] = a]
    /\ pc' = [pc EXCEPT ![r] = "answered"]
    /\ UNCHANGED <<now, ask, since, entries, replays>>

\* A worker's CacheWriteStage reaches the capture: put reads its clock.
Put(r) ==
    /\ pc[r] = "answered"
    /\ CacheableResponse(r)
    /\ pc' = [pc EXCEPT ![r] = "putting"]
    /\ since' = [since EXCEPT ![r] = now]
    /\ UNCHANGED <<now, ask, response, entries, replays>>

\* Mutant: the entry is stamped with the time it expires.
InsertedWithExpiry(r) ==
    /\ pc[r] = "putting"
    /\ entries' = entries \cup {[origin |-> r, key |-> Key(ask[r]),
            streamed |-> Observed(response[r]), created |-> since[r] + Ttl]}
    /\ pc' = [pc EXCEPT ![r] = "over"]
    /\ since' = [since EXCEPT ![r] = 0]
    /\ UNCHANGED <<now, ask, response, replays>>

\* insert_one took effect.
Inserted(r) ==
    /\ pc[r] = "putting"
    /\ entries' = entries \cup {[origin |-> r, key |-> Key(ask[r]),
            streamed |-> Observed(response[r]), created |-> since[r]]}
    /\ pc' = [pc EXCEPT ![r] = "over"]
    /\ since' = [since EXCEPT ![r] = 0]
    /\ UNCHANGED <<now, ask, response, replays>>

\* No entry comes of the capture: it is not cacheable, was dropped by the full
\* queue or lost with its batch, was not persisted, or the insert failed.
NotCached(r) ==
    /\ pc[r] \in {"answered", "putting"}
    /\ pc' = [pc EXCEPT ![r] = "over"]
    /\ since' = [since EXCEPT ![r] = 0]
    /\ response' = [response EXCEPT ![r] = NoResponse]
    /\ UNCHANGED <<now, ask, entries, replays>>

\* MongoDB's TTL monitor, which runs when it likes, removes what has expired.
Purge ==
    /\ \E e \in entries : Expiry(e) <= now
    /\ entries' = {e \in entries : Expiry(e) > now}
    /\ UNCHANGED <<now, ask, pc, since, response, replays>>

\* The steps, when what arrives is in S.
Steps(S) ==
    \/ Tick \/ Purge
    \/ \E r \in Requests :
         \/ \E a \in S : Bypass(r, a) \/ Lookup(r, a)
         \/ Hit(r) \/ Miss(r) \/ Answer(r)
         \/ Put(r) \/ Inserted(r) \/ NotCached(r)

Next == Steps(Asks)

Spec == Init /\ [][Next]_vars

----------------------------------------------------------------------------
(* Properties *)

\* stages.py:140-180, gate.py:59-69, keys.py:49-63: what a client is replayed is
\* the whole response the upstream gave to another opted-in request to the same
\* provider and path with the same body: never a truncated, failed or aborted
\* one, never a replay of a replay.
ReplaysAreWhole ==
    \A p \in replays : LET o == p.entry.origin IN
        /\ o # p.to
        /\ Identified(ask[o]) /\ Identified(ask[p.to])
        /\ Key(ask[o]) = Key(ask[p.to])
        /\ response[o].outcome = "whole"

\* ADR 0003 "A streaming request can never hit a non-streaming entry, or vice
\* versa", as far as it is true: the body replayed has the wire format the client
\* would have got, unless it is a document that came in chunks, the two requests
\* differ in their query string, or the client left the stream flag out and the
\* provider streams by default (gate.py:106-114 takes the flag for false).
FormatSafe ==
    \A p \in replays : LET o == p.entry.origin IN
        \/ response[o].streams = AnswersStream(ask[p.to])
        \/ response[o].chunked /\ ~response[o].streams
        \/ ask[o].alt # ask[p.to].alt
        \/ StreamsUnasked(ask[p.to])

\* store.py:64-75, gate.py:86-89: the query compares with the time the lookup
\* began, so a replay may begin after the expiry, but not by more than the
\* lookup timeout, whenever the TTL monitor runs.
StalenessBounded ==
    \A p \in replays : p.at < Expiry(p.entry) + LookupTimeout
=============================================================================
