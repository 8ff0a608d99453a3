------------------------------- MODULE Replay -------------------------------
(***************************************************************************)
(* What becomes of a request after it was answered: it was given an id by  *)
(* the context middleware, its capture becomes a document, the document is *)
(* exported by its id, and the curl command of the export sends a new      *)
(* request through the gateway.                                            *)
(*                                                                         *)
(* Documents are never changed or removed by the program, so an export and *)
(* the re-issue made from it are one step: an export of an unknown id      *)
(* (404) and one that is not re-issued change nothing.  A client may name  *)
(* its request; the id generated for another one is named by the request.  *)
(***************************************************************************)
EXTENDS ResponseCache

CONSTANTS
    GivenIds,       \* ids clients send in X-Request-ID
    None,           \* no payload, no re-issue
    Empty           \* the body of a request without one

ASSUME ReplayAssumption ==
    /\ Empty \in Contents
    /\ None \notin [content : Contents, stream : {"yes", "no", "unset"}]

VARIABLES
    id,             \* the request_id of each request
    documents,      \* the requests whose capture is in the collection
    from            \* the id of the export a request was re-issued from

replayVars == <<id, documents, from>>
allVars == <<vars, replayVars>>

Ids == GivenIds \cup Requests

ReplayTypeOK ==
    /\ TypeOK
    /\ id \in [Requests -> Ids]
    /\ documents \subseteq Requests
    /\ from \in [Requests -> Ids \cup {None}]
    /\ \A r \in documents : pc[r] \in {"answered", "putting", "over"}

----------------------------------------------------------------------------
(* The export *)

\* safe_json of the request body: a JSON object, or nothing.
Payload(a) == IF a.object THEN [content |-> a.content, stream |-> a.stream] ELSE None

\* The fields of the document that ReplayService.fetch projects.
Artifact(r) ==
    [provider |-> ask[r].provider, method |-> ask[r].method, path |-> ask[r].path,
     payload |-> Payload(ask[r])]

\* find_one by the id: any of the documents that have it.
Fetched(i) == {Artifact(r) : r \in {o \in documents : id[o] = i}}

\* Mutant: the opt-in header is sent along.
CurlOptsIn(x) ==
    [provider |-> x.provider, method |-> x.method, path |-> x.path,
     object |-> x.payload # None,
     content |-> IF x.payload = None THEN Empty ELSE x.payload.content,
     stream |-> IF x.payload = None THEN "unset" ELSE x.payload.stream,
     header |-> "on", alt |-> FALSE]

\* Mutant: the wire format is set to that of a plain document.
CurlUnstreamed(x) ==
    [provider |-> x.provider, method |-> x.method, path |-> x.path,
     object |-> x.payload # None,
     content |-> IF x.payload = None THEN Empty ELSE x.payload.content,
     stream |-> "no", header |-> "none", alt |-> FALSE]

\* as_curl: the path of the gateway, the grouping headers and the payload; no
\* query string, no opt-in, and no body when there is no payload.
Curl(x) ==
    [provider |-> x.provider, method |-> x.method, path |-> x.path,
     object |-> x.payload # None,
     content |-> IF x.payload = None THEN Empty ELSE x.payload.content,
     stream |-> IF x.payload = None THEN "unset" ELSE x.payload.stream,
     header |-> "none", alt |-> FALSE]

----------------------------------------------------------------------------
ReplayInit ==
    /\ Init
    /\ id = [r \in Requests |-> r]
    /\ documents = {}
    /\ from = [r \in Requests |-> None]

\* A request of a client's own passes the middleware and the route.
Arrive(r) ==
    /\ \E a \in Asks : Bypass(r, a) \/ Lookup(r, a)
    /\ \E i \in GivenIds \cup {r} : id' = [id EXCEPT ![r] = i]
    /\ UNCHANGED <<documents, from>>

\* Somebody runs the curl command of an export.
Reissue(r) ==
    /\ \E i \in Ids : \E x \in Fetched(i) :
         /\ Bypass(r, Curl(x)) \/ Lookup(r, Curl(x))
         /\ from' = [from EXCEPT ![r] = i]
    /\ UNCHANGED <<id, documents>>

\* A worker writes the document of a response, or of a replay.
Persist(r) ==
    /\ r \notin documents
    /\ pc[r] = "answered" \/ \E p \in replays : p.to = r
    /\ documents' = documents \cup {r}
    /\ UNCHANGED <<id, from>>
    /\ UNCHANGED vars

\* CacheWriteStage only looks at persisted records.
PutPersisted(r) ==
    /\ r \in documents
    /\ Put(r)
    /\ UNCHANGED replayVars

\* The steps of the cache and of the upstream.
Serve(r) ==
    /\ Hit(r) \/ Miss(r) \/ Answer(r) \/ Inserted(r) \/ NotCached(r)
    /\ UNCHANGED replayVars

ReplayNext ==
    \/ (Tick \/ Purge) /\ UNCHANGED replayVars
    \/ \E r \in Requests :
         Arrive(r) \/ Reissue(r) \/ Persist(r) \/ PutPersisted(r) \/ Serve(r)

ReplaySpec == ReplayInit /\ [][ReplayNext]_allVars

----------------------------------------------------------------------------
(* Properties *)

\* README.md:431-432 "the exact provider, path, and verbatim (decrypted) request
\* body", as far as it is true: a re-issued request has the cache key and the
\* wire format of an interaction captured under the id it was exported by, if
\* the body of that one was a JSON object.  Clients may share ids.
ReissueAsksTheSame ==
    \A r \in Requests : from[r] # None =>
        \E o \in documents :
            /\ id[o] = from[r]
            /\ ask[o].object => /\ Key(ask[r]) = Key(ask[o])
                               /\ WantsStream(ask[r]) = WantsStream(ask[o])

\* replay.py:16-18 "The *response* of any re-issue is a fresh generation": it is
\* not answered by the cache, unless the cache is on by default.
ReissueIsFresh ==
    ~DefaultOn => \A p \in replays : from[p.to] = None
=============================================================================
