------------------------------- MODULE Search -------------------------------
(***************************************************************************)
(* The two users of the embedder that share it, and its breaker: the       *)
(* EmbedStage of each telemetry worker, and the searches of the admin API  *)
(* (POST /admin/search).  A search embeds its query, runs $rankFusion in   *)
(* hybrid mode, and falls back to $vectorSearch when the server refuses.   *)
(*                                                                         *)
(* The collection is older than the process and read only here: Docs is    *)
(* what it may hold, and an index may lag behind it, so that a stage       *)
(* finds any of the documents it could find.  Scores and ranks are the     *)
(* server's.                                                               *)
(***************************************************************************)
EXTENDS Embedder

CONSTANTS
    Workers,        \* the telemetry workers
    Searchers,      \* requests to /admin/search under way
    Docs,           \* the documents of the collection
    Doc,            \* their fields
    Fields,         \* the filter fields: project_id, session_id, ...
    Batches,        \* sequences of documents a worker may flush
    Requests,       \* search requests: query, mode, filter
    K               \* k

ASSUME SearchAssumption ==
    /\ Callers = Workers \cup Searchers
    /\ Workers \cap Searchers = {}
    /\ Batches \subseteq Seq(Docs) \ {<<>>}
    /\ \A d \in Docs :
         {Doc[d].reasoning, Doc[d].content, Doc[d].messages, Doc[d].contents, Doc[d].prompt}
             \subseteq Texts \cup {Blank}
    /\ \A q \in Requests : q.mode \in {"hybrid", "vector"} /\ q.query \in Texts \cup {Blank}
    /\ K \in Nat \ {0}

VARIABLES
    enabled,        \* an embedder is configured: dims > 0
    stage,          \* where a search is
    request,        \* what it asks for
    answer,         \* what it was answered last
    dead            \* workers whose task has ended

searchVars == <<enabled, stage, request, answer, dead>>
allVars == <<vars, embedVars, searchVars>>

NoAnswer == [outcome |-> "none", mode |-> "none", hits |-> {}]

SearchTypeOK ==
    /\ TypeOK
    /\ EmbedTypeOK
    /\ enabled \in BOOLEAN
    /\ stage \in [Searchers -> {"idle", "embedding", "hybrid", "vector"}]
    /\ request \in [Searchers -> Requests]
    /\ answer \in [Searchers ->
         [outcome : {"none", "unavailable", "error", "hits"},
          mode : {"none", "hybrid", "vector"},
          hits : SUBSET Docs]]
    /\ dead \subseteq Workers

----------------------------------------------------------------------------
(* What is embedded of a document *)

\* The first of several texts that is not blank, or Blank.
FirstText(t) ==
    IF Filled(t) = {} THEN Blank
    ELSE t[CHOOSE i \in Filled(t) : \A j \in Filled(t) : i <= j]

\* _prompt_from_payload: chat messages, Gemini contents, a plain prompt.
Prompt == [d \in Docs |-> FirstText(<<Doc[d].messages, Doc[d].contents, Doc[d].prompt>>)]

\* embedding_text: the reasoning, else the answer, else the prompt.
EmbeddingText ==
    [d \in Docs |-> FirstText(<<Doc[d].reasoning, Doc[d].content, Prompt[d]>>)]

----------------------------------------------------------------------------
(* What the server may return *)

\* The filter of _build_filter: a field that is not given filters nothing.
Matches(d, f) == \A x \in Fields : f[x] # None => Doc[d].meta[x] = f[x]

\* $vectorSearch with its filter: documents with a vector, at most k.
VectorLeg(f) ==
    {H \in SUBSET {d \in Docs : EmbeddingText[d] # Blank /\ Matches(d, f)} :
        Cardinality(H) <= K}

\* $search over the plaintext metadata, then $limit: it has no filter.
TextLeg == {H \in SUBSET Docs : Cardinality(H) <= K}

\* $rankFusion of both legs, then $limit.
Fusion(f) ==
    {H \in SUBSET Docs : Cardinality(H) <= K
        /\ \E V \in VectorLeg(f), T \in TextLeg : H \subseteq V \cup T}

----------------------------------------------------------------------------
(* The telemetry workers *)

\* EmbedStage.process passes the texts of its records to the embedder.
StartBatch(w) ==
    /\ enabled
    /\ w \notin dead
    /\ \E b \in Batches : Begin(w, [i \in 1..Len(b) |-> EmbeddingText[b[i]]])
    /\ UNCHANGED searchVars

\* The vectors are zipped with the records, and the batch goes to the writer.
EndBatch(w) ==
    /\ Return(w)
    /\ UNCHANGED searchVars

\* The call is cancelled, or raises something else: the batch is lost and the
\* worker ends with it.
BatchRaises(w) ==
    /\ WindowRaises(w)
    /\ dead' = dead \cup {w}
    /\ UNCHANGED <<enabled, stage, request, answer>>

\* The worker ends between two batches: another stage raised, or stop().
WorkerEnds(w) ==
    /\ w \notin dead
    /\ texts[w] = <<>>
    /\ dead' = dead \cup {w}
    /\ UNCHANGED <<enabled, stage, request, answer>>
    /\ UNCHANGED <<vars, embedVars>>

----------------------------------------------------------------------------
(* Searches *)

Respond(s, r) ==
    /\ stage' = [stage EXCEPT ![s] = "idle"]
    /\ answer' = [answer EXCEPT ![s] = r]
    /\ UNCHANGED <<enabled, request, dead>>

Unavailable == [NoAnswer EXCEPT !.outcome = "unavailable"]
Failed == [NoAnswer EXCEPT !.outcome = "error"]
Found(mode, H) == [outcome |-> "hits", mode |-> mode, hits |-> H]

\* No search service without an embedder, no search for a blank query.
RefuseSearch(s) ==
    /\ stage[s] = "idle"
    /\ \E q \in Requests :
         /\ ~enabled \/ q.query = Blank
         /\ request' = [request EXCEPT ![s] = q]
    /\ answer' = [answer EXCEPT ![s] = Unavailable]
    /\ UNCHANGED <<enabled, stage, dead>>
    /\ UNCHANGED <<vars, embedVars>>

\* embed_query of the query.
StartSearch(s) ==
    /\ stage[s] = "idle"
    /\ enabled
    /\ \E q \in Requests :
         /\ q.query # Blank
         /\ Begin(s, <<q.query>>)
         /\ request' = [request EXCEPT ![s] = q]
    /\ stage' = [stage EXCEPT ![s] = "embedding"]
    /\ answer' = [answer EXCEPT ![s] = NoAnswer]
    /\ UNCHANGED <<enabled, dead>>

\* The query has a vector: the aggregation of its mode is run.
QueryEmbedded(s) ==
    /\ stage[s] = "embedding"
    /\ out[s][1] # None
    /\ Return(s)
    /\ stage' = [stage EXCEPT ![s] = request[s].mode]
    /\ UNCHANGED <<enabled, request, answer, dead>>

\* It has none: 503.
QueryNotEmbedded(s) ==
    /\ stage[s] = "embedding"
    /\ out[s][1] = None
    /\ Return(s)
    /\ Respond(s, Unavailable)

\* embed_query raises: the request fails as any other error makes it fail.
SearchRaises(s) ==
    /\ stage[s] = "embedding"
    /\ WindowRaises(s)
    /\ Respond(s, Failed)

HybridFound(s) ==
    /\ stage[s] = "hybrid"
    /\ \E H \in Fusion(request[s].filter) : Respond(s, Found("hybrid", H))
    /\ UNCHANGED <<vars, embedVars>>

\* An OperationFailure: the server has no $rankFusion, or no full-text index.
FallBack(s) ==
    /\ stage[s] = "hybrid"
    /\ stage' = [stage EXCEPT ![s] = "vector"]
    /\ UNCHANGED <<enabled, request, answer, dead>>
    /\ UNCHANGED <<vars, embedVars>>

\* Mutant: the fallback runs without the filter.
VectorFoundUnfiltered(s) ==
    /\ stage[s] = "vector"
    /\ \E H \in VectorLeg(IF request[s].mode = "hybrid"
                          THEN [x \in Fields |-> None] ELSE request[s].filter) :
         Respond(s, Found("vector", H))
    /\ UNCHANGED <<vars, embedVars>>

VectorFound(s) ==
    /\ stage[s] = "vector"
    /\ \E H \in VectorLeg(request[s].filter) : Respond(s, Found("vector", H))
    /\ UNCHANGED <<vars, embedVars>>

\* Any other error of the hybrid aggregation, any error of the vector one.
QueryFails(s) ==
    /\ stage[s] \in {"hybrid", "vector"}
    /\ Respond(s, Failed)
    /\ UNCHANGED <<vars, embedVars>>

----------------------------------------------------------------------------
SearchInit ==
    /\ EmbedInit
    /\ enabled \in BOOLEAN
    /\ stage = [s \in Searchers |-> "idle"]
    /\ request \in [Searchers -> Requests]
    /\ answer = [s \in Searchers |-> NoAnswer]
    /\ dead = {}

Embed(c) == Embedding(c) /\ UNCHANGED searchVars

Work(w) == StartBatch(w) \/ Embed(w) \/ EndBatch(w)

\* `blackbox-ai search` takes the same steps, with a breaker of its own.
Serve(s) ==
    \/ RefuseSearch(s) \/ StartSearch(s) \/ Embed(s)
    \/ QueryEmbedded(s) \/ QueryNotEmbedded(s)
    \/ HybridFound(s) \/ FallBack(s) \/ VectorFound(s) \/ QueryFails(s)

SearchNext ==
    \/ Surroundings /\ UNCHANGED searchVars
    \/ \E w \in Workers : Work(w) \/ BatchRaises(w) \/ WorkerEnds(w)
    \/ \E s \in Searchers : Serve(s) \/ SearchRaises(s)

SearchSpec == SearchInit /\ [][SearchNext]_allVars

\* Time passes, every call ends by its timeout, and batches with something to
\* embed keep arriving for a worker that lives.
FairSearchSpec ==
    /\ SearchSpec
    /\ WF_allVars(Tick /\ UNCHANGED <<embedVars, searchVars>>)
    /\ \A w \in Workers : WF_allVars(Work(w))
    /\ \A s \in Searchers : WF_allVars(Embed(s))

----------------------------------------------------------------------------
(* Properties *)

InScope(s) == \A d \in answer[s].hits : Matches(d, request[s].filter)

\* search.py:139-168: the hits of a vector search, and of one that fell back to
\* it, all pass the filter and have something the query was compared with.
VectorHitsInScope ==
    \A s \in Searchers : answer[s].mode = "vector" =>
        InScope(s) /\ \A d \in answer[s].hits : EmbeddingText[d] # Blank

\* embeddings.py:144-157, search.py:112-119: while the backend answers, overlap
\* of workers and searches makes nobody miss a vector: every text of every batch
\* is embedded, and no query is refused for want of one. (A call that is cancelled
\* or raises has nothing to return: its batch is lost, its search is an error.)
NothingMissedWhileUp ==
    []up => [](/\ AllEmbedded
               /\ \A s \in Searchers :
                    answer[s].outcome = "unavailable" => ~enabled \/ request[s].query = Blank)

\* embeddings.py:38-41, 57-61: a backend that stays up is used again: the late
\* outcomes of overlapping calls do not keep the breaker open, nor does a trial
\* that was cancelled - as long as one worker lives to try again.
Recovers == <>[]up => <>[](failures = 0) \/ <>[](dead = Workers)

\* cli.py:61 "Filter by X-Project-ID.", search.py:84 "Runs vector and hybrid
\* search with optional metadata pre-filters": hits of any mode pass the filter.
HitsInScope == \A s \in Searchers : InScope(s)
=============================================================================
