----------------------------- MODULE Replay_proofs -----------------------------
(***************************************************************************)
(* First the cache alone, for any requests, TTL and lookup timeout: what   *)
(* it replays is a whole response to an equal request, hardly past its     *)
(* expiry, and in the right format but for the three exceptions FormatSafe *)
(* names.  The strengthening IInv says of each entry where it came from    *)
(* (EntriesOK): the response of a request that is over, and so will not    *)
(* change; of each request, what its stage implies (StagesOK); and of each *)
(* replay what tied the entry to the request (ReplaysOK).                  *)
(*                                                                         *)
(* Then the cache when requests are re-issued from exports, for any        *)
(* contents and ids: every step is one of the cache, whose invariant so    *)
(* holds here too, and a re-issue asks what the interaction asked, without *)
(* the cache.  RInv adds what a document and a re-issue keep from the      *)
(* moment they arrive: neither the request nor its id changes after that.  *)
(***************************************************************************)
EXTENDS Replay, TLAPS

----------------------------------------------------------------------------
(* The cache alone *)

Unanswered == {"idle", "finding", "asking"}

StagesOK ==
    \A r \in Requests :
        /\ pc[r] \in Unanswered => response[r] = NoResponse
        /\ pc[r] = "putting" => Identified(ask[r]) /\ response[r].outcome = "whole"
        /\ pc[r] = "finding" => /\ Identified(ask[r])
                                /\ since[r] <= now /\ now <= since[r] + LookupTimeout
        /\ response[r].outcome = "whole" => response[r].streams = AnswersStream(ask[r])

\* e is the response of its origin, which has nothing left to do.
ComesFrom(e, o) ==
    /\ pc[o] = "over"
    /\ Identified(ask[o])
    /\ Key(ask[o]) = e.key
    /\ response[o].outcome = "whole"
    /\ response[o].streams = AnswersStream(ask[o])
    /\ e.streamed = (response[o].streams \/ response[o].chunked)

EntriesOK == \A e \in entries : ComesFrom(e, e.origin)

ReplaysOK ==
    \A p \in replays :
        /\ ComesFrom(p.entry, p.entry.origin)
        /\ p.entry.origin # p.to
        /\ pc[p.to] = "over"
        /\ Identified(ask[p.to])
        /\ p.entry.key = Key(ask[p.to])
        /\ p.entry.streamed = WantsStream(ask[p.to])
        /\ p.at < Expiry(p.entry) + LookupTimeout

IInv == TypeOK /\ StagesOK /\ EntriesOK /\ ReplaysOK

\* A request whose pc is not "over" is the origin of nothing, and a step that
\* changes the response and stage of such requests only keeps every origin.
LEMMA OriginsKept ==
    ASSUME IInv,
           \A o \in Requests : pc[o] = "over" =>
               pc'[o] = "over" /\ ask'[o] = ask[o] /\ response'[o] = response[o]
    PROVE  /\ \A e \in entries : ComesFrom(e, e.origin)'
           /\ \A p \in replays : ComesFrom(p.entry, p.entry.origin)'
BY DEF IInv, TypeOK, Entries, EntriesOK, ReplaysOK, ComesFrom

\* The key of a request is a key, and the upstream's format a Boolean.
LEMMA KeyOfAsk == ASSUME NEW a \in AskType PROVE Key(a) \in Keys
BY CacheAssumption DEF Key, Keys, AskType

LEMMA FormatOfAnswer == ASSUME NEW a \in AskType PROVE AnswersStream(a) \in BOOLEAN
BY CacheAssumption DEF AnswersStream, StreamsUnasked, AskType

\* Initially nothing was asked, answered or stored.
LEMMA InitIInv == Init => IInv
BY CacheAssumption DEF Init, IInv, TypeOK, StagesOK, EntriesOK, ReplaysOK, Pcs,
    Responses, NoResponse, Unanswered

\* The types, which hold of what each step writes.
LEMMA TypeStep == TypeOK /\ [Steps(AskType)]_vars => TypeOK'
<1> SUFFICES ASSUME TypeOK, [Steps(AskType)]_vars PROVE TypeOK'
    OBVIOUS
<1> USE CacheAssumption DEF TypeOK, Pcs
<1>1. CASE Tick
    BY <1>1 DEF Tick
<1>2. CASE Purge
    BY <1>2 DEF Purge
<1>3. ASSUME NEW r \in Requests, NEW a \in AskType, Bypass(r, a) PROVE TypeOK'
    BY <1>3 DEF Bypass
<1>4. ASSUME NEW r \in Requests, NEW a \in AskType, Lookup(r, a) PROVE TypeOK'
    BY <1>4 DEF Lookup
<1>5. ASSUME NEW r \in Requests, Hit(r) PROVE TypeOK'
    <2>1. PICK e \in entries : replays' = replays \cup {[to |-> r, entry |-> e, at |-> now]}
        BY <1>5 DEF Hit, Newest
    <2>2. replays' \subseteq [to : Requests, entry : Entries, at : 0..MaxTime]
        BY <2>1
    <2> QED BY <1>5, <2>2 DEF Hit
<1>6. ASSUME NEW r \in Requests, Miss(r) PROVE TypeOK'
    BY <1>6 DEF Miss
<1>7. ASSUME NEW r \in Requests, Answer(r) PROVE TypeOK'
    <2>1. PICK a \in {Partial} \cup [outcome : {"whole"}, streams : {AnswersStream(ask[r])},
                                     chunked : BOOLEAN] :
            response' = [response EXCEPT ![r] = a]
        BY <1>7 DEF Answer
    <2>2. ask[r] \in AskType
        BY <1>7 DEF Answer
    <2>4. a \in Responses
        BY <2>2, FormatOfAnswer DEF Responses, Partial, NoResponse
    <2>3. response' \in [Requests -> Responses]
        BY <2>1, <2>4
    <2> QED BY <1>7, <2>3 DEF Answer
<1>8. ASSUME NEW r \in Requests, Put(r) PROVE TypeOK'
    BY <1>8 DEF Put
<1>9. ASSUME NEW r \in Requests, Inserted(r) PROVE TypeOK'
    <2>1. Observed(response[r]) \in BOOLEAN
        BY DEF Observed, Responses
    <2>4. ask[r] \in AskType
        BY <1>9 DEF Inserted
    <2>2. [origin |-> r, key |-> Key(ask[r]), streamed |-> Observed(response[r]),
           created |-> since[r]] \in Entries
        BY <2>1, <2>4, KeyOfAsk DEF Entries
    <2>3. entries' \subseteq Entries
        BY <1>9, <2>2 DEF Inserted
    <2> QED BY <1>9, <2>3 DEF Inserted
<1>10. ASSUME NEW r \in Requests, NotCached(r) PROVE TypeOK'
    BY <1>10 DEF NotCached, Responses, NoResponse
<1>11. CASE UNCHANGED vars
    BY <1>11 DEF vars
<1> QED
    BY <1>1, <1>2, <1>3, <1>4, <1>5, <1>6, <1>7, <1>8, <1>9, <1>10, <1>11 DEF Steps

\* What a stage implies of its request is true when the request gets there, and
\* the clock does not leave a lookup behind.
LEMMA StagesStep == IInv /\ [Steps(AskType)]_vars => StagesOK'
<1> SUFFICES ASSUME IInv, [Steps(AskType)]_vars PROVE StagesOK'
    OBVIOUS
<1> USE CacheAssumption DEF IInv, TypeOK, StagesOK, Unanswered, Pcs
<1>1. CASE Tick
    BY <1>1 DEF Tick
<1>2. CASE Purge
    BY <1>2 DEF Purge
<1>3. ASSUME NEW r \in Requests, NEW a \in AskType, Bypass(r, a) PROVE StagesOK'
    BY <1>3 DEF Bypass, NoResponse
<1>4. ASSUME NEW r \in Requests, NEW a \in AskType, Lookup(r, a) PROVE StagesOK'
    BY <1>4 DEF Lookup, NoResponse
<1>5. ASSUME NEW r \in Requests, Hit(r) PROVE StagesOK'
    BY <1>5 DEF Hit
<1>6. ASSUME NEW r \in Requests, Miss(r) PROVE StagesOK'
    BY <1>6 DEF Miss
<1>7. ASSUME NEW r \in Requests, Answer(r) PROVE StagesOK'
    <2>1. PICK a \in {Partial} \cup [outcome : {"whole"}, streams : {AnswersStream(ask[r])},
                                     chunked : BOOLEAN] :
            response' = [response EXCEPT ![r] = a]
        BY <1>7 DEF Answer
    <2>2. a.outcome = "whole" => a.streams = AnswersStream(ask[r])
        BY DEF Partial, NoResponse
    <2> QED BY <1>7, <2>1, <2>2 DEF Answer
<1>8. ASSUME NEW r \in Requests, Put(r) PROVE StagesOK'
    BY <1>8 DEF Put, CacheableResponse
<1>9. ASSUME NEW r \in Requests, Inserted(r) PROVE StagesOK'
    BY <1>9 DEF Inserted
<1>10. ASSUME NEW r \in Requests, NotCached(r) PROVE StagesOK'
    BY <1>10 DEF NotCached, NoResponse
<1>11. CASE UNCHANGED vars
    BY <1>11 DEF vars
<1> QED
    BY <1>1, <1>2, <1>3, <1>4, <1>5, <1>6, <1>7, <1>8, <1>9, <1>10, <1>11 DEF Steps

\* Every step leaves requests that are over alone.
LEMMA OverStays ==
    ASSUME IInv, [Steps(AskType)]_vars
    PROVE  \A o \in Requests : pc[o] = "over" =>
               pc'[o] = "over" /\ ask'[o] = ask[o] /\ response'[o] = response[o]
BY DEF IInv, TypeOK, Steps, vars, Tick, Purge, Bypass, Lookup, Hit, Miss, Answer, Put,
    Inserted, NotCached

\* An entry is inserted with what its origin asked and got.
LEMMA EntriesStep == IInv /\ [Steps(AskType)]_vars => EntriesOK'
<1> SUFFICES ASSUME IInv, [Steps(AskType)]_vars PROVE EntriesOK'
    OBVIOUS
<1>1. \A e \in entries : ComesFrom(e, e.origin)'
    BY OriginsKept, OverStays
<1>2. ASSUME NEW r \in Requests, Inserted(r) PROVE EntriesOK'
    <2>1. PICK e : /\ e = [origin |-> r, key |-> Key(ask[r]),
                           streamed |-> Observed(response[r]), created |-> since[r]]
                   /\ entries' = entries \cup {e}
        BY <1>2 DEF Inserted
    <2>2. ComesFrom(e, e.origin)'
        BY <1>2, <2>1 DEF Inserted, IInv, TypeOK, StagesOK, ComesFrom, Observed
    <2> QED BY <1>1, <2>1, <2>2 DEF EntriesOK
<1>3. CASE entries' \subseteq entries
    BY <1>1, <1>3 DEF EntriesOK
<1>4. entries' \subseteq entries \/ \E r \in Requests : Inserted(r)
    BY DEF Steps, vars, Tick, Purge, Bypass, Lookup, Hit, Miss, Answer, Put, NotCached
<1> QED BY <1>2, <1>3, <1>4

\* A replay is of an entry the query matched, within the lookup timeout.
LEMMA ReplaysStep == IInv /\ [Steps(AskType)]_vars => ReplaysOK'
<1> SUFFICES ASSUME IInv, [Steps(AskType)]_vars PROVE ReplaysOK'
    OBVIOUS
<1>1. \A p \in replays : /\ ComesFrom(p.entry, p.entry.origin)'
                         /\ pc'[p.to] = "over" /\ ask'[p.to] = ask[p.to]
    BY OriginsKept, OverStays DEF IInv, TypeOK, ReplaysOK
<1>2. ASSUME NEW r \in Requests, Hit(r) PROVE ReplaysOK'
    <2>1. PICK e \in entries : Matches(r, e) /\ replays' = replays \cup
            {[to |-> r, entry |-> e, at |-> now]}
        BY <1>2 DEF Hit, Newest
    <2>2. e \in Entries /\ ComesFrom(e, e.origin) /\ ComesFrom(e, e.origin)'
        BY OriginsKept, OverStays DEF IInv, TypeOK, EntriesOK
    <2>3. e.origin # r
        BY <1>2, <2>2 DEF Hit, ComesFrom
    <2>4. now < Expiry(e) + LookupTimeout
        BY <1>2, <2>1, <2>2, CacheAssumption
            DEF Hit, Matches, Expiry, IInv, TypeOK, StagesOK, Entries
    <2>5. Identified(ask[r]) /\ e.key = Key(ask[r]) /\ e.streamed = WantsStream(ask[r])
        BY <1>2, <2>1 DEF Hit, Matches, IInv, StagesOK
    <2>8. ask' = ask /\ pc'[r] = "over"
        BY <1>2 DEF Hit, IInv, TypeOK
    <2>6. ASSUME NEW p \in replays', p \notin replays
          PROVE  p.to = r /\ p.entry = e /\ p.at = now
        BY <2>1, <2>6
    <2>7. ReplaysOK
        BY DEF IInv
    <2> QED BY <1>1, <2>2, <2>3, <2>4, <2>5, <2>6, <2>7, <2>8 DEF ReplaysOK, Expiry
<1>3. CASE replays' = replays
    BY <1>1, <1>3 DEF ReplaysOK, IInv, Expiry
<1>4. replays' = replays \/ \E r \in Requests : Hit(r)
    BY DEF Steps, vars, Tick, Purge, Bypass, Lookup, Miss, Answer, Put, Inserted, NotCached
<1> QED BY <1>2, <1>3, <1>4

\* In a state that satisfies IInv, the formats of a replay and of what its client
\* would have got differ only where FormatSafe says so.
LEMMA FormatOfReplays == IInv => FormatSafe
<1> SUFFICES ASSUME IInv, NEW p \in replays,
                    ~(response[p.entry.origin].chunked /\ ~response[p.entry.origin].streams),
                    ask[p.entry.origin].alt = ask[p.to].alt,
                    ~StreamsUnasked(ask[p.to])
             PROVE  response[p.entry.origin].streams = AnswersStream(ask[p.to])
    BY DEF FormatSafe
<1> DEFINE o == p.entry.origin
<1>1. p.to \in Requests /\ o \in Requests
    BY DEF IInv, TypeOK, Entries
<1>2. ComesFrom(p.entry, o) /\ p.entry.streamed = WantsStream(ask[p.to])
      /\ p.entry.key = Key(ask[p.to])
    BY DEF IInv, ReplaysOK
<1>3. ask[o].path = ask[p.to].path
    BY <1>2 DEF ComesFrom, Key
<1>4. response[o].streams \in BOOLEAN /\ response[o].chunked \in BOOLEAN
    BY <1>1 DEF IInv, TypeOK, Responses
<1>5. response[o].streams <=> WantsStream(ask[p.to])
    BY <1>2, <1>4 DEF ComesFrom
<1>6. response[o].streams = AnswersStream(ask[o])
    BY <1>2 DEF ComesFrom
<1>7. ask[p.to] \in AskType /\ ask[o] \in AskType
    BY <1>1, CacheAssumption DEF IInv, TypeOK, ReplaysOK, ComesFrom
<1>8. CASE ask[o].path \in StreamPaths
    BY <1>3, <1>6, <1>8 DEF AnswersStream
<1>9. CASE ask[o].path \notin StreamPaths
    BY <1>3, <1>4, <1>5, <1>7, <1>9 DEF AnswersStream, StreamsUnasked, WantsStream, AskType
<1> QED BY <1>8, <1>9

\* Whatever requests may ask, every step keeps IInv.
LEMMA IInvStep == IInv /\ [Steps(AskType)]_vars => IInv'
BY TypeStep, StagesStep, EntriesStep, ReplaysStep DEF IInv

\* IInv is an invariant of the cache.
THEOREM Invariance == Spec => []IInv
<1>1. [Next]_vars => [Steps(AskType)]_vars
    BY CacheAssumption DEF Next, Steps
<1> QED BY InitIInv, IInvStep, <1>1, PTL DEF Spec

\* The state of the cache keeps its types; an entry is stamped with the time it
\* was written (store.py:91).
THEOREM TypeCorrect == Spec => []TypeOK
<1>1. IInv => TypeOK
    BY DEF IInv
<1> QED BY Invariance, <1>1, PTL

\* stages.py:140-180: no client is replayed anything but the whole response to
\* another opted-in request for the same content.
THEOREM ReplaysAreWholeHolds == Spec => []ReplaysAreWhole
<1>1. IInv => ReplaysAreWhole
    BY DEF IInv, ReplaysOK, ComesFrom, ReplaysAreWhole
<1> QED BY Invariance, <1>1, PTL

\* store.py:64-75, gate.py:86-89: no replay is later than the expiry of its entry
\* by the lookup timeout.
THEOREM StalenessBoundedHolds == Spec => []StalenessBounded
<1>1. IInv => StalenessBounded
    BY DEF IInv, ReplaysOK, StalenessBounded
<1> QED BY Invariance, <1>1, PTL

\* ADR 0003, gate.py:98-114, keys.py:49-63: format safety, but for a document
\* sent in chunks, for requests that differ in their query string, and for one
\* that leaves the stream flag out to a provider that streams by default.
THEOREM FormatSafeHolds == Spec => []FormatSafe
BY Invariance, FormatOfReplays, PTL

----------------------------------------------------------------------------
(* The cache and the exports *)

RInv ==
    /\ ReplayTypeOK
    /\ \A r \in Requests : from[r] # None => pc[r] # "idle" /\ ask[r].header = "none"
    /\ ReissueAsksTheSame

\* Every step of the composition is a step of the cache, with any request.
LEMMA CacheStep ==
    ASSUME IInv, RInv, [ReplayNext]_allVars PROVE [Steps(AskType)]_vars
<1>1. ASSUME NEW r \in Requests, NEW i \in Ids, NEW x \in Fetched(i) PROVE Curl(x) \in AskType
    <2>1. PICK o \in documents : x = Artifact(o)
        BY <1>1 DEF Fetched
    <2>2. ask[o] \in AskType
        BY DEF IInv, RInv, ReplayTypeOK, TypeOK
    <2>3. ask[o].content \in Contents /\ ask[o].stream \in {"yes", "no", "unset"}
        BY <2>2 DEF AskType
    <2> QED BY <2>1, <2>2, <2>3, ReplayAssumption DEF Curl, Artifact, Payload, AskType
<1>2. ASSUME NEW r \in Requests, Reissue(r) PROVE \E a \in AskType : Bypass(r, a) \/ Lookup(r, a)
    BY <1>1, <1>2 DEF Reissue
<1>3. ASSUME NEW r \in Requests, Arrive(r) PROVE \E a \in AskType : Bypass(r, a) \/ Lookup(r, a)
    BY <1>3, CacheAssumption DEF Arrive
<1>4. ASSUME NEW r \in Requests, Persist(r) PROVE UNCHANGED vars
    BY <1>4 DEF Persist
<1>5. ASSUME NEW r \in Requests, PutPersisted(r) \/ Serve(r)
      PROVE  Put(r) \/ Hit(r) \/ Miss(r) \/ Answer(r) \/ Inserted(r) \/ NotCached(r)
    BY <1>5 DEF PutPersisted, Serve
<1>6. ASSUME UNCHANGED allVars PROVE UNCHANGED vars
    BY <1>6 DEF allVars
<1> QED BY <1>2, <1>3, <1>4, <1>5, <1>6 DEF ReplayNext, Steps

\* A request that has arrived goes on asking the same under the same id.
LEMMA ArrivedStays ==
    ASSUME IInv, RInv, [ReplayNext]_allVars, NEW o \in Requests, pc[o] # "idle"
    PROVE  pc'[o] # "idle" /\ ask'[o] = ask[o] /\ id'[o] = id[o] /\ from'[o] = from[o]
<1> USE DEF IInv, RInv, TypeOK, ReplayTypeOK, Pcs
<1>1. pc'[o] # "idle" /\ ask'[o] = ask[o]
    BY CacheStep DEF Steps, vars, Tick, Purge, Bypass, Lookup, Hit, Miss, Answer, Put,
        Inserted, NotCached
<1>2. ASSUME NEW r \in Requests, Arrive(r) \/ Reissue(r)
      PROVE  id'[o] = id[o] /\ from'[o] = from[o]
    BY <1>2 DEF Arrive, Reissue, Bypass, Lookup
<1>3. ASSUME NEW r \in Requests, Persist(r) \/ PutPersisted(r) \/ Serve(r)
      PROVE  id' = id /\ from' = from
    BY <1>3 DEF Persist, PutPersisted, Serve, replayVars
<1>4. ASSUME UNCHANGED replayVars PROVE id' = id /\ from' = from
    BY <1>4 DEF replayVars
<1> QED BY <1>1, <1>2, <1>3, <1>4 DEF ReplayNext, allVars

\* A re-issue opts for nothing, and is keyed like the interaction it came from.
LEMMA CurlAsksTheSame ==
    ASSUME IInv, RInv, NEW o \in documents
    PROVE  /\ Curl(Artifact(o)).header = "none"
           /\ ask[o].object =>
                /\ Key(Curl(Artifact(o))) = Key(ask[o])
                /\ WantsStream(Curl(Artifact(o))) = WantsStream(ask[o])
<1>1. Curl(Artifact(o)).header = "none"
    BY DEF Curl
<1>2. ASSUME ask[o].object
      PROVE  /\ Key(Curl(Artifact(o))) = Key(ask[o])
             /\ WantsStream(Curl(Artifact(o))) = WantsStream(ask[o])
    <2>1. ask[o] \in AskType
        BY DEF IInv, RInv, ReplayTypeOK, TypeOK
    <2>2. /\ ask[o].content \in Contents /\ ask[o].stream \in {"yes", "no", "unset"}
          /\ ask[o].object \in BOOLEAN
        BY <2>1 DEF AskType
    <2>3. Artifact(o).payload = [content |-> ask[o].content, stream |-> ask[o].stream]
        BY <1>2 DEF Artifact, Payload
    <2>4. Artifact(o).payload # None
        BY <2>2, <2>3, ReplayAssumption
    <2>5. /\ Curl(Artifact(o)).content = ask[o].content
          /\ Curl(Artifact(o)).object
          /\ Curl(Artifact(o)).stream = ask[o].stream
        <3>1. /\ Artifact(o).payload.content = ask[o].content
              /\ Artifact(o).payload.stream = ask[o].stream
            BY <2>3
        <3>2. Curl(Artifact(o)).content = ask[o].content
            BY <2>4, <3>1 DEF Curl
        <3>3. Curl(Artifact(o)).object = (Artifact(o).payload # None)
            BY DEF Curl
        <3>4. Curl(Artifact(o)).stream =
                 IF Artifact(o).payload = None THEN "unset" ELSE Artifact(o).payload.stream
            BY DEF Curl
        <3>5. Curl(Artifact(o)).stream = ask[o].stream
            BY <2>4, <3>1, <3>4, Zenon
        <3> QED BY <2>4, <3>2, <3>3, <3>5
    <2>6. /\ Curl(Artifact(o)).provider = ask[o].provider
          /\ Curl(Artifact(o)).method = ask[o].method
          /\ Curl(Artifact(o)).path = ask[o].path
        BY DEF Curl, Artifact
    <2>7. Key(Curl(Artifact(o))) = Key(ask[o])
        BY <2>5, <2>6 DEF Key
    <2>8. WantsStream(Curl(Artifact(o))) = WantsStream(ask[o])
        BY <1>2, <2>5, <2>6 DEF WantsStream
    <2> QED BY <2>7, <2>8
<1> QED BY <1>1, <1>2

\* What a request re-issued by this step came from.
LEMMA ReissueFrom ==
    ASSUME IInv, RInv, NEW r \in Requests, Reissue(r)
    PROVE  \E o \in documents :
             /\ id[o] \in Ids
             /\ from' = [from EXCEPT ![r] = id[o]]
             /\ ask' = [ask EXCEPT ![r] = Curl(Artifact(o))]
             /\ pc'[r] # "idle" /\ o # r
<1>0. PICK i \in Ids : \E x \in Fetched(i) :
        /\ Bypass(r, Curl(x)) \/ Lookup(r, Curl(x))
        /\ from' = [from EXCEPT ![r] = i]
    BY DEF Reissue
<1>1. PICK x \in Fetched(i) :
        /\ Bypass(r, Curl(x)) \/ Lookup(r, Curl(x))
        /\ from' = [from EXCEPT ![r] = i]
    BY <1>0
<1>2. PICK o \in documents : id[o] = i /\ x = Artifact(o)
    BY DEF Fetched
<1>3. pc[o] # "idle"
    BY DEF RInv, ReplayTypeOK
<1>4. pc[r] = "idle" /\ pc'[r] # "idle"
    BY <1>1 DEF Bypass, Lookup, IInv, TypeOK
<1> QED BY <1>1, <1>2, <1>3, <1>4 DEF Bypass, Lookup

\* Nothing was captured or re-issued yet.
LEMMA InitRInv == ReplayInit => IInv /\ RInv
<1> SUFFICES ASSUME ReplayInit PROVE IInv /\ RInv
    OBVIOUS
<1>1. IInv
    BY InitIInv DEF ReplayInit
<1>2. RInv
    BY <1>1 DEF ReplayInit, RInv, ReplayTypeOK, ReissueAsksTheSame, IInv, Ids
<1> QED BY <1>1, <1>2

\* The ids and the documents keep their types.
LEMMA ReplayTypeStep ==
    ASSUME IInv, RInv, [ReplayNext]_allVars PROVE ReplayTypeOK'
<1>1. TypeOK'
    BY CacheStep, IInvStep DEF IInv
<1>2. ASSUME NEW o \in documents PROVE pc'[o] \in {"answered", "putting", "over"}
    <2>1. pc[o] \in {"answered", "putting", "over"} /\ o \in Requests
        BY DEF RInv, ReplayTypeOK
    <2> QED BY <2>1, CacheStep DEF IInv, TypeOK, Steps, vars, Tick, Purge, Bypass, Lookup,
            Hit, Miss, Answer, Put, Inserted, NotCached
<1>3. ASSUME NEW r \in Requests, Arrive(r) PROVE ReplayTypeOK'
    BY <1>1, <1>2, <1>3 DEF Arrive, RInv, ReplayTypeOK, Ids
<1>4. ASSUME NEW r \in Requests, Reissue(r) PROVE ReplayTypeOK'
    BY <1>1, <1>2, <1>4, ReissueFrom DEF Reissue, RInv, ReplayTypeOK
<1>5. ASSUME NEW r \in Requests, Persist(r) PROVE ReplayTypeOK'
    <2>1. pc'[r] \in {"answered", "putting", "over"}
        BY <1>5 DEF Persist, vars, IInv, ReplaysOK
    <2> QED BY <1>1, <1>2, <1>5, <2>1 DEF Persist, RInv, ReplayTypeOK
<1>6. CASE UNCHANGED replayVars
    BY <1>1, <1>2, <1>6 DEF replayVars, RInv, ReplayTypeOK
<1> QED BY <1>3, <1>4, <1>5, <1>6 DEF ReplayNext, PutPersisted, Serve, allVars

\* Every step keeps the strengthening.
LEMMA RInvStep == ASSUME IInv, RInv, [ReplayNext]_allVars PROVE IInv' /\ RInv'
<1>1. IInv'
    BY CacheStep, IInvStep
<1>2. ReplayTypeOK'
    BY ReplayTypeStep
<1>3. documents \subseteq documents'
    BY DEF ReplayNext, Arrive, Reissue, Persist, PutPersisted, Serve, replayVars, allVars
<1>4. ASSUME NEW r \in Requests, from'[r] # None
      PROVE  /\ pc'[r] # "idle" /\ ask'[r].header = "none"
             /\ \E o \in documents' :
                  /\ id'[o] = from'[r]
                  /\ ask'[o].object => /\ Key(ask'[r]) = Key(ask'[o])
                                      /\ WantsStream(ask'[r]) = WantsStream(ask'[o])
    <2>1. CASE from[r] # None
        <3>1. pc[r] # "idle" /\ ask[r].header = "none"
            BY <2>1 DEF RInv
        <3>2. PICK o \in documents :
                /\ id[o] = from[r]
                /\ ask[o].object => /\ Key(ask[r]) = Key(ask[o])
                                   /\ WantsStream(ask[r]) = WantsStream(ask[o])
            BY <2>1 DEF RInv, ReissueAsksTheSame
        <3>3. o \in Requests /\ pc[o] # "idle"
            BY DEF RInv, ReplayTypeOK
        <3>4. pc'[r] # "idle" /\ ask'[r] = ask[r] /\ from'[r] = from[r]
            BY <3>1, ArrivedStays
        <3>5. ask'[o] = ask[o] /\ id'[o] = id[o]
            BY <3>3, ArrivedStays
        <3> QED BY <1>3, <3>1, <3>2, <3>4, <3>5
    <2>2. CASE from[r] = None
        <3>1. Reissue(r)
            BY <1>4, <2>2 DEF ReplayNext, Arrive, Reissue, Persist, PutPersisted, Serve,
                replayVars, allVars, RInv, ReplayTypeOK
        <3>2. PICK o \in documents :
                /\ from' = [from EXCEPT ![r] = id[o]]
                /\ ask' = [ask EXCEPT ![r] = Curl(Artifact(o))]
                /\ pc'[r] # "idle" /\ o # r
            BY <3>1, ReissueFrom
        <3>3. o \in Requests /\ from'[r] = id[o] /\ ask'[r] = Curl(Artifact(o)) /\ ask'[o] = ask[o]
            BY <3>2 DEF IInv, TypeOK, RInv, ReplayTypeOK
        <3>4. id' = id
            BY <3>1 DEF Reissue
        <3> QED BY <1>3, <3>2, <3>3, <3>4, CurlAsksTheSame
    <2> QED BY <2>1, <2>2
<1> QED BY <1>1, <1>2, <1>4 DEF RInv, ReissueAsksTheSame

\* Both invariants hold of the composition.
THEOREM ReplayInvariance == ReplaySpec => [](IInv /\ RInv)
<1>1. IInv /\ RInv /\ [ReplayNext]_allVars => (IInv /\ RInv)'
    BY RInvStep
<1> QED BY InitRInv, <1>1, PTL DEF ReplaySpec

\* The types, with re-issued requests.
THEOREM ReplayTypeCorrect == ReplaySpec => []ReplayTypeOK
<1>1. RInv => ReplayTypeOK
    BY DEF RInv
<1> QED BY ReplayInvariance, <1>1, PTL

\* stages.py:140-180, with re-issued requests: only whole responses are replayed.
THEOREM ReplaysAreWholeHere == ReplaySpec => []ReplaysAreWhole
<1>1. IInv => ReplaysAreWhole
    BY DEF IInv, ReplaysOK, ComesFrom, ReplaysAreWhole
<1> QED BY ReplayInvariance, <1>1, PTL

\* ADR 0003, with re-issued requests: format safety and its three exceptions.
THEOREM FormatSafeHere == ReplaySpec => []FormatSafe
BY ReplayInvariance, FormatOfReplays, PTL

\* store.py:64-75, with re-issued requests: nothing is replayed long after its expiry.
THEOREM StalenessBoundedHere == ReplaySpec => []StalenessBounded
<1>1. IInv => StalenessBounded
    BY DEF IInv, ReplaysOK, StalenessBounded
<1> QED BY ReplayInvariance, <1>1, PTL

\* replay.py:119-128: a re-issue has the cache identity of an interaction with
\* the id it was exported by.
THEOREM ReissueAsksTheSameHolds == ReplaySpec => []ReissueAsksTheSame
<1>1. RInv => ReissueAsksTheSame
    BY DEF RInv
<1> QED BY ReplayInvariance, <1>1, PTL

\* replay.py:16-18: the cache answers no re-issue, unless it is on by default.
THEOREM ReissueIsFreshHolds == ReplaySpec => []ReissueIsFresh
<1>1. IInv /\ RInv => ReissueIsFresh
    <2> SUFFICES ASSUME IInv, RInv, ~DefaultOn, NEW p \in replays PROVE from[p.to] = None
        BY DEF ReissueIsFresh
    <2>1. p.to \in Requests /\ Identified(ask[p.to])
        BY DEF IInv, TypeOK, ReplaysOK
    <2>2. from[p.to] # None => ask[p.to].header = "none"
        BY <2>1 DEF RInv
    <2> QED BY <2>1, <2>2 DEF Identified, OptedIn
<1> QED BY ReplayInvariance, <1>1, PTL
================================================================================
