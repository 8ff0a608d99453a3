--------------------------- MODULE Search_proofs ---------------------------
(***************************************************************************)
(* First the breaker alone, for any callers, threshold and cooldown: its   *)
(* type invariant, and the two action properties that say how often a      *)
(* backend that is down is called.  The strengthening is Spaced: a caller  *)
(* that was let through an open breaker finds it still open, and once its  *)
(* trial is over the breaker was re-opened after it began, so that the     *)
(* cooldown that runs is younger than the trial.                           *)
(*                                                                         *)
(* Then workers and searches behind one breaker, for any of them, any      *)
(* documents and window size. All they do is, to the breaker, one of its   *)
(* own steps or none, so that what was proved of it alone holds of it      *)
(* here. The hits of a vector search pass the filter it was asked with. A  *)
(* vector goes to the text it was made of: Aligned relates the three lists *)
(* of a call, and Indexed lists exactly the positions in Filled. While the *)
(* backend stays up, UpInv says that every text has its vector or is still *)
(* to send.                                                                *)
(***************************************************************************)
EXTENDS Search, TLAPS, FiniteSetTheorems, SequenceTheorems,
        WellFoundedInduction

----------------------------------------------------------------------------
(* The breaker alone *)

Spaced ==
    \A c \in trialled :
        /\ opened
        /\ calling[c] = "no" => age <= ago[c]

IInv == TypeOK /\ Spaced

\* The clamped clocks stay in their range.
LEMMA UpToRange ==
    ASSUME NEW n \in Nat, NEW bound \in Nat
    PROVE  UpTo(n, bound) \in 0..bound
BY DEF UpTo

\* Initially the breaker is closed and nothing was tried.
LEMMA InitIInv == Init => IInv
<1> SUFFICES ASSUME Init PROVE IInv
    OBVIOUS
<1>1. failures \in 0..Threshold /\ age \in 0..Cooldown /\ failures # Threshold
    BY BreakerAssumption DEF Init
<1>2. opened \in BOOLEAN /\ (opened <=> failures = Threshold)
    BY <1>1, Zenon DEF Init
<1>3. ago \in [Callers -> 0..Cooldown]
    BY BreakerAssumption DEF Init
<1> QED BY <1>1, <1>2, <1>3 DEF Init, IInv, TypeOK, Spaced

\* Types are kept by every step; with the breaker open exactly at the threshold.
LEMMA TypeStep == TypeOK /\ [Next]_vars => TypeOK'
<1> SUFFICES ASSUME TypeOK, [Next]_vars PROVE TypeOK'
    OBVIOUS
<1> USE BreakerAssumption DEF TypeOK
<1>1. CASE Tick
    BY <1>1 DEF Tick, UpTo
<1>2. CASE Turn
    BY <1>2 DEF Turn
<1>3. ASSUME NEW c \in Callers, Call(c) PROVE TypeOK'
    BY <1>3 DEF Call
<1>4. ASSUME NEW c \in Callers, Succeed(c) PROVE TypeOK'
    <2>1. failures' \in 0..Threshold /\ failures' # Threshold /\ age' \in 0..Cooldown
        BY <1>4 DEF Succeed, RecordSuccess
    <2>2. opened' \in BOOLEAN /\ (opened' <=> failures' = Threshold)
        BY <1>4, <2>1, Zenon DEF Succeed, RecordSuccess
    <2> QED BY <1>4, <2>1, <2>2 DEF Succeed
<1>5. ASSUME NEW c \in Callers, Fail(c) PROVE TypeOK'
    <2>1. failures' \in 0..Threshold /\ (failures' >= Threshold <=> failures' = Threshold)
        BY <1>5 DEF Fail, RecordFailure, UpTo
    <2>2. opened' \in BOOLEAN /\ (opened' <=> failures' = Threshold)
        <3>1. opened' = (failures' >= Threshold)
            BY <1>5 DEF Fail, RecordFailure
        <3>2. CASE failures' >= Threshold
            BY <2>1, <3>1, <3>2, Zenon
        <3>3. CASE ~(failures' >= Threshold)
            <4>1. ~opened'
                BY <3>1, <3>3, Zenon
            <4>2. opened' \in BOOLEAN
                BY <3>1, SMT
            <4> QED BY <2>1, <3>3, <4>1, <4>2, Zenon
        <3> QED BY <3>2, <3>3
    <2>4. age' \in 0..Cooldown
        BY <1>5 DEF Fail, RecordFailure
    <2>3. calling' \in [Callers -> {"no", "closed", "trial"}]
        BY <1>5 DEF Fail
    <2> QED BY <1>5, <2>1, <2>2, <2>3, <2>4 DEF Fail
<1>6. ASSUME NEW c \in Callers, Abort(c) PROVE TypeOK'
    BY <1>6 DEF Abort
<1>7. CASE UNCHANGED vars
    BY <1>7 DEF vars
<1> QED BY <1>1, <1>2, <1>3, <1>4, <1>5, <1>6, <1>7 DEF Next

\* A trial that is over is older than the cooldown that runs.
LEMMA SpacedStep == IInv /\ [Next]_vars => Spaced'
<1> SUFFICES ASSUME IInv, [Next]_vars PROVE Spaced'
    OBVIOUS
<1> USE BreakerAssumption DEF IInv, TypeOK, Spaced
<1>1. CASE Tick
    BY <1>1 DEF Tick, UpTo
<1>2. CASE Turn
    BY <1>2 DEF Turn
<1>3. ASSUME NEW c \in Callers, Call(c) PROVE Spaced'
    BY <1>3 DEF Call
<1>4. ASSUME NEW c \in Callers, Succeed(c) PROVE Spaced'
    BY <1>4 DEF Succeed
<1>5. ASSUME NEW c \in Callers, Fail(c) PROVE Spaced'
    <2>1. age' = 0 /\ ago' = ago /\ trialled' = trialled
        BY <1>5 DEF Fail, RecordFailure
    <2>2. ASSUME opened PROVE opened'
        <3>1. failures' >= Threshold
            BY <1>5, <2>2 DEF Fail, RecordFailure, UpTo
        <3> QED BY <1>5, <3>1, Zenon DEF Fail, RecordFailure
    <2> QED BY <2>1, <2>2
<1>6. ASSUME NEW c \in Callers, Abort(c) PROVE Spaced'
    BY <1>6 DEF Abort
<1>7. CASE UNCHANGED vars
    BY <1>7 DEF vars
<1> QED BY <1>1, <1>2, <1>3, <1>4, <1>5, <1>6, <1>7 DEF Next

\* IInv is an invariant of the breaker.
THEOREM Invariance == Spec => []IInv
<1>1. IInv /\ [Next]_vars => IInv'
    BY TypeStep, SpacedStep DEF IInv
<1> QED BY InitIInv, <1>1, PTL DEF Spec

\* The failure count never passes the threshold, and the breaker is open exactly
\* when it has reached it (embeddings.py:63-70).
THEOREM TypeCorrect == Spec => []TypeOK
<1>1. IInv => TypeOK
    BY DEF IInv
<1> QED BY Invariance, <1>1, PTL

\* A call begins only by the action Call.
LEMMA StartsIsCall ==
    ASSUME TypeOK, [Next]_vars, NEW c \in Callers, Starts(c)
    PROVE  Call(c)
<1> USE DEF TypeOK, Starts
<1>1. CASE Tick
    BY <1>1 DEF Tick
<1>2. CASE Turn
    BY <1>2 DEF Turn
<1>3. ASSUME NEW d \in Callers, Call(d) PROVE Call(c)
    BY <1>3 DEF Call
<1>4. ASSUME NEW d \in Callers, Succeed(d) PROVE Call(c)
    BY <1>4 DEF Succeed
<1>5. ASSUME NEW d \in Callers, Fail(d) PROVE Call(c)
    BY <1>5 DEF Fail
<1>6. ASSUME NEW d \in Callers, Abort(d) PROVE Call(c)
    BY <1>6 DEF Abort
<1>7. CASE UNCHANGED vars
    BY <1>7 DEF vars
<1> QED BY <1>1, <1>2, <1>3, <1>4, <1>5, <1>6, <1>7 DEF Next

\* embeddings.py:57-61: once the threshold is reached no call begins before the
\* cooldown after the last failure is over.
THEOREM QuietAfterFailureHolds == Spec => QuietAfterFailure
<1>1. ASSUME IInv, [Next]_vars
      PROVE  [\A c \in Callers : Starts(c) /\ failures >= Threshold => age >= Cooldown]_vars
    <2> SUFFICES ASSUME NEW c \in Callers, Starts(c), failures >= Threshold
                 PROVE  age >= Cooldown
        OBVIOUS
    <2>1. Allow
        BY <1>1, StartsIsCall DEF IInv, Call
    <2>2. opened
        BY <1>1, BreakerAssumption DEF IInv, TypeOK
    <2> QED BY <2>1, <2>2 DEF Allow
<1> QED BY Invariance, <1>1, PTL DEF Spec, QuietAfterFailure

\* embeddings.py:38-41, 57-70: however the outcomes of overlapping calls are
\* ordered, a caller is not let through an open breaker twice in a cooldown,
\* unless the first of the two calls ended without an outcome.
THEOREM OneTrialPerCooldownHolds == Spec => OneTrialPerCooldown
<1>1. ASSUME IInv, [Next]_vars
      PROVE  [\A c \in Callers : Starts(c) /\ c \in trialled => ago[c] >= Cooldown]_vars
    <2> SUFFICES ASSUME NEW c \in Callers, Starts(c), c \in trialled
                 PROVE  ago[c] >= Cooldown
        OBVIOUS
    <2>1. Allow /\ calling[c] = "no"
        BY <1>1, StartsIsCall DEF IInv, Call
    <2>2. opened /\ age <= ago[c]
        BY <1>1, <2>1 DEF IInv, Spaced
    <2>3. age >= Cooldown
        BY <2>1, <2>2 DEF Allow
    <2> QED BY <1>1, <2>2, <2>3, BreakerAssumption DEF IInv, TypeOK
<1> QED BY Invariance, <1>1, PTL DEF Spec, OneTrialPerCooldown

----------------------------------------------------------------------------
(* The breaker in the hands of its users *)

\* The part of the search's types its safety needs.
Asked ==
    /\ stage \in [Searchers -> {"idle", "embedding", "hybrid", "vector"}]
    /\ request \in [Searchers -> Requests]
    /\ answer \in [Searchers ->
         [outcome : {"none", "unavailable", "error", "hits"},
          mode : {"none", "hybrid", "vector"},
          hits : SUBSET Docs]]

\* A step of _embed_many is one of the breaker for the same caller, or none.
LEMMA EmbeddingStep ==
    ASSUME NEW c \in Callers, Embedding(c)
    PROVE  Call(c) \/ Succeed(c) \/ Fail(c) \/ UNCHANGED vars
BY DEF Embedding, SendWindow, SkipWindow, WindowEmbedded, WindowFails

\* So is a step of a worker.
LEMMA WorkStep ==
    ASSUME NEW w \in Workers, Work(w) PROVE [Next]_vars
<1>1. w \in Callers
    BY SearchAssumption
<1>2. CASE StartBatch(w)
    BY <1>2 DEF StartBatch, Begin
<1>3. CASE EndBatch(w)
    BY <1>3 DEF EndBatch, Return
<1>4. CASE Embed(w)
    BY <1>1, <1>4, EmbeddingStep DEF Embed, Next
<1> QED BY <1>2, <1>3, <1>4 DEF Work

\* And one of a search.
LEMMA ServeStep ==
    ASSUME NEW s \in Searchers, Serve(s) PROVE [Next]_vars
<1>1. s \in Callers
    BY SearchAssumption
<1>2. CASE Embed(s)
    BY <1>1, <1>2, EmbeddingStep DEF Embed, Next
<1>3. CASE RefuseSearch(s) \/ StartSearch(s)
    BY <1>3 DEF RefuseSearch, StartSearch, Begin
<1>4. CASE QueryEmbedded(s) \/ QueryNotEmbedded(s)
    BY <1>4 DEF QueryEmbedded, QueryNotEmbedded, Return
<1>5. CASE HybridFound(s) \/ FallBack(s) \/ VectorFound(s) \/ QueryFails(s)
    BY <1>5 DEF HybridFound, FallBack, VectorFound, QueryFails
<1> QED BY <1>2, <1>3, <1>4, <1>5 DEF Serve

\* A call that is cancelled or raises ends for the breaker without an outcome.
LEMMA RaiseStep ==
    ASSUME NEW c \in Callers, WindowRaises(c) PROVE [Next]_vars
BY DEF WindowRaises, Next

\* What the workers and the searches do with the embedder is a behaviour of the
\* breaker alone (embeddings.py:157-176): no user reaches around it.
THEOREM ImplementsBreaker == SearchSpec => Spec
<1>1. SearchInit => Init
    BY DEF SearchInit, EmbedInit
<1>2. [SearchNext]_allVars => [Next]_vars
    <2> SUFFICES ASSUME [SearchNext]_allVars PROVE [Next]_vars
        OBVIOUS
    <2>1. CASE Surroundings
        BY <2>1 DEF Surroundings, Next
    <2>2. CASE UNCHANGED allVars
        BY <2>2 DEF allVars
    <2>3. ASSUME NEW w \in Workers, BatchRaises(w) \/ WorkerEnds(w) PROVE [Next]_vars
        BY <2>3, RaiseStep, SearchAssumption DEF BatchRaises, WorkerEnds
    <2>4. ASSUME NEW s \in Searchers, SearchRaises(s) PROVE [Next]_vars
        BY <2>4, RaiseStep, SearchAssumption DEF SearchRaises
    <2> QED BY <2>1, <2>2, <2>3, <2>4, WorkStep, ServeStep DEF SearchNext
<1> QED BY <1>1, <1>2, PTL DEF SearchSpec, Spec

\* The failure count and the breaker's state agree however its users overlap
\* (embeddings.py:63-70).
THEOREM BreakerTypeHere == SearchSpec => []TypeOK
BY ImplementsBreaker, TypeCorrect, PTL

\* However the windows of batches and queries overlap, no caller is let through
\* an open breaker twice in a cooldown (embeddings.py:38-41, 157-176).
THEOREM OneTrialPerCooldownHere == SearchSpec => OneTrialPerCooldown
BY ImplementsBreaker, OneTrialPerCooldownHolds, PTL

\* Nor is one let through in the cooldown after the failure that opened it
\* (embeddings.py:57-61).
THEOREM QuietAfterFailureHere == SearchSpec => QuietAfterFailure
BY ImplementsBreaker, QuietAfterFailureHolds, PTL

----------------------------------------------------------------------------
(* The filter *)

\* An answer given keeps what the next steps of others leave alone.
LEMMA Responds ==
    ASSUME Asked, VectorHitsInScope, NEW s \in Searchers,
           NEW r \in [outcome : {"none", "unavailable", "error", "hits"},
                      mode : {"none", "hybrid", "vector"}, hits : SUBSET Docs],
           Respond(s, r),
           r.mode = "vector" =>
               \A d \in r.hits : Matches(d, request[s].filter) /\ EmbeddingText[d] # Blank
    PROVE  Asked' /\ VectorHitsInScope'
<1>1. Asked'
    BY DEF Asked, Respond
<1>2. ASSUME NEW q \in Searchers, answer'[q].mode = "vector", NEW d \in answer'[q].hits
      PROVE  Matches(d, request'[q].filter) /\ EmbeddingText[d] # Blank
    <2>1. CASE q = s
        BY <1>2, <2>1 DEF Asked, Respond
    <2>2. CASE q # s
        <3>1. answer'[q] = answer[q] /\ request'[q] = request[q]
            BY <2>2 DEF Asked, Respond
        <3> QED BY <1>2, <3>1 DEF VectorHitsInScope, InScope
    <2> QED BY <2>1, <2>2
<1> QED BY <1>1, <1>2 DEF VectorHitsInScope, InScope

\* Every step of a search: the requests it takes, the answers it gives.
LEMMA ServeKeepsScope ==
    ASSUME Asked, VectorHitsInScope, NEW s \in Searchers, Serve(s)
    PROVE  Asked' /\ VectorHitsInScope'
<1> USE DEF Unavailable, Failed, NoAnswer
<1>1. ASSUME RefuseSearch(s) \/ StartSearch(s) PROVE Asked' /\ VectorHitsInScope'
    <2>1. PICK q \in Requests, l \in {"idle", "embedding"}, r \in {NoAnswer, Unavailable} :
            /\ request' = [request EXCEPT ![s] = q]
            /\ stage' = [stage EXCEPT ![s] = l]
            /\ answer' = [answer EXCEPT ![s] = r]
        <3>1. CASE RefuseSearch(s)
            <4>1. stage' = [stage EXCEPT ![s] = "idle"]
                BY <3>1 DEF RefuseSearch, Asked
            <4>2. /\ \E q \in Requests : request' = [request EXCEPT ![s] = q]
                  /\ answer' = [answer EXCEPT ![s] = Unavailable]
                BY <3>1 DEF RefuseSearch
            <4> QED BY <4>1, <4>2, Zenon
        <3>2. CASE StartSearch(s)
            <4>1. /\ \E q \in Requests : request' = [request EXCEPT ![s] = q]
                  /\ stage' = [stage EXCEPT ![s] = "embedding"]
                  /\ answer' = [answer EXCEPT ![s] = NoAnswer]
                BY <3>2 DEF StartSearch
            <4> QED BY <4>1, Zenon
        <3> QED BY <1>1, <3>1, <3>2
    <2>2. /\ r.mode = "none"
          /\ r \in [outcome : {"none", "unavailable", "error", "hits"},
                    mode : {"none", "hybrid", "vector"}, hits : SUBSET Docs]
        BY <2>1
    <2>3. Asked'
        BY <2>1, <2>2 DEF Asked
    <2>4. ASSUME NEW x \in Searchers, answer'[x].mode = "vector"
          PROVE  answer'[x] = answer[x] /\ request'[x] = request[x]
        BY <2>1, <2>2, <2>4 DEF Asked
    <2> QED BY <2>3, <2>4 DEF VectorHitsInScope, InScope
<1>2. ASSUME Embed(s) \/ QueryEmbedded(s) \/ FallBack(s)
      PROVE  Asked' /\ VectorHitsInScope'
    <2>1. request' = request /\ answer' = answer
        BY <1>2 DEF Embed, QueryEmbedded, FallBack, searchVars
    <2>2. stage' \in [Searchers -> {"idle", "embedding", "hybrid", "vector"}]
        <3>1. request[s].mode \in {"hybrid", "vector"}
            BY SearchAssumption DEF Asked
        <3> QED BY <1>2, <3>1 DEF Embed, QueryEmbedded, FallBack, searchVars, Asked
    <2> QED BY <2>1, <2>2 DEF Asked, VectorHitsInScope, InScope
<1>3. ASSUME QueryNotEmbedded(s) PROVE Asked' /\ VectorHitsInScope'
    BY <1>3, Responds DEF QueryNotEmbedded
<1>4. ASSUME QueryFails(s) PROVE Asked' /\ VectorHitsInScope'
    BY <1>4, Responds DEF QueryFails
<1>5. ASSUME HybridFound(s) PROVE Asked' /\ VectorHitsInScope'
    <2>1. PICK H \in SUBSET Docs : Respond(s, Found("hybrid", H))
        BY <1>5 DEF HybridFound, Fusion
    <2> QED BY <2>1, Responds DEF Found
<1>6. ASSUME VectorFound(s) PROVE Asked' /\ VectorHitsInScope'
    <2>1. PICK H \in SUBSET Docs :
            /\ Respond(s, Found("vector", H))
            /\ \A d \in H : Matches(d, request[s].filter) /\ EmbeddingText[d] # Blank
        BY <1>6 DEF VectorFound, VectorLeg
    <2>2. Found("vector", H).hits = H
        BY DEF Found
    <2> QED BY <2>1, <2>2, Responds DEF Found
<1> QED BY <1>1, <1>2, <1>3, <1>4, <1>5, <1>6 DEF Serve

\* The searches' state and the filter's part of it, together.
LEMMA ScopeInvariance == SearchSpec => [](Asked /\ VectorHitsInScope)
<1>1. SearchInit => Asked /\ VectorHitsInScope
    BY DEF SearchInit, Asked, VectorHitsInScope, InScope, NoAnswer
<1>2. Asked /\ VectorHitsInScope /\ [SearchNext]_allVars => (Asked /\ VectorHitsInScope)'
    <2> SUFFICES ASSUME Asked, VectorHitsInScope, [SearchNext]_allVars
                 PROVE  Asked' /\ VectorHitsInScope'
        OBVIOUS
    <2>1. ASSUME UNCHANGED <<stage, request, answer>> PROVE Asked' /\ VectorHitsInScope'
        BY <2>1 DEF Asked, VectorHitsInScope, InScope
    <2>2. ASSUME NEW w \in Workers, Work(w) \/ BatchRaises(w) \/ WorkerEnds(w)
          PROVE  UNCHANGED <<stage, request, answer>>
        BY <2>2 DEF Work, StartBatch, Embed, EndBatch, BatchRaises, WorkerEnds, searchVars
    <2>3. ASSUME NEW s \in Searchers, SearchRaises(s) PROVE Asked' /\ VectorHitsInScope'
        BY <2>3, Responds DEF SearchRaises, Failed, NoAnswer
    <2> QED BY <2>1, <2>2, <2>3, ServeKeepsScope DEF SearchNext, allVars, searchVars
<1> QED BY <1>1, <1>2, PTL DEF SearchSpec

\* The hits of a vector search, and of one that fell back to it, pass the filter
\* it was asked with, whatever the collection, the filters and k
\* (search.py:139-168).
THEOREM VectorHitsInScopeHolds == SearchSpec => []VectorHitsInScope
BY ScopeInvariance, PTL

----------------------------------------------------------------------------
(* The positions of the texts that are sent *)

\* A nonempty set of natural numbers has a least element.
LEMMA LeastNatural ==
    ASSUME NEW T \in SUBSET Nat, T # {}
    PROVE  \E n \in T : \A m \in T : n <= m
<1>1. PICK n \in T : \A m \in T : ~(<<m, n>> \in OpToRel(<, Nat))
    BY NatLessThanWellFounded, WFMin, Zenon
<1>2. \A m \in T : ~(m < n)
    BY <1>1, Zenon DEF OpToRel
<1> QED BY <1>2, SMT

Listable(S) ==
    IsFiniteSet(S) /\ \E s \in [1..Cardinality(S) -> S] : Increasing(s)

\* What lists the members of S that are below n lists those up to n, with n at its
\* end if it is one of them.
LEMMA OneMore ==
    ASSUME NEW n \in Nat \ {0}, NEW S \in SUBSET (1..n),
           \A T \in SUBSET (1..(n - 1)) : Listable(T)
    PROVE  Listable(S)
<1>1. CASE n \notin S
    <2>1. S \in SUBSET (1..(n - 1))
        BY <1>1
    <2> QED BY <2>1, Zenon
<1>2. CASE n \in S
    <2> DEFINE T == S \ {n}
               m == Cardinality(T)
    <2>1. T \in SUBSET (1..(n - 1))
        OBVIOUS
    <2>2. Listable(T)
        BY <2>1, Zenon
    <2>3. T \cup {n} = S
        BY <1>2
    <2>4. /\ IsFiniteSet(S)
          /\ Cardinality(S) = m + 1
          /\ m \in Nat
        <3>1. n \notin T
            OBVIOUS
        <3>2. IsFiniteSet(T)
            BY <2>2, Zenon DEF Listable
        <3>3. m \in Nat
            BY <3>2, FS_CardinalityType, Zenon
        <3>4. IsFiniteSet(T \cup {n}) /\ Cardinality(T \cup {n}) = m + 1
            BY <3>1, <3>2, FS_AddElement, Zenon
        <3> QED BY <2>3, <3>3, <3>4, Zenon
    <2>5. PICK s \in [1..m -> T] : Increasing(s)
        BY <2>2, Zenon DEF Listable
    <2> HIDE DEF m
    <2> DEFINE r == [k \in 1..(m + 1) |-> IF k = m + 1 THEN n ELSE s[k]]
    <2>6. r \in [1..(m + 1) -> S]
        <3>1. ASSUME NEW k \in 1..(m + 1) PROVE r[k] \in S
            BY <1>2, <2>4
        <3> QED BY <3>1
    <2>7. ASSUME NEW j \in 1..(m + 1), NEW k \in 1..(m + 1), j < k PROVE r[j] < r[k]
        <3>1. j \in 1..m /\ s[j] \in T /\ r[j] = s[j]
            BY <2>4, <2>7
        <3>2. CASE k = m + 1
            <4>1. r[k] = n
                BY <3>2
            <4>2. s[j] \in 1..(n - 1)
                BY <2>1, <3>1
            <4> HIDE DEF T, r
            <4> QED BY <3>1, <4>1, <4>2
        <3>3. CASE k # m + 1
            <4>1. k \in 1..m /\ r[k] = s[k]
                BY <2>4, <3>3
            <4>2. s[j] < s[k]
                BY <2>5, <2>7, <3>1, <4>1 DEF Increasing
            <4> HIDE DEF T, r
            <4> QED BY <3>1, <4>1, <4>2
        <3> QED BY <3>2, <3>3
    <2>8. Increasing(r)
        BY <2>7 DEF Increasing
    <2> HIDE DEF r
    <2> QED BY <2>4, <2>6, <2>8 DEF Listable
<1> QED BY <1>1, <1>2

\* The positions of a list can be taken in order.
LEMMA AllListable ==
    ASSUME NEW n \in Nat, NEW S \in SUBSET (1..n)
    PROVE  Listable(S)
<1> DEFINE Bad == {m \in Nat : \E T \in SUBSET (1..m) : ~Listable(T)}
<1>1. Bad = {}
    <2> SUFFICES ASSUME Bad # {} PROVE FALSE
        OBVIOUS
    <2>1. PICK m \in Bad : \A k \in Bad : m <= k
        BY LeastNatural, Bad \in SUBSET Nat, Zenon
    <2>2. PICK T \in SUBSET (1..m) : ~Listable(T)
        BY <2>1
    <2>3. CASE m = 0
        <3>1. T = {}
            BY <2>3
        <3>2. IsFiniteSet({}) /\ Cardinality({}) = 0
            BY FS_EmptySet
        <3>3. << >> \in [1..0 -> {}] /\ Increasing(<< >>)
            BY DEF Increasing
        <3>4. Listable({})
            BY <3>2, <3>3 DEF Listable
        <3> QED BY <2>2, <3>1, <3>4
    <2>4. CASE m # 0
        <3>1. m \in Nat \ {0} /\ m - 1 \in Nat /\ m - 1 \notin Bad
            <4>1. m \in Nat
                BY <2>1
            <4>2. m - 1 \in Nat /\ ~(m <= m - 1)
                BY <2>4, <4>1
            <4> HIDE DEF Bad
            <4> QED BY <2>1, <2>4, <4>1, <4>2
        <3>2. \A U \in SUBSET (1..(m - 1)) : Listable(U)
            BY <3>1
        <3> QED BY <2>2, <3>1, <3>2, OneMore
    <2> QED BY <2>3, <2>4
<1> QED BY <1>1

\* Indexed lists positions of texts that are not blank (embeddings.py:146-147).
LEMMA IndexedFilled ==
    ASSUME NEW S, NEW t \in Seq(S)
    PROVE  Indexed(t) \in Seq(Filled(t)) /\ Filled(t) \subseteq Nat \ {0}
<1>1. Len(t) \in Nat /\ Filled(t) \in SUBSET (1..Len(t))
    BY DEF Filled
<1>2. Listable(Filled(t))
    BY <1>1, AllListable
<1>3. Indexed(t) \in [1..Cardinality(Filled(t)) -> Filled(t)]
    BY <1>2, Zenon DEF Listable, Indexed
<1>4. Cardinality(Filled(t)) \in Nat
    BY <1>2, FS_CardinalityType DEF Listable
<1> QED BY <1>1, <1>3, <1>4

\* And it leaves none out: an increasing list as long as a set has its every member.
LEMMA IndexedComplete ==
    ASSUME NEW S, NEW t \in Seq(S), NEW p \in Filled(t)
    PROVE  \E k \in 1..Len(Indexed(t)) : Indexed(t)[k] = p
<1> DEFINE F == Filled(t)
           n == Cardinality(F)
           s == Indexed(t)
<1>1. Len(t) \in Nat /\ F \in SUBSET (1..Len(t))
    BY DEF Filled
<1>2. Listable(F)
    BY <1>1, AllListable
<1>3. s \in [1..n -> F] /\ Increasing(s)
    BY <1>2, Zenon DEF Listable, Indexed
<1>4. IsFiniteSet(F) /\ n \in Nat
    BY <1>2, FS_CardinalityType DEF Listable
<1> HIDE DEF F, n, s
<1>5. ASSUME NEW j \in 1..n, NEW k \in 1..n, s[j] = s[k] PROVE j = k
    <2>1. s[j] \in Nat
        <3>1. s[j] \in F
            BY <1>3
        <3>2. F \subseteq Nat
            BY <1>1
        <3> QED BY <3>1, <3>2
    <2>2. /\ j < k => s[j] < s[k]
          /\ k < j => s[k] < s[j]
        BY <1>3 DEF Increasing
    <2> QED BY <1>4, <1>5, <2>1, <2>2
<1>6. s \in Injection(1..n, F)
    BY <1>3, <1>5 DEF Injection, IsInjective
<1>7. Cardinality(1..n) = n
    BY <1>4, FS_Interval
<1>8. s \in Surjection(1..n, F)
    BY <1>4, <1>6, <1>7, FS_Injection, Zenon DEF n
<1>9. Len(s) = n
    BY <1>3, <1>4
<1> QED BY <1>8, <1>9 DEF Surjection, s, F

----------------------------------------------------------------------------
(* Vectors and the texts they belong to *)

\* What a caller that embeds t has in hand: positions still to be sent, all of texts
\* that are not blank, and a result list as long as t with vectors in their places.
Aligned(t, w, o) ==
    /\ t \in Seq(Texts \cup {Blank})
    /\ w \in Seq(Filled(t))
    /\ o \in Seq(Texts \cup {None})
    /\ Len(o) = Len(t)
    /\ \A i \in 1..Len(t) :
         IF t[i] = Blank THEN o[i] = None ELSE o[i] \in {None, Clipped[t[i]]}

EmbedInv ==
    /\ EmbedTypeOK
    /\ \A c \in Callers : Aligned(texts[c], todo[c], out[c])

\* One caller does a step, the others keep what they have.
LEMMA OneCaller ==
    ASSUME EmbedInv, NEW c \in Callers, NEW t, NEW w, NEW o, Aligned(t, w, o),
           texts' = [texts EXCEPT ![c] = t],
           todo' = [todo EXCEPT ![c] = w],
           out' = [out EXCEPT ![c] = o]
    PROVE  EmbedInv'
<1>1. /\ t \in Seq(Texts \cup {Blank})
      /\ w \in Seq(Nat \ {0})
      /\ o \in Seq(Texts \cup {None})
    <2>1. Filled(t) \subseteq Nat \ {0}
        BY DEF Filled
    <2> QED BY <2>1 DEF Aligned
<1>2. EmbedTypeOK'
    BY <1>1 DEF EmbedInv, EmbedTypeOK
<1>3. ASSUME NEW d \in Callers PROVE Aligned(texts'[d], todo'[d], out'[d])
    <2>1. CASE d = c
        <3>1. texts'[d] = t /\ todo'[d] = w /\ out'[d] = o
            BY <2>1 DEF EmbedInv, EmbedTypeOK
        <3> QED BY <3>1
    <2>2. CASE d # c
        <3>1. texts'[d] = texts[d] /\ todo'[d] = todo[d] /\ out'[d] = out[d]
            BY <2>2 DEF EmbedInv, EmbedTypeOK
        <3> QED BY <3>1 DEF EmbedInv
    <2> QED BY <2>1, <2>2
<1> QED BY <1>2, <1>3 DEF EmbedInv, Aligned, Filled

\* A call begins without vectors.
LEMMA BeginAligned ==
    ASSUME EmbedInv, NEW c \in Callers, NEW t \in Seq(Texts \cup {Blank}), Begin(c, t)
    PROVE  EmbedInv'
<1> DEFINE o == [i \in 1..Len(t) |-> None]
<1>1. o \in Seq(Texts \cup {None}) /\ Len(o) = Len(t) /\ \A i \in 1..Len(t) : o[i] = None
    OBVIOUS
<1>2. Indexed(t) \in Seq(Filled(t))
    BY IndexedFilled
<1> HIDE DEF o
<1>3. Aligned(t, Indexed(t), o)
    BY <1>1, <1>2 DEF Aligned
<1> QED BY <1>3, OneCaller DEF Begin, o

\* The window is part of what is to be sent, and the rest is the other part.
LEMMA Windows ==
    ASSUME EmbedInv, NEW c \in Callers
    PROVE  Taken(c) \in 0..Len(todo[c]) /\ Rest(c) \in Seq(Filled(texts[c]))
<1>1. todo[c] \in Seq(Filled(texts[c])) /\ Len(todo[c]) \in Nat
    BY DEF EmbedInv, Aligned
<1>2. Taken(c) \in 0..Len(todo[c])
    BY <1>1, EmbedderAssumption DEF Taken, UpTo
<1>3. \A i \in (Taken(c) + 1)..Len(todo[c]) : todo[c][i] \in Filled(texts[c])
    BY <1>1, <1>2
<1>4. Rest(c) \in Seq(Filled(texts[c]))
    BY <1>1, <1>2, <1>3, SubSeqProperties DEF Rest
<1> QED BY <1>2, <1>4

\* The vectors of a window land where their texts are.
LEMMA ScatteredAligned ==
    ASSUME EmbedInv, NEW c \in Callers
    PROVE  Aligned(texts[c], Rest(c), Scattered(c))
<1> DEFINE t == texts[c]
           w == todo[c]
           o == out[c]
           n == Taken(c)
           s == Scattered(c)
<1>1. Aligned(t, w, o)
    BY DEF EmbedInv
<1>2. n \in 0..Len(w) /\ Rest(c) \in Seq(Filled(t))
    BY Windows
<1>3. Len(t) \in Nat /\ DOMAIN o = 1..Len(t) /\ DOMAIN s = 1..Len(t)
    BY <1>1 DEF Aligned, Scattered
<1>4. ASSUME NEW p \in 1..Len(t)
      PROVE  /\ s[p] \in Texts \cup {None}
             /\ IF t[p] = Blank THEN s[p] = None ELSE s[p] \in {None, Clipped[t[p]]}
    <2>1. o[p] \in Texts \cup {None}
        BY <1>1, <1>3 DEF Aligned
    <2>2. CASE \E k \in 1..n : w[k] = p
        <3>1. PICK k \in 1..n : w[k] = p /\ s[p] = Vectors(c)[k]
            BY <1>3, <2>2 DEF Scattered
        <3>2. k \in 1..Len(w) /\ p \in Filled(t)
            BY <1>1, <1>2, <3>1 DEF Aligned
        <3>3. s[p] = Clipped[t[p]]
            BY <3>1 DEF Vectors
        <3>4. t[p] # Blank /\ t[p] \in Texts \cup {Blank}
            BY <1>1, <3>2 DEF Filled, Aligned
        <3> QED BY <3>3, <3>4, EmbedderAssumption
    <2>3. CASE ~\E k \in 1..n : w[k] = p
        <3>1. s[p] = o[p]
            BY <1>3, <2>3 DEF Scattered
        <3> QED BY <1>1, <2>1, <3>1 DEF Aligned
    <2> QED BY <2>2, <2>3
<1> HIDE DEF s
<1>5. s \in Seq(Texts \cup {None}) /\ Len(s) = Len(t)
    <2>1. s = [p \in 1..Len(t) |-> s[p]]
        BY <1>3 DEF s, Scattered
    <2> QED BY <1>3, <1>4, <2>1
<1> QED BY <1>1, <1>2, <1>4, <1>5 DEF Aligned, s

\* Between the call of _embed_many and its return.
LEMMA EmbeddingAligned ==
    ASSUME EmbedInv, NEW c \in Callers, Embedding(c)
    PROVE  EmbedInv'
<1>1. Aligned(texts[c], todo[c], out[c]) /\ EmbedTypeOK
    BY DEF EmbedInv
<1>2. Rest(c) \in Seq(Filled(texts[c]))
    BY Windows
<1>3. Aligned(texts[c], Rest(c), out[c])
    BY <1>1, <1>2 DEF Aligned
<1>4. /\ texts = [texts EXCEPT ![c] = texts[c]]
      /\ out = [out EXCEPT ![c] = out[c]]
      /\ todo = [todo EXCEPT ![c] = todo[c]]
    BY <1>1 DEF EmbedTypeOK
<1>5. CASE SendWindow(c)
    <2>1. texts' = texts /\ out' = out /\ todo' = todo
        BY <1>5 DEF SendWindow, embedVars
    <2> QED BY <1>1, <1>4, <2>1, OneCaller
<1>6. CASE SkipWindow(c) \/ WindowFails(c)
    <2>1. texts' = texts /\ out' = out /\ todo' = [todo EXCEPT ![c] = Rest(c)]
        BY <1>6 DEF SkipWindow, WindowFails
    <2> QED BY <1>3, <1>4, <2>1, OneCaller
<1>7. CASE WindowEmbedded(c)
    <2>1. /\ texts' = texts
          /\ todo' = [todo EXCEPT ![c] = Rest(c)]
          /\ out' = [out EXCEPT ![c] = Scattered(c)]
        BY <1>7 DEF WindowEmbedded
    <2> QED BY <1>4, <2>1, ScatteredAligned, OneCaller
<1> QED BY <1>5, <1>6, <1>7 DEF Embedding

\* A return leaves the caller with nothing.
LEMMA ReturnAligned ==
    ASSUME EmbedInv, NEW c \in Callers, Return(c)
    PROVE  EmbedInv'
<1>1. EmbedTypeOK /\ todo[c] = << >>
    BY DEF EmbedInv, Return, Returning
<1>2. todo = [todo EXCEPT ![c] = << >>]
    BY <1>1 DEF EmbedTypeOK
<1>3. Aligned(<< >>, << >>, << >>)
    BY DEF Aligned
<1> QED BY <1>2, <1>3, OneCaller DEF Return

\* Nor does a call that is cancelled or raises.
LEMMA RaiseAligned ==
    ASSUME EmbedInv, NEW c \in Callers, WindowRaises(c)
    PROVE  EmbedInv'
<1>1. Aligned(<< >>, << >>, << >>)
    BY DEF Aligned
<1> QED BY <1>1, OneCaller DEF WindowRaises

\* The first text that is not blank is one of the texts.
LEMMA FirstTextIsOne ==
    ASSUME NEW t \in Seq(Texts \cup {Blank})
    PROVE  FirstText(t) \in Texts \cup {Blank}
<1>1. CASE Filled(t) = {}
    BY <1>1 DEF FirstText
<1>2. CASE Filled(t) # {}
    <2>1. Filled(t) \in SUBSET Nat /\ Filled(t) \subseteq 1..Len(t)
        BY DEF Filled
    <2>2. PICK i \in Filled(t) : FirstText(t) = t[i]
        <3>1. \E i \in Filled(t) : \A j \in Filled(t) : i <= j
            BY <1>2, <2>1, LeastNatural, Zenon
        <3> QED BY <1>2, <3>1, Zenon DEF FirstText
    <2> QED BY <2>1, <2>2
<1> QED BY <1>1, <1>2

\* What is embedded of a document is one of its texts (embeddings.py:179-262).
LEMMA EmbeddingTextIsOne ==
    ASSUME NEW d \in Docs PROVE EmbeddingText[d] \in Texts \cup {Blank}
<1>1. {Doc[d].reasoning, Doc[d].content, Doc[d].messages, Doc[d].contents, Doc[d].prompt}
          \subseteq Texts \cup {Blank}
    BY SearchAssumption
<1>2. <<Doc[d].messages, Doc[d].contents, Doc[d].prompt>> \in Seq(Texts \cup {Blank})
    BY <1>1
<1>3. Prompt[d] \in Texts \cup {Blank}
    BY <1>2, FirstTextIsOne DEF Prompt
<1>4. <<Doc[d].reasoning, Doc[d].content, Prompt[d]>> \in Seq(Texts \cup {Blank})
    BY <1>1, <1>3
<1> QED BY <1>4, FirstTextIsOne DEF EmbeddingText

\* Every step of a worker or a search keeps vectors in their places.
LEMMA EmbedInvStep == EmbedInv /\ [SearchNext]_allVars => EmbedInv'
<1> SUFFICES ASSUME EmbedInv, [SearchNext]_allVars PROVE EmbedInv'
    OBVIOUS
<1>1. ASSUME UNCHANGED embedVars PROVE EmbedInv'
    BY <1>1 DEF embedVars, EmbedInv, EmbedTypeOK, Aligned, Filled
<1>2. ASSUME NEW w \in Workers, Work(w) PROVE EmbedInv'
    <2>1. w \in Callers
        BY SearchAssumption
    <2>2. CASE StartBatch(w)
        <3>1. PICK b \in Batches : Begin(w, [i \in 1..Len(b) |-> EmbeddingText[b[i]]])
            BY <2>2 DEF StartBatch
        <3>2. Len(b) \in Nat /\ \A i \in 1..Len(b) : b[i] \in Docs
            BY SearchAssumption
        <3>3. \A i \in 1..Len(b) : EmbeddingText[b[i]] \in Texts \cup {Blank}
            BY <3>2, EmbeddingTextIsOne
        <3>4. [i \in 1..Len(b) |-> EmbeddingText[b[i]]] \in Seq(Texts \cup {Blank})
            BY <3>2, <3>3
        <3> QED BY <2>1, <3>1, <3>4, BeginAligned
    <2>3. CASE Embed(w)
        BY <2>1, <2>3, EmbeddingAligned DEF Embed
    <2>4. CASE EndBatch(w)
        BY <2>1, <2>4, ReturnAligned DEF EndBatch
    <2> QED BY <1>2, <2>2, <2>3, <2>4 DEF Work
<1>3. ASSUME NEW s \in Searchers, Serve(s) PROVE EmbedInv'
    <2>1. s \in Callers
        BY SearchAssumption
    <2>2. CASE StartSearch(s)
        <3>1. PICK q \in Requests : q.query # Blank /\ Begin(s, <<q.query>>)
            BY <2>2 DEF StartSearch
        <3>2. <<q.query>> \in Seq(Texts \cup {Blank})
            BY SearchAssumption
        <3> QED BY <2>1, <3>1, <3>2, BeginAligned
    <2>3. CASE Embed(s)
        BY <2>1, <2>3, EmbeddingAligned DEF Embed
    <2>4. CASE QueryEmbedded(s) \/ QueryNotEmbedded(s)
        BY <2>1, <2>4, ReturnAligned DEF QueryEmbedded, QueryNotEmbedded
    <2>5. CASE RefuseSearch(s) \/ HybridFound(s) \/ FallBack(s) \/ VectorFound(s) \/ QueryFails(s)
        BY <1>1, <2>5 DEF RefuseSearch, HybridFound, FallBack, VectorFound, QueryFails
    <2> QED BY <1>3, <2>2, <2>3, <2>4, <2>5 DEF Serve
<1>4. ASSUME NEW w \in Workers, BatchRaises(w) \/ WorkerEnds(w) PROVE EmbedInv'
    BY <1>1, <1>4, RaiseAligned, SearchAssumption DEF BatchRaises, WorkerEnds
<1>5. ASSUME NEW s \in Searchers, SearchRaises(s) PROVE EmbedInv'
    BY <1>5, RaiseAligned, SearchAssumption DEF SearchRaises
<1> QED BY <1>1, <1>2, <1>3, <1>4, <1>5 DEF SearchNext, Surroundings, allVars

\* Every caller's result list is aligned with its texts.
THEOREM EmbedInvariance == SearchSpec => []EmbedInv
<1>1. SearchInit => EmbedInv
    BY DEF SearchInit, EmbedInit, EmbedInv, EmbedTypeOK, Aligned
<1> QED BY <1>1, EmbedInvStep, PTL DEF SearchSpec

\* Whatever windows are skipped, fail or succeed, a position holds the vector of
\* its own text or None (embeddings.py:146-156).
THEOREM VectorsAlignedHolds == SearchSpec => []VectorsAligned
<1>1. EmbedInv => VectorsAligned
    BY DEF EmbedInv, Aligned, VectorsAligned
<1> QED BY <1>1, EmbedInvariance, PTL

\* The types of breaker, embedder and searches together.
THEOREM SearchTypeCorrect == SearchSpec => []SearchTypeOK
<1> DEFINE Tasks == enabled \in BOOLEAN /\ dead \subseteq Workers
<1>1. SearchInit => Tasks
    BY DEF SearchInit
<1>2. Tasks /\ [SearchNext]_allVars => Tasks'
    <2>1. [SearchNext]_allVars => enabled' = enabled
        BY DEF SearchNext, allVars, searchVars, Work, StartBatch, Embed, EndBatch, Serve,
            RefuseSearch, StartSearch, QueryEmbedded, QueryNotEmbedded, HybridFound,
            FallBack, VectorFound, QueryFails, Respond, BatchRaises, WorkerEnds, SearchRaises
    <2>2. [SearchNext]_allVars => dead' = dead \/ \E w \in Workers : dead' = dead \cup {w}
        BY DEF SearchNext, allVars, searchVars, Work, StartBatch, Embed, EndBatch, Serve,
            RefuseSearch, StartSearch, QueryEmbedded, QueryNotEmbedded, HybridFound,
            FallBack, VectorFound, QueryFails, Respond, BatchRaises, WorkerEnds, SearchRaises
    <2>3. dead \subseteq Workers /\ [SearchNext]_allVars => dead' \subseteq Workers
        BY <2>2
    <2> QED BY <2>1, <2>3, Zenon
<1>3. SearchSpec => []Tasks
    BY <1>1, <1>2, PTL DEF SearchSpec
<1>4. TypeOK /\ EmbedInv /\ Asked /\ Tasks => SearchTypeOK
    BY DEF EmbedInv, Asked, SearchTypeOK
<1> HIDE DEF Tasks
<1> QED BY <1>3, <1>4, BreakerTypeHere, EmbedInvariance, ScopeInvariance, PTL

----------------------------------------------------------------------------
(* While the backend answers *)

\* A text of c that is not blank has its vector or is still to be sent.
Covered(t, w, o) ==
    \A p \in 1..Len(t) : t[p] # Blank => o[p] # None \/ \E k \in 1..Len(w) : w[k] = p

\* What a search that embeds has handed to the embedder, and what it can be told.
Served(s) ==
    /\ stage[s] = "embedding" => texts[s] = <<request[s].query>> /\ request[s].query # Blank
    /\ answer[s].outcome = "unavailable" => ~enabled \/ request[s].query = Blank

\* No failure was counted, so that the breaker let every window through.
UpInv ==
    /\ failures = 0
    /\ \A c \in Callers : Covered(texts[c], todo[c], out[c])
    /\ \A s \in Searchers : Served(s)

\* The types, and the alignment of vectors.
Base == TypeOK /\ EmbedInv /\ Asked

\* A step of one caller's embedding leaves the others covered.
LEMMA OneCovered ==
    ASSUME Base, UpInv, NEW c \in Callers, NEW t, NEW w, NEW o, Covered(t, w, o),
           texts' = [texts EXCEPT ![c] = t],
           todo' = [todo EXCEPT ![c] = w],
           out' = [out EXCEPT ![c] = o],
           NEW d \in Callers
    PROVE  Covered(texts'[d], todo'[d], out'[d])
<1>1. CASE d = c
    <2>1. texts'[d] = t /\ todo'[d] = w /\ out'[d] = o
        BY <1>1 DEF Base, EmbedInv, EmbedTypeOK
    <2> QED BY <2>1
<1>2. CASE d # c
    <2>1. texts'[d] = texts[d] /\ todo'[d] = todo[d] /\ out'[d] = out[d]
        BY <1>2 DEF Base, EmbedInv, EmbedTypeOK
    <2> QED BY <2>1 DEF UpInv
<1> QED BY <1>1, <1>2

\* A call begins with every text to be sent.
LEMMA BeginCovers ==
    ASSUME Base, UpInv, NEW c \in Callers, NEW t \in Seq(Texts \cup {Blank}), Begin(c, t),
           NEW d \in Callers
    PROVE  Covered(texts'[d], todo'[d], out'[d])
<1> DEFINE o == [i \in 1..Len(t) |-> None]
<1>1. ASSUME NEW p \in 1..Len(t), t[p] # Blank
      PROVE  \E k \in 1..Len(Indexed(t)) : Indexed(t)[k] = p
    <2>1. p \in Filled(t)
        BY <1>1 DEF Filled
    <2> QED BY <2>1, IndexedComplete
<1>2. Covered(t, Indexed(t), o)
    BY <1>1 DEF Covered
<1> HIDE DEF o
<1> QED BY <1>2, OneCovered DEF Begin, o

\* What the window does not take is left for the next one.
LEMMA ScatteredCovered ==
    ASSUME Base, UpInv, NEW c \in Callers
    PROVE  Covered(texts[c], Rest(c), Scattered(c))
<1> DEFINE t == texts[c]
           w == todo[c]
           o == out[c]
           n == Taken(c)
<1>1. /\ Aligned(t, w, o)
      /\ Aligned(t, Rest(c), Scattered(c))
      /\ Covered(t, w, o)
    BY ScatteredAligned DEF Base, UpInv, EmbedInv
<1>2. n \in 0..Len(w) /\ Len(w) \in Nat /\ Len(t) \in Nat /\ DOMAIN o = 1..Len(t)
    BY <1>1, Windows DEF Base, Aligned
<1>3. /\ Len(Rest(c)) = Len(w) - n
      /\ \A j \in 1..(Len(w) - n) : Rest(c)[j] = w[n + j]
    <2>1. \A i \in (n + 1)..Len(w) : w[i] \in Filled(t)
        BY <1>1, <1>2 DEF Aligned
    <2> HIDE DEF t, w
    <2>2. /\ Len(SubSeq(w, n + 1, Len(w))) = IF n + 1 <= Len(w) THEN Len(w) - (n + 1) + 1 ELSE 0
          /\ \A i \in 1..(Len(w) - (n + 1) + 1) : SubSeq(w, n + 1, Len(w))[i] = w[n + 1 + i - 1]
        BY <1>2, <2>1, SubSeqProperties
    <2>3. Rest(c) = SubSeq(w, n + 1, Len(w))
        BY DEF Rest, w
    <2> HIDE DEF n
    <2> QED BY <1>2, <2>2, <2>3
<1>4. ASSUME NEW p \in 1..Len(t), t[p] # Blank
      PROVE  Scattered(c)[p] # None \/ \E k \in 1..Len(Rest(c)) : Rest(c)[k] = p
    <2>1. CASE \E k \in 1..n : w[k] = p
        <3>1. PICK k \in 1..n : w[k] = p /\ Scattered(c)[p] = Vectors(c)[k]
            BY <1>2, <2>1 DEF Scattered
        <3>2. Scattered(c)[p] = Clipped[t[p]] /\ t[p] \in Texts \cup {Blank}
            BY <1>1, <3>1 DEF Vectors, Aligned
        <3> QED BY <1>4, <3>2, EmbedderAssumption
    <2>2. CASE ~\E k \in 1..n : w[k] = p
        <3>1. Scattered(c)[p] = o[p]
            BY <1>2, <2>2 DEF Scattered
        <3>2. CASE o[p] # None
            BY <3>1, <3>2
        <3>3. CASE o[p] = None
            <4>1. PICK k \in 1..Len(w) : w[k] = p
                BY <1>1, <1>4, <3>3 DEF Covered
            <4>2. k - n \in 1..(Len(w) - n) /\ n + (k - n) = k
                BY <1>2, <2>2, <4>1
            <4> QED BY <1>3, <4>1, <4>2
        <3> QED BY <3>2, <3>3
    <2> QED BY <2>1, <2>2
<1> QED BY <1>4 DEF Covered

\* Between call and return a window is sent or has its vectors: the breaker is
\* closed and the backend answers.
LEMMA EmbeddingCovers ==
    ASSUME Base, UpInv, up, NEW c \in Callers, Embedding(c)
    PROVE  /\ failures' = 0
           /\ texts' = texts
           /\ \A d \in Callers : Covered(texts'[d], todo'[d], out'[d])
<1>1. Allow
    <2>1. failures # Threshold
        BY BreakerAssumption DEF UpInv
    <2>2. ~opened
        BY <2>1, Zenon DEF Base, TypeOK
    <2> QED BY <2>2, Zenon DEF Allow
<1>2. CASE SendWindow(c)
    <2>1. texts' = texts /\ out' = out /\ todo' = todo /\ failures' = failures
        BY <1>2 DEF SendWindow, Call, embedVars
    <2> QED BY <2>1 DEF UpInv
<1>3. CASE SkipWindow(c)
    BY <1>1, <1>3, Zenon DEF SkipWindow
<1>4. CASE WindowFails(c)
    BY <1>4, Zenon DEF WindowFails, Fail
<1>5. CASE WindowEmbedded(c)
    <2>1. /\ texts' = texts
          /\ failures' = 0
          /\ todo' = [todo EXCEPT ![c] = Rest(c)]
          /\ out' = [out EXCEPT ![c] = Scattered(c)]
        BY <1>5 DEF WindowEmbedded, Succeed, RecordSuccess
    <2>2. texts = [texts EXCEPT ![c] = texts[c]]
        BY DEF Base, EmbedInv, EmbedTypeOK
    <2> QED BY <2>1, <2>2, ScatteredCovered, OneCovered
<1> QED BY <1>2, <1>3, <1>4, <1>5 DEF Embedding

\* A return leaves nothing to cover.
LEMMA ReturnCovers ==
    ASSUME Base, UpInv, NEW c \in Callers, Return(c)
    PROVE  \A d \in Callers : Covered(texts'[d], todo'[d], out'[d])
<1>1. todo = [todo EXCEPT ![c] = todo[c]]
    BY DEF Base, EmbedInv, EmbedTypeOK
<1>2. Covered(<< >>, todo[c], << >>)
    BY DEF Covered
<1> QED BY <1>1, <1>2, OneCovered DEF Return

\* Nor does a call that is cancelled or raises.
LEMMA RaiseCovers ==
    ASSUME Base, UpInv, NEW c \in Callers, WindowRaises(c)
    PROVE  /\ failures' = 0
           /\ \A d \in Callers : d # c => texts'[d] = texts[d]
           /\ \A d \in Callers : Covered(texts'[d], todo'[d], out'[d])
<1>1. Covered(<< >>, << >>, << >>)
    BY DEF Covered
<1>2. failures' = 0
    BY DEF WindowRaises, Abort, UpInv
<1>3. \A d \in Callers : d # c => texts'[d] = texts[d]
    BY DEF WindowRaises, Base, EmbedInv, EmbedTypeOK
<1> QED BY <1>1, <1>2, <1>3, OneCovered DEF WindowRaises

\* A worker whose call raises, or whose task ends, leaves the others as they are.
LEMMA WorkerLostUp ==
    ASSUME Base, UpInv, NEW w \in Workers, BatchRaises(w) \/ WorkerEnds(w)
    PROVE  UpInv'
<1>1. w \in Callers /\ w \notin Searchers /\ Searchers \subseteq Callers
    BY SearchAssumption
<1>2. UNCHANGED <<enabled, stage, request, answer>>
    BY DEF BatchRaises, WorkerEnds
<1>3. CASE WorkerEnds(w)
    BY <1>2, <1>3 DEF WorkerEnds, vars, embedVars, UpInv, Covered, Served
<1>4. CASE BatchRaises(w)
    <2>1. /\ failures' = 0
          /\ \A d \in Callers : d # w => texts'[d] = texts[d]
          /\ \A d \in Callers : Covered(texts'[d], todo'[d], out'[d])
        BY <1>1, <1>4, RaiseCovers DEF BatchRaises
    <2>2. \A s \in Searchers : texts'[s] = texts[s]
        BY <1>1, <2>1
    <2> QED BY <1>2, <2>1, <2>2 DEF UpInv, Served
<1> QED BY <1>3, <1>4

\* A search whose call raises is answered an error.
LEMMA SearchRaisesUp ==
    ASSUME Base, UpInv, NEW s \in Searchers, SearchRaises(s)
    PROVE  UpInv'
<1>1. s \in Callers /\ Searchers \subseteq Callers
    BY SearchAssumption
<1>2. /\ failures' = 0
      /\ \A d \in Callers : d # s => texts'[d] = texts[d]
      /\ \A d \in Callers : Covered(texts'[d], todo'[d], out'[d])
    BY <1>1, RaiseCovers DEF SearchRaises
<1>3. /\ stage' = [stage EXCEPT ![s] = "idle"]
      /\ answer' = [answer EXCEPT ![s] = Failed]
      /\ request' = request /\ enabled' = enabled
    BY DEF SearchRaises, Respond
<1>4. ASSUME NEW x \in Searchers PROVE Served(x)'
    <2>1. CASE x = s
        <3>1. stage'[x] = "idle" /\ answer'[x].outcome = "error"
            BY <1>3, <2>1 DEF Base, Asked, Failed, NoAnswer
        <3> QED BY <3>1 DEF Served
    <2>2. CASE x # s
        <3>1. stage'[x] = stage[x] /\ answer'[x] = answer[x] /\ texts'[x] = texts[x]
            BY <1>1, <1>2, <1>3, <2>2 DEF Base, Asked
        <3> QED BY <1>3, <3>1 DEF UpInv, Served
    <2> QED BY <2>1, <2>2
<1> QED BY <1>2, <1>4 DEF UpInv

\* A step of a worker.
LEMMA WorkUp ==
    ASSUME Base, UpInv, up, NEW w \in Workers, Work(w)
    PROVE  UpInv'
<1>1. w \in Callers /\ w \notin Searchers
    BY SearchAssumption
<1>2. UNCHANGED searchVars
    BY DEF Work, StartBatch, Embed, EndBatch
<1>3. CASE StartBatch(w)
    <2>1. PICK b \in Batches : Begin(w, [i \in 1..Len(b) |-> EmbeddingText[b[i]]])
        BY <1>3 DEF StartBatch
    <2> DEFINE t == [i \in 1..Len(b) |-> EmbeddingText[b[i]]]
    <2>2. t \in Seq(Texts \cup {Blank})
        BY EmbeddingTextIsOne, SearchAssumption
    <2> HIDE DEF t
    <2>3. failures' = 0 /\ texts' = [texts EXCEPT ![w] = t]
        BY <2>1 DEF Begin, vars, UpInv, t
    <2>4. \A d \in Callers : Covered(texts'[d], todo'[d], out'[d])
        BY <1>1, <2>1, <2>2, BeginCovers DEF t
    <2>5. ASSUME NEW s \in Searchers PROVE Served(s)'
        <3>1. texts'[s] = texts[s]
            BY <1>1, <2>3 DEF Base, EmbedInv, EmbedTypeOK
        <3> QED BY <1>2, <3>1 DEF UpInv, Served, searchVars
    <2> QED BY <2>3, <2>4, <2>5 DEF UpInv
<1>4. CASE Embed(w)
    <2>1. /\ failures' = 0
          /\ texts' = texts
          /\ \A d \in Callers : Covered(texts'[d], todo'[d], out'[d])
        BY <1>1, <1>4, EmbeddingCovers DEF Embed
    <2> QED BY <1>2, <2>1 DEF UpInv, Served, searchVars
<1>5. CASE EndBatch(w)
    <2>1. failures' = 0 /\ texts' = [texts EXCEPT ![w] = << >>]
        BY <1>5 DEF EndBatch, Return, vars, UpInv
    <2>2. \A d \in Callers : Covered(texts'[d], todo'[d], out'[d])
        BY <1>1, <1>5, ReturnCovers DEF EndBatch
    <2>3. ASSUME NEW s \in Searchers PROVE Served(s)'
        <3>1. texts'[s] = texts[s]
            BY <1>1, <2>1 DEF Base, EmbedInv, EmbedTypeOK
        <3> QED BY <1>2, <3>1 DEF UpInv, Served, searchVars
    <2> QED BY <2>1, <2>2, <2>3 DEF UpInv
<1> QED BY <1>3, <1>4, <1>5 DEF Work

\* A step of a search: its query has its vector when the embedder returns.
LEMMA ServeUp ==
    ASSUME Base, UpInv, up, NEW s \in Searchers, Serve(s)
    PROVE  UpInv'
<1>1. s \in Callers
    BY SearchAssumption
<1> USE DEF NoAnswer, Unavailable, Failed, Found
<1>2. CASE StartSearch(s)
    <2>1. PICK q \in Requests : /\ q.query # Blank
                                /\ Begin(s, <<q.query>>)
                                /\ request' = [request EXCEPT ![s] = q]
        BY <1>2 DEF StartSearch
    <2>2. <<q.query>> \in Seq(Texts \cup {Blank})
        BY SearchAssumption
    <2>3. /\ failures' = 0 /\ enabled' = enabled
          /\ texts' = [texts EXCEPT ![s] = <<q.query>>]
          /\ stage' = [stage EXCEPT ![s] = "embedding"]
          /\ answer' = [answer EXCEPT ![s] = NoAnswer]
        BY <1>2, <2>1 DEF StartSearch, Begin, vars, UpInv
    <2>4. \A d \in Callers : Covered(texts'[d], todo'[d], out'[d])
        BY <1>1, <2>1, <2>2, BeginCovers
    <2>5. ASSUME NEW x \in Searchers PROVE Served(x)'
        <3>1. x \in Callers
            BY SearchAssumption
        <3>2. CASE x = s
            <4>1. /\ texts'[x] = <<q.query>> /\ request'[x] = q
                  /\ answer'[x].outcome = "none"
                BY <2>1, <2>3, <3>1, <3>2 DEF Base, EmbedInv, EmbedTypeOK, Asked
            <4> QED BY <2>1, <4>1 DEF Served
        <3>3. CASE x # s
            <4>1. /\ texts'[x] = texts[x] /\ request'[x] = request[x]
                  /\ answer'[x] = answer[x] /\ stage'[x] = stage[x]
                BY <2>1, <2>3, <3>1, <3>3 DEF Base, EmbedInv, EmbedTypeOK, Asked
            <4> QED BY <2>3, <4>1 DEF UpInv, Served
        <3> QED BY <3>2, <3>3
    <2> QED BY <2>3, <2>4, <2>5 DEF UpInv
<1>3. CASE Embed(s)
    <2>1. /\ failures' = 0
          /\ texts' = texts
          /\ \A d \in Callers : Covered(texts'[d], todo'[d], out'[d])
        BY <1>1, <1>3, EmbeddingCovers DEF Embed
    <2> QED BY <1>3, <2>1 DEF UpInv, Served, Embed, searchVars
<1>4. CASE QueryEmbedded(s)
    <2>1. /\ failures' = 0 /\ enabled' = enabled
          /\ texts' = [texts EXCEPT ![s] = << >>]
          /\ stage' = [stage EXCEPT ![s] = request[s].mode]
          /\ request' = request /\ answer' = answer
        BY <1>4 DEF QueryEmbedded, Return, vars, UpInv
    <2>2. \A d \in Callers : Covered(texts'[d], todo'[d], out'[d])
        BY <1>1, <1>4, ReturnCovers DEF QueryEmbedded
    <2>3. ASSUME NEW x \in Searchers PROVE Served(x)'
        <3>1. x \in Callers /\ request[x].mode # "embedding"
            BY SearchAssumption DEF Base, Asked
        <3>2. stage'[x] = "embedding" => x # s /\ stage[x] = "embedding" /\ texts'[x] = texts[x]
            BY <2>1, <3>1 DEF Base, EmbedInv, EmbedTypeOK, Asked
        <3> QED BY <2>1, <3>2 DEF UpInv, Served
    <2> QED BY <2>1, <2>2, <2>3 DEF UpInv
<1>5. CASE QueryNotEmbedded(s)
    <2>1. stage[s] = "embedding" /\ out[s][1] = None /\ todo[s] = << >>
        BY <1>5 DEF QueryNotEmbedded, Return, Returning
    <2>2. texts[s] = <<request[s].query>> /\ request[s].query # Blank
        BY <2>1 DEF UpInv, Served
    <2>3. 1 \in 1..Len(texts[s]) /\ texts[s][1] # Blank
        BY <2>2
    <2> QED BY <1>1, <2>1, <2>3 DEF UpInv, Covered
<1>6. CASE RefuseSearch(s)
    <2>1. PICK q \in Requests : /\ ~enabled \/ q.query = Blank
                                /\ request' = [request EXCEPT ![s] = q]
        BY <1>6 DEF RefuseSearch
    <2>2. /\ failures' = 0 /\ texts' = texts /\ todo' = todo /\ out' = out
          /\ stage[s] = "idle" /\ stage' = stage /\ enabled' = enabled
          /\ answer' = [answer EXCEPT ![s] = Unavailable]
        BY <1>6 DEF RefuseSearch, vars, embedVars, UpInv
    <2>3. ASSUME NEW x \in Searchers PROVE Served(x)'
        <3>1. CASE x = s
            <4>1. request'[x] = q /\ stage'[x] # "embedding"
                BY <2>1, <2>2, <3>1 DEF Base, Asked
            <4>2. ~enabled' \/ request'[x].query = Blank
                BY <2>1, <2>2, <4>1, Zenon
            <4> QED BY <4>1, <4>2, Zenon DEF Served
        <3>2. CASE x # s
            <4>1. request'[x] = request[x] /\ answer'[x] = answer[x]
                BY <2>1, <2>2, <3>2 DEF Base, Asked
            <4> QED BY <2>2, <4>1 DEF UpInv, Served
        <3> QED BY <3>1, <3>2
    <2> QED BY <2>2, <2>3 DEF UpInv
<1>7. CASE HybridFound(s) \/ FallBack(s) \/ VectorFound(s) \/ QueryFails(s)
    <2>1. /\ failures' = 0 /\ texts' = texts /\ todo' = todo /\ out' = out
          /\ request' = request /\ enabled' = enabled
          /\ stage[s] # "embedding"
        BY <1>7 DEF HybridFound, FallBack, VectorFound, QueryFails, Respond, vars, embedVars,
            UpInv
    <2>2. ASSUME NEW x \in Searchers
          PROVE  /\ stage'[x] = "embedding" => stage[x] = "embedding"
                 /\ answer'[x].outcome = "unavailable" => answer[x].outcome = "unavailable"
        <3>1. ASSUME NEW r, Respond(s, r), r.outcome # "unavailable"
              PROVE  /\ stage'[x] = "embedding" => stage[x] = "embedding"
                     /\ answer'[x].outcome = "unavailable" => answer[x].outcome = "unavailable"
            BY <3>1 DEF Respond, Base, Asked
        <3>2. CASE HybridFound(s)
            <4>1. PICK H : Respond(s, Found("hybrid", H))
                BY <3>2 DEF HybridFound
            <4> QED BY <3>1, <4>1
        <3>3. CASE VectorFound(s)
            <4>1. PICK H : Respond(s, Found("vector", H))
                BY <3>3 DEF VectorFound
            <4> QED BY <3>1, <4>1
        <3>4. CASE QueryFails(s)
            BY <3>1, <3>4 DEF QueryFails
        <3>5. CASE FallBack(s)
            BY <3>5 DEF FallBack, Base, Asked
        <3> QED BY <1>7, <3>2, <3>3, <3>4, <3>5
    <2>3. ASSUME NEW x \in Searchers PROVE Served(x)'
        BY <2>1, <2>2 DEF UpInv, Served
    <2> QED BY <2>1, <2>3 DEF UpInv
<1> QED BY <1>2, <1>3, <1>4, <1>5, <1>6, <1>7 DEF Serve

\* While the backend answers, no overlap of workers and searches makes anybody miss
\* a vector: every text of a batch is embedded, and no query is refused for want of
\* one (embeddings.py:144-157, search.py:112-119).
THEOREM NothingMissedWhileUpHolds == SearchSpec => NothingMissedWhileUp
<1> DEFINE Told == \A s \in Searchers :
               answer[s].outcome = "unavailable" => ~enabled \/ request[s].query = Blank
<1>1. SearchInit => UpInv
    BY DEF SearchInit, EmbedInit, Init, UpInv, Covered, Served, NoAnswer
<1>2. Base /\ UpInv /\ up /\ [SearchNext]_allVars => UpInv'
    <2> SUFFICES ASSUME Base, UpInv, up, [SearchNext]_allVars PROVE UpInv'
        OBVIOUS
    <2>1. CASE Surroundings /\ UNCHANGED searchVars
        BY <2>1 DEF Surroundings, Tick, Turn, embedVars, searchVars, UpInv, Covered, Served
    <2>2. CASE UNCHANGED allVars
        BY <2>2 DEF allVars, vars, embedVars, searchVars, UpInv, Covered, Served
    <2> QED BY <2>1, <2>2, WorkUp, ServeUp, WorkerLostUp, SearchRaisesUp DEF SearchNext
<1>3. SearchSpec => []Base
    BY BreakerTypeHere, EmbedInvariance, ScopeInvariance, PTL DEF Base
<1>4. UpInv => AllEmbedded /\ Told
    BY DEF UpInv, Covered, Served, AllEmbedded, Returning
<1> QED BY <1>1, <1>2, <1>3, <1>4, PTL DEF SearchSpec, NothingMissedWhileUp
=============================================================================
