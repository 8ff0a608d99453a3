---------------------- MODULE TelemetryPipeline_proofs ----------------------
(***************************************************************************)
(* For any captures, workers and bounds: the type invariant of the         *)
(* pipeline, that no accepted capture is lost from sight or handled twice, *)
(* what is stored and cached of it, and that the pipeline implements       *)
(* CaptureLedger.                                                          *)
(*                                                                         *)
(* The strengthening says where a capture can be: at one place of the      *)
(* queue, in one list of one worker, or settled; which lists a worker can  *)
(* hold where it is suspended; and that only a worker cancelled in the     *)
(* middle of its insert holds a capture that may be stored already.        *)
(***************************************************************************)
EXTENDS TelemetryPipeline, FiniteSetTheorems, TLAPS

Items == Captures \cup {Shutdown}

QueuedOf(q) == {q[i] : i \in 1..Len(q)} \ {Shutdown}

Distinct(q) == \A i, j \in 1..Len(q) : q[i] = q[j] /\ q[i] # Shutdown => i = j

ControlOK ==
    \A w \in Workers :
        /\ batch[w] # {} => pc[w] \in {"get", "cancelled"}
        /\ flight[w] # {} => pc[w] \in {"embed", "write", "dead", "cancelled"}

HeldOK ==
    \A c \in Captures, w \in Workers :
        /\ c \in batch[w] => c \notin Queued /\ \A v \in Workers : c \notin flight[v]
        /\ c \in flight[w] => c \notin Queued
        /\ \A v \in Workers : c \in batch[w] /\ c \in batch[v] => w = v
        /\ \A v \in Workers : c \in flight[w] /\ c \in flight[v] => w = v

\* Accepted and not settled: somebody has the capture.
Open(c) ==
    \/ c \in Queued
    \/ \E w \in Workers : c \in batch[w] \/ c \in flight[w]

CountsOf(c) ==
    /\ metrics["submitted"][c] = (IF receipt[c] = "accepted" THEN 1 ELSE 0)
    /\ metrics["dropped"][c] = (IF receipt[c] = "dropped" THEN 1 ELSE 0)
    /\ metrics["written"][c] + metrics["failed"][c] <= 1
    /\ Open(c) => receipt[c] = "accepted" /\ ~Settled(c)
    /\ receipt[c] = "accepted" => Open(c) \/ Settled(c)
    /\ Settled(c) => receipt[c] = "accepted"

CountsOK == \A c \in Captures : CountsOf(c)

StoredOK ==
    \A c \in Captures :
        /\ stored[c] <= 1
        /\ metrics["written"][c] > 0 => stored[c] = 1
        /\ stored[c] > 0 =>
              \/ Settled(c)
              \/ \E w \in Workers : c \in flight[w] /\ pc[w] = "cancelled"

CacheOK ==
    \A c \in Captures :
        /\ metrics["cached"][c] <= metrics["written"][c]
        /\ metrics["cached"][c] > 0 => c \in Cacheable
        /\ \A w \in Workers : c \in tocache[w] =>
              /\ c \in Cacheable
              /\ metrics["written"][c] = 1
              /\ metrics["cached"][c] = 0
              /\ \A v \in Workers : c \in tocache[v] => v = w

Typed == TypeOK /\ Len(queue) <= MaxSize

IInv ==
    /\ Typed
    /\ Distinct(queue)
    /\ ControlOK
    /\ HeldOK
    /\ CountsOK
    /\ StoredOK
    /\ CacheOK

----------------------------------------------------------------------------
(* Lemmas about the queue and the counters *)

\* A capture that is put in the queue is in it once if it was not in it.
LEMMA AppendCapture ==
    ASSUME NEW q \in Seq(Items), NEW c \in Captures
    PROVE  /\ Append(q, c) \in Seq(Items)
           /\ Len(Append(q, c)) = Len(q) + 1
           /\ QueuedOf(Append(q, c)) = QueuedOf(q) \cup {c}
           /\ Distinct(q) /\ c \notin QueuedOf(q) => Distinct(Append(q, c))
<1> DEFINE r == Append(q, c)
<1>0. c # Shutdown /\ c \in Items
    BY PipelineAssumption DEF Items
<1>1. /\ r \in Seq(Items) /\ Len(r) = Len(q) + 1 /\ Len(q) \in Nat
      /\ r[Len(q) + 1] = c
      /\ \A i \in 1..Len(q) : r[i] = q[i]
    BY <1>0
<1> HIDE DEF r
<1>2. QueuedOf(r) = QueuedOf(q) \cup {c}
    BY <1>0, <1>1 DEF QueuedOf
<1>3. ASSUME Distinct(q), c \notin QueuedOf(q) PROVE Distinct(r)
    BY <1>0, <1>1, <1>3 DEF QueuedOf, Distinct
<1> QED BY <1>1, <1>2, <1>3 DEF r

\* What is taken from the queue is in it no more.
LEMMA TakeHead ==
    ASSUME NEW q \in Seq(Items), q # <<>>, Distinct(q), Head(q) # Shutdown
    PROVE  /\ Tail(q) \in Seq(Items) /\ Head(q) \in Captures
           /\ Len(Tail(q)) <= Len(q)
           /\ QueuedOf(q) = QueuedOf(Tail(q)) \cup {Head(q)}
           /\ Head(q) \notin QueuedOf(Tail(q))
           /\ Distinct(Tail(q))
<1> DEFINE r == Tail(q)
<1>1. /\ r \in Seq(Items) /\ Len(r) = Len(q) - 1 /\ Len(q) \in Nat /\ Len(q) > 0
      /\ Head(q) = q[1] /\ Head(q) \in Items
      /\ \A i \in 1..Len(r) : r[i] = q[i + 1]
    OBVIOUS
<1> HIDE DEF r
<1>2. Head(q) \notin QueuedOf(r)
    BY <1>1 DEF QueuedOf, Distinct
<1>3. QueuedOf(q) = QueuedOf(r) \cup {Head(q)}
    <2>1. \A i \in 1..Len(q) : i = 1 \/ (i - 1 \in 1..Len(r) /\ r[i - 1] = q[i])
        BY <1>1
    <2>2. \A i \in 1..Len(r) : i + 1 \in 1..Len(q) /\ r[i] = q[i + 1]
        BY <1>1
    <2>3. 1 \in 1..Len(q)
        BY <1>1
    <2> QED BY <1>1, <2>1, <2>2, <2>3 DEF QueuedOf
<1>4. Distinct(r)
    BY <1>1 DEF Distinct
<1> QED BY <1>1, <1>2, <1>3, <1>4 DEF r, Items

\* Sentinels are no captures.
LEMMA AppendSentinels ==
    ASSUME NEW q \in Seq(Items), NEW k \in Nat
    PROVE  LET r == q \o [i \in 1..k |-> Shutdown] IN
           /\ r \in Seq(Items)
           /\ Len(r) = Len(q) + k
           /\ QueuedOf(r) = QueuedOf(q)
           /\ Distinct(q) => Distinct(r)
<1> DEFINE t == [i \in 1..k |-> Shutdown]
           r == q \o t
<1>1. t \in Seq(Items) /\ Len(t) = k /\ \A i \in 1..k : t[i] = Shutdown
    BY DEF Items
<1> HIDE DEF t
<1>2. /\ r \in Seq(Items) /\ Len(r) = Len(q) + k /\ Len(q) \in Nat
      /\ \A i \in 1..Len(q) : r[i] = q[i]
      /\ \A i \in 1..Len(r) : i \in 1..Len(q) \/ r[i] = Shutdown
    BY <1>1
<1> HIDE DEF r
<1>3. QueuedOf(r) = QueuedOf(q)
    BY <1>2 DEF QueuedOf
<1>4. Distinct(q) => Distinct(r)
    BY <1>2 DEF Distinct
<1> QED BY <1>2, <1>3, <1>4 DEF r, t

\* What counting a set of captures changes, and what not.
LEMMA CountEffect ==
    ASSUME Typed, NEW m \in Counters, NEW S, Count(m, S)
    PROVE  /\ metrics' \in [Counters -> [Captures -> Nat]]
           /\ \A n \in Counters, c \in Captures :
                metrics'[n][c] = IF n = m /\ c \in S THEN metrics[n][c] + 1 ELSE metrics[n][c]
BY DEF Typed, TypeOK, Count, AddTo

\* The documents of a set of captures are added to those of the others.
LEMMA StoreEffect ==
    ASSUME Typed, NEW S, stored' = AddTo(stored, S)
    PROVE  /\ stored' \in [Captures -> Nat]
           /\ \A c \in Captures : stored'[c] = IF c \in S THEN stored[c] + 1 ELSE stored[c]
BY DEF Typed, TypeOK, AddTo

\* The definition of the queue's captures, now and after a step.
LEMMA QueuedIs == Queued = QueuedOf(queue) /\ Queued' = QueuedOf(queue')
BY DEF Queued, QueuedOf

LEMMA QueuedType == Typed => Queued \subseteq Captures
BY DEF Typed, TypeOK, Queued

----------------------------------------------------------------------------
(* The inductive invariant, action by action *)

LEMMA InitIInv == Init => IInv
<1> SUFFICES ASSUME Init PROVE IInv
    OBVIOUS
<1>1. Cardinality(Workers) \in Nat
    BY PipelineAssumption, FS_CardinalityType
<1>2. Typed
    BY <1>1, PipelineAssumption DEF Init, Typed, TypeOK, Counters
<1>3. Queued = {} /\ Distinct(queue)
    BY DEF Init, Queued, Distinct
<1>4. ControlOK /\ HeldOK
    BY DEF Init, ControlOK, HeldOK
<1>5. \A m \in Counters, c \in Captures : metrics[m][c] = 0
    BY DEF Init
<1>6. CountsOK /\ StoredOK /\ CacheOK
    BY <1>3, <1>5 DEF Init, CountsOK, CountsOf, StoredOK, CacheOK, Open, Settled, Counters
<1> QED BY <1>2, <1>3, <1>4, <1>6 DEF IInv

LEMMA SubmitStep ==
    ASSUME IInv, NEW c \in Captures, Submit(c)
    PROVE  IInv'
<1>0. /\ Typed /\ queue \in Seq(Items) /\ receipt[c] = "none" /\ c # Shutdown
      /\ UNCHANGED <<phase, owed, pc, batch, flight, tocache, leaving, stored, early>>
    BY PipelineAssumption DEF IInv, Typed, TypeOK, Items, Submit
<1>1. c \notin Queued /\ \A w \in Workers : c \notin batch[w] /\ c \notin flight[w]
    BY <1>0 DEF IInv, CountsOK, CountsOf, Open
<1>2. CASE /\ Len(queue) < MaxSize
           /\ queue' = Append(queue, c)
           /\ receipt' = [receipt EXCEPT ![c] = "accepted"]
           /\ Count("submitted", {c})
    <2>1. /\ queue' \in Seq(Items) /\ Len(queue') <= MaxSize
          /\ Queued' = Queued \cup {c} /\ Distinct(queue')
        BY <1>0, <1>1, <1>2, AppendCapture, QueuedIs, PipelineAssumption DEF IInv
    <2>2. /\ metrics' \in [Counters -> [Captures -> Nat]]
          /\ \A n \in Counters, d \in Captures :
               metrics'[n][d] = IF n = "submitted" /\ d = c THEN metrics[n][d] + 1 ELSE metrics[n][d]
        BY <1>0, <1>2, CountEffect DEF Counters
    <2>3. Typed'
        BY <1>0, <1>2, <2>1, <2>2 DEF Typed, TypeOK, Items
    <2>4. ControlOK' /\ HeldOK'
        BY <1>0, <1>1, <2>1 DEF IInv, ControlOK, HeldOK
    <2>5. CountsOK'
        <3>1. Open(c)' /\ ~Open(c)
            BY <1>0, <1>1, <2>1 DEF Open
        <3>2. \A d \in Captures \ {c} : Open(d)' <=> Open(d)
            BY <1>0, <2>1 DEF Open
        <3>3. receipt'[c] = "accepted" /\ \A d \in Captures \ {c} : receipt'[d] = receipt[d]
            BY <1>0, <1>2 DEF Typed, TypeOK
        <3>4. ASSUME NEW d \in Captures \ {c} PROVE CountsOf(d)'
            <4>1. CountsOf(d) /\ (Open(d)' <=> Open(d)) /\ receipt'[d] = receipt[d]
                BY <3>2, <3>3 DEF IInv, CountsOK
            <4>2. \A n \in Counters : metrics'[n][d] = metrics[n][d]
                BY <2>2
            <4> QED BY <4>1, <4>2 DEF CountsOf, Settled, Counters
        <3>5. CountsOf(c)'
            <4>1. CountsOf(c)
                BY DEF IInv, CountsOK
            <4>2. metrics["submitted"][c] = 0 /\ metrics["dropped"][c] = 0 /\ ~Settled(c)
                BY <1>0, <4>1 DEF CountsOf
            <4>3. /\ metrics'["submitted"][c] = 1 /\ metrics'["dropped"][c] = 0
                  /\ metrics'["written"][c] = metrics["written"][c]
                  /\ metrics'["failed"][c] = metrics["failed"][c]
                BY <2>2, <4>2 DEF Counters
            <4> QED BY <3>1, <3>3, <4>1, <4>2, <4>3 DEF CountsOf, Settled
        <3> QED BY <3>4, <3>5 DEF CountsOK
    <2>6. StoredOK' /\ CacheOK'
        BY <1>0, <2>2 DEF IInv, StoredOK, CacheOK, Settled, Counters
    <2> QED BY <2>1, <2>3, <2>4, <2>5, <2>6 DEF IInv
<1>3. CASE /\ receipt' = [receipt EXCEPT ![c] = "dropped"]
           /\ Count("dropped", {c})
           /\ UNCHANGED queue
    <2>1. Queued' = Queued
        BY <1>3 DEF Queued
    <2>2. /\ metrics' \in [Counters -> [Captures -> Nat]]
          /\ \A n \in Counters, d \in Captures :
               metrics'[n][d] = IF n = "dropped" /\ d = c THEN metrics[n][d] + 1 ELSE metrics[n][d]
        BY <1>0, <1>3, CountEffect DEF Counters
    <2>3. Typed'
        BY <1>0, <1>3, <2>2 DEF Typed, TypeOK
    <2>4. ControlOK' /\ HeldOK' /\ Distinct(queue)'
        BY <1>0, <1>3, <2>1 DEF IInv, ControlOK, HeldOK
    <2>5. CountsOK'
        <3>1. ~Open(c) /\ \A d \in Captures : Open(d)' <=> Open(d)
            BY <1>0, <1>1, <1>3, <2>1 DEF Open
        <3>2. receipt'[c] = "dropped" /\ \A d \in Captures \ {c} : receipt'[d] = receipt[d]
            BY <1>0, <1>3 DEF Typed, TypeOK
        <3>4. ASSUME NEW d \in Captures \ {c} PROVE CountsOf(d)'
            <4>1. CountsOf(d) /\ (Open(d)' <=> Open(d)) /\ receipt'[d] = receipt[d]
                BY <3>1, <3>2 DEF IInv, CountsOK
            <4>2. \A n \in Counters : metrics'[n][d] = metrics[n][d]
                BY <2>2
            <4> QED BY <4>1, <4>2 DEF CountsOf, Settled, Counters
        <3>5. CountsOf(c)'
            <4>1. CountsOf(c) /\ (Open(c)' <=> Open(c)) /\ ~Open(c)
                BY <3>1 DEF IInv, CountsOK
            <4>2. metrics["submitted"][c] = 0 /\ metrics["dropped"][c] = 0 /\ ~Settled(c)
                BY <1>0, <4>1 DEF CountsOf
            <4>3. /\ metrics'["submitted"][c] = 0 /\ metrics'["dropped"][c] = 1
                  /\ metrics'["written"][c] = metrics["written"][c]
                  /\ metrics'["failed"][c] = metrics["failed"][c]
                BY <2>2, <4>2 DEF Counters
            <4> QED BY <3>2, <4>1, <4>2, <4>3 DEF CountsOf, Settled
        <3> QED BY <3>4, <3>5 DEF CountsOK
    <2>6. StoredOK' /\ CacheOK'
        BY <1>0, <2>2 DEF IInv, StoredOK, CacheOK, Settled, Counters
    <2> QED BY <2>3, <2>4, <2>5, <2>6 DEF IInv
<1> QED BY <1>2, <1>3 DEF Submit

\* Whatever moves from the queue to a list of a worker, and from list to list,
\* stays with that worker; nothing of the queue comes back.
LEMMA TakeStep ==
    ASSUME IInv, NEW w \in Workers, NEW took \in SUBSET Queued, NEW b, pc[w] = "get",
           b = batch[w] \cup took,
           queue' \in Seq(Items), Len(queue') <= MaxSize,
           Distinct(queue'), Queued' = Queued \ took,
           \/ batch' = [batch EXCEPT ![w] = b] /\ UNCHANGED <<flight, pc>>
           \/ /\ b = {}
              /\ UNCHANGED <<batch, flight>>
              /\ pc' = [pc EXCEPT ![w] = "exited"]
           \/ Flush(w, b),
           leaving' \in [Workers -> BOOLEAN],
           UNCHANGED <<phase, owed, tocache, receipt, stored, metrics, early>>
    PROVE  IInv'
<1>0. Typed /\ b \in SUBSET Captures /\ flight[w] = {}
    BY QueuedType DEF IInv, Typed, TypeOK, ControlOK
<1>1. \/ /\ batch' = [batch EXCEPT ![w] = b] /\ UNCHANGED <<flight, pc>>
      \/ /\ b = {} /\ UNCHANGED <<batch, flight>> /\ pc' = [pc EXCEPT ![w] = "exited"]
      \/ /\ batch' = [batch EXCEPT ![w] = {}]
         /\ flight' = [flight EXCEPT ![w] = b]
         /\ pc' \in {[pc EXCEPT ![w] = "embed"], [pc EXCEPT ![w] = "dead"]}
    BY DEF Flush
<1>2. Typed'
    BY <1>0, <1>1 DEF Typed, TypeOK, Items, Ended
<1>3. ControlOK'
    BY <1>0, <1>1 DEF IInv, Typed, TypeOK, ControlOK
<1>4. HeldOK'
    <2>1. CASE batch' = [batch EXCEPT ![w] = b] /\ UNCHANGED <<flight, pc>>
        BY <1>0, <2>1 DEF IInv, Typed, TypeOK, HeldOK
    <2>2. CASE b = {} /\ UNCHANGED <<batch, flight>>
        BY <1>0, <2>2 DEF IInv, Typed, TypeOK, HeldOK
    <2>3. CASE batch' = [batch EXCEPT ![w] = {}] /\ flight' = [flight EXCEPT ![w] = b]
        BY <1>0, <2>3 DEF IInv, Typed, TypeOK, HeldOK
    <2> QED BY <1>1, <2>1, <2>2, <2>3
<1>5. ASSUME NEW c \in Captures PROVE Open(c)' <=> Open(c)
    <2>1. CASE batch' = [batch EXCEPT ![w] = b] /\ UNCHANGED <<flight, pc>>
        <3>1. \A v \in Workers : batch'[v] = IF v = w THEN b ELSE batch[v]
            BY <1>0, <2>1 DEF Typed, TypeOK
        <3> QED BY <2>1, <3>1 DEF Open
    <2>2. CASE b = {} /\ UNCHANGED <<batch, flight>>
        BY <2>2 DEF Open
    <2>3. CASE batch' = [batch EXCEPT ![w] = {}] /\ flight' = [flight EXCEPT ![w] = b]
        <3>1. \A v \in Workers : /\ batch'[v] = IF v = w THEN {} ELSE batch[v]
                                 /\ flight'[v] = IF v = w THEN b ELSE flight[v]
            BY <1>0, <2>3 DEF Typed, TypeOK
        <3> QED BY <1>0, <3>1 DEF Open
    <2> QED BY <1>1, <2>1, <2>2, <2>3
<1>6. CountsOK'
    BY <1>5 DEF IInv, CountsOK, CountsOf, Settled
<1>7. StoredOK'
    <2>1. \A v \in Workers, c \in Captures :
            c \in flight[v] /\ pc[v] = "cancelled" => c \in flight'[v] /\ pc'[v] = "cancelled"
        BY <1>0, <1>1 DEF Typed, TypeOK
    <2> QED BY <2>1 DEF IInv, StoredOK, Settled
<1>8. CacheOK'
    BY DEF IInv, CacheOK
<1> QED BY <1>2, <1>3, <1>4, <1>6, <1>7, <1>8 DEF IInv

LEMMA GetStep ==
    ASSUME IInv, NEW w \in Workers, Get(w)
    PROVE  IInv'
<1>1. /\ queue \in Seq(Items) /\ queue # <<>> /\ Head(queue) # Shutdown /\ Distinct(queue)
      /\ queue' = Tail(queue) /\ Len(queue) <= MaxSize /\ Len(queue) \in Nat /\ MaxSize \in Nat
    BY PipelineAssumption DEF IInv, Typed, TypeOK, Items, Get
<1>2. /\ queue' \in Seq(Items) /\ Len(queue') <= MaxSize /\ Distinct(queue')
      /\ Head(queue) \in Queued /\ Queued' = Queued \ {Head(queue)}
    BY <1>1, TakeHead, QueuedIs
<1> QED BY <1>2, TakeStep DEF Get, IInv, Typed, TypeOK

LEMMA FlushTimeoutStep ==
    ASSUME IInv, NEW w \in Workers, FlushTimeout(w)
    PROVE  IInv'
<1>1. /\ queue' \in Seq(Items) /\ Len(queue') <= MaxSize /\ Distinct(queue')
      /\ Queued' = Queued \ {}
    BY DEF IInv, Typed, TypeOK, Items, FlushTimeout, Queued
<1> QED BY <1>1, TakeStep DEF FlushTimeout, IInv, Typed, TypeOK

LEMMA TakeShutdownStep ==
    ASSUME IInv, NEW w \in Workers, TakeShutdown(w)
    PROVE  IInv'
<1>1. /\ queue' \in Seq(Items) /\ Len(queue') <= MaxSize /\ Distinct(queue')
      /\ Queued' = Queued \ Queued
    BY PipelineAssumption DEF TakeShutdown, Queued, Distinct
<1> QED BY <1>1, TakeStep DEF TakeShutdown, IInv, Typed, TypeOK

\* A step that moves no capture and changes only where workers are, none of
\* them away from where what they hold may be, and counters of the embedder.
LEMMA StillStep ==
    ASSUME IInv, Typed',
           UNCHANGED <<batch, flight, tocache, receipt, stored>>,
           Queued' = Queued, Distinct(queue'),
           ControlOK',
           \A w \in Workers : pc[w] = "cancelled" => pc'[w] = "cancelled",
           \A m \in {"submitted", "dropped", "written", "failed", "cached"}, c \in Captures :
                metrics'[m][c] = metrics[m][c]
    PROVE  IInv'
<1>1. HeldOK'
    BY DEF IInv, HeldOK
<1>2. ASSUME NEW c \in Captures PROVE CountsOf(c)'
    <2>1. Open(c)' <=> Open(c)
        BY DEF Open
    <2> QED BY <2>1 DEF IInv, CountsOK, CountsOf, Settled
<1>3. StoredOK' /\ CacheOK'
    BY DEF IInv, StoredOK, CacheOK, Settled
<1> QED BY <1>1, <1>2, <1>3 DEF IInv, CountsOK

LEMMA EmbedStep ==
    ASSUME IInv, NEW w \in Workers, Embed(w)
    PROVE  IInv'
<1>0. Typed /\ pc[w] = "embed" /\ pc' = [pc EXCEPT ![w] = "write"]
      /\ UNCHANGED <<phase, owed, queue, batch, flight, tocache, leaving, receipt, stored, early>>
    BY DEF Embed, IInv
<1>1. PICK S \in SUBSET flight[w] : Count("embedded", S)
    BY DEF Embed
<1>2. /\ metrics' \in [Counters -> [Captures -> Nat]]
      /\ \A m \in Counters \ {"embedded"}, c \in Captures : metrics'[m][c] = metrics[m][c]
    BY <1>0, <1>1, CountEffect DEF Counters
<1>3. Typed'
    BY <1>0, <1>2 DEF Typed, TypeOK
<1>4. Queued' = Queued /\ Distinct(queue') /\ ControlOK'
    BY <1>0 DEF IInv, Typed, TypeOK, Queued, ControlOK
<1> QED BY <1>0, <1>2, <1>3, <1>4, StillStep DEF Typed, TypeOK, Counters

LEMMA FlushDoneStep ==
    ASSUME IInv, NEW w \in Workers, FlushDone(w)
    PROVE  IInv'
<1>0. Typed /\ pc[w] = "cache" /\ pc' \in {[pc EXCEPT ![w] = "get"], [pc EXCEPT ![w] = "exited"]}
      /\ UNCHANGED <<phase, owed, queue, batch, flight, tocache, leaving, receipt, stored, metrics, early>>
    BY DEF FlushDone, AfterFlush, IInv
<1>1. Typed' /\ Queued' = Queued /\ Distinct(queue')
    <2>1. pc' \in [Workers -> {"new", "get", "embed", "write", "cache"} \cup Ended]
        BY <1>0 DEF Typed, TypeOK, Ended
    <2>2. Typed'
        BY <1>0, <2>1 DEF Typed, TypeOK
    <2> QED BY <1>0, <2>2 DEF IInv, Queued
<1>2. ControlOK'
    BY <1>0 DEF IInv, Typed, TypeOK, ControlOK
<1>3. \A v \in Workers : pc[v] = "cancelled" => pc'[v] = "cancelled"
    BY <1>0 DEF Typed, TypeOK
<1> QED BY <1>0, <1>1, <1>2, <1>3, StillStep

LEMMA StageRaisesStep ==
    ASSUME IInv, NEW w \in Workers, StageRaises(w)
    PROVE  IInv'
<1>0. Typed /\ pc[w] \in {"embed", "write", "cache"} /\ pc' = [pc EXCEPT ![w] = "dead"]
      /\ UNCHANGED <<phase, owed, queue, batch, flight, tocache, leaving, receipt, stored, metrics, early>>
    BY PipelineAssumption DEF StageRaises, IInv
<1>1. Typed' /\ Queued' = Queued /\ Distinct(queue')
    BY <1>0 DEF IInv, Typed, TypeOK, Queued, Ended
<1>2. ControlOK'
    BY <1>0 DEF IInv, Typed, TypeOK, ControlOK
<1>3. \A v \in Workers : pc[v] = "cancelled" => pc'[v] = "cancelled"
    BY <1>0 DEF Typed, TypeOK
<1> QED BY <1>0, <1>1, <1>2, <1>3, StillStep

LEMMA StartStep ==
    ASSUME IInv, \A w \in Workers : pc[w] = "new", Start
    PROVE  IInv'
<1>0. /\ pc' = [w \in Workers |-> "get"] /\ phase' = "running"
      /\ UNCHANGED <<owed, queue, batch, flight, tocache, leaving, receipt, stored, metrics, early>>
    BY DEF Start
<1>1. pc' \in [Workers -> {"new", "get", "embed", "write", "cache"} \cup Ended]
    BY <1>0
<1>2. Typed'
    BY <1>0, <1>1 DEF IInv, Typed, TypeOK
<1>3. Queued' = Queued /\ Distinct(queue')
    BY <1>0 DEF IInv, Queued
<1>4. ControlOK'
    BY <1>0 DEF IInv, ControlOK
<1>5. \A v \in Workers : pc[v] = "cancelled" => pc'[v] = "cancelled"
    OBVIOUS
<1>6. \A m \in {"submitted", "dropped", "written", "failed", "cached"}, c \in Captures :
            metrics'[m][c] = metrics[m][c]
    BY <1>0
<1> QED BY <1>0, <1>2, <1>3, <1>4, <1>5, <1>6, StillStep, Zenon

\* Sentinels fit in the queue.
LEMMA PutStep ==
    ASSUME IInv, NEW n \in 0..Cardinality(Workers), PutSentinels(n),
           early' \subseteq Captures,
           UNCHANGED <<pc, batch, flight, tocache, leaving, receipt, stored, metrics>>
    PROVE  IInv'
<1>0. Typed /\ queue \in Seq(Items) /\ Len(queue) \in 0..MaxSize /\ MaxSize \in Nat
      /\ Cardinality(Workers) \in Nat
    BY PipelineAssumption, FS_CardinalityType DEF IInv, Typed, TypeOK, Items
<1>1. PICK k \in 0..n : /\ Len(queue) + k <= MaxSize
                        /\ queue' = queue \o [i \in 1..k |-> Shutdown]
                        /\ owed' = n - k
                        /\ phase' \in {"draining", "stopping"}
    <2>1. CASE n <= MaxSize - Len(queue)
        <3> WITNESS n \in 0..n
        <3> QED BY <1>0, <2>1 DEF PutSentinels
    <2>2. CASE ~(n <= MaxSize - Len(queue))
        <3>1. MaxSize - Len(queue) \in 0..n
            BY <1>0, <2>2
        <3> WITNESS MaxSize - Len(queue) \in 0..n
        <3> QED BY <1>0, <2>2 DEF PutSentinels
    <2> QED BY <2>1, <2>2
<1>2. /\ queue' \in Seq(Items) /\ Len(queue') <= MaxSize
      /\ Queued' = Queued /\ Distinct(queue')
    <2>1. k \in Nat
        BY <1>0
    <2>2. /\ queue' \in Seq(Items) /\ Len(queue') = Len(queue) + k
          /\ QueuedOf(queue') = QueuedOf(queue)
          /\ Distinct(queue) => Distinct(queue')
        BY <1>0, <1>1, <2>1, AppendSentinels
    <2> QED BY <1>1, <2>2, QueuedIs DEF IInv
<1>3. Typed'
    BY <1>0, <1>1, <1>2 DEF Typed, TypeOK, Items
<1>4. ControlOK'
    BY DEF IInv, ControlOK
<1> QED BY <1>2, <1>3, <1>4, StillStep

\* The write of a batch returned or raised: the batch is settled, and nothing
\* of it was stored before.
LEMMA WriteStep ==
    ASSUME IInv, NEW w \in Workers, pc[w] = "write",
           NEW m \in {"written", "failed"}, Count(m, flight[w]),
           NEW T \in SUBSET flight[w], m = "written" => T = flight[w],
           stored' = AddTo(stored, T),
           flight' = [flight EXCEPT ![w] = {}],
           NEW p \in {"cache", "get", "exited"}, pc' = [pc EXCEPT ![w] = p],
           \/ m = "written" /\ tocache' = [tocache EXCEPT ![w] = flight[w] \cap Cacheable]
           \/ UNCHANGED tocache,
           UNCHANGED <<phase, owed, queue, batch, leaving, receipt, early>>
    PROVE  IInv'
<1> DEFINE S == flight[w]
<1>0. Typed /\ S \subseteq Captures
    BY DEF IInv, Typed, TypeOK
<1>1. /\ metrics' \in [Counters -> [Captures -> Nat]]
      /\ \A n \in Counters, c \in Captures :
           metrics'[n][c] = IF n = m /\ c \in S THEN metrics[n][c] + 1 ELSE metrics[n][c]
    BY <1>0, CountEffect DEF Counters
<1>2. /\ stored' \in [Captures -> Nat]
      /\ \A c \in Captures : stored'[c] = IF c \in T THEN stored[c] + 1 ELSE stored[c]
    BY <1>0, StoreEffect
<1>3. Queued' = Queued
    BY DEF Queued
<1>4. ASSUME NEW c \in S
      PROVE  /\ receipt[c] = "accepted" /\ ~Settled(c) /\ stored[c] = 0
             /\ c \notin Queued
             /\ \A v \in Workers : c \notin batch[v] /\ (c \in flight[v] => v = w)
             /\ \A v \in Workers : c \notin tocache[v]
    <2>1. c \in Captures /\ Open(c)
        BY <1>0 DEF Open
    <2>2. receipt[c] = "accepted" /\ ~Settled(c)
        BY <2>1 DEF IInv, CountsOK, CountsOf
    <2>3. c \notin Queued /\ \A v \in Workers : c \notin batch[v] /\ (c \in flight[v] => v = w)
        BY <2>1 DEF IInv, HeldOK
    <2>4. stored[c] = 0
        <3>1. ~(stored[c] > 0)
            BY <2>1, <2>2, <2>3 DEF IInv, StoredOK
        <3>2. stored[c] \in Nat
            BY <1>0, <2>1 DEF Typed, TypeOK
        <3> QED BY <3>1, <3>2
    <2>5. \A v \in Workers : c \notin tocache[v]
        BY <1>0, <2>1, <2>2 DEF IInv, CacheOK, Settled, Typed, TypeOK, Counters
    <2> QED BY <2>2, <2>3, <2>4, <2>5
<1>5. Typed'
    BY <1>0, <1>1, <1>2 DEF Typed, TypeOK, Ended
<1>6. ControlOK'
    BY <1>0 DEF IInv, Typed, TypeOK, ControlOK
<1>7. HeldOK'
    BY <1>0, <1>3 DEF IInv, Typed, TypeOK, HeldOK
<1>8. ASSUME NEW c \in Captures PROVE CountsOf(c)'
    <2>0. CountsOf(c)
        BY DEF IInv, CountsOK
    <2>1. CASE c \in S
        <3>1. ~Open(c)'
            BY <1>0, <1>3, <1>4, <2>1 DEF Open, Typed, TypeOK
        <3>2. metrics["written"][c] = 0 /\ metrics["failed"][c] = 0
            BY <1>0, <1>4, <2>1 DEF Settled, Typed, TypeOK, Counters
        <3>3. /\ metrics'["written"][c] + metrics'["failed"][c] = 1
              /\ metrics'["submitted"][c] = metrics["submitted"][c]
              /\ metrics'["dropped"][c] = metrics["dropped"][c]
            BY <1>1, <2>1, <3>2 DEF Counters
        <3> QED BY <1>4, <2>0, <2>1, <3>1, <3>3 DEF CountsOf, Settled
    <2>2. CASE c \notin S
        <3>1. Open(c)' <=> Open(c)
            BY <1>0, <1>3, <2>2 DEF Open, Typed, TypeOK
        <3>2. \A n \in Counters : metrics'[n][c] = metrics[n][c]
            BY <1>1, <2>2
        <3> QED BY <2>0, <3>1, <3>2 DEF CountsOf, Settled, Counters
    <2> QED BY <2>1, <2>2
<1>9. StoredOK'
    <2>1. ASSUME NEW c \in S
          PROVE  /\ stored'[c] <= 1
                 /\ metrics'["written"][c] > 0 => stored'[c] = 1
                 /\ Settled(c)'
        <3>1. c \in Captures /\ metrics["written"][c] = 0 /\ metrics["failed"][c] = 0
            BY <1>0, <1>4 DEF Settled, Typed, TypeOK, Counters
        <3> QED BY <1>1, <1>2, <1>4, <3>1 DEF Settled, Counters
    <2>2. ASSUME NEW c \in Captures \ S
          PROVE  /\ stored'[c] <= 1
                 /\ metrics'["written"][c] > 0 => stored'[c] = 1
                 /\ stored'[c] > 0 =>
                      \/ Settled(c)'
                      \/ \E v \in Workers : c \in flight'[v] /\ pc'[v] = "cancelled"
        <3>1. stored'[c] = stored[c] /\ \A n \in Counters : metrics'[n][c] = metrics[n][c]
            BY <1>1, <1>2
        <3>2. \A v \in Workers :
                c \in flight[v] /\ pc[v] = "cancelled" => c \in flight'[v] /\ pc'[v] = "cancelled"
            BY <1>0 DEF Typed, TypeOK
        <3> QED BY <3>1, <3>2 DEF IInv, StoredOK, Settled, Counters
    <2> QED BY <2>1, <2>2 DEF StoredOK
<1>10. CacheOK'
    <2>1. ASSUME NEW c \in Captures
          PROVE  /\ metrics'["cached"][c] = metrics["cached"][c]
                 /\ metrics["written"][c] <= metrics'["written"][c]
                 /\ metrics["cached"][c] <= metrics["written"][c]
                 /\ metrics["cached"][c] > 0 => c \in Cacheable
                 /\ {metrics["cached"][c], metrics["written"][c], metrics'["written"][c]} \subseteq Nat
        BY <1>0, <1>1 DEF IInv, CacheOK, Typed, TypeOK, Counters
    <2>2. ASSUME NEW c \in Captures, NEW v \in Workers, c \in tocache'[v]
          PROVE  /\ c \in Cacheable
                 /\ metrics'["written"][c] = 1
                 /\ metrics'["cached"][c] = 0
                 /\ \A u \in Workers : c \in tocache'[u] => u = v
        <3>1. CASE UNCHANGED tocache
            <4>1. c \notin S
                BY <1>4, <2>2, <3>1
            <4> QED BY <1>1, <2>2, <3>1, <4>1 DEF IInv, CacheOK, Counters
        <3>2. CASE m = "written" /\ tocache' = [tocache EXCEPT ![w] = S \cap Cacheable]
            <4>1. CASE c \in S
                <5>1. v = w /\ c \in Cacheable /\ \A u \in Workers : c \in tocache'[u] => u = v
                    BY <1>0, <1>4, <2>2, <3>2, <4>1 DEF Typed, TypeOK
                <5>2. metrics["written"][c] = 0
                    BY <1>0, <1>4, <4>1 DEF Settled, Typed, TypeOK, Counters
                <5>3. metrics'["written"][c] = 1 /\ metrics'["cached"][c] = 0
                    BY <1>1, <2>1, <3>2, <4>1, <5>2 DEF Counters
                <5> QED BY <5>1, <5>3
            <4>2. CASE c \notin S
                <5>1. c \in tocache[v] /\ \A u \in Workers : c \in tocache'[u] => c \in tocache[u]
                    BY <1>0, <2>2, <3>2, <4>2 DEF Typed, TypeOK
                <5> QED BY <1>1, <4>2, <5>1 DEF IInv, CacheOK, Counters
            <4> QED BY <4>1, <4>2
        <3> QED BY <3>1, <3>2
    <2> QED BY <2>1, <2>2 DEF CacheOK
<1> QED BY <1>3, <1>5, <1>6, <1>7, <1>8, <1>9, <1>10 DEF IInv, CountsOK

LEMMA WriteOkStep ==
    ASSUME IInv, NEW w \in Workers, WriteOk(w)
    PROVE  IInv'
BY WriteStep DEF WriteOk

LEMMA WriteFailsStep ==
    ASSUME IInv, NEW w \in Workers, WriteFails(w)
    PROVE  IInv'
<1>1. PICK T \in SUBSET flight[w] : stored' = AddTo(stored, T)
    BY DEF WriteFails
<1>2. AfterFlush(w) \in {"cache", "get", "exited"}
    BY DEF AfterFlush
<1> QED BY <1>1, <1>2, WriteStep DEF WriteFails

LEMMA CachePutStep ==
    ASSUME IInv, NEW w \in Workers, CachePut(w)
    PROVE  IInv'
<1>0. Typed /\ UNCHANGED <<phase, owed, queue, pc, batch, flight, leaving, receipt, stored, early>>
    BY DEF IInv, CachePut
<1>1. PICK c \in tocache[w] : /\ tocache' = [tocache EXCEPT ![w] = @ \ {c}]
                              /\ Count("cached", {c}) \/ UNCHANGED metrics
    BY DEF CachePut
<1>2. c \in Captures
    BY <1>0 DEF Typed, TypeOK
<1>3. /\ metrics' \in [Counters -> [Captures -> Nat]]
      /\ \A n \in Counters, d \in Captures : n # "cached" \/ d # c => metrics'[n][d] = metrics[n][d]
      /\ metrics'["cached"][c] \in {metrics["cached"][c], metrics["cached"][c] + 1}
    <2>1. CASE Count("cached", {c})
        BY <1>0, <1>2, <2>1, CountEffect DEF Counters
    <2>2. CASE UNCHANGED metrics
        BY <1>0, <2>2 DEF Typed, TypeOK
    <2> QED BY <1>1, <2>1, <2>2
<1>4. Typed'
    BY <1>0, <1>1, <1>3 DEF Typed, TypeOK
<1>5. Queued' = Queued /\ Distinct(queue') /\ ControlOK' /\ HeldOK'
    BY <1>0 DEF IInv, Queued, ControlOK, HeldOK
<1>6. \A n \in Counters \ {"cached"}, d \in Captures : metrics'[n][d] = metrics[n][d]
    BY <1>3
<1>7. ASSUME NEW d \in Captures PROVE CountsOf(d)'
    <2>1. Open(d)' <=> Open(d)
        BY <1>0, <1>5 DEF Open
    <2> QED BY <1>0, <1>6, <2>1 DEF IInv, CountsOK, CountsOf, Settled, Counters
<1>8. StoredOK'
    BY <1>0, <1>6 DEF IInv, StoredOK, Settled, Counters
<1>9. CacheOK'
    <2>1. \A v \in Workers : tocache'[v] = IF v = w THEN tocache[w] \ {c} ELSE tocache[v]
        BY <1>0, <1>1 DEF Typed, TypeOK
    <2>2. \A v \in Workers : c \notin tocache'[v]
        BY <1>1, <1>2, <2>1 DEF IInv, CacheOK
    <2>3. /\ metrics["cached"][c] = 0 /\ metrics["written"][c] = 1 /\ c \in Cacheable
          /\ metrics'["written"][c] = 1
        BY <1>1, <1>2, <1>6 DEF IInv, CacheOK, Counters
    <2>4. metrics'["cached"][c] <= metrics'["written"][c] /\ c \in Cacheable
        BY <1>3, <2>3
    <2>5. ASSUME NEW d \in Captures \ {c}
          PROVE  /\ metrics'["cached"][d] = metrics["cached"][d]
                 /\ metrics'["written"][d] = metrics["written"][d]
        BY <1>3 DEF Counters
    <2> QED BY <2>1, <2>2, <2>4, <2>5 DEF IInv, CacheOK
<1> QED BY <1>4, <1>5, <1>7, <1>8, <1>9 DEF IInv, CountsOK

LEMMA StopReturnsStep ==
    ASSUME IInv, StopReturns
    PROVE  IInv'
<1>1. /\ phase' = "stopped"
      /\ UNCHANGED <<owed, queue, pc, batch, flight, tocache, leaving, receipt, stored, metrics, early>>
    BY DEF StopReturns
<1>2. Typed' /\ Queued' = Queued /\ Distinct(queue') /\ ControlOK'
    BY <1>1 DEF IInv, Typed, TypeOK, Queued, ControlOK
<1> QED BY <1>1, <1>2, StillStep

\* An insert that was under way when its worker was cancelled may have stored
\* some of the batch, which nobody will count or write again.
LEMMA DrainTimeoutStep ==
    ASSUME IInv, DrainTimeout
    PROVE  IInv'
<1> DEFINE writers == {v \in Workers : pc[v] = "write"}
<1>0. /\ Typed /\ phase' = "stopped"
      /\ pc' = [w \in Workers |-> IF Alive(w) THEN "cancelled" ELSE pc[w]]
      /\ UNCHANGED <<owed, queue, batch, flight, tocache, leaving, receipt, metrics, early>>
    BY DEF IInv, DrainTimeout
<1>1. PICK T \in SUBSET UNION {flight[w] : w \in writers} : stored' = AddTo(stored, T)
    BY DEF DrainTimeout
<1>2. /\ stored' \in [Captures -> Nat]
      /\ \A c \in Captures : stored'[c] = IF c \in T THEN stored[c] + 1 ELSE stored[c]
    BY <1>0, <1>1, StoreEffect
<1>3. pc' \in [Workers -> {"new", "get", "embed", "write", "cache"} \cup Ended]
    BY <1>0 DEF Typed, TypeOK, Ended
<1>4. Typed'
    BY <1>0, <1>2, <1>3 DEF Typed, TypeOK
<1>5. Queued' = Queued /\ Distinct(queue') /\ HeldOK'
    BY <1>0 DEF IInv, Queued, HeldOK
<1>6. ControlOK'
    BY <1>0 DEF IInv, ControlOK
<1>7. ASSUME NEW c \in Captures PROVE CountsOf(c)'
    <2>1. Open(c)' <=> Open(c)
        BY <1>0, <1>5 DEF Open
    <2> QED BY <1>0, <2>1 DEF IInv, CountsOK, CountsOf, Settled
<1>8. StoredOK'
    <2>1. ASSUME NEW c \in T
          PROVE  /\ c \in Captures /\ stored[c] = 0 /\ metrics["written"][c] = 0
                 /\ \E v \in Workers : c \in flight'[v] /\ pc'[v] = "cancelled"
        <3>1. PICK v \in Workers : c \in flight[v] /\ pc[v] = "write"
            BY <1>1
        <3>2. c \in Captures /\ Open(c)
            BY <1>0, <3>1 DEF Typed, TypeOK, Open
        <3>3. ~Settled(c) /\ \A u \in Workers : c \in flight[u] => u = v
            BY <3>1, <3>2 DEF IInv, CountsOK, CountsOf, HeldOK
        <3>4. ~(stored[c] > 0) /\ stored[c] \in Nat
            BY <1>0, <3>1, <3>2, <3>3 DEF IInv, StoredOK, Typed, TypeOK
        <3>5. metrics["written"][c] = 0
            BY <1>0, <3>2, <3>3 DEF Settled, Typed, TypeOK, Counters
        <3>6. flight'[v] = flight[v] /\ pc'[v] = "cancelled"
            BY <1>0, <3>1 DEF Alive, Ended
        <3> QED BY <3>1, <3>2, <3>4, <3>5, <3>6
    <2>2. ASSUME NEW c \in Captures \ T
          PROVE  /\ stored'[c] = stored[c]
                 /\ \A v \in Workers : pc[v] = "cancelled" => pc'[v] = "cancelled"
        BY <1>0, <1>2 DEF Alive, Ended
    <2>3. ASSUME NEW c \in Captures, c \in T
          PROVE  /\ stored'[c] = 1 /\ ~(metrics'["written"][c] > 0)
                 /\ \E v \in Workers : c \in flight'[v] /\ pc'[v] = "cancelled"
        BY <1>0, <1>2, <2>1, <2>3
    <2>4. ASSUME NEW c \in Captures, c \notin T
          PROVE  /\ stored'[c] <= 1
                 /\ metrics'["written"][c] > 0 => stored'[c] = 1
                 /\ stored'[c] > 0 =>
                      \/ Settled(c)'
                      \/ \E v \in Workers : c \in flight'[v] /\ pc'[v] = "cancelled"
        BY <1>0, <2>2, <2>4 DEF IInv, StoredOK, Settled
    <2> QED BY <2>3, <2>4 DEF StoredOK
<1>9. CacheOK'
    BY <1>0 DEF IInv, CacheOK
<1> QED BY <1>4, <1>5, <1>6, <1>7, <1>8, <1>9 DEF IInv, CountsOK

----------------------------------------------------------------------------
(* What the workers have left, what they wait with, and what stop() found *)

Fresh == phase = "new" => \A w \in Workers : pc[w] = "new" /\ ~leaving[w]

\* What a worker may answer for.
Most(w) == IF leaving[w] THEN (BatchSize - 1) + (MaxSize - 1) ELSE BatchSize

BatchOf(w) ==
    /\ IsFiniteSet(batch[w])
    /\ Cardinality(batch[w]) < BatchSize
    /\ IsFiniteSet(flight[w])
    /\ Cardinality(flight[w]) <= Most(w)
    /\ batch[w] = {} \/ flight[w] = {}
    /\ pc[w] = "get" => ~leaving[w]

BatchOK == \A w \in Workers : BatchOf(w)

\* What was accepted before stop() is in front of the sentinels, and the first
\* worker to take a sentinel takes all of it.
EarlyOK ==
    /\ phase \in {"new", "running"} =>
          /\ \A w \in Workers : ~leaving[w]
          /\ \A i \in 1..Len(queue) : queue[i] # Shutdown
    /\ \A i, j \in 1..Len(queue) : queue[i] = Shutdown /\ i < j => queue[j] \notin early
    /\ \A w \in Workers :
          /\ leaving[w] => early \cap Queued = {}
          /\ pc[w] = "exited" => leaving[w]
    /\ \A c \in early : receipt[c] = "accepted"

FInv == IInv /\ Fresh /\ BatchOK /\ EarlyOK

LEMMA FreshStep == Fresh /\ Typed /\ [Next]_vars => Fresh'
<1> SUFFICES ASSUME Fresh, Typed, [Next]_vars PROVE Fresh'
    OBVIOUS
<1>1. ASSUME NEW c \in Captures, Submit(c) PROVE Fresh'
    BY <1>1 DEF Submit, Fresh
<1>2. ASSUME NEW w \in Workers, Worker(w) PROVE Fresh'
    <2>1. pc[w] # "new" /\ phase' = phase
        BY <1>2, PipelineAssumption
           DEF Worker, Get, FlushTimeout, TakeShutdown, Embed, WriteOk, WriteFails, CachePut,
               FlushDone, StageRaises
    <2> QED BY <2>1 DEF Fresh
<1>3. CASE Start \/ Stop \/ StopResumes \/ StopReturns \/ DrainTimeout
    BY <1>3 DEF Start, Stop, StopResumes, StopReturns, DrainTimeout, PutSentinels, Fresh
<1>4. CASE UNCHANGED vars
    BY <1>4 DEF vars, Fresh
<1> QED BY <1>1, <1>2, <1>3, <1>4 DEF Next, PatientNext, Stopper

LEMMA IInvStep == IInv /\ Fresh /\ [Next]_vars => IInv'
<1> SUFFICES ASSUME IInv, Fresh, [Next]_vars PROVE IInv'
    OBVIOUS
<1>1. ASSUME NEW c \in Captures, Submit(c) PROVE IInv'
    BY <1>1, SubmitStep
<1>2. ASSUME NEW w \in Workers, Worker(w) PROVE IInv'
    BY <1>2, GetStep, FlushTimeoutStep, TakeShutdownStep, EmbedStep, WriteOkStep, WriteFailsStep,
       CachePutStep, FlushDoneStep, StageRaisesStep DEF Worker
<1>3. CASE Start
    BY <1>3, StartStep DEF Start, Fresh
<1>4. CASE Stop
    <2>1. Cardinality(Workers) \in 0..Cardinality(Workers)
        BY PipelineAssumption, FS_CardinalityType
    <2> QED BY <1>4, <2>1, PutStep DEF Stop
<1>5. CASE StopResumes
    <2>1. owed \in 0..Cardinality(Workers) /\ early \subseteq Captures
        BY DEF IInv, Typed, TypeOK
    <2> QED BY <1>5, <2>1, PutStep DEF StopResumes
<1>6. CASE StopReturns
    BY <1>6, StopReturnsStep
<1>7. CASE DrainTimeout
    BY <1>7, DrainTimeoutStep
<1>8. CASE UNCHANGED vars
    <2>1. /\ UNCHANGED <<batch, flight, tocache, receipt, stored, metrics, pc, queue>>
          /\ Typed' /\ ControlOK' /\ Queued' = Queued /\ Distinct(queue')
        BY <1>8 DEF vars, IInv, Typed, TypeOK, ControlOK, Queued
    <2> QED BY <2>1, StillStep
<1> QED BY <1>1, <1>2, <1>3, <1>4, <1>5, <1>6, <1>7, <1>8 DEF Next, PatientNext, Stopper

\* Behind a sentinel there are fewer captures than the queue has places.
LEMMA QueuedCount ==
    ASSUME NEW q \in Seq(Items), q # <<>>, Head(q) = Shutdown
    PROVE  /\ IsFiniteSet(QueuedOf(q))
           /\ Cardinality(QueuedOf(q)) \in 0..(Len(q) - 1)
<1>1. Len(q) \in Nat /\ Len(q) > 0 /\ Head(q) = q[1]
    OBVIOUS
<1> DEFINE I == 2..Len(q)
           T == {q[i] : i \in I}
           f == [i \in I |-> q[i]]
<1>2. IsFiniteSet(I) /\ Cardinality(I) = Len(q) - 1
    BY <1>1, FS_Interval
<1>3. f \in Surjection(I, T)
    BY DEF Surjection
<1>4. IsFiniteSet(T) /\ Cardinality(T) <= Cardinality(I) /\ Cardinality(T) \in Nat
    <2> HIDE DEF I, T, f
    <2> QED BY <1>2, <1>3, FS_Surjection, FS_CardinalityType
<1>5. QueuedOf(q) \subseteq T
    BY <1>1 DEF QueuedOf
<1>6. IsFiniteSet(QueuedOf(q)) /\ Cardinality(QueuedOf(q)) <= Cardinality(T)
    <2> HIDE DEF T
    <2> QED BY <1>4, <1>5, FS_Subset
<1> HIDE DEF T, I
<1> QED BY <1>1, <1>2, <1>4, <1>6, FS_CardinalityType

\* A worker that a step leaves alone, but for where it goes on.
LEMMA BatchKept ==
    ASSUME NEW w \in Workers, BatchOf(w),
           batch'[w] = batch[w], flight'[w] = flight[w] \/ flight'[w] = {},
           leaving'[w] = leaving[w], pc'[w] = "get" => ~leaving[w]
    PROVE  BatchOf(w)'
<1>1. IsFiniteSet({}) /\ Cardinality({}) = 0 /\ 0 <= Most(w)
    BY FS_EmptySet, PipelineAssumption DEF Most
<1> QED BY <1>1 DEF BatchOf, Most

LEMMA BatchStep == IInv /\ Fresh /\ BatchOK /\ [Next]_vars => BatchOK'
<1> SUFFICES ASSUME IInv, Fresh, BatchOK, [Next]_vars PROVE BatchOK'
    OBVIOUS
<1>0. /\ Typed /\ IsFiniteSet({}) /\ Cardinality({}) = 0
      /\ BatchSize \in Nat \ {0} /\ MaxSize \in Nat \ {0}
    BY FS_EmptySet, PipelineAssumption DEF IInv
<1>1. ASSUME UNCHANGED <<batch, flight, leaving>>,
             \A w \in Workers : pc'[w] = "get" => pc[w] = "get" \/ ~leaving[w]
      PROVE  BatchOK'
    BY <1>1, BatchKept DEF BatchOK, BatchOf
\* What a worker flushes becomes its flight.
<1>2. ASSUME NEW w \in Workers, NEW b, Flush(w, b),
             IsFiniteSet(b), Cardinality(b) <= Most(w)', leaving'[w] \in BOOLEAN,
             \A v \in Workers \ {w} : leaving'[v] = leaving[v]
      PROVE  BatchOK'
    <2>1. /\ batch'[w] = {} /\ flight'[w] = b /\ pc'[w] # "get"
          /\ \A v \in Workers \ {w} : /\ batch'[v] = batch[v] /\ flight'[v] = flight[v]
                                      /\ pc'[v] = pc[v]
        BY <1>0, <1>2 DEF Flush, Typed, TypeOK
    <2>2. BatchOf(w)'
        BY <1>0, <1>2, <2>1 DEF BatchOf
    <2>3. ASSUME NEW v \in Workers \ {w} PROVE BatchOf(v)'
        BY <1>2, <2>1, BatchKept DEF BatchOK, BatchOf
    <2> QED BY <2>2, <2>3 DEF BatchOK
<1>3. ASSUME NEW c \in Captures, Submit(c) PROVE BatchOK'
    BY <1>1, <1>3 DEF Submit
<1>4. ASSUME NEW w \in Workers, Get(w) PROVE BatchOK'
    <2> DEFINE b == batch[w] \cup {Head(queue)}
    <2>1. /\ IsFiniteSet(batch[w]) /\ Cardinality(batch[w]) \in Nat
          /\ Cardinality(batch[w]) < BatchSize /\ ~leaving[w] /\ UNCHANGED leaving
          /\ flight[w] = {} /\ leaving[w] \in BOOLEAN
        BY <1>0, <1>4, FS_CardinalityType
           DEF BatchOK, BatchOf, Get, IInv, ControlOK, Typed, TypeOK
    <2>2. IsFiniteSet(b) /\ Cardinality(b) \in Nat /\ Cardinality(b) <= Cardinality(batch[w]) + 1
        <3>1. IsFiniteSet(b) /\ Cardinality(b) = IF Head(queue) \in batch[w]
                THEN Cardinality(batch[w]) ELSE Cardinality(batch[w]) + 1
            BY <2>1, FS_AddElement
        <3> HIDE DEF b
        <3> QED BY <2>1, <3>1
    <2>3. CASE Flush(w, b)
        <3>1. Cardinality(b) <= Most(w)'
            BY <1>0, <2>1, <2>2 DEF Most
        <3> QED BY <1>2, <2>1, <2>2, <2>3, <3>1
    <2>4. CASE ~Full(b) /\ batch' = [batch EXCEPT ![w] = b] /\ UNCHANGED <<flight, pc>>
        <3>1. Cardinality(b) < BatchSize
            BY <1>0, <2>2, <2>4 DEF Full
        <3>2. BatchOf(w)'
            <4>1. /\ batch'[w] = b /\ flight'[w] = {} /\ ~leaving'[w]
                BY <1>0, <2>1, <2>4 DEF Typed, TypeOK
            <4> HIDE DEF b
            <4> QED BY <1>0, <2>2, <3>1, <4>1 DEF BatchOf, Most
        <3>3. ASSUME NEW v \in Workers \ {w} PROVE BatchOf(v)'
            BY <1>0, <2>1, <2>4, BatchKept DEF BatchOK, BatchOf, Typed, TypeOK
        <3> QED BY <3>2, <3>3 DEF BatchOK
    <2> QED BY <1>4, <2>3, <2>4 DEF Get
<1>5. ASSUME NEW w \in Workers, FlushTimeout(w) PROVE BatchOK'
    <2>1. /\ IsFiniteSet(batch[w]) /\ Cardinality(batch[w]) \in Nat
          /\ Cardinality(batch[w]) < BatchSize /\ ~leaving[w] /\ UNCHANGED leaving
          /\ leaving[w] \in BOOLEAN
        BY <1>0, <1>5, FS_CardinalityType DEF BatchOK, BatchOf, FlushTimeout, Typed, TypeOK
    <2>2. Cardinality(batch[w]) <= Most(w)'
        BY <1>0, <2>1 DEF Most
    <2> QED BY <1>2, <1>5, <2>1, <2>2 DEF FlushTimeout
<1>6. ASSUME NEW w \in Workers, TakeShutdown(w) PROVE BatchOK'
    <2>1. /\ IsFiniteSet(batch[w]) /\ Cardinality(batch[w]) \in Nat
          /\ Cardinality(batch[w]) < BatchSize /\ flight[w] = {}
          /\ leaving' = [leaving EXCEPT ![w] = TRUE]
          /\ queue \in Seq(Items) /\ queue # <<>> /\ Head(queue) = Shutdown
          /\ Len(queue) <= MaxSize /\ Len(queue) \in Nat
        <3>1. /\ leaving' = [leaving EXCEPT ![w] = TRUE]
              /\ queue \in Seq(Items) /\ queue # <<>> /\ Head(queue) = Shutdown
              /\ Len(queue) <= MaxSize /\ pc[w] = "get"
            BY <1>0, <1>6 DEF TakeShutdown, Typed, TypeOK, Items
        <3>2. flight[w] = {}
            BY <3>1 DEF IInv, ControlOK
        <3>3. /\ IsFiniteSet(batch[w]) /\ Cardinality(batch[w]) \in Nat
              /\ Cardinality(batch[w]) < BatchSize
            BY FS_CardinalityType DEF BatchOK, BatchOf
        <3>4. Len(queue) \in Nat
            BY <3>1
        <3> QED BY <3>1, <3>2, <3>3, <3>4
    <2>2. /\ leaving'[w] = TRUE /\ \A v \in Workers \ {w} : leaving'[v] = leaving[v]
        BY <1>0, <2>1 DEF Typed, TypeOK
    <2>3. CASE Flush(w, batch[w] \cup Queued)
        <3>1. /\ IsFiniteSet(Queued) /\ Cardinality(Queued) \in Nat
              /\ Cardinality(Queued) <= Len(queue) - 1
            BY <2>1, QueuedCount, QueuedIs
        <3>2. IsFiniteSet(batch[w] \cup Queued) /\ Cardinality(batch[w] \cup Queued) \in Nat
            BY <2>1, <3>1, FS_Union, FS_CardinalityType
        <3>3. Cardinality(batch[w] \cup Queued) <= Cardinality(batch[w]) + Cardinality(Queued)
            <4>1. batch[w] \cap Queued \in SUBSET batch[w]
                OBVIOUS
            <4>2. Cardinality(batch[w] \cap Queued) \in Nat
                BY <2>1, <4>1, FS_Subset, FS_CardinalityType
            <4>3. Cardinality(batch[w] \cup Queued) =
                    Cardinality(batch[w]) + Cardinality(Queued) - Cardinality(batch[w] \cap Queued)
                BY <2>1, <3>1, FS_Union
            <4> QED BY <2>1, <3>1, <4>2, <4>3
        <3>4. Cardinality(batch[w] \cup Queued) <= Most(w)'
            BY <1>0, <2>1, <2>2, <3>1, <3>2, <3>3 DEF Most
        <3> QED BY <1>2, <2>2, <2>3, <3>2, <3>4
    <2>4. CASE pc' = [pc EXCEPT ![w] = "exited"] /\ UNCHANGED <<batch, flight>>
        <3>1. BatchOf(w)'
            <4>1. batch'[w] = batch[w] /\ flight'[w] = {} /\ pc'[w] = "exited"
                BY <1>0, <2>1, <2>4 DEF Typed, TypeOK
            <4> QED BY <1>0, <2>1, <2>2, <4>1 DEF BatchOf, Most
        <3>2. ASSUME NEW v \in Workers \ {w} PROVE BatchOf(v)'
            BY <1>0, <2>2, <2>4, BatchKept DEF BatchOK, BatchOf, Typed, TypeOK
        <3> QED BY <3>1, <3>2 DEF BatchOK
    <2> QED BY <1>6, <2>3, <2>4 DEF TakeShutdown
<1>7. ASSUME NEW w \in Workers,
             Embed(w) \/ WriteOk(w) \/ WriteFails(w) \/ CachePut(w) \/ FlushDone(w) \/ StageRaises(w)
      PROVE  BatchOK'
    <2>1. /\ UNCHANGED <<batch, leaving>>
          /\ pc'[w] = "get" => ~leaving[w]
        BY <1>0, <1>7, PipelineAssumption
           DEF Embed, WriteOk, WriteFails, CachePut, FlushDone, StageRaises, AfterFlush, Typed, TypeOK
    <2>2. \A v \in Workers : flight'[v] = flight[v] \/ flight'[v] = {}
        BY <1>0, <1>7
           DEF Embed, WriteOk, WriteFails, CachePut, FlushDone, StageRaises, Typed, TypeOK
    <2>3. \A v \in Workers \ {w} : pc'[v] = pc[v]
        BY <1>0, <1>7
           DEF Embed, WriteOk, WriteFails, CachePut, FlushDone, StageRaises, Typed, TypeOK
    <2> QED BY <2>1, <2>2, <2>3, BatchKept DEF BatchOK, BatchOf
<1>8. CASE Start
    <2>1. \A w \in Workers : ~leaving[w]
        BY <1>8 DEF Start, Fresh
    <2> QED BY <1>1, <1>8, <2>1 DEF Start
<1>9. CASE Stop \/ StopResumes \/ StopReturns \/ UNCHANGED vars
    BY <1>1, <1>9 DEF Stop, StopResumes, StopReturns, vars
<1>10. CASE DrainTimeout
    <2>1. /\ UNCHANGED <<batch, flight, leaving>>
          /\ \A w \in Workers : pc'[w] = "get" => pc[w] = "get"
        BY <1>10 DEF DrainTimeout
    <2> QED BY <1>1, <2>1
<1> QED BY <1>3, <1>4, <1>5, <1>6, <1>7, <1>8, <1>9, <1>10 DEF Next, PatientNext, Stopper, Worker

\* Steps that leave the queue and what was accepted early alone.
LEMMA EarlyKept ==
    ASSUME EarlyOK, UNCHANGED <<queue, leaving, early>>,
           phase' \in {"new", "running"} => phase \in {"new", "running"},
           \A w \in Workers : pc'[w] = "exited" => leaving[w],
           \A c \in early : receipt'[c] = receipt[c]
    PROVE  EarlyOK'
<1>1. Queued' = Queued
    BY DEF Queued
<1> QED BY <1>1 DEF EarlyOK

LEMMA EarlyStep == IInv /\ EarlyOK /\ [Next]_vars => EarlyOK'
<1> SUFFICES ASSUME IInv, EarlyOK, [Next]_vars PROVE EarlyOK'
    OBVIOUS
<1>0. Typed /\ queue \in Seq(Items) /\ Len(queue) \in Nat
    BY DEF IInv, Typed, TypeOK, Items
<1>1. ASSUME NEW c \in Captures, Submit(c) PROVE EarlyOK'
    <2>1. /\ receipt[c] = "none" /\ c \notin early /\ c # Shutdown /\ c \in Items
          /\ UNCHANGED <<phase, pc, leaving, early>>
        BY <1>1, PipelineAssumption DEF EarlyOK, Submit, Items
    <2>2. \A d \in early : receipt'[d] = receipt[d]
        BY <1>0, <1>1, <2>1 DEF Submit, Typed, TypeOK
    <2>3. CASE UNCHANGED queue
        BY <1>1, <2>1, <2>2, <2>3, EarlyKept DEF EarlyOK
    <2>4. CASE queue' = Append(queue, c)
        <3>1. /\ Len(queue') = Len(queue) + 1 /\ queue'[Len(queue) + 1] = c
              /\ \A i \in 1..Len(queue) : queue'[i] = queue[i]
            BY <1>0, <2>1, <2>4
        <3>2. Queued' = Queued \cup {c}
            BY <1>0, <2>4, AppendCapture, QueuedIs
        <3>3. phase' \in {"new", "running"} => \A i \in 1..Len(queue') : queue'[i] # Shutdown
            BY <1>0, <2>1, <3>1 DEF EarlyOK
        <3>4. \A i, j \in 1..Len(queue') : queue'[i] = Shutdown /\ i < j => queue'[j] \notin early'
            BY <1>0, <2>1, <3>1 DEF EarlyOK
        <3> QED BY <2>1, <2>2, <3>2, <3>3, <3>4 DEF EarlyOK
    <2> QED BY <1>1, <2>3, <2>4 DEF Submit
<1>2. ASSUME NEW w \in Workers, Get(w) PROVE EarlyOK'
    <2>1. /\ queue # <<>> /\ Head(queue) # Shutdown /\ queue' = Tail(queue)
          /\ UNCHANGED <<phase, leaving, receipt, early>>
          /\ \A v \in Workers : pc'[v] = "exited" => pc[v] = "exited"
        BY <1>0, <1>2 DEF Get, Flush, Typed, TypeOK
    <2>2. /\ Len(queue') = Len(queue) - 1
          /\ \A i \in 1..Len(queue') : i + 1 \in 1..Len(queue) /\ queue'[i] = queue[i + 1]
        BY <1>0, <2>1
    <2>3. Queued' \subseteq Queued
        BY <2>2 DEF Queued
    <2>4. phase' \in {"new", "running"} => \A i \in 1..Len(queue') : queue'[i] # Shutdown
        BY <2>1, <2>2 DEF EarlyOK
    <2>5. \A i, j \in 1..Len(queue') : queue'[i] = Shutdown /\ i < j => queue'[j] \notin early'
        BY <1>0, <2>1, <2>2 DEF EarlyOK
    <2> QED BY <2>1, <2>3, <2>4, <2>5 DEF EarlyOK
<1>3. ASSUME NEW w \in Workers, FlushTimeout(w) PROVE EarlyOK'
    <2>1. \A v \in Workers : pc'[v] = "exited" => pc[v] = "exited"
        BY <1>0, <1>3 DEF FlushTimeout, Flush, Typed, TypeOK
    <2> QED BY <1>3, <2>1, EarlyKept DEF FlushTimeout, EarlyOK
<1>4. ASSUME NEW w \in Workers, TakeShutdown(w) PROVE EarlyOK'
    <2>1. /\ queue # <<>> /\ Head(queue) = Shutdown /\ queue' = <<>>
          /\ leaving' = [leaving EXCEPT ![w] = TRUE]
          /\ UNCHANGED <<phase, receipt, early>>
        BY <1>4 DEF TakeShutdown
    <2>2. phase \notin {"new", "running"}
        BY <1>0, <2>1 DEF EarlyOK
    <2>3. Queued' = {} /\ Len(queue') = 0
        BY <2>1 DEF Queued
    <2>4. \A v \in Workers \ {w} : pc'[v] = pc[v]
        BY <1>0, <1>4 DEF TakeShutdown, Flush, Typed, TypeOK
    <2>5. \A v \in Workers : pc'[v] = "exited" => leaving'[v]
        BY <1>0, <2>1, <2>4 DEF EarlyOK, Typed, TypeOK
    <2> QED BY <2>1, <2>2, <2>3, <2>5 DEF EarlyOK
<1>5. ASSUME NEW w \in Workers,
             Embed(w) \/ WriteOk(w) \/ WriteFails(w) \/ CachePut(w) \/ FlushDone(w) \/ StageRaises(w)
      PROVE  EarlyOK'
    <2>1. UNCHANGED <<phase, queue, leaving, early, receipt>>
        BY <1>5 DEF Embed, WriteOk, WriteFails, CachePut, FlushDone, StageRaises
    <2>2. pc'[w] = "exited" => leaving[w]
        BY <1>0, <1>5 DEF Embed, WriteOk, WriteFails, CachePut, FlushDone, StageRaises, AfterFlush,
                          Typed, TypeOK, EarlyOK
    <2>3. \A v \in Workers \ {w} : pc'[v] = pc[v]
        BY <1>0, <1>5 DEF Embed, WriteOk, WriteFails, CachePut, FlushDone, StageRaises, Typed, TypeOK
    <2> QED BY <2>1, <2>2, <2>3, EarlyKept DEF EarlyOK
<1>6. CASE Start \/ StopReturns \/ DrainTimeout \/ UNCHANGED vars
    <2>1. /\ UNCHANGED <<queue, leaving, early, receipt>>
          /\ phase' \in {"new", "running"} => phase \in {"new", "running"}
          /\ \A w \in Workers : pc'[w] = "exited" => pc[w] = "exited"
        BY <1>6 DEF Start, StopReturns, DrainTimeout, vars
    <2> QED BY <2>1, EarlyKept DEF EarlyOK
<1>7. ASSUME NEW n \in 0..Cardinality(Workers), PutSentinels(n),
             UNCHANGED <<pc, leaving, receipt>>,
             \/ UNCHANGED early
             \/ phase = "running" /\ early' = {c \in Captures : receipt[c] = "accepted"}
      PROVE  EarlyOK'
    <2>0. Cardinality(Workers) \in Nat /\ MaxSize \in Nat /\ Len(queue) <= MaxSize
        BY <1>0, PipelineAssumption, FS_CardinalityType DEF Typed, TypeOK
    <2>1. PICK k \in Nat : queue' = queue \o [i \in 1..k |-> Shutdown]
        <3>1. CASE n <= MaxSize - Len(queue)
            <4>1. queue' = queue \o [i \in 1..n |-> Shutdown] /\ n \in Nat
                BY <1>7, <2>0, <3>1 DEF PutSentinels
            <4> QED BY <4>1
        <3>2. CASE ~(n <= MaxSize - Len(queue))
            <4>1. /\ queue' = queue \o [i \in 1..(MaxSize - Len(queue)) |-> Shutdown]
                  /\ MaxSize - Len(queue) \in Nat
                BY <1>0, <1>7, <2>0, <3>2 DEF PutSentinels
            <4> QED BY <4>1
        <3> QED BY <3>1, <3>2
    <2>2. phase' \in {"stopping", "draining"}
        BY <1>7 DEF PutSentinels
    <2>3. Queued' = Queued
        BY <1>0, <2>1, AppendSentinels, QueuedIs
    <2>4. \A j \in 1..Len(queue') :
            IF j \in 1..Len(queue) THEN queue'[j] = queue[j] ELSE queue'[j] = Shutdown
        <3> DEFINE t == [i \in 1..k |-> Shutdown]
        <3>1. t \in Seq(Items) /\ Len(t) = k /\ \A i \in 1..k : t[i] = Shutdown
            BY DEF Items
        <3>2. queue' = queue \o t
            BY <2>1
        <3> HIDE DEF t
        <3> QED BY <1>0, <3>1, <3>2
    <2>5. \A j \in 1..Len(queue) : \A i \in 1..Len(queue) :
            queue[i] = Shutdown /\ i < j => queue[j] \notin early'
        BY <1>7 DEF EarlyOK
    <2>6. Shutdown \notin early'
        BY <1>0, <1>7, PipelineAssumption DEF Typed, TypeOK
    <2>7. \A i, j \in 1..Len(queue') : queue'[i] = Shutdown /\ i < j => queue'[j] \notin early'
        <3> SUFFICES ASSUME NEW i \in 1..Len(queue'), NEW j \in 1..Len(queue'),
                            queue'[i] = Shutdown, i < j
                     PROVE  queue'[j] \notin early'
            OBVIOUS
        <3>1. CASE j \in 1..Len(queue)
            <4>1. i \in 1..Len(queue)
                BY <1>0, <3>1
            <4> QED BY <2>4, <2>5, <3>1, <4>1
        <3>2. CASE j \notin 1..Len(queue)
            BY <2>4, <2>6, <3>2
        <3> QED BY <3>1, <3>2
    <2>8. \A w \in Workers : leaving'[w] => early' \cap Queued' = {}
        BY <1>7, <2>3 DEF EarlyOK
    <2>9. \A c \in early' : receipt'[c] = "accepted"
        BY <1>7 DEF EarlyOK
    <2> QED BY <1>7, <2>2, <2>7, <2>8, <2>9 DEF EarlyOK
<1>8. CASE Stop
    <2>1. Cardinality(Workers) \in 0..Cardinality(Workers)
        BY PipelineAssumption, FS_CardinalityType
    <2> QED BY <1>7, <1>8, <2>1 DEF Stop
<1>9. CASE StopResumes
    BY <1>0, <1>7, <1>9 DEF StopResumes, Typed, TypeOK
<1> QED BY <1>1, <1>2, <1>3, <1>4, <1>5, <1>6, <1>8, <1>9 DEF Next, PatientNext, Stopper, Worker

----------------------------------------------------------------------------
(* The safety theorems *)

\* Nothing has happened yet.
LEMMA InitFInv == Init => FInv
<1> SUFFICES ASSUME Init PROVE FInv
    OBVIOUS
<1>1. IInv
    BY InitIInv
<1>2. Fresh
    BY DEF Init, Fresh
<1>3. BatchOK
    BY FS_EmptySet, PipelineAssumption DEF Init, BatchOK, BatchOf, Most
<1>4. EarlyOK
    BY DEF Init, EarlyOK
<1> QED BY <1>1, <1>2, <1>3, <1>4 DEF FInv

\* Every step of the relay, a worker, start() or stop() preserves the whole.
LEMMA NextFInv == FInv /\ [Next]_vars => FInv'
<1> SUFFICES ASSUME FInv, [Next]_vars PROVE FInv'
    OBVIOUS
<1>1. IInv' /\ Fresh' /\ BatchOK' /\ EarlyOK'
    BY IInvStep, FreshStep, BatchStep, EarlyStep DEF FInv, IInv
<1> QED BY <1>1 DEF FInv

\* The strengthened invariant holds of every behaviour.
THEOREM Invariance == Spec => []FInv
BY InitFInv, NextFInv, PTL DEF Spec

\* The type invariant of the pipeline (pipeline.py).
THEOREM TypeCorrect == Spec => []TypeOK
<1>1. FInv => TypeOK
    BY DEF FInv, IInv, Typed
<1> QED BY <1>1, Invariance, PTL

\* No capture that submit() accepted is lost from sight, or in two places, or
\* counted twice (pipeline.py:100-176).
THEOREM ConservedHolds == Spec => []Conserved
<1>1. FInv => Conserved
    <2> SUFFICES ASSUME FInv, NEW c \in Captures
                 PROVE  /\ metrics["submitted"][c] = (IF receipt[c] = "accepted" THEN 1 ELSE 0)
                        /\ metrics["dropped"][c] = (IF receipt[c] = "dropped" THEN 1 ELSE 0)
                        /\ Cardinality({i \in 1..Len(queue) : queue[i] = c})
                             + Cardinality({w \in Workers : c \in batch[w]})
                             + Cardinality({w \in Workers : c \in flight[w]})
                             + metrics["written"][c] + metrics["failed"][c]
                           = metrics["submitted"][c]
        BY DEF Conserved
    <2> DEFINE Q == {i \in 1..Len(queue) : queue[i] = c}
               B == {w \in Workers : c \in batch[w]}
               F == {w \in Workers : c \in flight[w]}
    <2>1. Typed /\ CountsOf(c) /\ c # Shutdown
        BY PipelineAssumption DEF FInv, IInv, CountsOK
    <2>2. /\ metrics["written"][c] \in Nat /\ metrics["failed"][c] \in Nat
          /\ Settled(c) <=> metrics["written"][c] + metrics["failed"][c] = 1
        BY <2>1 DEF Typed, TypeOK, Counters, CountsOf, Settled
    <2>3. Cardinality({}) = 0 /\ \A x : Cardinality({x}) = 1
        BY FS_EmptySet, FS_Singleton
    <2>4. CASE c \in Queued
        <3>1. PICK k \in 1..Len(queue) : queue[k] = c
            BY <2>4 DEF Queued
        <3>2. Q = {k}
            BY <2>1, <3>1 DEF FInv, IInv, Distinct
        <3>3. B = {} /\ F = {}
            BY <2>4 DEF FInv, IInv, HeldOK
        <3>4. receipt[c] = "accepted" /\ ~Settled(c)
            BY <2>1, <2>4 DEF CountsOf, Open
        <3>5. Cardinality(Q) = 1 /\ Cardinality(B) = 0 /\ Cardinality(F) = 0
            BY <2>3, <3>2, <3>3
        <3> HIDE DEF Q, B, F
        <3>6. Cardinality(Q) + Cardinality(B) + Cardinality(F) + metrics["written"][c]
                 + metrics["failed"][c] = metrics["submitted"][c]
            BY <2>1, <2>2, <3>4, <3>5 DEF CountsOf, Settled
        <3> QED BY <2>1, <3>6 DEF CountsOf, Q, B, F
    <2>5. CASE \E w \in Workers : c \in batch[w]
        <3>1. PICK w \in Workers : c \in batch[w]
            BY <2>5
        <3>2. B = {w} /\ F = {} /\ c \notin Queued
            BY <3>1 DEF FInv, IInv, HeldOK
        <3>3. Q = {}
            BY <2>1, <3>2 DEF Queued
        <3>4. receipt[c] = "accepted" /\ ~Settled(c)
            BY <2>1, <3>1 DEF CountsOf, Open
        <3>5. Cardinality(Q) = 0 /\ Cardinality(B) = 1 /\ Cardinality(F) = 0
            BY <2>3, <3>2, <3>3
        <3> HIDE DEF Q, B, F
        <3>6. Cardinality(Q) + Cardinality(B) + Cardinality(F) + metrics["written"][c]
                 + metrics["failed"][c] = metrics["submitted"][c]
            BY <2>1, <2>2, <3>4, <3>5 DEF CountsOf, Settled
        <3> QED BY <2>1, <3>6 DEF CountsOf, Q, B, F
    <2>6. CASE \E w \in Workers : c \in flight[w]
        <3>1. PICK w \in Workers : c \in flight[w]
            BY <2>6
        <3>2. F = {w} /\ B = {} /\ c \notin Queued
            BY <3>1 DEF FInv, IInv, HeldOK
        <3>3. Q = {}
            BY <2>1, <3>2 DEF Queued
        <3>4. receipt[c] = "accepted" /\ ~Settled(c)
            BY <2>1, <3>1 DEF CountsOf, Open
        <3>5. Cardinality(Q) = 0 /\ Cardinality(B) = 0 /\ Cardinality(F) = 1
            BY <2>3, <3>2, <3>3
        <3> HIDE DEF Q, B, F
        <3>6. Cardinality(Q) + Cardinality(B) + Cardinality(F) + metrics["written"][c]
                 + metrics["failed"][c] = metrics["submitted"][c]
            BY <2>1, <2>2, <3>4, <3>5 DEF CountsOf, Settled
        <3> QED BY <2>1, <3>6 DEF CountsOf, Q, B, F
    <2>7. CASE ~Open(c)
        <3>1. Q = {} /\ B = {} /\ F = {}
            BY <2>1, <2>7 DEF Open, Queued
        <3>2. Cardinality(Q) = 0 /\ Cardinality(B) = 0 /\ Cardinality(F) = 0
            BY <2>3, <3>1
        <3>3. receipt[c] = "accepted" <=> Settled(c)
            BY <2>1, <2>7 DEF CountsOf
        <3> HIDE DEF Q, B, F
        <3>4. Cardinality(Q) + Cardinality(B) + Cardinality(F) + metrics["written"][c]
                 + metrics["failed"][c] = metrics["submitted"][c]
            BY <2>1, <2>2, <3>2, <3>3 DEF CountsOf, Settled
        <3> QED BY <2>1, <3>4 DEF CountsOf, Q, B, F
    <2> QED BY <2>4, <2>5, <2>6, <2>7 DEF Open
<1> QED BY <1>1, Invariance, PTL

\* Whatever fails or is cancelled, a capture has at most one document, and one
\* if it is counted as written (stages.py:117-130).
THEOREM StoredAtMostOnceHolds == Spec => []StoredAtMostOnce
<1>1. FInv => StoredAtMostOnce
    <2> SUFFICES ASSUME FInv, NEW c \in Captures
                 PROVE  stored[c] <= 1 /\ metrics["written"][c] <= stored[c]
        BY DEF StoredAtMostOnce
    <2>1. /\ stored[c] \in Nat /\ metrics["written"][c] \in Nat /\ metrics["failed"][c] \in Nat
          /\ stored[c] <= 1 /\ (metrics["written"][c] > 0 => stored[c] = 1)
          /\ metrics["written"][c] + metrics["failed"][c] <= 1
        BY DEF FInv, IInv, Typed, TypeOK, StoredOK, CountsOK, CountsOf, Counters
    <2> QED BY <2>1
<1> QED BY <1>1, Invariance, PTL

\* Nothing enters the cache that is not persisted, and nothing twice
\* (stages.py:140-161).
THEOREM CachedOnlyPersistedHolds == Spec => []CachedOnlyPersisted
<1>1. FInv => CachedOnlyPersisted
    BY DEF FInv, IInv, CacheOK, CachedOnlyPersisted
<1> QED BY <1>1, Invariance, PTL

\* What the pipeline holds is bounded (pipeline.py:116-176): no sentinel takes the
\* queue over maxsize, no worker answers for more than a batch, or, once it has
\* left its loop, than a batch and a queue less one each.
THEOREM HeldBoundedHolds == Spec => []HeldBounded
<1>1. ASSUME FInv PROVE HeldBounded
    <2>1. Len(queue) <= MaxSize
        BY <1>1 DEF FInv, IInv, Typed
    <2>2. ASSUME NEW w \in Workers PROVE Cardinality(Held(w)) <= Most(w)
        <3>1. /\ BatchOf(w) /\ Cardinality(batch[w]) \in Nat /\ leaving[w] \in BOOLEAN
              /\ BatchSize \in Nat \ {0} /\ MaxSize \in Nat \ {0}
            BY <1>1, FS_CardinalityType, PipelineAssumption
               DEF FInv, BatchOK, BatchOf, IInv, Typed, TypeOK
        <3>2. CASE flight[w] = {}
            <4>1. Held(w) = batch[w]
                BY <3>2 DEF Held
            <4>2. Cardinality(batch[w]) <= BatchSize - 1
                BY <3>1 DEF BatchOf
            <4> QED BY <3>1, <4>1, <4>2 DEF Most
        <3>3. CASE batch[w] = {}
            <4>1. Held(w) = flight[w]
                BY <3>3 DEF Held
            <4> QED BY <3>1, <4>1 DEF BatchOf
        <3> QED BY <3>1, <3>2, <3>3 DEF BatchOf
    <2> QED BY <2>1, <2>2 DEF HeldBounded, Most
<1> QED BY <1>1, Invariance, PTL

\* A worker that waits for the next capture holds less than a batch
\* (pipeline.py:147-148).
THEOREM WaitingBatchNotFullHolds == Spec => []WaitingBatchNotFull
<1>1. FInv => WaitingBatchNotFull
    BY DEF FInv, BatchOK, BatchOf, WaitingBatchNotFull
<1> QED BY <1>1, Invariance, PTL

\* A capture accepted before stop() is nowhere else but settled once every
\* worker took a sentinel.
LEMMA EarlySettled ==
    ASSUME FInv, Workers # {}, \A w \in Workers : pc[w] = "exited", NEW c \in early
    PROVE  Settled(c)
<1>1. c \in Captures /\ receipt[c] = "accepted"
    BY DEF FInv, IInv, Typed, TypeOK, EarlyOK
<1>2. c \notin Queued
    BY DEF FInv, EarlyOK
<1>3. \A w \in Workers : batch[w] = {} /\ flight[w] = {}
    BY DEF FInv, IInv, ControlOK
<1> QED BY <1>1, <1>2, <1>3 DEF FInv, IInv, CountsOK, CountsOf, Open

\* What was accepted before stop() is settled when every worker left through a
\* sentinel (pipeline.py:116-161).
THEOREM GracefulStopSettlesHolds == Spec => []GracefulStopSettles
<1>1. FInv => GracefulStopSettles
    BY EarlySettled DEF GracefulStopSettles
<1> QED BY <1>1, Invariance, PTL

----------------------------------------------------------------------------
(* The pipeline implements CaptureLedger *)

\* What a step does to the ledger, said capture by capture.
LEMMA Becomes ==
    ASSUME NEW S, NEW f, \A c \in Captures : FateOf(c)' = IF c \in S THEN f ELSE FateOf(c)
    PROVE  Ledger!Become(S, f)
BY DEF Ledger!Become

LEMMA Stutters ==
    ASSUME UNCHANGED <<receipt, stored>>,
           \A m \in {"written", "failed", "cached"}, c \in Captures : metrics'[m][c] = metrics[m][c],
           \A c \in Captures : Lost(c)' <=> Lost(c)
    PROVE  UNCHANGED Ledger!ledgerVars
<1>1. ASSUME NEW c \in Captures PROVE FateOf(c)' = FateOf(c)
    BY DEF FateOf
<1> QED BY <1>1 DEF Ledger!ledgerVars

\* A capture some worker that is still going, or the queue, has is pending.
LEMMA PendingIs ==
    ASSUME IInv, NEW c \in Captures,
           \/ c \in Queued
           \/ \E w \in Workers : c \in Held(w) /\ pc[w] \notin {"dead", "cancelled"}
    PROVE  /\ FateOf(c) = "pending" /\ receipt[c] = "accepted" /\ ~Settled(c) /\ ~Lost(c)
           /\ ~(metrics["written"][c] > 0) /\ ~(metrics["failed"][c] > 0)
           /\ stored[c] = 0
<1>1. Open(c)
    BY DEF Open, Held
<1>2. receipt[c] = "accepted" /\ ~Settled(c)
    BY <1>1 DEF IInv, CountsOK, CountsOf
<1>3. ~Lost(c)
    BY DEF IInv, HeldOK, Lost, Held
<1>4. ~(metrics["written"][c] > 0) /\ ~(metrics["failed"][c] > 0)
    BY <1>2 DEF IInv, Typed, TypeOK, Counters, Settled
<1>5. stored[c] = 0
    <2>1. ~(stored[c] > 0)
        BY <1>2, <1>3 DEF IInv, StoredOK, Lost, Held
    <2>2. stored[c] \in Nat
        BY DEF IInv, Typed, TypeOK
    <2> QED BY <2>1, <2>2
<1> QED BY <1>2, <1>3, <1>4, <1>5 DEF FateOf

\* A set of pending captures goes down with its workers, some of it stored.
LEMMA Abandons ==
    ASSUME IInv, NEW S \in SUBSET Captures, NEW T \in SUBSET S,
           \A c \in S : FateOf(c) = "pending",
           \A c \in Captures : Lost(c)' <=> (Lost(c) \/ c \in S),
           UNCHANGED <<receipt, metrics>>,
           \A c \in Captures : stored'[c] > 0 <=> (stored[c] > 0 \/ c \in T)
    PROVE  Ledger!LedgerNext
<1>1. ASSUME NEW c \in Captures PROVE FateOf(c)' = IF c \in S THEN "abandoned" ELSE FateOf(c)
    <2>1. CASE c \in S
        <3>1. FateOf(c) = "pending"
            BY <2>1
        <3>2. receipt[c] \notin {"none", "dropped"} /\ ~(metrics["written"][c] > 0) /\ ~(metrics["failed"][c] > 0)
            BY <3>1 DEF FateOf
        <3> QED BY <2>1, <3>2 DEF FateOf
    <2>2. CASE c \notin S
        BY <2>2 DEF FateOf
    <2> QED BY <2>1, <2>2
<1>2. Ledger!Become(S, "abandoned")
    BY <1>1, Becomes
<1>3. Ledger!Abandon(S, T)
    BY <1>2 DEF Ledger!Abandon, Ledger!AllAre
<1> QED BY <1>3 DEF Ledger!LedgerNext

LEMMA LedgerSubmit ==
    ASSUME IInv, NEW c \in Captures, Submit(c)
    PROVE  Ledger!LedgerNext
<1>0. /\ Typed /\ receipt[c] = "none"
      /\ UNCHANGED <<pc, batch, flight, stored>>
    BY DEF IInv, Submit
<1>1. ~Open(c) /\ ~Settled(c)
    BY <1>0 DEF IInv, CountsOK, CountsOf
<1>2. PICK m \in {"submitted", "dropped"} :
            /\ Count(m, {c})
            /\ receipt' = [receipt EXCEPT ![c] = IF m = "submitted" THEN "accepted" ELSE "dropped"]
    BY DEF Submit
<1>3. \A n \in {"written", "failed", "cached"}, d \in Captures : metrics'[n][d] = metrics[n][d]
    BY <1>0, <1>2, CountEffect DEF Counters
<1>4. \A d \in Captures : Lost(d)' <=> Lost(d)
    BY <1>0 DEF Lost, Held
<1>5. ~Lost(c) /\ ~(metrics["written"][c] > 0) /\ ~(metrics["failed"][c] > 0)
    BY <1>0, <1>1 DEF Lost, Held, Open, Settled, Typed, TypeOK, Counters
<1>6. ASSUME NEW d \in Captures
      PROVE  FateOf(d)' = IF d \in {c} THEN (IF m = "submitted" THEN "pending" ELSE "dropped")
                          ELSE FateOf(d)
    <2>1. CASE d = c
        <3>1. receipt'[c] = IF m = "submitted" THEN "accepted" ELSE "dropped"
            BY <1>0, <1>2 DEF Typed, TypeOK
        <3> QED BY <1>3, <1>4, <1>5, <2>1, <3>1 DEF FateOf
    <2>2. CASE d # c
        <3>1. receipt'[d] = receipt[d]
            BY <1>0, <1>2, <2>2 DEF Typed, TypeOK
        <3> QED BY <1>3, <1>4, <2>2, <3>1 DEF FateOf
    <2> QED BY <2>1, <2>2
<1>7. Ledger!Become({c}, IF m = "submitted" THEN "pending" ELSE "dropped")
    BY <1>6, Becomes
<1>8. FateOf(c) = "new"
    BY <1>0 DEF FateOf
<1>9. Ledger!Accept(c) \/ Ledger!Drop(c)
    BY <1>0, <1>3, <1>7, <1>8 DEF Ledger!Accept, Ledger!Drop
<1> QED BY <1>9 DEF Ledger!LedgerNext

\* A worker takes captures and may flush them, which may end it.
LEMMA LedgerTake ==
    ASSUME IInv, NEW w \in Workers, NEW took \in SUBSET Queued, NEW b, pc[w] = "get",
           b = batch[w] \cup took,
           \/ batch' = [batch EXCEPT ![w] = b] /\ UNCHANGED <<flight, pc>>
           \/ /\ b = {}
              /\ UNCHANGED <<batch, flight>>
              /\ pc' = [pc EXCEPT ![w] = "exited"]
           \/ Flush(w, b),
           UNCHANGED <<receipt, stored, metrics>>
    PROVE  Ledger!LedgerNext \/ UNCHANGED Ledger!ledgerVars
<1>0. Typed /\ b \in SUBSET Captures /\ flight[w] = {}
    BY QueuedType DEF IInv, Typed, TypeOK, ControlOK
<1>1. \A v \in Workers \ {w} : pc'[v] = pc[v] /\ batch'[v] = batch[v] /\ flight'[v] = flight[v]
    BY <1>0 DEF Flush, Typed, TypeOK
<1>2. CASE pc' = [pc EXCEPT ![w] = "dead"] /\ flight' = [flight EXCEPT ![w] = b]
    <2>1. \A c \in b : FateOf(c) = "pending"
        BY <1>0, PendingIs DEF Held
    <2>2. pc'[w] = "dead" /\ flight'[w] = b /\ (batch'[w] = {} \/ batch'[w] = b \/ batch'[w] = batch[w])
        BY <1>0, <1>2 DEF Flush, Typed, TypeOK
    <2>3. \A c \in Captures : Lost(c)' <=> (Lost(c) \/ c \in b)
        <3>1. ASSUME NEW c \in Captures, Lost(c)' PROVE Lost(c) \/ c \in b
            BY <1>1, <2>2, <3>1 DEF Lost, Held
        <3>2. ASSUME NEW c \in Captures, Lost(c) \/ c \in b PROVE Lost(c)'
            BY <1>1, <2>2, <3>2 DEF Lost, Held
        <3> QED BY <3>1, <3>2
    <2> QED BY <1>0, <2>1, <2>3, Abandons
<1>3. CASE pc'[w] # "dead" /\ pc'[w] # "cancelled"
    <2>1. \A c \in Captures : Lost(c)' <=> Lost(c)
        BY <1>1, <1>3 DEF Lost, Held
    <2> QED BY <2>1, Stutters
<1>4. \/ pc' = [pc EXCEPT ![w] = "dead"] /\ flight' = [flight EXCEPT ![w] = b]
      \/ pc'[w] # "dead" /\ pc'[w] # "cancelled"
    BY <1>0 DEF Flush, Typed, TypeOK
<1> QED BY <1>2, <1>3, <1>4

\* A worker whose write ended.
LEMMA LedgerWrite ==
    ASSUME IInv, NEW w \in Workers, WriteOk(w) \/ WriteFails(w)
    PROVE  Ledger!LedgerNext
<1>a. Typed /\ flight[w] \in SUBSET Captures
    BY DEF IInv, Typed, TypeOK
<1>b. PICK S \in SUBSET Captures : S = flight[w]
    BY <1>a
<1>0. Typed /\ S = flight[w] /\ pc[w] = "write" /\ batch[w] = {} /\ UNCHANGED <<batch, receipt>>
    BY <1>a, <1>b DEF IInv, ControlOK, WriteOk, WriteFails
<1>1. PICK m \in {"written", "failed"}, T \in SUBSET S :
            /\ Count(m, S) /\ stored' = AddTo(stored, T)
            /\ m = "written" => T = S
    BY <1>0 DEF WriteOk, WriteFails
<1>2. \A n \in Counters, c \in Captures :
            metrics'[n][c] = IF n = m /\ c \in S THEN metrics[n][c] + 1 ELSE metrics[n][c]
    BY <1>0, <1>1, CountEffect DEF Counters
<1>3. \A c \in Captures : stored'[c] = IF c \in T THEN stored[c] + 1 ELSE stored[c]
    BY <1>0, <1>1, StoreEffect
<1>4. \A c \in S : /\ FateOf(c) = "pending" /\ receipt[c] = "accepted" /\ ~Lost(c) /\ stored[c] = 0
                   /\ ~(metrics["written"][c] > 0) /\ ~(metrics["failed"][c] > 0)
    BY <1>0, PendingIs DEF Held
<1>5. \A c \in Captures : Lost(c)' <=> Lost(c)
    <2>1. flight'[w] = {} /\ batch'[w] = {} /\ \A v \in Workers \ {w} :
            pc'[v] = pc[v] /\ batch'[v] = batch[v] /\ flight'[v] = flight[v]
        BY <1>0 DEF WriteOk, WriteFails, Typed, TypeOK
    <2> QED BY <1>0, <2>1 DEF Lost, Held
<1>6. ASSUME NEW c \in Captures PROVE FateOf(c)' = IF c \in S THEN m ELSE FateOf(c)
    <2>1. CASE c \in S
        <3>1. metrics'[m][c] > 0 /\ (m = "failed" => ~(metrics'["written"][c] > 0))
            <4>1. metrics[m][c] \in Nat
                BY <1>0 DEF Typed, TypeOK, Counters
            <4> QED BY <1>2, <1>4, <2>1, <4>1 DEF Counters
        <3> QED BY <1>0, <1>4, <2>1, <3>1 DEF FateOf
    <2>2. CASE c \notin S
        <3>1. metrics'["written"][c] = metrics["written"][c] /\ metrics'["failed"][c] = metrics["failed"][c]
            BY <1>2, <2>2 DEF Counters
        <3> QED BY <1>0, <1>5, <2>2, <3>1 DEF FateOf
    <2> QED BY <2>1, <2>2
<1>7. Ledger!Become(S, m)
    BY <1>6, Becomes
<1>8. {c \in Captures : stored'[c] > 0} = {c \in Captures : stored[c] > 0} \cup T
    <2>1. \A c \in T : stored'[c] > 0
        BY <1>0, <1>3, <1>4
    <2> QED BY <1>0, <1>3, <2>1
<1>9. \A c \in Captures : metrics'["cached"][c] = metrics["cached"][c]
    BY <1>2 DEF Counters
<1>10. CASE m = "written"
    <2>1. S \cap {c \in Captures : stored[c] > 0} = {}
        BY <1>4
    <2>2. Ledger!SettleWritten(S)
        BY <1>0, <1>1, <1>4, <1>7, <1>8, <1>9, <1>10, <2>1 DEF Ledger!SettleWritten, Ledger!AllAre
    <2> QED BY <2>2 DEF Ledger!LedgerNext
<1>11. CASE m = "failed"
    <2>1. Ledger!SettleFailed(S, T)
        BY <1>0, <1>1, <1>4, <1>7, <1>8, <1>9, <1>11 DEF Ledger!SettleFailed, Ledger!AllAre
    <2> QED BY <2>1 DEF Ledger!LedgerNext
<1> QED BY <1>1, <1>10, <1>11

LEMMA LedgerCache ==
    ASSUME IInv, NEW w \in Workers, CachePut(w)
    PROVE  Ledger!LedgerNext \/ UNCHANGED Ledger!ledgerVars
<1>0. Typed /\ UNCHANGED <<pc, batch, flight, receipt, stored>>
    BY DEF IInv, CachePut
<1>1. PICK c \in tocache[w] : Count("cached", {c}) \/ UNCHANGED metrics
    BY DEF CachePut
<1>2. \A d \in Captures : Lost(d)' <=> Lost(d)
    BY <1>0 DEF Lost, Held
<1>3. CASE UNCHANGED metrics
    BY <1>0, <1>2, <1>3, Stutters
<1>4. CASE Count("cached", {c})
    <2>1. c \in Captures /\ metrics["written"][c] = 1
        BY <1>0 DEF IInv, Typed, TypeOK, CacheOK
    <2>2. \A n \in Counters, d \in Captures :
            metrics'[n][d] = IF n = "cached" /\ d = c THEN metrics[n][d] + 1 ELSE metrics[n][d]
        BY <1>0, <1>4, CountEffect DEF Counters
    <2>3. stored[c] > 0 /\ receipt[c] = "accepted"
        BY <2>1 DEF IInv, StoredOK, CountsOK, CountsOf, Settled, Typed, TypeOK, Counters
    <2>4. FateOf(c) = "written"
        BY <2>1, <2>3 DEF FateOf
    <2>5. \A d \in Captures : FateOf(d)' = FateOf(d)
        BY <1>0, <1>2, <2>2 DEF FateOf, Counters
    <2>6. {d \in Captures : metrics'["cached"][d] > 0} = {d \in Captures : metrics["cached"][d] > 0} \cup {c}
        <3>1. metrics'["cached"][c] > 0
            BY <1>0, <2>1, <2>2 DEF Typed, TypeOK, Counters
        <3>2. \A d \in Captures : d # c => metrics'["cached"][d] = metrics["cached"][d]
            BY <2>2 DEF Counters
        <3> QED BY <2>1, <3>1, <3>2
    <2>7. Ledger!CacheEntry(c)
        BY <1>0, <2>1, <2>3, <2>4, <2>5, <2>6 DEF Ledger!CacheEntry
    <2> QED BY <2>1, <2>7 DEF Ledger!LedgerNext
<1> QED BY <1>1, <1>3, <1>4

LEMMA LedgerRaises ==
    ASSUME IInv, NEW w \in Workers, StageRaises(w)
    PROVE  Ledger!LedgerNext
<1>0. /\ Typed /\ pc[w] \in {"embed", "write", "cache"} /\ pc' = [pc EXCEPT ![w] = "dead"]
      /\ UNCHANGED <<batch, flight, receipt, stored, metrics>>
    BY PipelineAssumption DEF StageRaises, IInv
<1>1. flight[w] \in SUBSET Captures /\ batch[w] = {}
    BY <1>0 DEF IInv, Typed, TypeOK, ControlOK
<1>2. \A c \in flight[w] : FateOf(c) = "pending"
    BY <1>0, <1>1, PendingIs DEF Held
<1>3. \A c \in Captures : Lost(c)' <=> (Lost(c) \/ c \in flight[w])
    <2>1. pc'[w] = "dead" /\ \A v \in Workers \ {w} : pc'[v] = pc[v]
        BY <1>0 DEF Typed, TypeOK
    <2> QED BY <1>0, <1>1, <2>1 DEF Lost, Held
<1> QED BY <1>0, <1>1, <1>2, <1>3, Abandons

LEMMA LedgerTimeout ==
    ASSUME IInv, DrainTimeout
    PROVE  Ledger!LedgerNext
<1> DEFINE S == {c \in Captures : \E w \in Workers : Alive(w) /\ c \in Held(w)}
<1>0. /\ Typed /\ pc' = [w \in Workers |-> IF Alive(w) THEN "cancelled" ELSE pc[w]]
      /\ UNCHANGED <<batch, flight, receipt, metrics>>
    BY DEF DrainTimeout, IInv
<1>1. PICK T \in SUBSET UNION {flight[w] : w \in {v \in Workers : pc[v] = "write"}} :
            stored' = AddTo(stored, T)
    BY DEF DrainTimeout
<1>2. T \subseteq S
    <2> SUFFICES ASSUME NEW c \in T PROVE c \in S
        OBVIOUS
    <2>1. PICK w \in Workers : pc[w] = "write" /\ c \in flight[w]
        BY <1>1
    <2>2. Alive(w) /\ c \in Held(w) /\ c \in Captures
        BY <1>0, <2>1 DEF Typed, TypeOK, Alive, Held, Ended
    <2> QED BY <2>2
<1>3. \A c \in S : FateOf(c) = "pending"
    BY PendingIs DEF Alive, Ended
<1>4. \A c \in Captures : Lost(c)' <=> (Lost(c) \/ c \in S)
    <2>1. \A w \in Workers :
            /\ Held(w)' = Held(w)
            /\ pc'[w] \in {"dead", "cancelled"} <=> (pc[w] \in {"dead", "cancelled"} \/ Alive(w))
        BY <1>0 DEF Held, Alive, Ended
    <2> QED BY <2>1 DEF Lost
<1>5. \A c \in Captures : stored'[c] > 0 <=> (stored[c] > 0 \/ c \in T)
    <2>1. \A c \in Captures : stored[c] \in Nat /\ stored'[c] = IF c \in T THEN stored[c] + 1 ELSE stored[c]
        BY <1>0, <1>1, StoreEffect DEF Typed, TypeOK
    <2> QED BY <2>1
<1> HIDE DEF S
<1>6. S \in SUBSET Captures
    BY DEF S
<1> QED BY <1>0, <1>2, <1>3, <1>4, <1>5, <1>6, Abandons

\* The other steps are none of the ledger's.
LEMMA LedgerStutter ==
    ASSUME IInv,
           \/ \E w \in Workers : Embed(w) \/ FlushDone(w)
           \/ Start /\ \A w \in Workers : pc[w] = "new"
           \/ Stop \/ StopResumes \/ StopReturns \/ UNCHANGED vars
    PROVE  UNCHANGED Ledger!ledgerVars
<1>1. UNCHANGED <<batch, flight, receipt, stored>>
    BY DEF Embed, FlushDone, Start, Stop, StopResumes, StopReturns, vars
<1>2. \A m \in {"written", "failed", "cached"}, c \in Captures : metrics'[m][c] = metrics[m][c]
    <2>1. ASSUME NEW w \in Workers, Embed(w)
          PROVE  \A m \in {"written", "failed", "cached"}, c \in Captures : metrics'[m][c] = metrics[m][c]
        <3>1. PICK S : Count("embedded", S)
            BY <2>1 DEF Embed
        <3> QED BY <3>1, CountEffect DEF IInv, Counters
    <2>2. CASE UNCHANGED metrics
        BY <2>2
    <2> QED BY <2>1, <2>2 DEF FlushDone, Start, Stop, StopResumes, StopReturns, vars
<1>3. \A v \in Workers : pc'[v] \in {"dead", "cancelled"} <=> pc[v] \in {"dead", "cancelled"}
    BY DEF IInv, Typed, TypeOK, Embed, FlushDone, AfterFlush, Start, Stop, StopResumes, StopReturns, vars
<1>4. \A c \in Captures : Lost(c)' <=> Lost(c)
    BY <1>1, <1>3 DEF Lost, Held
<1> QED BY <1>1, <1>2, <1>4, Stutters

LEMMA LedgerInitially == Init => Ledger!LedgerInit
<1> SUFFICES ASSUME Init PROVE Ledger!LedgerInit
    OBVIOUS
<1>1. \A c \in Captures : FateOf(c) = "new" /\ stored[c] = 0 /\ metrics["cached"][c] = 0
    BY DEF Init, FateOf, Counters
<1>2. [c \in Captures |-> FateOf(c)] = [c \in Captures |-> "new"]
    BY <1>1
<1>3. {c \in Captures : stored[c] > 0} = {} /\ {c \in Captures : metrics["cached"][c] > 0} = {}
    BY <1>1
<1> QED BY <1>2, <1>3 DEF Ledger!LedgerInit

\* The pipeline implements the ledger: whatever its queue, workers, failures and
\* timeouts do, a capture is settled at most once and what was settled stays.
THEOREM RefinesLedgerHolds == Spec => RefinesLedger
<1>1. IInv /\ Fresh /\ [Next]_vars => [Ledger!LedgerNext]_(Ledger!ledgerVars)
    <2> SUFFICES ASSUME IInv, Fresh, [Next]_vars
                 PROVE  Ledger!LedgerNext \/ UNCHANGED Ledger!ledgerVars
        OBVIOUS
    <2>1. ASSUME NEW c \in Captures, Submit(c) PROVE Ledger!LedgerNext
        BY <2>1, LedgerSubmit
    <2>2. ASSUME NEW w \in Workers, Get(w) \/ FlushTimeout(w) \/ TakeShutdown(w)
          PROVE  Ledger!LedgerNext \/ UNCHANGED Ledger!ledgerVars
        <3>1. CASE Get(w)
            <4>1. {Head(queue)} \in SUBSET Queued
                BY <3>1 DEF Get, IInv, Typed, TypeOK, Queued
            <4> QED BY <3>1, <4>1, LedgerTake DEF Get
        <3>2. CASE FlushTimeout(w)
            <4>1. batch[w] = batch[w] \cup {} /\ {} \in SUBSET Queued
                OBVIOUS
            <4> QED BY <3>2, <4>1, LedgerTake DEF FlushTimeout
        <3>3. CASE TakeShutdown(w)
            BY <3>3, LedgerTake DEF TakeShutdown
        <3> QED BY <2>2, <3>1, <3>2, <3>3
    <2>3. ASSUME NEW w \in Workers, Worker(w), ~(Get(w) \/ FlushTimeout(w) \/ TakeShutdown(w))
          PROVE  Ledger!LedgerNext \/ UNCHANGED Ledger!ledgerVars
        BY <2>3, LedgerWrite, LedgerCache, LedgerRaises, LedgerStutter DEF Worker
    <2>4. CASE Start \/ Stop \/ StopResumes \/ StopReturns \/ UNCHANGED vars
        <3>1. Start => \A w \in Workers : pc[w] = "new"
            BY DEF Start, Fresh
        <3> QED BY <2>4, <3>1, LedgerStutter
    <2>5. CASE DrainTimeout
        BY <2>5, LedgerTimeout
    <2> QED BY <2>1, <2>2, <2>3, <2>4, <2>5 DEF Next, PatientNext, Stopper
<1>2. FInv => IInv /\ Fresh
    BY DEF FInv
<1>3. Init => Ledger!LedgerInit
    BY LedgerInitially
<1> QED BY <1>1, <1>2, <1>3, Invariance, PTL DEF Spec, RefinesLedger, Ledger!LedgerSpec
=============================================================================
