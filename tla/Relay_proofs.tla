---------------------------- MODULE Relay_proofs ----------------------------
(***************************************************************************)
(* The relay's safety for any requests, limits and response lengths.       *)
(*                                                                         *)
(* Every action changes the locals of one request.  LocalsOK relates them  *)
(* to each other at each label of the coroutine; CapturesOK is what was    *)
(* handed to telemetry; the permits are counted with the theorems on       *)
(* finite sets, and so are the bytes the buffers hold together.            *)
(***************************************************************************)
EXTENDS Relay, FiniteSetTheorems, TLAPS

Fresh == {"idle", "reading", "lookup", "sending", "handed", "unstarted"}

LocalsOK(l) ==
    /\ l.sent <= l.seen /\ l.seen <= l.total
    /\ l.kept <= l.seen
    /\ l.cut = FALSE => l.kept = l.seen
    /\ l.pc = "handed" /\ l.source = "cache" => l.total > 0
    /\ l.pc \in {"yielded", "orphaned"} => l.sent < l.seen
    /\ l.pc \in Fresh => l.seen = 0 /\ l.cut = FALSE
    /\ l.pc \in Fresh \cup {"streaming", "yielded", "orphaned"} => l.completed = FALSE
    /\ l.pc \in {"handed", "yielded", "orphaned"} => l.source # "none"
    /\ l.pc \in {"streaming", "closing"} => l.source = "upstream"
    /\ l.pc = "streaming" => l.sent = l.seen
    /\ l.pc \in {"yielded", "orphaned"} /\ l.source = "cache" => l.seen = l.total
    /\ l.completed = TRUE => l.sent = l.total

CaptureOK(c) ==
    /\ c \in Captured
    /\ c.source = "upstream" /\ c.status = "ok" => c.delivered
    /\ c.status = "ok" /\ ~c.cut => c.whole

IInv ==
    /\ TypeOK
    /\ PermitsConserved
    /\ OneCapturePerResponse
    /\ \A r \in Requests : LocalsOK(req[r])
    /\ \A r \in Requests : \A i \in 1..Len(captures[r]) : CaptureOK(captures[r][i])

USE RelayAssumption

\* There are finitely many permit holders.
LEMMA HoldersFinite == IsFiniteSet(Holders)
BY FS_Subset DEF Holders

\* A step of one request that holds on to its permit, or to having none.
LEMMA Keeps ==
    ASSUME IInv, NEW r \in Requests, req' = [req EXCEPT ![r] = req'[r]],
           req'[r] \in Locals, LocalsOK(req'[r]),
           req'[r].pc \in Holding <=> req[r].pc \in Holding,
           req[r].pc # "done", req'[r].pc # "done",
           UNCHANGED <<inflight, captures>>
    PROVE  IInv'
<1>1. TypeOK'
    BY DEF IInv, TypeOK
<1>2. Holders' = Holders
    BY DEF Holders, IInv, TypeOK
<1>3. PermitsConserved'
    BY <1>2 DEF PermitsConserved, IInv
<1>4. OneCapturePerResponse'
    BY DEF OneCapturePerResponse, IInv, TypeOK
<1>5. \A q \in Requests : LocalsOK(req'[q])
    BY DEF IInv, TypeOK
<1> QED BY <1>1, <1>3, <1>4, <1>5 DEF IInv

\* A request that takes a permit.
LEMMA Takes ==
    ASSUME IInv, NEW r \in Requests, req' = [req EXCEPT ![r] = req'[r]],
           req'[r] \in Locals, LocalsOK(req'[r]),
           req[r].pc = "idle", req'[r].pc = "reading",
           inflight < MaxConcurrent, inflight' = inflight + 1, captures' = captures
    PROVE  IInv'
<1>0. inflight' \in 0..MaxConcurrent
    BY DEF IInv, TypeOK
<1>1. TypeOK'
    BY <1>0 DEF IInv, TypeOK
<1>2. r \notin Holders /\ Holders' = Holders \cup {r}
    BY DEF Holders, Holding, IInv, TypeOK
<1>3. Cardinality(Holders') = Cardinality(Holders) + 1
    BY <1>2, HoldersFinite, FS_AddElement
<1>4. PermitsConserved'
    BY <1>3 DEF PermitsConserved, IInv
<1>5. OneCapturePerResponse'
    BY DEF OneCapturePerResponse, IInv, TypeOK
<1>6. \A q \in Requests : LocalsOK(req'[q])
    BY DEF IInv, TypeOK
<1> QED BY <1>1, <1>4, <1>5, <1>6 DEF IInv

\* What a request without locals has is in order.
LEMMA AtOK ==
    ASSUME NEW label \in {"idle", "failed", "done"} PROVE At(label) \in Locals /\ LocalsOK(At(label))
BY DEF At, Locals, LocalsOK, Fresh, Statuses, Holding, Over

\* A request that gives its permit back.
LEMMA GivesBack ==
    ASSUME IInv, NEW r \in Holders, NEW label \in {"failed", "done"},
           req' = [req EXCEPT ![r] = At(label)], inflight' = inflight - 1
    PROVE  /\ inflight' \in 0..MaxConcurrent
           /\ req' \in [Requests -> Locals]
           /\ PermitsConserved'
           /\ \A q \in Requests : LocalsOK(req'[q])
<1>1. r \in Requests
    BY DEF Holders
<1>2. Holders' = Holders \ {r}
    BY <1>1 DEF Holders, Holding, At, IInv, TypeOK
<1>3. Cardinality(Holders') = Cardinality(Holders) - 1 /\ Cardinality(Holders) # 0
    BY <1>2, HoldersFinite, FS_RemoveElement, FS_EmptySet
<1>4. Cardinality(Holders) \in Nat
    BY HoldersFinite, FS_CardinalityType
<1> QED BY <1>1, <1>3, <1>4, AtOK DEF PermitsConserved, IInv, TypeOK

\* The end of a generator, with what it hands to telemetry.
LEMMA Finishes ==
    ASSUME IInv, NEW r \in Holders, NEW sent, req[r].source # "none", Finish(r, sent),
           /\ req[r].source = "upstream" /\ FinalStatus(req[r]) = "ok" =>
                sent = req[r].total
           /\ FinalStatus(req[r]) = "ok" /\ ~req[r].cut => req[r].kept = req[r].total
    PROVE  IInv'
<1> DEFINE c == [source |-> req[r].source, status |-> FinalStatus(req[r]), cut |-> req[r].cut,
                 whole |-> req[r].kept = req[r].total,
                 delivered |-> sent = req[r].total]
<1>1. r \in Requests /\ req[r] \in Locals /\ req[r].pc # "done"
    BY DEF Holders, Holding, IInv, TypeOK
<1>2. c \in Captured
    <2>1. FinalStatus(req[r]) \in Statuses
        BY <1>1 DEF FinalStatus, Locals, Statuses
    <2>2. /\ req[r].source \in {"upstream", "cache"}
          /\ req[r].cut \in BOOLEAN
        BY <1>1 DEF Locals
    <2> QED BY <2>1, <2>2 DEF Captured
<1>3. CaptureOK(c)
    BY <1>2, Zenon DEF CaptureOK
<1>4. captures' = [captures EXCEPT ![r] = Append(captures[r], c)]
    BY DEF Finish
<1> HIDE DEF c
<1>5. captures[r] \in Seq(Captured) /\ captures[r] = <<>>
    BY <1>1 DEF IInv, TypeOK, OneCapturePerResponse
<1>6. captures' \in [Requests -> Seq(Captured)]
    BY <1>1, <1>2, <1>4, <1>5 DEF IInv, TypeOK
<1>7. \A q \in Requests : \A i \in 1..Len(captures'[q]) : CaptureOK(captures'[q][i])
    BY <1>1, <1>3, <1>4, <1>5 DEF IInv, TypeOK
<1>8. req' = [req EXCEPT ![r] = At("done")] /\ inflight' = inflight - 1
    BY DEF Finish
<1>9. OneCapturePerResponse'
    <2>1. Len(captures'[r]) = 1 /\ req'[r].pc = "done"
        BY <1>1, <1>4, <1>5, <1>8 DEF IInv, TypeOK, At
    <2>2. ASSUME NEW q \in Requests \ {r}
          PROVE  captures'[q] = captures[q] /\ req'[q] = req[q]
        BY <1>1, <1>4, <1>8 DEF IInv, TypeOK
    <2> QED BY <2>1, <2>2 DEF OneCapturePerResponse, IInv
<1> QED BY <1>6, <1>7, <1>8, <1>9, GivesBack DEF IInv, TypeOK

\* handle, from its first await to the hand-off, and the refusals before it.
LEMMA HandleStep ==
    ASSUME IInv, NEW r \in Requests, Arrive(r) \/ Handle(r) PROVE IInv'
<1> USE DEF Holding, Over, Statuses
<1>0. req[r] \in Locals /\ LocalsOK(req[r])
    BY DEF IInv, TypeOK
<1>1. ASSUME Refuse(r) \/ Overloaded(r) \/ BodyRead(r) \/ LookupMiss(r) PROVE IInv'
    <2>1. PICK label \in {"refused", "lookup", "sending"} :
            /\ req' = [req EXCEPT ![r].pc = label]
            /\ label = "refused" => req[r].pc = "idle"
            /\ label # "refused" => req[r].pc \in {"reading", "lookup"}
        BY <1>1 DEF Refuse, Overloaded, BodyRead, LookupMiss, Goto
    <2>2. req'[r] = [req[r] EXCEPT !.pc = label]
        BY <2>1 DEF IInv, TypeOK
    <2>3. req' = [req EXCEPT ![r] = req'[r]]
        BY <2>1, <2>2 DEF IInv, TypeOK
    <2>4. req'[r] \in Locals /\ LocalsOK(req'[r])
        BY <1>0, <2>1, <2>2 DEF Locals, LocalsOK, Fresh
    <2>5. /\ req'[r].pc \in Holding <=> req[r].pc \in Holding
          /\ req[r].pc # "done" /\ req'[r].pc # "done"
        BY <1>0, <2>1, <2>2 DEF Locals
    <2> QED BY <1>1, <2>3, <2>4, <2>5, Keeps DEF Refuse, Overloaded, BodyRead, LookupMiss
<1>2. ASSUME Admit(r) PROVE IInv'
    <2>1. /\ req' = [req EXCEPT ![r] = req'[r]]
          /\ req'[r] = [req[r] EXCEPT !.pc = "reading"]
        BY <1>2 DEF Admit, Goto, IInv, TypeOK
    <2>2. req'[r] \in Locals /\ LocalsOK(req'[r]) /\ req'[r].pc = "reading"
        BY <1>0, <1>2, <2>1 DEF Admit, Locals, LocalsOK, Fresh
    <2>3. inflight < MaxConcurrent
        BY <1>2 DEF Admit, AtCapacity, IInv, TypeOK
    <2> QED BY <1>2, <2>1, <2>2, <2>3, Takes DEF Admit
<1>3. ASSUME ReadBody(r) PROVE IInv'
    <2>1. /\ req' = [req EXCEPT ![r] = req'[r]]
          /\ req'[r] = [req[r] EXCEPT !.body = @ + 1]
        BY <1>3 DEF ReadBody, IInv, TypeOK
    <2>2. req'[r] \in Locals /\ LocalsOK(req'[r]) /\ req'[r].pc = "reading"
        BY <1>0, <1>3, <2>1 DEF ReadBody, Locals, LocalsOK, Fresh
    <2> QED BY <1>3, <2>1, <2>2, Keeps DEF ReadBody
<1>4. ASSUME LookupHit(r) \/ SendOk(r) PROVE IInv'
    <2>1. PICK n \in Nat, s \in Statuses, o \in {"upstream", "cache"} :
            /\ o = "cache" => n > 0
            /\ req' = [req EXCEPT ![r] = [req[r] EXCEPT !.pc = "handed", !.source = o,
                                                       !.total = n, !.status = s]]
        <3>1. CASE LookupHit(r)
            <4>1. PICK n \in 1..ResponseBound[r] : req' = [req EXCEPT ![r].pc = "handed",
                    ![r].source = "cache", ![r].total = n]
                BY <3>1 DEF LookupHit
            <4>2. n \in Nat /\ n > 0 /\ req[r].status \in Statuses
                BY <1>0 DEF Locals
            <4>3. req' = [req EXCEPT ![r] = [req[r] EXCEPT !.pc = "handed", !.source = "cache",
                                            !.total = n, !.status = req[r].status]]
                BY <1>0, <4>1 DEF Locals
            <4> QED BY <4>2, <4>3
        <3>2. CASE SendOk(r)
            <4>1. PICK n \in 0..ResponseBound[r], s \in {"ok", "upstream_error"} :
                    req' = [req EXCEPT ![r].pc = "handed", ![r].source = "upstream",
                                       ![r].total = n, ![r].status = s]
                BY <3>2 DEF SendOk
            <4>2. n \in Nat /\ s \in Statuses /\ "upstream" \in {"upstream", "cache"}
                OBVIOUS
            <4>3. req' = [req EXCEPT ![r] = [req[r] EXCEPT !.pc = "handed", !.source = "upstream",
                                            !.total = n, !.status = s]]
                BY <4>1
            <4> QED BY <4>2, <4>3
        <3> QED BY <1>4, <3>1, <3>2
    <2>2. /\ req' = [req EXCEPT ![r] = req'[r]]
          /\ req'[r] = [req[r] EXCEPT !.pc = "handed", !.source = o, !.total = n, !.status = s]
        BY <2>1 DEF IInv, TypeOK
    <2>3. req[r].pc \in {"lookup", "sending"}
        BY <1>4 DEF LookupHit, SendOk
    <2>4. req[r].seen = 0 /\ req[r].kept = 0 /\ req[r].sent = 0
        BY <1>0, <2>3 DEF Locals, LocalsOK, Fresh
    <2>5. req[r].cut = FALSE /\ req[r].completed = FALSE
        BY <1>0, <2>3, Zenon DEF LocalsOK, Fresh
    <2>6. req'[r] = [pc |-> "handed", source |-> o, body |-> req[r].body, total |-> n,
                     seen |-> 0, sent |-> 0, kept |-> 0, cut |-> FALSE, status |-> s,
                     completed |-> FALSE]
        BY <1>0, <2>2, <2>4, <2>5 DEF Locals
    <2>7. req[r].body \in 0..MaxBody
        BY <1>0 DEF Locals
    <2>8. req'[r] \in Locals
        BY <2>6, <2>7 DEF Locals
    <2>9. LocalsOK(req'[r]) /\ req'[r].pc = "handed"
        <3>1. /\ req'[r].pc = "handed" /\ req'[r].source = o /\ req'[r].total = n
              /\ req'[r].seen = 0 /\ req'[r].sent = 0 /\ req'[r].kept = 0
              /\ req'[r].cut = FALSE /\ req'[r].completed = FALSE
            BY <2>6
        <3> QED BY <2>1, <3>1 DEF LocalsOK, Fresh
    <2> QED BY <1>4, <2>2, <2>3, <2>8, <2>9, Keeps DEF LookupHit, SendOk
<1>5. ASSUME EarlyExit(r) PROVE IInv'
    <2>1. r \in Holders
        BY <1>5 DEF EarlyExit, Holders
    <2>2. OneCapturePerResponse'
        BY <1>0, <1>5 DEF EarlyExit, OneCapturePerResponse, IInv, TypeOK, At
    <2> QED BY <1>5, <2>1, <2>2, GivesBack DEF EarlyExit, IInv, TypeOK
<1> QED BY <1>1, <1>2, <1>3, <1>4, <1>5 DEF Arrive, Handle

\* What observing n bytes leaves of a coroutine's locals, and of the order
\* among them.
LEMMA ObserveOK ==
    ASSUME NEW l \in Locals, l.kept <= l.seen, l.cut = FALSE => l.kept = l.seen, NEW n \in Nat
    PROVE  /\ Observe(l, n) = [l EXCEPT !.seen = Observe(l, n).seen,
                                        !.kept = Observe(l, n).kept,
                                        !.cut = Observe(l, n).cut]
           /\ Observe(l, n).seen = l.seen + n
           /\ Observe(l, n).kept \in 0..MaxCapture
           /\ Observe(l, n).kept <= l.seen + n
           /\ Observe(l, n).cut \in BOOLEAN
           /\ Observe(l, n).cut = FALSE => Observe(l, n).kept = l.seen + n
<1> DEFINE remaining == MaxCapture - l.kept
           kept == l.kept + (IF n <= remaining THEN n ELSE remaining)
           cut == l.cut \/ remaining <= 0 \/ n > remaining
<1>1. Observe(l, n) = [l EXCEPT !.seen = l.seen + n, !.kept = kept, !.cut = cut]
    BY DEF Observe
<1>2. kept \in 0..MaxCapture /\ kept <= l.seen + n
    BY DEF Locals
<1>3. cut \in BOOLEAN
    OBVIOUS
<1>4. cut = FALSE => kept = l.seen + n
    <2>1. ASSUME cut = FALSE PROVE kept = l.seen + n
        <3>1. l.cut = FALSE
            BY <2>1 DEF Locals
        <3>2. n <= remaining
            BY <2>1 DEF Locals
        <3> QED BY <3>1, <3>2 DEF Locals
    <2> QED BY <2>1
<1> HIDE DEF kept, cut
<1>5. Observe(l, n).seen = l.seen + n /\ Observe(l, n).kept = kept /\ Observe(l, n).cut = cut
    BY <1>1 DEF Locals
<1> QED BY <1>1, <1>2, <1>3, <1>4, <1>5

\* The generators, from the hand-off to the end of their finally.
LEMMA GenerateStep ==
    ASSUME IInv, NEW r \in Requests, Generate(r) PROVE IInv'
<1> USE DEF Holding, Over, Statuses
<1>0. req[r] \in Locals /\ LocalsOK(req[r])
    BY DEF IInv, TypeOK
<1>1. ASSUME \/ StartFails(r) \/ CancelledAtUpstream(r) \/ CancelledAtClient(r)
             \/ FinalizeUpstream(r)
      PROVE  IInv'
    <2>1. PICK label \in {"unstarted", "closing", "orphaned"} :
            /\ req' = [req EXCEPT ![r].pc = label]
            /\ label = "unstarted" => req[r].pc = "handed"
            /\ label = "closing" => /\ req[r].pc \in {"streaming", "orphaned"}
                                    /\ req[r].source = "upstream"
            /\ label = "orphaned" => req[r].pc = "yielded"
        BY <1>0, <1>1 DEF StartFails, CancelledAtUpstream, CancelledAtClient,
                          FinalizeUpstream, Goto, LocalsOK
    <2>2. /\ req'[r] = [req[r] EXCEPT !.pc = label]
          /\ req' = [req EXCEPT ![r] = req'[r]]
        BY <2>1 DEF IInv, TypeOK
    <2>3. req'[r] \in Locals /\ LocalsOK(req'[r])
        BY <1>0, <2>1, <2>2 DEF Locals, LocalsOK, Fresh
    <2>4. /\ req'[r].pc \in Holding <=> req[r].pc \in Holding
          /\ req[r].pc # "done" /\ req'[r].pc # "done"
        BY <1>0, <2>1, <2>2 DEF Locals
    <2> QED BY <1>1, <2>2, <2>3, <2>4, Keeps
            DEF StartFails, CancelledAtUpstream, CancelledAtClient, FinalizeUpstream
<1>2. ASSUME Chunk(r) \/ (StartStream(r) /\ req[r].source # "upstream") PROVE IInv'
    <2>0. PICK n \in Nat :
            /\ n > 0
            /\ req[r].seen + n <= req[r].total
            /\ req[r].pc = "handed" => req[r].source = "cache" /\ req[r].seen + n = req[r].total
            /\ req[r].pc \in {"handed", "streaming"}
            /\ req' = [req EXCEPT ![r] = [Observe(req[r], n) EXCEPT !.pc = "yielded"]]
        <3>1. CASE Chunk(r)
            <4>1. PICK n \in 1..(req[r].total - req[r].seen) :
                    req' = [req EXCEPT ![r] = [Observe(req[r], n) EXCEPT !.pc = "yielded"]]
                BY <3>1 DEF Chunk
            <4>2. n \in Nat /\ n > 0 /\ req[r].seen + n <= req[r].total
                BY <1>0 DEF Locals
            <4>3. req[r].pc = "streaming"
                BY <3>1 DEF Chunk
            <4> QED BY <4>1, <4>2, <4>3
        <3>2. CASE StartStream(r) /\ req[r].source # "upstream"
            <4>1. req[r].total \in Nat /\ req[r].pc = "handed"
                BY <1>0, <3>2 DEF Locals, StartStream
            <4>2. req[r].source = "cache" /\ req[r].seen = 0
                BY <1>0, <3>2, <4>1 DEF Locals, LocalsOK, Fresh
            <4>3. req' = [req EXCEPT ![r] =
                            [Observe(req[r], req[r].total) EXCEPT !.pc = "yielded"]]
                BY <3>2 DEF StartStream
            <4>4. req[r].seen + req[r].total = req[r].total /\ req[r].total > 0
                BY <1>0, <4>1, <4>2 DEF LocalsOK
            <4> USE <4>1
            <4> WITNESS req[r].total \in Nat
            <4> QED BY <4>1, <4>2, <4>3, <4>4
        <3> QED BY <1>2, <3>1, <3>2
    <2>1. /\ req[r].sent <= req[r].seen /\ req[r].kept <= req[r].seen
          /\ req[r].cut = FALSE => req[r].kept = req[r].seen
          /\ req[r].source # "none" /\ req[r].completed = FALSE
          /\ req[r].pc = "streaming" => req[r].source = "upstream"
        BY <1>0, <2>0 DEF LocalsOK, Fresh
    <2> DEFINE o == Observe(req[r], n)
    <2>2. /\ o = [req[r] EXCEPT !.seen = o.seen, !.kept = o.kept, !.cut = o.cut]
          /\ o.seen = req[r].seen + n
          /\ o.kept \in 0..MaxCapture /\ o.kept <= o.seen
          /\ o.cut \in BOOLEAN
          /\ o.cut = FALSE => o.kept = o.seen
        BY <1>0, <2>0, <2>1, ObserveOK
    <2>3. /\ req'[r] = [o EXCEPT !.pc = "yielded"]
          /\ req' = [req EXCEPT ![r] = req'[r]]
        BY <2>0 DEF IInv, TypeOK
    <2> HIDE DEF o
    <2>4. o.seen \in Nat /\ o.seen <= req[r].total /\ req[r].sent < o.seen
        BY <1>0, <2>0, <2>1, <2>2 DEF Locals
    <2>5. req[r].source = "cache" => o.seen = req[r].total
        BY <2>0, <2>1, <2>2
    <2>6. /\ o \in Locals /\ o.source = req[r].source /\ o.total = req[r].total
          /\ o.sent = req[r].sent /\ o.completed = FALSE
        BY <1>0, <2>1, <2>2, <2>4 DEF Locals
    <2>7. /\ req'[r].pc = "yielded" /\ req'[r].source = o.source
          /\ req'[r].total = o.total /\ req'[r].seen = o.seen /\ req'[r].sent = o.sent
          /\ req'[r].kept = o.kept /\ req'[r].cut = o.cut
          /\ req'[r].completed = o.completed
        BY <2>3, <2>6 DEF Locals
    <2>8. req'[r] \in Locals
        BY <2>3, <2>6 DEF Locals
    <2>9. LocalsOK(req'[r]) /\ req'[r].pc = "yielded"
        <3>1. /\ req[r].sent \in Nat /\ req[r].total \in Nat
              /\ o.seen \in Nat /\ o.kept \in Nat
            BY <1>0, <2>2, <2>4 DEF Locals
        <3> QED BY <2>1, <2>2, <2>4, <2>5, <2>6, <2>7, <3>1 DEF LocalsOK, Fresh
    <2> QED BY <1>2, <2>0, <2>3, <2>8, <2>9, Keeps DEF Chunk, StartStream
<1>3. ASSUME StartStream(r), req[r].source = "upstream" PROVE IInv'
    <2>1. /\ req'[r] = [req[r] EXCEPT !.pc = "streaming"]
          /\ req' = [req EXCEPT ![r] = req'[r]]
        BY <1>3 DEF StartStream, IInv, TypeOK
    <2>2. req'[r] \in Locals /\ LocalsOK(req'[r]) /\ req'[r].pc = "streaming"
        BY <1>0, <1>3, <2>1 DEF StartStream, Locals, LocalsOK, Fresh
    <2> QED BY <1>3, <2>1, <2>2, Keeps DEF StartStream
<1>4. ASSUME ChunkSent(r) PROVE IInv'
    <2>1. /\ req'[r] = [req[r] EXCEPT !.pc = "streaming", !.sent = req[r].seen]
          /\ req' = [req EXCEPT ![r] = req'[r]]
        BY <1>4 DEF ChunkSent, IInv, TypeOK
    <2>2. req'[r] \in Locals
        BY <1>0, <2>1 DEF Locals
    <2>3. req'[r].pc = "streaming"
        BY <1>0, <2>1 DEF Locals
    <2>4. req[r].completed = FALSE /\ req[r].pc = "yielded" /\ req[r].source = "upstream"
        BY <1>0, <1>4 DEF ChunkSent, LocalsOK, Fresh
    <2>5. /\ req[r].seen <= req[r].total /\ req[r].kept <= req[r].seen
          /\ req[r].cut = FALSE => req[r].kept = req[r].seen
          /\ req[r].seen \in Nat
        BY <1>0 DEF LocalsOK, Locals
    <2>6. /\ req'[r].sent = req[r].seen /\ req'[r].seen = req[r].seen /\ req'[r].completed = FALSE
          /\ req'[r].source = "upstream"
          /\ req'[r].total = req[r].total /\ req'[r].kept = req[r].kept
          /\ req'[r].cut = req[r].cut
        BY <1>0, <2>1, <2>4 DEF Locals
    <2>7. LocalsOK(req'[r])
        BY <2>3, <2>4, <2>5, <2>6 DEF LocalsOK, Fresh
    <2> QED BY <1>4, <2>1, <2>2, <2>3, <2>7, Keeps DEF ChunkSent
<1>5. ASSUME StreamEnds(r) PROVE IInv'
    <2>1. /\ req'[r] = [req[r] EXCEPT !.pc = "closing", !.completed = TRUE]
          /\ req' = [req EXCEPT ![r] = req'[r]]
        BY <1>5 DEF StreamEnds, IInv, TypeOK
    <2>2. req'[r] \in Locals
        BY <1>0, <2>1 DEF Locals
    <2>3. req'[r].pc = "closing"
        BY <1>0, <2>1 DEF Locals
    <2>4. req[r].sent = req[r].seen /\ req[r].seen = req[r].total /\ req[r].source = "upstream"
        BY <1>0, <1>5 DEF StreamEnds, LocalsOK, Fresh
    <2>5. /\ req[r].seen <= req[r].total /\ req[r].kept <= req[r].seen
          /\ req[r].cut = FALSE => req[r].kept = req[r].seen
          /\ req[r].seen \in Nat
        BY <1>0 DEF LocalsOK, Locals
    <2>6. /\ req'[r].sent = req[r].total /\ req'[r].seen = req[r].total /\ req'[r].source = "upstream"
          /\ req'[r].total = req[r].total /\ req'[r].kept = req[r].kept
          /\ req'[r].cut = req[r].cut
        BY <1>0, <2>1, <2>4 DEF Locals
    <2>7. LocalsOK(req'[r])
        BY <2>3, <2>4, <2>5, <2>6 DEF LocalsOK, Fresh
    <2> QED BY <1>5, <2>1, <2>2, <2>3, <2>7, Keeps DEF StreamEnds
<1>6. ASSUME StreamBreaks(r) PROVE IInv'
    <2>1. /\ req'[r] = [req[r] EXCEPT !.pc = "closing", !.status = "upstream_error"]
          /\ req' = [req EXCEPT ![r] = req'[r]]
        BY <1>6 DEF StreamBreaks, IInv, TypeOK
    <2>2. req'[r] \in Locals
        BY <1>0, <2>1 DEF Locals
    <2>3. req'[r].pc = "closing"
        BY <1>0, <2>1 DEF Locals
    <2>4. req[r].completed = FALSE /\ req[r].sent <= req[r].seen /\ req[r].source = "upstream"
        BY <1>0, <1>6 DEF StreamBreaks, LocalsOK, Fresh
    <2>5. /\ req[r].seen <= req[r].total /\ req[r].kept <= req[r].seen
          /\ req[r].cut = FALSE => req[r].kept = req[r].seen
          /\ req[r].seen \in Nat
        BY <1>0 DEF LocalsOK, Locals
    <2>6. /\ req'[r].sent = req[r].sent /\ req'[r].seen = req[r].seen /\ req'[r].completed = FALSE
          /\ req'[r].source = "upstream"
          /\ req'[r].total = req[r].total /\ req'[r].kept = req[r].kept
          /\ req'[r].cut = req[r].cut
        BY <1>0, <2>1, <2>4 DEF Locals
    <2>7. LocalsOK(req'[r])
        BY <2>3, <2>4, <2>5, <2>6 DEF LocalsOK, Fresh
    <2> QED BY <1>6, <2>1, <2>2, <2>3, <2>7, Keeps DEF StreamBreaks
<1>7. ASSUME Close(r) PROVE IInv'
    <2>1. r \in Holders /\ req[r].source = "upstream" /\ Finish(r, req[r].sent)
        BY <1>0, <1>7 DEF Close, Holders, LocalsOK
    <2>2. ASSUME FinalStatus(req[r]) = "ok"
          PROVE  req[r].sent = req[r].total /\ req[r].seen = req[r].total
        <3>1. req[r].completed = TRUE
            BY <1>0, <2>1, <2>2 DEF FinalStatus, Locals
        <3> QED BY <1>0, <3>1 DEF Locals, LocalsOK
    <2>3. ~req[r].cut => req[r].kept = req[r].seen
        BY <1>0 DEF Locals, LocalsOK
    <2> QED BY <2>1, <2>2, <2>3, Finishes
<1>8. ASSUME ReplaySent(r) \/ FinalizeReplay(r) PROVE IInv'
    <2>1. PICK sent \in {req[r].seen, req[r].sent} :
            r \in Holders /\ req[r].source = "cache" /\ Finish(r, sent)
        BY <1>8 DEF ReplaySent, FinalizeReplay, Holders
    <2>2. req[r].seen = req[r].total
        BY <1>0, <1>8 DEF LocalsOK, ReplaySent, FinalizeReplay
    <2>3. ~req[r].cut => req[r].kept = req[r].total
        BY <1>0, <2>2 DEF Locals, LocalsOK
    <2> QED BY <2>1, <2>3, Finishes
<1> QED BY <1>1, <1>2, <1>3, <1>4, <1>5, <1>6, <1>7, <1>8 DEF Generate

\* A step of one request leaves the others and their captures alone.
LEMMA OthersKept ==
    ASSUME TypeOK, NEW r \in Requests, Arrive(r) \/ Handle(r) \/ Generate(r),
           NEW q \in Requests \ {r}
    PROVE  req'[q] = req[q] /\ captures'[q] = captures[q]
<1>1. CASE Arrive(r)
    BY <1>1 DEF TypeOK, Arrive, Refuse, Overloaded, Admit, Goto
<1>2. CASE Handle(r)
    BY <1>2 DEF TypeOK, Handle, ReadBody, BodyRead, LookupMiss, LookupHit, SendOk, EarlyExit, Goto
<1>3. CASE Generate(r)
    BY <1>3 DEF TypeOK, Generate, StartFails, StartStream, Chunk, ChunkSent, StreamEnds,
                StreamBreaks, CancelledAtUpstream, CancelledAtClient, Close, ReplaySent,
                FinalizeUpstream, FinalizeReplay, Finish, Goto
<1> QED BY <1>1, <1>2, <1>3

\* Only a generator hands a capture over, and only one that was at work.
LEMMA WhoSubmits ==
    ASSUME NEW r \in Requests
    PROVE  /\ Arrive(r) => UNCHANGED captures
           /\ Handle(r) => UNCHANGED captures /\ req[r].pc \in {"reading", "lookup", "sending"}
           /\ Generate(r) => req[r].pc \in {"handed", "streaming", "yielded", "orphaned", "closing"}
<1>1. Arrive(r) => UNCHANGED captures
    BY DEF Arrive, Refuse, Overloaded, Admit
<1>2. Handle(r) => UNCHANGED captures /\ req[r].pc \in {"reading", "lookup", "sending"}
    BY DEF Handle, ReadBody, BodyRead, LookupMiss, LookupHit, SendOk, EarlyExit
<1>3. Generate(r) => req[r].pc \in {"handed", "streaming", "yielded", "orphaned", "closing"}
    BY DEF Generate, StartFails, StartStream, Chunk, ChunkSent, StreamEnds, StreamBreaks,
           CancelledAtUpstream, CancelledAtClient, Close, ReplaySent, FinalizeUpstream,
           FinalizeReplay
<1> QED BY <1>1, <1>2, <1>3

\* A generator that was left behind at its yield, or closes after that.
LeftBehind(r) ==
    \/ req[r].pc = "orphaned"
    \/ req[r].pc = "closing" /\ req[r].sent # req[r].seen

\* It ends without having sent its client the whole response.
LEMMA LeftBehindStep ==
    ASSUME IInv, NEW r \in Requests, Generate(r), LeftBehind(r)
    PROVE  \/ LeftBehind(r)'
           \/ /\ req'[r].pc = "done"
              /\ \A i \in 1..Len(captures'[r]) : ~captures'[r][i].delivered
<1>0. req[r] \in Locals /\ LocalsOK(req[r]) /\ req[r].pc \in {"orphaned", "closing"}
    BY DEF IInv, TypeOK, LeftBehind
<1>1. req[r].sent < req[r].seen /\ req[r].seen <= req[r].total
    BY <1>0 DEF LeftBehind, LocalsOK, Locals
<1>2. CASE Close(r) \/ FinalizeReplay(r)
    <2>1. Finish(r, req[r].sent)
        BY <1>2 DEF Close, FinalizeReplay
    <2>2. captures[r] = <<>> /\ captures \in [Requests -> Seq(Captured)]
        BY <1>0 DEF IInv, TypeOK, OneCapturePerResponse
    <2>3. req[r].sent # req[r].total
        BY <1>0, <1>1 DEF Locals
    <2> DEFINE c == [source |-> req[r].source, status |-> FinalStatus(req[r]),
                     cut |-> req[r].cut, whole |-> req[r].kept = req[r].total,
                     delivered |-> req[r].sent = req[r].total]
    <2>8. captures' = [captures EXCEPT ![r] = Append(captures[r], c)]
        BY <2>1 DEF Finish
    <2>4. c.delivered = FALSE
        BY <2>3, Zenon
    <2> HIDE DEF c
    <2>5. captures'[r] = <<c>>
        BY <2>2, <2>8
    <2>6. \A i \in 1..Len(captures'[r]) : captures'[r][i].delivered = FALSE
        BY <2>4, <2>5
    <2>7. req'[r].pc = "done"
        BY <1>0, <2>1 DEF Finish, At, IInv, TypeOK
    <2> QED BY <2>6, <2>7, Zenon
<1>3. CASE FinalizeUpstream(r)
    <2>1. req'[r] = [req[r] EXCEPT !.pc = "closing"]
        BY <1>3 DEF FinalizeUpstream, Goto, IInv, TypeOK
    <2> QED BY <1>0, <1>1, <2>1 DEF LeftBehind, Locals
<1>4. Close(r) \/ FinalizeReplay(r) \/ FinalizeUpstream(r)
    BY <1>0 DEF Generate, StartFails, StartStream, Chunk, ChunkSent, StreamEnds, StreamBreaks,
                CancelledAtUpstream, CancelledAtClient, ReplaySent
<1> QED BY <1>2, <1>3, <1>4

----------------------------------------------------------------------------
(* The theorems *)

\* The invariant holds before the first request.
LEMMA InitIInv == Init => IInv
<1> SUFFICES ASSUME Init PROVE IInv
    OBVIOUS
<1>1. \A r \in Requests : req[r] = At("idle") /\ captures[r] = <<>>
    BY DEF Init
<1>2. \A r \in Requests : req[r].pc = "idle"
    BY <1>1 DEF At
<1>3. req \in [Requests -> Locals] /\ \A r \in Requests : LocalsOK(req[r])
    BY <1>1, AtOK DEF Init
<1>4. captures \in [Requests -> Seq(Captured)]
    BY DEF Init
<1>5. TypeOK
    BY <1>3, <1>4 DEF Init, TypeOK
<1>6. Holders = {}
    BY <1>2 DEF Holders, Holding
<1>7. PermitsConserved
    BY <1>6, FS_EmptySet DEF Init, PermitsConserved
<1>8. OneCapturePerResponse
    BY <1>1, <1>2 DEF OneCapturePerResponse
<1>9. \A r \in Requests : \A i \in 1..Len(captures[r]) : CaptureOK(captures[r][i])
    BY <1>1
<1> QED BY <1>3, <1>5, <1>7, <1>8, <1>9 DEF IInv

\* Every step of every request preserves it.
LEMMA NextIInv == IInv /\ [Next]_vars => IInv'
<1> SUFFICES ASSUME IInv, [Next]_vars PROVE IInv'
    OBVIOUS
<1>1. ASSUME NEW r \in Requests, Arrive(r) \/ Handle(r) \/ Generate(r) PROVE IInv'
    BY <1>1, HandleStep, GenerateStep
<1>2. CASE UNCHANGED vars
    BY <1>2 DEF vars, IInv, TypeOK, PermitsConserved, OneCapturePerResponse, Holders
<1> QED BY <1>1, <1>2 DEF Next

\* The invariant, whatever the requests, the upstream and the clients do.
THEOREM RelayInvariant == Spec => []IInv
BY InitIInv, NextIInv, PTL DEF Spec

\* The locals of a request and its captures keep their types: the buffers stay
\* within their limits (relay.py:205-224, capture.py:118-130).
THEOREM TypeCorrect == Spec => []TypeOK
<1>1. IInv => TypeOK
    BY DEF IInv
<1> QED BY <1>1, RelayInvariant, PTL

\* The in-flight counter is the number of requests that own a permit, for any
\* number of them (relay.py:122-125, 191-192).
THEOREM PermitsConservedHolds == Spec => []PermitsConserved
<1>1. IInv => PermitsConserved
    BY DEF IInv
<1> QED BY <1>1, RelayInvariant, PTL

\* A request reaches telemetry once, when its generator ran to its end
\* (relay.py:261-276, 317-326).
THEOREM OneCapturePerResponseHolds == Spec => []OneCapturePerResponse
<1>1. IInv => OneCapturePerResponse
    BY DEF IInv
<1> QED BY <1>1, RelayInvariant, PTL

\* A relayed response reported "ok" was sent to the client to its last byte
\* (relay.py:252-264).
THEOREM StatusTruthfulHolds == Spec => []StatusTruthful
<1>1. IInv => StatusTruthful
    BY DEF IInv, CaptureOK, StatusTruthful
<1> QED BY <1>1, RelayInvariant, PTL

\* An untruncated capture of a response that ended "ok" is the whole body, for
\* any capture limit (capture.py:118-130).
THEOREM UncutCaptureIsWholeHolds == Spec => []UncutCaptureIsWhole
<1>1. IInv => UncutCaptureIsWhole
    BY DEF IInv, CaptureOK, UncutCaptureIsWhole
<1> QED BY <1>1, RelayInvariant, PTL

\* The bodies and captures in memory never take more than the configured bound,
\* however many requests arrive (relay.py:179-192, config.py:133-136).
THEOREM MemoryBoundedHolds == Spec => []MemoryBounded
<1>1. IInv => MemoryBounded
    <2> SUFFICES ASSUME IInv PROVE Cardinality(Buffered) <= MaxConcurrent * (MaxBody + MaxCapture)
        BY DEF MemoryBounded
    <2> DEFINE each == MaxBody + MaxCapture
    <2>1. each \in Nat
        OBVIOUS
    <2>2. \A r \in Holders : req[r].body + req[r].kept \in Nat /\ req[r].body + req[r].kept <= each
        BY DEF IInv, TypeOK, Locals, Holders
    <2> HIDE DEF each
    <2>3. Buffered \subseteq Holders \X (1..each)
        BY <2>1, <2>2 DEF Buffered
    <2>4. IsFiniteSet(1..each) /\ Cardinality(1..each) = each
        BY <2>1, FS_Interval
    <2>5. /\ IsFiniteSet(Holders \X (1..each))
          /\ Cardinality(Holders \X (1..each)) = Cardinality(Holders) * each
        BY <2>4, HoldersFinite, FS_Product
    <2>6. Cardinality(Buffered) <= Cardinality(Holders) * each /\ IsFiniteSet(Buffered)
        BY <2>3, <2>5, FS_Subset
    <2>7. Cardinality(Holders) \in 0..MaxConcurrent
        BY DEF IInv, TypeOK, PermitsConserved
    <2>8. PICK spare \in Nat : MaxConcurrent = Cardinality(Holders) + spare
        <3>1. MaxConcurrent - Cardinality(Holders) \in Nat
            BY <2>7
        <3> QED BY <2>7, <3>1
    <2>9. MaxConcurrent * each = Cardinality(Holders) * each + spare * each /\ spare * each >= 0
        BY <2>1, <2>7, <2>8
    <2>10. Cardinality(Buffered) \in Nat
        BY <2>6, FS_CardinalityType
    <2> QED BY <2>1, <2>6, <2>7, <2>9, <2>10 DEF each
<1> QED BY <1>1, RelayInvariant, PTL
=============================================================================
