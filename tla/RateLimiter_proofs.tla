------------------------ MODULE RateLimiter_proofs ------------------------
(***************************************************************************)
(* For any clients, any budget and any window: the rate limiter's bound,   *)
(* the exactness of the wait it reports, and that it forgets idle clients. *)
(*                                                                         *)
(* The strengthening relates the bucket of a client to the whole history   *)
(* of its grants (Remembers): the bucket is the end of the history, and    *)
(* everything before the bucket has aged out.  Pruning and collecting keep *)
(* that, so that what was forgotten could not have changed a decision.     *)
(***************************************************************************)
EXTENDS RateLimiter, TLAPS, WellFoundedInduction, SequenceTheorems,
        FiniteSetTheorems

\* h is the end of the history g, and what precedes it has aged out.
Remembers(g, h) ==
    /\ Len(h) <= Len(g)
    /\ \A i \in 1..Len(h) : h[i] = g[Len(g) - Len(h) + i]
    /\ \A i \in 1..(Len(g) - Len(h)) : AgedOut(g[i])

\* The times of a history do not decrease and are not in the future.
InOrder(g) ==
    \A i \in 1..Len(g) :
        /\ g[i] <= now
        /\ \A j \in i..Len(g) : g[i] <= g[j]

\* A client that has a bucket was granted a hit less than a window before the
\* last collection, or after it.
Fresh(h) == h # <<>> => h[Len(h)] > lastGc - Window

\* The wait told to a denied client is that of the hit MaxRequests grants ago.
Waits(k) ==
    ~answer[k].allowed =>
        /\ Len(granted[k]) >= MaxRequests
        /\ answer[k].freeAt = granted[k][Len(granted[k]) - MaxRequests + 1] + Window

Spaced(g) == \A i \in 1..(Len(g) - MaxRequests) : g[i + MaxRequests] - g[i] >= Window

KeyInv(k) ==
    /\ Remembers(granted[k], hits[k])
    /\ InOrder(granted[k])
    /\ Spaced(granted[k])
    /\ Fresh(hits[k])
    /\ Waits(k)

IInv ==
    /\ TypeOK
    /\ lastGc <= now
    /\ \A k \in Keys : KeyInv(k)

----------------------------------------------------------------------------
(* Prune and Swept *)

\* A nonempty set of natural numbers has a least element.
LEMMA LeastNatural ==
    ASSUME NEW T \in SUBSET Nat, T # {}
    PROVE  \E n \in T : \A m \in T : n <= m
<1>1. PICK n \in T : \A m \in T : ~(<<m, n>> \in OpToRel(<, Nat))
    BY NatLessThanWellFounded, WFMin, Zenon
<1>2. \A m \in T : ~(m < n)
    BY <1>1, Zenon DEF OpToRel
<1> QED BY <1>2, SMT

\* Prune cuts a bucket at its first hit that has not aged out.
LEMMA PruneCuts ==
    ASSUME NEW b \in Seq(0..MaxTime)
    PROVE  \E n \in 0..Len(b) :
             /\ Prune(b) = SubSeq(b, n + 1, Len(b))
             /\ \A i \in 1..n : AgedOut(b[i])
             /\ n < Len(b) => ~AgedOut(b[n + 1])
<1> DEFINE Cut(n) == /\ \A i \in 1..n : AgedOut(b[i])
                     /\ n < Len(b) => ~AgedOut(b[n + 1])
           Kept == {n \in 0..Len(b) : n < Len(b) => ~AgedOut(b[n + 1])}
<1>1. Len(b) \in Nat /\ Kept \in SUBSET Nat /\ Kept # {}
    <2>1. Len(b) \in Kept
        OBVIOUS
    <2> QED BY <2>1
<1>2. PICK n \in Kept : \A m \in Kept : n <= m
    BY <1>1, LeastNatural, Zenon
<1>3. n \in 0..Len(b) /\ Cut(n)
    <2>1. ASSUME NEW i \in 1..n PROVE AgedOut(b[i])
        <3>1. i - 1 \in 0..Len(b) /\ i - 1 < n /\ i - 1 < Len(b) /\ (i - 1) + 1 = i
            BY <1>2
        <3>2. i - 1 \notin Kept
            BY <1>2, <3>1
        <3> QED BY <3>1, <3>2
    <2> QED BY <1>2, <2>1
<1> HIDE DEF Kept
<1>4. PICK m \in 0..Len(b) : Cut(m) /\ Prune(b) = SubSeq(b, m + 1, Len(b))
    <2> DEFINE m == CHOOSE m \in 0..Len(b) : Cut(m)
    <2>1. m \in 0..Len(b) /\ Cut(m)
        BY <1>3, Zenon
    <2>2. Prune(b) = SubSeq(b, m + 1, Len(b))
        BY DEF Prune
    <2> QED BY <2>1, <2>2
<1> QED BY <1>4

\* The end of a sequence after its first n elements.
LEMMA AfterCut ==
    ASSUME NEW S, NEW h \in Seq(S), NEW n \in 0..Len(h)
    PROVE  /\ SubSeq(h, n + 1, Len(h)) \in Seq(S)
           /\ Len(SubSeq(h, n + 1, Len(h))) = Len(h) - n
           /\ \A i \in 1..(Len(h) - n) : SubSeq(h, n + 1, Len(h))[i] = h[n + i]
OBVIOUS

\* What Prune leaves of a bucket that remembers a history still remembers it,
\* and holds exactly the hits that have not aged out.
LEMMA PruneRemembers ==
    ASSUME NEW g \in Seq(0..MaxTime), NEW h \in Seq(0..MaxTime), now \in 0..MaxTime,
           Remembers(g, h), InOrder(g), Fresh(h)
    PROVE  /\ Prune(h) \in Seq(0..MaxTime)
           /\ Len(Prune(h)) <= Len(h)
           /\ Remembers(g, Prune(h))
           /\ Fresh(Prune(h))
           /\ \A i \in 1..Len(Prune(h)) : ~AgedOut(Prune(h)[i])
<1> USE RateLimiterAssumption
<1>1. PICK n \in 0..Len(h) :
         /\ Prune(h) = SubSeq(h, n + 1, Len(h))
         /\ \A i \in 1..n : AgedOut(h[i])
         /\ n < Len(h) => ~AgedOut(h[n + 1])
    BY PruneCuts
<1>2. /\ Len(g) \in Nat /\ Len(h) \in Nat /\ n \in Nat
      /\ \A i \in 1..Len(g) : g[i] \in 0..MaxTime
      /\ \A i \in 1..Len(h) : h[i] \in 0..MaxTime
    OBVIOUS
<1> DEFINE p == Prune(h)
<1>3. /\ p \in Seq(0..MaxTime)
      /\ Len(p) = Len(h) - n
      /\ \A i \in 1..Len(p) : p[i] = h[n + i]
    BY <1>1, <1>2, AfterCut
<1> HIDE DEF p
<1>4. Remembers(g, p)
    <2>1. ASSUME NEW i \in 1..Len(p) PROVE p[i] = g[Len(g) - Len(p) + i]
        <3>1. n + i \in 1..Len(h) /\ Len(g) - Len(h) + (n + i) = Len(g) - Len(p) + i
            BY <1>2, <1>3
        <3>2. h[n + i] = g[Len(g) - Len(h) + (n + i)]
            BY <3>1, Zenon DEF Remembers
        <3>3. p[i] = h[n + i]
            BY <1>3
        <3> QED BY <3>1, <3>2, <3>3
    <2>2. ASSUME NEW i \in 1..(Len(g) - Len(p)) PROVE AgedOut(g[i])
        <3>1. CASE i \in 1..(Len(g) - Len(h))
            BY <3>1 DEF Remembers
        <3>2. CASE i > Len(g) - Len(h)
            <4> DEFINE j == i - (Len(g) - Len(h))
            <4>1. j \in 1..n /\ j \in 1..Len(h) /\ Len(g) - Len(h) + j = i
                BY <1>2, <1>3, <3>2
            <4>2. h[j] = g[Len(g) - Len(h) + j]
                BY <4>1, Zenon DEF Remembers
            <4> QED BY <1>1, <4>1, <4>2
        <3> QED BY <1>2, <1>3, <3>1, <3>2
    <2> QED BY <1>2, <1>3, <2>1, <2>2 DEF Remembers
<1>5. Fresh(p)
    <2>1. ASSUME p # <<>> PROVE p[Len(p)] = h[Len(h)] /\ h # <<>>
        <3>0. Len(p) # 0
            BY <1>3, <2>1, EmptySeq
        <3>1. Len(p) \in 1..Len(p) /\ n + Len(p) = Len(h)
            BY <1>2, <1>3, <3>0
        <3>2. p[Len(p)] = h[n + Len(p)]
            BY <1>3, <3>1, Zenon
        <3> QED BY <1>2, <1>3, <3>0, <3>1, <3>2
    <2> QED BY <2>1 DEF Fresh
<1>6. ASSUME NEW i \in 1..Len(p) PROVE ~AgedOut(p[i])
    <2>1. n < Len(h) /\ n + 1 \in 1..Len(h) /\ n + i \in 1..Len(h) /\ p[i] = h[n + i]
        BY <1>2, <1>3
    <2>2. h[n + 1] <= h[n + i]
        <3> DEFINE d == Len(g) - Len(h)
        <3>1. d + (n + 1) \in 1..Len(g) /\ d + (n + i) \in (d + (n + 1))..Len(g)
            BY <1>2, <1>3, <2>1 DEF Remembers
        <3>2. h[n + 1] = g[d + (n + 1)] /\ h[n + i] = g[d + (n + i)]
            BY <2>1, Zenon DEF Remembers
        <3>3. g[d + (n + 1)] <= g[d + (n + i)]
            <4> HIDE DEF d
            <4> QED BY <3>1, Zenon DEF InOrder
        <3> QED BY <3>2, <3>3
    <2>3. ~(h[n + 1] <= now - Window)
        BY <1>1, <2>1 DEF AgedOut
    <2> QED BY <1>2, <2>1, <2>2, <2>3 DEF AgedOut
<1> QED BY <1>2, <1>3, <1>4, <1>5, <1>6 DEF p

\* A history whose last hit has aged out may be forgotten altogether.
LEMMA ForgetRemembers ==
    ASSUME NEW g \in Seq(0..MaxTime), NEW h \in Seq(0..MaxTime), now \in 0..MaxTime,
           Remembers(g, h), InOrder(g), h = <<>> \/ AgedOut(h[Len(h)])
    PROVE  Remembers(g, <<>>)
<1> USE RateLimiterAssumption
<1>1. /\ Len(g) \in Nat /\ Len(h) \in Nat
      /\ \A i \in 1..Len(g) : g[i] \in 0..MaxTime
      /\ \A i \in 1..Len(h) : h[i] \in 0..MaxTime
    OBVIOUS
<1>2. ASSUME NEW i \in 1..Len(g) PROVE AgedOut(g[i])
    <2>1. CASE i \in 1..(Len(g) - Len(h))
        BY <2>1 DEF Remembers
    <2>2. CASE i > Len(g) - Len(h)
        <3>1. Len(h) # 0 /\ Len(h) \in 1..Len(h) /\ Len(g) - Len(h) + Len(h) = Len(g)
            BY <1>1, <2>2
        <3>2. h[Len(h)] = g[Len(g) - Len(h) + Len(h)]
            BY <3>1, Zenon DEF Remembers
        <3>3. i \in 1..Len(g) /\ Len(g) \in i..Len(g)
            BY <1>1
        <3>4. g[i] <= g[Len(g)]
            BY <3>3, Zenon DEF InOrder
        <3>5. h[Len(h)] <= now - Window
            BY <3>1 DEF AgedOut
        <3> QED BY <1>1, <3>1, <3>2, <3>3, <3>4, <3>5 DEF AgedOut
    <2> QED BY <1>1, <2>1, <2>2
<1> QED BY <1>1, <1>2 DEF Remembers

\* What the collection leaves of a bucket still remembers the history, and after
\* a collection only buckets with a hit in the window are left.
LEMMA SweptRemembers ==
    ASSUME TypeOK, NEW k \in Keys, KeyInv(k)
    PROVE  /\ Swept[k] \in Seq(0..MaxTime)
           /\ Len(Swept[k]) <= Len(hits[k])
           /\ Remembers(granted[k], Swept[k])
           /\ Fresh(Swept[k])
           /\ GcDue /\ Swept[k] # <<>> =>
                 Swept[k][Len(Swept[k])] > now - Window
<1> USE RateLimiterAssumption
<1>1. /\ granted[k] \in Seq(0..MaxTime) /\ hits[k] \in Seq(0..MaxTime)
      /\ Len(hits[k]) \in Nat
      /\ \A i \in 1..Len(hits[k]) : hits[k][i] \in 0..MaxTime
      /\ now \in 0..MaxTime
    BY DEF TypeOK
<1>2. Swept[k] = IF GcDue /\ Stale(k) THEN <<>> ELSE hits[k]
    BY DEF Swept
<1>3. CASE GcDue /\ Stale(k)
    <2>1. Swept[k] = <<>> /\ Len(Swept[k]) = 0
        BY <1>2, <1>3
    <2>2. Remembers(granted[k], <<>>)
        BY <1>1, <1>3, ForgetRemembers DEF KeyInv, Stale
    <2> QED BY <1>1, <2>1, <2>2 DEF Fresh
<1>4. CASE ~(GcDue /\ Stale(k))
    <2>1. Swept[k] = hits[k]
        BY <1>2, <1>4
    <2>2. ASSUME GcDue, hits[k] # <<>> PROVE hits[k][Len(hits[k])] > now - Window
        <3>1. Len(hits[k]) # 0
            BY <1>1, <2>2, EmptySeq
        <3>2. ~(hits[k][Len(hits[k])] <= now - Window)
            BY <1>4, <2>2 DEF Stale, AgedOut
        <3> QED BY <1>1, <3>1, <3>2
    <2> QED BY <1>1, <2>1, <2>2 DEF KeyInv
<1> QED BY <1>3, <1>4

\* The bucket that check() decides on: of the history, exactly the hits that have
\* not aged out.
LEMMA Bucket ==
    ASSUME TypeOK, NEW k \in Keys, KeyInv(k)
    PROVE  /\ Prune(Swept[k]) \in Seq(0..MaxTime)
           /\ Len(Prune(Swept[k])) <= MaxRequests
           /\ Remembers(granted[k], Prune(Swept[k]))
           /\ Fresh(Prune(Swept[k]))
           /\ GcDue /\ Prune(Swept[k]) # <<>> =>
                 Prune(Swept[k])[Len(Prune(Swept[k]))] > now - Window
           /\ \A i \in 1..Len(Prune(Swept[k])) : ~AgedOut(Prune(Swept[k])[i])
<1> USE RateLimiterAssumption
<1> DEFINE b == Prune(Swept[k])
<1>1. /\ granted[k] \in Seq(0..MaxTime) /\ Swept[k] \in Seq(0..MaxTime)
      /\ now \in 0..MaxTime
      /\ Len(hits[k]) \in Nat /\ Len(hits[k]) <= MaxRequests
      /\ Len(Swept[k]) <= Len(hits[k])
      /\ Remembers(granted[k], Swept[k]) /\ InOrder(granted[k]) /\ Fresh(Swept[k])
    BY SweptRemembers DEF TypeOK, KeyInv
<1>2. /\ b \in Seq(0..MaxTime) /\ Len(b) <= Len(Swept[k])
      /\ Remembers(granted[k], b) /\ Fresh(b)
      /\ \A i \in 1..Len(b) : ~AgedOut(b[i])
    BY <1>1, PruneRemembers
<1> HIDE DEF b
<1>3. Len(b) <= MaxRequests
    BY <1>1, <1>2
<1>4. ASSUME b # <<>> PROVE b[Len(b)] > now - Window
    <2>1. Len(b) \in 1..Len(b) /\ b[Len(b)] \in 0..MaxTime
        BY <1>2, <1>4, EmptySeq
    <2>2. ~(b[Len(b)] <= now - Window)
        BY <1>2, <2>1 DEF AgedOut
    <2> QED BY <1>1, <2>1, <2>2
<1> QED BY <1>2, <1>3, <1>4, Zenon DEF b

----------------------------------------------------------------------------
(* Appending a hit *)

\* The grant of a hit keeps the history in order, spaced, and remembered.
LEMMA AppendHit ==
    ASSUME NEW g \in Seq(0..MaxTime), NEW b \in Seq(0..MaxTime), now \in 0..MaxTime,
           Remembers(g, b), InOrder(g), Spaced(g), Len(b) < MaxRequests
    PROVE  /\ Remembers(Append(g, now), Append(b, now))
           /\ InOrder(Append(g, now))
           /\ Spaced(Append(g, now))
<1> USE RateLimiterAssumption
<1> DEFINE G == Append(g, now)
           B == Append(b, now)
<1>1. /\ Len(g) \in Nat /\ Len(b) \in Nat
      /\ \A i \in 1..Len(g) : g[i] \in 0..MaxTime
      /\ \A i \in 1..Len(b) : b[i] \in 0..MaxTime
    OBVIOUS
<1>2. /\ Len(G) = Len(g) + 1 /\ Len(B) = Len(b) + 1
      /\ \A i \in 1..Len(g) : G[i] = g[i]
      /\ \A i \in 1..Len(b) : B[i] = b[i]
      /\ G[Len(g) + 1] = now /\ B[Len(b) + 1] = now
    OBVIOUS
<1> HIDE DEF G, B
<1>0. /\ Len(g) \in Nat /\ Len(b) \in Nat /\ Len(G) = Len(g) + 1 /\ Len(B) = Len(b) + 1
      /\ MaxRequests \in Nat \ {0}
    BY <1>1, <1>2
<1>3. Remembers(G, B)
    <2>1. ASSUME NEW i \in 1..Len(B) PROVE B[i] = G[Len(G) - Len(B) + i]
        <3>1. CASE i = Len(b) + 1
            BY <1>1, <1>2, <3>1
        <3>2. CASE i \in 1..Len(b)
            <4>1. b[i] = g[Len(g) - Len(b) + i]
                BY <3>2, Zenon DEF Remembers
            <4>2. Len(g) - Len(b) + i \in 1..Len(g) /\ Len(G) - Len(B) + i = Len(g) - Len(b) + i
                BY <1>1, <1>2, <3>2 DEF Remembers
            <4> QED BY <1>2, <3>2, <4>1, <4>2
        <3> QED BY <1>0, <3>1, <3>2
    <2>2. ASSUME NEW i \in 1..(Len(G) - Len(B)) PROVE AgedOut(G[i])
        <3>1. i \in 1..(Len(g) - Len(b)) /\ i \in 1..Len(g)
            BY <1>1, <1>2
        <3>2. AgedOut(g[i])
            BY <3>1, Zenon DEF Remembers
        <3> QED BY <1>2, <3>1, <3>2
    <2> QED BY <1>1, <1>2, <2>1, <2>2 DEF Remembers
<1>4. InOrder(G)
    <2>1. ASSUME NEW i \in 1..Len(G) PROVE G[i] <= now
        <3>1. CASE i = Len(g) + 1
            BY <1>2, <3>1
        <3>2. CASE i \in 1..Len(g)
            <4>1. g[i] <= now
                BY <3>2, Zenon DEF InOrder
            <4> QED BY <1>2, <3>2, <4>1
        <3> QED BY <1>0, <3>1, <3>2
    <2>2. ASSUME NEW i \in 1..Len(G), NEW j \in i..Len(G) PROVE G[i] <= G[j]
        <3>1. CASE j = Len(g) + 1
            BY <1>2, <2>1, <3>1
        <3>2. CASE j # Len(g) + 1
            <4>1. i \in 1..Len(g) /\ j \in i..Len(g) /\ j \in 1..Len(g)
                BY <1>1, <1>2, <3>2
            <4>2. g[i] <= g[j]
                BY <4>1, Zenon DEF InOrder
            <4> QED BY <1>2, <4>1, <4>2
        <3> QED BY <3>1, <3>2
    <2> QED BY <2>1, <2>2 DEF InOrder
<1>5. Spaced(G)
    <2> SUFFICES ASSUME NEW i \in Int, 1 <= i, i + MaxRequests <= Len(G)
                 PROVE  G[i + MaxRequests] - G[i] >= Window
        BY <1>0 DEF Spaced
    <2>1. i \in 1..Len(g) /\ G[i] = g[i] /\ g[i] \in 0..MaxTime
        BY <1>1, <1>2
    <2>2. CASE i + MaxRequests = Len(g) + 1
        <3>1. i \in 1..(Len(g) - Len(b))
            BY <1>1, <2>2
        <3>2. g[i] <= now - Window
            BY <3>1, Zenon DEF Remembers, AgedOut
        <3> QED BY <1>2, <2>1, <2>2, <3>2
    <2>3. CASE i + MaxRequests <= Len(g)
        <3>1. i \in 1..(Len(g) - MaxRequests) /\ i + MaxRequests \in 1..Len(g)
            BY <1>0, <2>3
        <3>2. g[i + MaxRequests] - g[i] >= Window
            BY <3>1, Zenon DEF Spaced
        <3>3. G[i + MaxRequests] = g[i + MaxRequests] /\ g[i + MaxRequests] \in 0..MaxTime
            BY <1>1, <1>2, <3>1, Zenon
        <3> QED BY <2>1, <3>2, <3>3
    <2>4. i + MaxRequests \in Int /\ i + MaxRequests <= Len(g) + 1
        BY <1>0
    <2>5. i + MaxRequests = Len(g) + 1 \/ i + MaxRequests <= Len(g)
        <3>1. ASSUME NEW x \in Int, NEW n \in Nat, x <= n + 1 PROVE x = n + 1 \/ x <= n
            BY <3>1
        <3> QED BY <1>0, <2>4, <3>1, Zenon
    <2> QED BY <2>2, <2>3, <2>5, Zenon
<1> QED BY <1>3, <1>4, <1>5, Zenon DEF G, B

----------------------------------------------------------------------------
(* The invariant *)

LEMMA InitIInv == Init => IInv
<1> USE RateLimiterAssumption
<1> SUFFICES ASSUME Init PROVE IInv
    OBVIOUS
<1>1. TypeOK
    <2>1. <<>> \in Seq(0..MaxTime) /\ Len(<<>>) = 0
        OBVIOUS
    <2>2. hits \in [Keys -> Seq(0..MaxTime)] /\ granted \in [Keys -> Seq(0..MaxTime)]
        BY <2>1, Zenon DEF Init
    <2>3. answer \in [Keys -> [allowed : BOOLEAN, freeAt : Nat]]
        <3>1. [allowed |-> TRUE, freeAt |-> 0] \in [allowed : BOOLEAN, freeAt : Nat]
            OBVIOUS
        <3> QED BY <3>1, Zenon DEF Init
    <2>4. \A k \in Keys : Len(hits[k]) <= MaxRequests
        BY <2>1 DEF Init
    <2> QED BY <2>2, <2>3, <2>4 DEF Init, TypeOK
<1>2. ASSUME NEW k \in Keys PROVE KeyInv(k)
    <2>1. hits[k] = <<>> /\ granted[k] = <<>> /\ answer[k].allowed
        BY DEF Init
    <2>2. Remembers(<<>>, <<>>) /\ InOrder(<<>>) /\ Spaced(<<>>) /\ Fresh(<<>>)
        BY DEF Remembers, InOrder, Spaced, Fresh
    <2> QED BY <2>1, <2>2, Zenon DEF KeyInv, Waits
<1> QED BY <1>1, <1>2 DEF IInv, Init

\* Time passes: what had aged out stays so.
LEMMA TickStep == IInv /\ Tick => IInv'
<1> USE RateLimiterAssumption
<1> SUFFICES ASSUME IInv, Tick PROVE IInv'
    OBVIOUS
<1>1. /\ now \in 0..MaxTime /\ now' = now + 1 /\ now' \in 0..MaxTime
      /\ hits' = hits /\ lastGc' = lastGc /\ granted' = granted /\ answer' = answer
    BY DEF IInv, TypeOK, Tick
<1>2. TypeOK'
    BY <1>1 DEF IInv, TypeOK
<1>3. ASSUME NEW k \in Keys PROVE KeyInv(k)'
    <2> DEFINE g == granted[k]
               h == hits[k]
    <2>1. g \in Seq(0..MaxTime) /\ Len(g) \in Nat /\ \A i \in 1..Len(g) : g[i] \in 0..MaxTime
        BY DEF IInv, TypeOK
    <2>2. Len(h) \in Nat /\ Len(h) <= Len(g) /\ KeyInv(k)
        <3>1. TypeOK /\ KeyInv(k)
            BY DEF IInv
        <3>2. h \in Seq(0..MaxTime)
            BY <3>1 DEF TypeOK
        <3>3. Len(h) <= Len(g)
            BY <3>1, Zenon DEF KeyInv, Remembers
        <3>4. Len(h) \in Nat
            BY <3>2
        <3> QED BY <3>1, <3>3, <3>4, Zenon
    <2>3. ASSUME NEW i \in 1..(Len(g) - Len(h)) PROVE g[i] <= now' - Window
        <3>1. g[i] <= now - Window /\ i \in 1..Len(g)
            BY <2>1, <2>2 DEF KeyInv, Remembers, AgedOut
        <3> QED BY <1>1, <2>1, <3>1
    <2>4. ASSUME NEW i \in 1..Len(g) PROVE g[i] <= now'
        <3>1. g[i] <= now
            BY <2>2 DEF KeyInv, InOrder
        <3> QED BY <1>1, <2>1, <3>1
    <2>5. Remembers(g, h)'
        BY <1>1, <2>2, <2>3 DEF KeyInv, Remembers, AgedOut
    <2>6. InOrder(g)'
        BY <1>1, <2>2, <2>4 DEF KeyInv, InOrder
    <2> QED BY <1>1, <2>2, <2>5, <2>6 DEF KeyInv, Spaced, Fresh, Waits
<1>4. lastGc' <= now'
    BY <1>1 DEF IInv, TypeOK
<1> QED BY <1>2, <1>3, <1>4, Zenon DEF IInv

\* A client that did not ask is affected by the collection only.
LEMMA OthersStep ==
    ASSUME IInv, NEW k \in Keys, Check(k), NEW j \in Keys, j # k
    PROVE  KeyInv(j)'
<1> USE RateLimiterAssumption
<1>1. /\ hits'[j] = Swept[j] /\ granted'[j] = granted[j] /\ answer'[j] = answer[j]
      /\ now' = now
      /\ lastGc' = IF GcDue THEN now ELSE lastGc
    BY DEF Check, IInv, TypeOK, Swept
<1>2. TypeOK /\ KeyInv(j)
    BY DEF IInv
<1>3. /\ Remembers(granted[j], Swept[j]) /\ Fresh(Swept[j])
      /\ GcDue /\ Swept[j] # <<>> => Swept[j][Len(Swept[j])] > now - Window
    BY <1>2, SweptRemembers
<1>4. Remembers(granted[j], hits[j])'
    BY <1>1, <1>3 DEF Remembers, AgedOut
<1>5. Fresh(hits[j])'
    BY <1>1, <1>3 DEF Fresh
<1> QED BY <1>1, <1>2, <1>4, <1>5 DEF KeyInv, InOrder, Spaced, Waits

\* The client that asked.
LEMMA AskerStep ==
    ASSUME IInv, NEW k \in Keys, Check(k)
    PROVE  KeyInv(k)'
<1> USE RateLimiterAssumption
<1> DEFINE g == granted[k]
           b == Prune(Swept[k])
<1>1. TypeOK /\ KeyInv(k) /\ lastGc <= now
    BY DEF IInv
<1>2. /\ g \in Seq(0..MaxTime) /\ b \in Seq(0..MaxTime) /\ now \in 0..MaxTime
      /\ lastGc \in 0..MaxTime
      /\ Len(b) <= MaxRequests
      /\ Remembers(g, b) /\ InOrder(g) /\ Spaced(g) /\ Fresh(b)
      /\ GcDue /\ b # <<>> => b[Len(b)] > now - Window
    BY <1>1, Bucket DEF TypeOK, KeyInv
<1>3. /\ now' = now
      /\ lastGc' = IF GcDue THEN now ELSE lastGc
      /\ Swept \in [Keys -> Seq(0..MaxTime)]
    <2>1. \A j \in Keys : Swept[j] \in Seq(0..MaxTime)
        BY <1>1, SweptRemembers, Zenon DEF IInv
    <2>2. Swept = [j \in Keys |-> Swept[j]]
        BY DEF Swept
    <2> QED BY <2>1, <2>2, Zenon DEF Check
<1>4. CASE HasRoom(b)
    <2>1. /\ hits'[k] = Append(b, now) /\ granted'[k] = Append(g, now)
          /\ answer'[k].allowed
        BY <1>1, <1>3, <1>4 DEF Check, TypeOK
    <2>2. /\ Remembers(Append(g, now), Append(b, now))
          /\ InOrder(Append(g, now)) /\ Spaced(Append(g, now))
        BY <1>2, <1>4, AppendHit DEF HasRoom
    <2>3. Len(Append(b, now)) = Len(b) + 1 /\ Append(b, now)[Len(b) + 1] = now
        BY <1>2
    <2>4. lastGc' <= now
        BY <1>1, <1>2, <1>3
    <2>5. Fresh(hits[k])'
        <3>1. now > lastGc' - Window
            BY <1>2, <1>3, <2>4
        <3> QED BY <2>1, <2>3, <3>1 DEF Fresh
    <2>6. Remembers(granted[k], hits[k])'
        BY <1>3, <2>1, <2>2 DEF Remembers, AgedOut
    <2>7. InOrder(granted[k])' /\ Spaced(granted[k])'
        BY <1>3, <2>1, <2>2 DEF InOrder, Spaced
    <2> QED BY <2>1, <2>5, <2>6, <2>7, Zenon DEF KeyInv, Waits
<1>5. CASE ~HasRoom(b)
    <2>1. /\ hits'[k] = b /\ granted'[k] = g
          /\ answer'[k].freeAt = b[1] + Window
        BY <1>1, <1>3, <1>5 DEF Check, TypeOK, FreesAt
    <2>2. Len(b) = MaxRequests /\ Len(g) \in Nat /\ 1 \in 1..Len(b)
        BY <1>2, <1>5 DEF HasRoom
    <2>3. b[1] = g[Len(g) - Len(b) + 1] /\ Len(b) <= Len(g)
        BY <1>2, <2>2, Zenon DEF Remembers
    <2>4. Waits(k)'
        BY <2>1, <2>2, <2>3 DEF Waits
    <2>5. Remembers(granted[k], hits[k])'
        BY <1>2, <1>3, <2>1 DEF Remembers, AgedOut
    <2>6. InOrder(granted[k])' /\ Spaced(granted[k])'
        BY <1>2, <1>3, <2>1 DEF InOrder, Spaced
    <2>7. Fresh(hits[k])'
        BY <1>2, <1>3, <2>1 DEF Fresh
    <2> QED BY <2>4, <2>5, <2>6, <2>7, Zenon DEF KeyInv
<1> QED BY <1>4, <1>5

LEMMA CheckTypes ==
    ASSUME IInv, NEW k \in Keys, Check(k)
    PROVE  TypeOK' /\ lastGc' <= now'
<1> USE RateLimiterAssumption
<1> DEFINE b == Prune(Swept[k])
<1>1. TypeOK /\ lastGc <= now /\ \A j \in Keys : KeyInv(j)
    BY DEF IInv
<1>2. /\ b \in Seq(0..MaxTime) /\ Len(b) <= MaxRequests /\ Len(b) \in Nat
      /\ Append(b, now) \in Seq(0..MaxTime) /\ Len(Append(b, now)) = Len(b) + 1
    BY <1>1, Bucket DEF TypeOK
<1>3. Swept \in [Keys -> Seq(0..MaxTime)]
    <2>1. \A j \in Keys : Swept[j] \in Seq(0..MaxTime)
        BY <1>1, SweptRemembers, Zenon
    <2>2. Swept = [j \in Keys |-> Swept[j]]
        BY DEF Swept
    <2> QED BY <2>1, <2>2, Zenon
<1>4. ASSUME NEW j \in Keys PROVE Len(Swept[j]) <= MaxRequests
    <2>1. Len(Swept[j]) <= Len(hits[j]) /\ Swept[j] \in Seq(0..MaxTime)
        BY <1>1, SweptRemembers, Zenon
    <2>2. Len(hits[j]) <= MaxRequests /\ hits[j] \in Seq(0..MaxTime)
        BY <1>1 DEF TypeOK
    <2> QED BY <2>1, <2>2
<1>5. now' = now /\ now \in 0..MaxTime /\ lastGc' \in 0..MaxTime /\ lastGc' <= now
    BY <1>1 DEF Check, TypeOK
<1>6. CASE HasRoom(b)
    <2>1. /\ hits' = [Swept EXCEPT ![k] = Append(b, now)]
          /\ granted' = [granted EXCEPT ![k] = Append(@, now)]
          /\ answer' = [answer EXCEPT ![k] = [allowed |-> TRUE, freeAt |-> now]]
        BY <1>6, Zenon DEF Check
    <2>2. hits' \in [Keys -> Seq(0..MaxTime)] /\ \A j \in Keys : Len(hits'[j]) <= MaxRequests
        BY <1>2, <1>3, <1>4, <1>6, <2>1 DEF HasRoom
    <2>3. granted' \in [Keys -> Seq(0..MaxTime)]
        BY <1>1, <1>5, <2>1 DEF TypeOK
    <2>4. answer' \in [Keys -> [allowed : BOOLEAN, freeAt : Nat]]
        <3>1. [allowed |-> TRUE, freeAt |-> now] \in [allowed : BOOLEAN, freeAt : Nat]
            BY <1>5
        <3> QED BY <1>1, <2>1, <3>1, Zenon DEF TypeOK
    <2> QED BY <1>5, <2>2, <2>3, <2>4 DEF TypeOK
<1>7. CASE ~HasRoom(b)
    <2>1. /\ hits' = [Swept EXCEPT ![k] = b]
          /\ granted' = granted
          /\ answer' = [answer EXCEPT ![k] = [allowed |-> FALSE, freeAt |-> FreesAt(b)]]
        BY <1>7, Zenon DEF Check
    <2>2. hits' \in [Keys -> Seq(0..MaxTime)] /\ \A j \in Keys : Len(hits'[j]) <= MaxRequests
        BY <1>2, <1>3, <1>4, <2>1
    <2>3. answer' \in [Keys -> [allowed : BOOLEAN, freeAt : Nat]]
        <3>1. FreesAt(b) \in Nat
            BY <1>2, <1>7 DEF FreesAt, HasRoom
        <3>2. [allowed |-> FALSE, freeAt |-> FreesAt(b)] \in [allowed : BOOLEAN, freeAt : Nat]
            BY <3>1
        <3> QED BY <1>1, <2>1, <3>2, Zenon DEF TypeOK
    <2> QED BY <1>1, <1>5, <2>1, <2>2, <2>3 DEF TypeOK
<1> QED BY <1>5, <1>6, <1>7

\* The invariant holds always, for any number of clients, any budget, any window.
THEOREM Invariance == Spec => []IInv
<1>1. IInv /\ [Next]_vars => IInv'
    <2> SUFFICES ASSUME IInv, [Next]_vars PROVE IInv'
        OBVIOUS
    <2>1. CASE Tick
        BY <2>1, TickStep
    <2>2. ASSUME NEW k \in Keys, Check(k) PROVE IInv'
        <3>1. \A j \in Keys : KeyInv(j)'
            BY <2>2, OthersStep, AskerStep, Zenon
        <3> QED BY <2>2, <3>1, CheckTypes, Zenon DEF IInv
    <2>3. CASE UNCHANGED vars
        BY <2>3 DEF vars, IInv, TypeOK, KeyInv, Remembers, AgedOut, InOrder, Spaced, Fresh, Waits
    <2> QED BY <2>1, <2>2, <2>3 DEF Next
<1> QED BY <1>1, InitIInv, PTL DEF Spec

\* Types: times within the clock's range and no bucket over the budget
\* (rate_limit.py:64-83).
THEOREM TypeCorrect == Spec => []TypeOK
BY Invariance, PTL DEF IInv

\* rate_limit.py:45 "Allow at most max_requests per window_s for each key".
THEOREM WindowBoundHolds == Spec => []WindowBound
<1>1. IInv => WindowBound
    BY DEF IInv, KeyInv, Spaced, WindowBound
<1> QED BY <1>1, Invariance, PTL

\* rate_limit.py:77-80: the wait a denied client is told is exact.
THEOREM RetryAfterExactHolds == Spec => []RetryAfterExact
<1> USE RateLimiterAssumption
<1>1. IInv => RetryAfterExact
    <2> SUFFICES ASSUME IInv, NEW k \in Keys, ~answer[k].allowed
                 PROVE  HasRoom(Prune(Swept[k])) <=> now >= answer[k].freeAt
        BY DEF RetryAfterExact
    <2> DEFINE g == granted[k]
               b == Prune(Swept[k])
               m == Len(g) - MaxRequests + 1
    <2>1. /\ g \in Seq(0..MaxTime) /\ b \in Seq(0..MaxTime) /\ now \in 0..MaxTime
          /\ Len(b) <= MaxRequests /\ Remembers(g, b)
          /\ \A i \in 1..Len(b) : ~AgedOut(b[i])
        BY Bucket DEF IInv, TypeOK
    <2>2. Len(g) >= MaxRequests /\ answer[k].freeAt = g[m] + Window
        BY DEF IInv, KeyInv, Waits
    <2> HIDE DEF g, b
    <2>3. Len(g) \in Nat /\ Len(b) \in Nat /\ m \in 1..Len(g) /\ g[m] \in 0..MaxTime
        BY <2>1, <2>2
    <2>4. CASE Len(b) < MaxRequests
        <3>1. m \in 1..(Len(g) - Len(b))
            BY <2>2, <2>3, <2>4
        <3>2. g[m] <= now - Window
            BY <2>1, <3>1, Zenon DEF Remembers, AgedOut
        <3> QED BY <2>1, <2>2, <2>3, <2>4, <3>2 DEF HasRoom, b
    <2>5. CASE Len(b) = MaxRequests
        <3>1. 1 \in 1..Len(b) /\ Len(g) - Len(b) + 1 = m
            BY <2>3, <2>5
        <3>2. b[1] = g[m] /\ ~AgedOut(b[1])
            BY <2>1, <3>1, Zenon DEF Remembers
        <3>3. ~(g[m] <= now - Window)
            BY <3>2 DEF AgedOut
        <3> QED BY <2>1, <2>2, <2>3, <2>5, <3>3 DEF HasRoom, b
    <2> QED BY <2>1, <2>3, <2>4, <2>5
<1> QED BY <1>1, Invariance, PTL

\* rate_limit.py:7-8 "idle keys are garbage collected".
THEOREM IdleKeysForgottenHolds == Spec => IdleKeysForgotten
<1> USE RateLimiterAssumption
<1> DEFINE Remembered(k) == hits'[k] # <<>> => hits'[k][Len(hits'[k])] > now - 2 * Window
<1>1. IInv /\ IInv' /\ [Next]_vars =>
        [now' = now => \A k \in Keys : Remembered(k)]_vars
    <2> SUFFICES ASSUME IInv, IInv', Next, now' = now, NEW k \in Keys
                 PROVE  Remembered(k)
        OBVIOUS
    <2>1. now \in 0..MaxTime /\ lastGc \in 0..MaxTime
        BY DEF IInv, TypeOK
    <2>2. PICK c \in Keys : Check(c)
        BY <2>1 DEF Next, Tick
    <2>3. lastGc' = IF GcDue THEN now ELSE lastGc
        BY <2>2 DEF Check
    <2>4. lastGc' > now - Window
        BY <2>1, <2>3 DEF GcDue
    <2>5. hits'[k] # <<>> => hits'[k][Len(hits'[k])] > lastGc' - Window
        BY DEF IInv, KeyInv, Fresh
    <2>6. ASSUME hits'[k] # <<>> PROVE hits'[k][Len(hits'[k])] \in 0..MaxTime
        <3>1. hits'[k] \in Seq(0..MaxTime)
            BY DEF IInv, TypeOK
        <3>2. Len(hits'[k]) \in 1..Len(hits'[k])
            BY <2>6, <3>1, EmptySeq
        <3> QED BY <3>1, <3>2
    <2>7. lastGc' \in 0..MaxTime
        BY DEF IInv, TypeOK
    <2> QED BY <2>1, <2>4, <2>5, <2>6, <2>7
<1> QED BY <1>1, Invariance, PTL DEF Spec, IdleKeysForgotten

----------------------------------------------------------------------------
(* Refinement of SlidingWindow *)

\* The instance's cardinality is the cardinality.
LEMMA SameCardinality == \A S : Unpruned!Cardinality(S) = Cardinality(S)
BY DEF Cardinality, Unpruned!Cardinality

\* The hits of the whole history inside the window are the bucket.
LEMMA RecentIsBucket ==
    ASSUME IInv, NEW k \in Keys
    PROVE  /\ Unpruned!Recent(k) = (Len(granted[k]) - Len(Prune(Swept[k])) + 1)..Len(granted[k])
           /\ Cardinality(Unpruned!Recent(k)) = Len(Prune(Swept[k]))
<1> USE RateLimiterAssumption
<1> DEFINE g == granted[k]
           b == Prune(Swept[k])
           first == Len(g) - Len(b) + 1
<1>1. /\ g \in Seq(0..MaxTime) /\ b \in Seq(0..MaxTime) /\ now \in 0..MaxTime
      /\ Remembers(g, b)
      /\ \A i \in 1..Len(b) : ~AgedOut(b[i])
    BY Bucket DEF IInv, TypeOK
<1>2. Unpruned!Recent(k) = {i \in 1..Len(g) : g[i] > now - Window}
    BY DEF Unpruned!Recent
<1> HIDE DEF g, b
<1>3. /\ Len(g) \in Nat /\ Len(b) \in Nat /\ Len(b) <= Len(g)
      /\ \A i \in 1..Len(g) : g[i] \in 0..MaxTime
    BY <1>1 DEF Remembers
<1>4. ASSUME NEW i \in 1..Len(g) PROVE g[i] > now - Window <=> i \in first..Len(g)
    <2>1. CASE i < first
        <3>1. i \in 1..(Len(g) - Len(b))
            BY <1>3, <2>1
        <3>2. g[i] <= now - Window
            BY <1>1, <3>1, Zenon DEF Remembers, AgedOut
        <3> QED BY <1>1, <1>3, <2>1, <3>2
    <2>2. CASE i >= first
        <3> DEFINE j == i - first + 1
        <3>1. j \in 1..Len(b) /\ Len(g) - Len(b) + j = i
            BY <1>3, <2>2
        <3>2. b[j] = g[i] /\ ~(b[j] <= now - Window)
            <4> HIDE DEF j
            <4> QED BY <1>1, <3>1, Zenon DEF Remembers, AgedOut
        <3> QED BY <1>1, <1>3, <2>2, <3>2
    <2> QED BY <1>3, <2>1, <2>2
<1>5. Unpruned!Recent(k) = first..Len(g)
    <2>1. \A i \in first..Len(g) : i \in 1..Len(g)
        BY <1>3
    <2> QED BY <1>2, <1>4, <2>1
<1>6. Cardinality(first..Len(g)) = Len(b)
    <2>1. first \in Int /\ Len(g) \in Int
        BY <1>3
    <2>2. Cardinality(first..Len(g)) = IF first > Len(g) THEN 0 ELSE Len(g) - first + 1
        <3> HIDE DEF first
        <3> QED BY <2>1, FS_Interval, Zenon
    <2> QED BY <1>3, <2>2
<1> QED BY <1>5, <1>6 DEF g, b

\* rate_limit.py:1-8: pruning and garbage collection change no decision.
THEOREM RefinesSlidingWindowHolds == Spec => RefinesSlidingWindow
<1> USE RateLimiterAssumption
<1>1. Init => Unpruned!WindowInit
    BY DEF Init, Unpruned!WindowInit, Unpruned!NoAnswer
<1>2. IInv /\ [Next]_vars => [Unpruned!WindowNext]_(Unpruned!windowVars)
    <2> SUFFICES ASSUME IInv, [Next]_vars
                 PROVE  [Unpruned!WindowNext]_(Unpruned!windowVars)
        OBVIOUS
    <2>1. CASE Tick
        BY <2>1 DEF Tick, Unpruned!WindowNext, Unpruned!Pass
    <2>2. ASSUME NEW k \in Keys, Check(k) PROVE Unpruned!WindowNext
        <3> DEFINE g == granted[k]
                   b == Prune(Swept[k])
                   first == Len(g) - Len(b) + 1
        <3>1. Unpruned!Recent(k) = first..Len(g) /\ Cardinality(Unpruned!Recent(k)) = Len(b)
            BY RecentIsBucket
        <3>2. /\ g \in Seq(0..MaxTime) /\ b \in Seq(0..MaxTime) /\ Remembers(g, b)
            BY Bucket DEF IInv, TypeOK
        <3>3. CASE HasRoom(b)
            <4>1. /\ granted' = [granted EXCEPT ![k] = Append(@, now)]
                  /\ answer' = [answer EXCEPT ![k] = [allowed |-> TRUE, freeAt |-> now]]
                  /\ UNCHANGED now
                BY <2>2, <3>3, Zenon DEF Check
            <4>2. Cardinality(Unpruned!Recent(k)) < MaxRequests
                BY <3>1, <3>3, Zenon DEF HasRoom
            <4>3. Unpruned!Grant(k)
                BY <4>1, <4>2, SameCardinality, Zenon DEF Unpruned!Grant
            <4> QED BY <4>3 DEF Unpruned!WindowNext
        <3>4. CASE ~HasRoom(b)
            <4>1. /\ answer' = [answer EXCEPT ![k] =
                        [allowed |-> FALSE, freeAt |-> b[1] + Window]]
                  /\ UNCHANGED <<now, granted>>
                BY <2>2, <3>4 DEF Check, FreesAt
            <4>2. Cardinality(Unpruned!Recent(k)) >= MaxRequests /\ Len(b) >= MaxRequests
                <5>1. Len(b) \in Nat /\ ~(Len(b) < MaxRequests)
                    BY <3>2, <3>4 DEF HasRoom
                <5>2. Len(b) >= MaxRequests
                    BY <5>1
                <5> QED BY <3>1, <5>2, Zenon
            <4>3. first \in Unpruned!Recent(k) /\ \A j \in Unpruned!Recent(k) : first <= j
                <5> HIDE DEF g, b
                <5>1. Len(g) \in Nat /\ Len(b) \in Nat /\ Len(b) >= 1 /\ Len(b) <= Len(g)
                    BY <3>2, <4>2 DEF Remembers
                <5> QED BY <3>1, <5>1
            <4>4. b[1] = g[first]
                <5>1. 1 \in 1..Len(b)
                    BY <3>2, <4>2
                <5> QED BY <3>2, <5>1, Zenon DEF Remembers
            <4>5. Unpruned!Deny(k)
                <5>1. /\ answer' = [answer EXCEPT ![k] =
                            [allowed |-> FALSE, freeAt |-> g[first] + Window]]
                      /\ now' = now /\ granted' = granted
                    BY <4>1, <4>4
                <5> HIDE DEF first
                <5> QED BY <4>2, <4>3, <5>1, SameCardinality, Zenon DEF Unpruned!Deny
            <4> QED BY <4>5 DEF Unpruned!WindowNext
        <3> QED BY <3>3, <3>4
    <2>3. CASE UNCHANGED vars
        BY <2>3 DEF vars, Unpruned!windowVars
    <2> QED BY <2>1, <2>2, <2>3 DEF Next
<1> QED BY <1>1, <1>2, Invariance, PTL DEF Spec, RefinesSlidingWindow, Unpruned!WindowSpec
=============================================================================
