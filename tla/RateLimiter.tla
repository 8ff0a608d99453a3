---------------------------- MODULE RateLimiter ----------------------------
(***************************************************************************)
(* SlidingWindowRateLimiter: per client a deque of the times of its recent *)
(* hits, pruned when the client comes back, and a garbage collection of    *)
(* idle clients at most once per window.  Time is a discrete clock.        *)
(***************************************************************************)
EXTENDS Integers, Sequences, FiniteSets

CONSTANTS
    Keys,           \* the clients
    MaxRequests,    \* max_requests
    Window,         \* window_s
    MaxTime         \* bound: where the clock of the model stops

ASSUME RateLimiterAssumption ==
    /\ MaxRequests \in Nat \ {0}
    /\ Window \in Nat \ {0}
    /\ MaxTime \in Nat

VARIABLES
    now,            \* what _clock() returns
    hits,           \* _hits; a key without an entry has the empty deque
    lastGc,         \* _last_gc
    granted,        \* history: the times of all hits granted to a key
    answer          \* the last decision for a key: retry_after_s, added to the
                    \* time of the decision, is freeAt

vars == <<now, hits, lastGc, granted, answer>>

TypeOK ==
    /\ now \in 0..MaxTime
    /\ hits \in [Keys -> Seq(0..MaxTime)]
    /\ \A k \in Keys : Len(hits[k]) <= MaxRequests
    /\ lastGc \in 0..MaxTime
    /\ granted \in [Keys -> Seq(0..MaxTime)]
    /\ answer \in [Keys -> [allowed : BOOLEAN, freeAt : Nat]]

----------------------------------------------------------------------------
(* Helpers *)

\* `<= cutoff`: a hit is out of the window once it is a whole window old.
AgedOut(t) == t <= now - Window

\* popleft while the head is at or before the cutoff.
Prune(bucket) ==
    LET n == CHOOSE n \in 0..Len(bucket) :
               /\ \A i \in 1..n : AgedOut(bucket[i])
               /\ n < Len(bucket) => ~AgedOut(bucket[n + 1])
    IN  SubSeq(bucket, n + 1, Len(bucket))

GcDue == now - lastGc >= Window

\* Mutant: a client is forgotten by the age of its oldest hit.
StaleByOldest(k) == hits[k] = <<>> \/ AgedOut(hits[k][1])

\* No hit of the key is inside the current window.
Stale(k) == hits[k] = <<>> \/ AgedOut(hits[k][Len(hits[k])])

\* Mutant: the garbage collection removes nothing.
SweptNothing == hits

\* _hits after _maybe_gc.
Swept == [k \in Keys |-> IF GcDue /\ Stale(k) THEN <<>> ELSE hits[k]]

\* Mutant: one hit too many fits.
HasRoomForOneMore(bucket) == Len(bucket) <= MaxRequests

HasRoom(bucket) == Len(bucket) < MaxRequests

\* Mutant: a client is told to wait until its newest hit ages out.
FreesWithNewest(bucket) == bucket[Len(bucket)] + Window

\* The time at which the oldest hit of a full bucket ages out.
FreesAt(bucket) == bucket[1] + Window

----------------------------------------------------------------------------
Init ==
    /\ now = 0
    /\ hits = [k \in Keys |-> <<>>]
    /\ lastGc = 0
    /\ granted = [k \in Keys |-> <<>>]
    /\ answer = [k \in Keys |-> [allowed |-> TRUE, freeAt |-> 0]]

Tick ==
    /\ now < MaxTime
    /\ now' = now + 1
    /\ UNCHANGED <<hits, lastGc, granted, answer>>

\* check(k): collect, prune, decide; a denied hit is not recorded.
Check(k) ==
    LET bucket == Prune(Swept[k]) IN
    /\ lastGc' = IF GcDue THEN now ELSE lastGc
    /\ \/ /\ HasRoom(bucket)
          /\ hits' = [Swept EXCEPT ![k] = Append(bucket, now)]
          /\ granted' = [granted EXCEPT ![k] = Append(@, now)]
          /\ answer' = [answer EXCEPT ![k] = [allowed |-> TRUE, freeAt |-> now]]
       \/ /\ ~HasRoom(bucket)
          /\ hits' = [Swept EXCEPT ![k] = bucket]
          /\ answer' = [answer EXCEPT ![k] =
                [allowed |-> FALSE, freeAt |-> FreesAt(bucket)]]
          /\ UNCHANGED granted
    /\ UNCHANGED now

Next == Tick \/ \E k \in Keys : Check(k)

Spec == Init /\ [][Next]_vars

----------------------------------------------------------------------------
(* Properties *)

\* rate_limit.py:45 "Allow at most max_requests per window_s for each key": any
\* MaxRequests + 1 consecutive grants span at least a window, across prunes,
\* collections and the boundary instant.
WindowBound ==
    \A k \in Keys : \A i \in 1..(Len(granted[k]) - MaxRequests) :
        granted[k][i + MaxRequests] - granted[k][i] >= Window

\* rate_limit.py:7-8 "idle keys are garbage collected": after any check no key is
\* remembered whose last hit is two windows old.
IdleKeysForgotten ==
    [][now' = now =>
         \A k \in Keys : hits'[k] # <<>> => hits'[k][Len(hits'[k])] > now - 2 * Window]_vars

\* rate_limit.py:77-80: the wait a denied client is told is exact: until it asks
\* again, a check finds room from that time on and not before, whatever the
\* other clients and the garbage collection did meanwhile.
RetryAfterExact ==
    \A k \in Keys : ~answer[k].allowed =>
        (HasRoom(Prune(Swept[k])) <=> now >= answer[k].freeAt)

\* Forgetting hits never changes a decision: the limiter implements the one that
\* remembers every grant.
Unpruned == INSTANCE SlidingWindow
RefinesSlidingWindow == Unpruned!WindowSpec
=============================================================================
