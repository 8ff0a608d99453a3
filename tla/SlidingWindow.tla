--------------------------- MODULE SlidingWindow ---------------------------
(***************************************************************************)
(* What a rate limiter promises: a client's hit is granted exactly when    *)
(* fewer than MaxRequests hits were granted to it in the Window before,    *)
(* with every grant remembered for ever.  RateLimiter implements this      *)
(* with pruned, garbage collected buckets.                                 *)
(***************************************************************************)
EXTENDS Integers, Sequences, FiniteSets

CONSTANTS Keys, MaxRequests, Window, MaxTime

VARIABLES
    now,            \* the clock
    granted,        \* the times of all hits granted to a key
    answer          \* the last decision for a key

windowVars == <<now, granted, answer>>

Recent(k) == {i \in 1..Len(granted[k]) : granted[k][i] > now - Window}

NoAnswer == [allowed |-> TRUE, freeAt |-> 0]

WindowInit ==
    /\ now = 0
    /\ granted = [k \in Keys |-> <<>>]
    /\ answer = [k \in Keys |-> NoAnswer]

Pass ==
    /\ now < MaxTime
    /\ now' = now + 1
    /\ UNCHANGED <<granted, answer>>

Grant(k) ==
    /\ Cardinality(Recent(k)) < MaxRequests
    /\ granted' = [granted EXCEPT ![k] = Append(@, now)]
    /\ answer' = [answer EXCEPT ![k] = [allowed |-> TRUE, freeAt |-> now]]
    /\ UNCHANGED now

\* A denied client is told when the oldest of the recent hits ages out.
Deny(k) ==
    /\ Cardinality(Recent(k)) >= MaxRequests
    /\ \E i \in Recent(k) :
         /\ \A j \in Recent(k) : i <= j
         /\ answer' = [answer EXCEPT ![k] =
                [allowed |-> FALSE, freeAt |-> granted[k][i] + Window]]
    /\ UNCHANGED <<now, granted>>

WindowNext == Pass \/ \E k \in Keys : Grant(k) \/ Deny(k)

WindowSpec == WindowInit /\ [][WindowNext]_windowVars
=============================================================================
