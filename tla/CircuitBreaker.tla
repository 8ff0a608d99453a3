--------------------------- MODULE CircuitBreaker ---------------------------
(***************************************************************************)
(* The circuit breaker of VoyageEmbedder and the calls it guards.  Several *)
(* callers share one breaker: the telemetry workers' EmbedStage and the    *)
(* query embeddings of searches.  allow() and record_*() do not suspend,   *)
(* the call between them does, so that calls overlap and their outcomes    *)
(* are recorded in any order and at any age.                               *)
(*                                                                         *)
(* _opened_at is kept as the time since it was set, up to Cooldown, and    *)
(* _failures up to Threshold: the code only compares them with these.      *)
(***************************************************************************)
EXTENDS Integers, FiniteSets

CONSTANTS
    Callers,        \* coroutines that embed
    Threshold,      \* max(1, threshold)
    Cooldown        \* cooldown_s, in ticks

ASSUME BreakerAssumption ==
    /\ Threshold \in Nat \ {0}
    /\ Cooldown \in Nat \ {0}

VARIABLES
    failures,       \* _failures
    opened,         \* _opened_at is set
    age,            \* the time since it was set
    calling,        \* how each caller was let through: "no" when it is not in a call
    up,             \* the backend answers (environment)
    trialled,       \* history: callers whose last trial ended with an outcome, or is under
                    \* way, since the breaker was last closed
    ago             \* history: the time since each caller was last let through

vars == <<failures, opened, age, calling, up, trialled, ago>>

TypeOK ==
    /\ failures \in 0..Threshold
    /\ opened \in BOOLEAN
    /\ age \in 0..Cooldown
    /\ calling \in [Callers -> {"no", "closed", "trial"}]
    /\ up \in BOOLEAN
    /\ trialled \subseteq Callers
    /\ ago \in [Callers -> 0..Cooldown]
    /\ opened <=> failures = Threshold

----------------------------------------------------------------------------
(* Helpers *)

UpTo(n, bound) == IF n <= bound THEN n ELSE bound

\* Mutant: the breaker never half-opens.
NeverHalfOpens == ~opened

\* allow()
Allow == ~opened \/ age >= Cooldown

\* Mutant: the cooldown runs from the failure that first opened the breaker.
OpensOnce ==
    /\ failures' = UpTo(failures + 1, Threshold)
    /\ opened' = (failures' >= Threshold)
    /\ age' = IF failures + 1 = Threshold THEN 0 ELSE age

\* Mutant: the breaker opens one failure late.
OpensLate ==
    /\ failures' = UpTo(failures + 1, Threshold)
    /\ opened' = (failures >= Threshold)
    /\ age' = 0

\* record_failure()
RecordFailure ==
    /\ failures' = UpTo(failures + 1, Threshold)
    /\ opened' = (failures' >= Threshold)
    /\ age' = 0

\* record_success()
RecordSuccess ==
    /\ failures' = 0
    /\ opened' = FALSE
    /\ age' = 0

----------------------------------------------------------------------------
Init ==
    /\ failures = 0
    /\ opened = FALSE
    /\ age = 0
    /\ calling = [c \in Callers |-> "no"]
    /\ up \in BOOLEAN
    /\ trialled = {}
    /\ ago = [c \in Callers |-> Cooldown]

Tick ==
    /\ age' = IF opened THEN UpTo(age + 1, Cooldown) ELSE 0
    /\ ago' = [c \in Callers |-> UpTo(ago[c] + 1, Cooldown)]
    /\ UNCHANGED <<failures, opened, calling, up, trialled>>

\* The backend goes down or comes back.
Turn ==
    /\ up' = ~up
    /\ UNCHANGED <<failures, opened, age, calling, trialled, ago>>

\* _embed_batch is let through and awaits the backend.  When it is not, it
\* returns None at once and changes nothing.
Call(c) ==
    /\ calling[c] = "no"
    /\ Allow
    /\ calling' = [calling EXCEPT ![c] = IF opened THEN "trial" ELSE "closed"]
    /\ trialled' = IF opened THEN trialled \cup {c} ELSE trialled
    /\ ago' = [ago EXCEPT ![c] = 0]
    /\ UNCHANGED <<failures, opened, age, up>>

Succeed(c) ==
    /\ calling[c] # "no"
    /\ up
    /\ RecordSuccess
    /\ calling' = [calling EXCEPT ![c] = "no"]
    /\ trialled' = {}
    /\ UNCHANGED <<up, ago>>

\* A VoyageError, after the client's own retries.
Fail(c) ==
    /\ calling[c] # "no"
    /\ ~up
    /\ RecordFailure
    /\ calling' = [calling EXCEPT ![c] = "no"]
    /\ UNCHANGED <<up, trialled, ago>>

\* The caller is cancelled, or what is raised is no VoyageError: the breaker
\* records neither outcome, and a trial that ends so was none.
Abort(c) ==
    /\ calling[c] # "no"
    /\ calling' = [calling EXCEPT ![c] = "no"]
    /\ trialled' = trialled \ {c}
    /\ UNCHANGED <<failures, opened, age, up, ago>>

Next ==
    \/ Tick \/ Turn
    \/ \E c \in Callers : Call(c) \/ Succeed(c) \/ Fail(c) \/ Abort(c)

Spec == Init /\ [][Next]_vars

----------------------------------------------------------------------------
(* Properties *)

Starts(c) == calling[c] = "no" /\ calling'[c] # "no"

\* embeddings.py:38-41: during an outage no caller is let through twice within a
\* cooldown, however the other callers' late failures are interleaved. A trial
\* that ended without an outcome (Abort) does not count: the next one may follow.
OneTrialPerCooldown ==
    [][\A c \in Callers : Starts(c) /\ c \in trialled => ago[c] >= Cooldown]_vars

\* embeddings.py:38-41: "After threshold consecutive failures the breaker opens":
\* in an outage a caller can be hit only through calls that were under way, so
\* no call begins in the cooldown after the failure that reached the threshold.
QuietAfterFailure ==
    [][\A c \in Callers : Starts(c) /\ failures >= Threshold => age >= Cooldown]_vars
=============================================================================
