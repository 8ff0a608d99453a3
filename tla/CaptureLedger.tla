--------------------------- MODULE CaptureLedger ---------------------------
(***************************************************************************)
(* What the telemetry plane promises about each capture, with no queue, no *)
(* workers and no batches: a capture handed to submit() is dropped at once *)
(* or accepted; an accepted capture is settled at most once, as written or *)
(* as failed, or abandoned with the worker that held it; what was settled  *)
(* stays settled.  TelemetryPipeline implements this specification.        *)
(***************************************************************************)

CONSTANTS Captures          \* the captures the relay hands over

VARIABLES
    fate,                   \* what became of each capture
    documents,              \* captures with a document in the collection
    entries                 \* captures whose response is in the cache

ledgerVars == <<fate, documents, entries>>

Fates == {"new", "dropped", "pending", "written", "failed", "abandoned"}

LedgerTypeOK ==
    /\ fate \in [Captures -> Fates]
    /\ documents \subseteq Captures
    /\ entries \subseteq Captures

Become(S, f) == fate' = [c \in Captures |-> IF c \in S THEN f ELSE fate[c]]

AllAre(S, f) == \A c \in S : fate[c] = f

----------------------------------------------------------------------------
LedgerInit ==
    /\ fate = [c \in Captures |-> "new"]
    /\ documents = {}
    /\ entries = {}

\* submit() returned True.
Accept(c) ==
    /\ fate[c] = "new"
    /\ Become({c}, "pending")
    /\ UNCHANGED <<documents, entries>>

\* submit() returned False.
Drop(c) ==
    /\ fate[c] = "new"
    /\ Become({c}, "dropped")
    /\ UNCHANGED <<documents, entries>>

\* A batch reached the collection, every document of it.
SettleWritten(S) ==
    /\ AllAre(S, "pending")
    /\ S \cap documents = {}
    /\ Become(S, "written")
    /\ documents' = documents \cup S
    /\ UNCHANGED entries

\* The write of a batch failed: some of its documents may be there anyway.
SettleFailed(S, T) ==
    /\ AllAre(S, "pending")
    /\ T \subseteq S
    /\ Become(S, "failed")
    /\ documents' = documents \cup T
    /\ UNCHANGED entries

\* Workers were cancelled or died, and what they held went with them.
Abandon(S, T) ==
    /\ AllAre(S, "pending")
    /\ T \subseteq S
    /\ Become(S, "abandoned")
    /\ documents' = documents \cup T
    /\ UNCHANGED entries

\* The response of a capture that was written enters the cache.
CacheEntry(c) ==
    /\ fate[c] = "written"
    /\ c \in documents
    /\ entries' = entries \cup {c}
    /\ UNCHANGED <<fate, documents>>

LedgerNext ==
    \/ \E c \in Captures : Accept(c) \/ Drop(c) \/ CacheEntry(c)
    \/ \E S \in SUBSET Captures :
         \/ SettleWritten(S)
         \/ \E T \in SUBSET S : SettleFailed(S, T) \/ Abandon(S, T)

LedgerSpec == LedgerInit /\ [][LedgerNext]_ledgerVars
=============================================================================
