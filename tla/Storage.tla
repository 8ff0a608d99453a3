------------------------------ MODULE Storage ------------------------------
(***************************************************************************)
(* The storage bootstrap: gateways and `blackbox-ai init` processes that   *)
(* start in any order against one database, each making sure of the        *)
(* encrypted collections and the indexes one call at a time; the lifespan  *)
(* that starts to serve all the same when the database fails it; and the   *)
(* telemetry workers, whose first insert creates what is not there.        *)
(*                                                                         *)
(* A call to the database is one action: it takes effect, or raises a      *)
(* PyMongoError.  A collection is plain or encrypted from its creation on. *)
(***************************************************************************)
EXTENDS Naturals, FiniteSets

CONSTANTS
    Gateways,       \* processes running the lifespan of main.py
    Inits,          \* processes running `blackbox-ai init`
    Encryption,     \* encryption_enabled
    Misconfigured,  \* processes with no usable key or crypt_shared library
    CacheEnabled,   \* cache_enabled
    Searchable,     \* embedder.dims > 0
    MayBePlain,     \* collections an earlier deployment may have left unencrypted
    MaxFailures,    \* bound: starts the database fails
    MaxRestarts     \* bound: restarts

Starters == Gateways \cup Inits

Collections == {"intents", "cache"}

Indexes == {"vault", "intents", "cache_key", "cache_ttl", "vector", "text"}

ASSUME StorageAssumption ==
    /\ Gateways \cap Inits = {}
    /\ Encryption \in BOOLEAN /\ CacheEnabled \in BOOLEAN /\ Searchable \in BOOLEAN
    /\ Misconfigured \subseteq Starters
    /\ MayBePlain \subseteq Collections
    /\ MaxFailures \in Nat /\ MaxRestarts \in Nat

VARIABLES
    pc,             \* what a starter does next
    kind,           \* what each collection is
    indexes,        \* the indexes there are
    cleartext,      \* collections one of these processes wrote a readable document to
    opened,         \* history: gateways that came to serve after a failed start
    outages,        \* history: how many starts the database has failed
    restarts,       \* history: how many processes were started again
    legacy          \* history: the collections that were there unencrypted

vars == <<pc, kind, indexes, cleartext, opened, outages, restarts, legacy>>

Bootstrapping ==
    {"ping", "vault", "look_intents", "create_intents", "look_cache", "create_cache",
     "indexes", "cache_key", "cache_ttl", "vector", "text"}

Done == {"serving", "degraded", "initialized", "init_failed", "aborted"}

TypeOK ==
    /\ pc \in [Starters -> {"down"} \cup Bootstrapping \cup Done]
    /\ kind \in [Collections -> {"absent", "plain", "encrypted"}]
    /\ indexes \subseteq Indexes
    /\ cleartext \subseteq Collections
    /\ opened \subseteq Gateways
    /\ outages \in 0..MaxFailures
    /\ restarts \in 0..MaxRestarts
    /\ legacy \subseteq Collections

----------------------------------------------------------------------------
(* Helpers *)

\* The end of a start: a gateway serves, `init` has printed its success.
Ready(s) == IF s \in Gateways THEN "serving" ELSE "initialized"

AfterIndexes(s) == IF Searchable THEN "vector" ELSE Ready(s)

\* Mutant: the indexes come first.
IndexesFirst(s, step) ==
    CASE step = "ping" -> "indexes"
      [] step = "indexes" -> IF Encryption THEN "vault" ELSE AfterIndexes(s)
      [] step = "vault" -> "look_intents"
      [] step \in {"look_intents", "create_intents"} -> "look_cache"
      [] step \in {"look_cache", "create_cache"} -> IF CacheEnabled THEN "cache_key" ELSE AfterIndexes(s)
      [] step = "cache_key" -> "cache_ttl"
      [] step = "cache_ttl" -> AfterIndexes(s)
      [] step = "vector" -> "text"
      [] step = "text" -> Ready(s)

\* Mutant: the time-to-live index is left out.
NoTtl(s, step) ==
    CASE step = "ping" -> IF Encryption THEN "vault" ELSE "indexes"
      [] step = "vault" -> "look_intents"
      [] step \in {"look_intents", "create_intents"} -> "look_cache"
      [] step \in {"look_cache", "create_cache"} -> "indexes"
      [] step = "indexes" -> IF CacheEnabled THEN "cache_key" ELSE AfterIndexes(s)
      [] step \in {"cache_key", "cache_ttl"} -> AfterIndexes(s)
      [] step = "vector" -> "text"
      [] step = "text" -> Ready(s)

\* What comes after a step that succeeded, a create included: the order of
\* ensure_storage.  A look that finds nothing goes to the create instead.
After(s, step) ==
    CASE step = "ping" -> IF Encryption THEN "vault" ELSE "indexes"
      [] step = "vault" -> "look_intents"
      [] step \in {"look_intents", "create_intents"} -> "look_cache"
      [] step \in {"look_cache", "create_cache"} -> "indexes"
      [] step = "indexes" -> IF CacheEnabled THEN "cache_key" ELSE AfterIndexes(s)
      [] step = "cache_key" -> "cache_ttl"
      [] step = "cache_ttl" -> AfterIndexes(s)
      [] step = "vector" -> "text"
      [] step = "text" -> Ready(s)

Goto(s, step) == pc' = [pc EXCEPT ![s] = step]

\* A PyMongoError ends a start: the lifespan logs it, skips the rest and serves;
\* `init` ends with it.
StartFails(s) ==
    \/ s \in Gateways /\ Goto(s, "degraded") /\ opened' = opened \cup {s}
    \/ s \in Inits /\ Goto(s, "init_failed") /\ UNCHANGED opened

\* The server creates a collection that is not there on the first write and on
\* the first index, without encryptedFields.
Implicitly(c) == kind' = [kind EXCEPT ![c] = IF @ = "absent" THEN "plain" ELSE @]

----------------------------------------------------------------------------
(* A start *)

\* The master key decodes to its length and crypt_shared is where it should be.
Usable(s) == s \notin Misconfigured

\* build_encryption_manager: a ValueError ends the process.
Boot(s) ==
    /\ pc[s] = "down"
    /\ \/ Encryption /\ ~Usable(s) /\ Goto(s, "aborted")
       \/ (Encryption => Usable(s)) /\ Goto(s, "ping")
    /\ UNCHANGED <<kind, indexes, cleartext, opened, outages, restarts, legacy>>

Ping(s) ==
    /\ pc[s] = "ping"
    /\ Goto(s, After(s, "ping"))
    /\ UNCHANGED <<kind, indexes, cleartext, opened, outages, restarts, legacy>>

\* _ensure_key_vault_index.
EnsureKeyVaultIndex(s) ==
    /\ pc[s] = "vault"
    /\ indexes' = indexes \cup {"vault"}
    /\ Goto(s, After(s, "vault"))
    /\ UNCHANGED <<kind, cleartext, opened, outages, restarts, legacy>>

LookFor(c) == IF c = "intents" THEN "look_intents" ELSE "look_cache"

CreateOf(c) == IF c = "intents" THEN "create_intents" ELSE "create_cache"

\* list_collection_names: what is there is left as it is.
Look(s, c) ==
    /\ pc[s] = LookFor(c)
    /\ Goto(s, IF kind[c] = "absent" THEN CreateOf(c) ELSE After(s, LookFor(c)))
    /\ UNCHANGED <<kind, indexes, cleartext, opened, outages, restarts, legacy>>

\* create_encrypted_collection: somebody else may have made the collection since
\* the look, encrypted or not.  When the driver tells so by NAMESPACE_EXISTS this
\* counts as success; when it does by any other error, the start fails.
Create(s, c) ==
    /\ pc[s] = CreateOf(c)
    /\ \/ /\ kind' = [kind EXCEPT ![c] = IF @ = "absent" THEN "encrypted" ELSE @]
          /\ Goto(s, After(s, CreateOf(c)))
          /\ UNCHANGED opened
       \/ /\ kind[c] # "absent"
          /\ StartFails(s)
          /\ UNCHANGED kind
    /\ UNCHANGED <<indexes, cleartext, outages, restarts, legacy>>

\* ensure_indexes of the intents: one command for all of them.
EnsureIndexes(s) ==
    /\ pc[s] = "indexes"
    /\ Implicitly("intents")
    /\ indexes' = indexes \cup {"intents"}
    /\ Goto(s, After(s, "indexes"))
    /\ UNCHANGED <<cleartext, opened, outages, restarts, legacy>>

\* CacheStore.ensure_indexes: two commands.
EnsureCacheIndex(s) ==
    /\ pc[s] \in {"cache_key", "cache_ttl"}
    /\ Implicitly("cache")
    /\ indexes' = indexes \cup {pc[s]}
    /\ Goto(s, After(s, pc[s]))
    /\ UNCHANGED <<cleartext, opened, outages, restarts, legacy>>

\* ensure_vector_index and ensure_search_index: every error is swallowed, and
\* the wait for the index ends with its timeout.
EnsureSearchIndex(s) ==
    /\ pc[s] \in {"vector", "text"}
    /\ \/ indexes' = indexes \cup {pc[s]}
       \/ UNCHANGED indexes
    /\ Goto(s, After(s, pc[s]))
    /\ UNCHANGED <<kind, cleartext, opened, outages, restarts, legacy>>

\* Mutant: `init` goes on after a failure, as the lifespan does.
AllFailOpen(s) ==
    /\ pc[s] \in Bootstrapping \ {"vector", "text"}
    /\ outages < MaxFailures
    /\ outages' = outages + 1
    /\ Goto(s, "degraded")
    /\ opened' = opened \cup {s}
    /\ UNCHANGED <<kind, indexes, cleartext, restarts, legacy>>

\* Any call but those raises a PyMongoError.
DatabaseFails(s) ==
    /\ pc[s] \in Bootstrapping \ {"vector", "text"}
    /\ outages < MaxFailures
    /\ outages' = outages + 1
    /\ StartFails(s)
    /\ UNCHANGED <<kind, indexes, cleartext, restarts, legacy>>

----------------------------------------------------------------------------
(* Serving *)

\* A worker writes to a collection through the data client, which encrypts what
\* the collection on the server says is encrypted.
Insert(g, c) ==
    /\ g \in Gateways
    /\ pc[g] \in {"serving", "degraded"}
    /\ c = "cache" => CacheEnabled
    /\ Implicitly(c)
    /\ cleartext' = IF kind[c] = "encrypted" THEN cleartext ELSE cleartext \cup {c}
    /\ UNCHANGED <<pc, indexes, opened, outages, restarts, legacy>>

\* A process stops or crashes, while serving or in the middle of a start, and is
\* started again.
Restart(s) ==
    /\ pc[s] # "down"
    /\ restarts < MaxRestarts
    /\ restarts' = restarts + 1
    /\ Goto(s, "down")
    /\ UNCHANGED <<kind, indexes, cleartext, opened, outages, legacy>>

----------------------------------------------------------------------------
Init ==
    /\ pc = [s \in Starters |-> "down"]
    /\ legacy \in SUBSET MayBePlain
    /\ kind = [c \in Collections |-> IF c \in legacy THEN "plain" ELSE "absent"]
    /\ indexes = {}
    /\ cleartext = {}
    /\ opened = {}
    /\ outages = 0
    /\ restarts = 0

Start(s) ==
    \/ Boot(s) \/ Ping(s) \/ EnsureKeyVaultIndex(s)
    \/ \E c \in Collections : Look(s, c) \/ Create(s, c)
    \/ EnsureIndexes(s) \/ EnsureCacheIndex(s) \/ EnsureSearchIndex(s)

Next ==
    \/ \E s \in Starters : Start(s) \/ DatabaseFails(s) \/ Restart(s)
    \/ \E g \in Gateways, c \in Collections : Insert(g, c)

Spec == Init /\ [][Next]_vars

----------------------------------------------------------------------------
(* Properties *)

\* encryption.py:17-19 "We never silently fall back to writing plaintext", as far
\* as it is true: with encryption on, a process writes a readable document, and a
\* collection is made unencrypted, only where a gateway serves after a failed
\* start (main.py:94-97) or in a collection that was found unencrypted and left
\* as it is (encryption.py:195-198).  Races of starters for a collection, crashes
\* half-way and the workers of other gateways are no third cause.
PlaintextHasACause ==
    Encryption /\ opened = {} =>
        /\ cleartext \subseteq legacy
        /\ \A c \in Collections : kind[c] = "plain" => c \in legacy

\* main.py:81-97, cli.py:136-150: a start that went through found or made complete
\* storage, whatever the starters beside it and the starts before it left half
\* done: the collections are there with their indexes, the one that expires the
\* cache too.
CompletedHasStorage ==
    \A s \in Starters :
        pc[s] \in {"serving", "initialized"} =>
            /\ kind["intents"] # "absent"
            /\ "intents" \in indexes
            /\ CacheEnabled => kind["cache"] # "absent" /\ {"cache_key", "cache_ttl"} \subseteq indexes
            /\ Encryption => kind["cache"] # "absent" /\ "vault" \in indexes

\* encryption.py:17-19 "Fail-closed [...] We never silently fall back to writing
\* plaintext": with encryption on, nothing readable is written.
NeverPlaintext == Encryption => cleartext = {}
=============================================================================
