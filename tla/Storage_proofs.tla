--------------------------- MODULE Storage_proofs ---------------------------
(***************************************************************************)
(* What a storage bootstrap promises, for any processes, settings and      *)
(* numbers of failed starts and restarts.                                  *)
(*                                                                         *)
(* The strengthening is Has: what the database holds for certain when a    *)
(* starter stands before a step, whoever made it.  Collections and indexes *)
(* are only ever added, so that the steps of one starter take nothing away *)
(* from what the others rely on.                                           *)
(***************************************************************************)
EXTENDS Storage, TLAPS

Final == {"vector", "text", "serving", "initialized"}

\* In collections k and indexes ix there is what the steps before l make.
Has(l, k, ix) ==
    /\ Encryption /\ l \in {"look_intents", "create_intents", "look_cache", "create_cache",
                            "indexes", "cache_key", "cache_ttl"} \cup Final => "vault" \in ix
    /\ Encryption /\ l \in {"look_cache", "create_cache", "indexes", "cache_key",
                            "cache_ttl"} \cup Final => k["intents"] # "absent"
    /\ Encryption /\ l \in {"indexes", "cache_key", "cache_ttl"} \cup Final =>
           k["cache"] # "absent"
    /\ l \in {"cache_key", "cache_ttl"} \cup Final =>
           "intents" \in ix /\ k["intents"] # "absent"
    /\ CacheEnabled /\ l \in {"cache_ttl"} \cup Final =>
           "cache_key" \in ix /\ k["cache"] # "absent"
    /\ CacheEnabled /\ l \in Final => "cache_ttl" \in ix

Relied == \A s \in Starters : Has(pc[s], kind, indexes)

DegradedOpened == \A g \in Gateways : pc[g] = "degraded" => g \in opened

IInv == TypeOK /\ Relied /\ DegradedOpened /\ PlaintextHasACause

USE StorageAssumption DEF Starters

----------------------------------------------------------------------------
(* Lemmas *)

\* What is there stays enough when more is added.
LEMMA HasGrows ==
    ASSUME NEW l, NEW k, NEW ix, NEW k2, NEW ix2,
           Has(l, k, ix), ix \subseteq ix2,
           \A c \in Collections : k[c] # "absent" => k2[c] # "absent"
    PROVE  Has(l, k2, ix2)
BY DEF Has, Collections

\* What a step makes of its own.
Makes(step, k, ix) ==
    /\ step = "vault" => "vault" \in ix
    /\ step \in {"look_intents", "create_intents", "indexes"} => k["intents"] # "absent"
    /\ step \in {"look_cache", "create_cache", "cache_key", "cache_ttl"} =>
           k["cache"] # "absent"
    /\ step = "indexes" => "intents" \in ix
    /\ step \in {"cache_key", "cache_ttl"} => step \in ix

\* A step that made what it has to leads to one that can rely on it.
LEMMA AfterHas ==
    ASSUME NEW s \in Starters, NEW step \in Bootstrapping, NEW k, NEW ix,
           Has(step, k, ix), Makes(step, k, ix)
    PROVE  After(s, step) \in Bootstrapping \cup Done /\ Has(After(s, step), k, ix)
<1> USE DEF Bootstrapping, Done, After, AfterIndexes, Ready, Has, Makes, Final
<1>1. CASE step \in {"ping", "vault", "look_intents", "create_intents"}
    BY <1>1
<1>2. CASE step \in {"look_cache", "create_cache"}
    BY <1>2
<1>3. CASE step = "indexes"
    BY <1>3
<1>4. CASE step \in {"cache_key", "cache_ttl"}
    BY <1>4
<1>5. CASE step \in {"vector", "text"}
    BY <1>5
<1> QED BY <1>1, <1>2, <1>3, <1>4, <1>5

\* A starter moves to a step it can rely on, and nothing is taken away.
LEMMA Moves ==
    ASSUME IInv, NEW s \in Starters, NEW l \in {"down"} \cup Bootstrapping \cup Done,
           pc' = [pc EXCEPT ![s] = l], Has(l, kind', indexes'),
           indexes \subseteq indexes',
           \A c \in Collections : kind[c] # "absent" => kind'[c] # "absent",
           opened \subseteq opened', l = "degraded" => s \in opened'
    PROVE  pc' \in [Starters -> {"down"} \cup Bootstrapping \cup Done]
           /\ Relied' /\ DegradedOpened'
<1>1. pc' \in [Starters -> {"down"} \cup Bootstrapping \cup Done]
    BY DEF IInv, TypeOK
<1>2. ASSUME NEW q \in Starters PROVE Has(pc'[q], kind', indexes')
    <2>1. CASE q = s
        BY <2>1 DEF IInv, TypeOK
    <2>2. CASE q # s
        <3>1. pc'[q] = pc[q] /\ Has(pc[q], kind, indexes)
            BY <2>2 DEF IInv, TypeOK, Relied
        <3>2. Has(pc[q], kind', indexes')
            BY <3>1, HasGrows
        <3> QED BY <3>1, <3>2
    <2> QED BY <2>1, <2>2
<1>3. Relied'
    BY <1>2 DEF Relied
<1>4. DegradedOpened'
    BY DEF DegradedOpened, IInv, TypeOK
<1> QED BY <1>1, <1>3, <1>4

\* What the server creates on its own adds a collection at most.
LEMMA ImplicitlyGrows ==
    ASSUME TypeOK, NEW c \in Collections, Implicitly(c)
    PROVE  /\ kind' \in [Collections -> {"absent", "plain", "encrypted"}]
           /\ \A d \in Collections : kind[d] # "absent" => kind'[d] = kind[d]
           /\ kind'[c] # "absent"
           /\ \A d \in Collections \ {c} : kind'[d] = kind[d]
BY DEF Implicitly, TypeOK

----------------------------------------------------------------------------
(* The steps *)

\* A start that fails: a gateway serves all the same.
LEMMA FailStep ==
    ASSUME IInv, NEW s \in Starters, StartFails(s), outages' \in 0..MaxFailures,
           UNCHANGED <<kind, indexes, cleartext, restarts, legacy>>
    PROVE  IInv'
<1>1. PICK l \in {"degraded", "init_failed"} :
        /\ pc' = [pc EXCEPT ![s] = l]
        /\ l = "degraded" => s \in Gateways /\ opened' = opened \cup {s}
        /\ l = "init_failed" => opened' = opened
    BY DEF StartFails, Goto
<1>2. /\ Has(l, kind', indexes') /\ l \in {"down"} \cup Bootstrapping \cup Done
      /\ opened' \subseteq Gateways /\ opened \subseteq opened'
      /\ l = "degraded" => s \in opened'
    BY <1>1 DEF Has, Final, Bootstrapping, Done, IInv, TypeOK
<1> QED BY <1>1, <1>2, Moves DEF IInv, TypeOK, PlaintextHasACause

\* A start, one call to the database at a time.
LEMMA StartStep ==
    ASSUME IInv, NEW s \in Starters, Start(s) PROVE IInv'
<1>0. TypeOK /\ Has(pc[s], kind, indexes)
    BY DEF IInv, Relied
<1>1. ASSUME Boot(s) PROVE IInv'
    <2>1. PICK l \in {"aborted", "ping"} : pc' = [pc EXCEPT ![s] = l]
        BY <1>1 DEF Boot, Goto
    <2>2. Has(l, kind', indexes') /\ l \in {"down"} \cup Bootstrapping \cup Done
        BY DEF Has, Final, Bootstrapping, Done
    <2> QED BY <1>1, <2>1, <2>2, Moves DEF Boot, IInv, TypeOK, PlaintextHasACause
<1>2. ASSUME Ping(s) \/ EnsureSearchIndex(s) PROVE IInv'
    <2>1. /\ pc[s] \in {"ping", "vector", "text"} /\ pc[s] \in Bootstrapping
          /\ pc' = [pc EXCEPT ![s] = After(s, pc[s])]
          /\ indexes' \in SUBSET Indexes /\ indexes \subseteq indexes'
          /\ UNCHANGED <<kind, cleartext, opened, outages, restarts, legacy>>
        BY <1>0, <1>2 DEF Ping, EnsureSearchIndex, Goto, Indexes, TypeOK, Bootstrapping
    <2>2. Has(pc[s], kind', indexes') /\ Makes(pc[s], kind', indexes')
        BY <1>0, <2>1, HasGrows DEF Makes
    <2>3. After(s, pc[s]) \in Bootstrapping \cup Done /\ Has(After(s, pc[s]), kind', indexes')
        BY <2>1, <2>2, AfterHas
    <2>4. After(s, pc[s]) # "degraded"
        BY <2>1 DEF After, AfterIndexes, Ready
    <2> QED BY <2>1, <2>3, <2>4, Moves DEF IInv, TypeOK, PlaintextHasACause
<1>3. ASSUME EnsureKeyVaultIndex(s) PROVE IInv'
    <2>1. /\ pc[s] = "vault" /\ "vault" \in Bootstrapping
          /\ pc' = [pc EXCEPT ![s] = After(s, "vault")]
          /\ indexes' \in SUBSET Indexes /\ indexes \subseteq indexes' /\ "vault" \in indexes'
          /\ UNCHANGED <<kind, cleartext, opened, outages, restarts, legacy>>
        BY <1>0, <1>3 DEF EnsureKeyVaultIndex, Goto, Indexes, TypeOK, Bootstrapping
    <2>2. Has("vault", kind', indexes') /\ Makes("vault", kind', indexes')
        BY <1>0, <2>1, HasGrows DEF Makes
    <2>3. After(s, "vault") \in Bootstrapping \cup Done /\ Has(After(s, "vault"), kind', indexes')
        BY <2>1, <2>2, AfterHas
    <2>4. After(s, "vault") # "degraded"
        BY DEF After
    <2> QED BY <2>1, <2>3, <2>4, Moves DEF IInv, TypeOK, PlaintextHasACause
<1>4. ASSUME NEW c \in Collections, Look(s, c) PROVE IInv'
    <2>1. /\ pc[s] = LookFor(c) /\ LookFor(c) \in Bootstrapping
          /\ CreateOf(c) \in Bootstrapping /\ c \in {"intents", "cache"}
        BY <1>4 DEF Look, LookFor, CreateOf, Bootstrapping, Collections
    <2>2. Has(CreateOf(c), kind, indexes) /\ CreateOf(c) # "degraded"
        BY <1>0, <2>1 DEF Has, LookFor, CreateOf, Final
    <2>3. CASE kind[c] = "absent"
        <3>1. pc' = [pc EXCEPT ![s] = CreateOf(c)]
            BY <1>4, <2>3 DEF Look, Goto
        <3> QED BY <1>4, <2>1, <2>2, <3>1, Moves DEF Look, IInv, TypeOK, PlaintextHasACause
    <2>4. CASE kind[c] # "absent"
        <3>1. pc' = [pc EXCEPT ![s] = After(s, LookFor(c))]
            BY <1>4, <2>4 DEF Look, Goto
        <3>2. Makes(LookFor(c), kind, indexes)
            BY <2>1, <2>4 DEF Makes, LookFor
        <3>3. /\ After(s, LookFor(c)) \in Bootstrapping \cup Done
              /\ Has(After(s, LookFor(c)), kind, indexes)
            BY <1>0, <2>1, <3>2, AfterHas
        <3>4. After(s, LookFor(c)) # "degraded"
            BY <2>1 DEF After, LookFor
        <3> QED BY <1>4, <3>1, <3>3, <3>4, Moves DEF Look, IInv, TypeOK, PlaintextHasACause
    <2> QED BY <2>3, <2>4
<1>5. ASSUME NEW c \in Collections, Create(s, c) PROVE IInv'
    <2>1. /\ pc[s] = CreateOf(c) /\ CreateOf(c) \in Bootstrapping
          /\ c \in {"intents", "cache"}
          /\ UNCHANGED <<indexes, cleartext, outages, restarts, legacy>>
        BY <1>5 DEF Create, CreateOf, Bootstrapping, Collections
    <2>2. CASE kind[c] # "absent" /\ StartFails(s) /\ UNCHANGED kind
        <3>1. outages' \in 0..MaxFailures
            BY <1>0, <2>1 DEF TypeOK
        <3> QED BY <2>1, <2>2, <3>1, FailStep
    <2>3. CASE /\ kind' = [kind EXCEPT ![c] = IF @ = "absent" THEN "encrypted" ELSE @]
               /\ pc' = [pc EXCEPT ![s] = After(s, CreateOf(c))]
               /\ UNCHANGED opened
        <3>2. /\ kind' \in [Collections -> {"absent", "plain", "encrypted"}]
              /\ \A d \in Collections : kind[d] # "absent" => kind'[d] # "absent"
              /\ \A d \in Collections : kind'[d] = "plain" => kind[d] = "plain"
              /\ kind'[c] # "absent"
            BY <1>0, <2>3 DEF TypeOK
        <3>3. Has(CreateOf(c), kind', indexes') /\ Makes(CreateOf(c), kind', indexes')
            BY <1>0, <2>1, <3>2, HasGrows DEF Makes, CreateOf
        <3>4. /\ After(s, CreateOf(c)) \in Bootstrapping \cup Done
              /\ Has(After(s, CreateOf(c)), kind', indexes')
            BY <2>1, <3>3, AfterHas
        <3>5. After(s, CreateOf(c)) # "degraded"
            BY <2>1 DEF After, CreateOf
        <3> QED BY <2>1, <2>3, <3>2, <3>4, <3>5, Moves DEF IInv, TypeOK, PlaintextHasACause
    <2> QED BY <1>5, <2>2, <2>3 DEF Create, Goto
<1>6. ASSUME EnsureIndexes(s) \/ EnsureCacheIndex(s) PROVE IInv'
    <2>1. PICK c \in Collections :
            /\ Implicitly(c)
            /\ pc[s] = "indexes" => c = "intents" /\ "intents" \in indexes'
            /\ pc[s] \in {"cache_key", "cache_ttl"} => c = "cache" /\ pc[s] \in indexes'
            /\ pc[s] \in {"indexes", "cache_key", "cache_ttl"}
        BY <1>6 DEF EnsureIndexes, EnsureCacheIndex, Collections
    <2>2. /\ pc[s] \in Bootstrapping
          /\ pc' = [pc EXCEPT ![s] = After(s, pc[s])]
          /\ indexes' \in SUBSET Indexes /\ indexes \subseteq indexes'
          /\ UNCHANGED <<cleartext, opened, outages, restarts, legacy>>
        BY <1>0, <1>6 DEF EnsureIndexes, EnsureCacheIndex, Goto, Indexes, TypeOK, Bootstrapping
    <2>3. /\ kind' \in [Collections -> {"absent", "plain", "encrypted"}]
          /\ \A d \in Collections : kind[d] # "absent" => kind'[d] = kind[d]
          /\ kind'[c] # "absent"
          /\ \A d \in Collections \ {c} : kind'[d] = kind[d]
        BY <1>0, <2>1, ImplicitlyGrows
    <2>4. Has(pc[s], kind', indexes') /\ Makes(pc[s], kind', indexes')
        BY <1>0, <2>1, <2>2, <2>3, HasGrows DEF Makes
    <2>5. /\ After(s, pc[s]) \in Bootstrapping \cup Done
          /\ Has(After(s, pc[s]), kind', indexes')
        BY <2>2, <2>4, AfterHas
    <2>6. After(s, pc[s]) # "degraded"
        BY <2>1 DEF After, AfterIndexes, Ready
    <2>7. Encryption => kind' = kind
        <3>1. Encryption => kind[c] # "absent"
            BY <1>0, <2>1 DEF Has, Collections
        <3> QED BY <1>0, <2>3, <3>1 DEF TypeOK
    <2> QED BY <2>2, <2>3, <2>5, <2>6, <2>7, Moves DEF IInv, TypeOK, PlaintextHasACause
<1> QED BY <1>1, <1>2, <1>3, <1>4, <1>5, <1>6 DEF Start

\* A failed start, a restart, and a worker's insert.
LEMMA OtherStep ==
    ASSUME IInv, NEW s \in Starters,
           \/ DatabaseFails(s) \/ Restart(s)
           \/ s \in Gateways /\ \E c \in Collections : Insert(s, c)
    PROVE  IInv'
<1>1. ASSUME DatabaseFails(s) PROVE IInv'
    <2>1. outages' \in 0..MaxFailures
        BY <1>1 DEF DatabaseFails, IInv, TypeOK
    <2> QED BY <1>1, <2>1, FailStep DEF DatabaseFails
<1>2. ASSUME Restart(s) PROVE IInv'
    <2>1. pc' = [pc EXCEPT ![s] = "down"] /\ Has("down", kind', indexes')
        BY <1>2 DEF Restart, Goto, Has, Final
    <2>2. restarts' \in 0..MaxRestarts
        BY <1>2 DEF Restart, IInv, TypeOK
    <2> QED BY <1>2, <2>1, <2>2, Moves DEF Restart, IInv, TypeOK, PlaintextHasACause
<1>3. ASSUME s \in Gateways, NEW c \in Collections, Insert(s, c) PROVE IInv'
    <2>1. /\ Implicitly(c) /\ pc[s] \in {"serving", "degraded"}
          /\ cleartext' = IF kind[c] = "encrypted" THEN cleartext ELSE cleartext \cup {c}
          /\ UNCHANGED <<pc, indexes, opened, outages, restarts, legacy>>
        BY <1>3 DEF Insert
    <2>2. /\ kind' \in [Collections -> {"absent", "plain", "encrypted"}]
          /\ \A d \in Collections : kind[d] # "absent" => kind'[d] = kind[d]
          /\ \A d \in Collections \ {c} : kind'[d] = kind[d]
        BY <2>1, ImplicitlyGrows DEF IInv
    <2>3. TypeOK' /\ DegradedOpened'
        BY <2>1, <2>2 DEF IInv, TypeOK, DegradedOpened
    <2>4. ASSUME NEW q \in Starters PROVE Has(pc'[q], kind', indexes')
        <3>1. Has(pc[q], kind, indexes)
            BY DEF IInv, Relied
        <3> QED BY <2>1, <2>2, <3>1, HasGrows
    <2>5. Relied'
        BY <2>4 DEF Relied
    <2>6. ASSUME Encryption, opened = {} PROVE kind[c] # "absent"
        <3>1. pc[s] = "serving" /\ Has(pc[s], kind, indexes)
            BY <1>3, <2>1, <2>6 DEF IInv, DegradedOpened, Relied
        <3> QED BY <2>6, <3>1 DEF Has, Final, Collections
    <2>7. PlaintextHasACause'
        BY <2>1, <2>2, <2>6 DEF IInv, TypeOK, PlaintextHasACause
    <2> QED BY <2>3, <2>5, <2>7 DEF IInv
<1> QED BY <1>1, <1>2, <1>3

----------------------------------------------------------------------------
(* The theorems *)

\* The invariant holds before the first start, with what was there already.
LEMMA InitIInv == Init => IInv
BY DEF Init, IInv, TypeOK, Relied, Has, Final, DegradedOpened, PlaintextHasACause

\* Every step of every process preserves it.
LEMMA NextIInv == IInv /\ [Next]_vars => IInv'
<1> SUFFICES ASSUME IInv, [Next]_vars PROVE IInv'
    OBVIOUS
<1>1. CASE UNCHANGED vars
    BY <1>1 DEF vars, IInv, TypeOK, Relied, DegradedOpened, PlaintextHasACause
<1> QED BY <1>1, StartStep, OtherStep DEF Next

\* The invariant, in whatever order processes start, fail, crash and write.
THEOREM StorageInvariant == Spec => []IInv
BY InitIInv, NextIInv, PTL DEF Spec

\* A collection is absent, plain or encrypted and processes are at a step of
\* their start or over (bootstrap.py:55-95, main.py:81-97).
THEOREM TypeCorrect == Spec => []TypeOK
<1>1. IInv => TypeOK
    BY DEF IInv
<1> QED BY <1>1, StorageInvariant, PTL

\* With encryption on, plaintext and unencrypted collections come of a gateway that
\* serves after a failed start or of a collection found unencrypted, for any number
\* of processes that race for the collections (main.py:94-97,
\* encryption.py:150-215).
THEOREM PlaintextHasACauseHolds == Spec => []PlaintextHasACause
<1>1. IInv => PlaintextHasACause
    BY DEF IInv
<1> QED BY <1>1, StorageInvariant, PTL

\* A start that went through has complete storage (main.py:81-97,
\* cli.py:136-150).
THEOREM CompletedHasStorageHolds == Spec => []CompletedHasStorage
<1>1. IInv => CompletedHasStorage
    BY DEF IInv, Relied, Has, Final, CompletedHasStorage
<1> QED BY <1>1, StorageInvariant, PTL
=============================================================================
