------------------------------ MODULE Embedder ------------------------------
(***************************************************************************)
(* VoyageEmbedder behind its circuit breaker: _embed_many takes the texts  *)
(* that are not blank with their positions, sends them to the backend one  *)
(* window after the other, asks the breaker anew before each, and scatters *)
(* the vectors back to the positions.  A window that is skipped or fails   *)
(* leaves None at its positions and the next one is tried all the same.    *)
(*                                                                         *)
(* A vector is named by the text it was computed from.                     *)
(***************************************************************************)
EXTENDS CircuitBreaker, Sequences

CONSTANTS
    Texts,          \* texts that are not blank
    Blank,          \* an empty text, or only white space
    None,           \* no vector
    Clipped,        \* what _clip leaves of each text
    Window          \* batch_size of the embedder

ASSUME EmbedderAssumption ==
    /\ Window \in Nat \ {0}
    /\ Blank \notin Texts
    /\ None \notin Texts
    /\ Clipped \in [Texts -> Texts]

VARIABLES
    texts,          \* the texts each caller passed, <<>> when it is not embedding
    todo,           \* positions of `indexed` that are still to be sent
    out             \* the result list of each caller

embedVars == <<texts, todo, out>>

EmbedTypeOK ==
    /\ texts \in [Callers -> Seq(Texts \cup {Blank})]
    /\ todo \in [Callers -> Seq(Nat \ {0})]
    /\ out \in [Callers -> Seq(Texts \cup {None})]

----------------------------------------------------------------------------
(* Helpers *)

\* The positions of the texts that are not blank.
Filled(t) == {i \in 1..Len(t) : t[i] # Blank}

Increasing(s) == \A j, k \in DOMAIN s : j < k => s[j] < s[k]

\* `indexed`: those positions, in order.
Indexed(t) == CHOOSE s \in [1..Cardinality(Filled(t)) -> Filled(t)] : Increasing(s)

\* How many positions the next window has.
Taken(c) == UpTo(Len(todo[c]), Window)

\* Mutant: one window is sent, what does not fit into it is forgotten.
RestForgotten(c) == <<>>

\* The positions left after the window.
Rest(c) == SubSeq(todo[c], Taken(c) + 1, Len(todo[c]))

\* What the backend returns for the window: one vector a text, in order.
Vectors(c) == [k \in 1..Taken(c) |-> Clipped[texts[c][todo[c][k]]]]

\* Mutant: the vectors go to the first positions of the list.
ScatteredByRank(c) ==
    [p \in DOMAIN out[c] |-> IF p <= Taken(c) THEN Vectors(c)[p] ELSE out[c][p]]

\* zip(window, vectors): the k-th vector goes to the k-th position of the window.
Scattered(c) ==
    [p \in DOMAIN out[c] |->
        IF \E k \in 1..Taken(c) : todo[c][k] = p
        THEN Vectors(c)[CHOOSE k \in 1..Taken(c) : todo[c][k] = p]
        ELSE out[c][p]]

----------------------------------------------------------------------------
EmbedInit ==
    /\ Init
    /\ texts = [c \in Callers |-> <<>>]
    /\ todo = [c \in Callers |-> <<>>]
    /\ out = [c \in Callers |-> <<>>]

\* _embed_many is entered.
Begin(c, t) ==
    /\ texts[c] = <<>>
    /\ texts' = [texts EXCEPT ![c] = t]
    /\ todo' = [todo EXCEPT ![c] = Indexed(t)]
    /\ out' = [out EXCEPT ![c] = [i \in 1..Len(t) |-> None]]
    /\ UNCHANGED vars

\* _embed_batch is let through by the breaker.
SendWindow(c) ==
    /\ todo[c] # <<>>
    /\ Call(c)
    /\ UNCHANGED embedVars

\* The breaker is open: the window is left without vectors.
SkipWindow(c) ==
    /\ todo[c] # <<>>
    /\ calling[c] = "no"
    /\ ~Allow
    /\ todo' = [todo EXCEPT ![c] = Rest(c)]
    /\ UNCHANGED <<texts, out>>
    /\ UNCHANGED vars

WindowEmbedded(c) ==
    /\ Succeed(c)
    /\ out' = [out EXCEPT ![c] = Scattered(c)]
    /\ todo' = [todo EXCEPT ![c] = Rest(c)]
    /\ UNCHANGED texts

WindowFails(c) ==
    /\ Fail(c)
    /\ todo' = [todo EXCEPT ![c] = Rest(c)]
    /\ UNCHANGED <<texts, out>>

\* Every window was handled: _embed_many returns out[c].
Returning(c) == texts[c] # <<>> /\ todo[c] = <<>>

Return(c) ==
    /\ Returning(c)
    /\ texts' = [texts EXCEPT ![c] = <<>>]
    /\ out' = [out EXCEPT ![c] = <<>>]
    /\ UNCHANGED todo
    /\ UNCHANGED vars

\* What ends the call to the backend goes through _embed_many: its caller gets
\* no list at all, not even the windows that had their vectors.
WindowRaises(c) ==
    /\ Abort(c)
    /\ texts' = [texts EXCEPT ![c] = <<>>]
    /\ todo' = [todo EXCEPT ![c] = <<>>]
    /\ out' = [out EXCEPT ![c] = <<>>]

\* A step of _embed_many between its call and its return.
Embedding(c) ==
    SendWindow(c) \/ SkipWindow(c) \/ WindowEmbedded(c) \/ WindowFails(c)

\* Time passes, or the backend goes down or comes back.
Surroundings == (Tick \/ Turn) /\ UNCHANGED embedVars

----------------------------------------------------------------------------
(* Properties *)

\* embeddings.py:146-156: whatever windows were skipped, failed or succeeded in
\* between, a position holds the vector of its own text or None, and the
\* position of a blank text holds None.
VectorsAligned ==
    \A c \in Callers : \A i \in 1..Len(texts[c]) :
        IF texts[c][i] = Blank
        THEN out[c][i] = None
        ELSE out[c][i] \in {None, Clipped[texts[c][i]]}

\* Every text of a call that is about to return has its vector.
AllEmbedded ==
    \A c \in Callers : Returning(c) =>
        \A i \in 1..Len(texts[c]) : texts[c][i] # Blank => out[c][i] # None
=============================================================================
