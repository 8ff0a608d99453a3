------------------------------ MODULE MCSearch ------------------------------
(***************************************************************************)
(* A worker and a search share a breaker that opens on the second failure. *)
(* A batch has a blank text between others and needs two windows; a long   *)
(* text is clipped to another one.                                         *)
(***************************************************************************)
EXTENDS Search

CONSTANTS worker, search, silent, thought, spoken, long, short, home, away

MCWorkers == {worker}
MCSearchers == {search}
MCCallers == MCWorkers \cup MCSearchers
MCTexts == {long, short}
MCClipped == [t \in MCTexts |-> short]
MCDocs == {silent, thought, spoken}
MCFields == {"project_id"}

\* A document that has nothing to embed, one with reasoning and one whose text
\* is found in its request.
MCDoc == [d \in MCDocs |->
    [reasoning |-> IF d = thought THEN long ELSE Blank,
     content |-> IF d = thought THEN short ELSE Blank,
     messages |-> Blank,
     contents |-> IF d = spoken THEN short ELSE Blank,
     prompt |-> Blank,
     meta |-> [x \in MCFields |-> IF d = thought THEN home ELSE away]]]

MCBatches == {<<thought, silent, spoken, thought>>, <<silent, spoken>>}

\* A blank query, a filtered one in each mode.
MCRequests ==
    {[query |-> short, mode |-> m, filter |-> [x \in MCFields |-> home]] :
        m \in {"hybrid", "vector"}}
    \cup {[query |-> Blank, mode |-> "hybrid", filter |-> [x \in MCFields |-> None]]}
=============================================================================
