------------------------------ MODULE MCReplay ------------------------------
(***************************************************************************)
(* Requests for one content to Ollama, which set the stream flag, clear it *)
(* or leave it out; one to Gemini's streaming path with alt=sse, which a   *)
(* re-issue lacks; and a GET without a body.  Two may share an id.         *)
(* Entries expire within the run.                                          *)
(***************************************************************************)
EXTENDS Replay, TLC

CONSTANTS r1, r2, r3, p1, p2, chat, gemini, content, shared

MCRequests == {r1, r2, r3}
MCProviders == {p1, p2}
MCPaths == {chat, gemini}
MCStreamPaths == {gemini}
MCStreamsByDefault == {p1}
MCContents == {content, Empty}
MCGivenIds == {shared}

Opted == [provider |-> p1, method |-> "POST", path |-> chat, content |-> content,
          object |-> TRUE, stream |-> "no", header |-> "on", alt |-> FALSE]

MCAsks == {Opted,
           [Opted EXCEPT !.stream = "yes"],
           [Opted EXCEPT !.stream = "unset"],
           [Opted EXCEPT !.provider = p2, !.path = gemini, !.stream = "unset", !.alt = TRUE],
           [Opted EXCEPT !.method = "GET", !.object = FALSE, !.content = Empty,
                         !.stream = "unset", !.header = "off"]}

Symmetry == Permutations(MCRequests)
=============================================================================
