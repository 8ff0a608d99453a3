------------------------- MODULE MCResponseParsers -------------------------
(* Instances of ResponseParsers for TLC: the four dialects, a message with *)
(* everything in it, one with overlapping calls only, and one of text only. *)
EXTENDS ResponseParsers

MCDialects == {"openai", "anthropic", "gemini", "ollama"}

MCTokens == {"t", "a", "b", "x", "y", "z"}

MCMessages ==
    {[thoughts |-> <<"t">>, text |-> <<"a", "b">>, tools |-> <<<<"x">>, <<"y">>>>],
     [thoughts |-> <<>>, text |-> <<>>, tools |-> <<<<"x", "y">>, <<"z">>>>],
     [thoughts |-> <<>>, text |-> <<"a">>, tools |-> <<<<"x">>>>]}
=============================================================================
