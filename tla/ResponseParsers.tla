-------------------------- MODULE ResponseParsers --------------------------
(***************************************************************************)
(* The telemetry parsers: what is distilled from the captured bytes of a   *)
(* response in the four wire dialects, streamed or not.  A provider sends  *)
(* a message payload by payload; a payload may be garbled, or be JSON of a *)
(* shape the parser does not expect; the capture may end anywhere.         *)
(*                                                                         *)
(* Parsing is one pass over the payloads, so the parser's accumulators are *)
(* kept up to date with what was captured.  Text is a sequence of tokens,  *)
(* one for each fragment the provider sends; a list of fragments that is   *)
(* empty stands for None.                                                  *)
(***************************************************************************)
EXTENDS Integers, Sequences, SequencesExt

CONSTANTS
    Dialects,       \* the parsers that are checked
    Tokens,         \* fragments of text
    Messages,       \* what providers answer: text, thoughts, and tool calls
    Null,           \* None
    MaxLost         \* bound: payloads that arrive damaged

Known == {"openai", "anthropic", "gemini", "ollama"}

ASSUME ParsersAssumption ==
    /\ Dialects \subseteq Known
    /\ Messages \subseteq
         [thoughts : Seq(Tokens), text : Seq(Tokens), tools : Seq(Seq(Tokens))]
    /\ MaxLost \in Nat
    /\ Null \notin Int \cup {"model", "stop"}

VARIABLES
    dialect,        \* which parser
    wire,           \* how the response is framed
    message,        \* what the provider says
    sent,           \* how far the provider, or what the capture kept of it, got
    lost,           \* history: damaged payloads
    acc             \* the parser's ParseResult and accumulators

vars == <<dialect, wire, message, sent, lost, acc>>

\* A fresh ParseResult, with the parser's flags.
Nothing ==
    [model |-> Null, input |-> Null, output |-> Null, total |-> Null,
     content |-> <<>>, thinking |-> <<>>, tools |-> <<>>, finish |-> Null,
     seen |-> FALSE, garbled |-> FALSE, raised |-> FALSE]

----------------------------------------------------------------------------
(* What the parsers share *)

\* `if x: result = x`: what is not given leaves what was.
Or(x, old) == IF x # Null THEN x ELSE old

\* _apply_usage of OpenAI and Gemini: the provider counts the total.
UsageGiven(u, a) ==
    [a EXCEPT !.input = Or(u.input, @), !.output = Or(u.output, @), !.total = Or(u.total, @)]

\* Mutant: the total is computed once.
UsageSummedOnce(u, a) ==
    LET i == Or(u.input, a.input)
        o == Or(u.output, a.output)
    IN  [a EXCEPT !.input = i, !.output = o,
                  !.total = IF @ = Null /\ i # Null /\ o # Null THEN i + o ELSE @]

\* _apply_usage of Anthropic and _apply_done of Ollama: the parser counts it.
UsageSummed(u, a) ==
    LET i == Or(u.input, a.input)
        o == Or(u.output, a.output)
    IN  [a EXCEPT !.input = i, !.output = o,
                  !.total = IF i # Null /\ o # Null THEN i + o ELSE @]

SlotsAt(tools, index) == {i \in DOMAIN tools : tools[i].index = index}

\* Mutant: a fragment that seems to continue a call goes to the latest one.
AddToLatest(tools, f) ==
    IF f.id # Null \/ tools = <<>> THEN Append(tools, f)
    ELSE [tools EXCEPT ![Len(tools)].args = @ \o f.args]

\* _ToolAccumulator.add_fragment.
AddFragment(tools, f) ==
    IF SlotsAt(tools, f.index) = {} THEN Append(tools, f)
    ELSE [i \in DOMAIN tools |->
            IF tools[i].index # f.index THEN tools[i]
            ELSE [tools[i] EXCEPT !.id = Or(f.id, @), !.name = Or(f.name, @),
                                  !.args = @ \o f.args]]

----------------------------------------------------------------------------
(* One payload of each dialect *)

OpenAIChoice(a, choice) ==
    [a EXCEPT !.content = @ \o choice.content,
              !.tools = FoldLeft(AddFragment, @, choice.fragments),
              !.finish = Or(choice.finish, @)]

OpenAIChunk(a, c) ==
    FoldLeft(OpenAIChoice, UsageGiven(c.usage, [a EXCEPT !.model = Or(c.model, @)]), c.choices)

\* content_block_start of a tool_use: a new block, or the old one anew.
OpenBlock(tools, b) ==
    IF SlotsAt(tools, b.index) = {} THEN Append(tools, b)
    ELSE [i \in DOMAIN tools |-> IF tools[i].index = b.index THEN b ELSE tools[i]]

\* input_json_delta: input for a block that was never opened is skipped.
ExtendInput(tools, index, tokens) ==
    [i \in DOMAIN tools |->
        IF tools[i].index = index THEN [tools[i] EXCEPT !.args = @ \o tokens] ELSE tools[i]]

\* _apply_block_delta.
BlockDelta(a, e) ==
    CASE e.delta = "text" -> [a EXCEPT !.content = @ \o e.tokens]
      [] e.delta = "thinking" -> [a EXCEPT !.thinking = @ \o e.tokens]
      [] e.delta = "input_json" -> [a EXCEPT !.tools = ExtendInput(@, e.index, e.tokens)]

AnthropicEvent(a, e) ==
    CASE e.event = "message_start" -> UsageSummed(e.usage, [a EXCEPT !.model = Or(e.model, @)])
      [] e.event = "tool_use_start" -> [a EXCEPT !.tools = OpenBlock(@, e.block)]
      [] e.event = "content_block_delta" -> BlockDelta(a, e)
      [] e.event = "message_delta" -> UsageSummed(e.usage, [a EXCEPT !.finish = Or(e.finish, @)])
      [] OTHER -> a

GeminiPart(a, part) ==
    LET b == IF part.thought THEN [a EXCEPT !.thinking = @ \o part.text]
             ELSE [a EXCEPT !.content = @ \o part.text]
    IN  [b EXCEPT !.tools = @ \o part.calls]

GeminiChunk(a, c) ==
    FoldLeft(GeminiPart,
             UsageGiven(c.usage, [a EXCEPT !.model = Or(c.model, @), !.finish = Or(c.finish, @)]),
             c.parts)

OllamaLine(a, l) ==
    LET b == [a EXCEPT !.model = Or(l.model, @), !.content = @ \o l.content, !.tools = @ \o l.calls]
    IN  IF l.done THEN UsageSummed(l.usage, [b EXCEPT !.finish = Or(l.finish, @)]) ELSE b

Parse(a, payload) ==
    LET b == [a EXCEPT !.seen = TRUE] IN
    CASE dialect = "openai" -> OpenAIChunk(b, payload)
      [] dialect = "anthropic" -> AnthropicEvent(b, payload)
      [] dialect = "gemini" -> GeminiChunk(b, payload)
      [] dialect = "ollama" -> OllamaLine(b, payload)

\* A payload as it arrives: garbled payloads are skipped and noted, and an
\* exception of the parser is caught by _run_parser, which keeps nothing.
Take(a, payload, damage) ==
    IF a.raised THEN a
    ELSE CASE damage = "none" -> Parse(a, payload)
           [] damage = "garbled" -> [a EXCEPT !.garbled = TRUE]
           [] damage = "odd" -> [Nothing EXCEPT !.raised = TRUE]

\* Mutant: whatever was understood makes the parse whole.
StatusBySeen(a) ==
    IF a.raised THEN "error" ELSE IF a.seen THEN "ok" ELSE "unparsed"

Status(a) ==
    IF a.raised THEN "error"
    ELSE IF a.garbled THEN "partial"
    ELSE IF a.seen THEN "ok"
    ELSE "unparsed"

----------------------------------------------------------------------------
(* What a provider sends.  The API is external: payloads have the fields    *)
(* the parsers look for, in the order the parsers and their tests expect.   *)

Usage == [input |-> 5, output |-> 3, total |-> 8]

NoUsage == [input |-> Null, output |-> Null, total |-> Null]

Call(i, args) == [index |-> i, id |-> i, name |-> i, args |-> args]

Calls == [i \in DOMAIN message.tools |-> Call(i, message.tools[i])]

OpenAIPayload(content, fragments, finish) ==
    [model |-> "model", usage |-> NoUsage,
     choices |-> <<[content |-> content, fragments |-> fragments, finish |-> finish]>>]

GeminiPayload(parts, usage, finish) ==
    [model |-> "model", usage |-> usage, parts |-> parts, finish |-> finish]

Part(thought, text, calls) == [thought |-> thought, text |-> text, calls |-> calls]

OllamaPayload(content, calls, done) ==
    [model |-> "model", content |-> content, calls |-> calls, done |-> done,
     usage |-> Usage, finish |-> "stop"]

Delta(kind, index, tokens) ==
    [event |-> "content_block_delta", delta |-> kind, index |-> index, tokens |-> tokens]

BeginPayload ==
    CASE dialect = "openai" -> OpenAIPayload(<<>>, <<>>, Null)
      [] dialect = "anthropic" ->
            [event |-> "message_start", model |-> "model",
             usage |-> [NoUsage EXCEPT !.input = 5, !.output = 1]]
      [] dialect = "gemini" -> GeminiPayload(<<>>, [Usage EXCEPT !.output = Null, !.total = 5], Null)
      [] dialect = "ollama" -> OllamaPayload(<<>>, <<>>, FALSE)

ThoughtPayload(token) ==
    IF dialect = "anthropic" THEN Delta("thinking", 0, <<token>>)
    ELSE GeminiPayload(<<Part(TRUE, <<token>>, <<>>)>>, NoUsage, Null)

TextPayload(token) ==
    CASE dialect = "openai" -> OpenAIPayload(<<token>>, <<>>, Null)
      [] dialect = "anthropic" -> Delta("text", 0, <<token>>)
      [] dialect = "gemini" -> GeminiPayload(<<Part(FALSE, <<token>>, <<>>)>>, NoUsage, Null)
      [] dialect = "ollama" -> OllamaPayload(<<token>>, <<>>, FALSE)

CallPayload(i) ==
    CASE dialect = "openai" -> OpenAIPayload(<<>>, <<Call(i, <<>>)>>, Null)
      [] dialect = "anthropic" -> [event |-> "tool_use_start", block |-> Call(i, <<>>)]
      [] dialect = "gemini" -> GeminiPayload(<<Part(FALSE, <<>>, <<Calls[i]>>)>>, NoUsage, Null)
      [] dialect = "ollama" -> OllamaPayload(<<>>, <<Calls[i]>>, FALSE)

ArgumentPayload(i, token) ==
    IF dialect = "openai"
    THEN OpenAIPayload(<<>>, <<[Call(i, <<token>>) EXCEPT !.id = Null, !.name = Null]>>, Null)
    ELSE Delta("input_json", i, <<token>>)

FinishPayload ==
    CASE dialect = "openai" -> OpenAIPayload(<<>>, <<>>, "stop")
      [] dialect = "anthropic" ->
            [event |-> "message_delta", finish |-> "stop", usage |-> [NoUsage EXCEPT !.output = 3]]
      [] dialect = "gemini" -> GeminiPayload(<<>>, Usage, "stop")
      [] dialect = "ollama" -> OllamaPayload(<<>>, <<>>, TRUE)

\* After the finish: OpenAI's usage chunk, Anthropic's message_stop.
ClosePayload ==
    IF dialect = "openai" THEN [model |-> "model", usage |-> Usage, choices |-> <<>>]
    ELSE [event |-> "message_stop"]

----------------------------------------------------------------------------
(* What a capture of it parses to *)

\* _parse_single of OpenAI and Anthropic, and one object of the others.
Whole ==
    [model |-> "model", input |-> 5, output |-> 3, total |-> 8,
     content |-> message.text, thinking |-> message.thoughts, tools |-> Calls,
     finish |-> "stop", seen |-> TRUE, garbled |-> FALSE, raised |-> FALSE]

\* Which way parse() goes: looks_like_sse, and `streamed` for two of the
\* dialects; Ollama's has one way only.
TakenForStream ==
    CASE dialect \in {"openai", "anthropic"} -> wire.eventStream \/ wire.streamed \/ wire.dataColon
      [] dialect = "gemini" -> wire.eventStream \/ wire.dataColon
      [] dialect = "ollama" -> FALSE

\* The wire does not lie about the body, whatever the relay made of it.
Honest ==
    wire.form # "stream" =>
        /\ ~wire.eventStream /\ ~wire.dataColon
        /\ dialect \in {"openai", "anthropic"} => ~wire.streamed

\* An object, garbled or odd or not, that is parsed as what it is.
ParseObject(damage) ==
    CASE damage = "none" -> Whole
      [] damage = "garbled" ->
            [Nothing EXCEPT !.garbled = dialect \notin {"openai", "anthropic"}]
      [] damage = "odd" -> [Nothing EXCEPT !.raised = TRUE]

\* What the parser returns if the capture ends here.  What is taken for a
\* stream and is none has no data lines; an array is parsed when it is closed.
Result ==
    IF \/ wire.form # "stream" /\ TakenForStream
       \/ wire.form = "array" /\ ~sent.closed
    THEN Nothing
    ELSE acc

----------------------------------------------------------------------------

\* `streamed` is the relay's word for it; a stream of events says "data:".
Wires ==
    {w \in [form : {"stream", "object", "array"},
            eventStream : BOOLEAN, streamed : BOOLEAN, dataColon : BOOLEAN] :
        /\ w.form = "array" => dialect = "gemini"
        /\ w.form = "stream" /\ dialect # "ollama" => w.dataColon}

Init ==
    /\ dialect \in Dialects
    /\ message \in {m \in Messages : dialect \in {"openai", "ollama"} => m.thoughts = <<>>}
    /\ wire \in Wires
    /\ sent = [begun |-> FALSE, thoughts |-> 0, text |-> 0, calls |-> <<>>,
               finished |-> FALSE, closed |-> FALSE]
    /\ lost = 0
    /\ acc = Nothing

\* Garbling any of an array is never closing it.
Damages == IF wire.form = "array" THEN {"none", "odd"} ELSE {"none", "garbled", "odd"}

Arrives(payload) ==
    \E damage \in Damages :
        /\ damage # "none" => lost < MaxLost
        /\ lost' = IF damage = "none" THEN lost ELSE lost + 1
        /\ acc' = Take(acc, payload, damage)
        /\ UNCHANGED <<dialect, wire, message>>

ObjectArrives ==
    /\ wire.form = "object" /\ ~sent.closed
    /\ sent' = [sent EXCEPT !.finished = TRUE, !.closed = TRUE]
    /\ \E damage \in Damages :
        /\ damage # "none" => lost < MaxLost
        /\ lost' = IF damage = "none" THEN lost ELSE lost + 1
        /\ acc' = ParseObject(damage)
    /\ UNCHANGED <<dialect, wire, message>>

Streaming == wire.form # "object" /\ sent.begun /\ ~sent.finished

Begin ==
    /\ wire.form # "object" /\ ~sent.begun
    /\ sent' = [sent EXCEPT !.begun = TRUE]
    /\ Arrives(BeginPayload)

SendThought ==
    /\ Streaming /\ sent.thoughts < Len(message.thoughts)
    /\ sent' = [sent EXCEPT !.thoughts = @ + 1]
    /\ Arrives(ThoughtPayload(message.thoughts[sent.thoughts + 1]))

SendText ==
    /\ Streaming /\ sent.text < Len(message.text)
    /\ sent' = [sent EXCEPT !.text = @ + 1]
    /\ Arrives(TextPayload(message.text[sent.text + 1]))

Fragmented == dialect \in {"openai", "anthropic"}

CallSent(i) == sent.calls[i] = Len(message.tools[i])

\* Anthropic's blocks come one after the other; OpenAI's calls may overlap.
SendCall ==
    LET i == Len(sent.calls) + 1 IN
    /\ Streaming /\ i <= Len(message.tools)
    /\ dialect = "anthropic" => \A j \in DOMAIN sent.calls : CallSent(j)
    /\ sent' = [sent EXCEPT !.calls = Append(@, IF Fragmented THEN 0 ELSE Len(message.tools[i]))]
    /\ Arrives(CallPayload(i))

SendArgument ==
    \E i \in DOMAIN sent.calls :
        /\ Streaming /\ ~CallSent(i)
        /\ sent' = [sent EXCEPT !.calls[i] = @ + 1]
        /\ Arrives(ArgumentPayload(i, message.tools[i][sent.calls[i] + 1]))

\* Of Gemini's and Ollama's streams the finish is the end.
SendFinish ==
    /\ Streaming
    /\ sent.thoughts = Len(message.thoughts) /\ sent.text = Len(message.text)
    /\ Len(sent.calls) = Len(message.tools) /\ \A i \in DOMAIN sent.calls : CallSent(i)
    /\ sent' = [sent EXCEPT !.finished = TRUE, !.closed = ~Fragmented]
    /\ Arrives(FinishPayload)

SendClose ==
    /\ Fragmented /\ sent.finished /\ ~sent.closed
    /\ sent' = [sent EXCEPT !.closed = TRUE]
    /\ Arrives(ClosePayload)

Next ==
    \/ ObjectArrives
    \/ Begin
    \/ SendThought
    \/ SendText
    \/ SendCall
    \/ SendArgument
    \/ SendFinish
    \/ SendClose

Spec == Init /\ [][Next]_vars

----------------------------------------------------------------------------
(* Properties *)

\* A response that arrives whole is parsed whole, to the same result whether
\* the provider streamed it, in whatever order its calls' fragments came, or
\* not: counts, total, text, thoughts, tool calls and finish reason.
WholeParsed == sent.closed /\ lost = 0 /\ Honest => Result = Whole

InOrderOf(args, all) ==
    \E at \in [DOMAIN args -> DOMAIN all] :
        /\ \A i \in DOMAIN args : args[i] = all[at[i]]
        /\ \A i, j \in DOMAIN args : i < j => at[i] < at[j]

\* The arguments extracted for a tool call are fragments of that call's, in
\* their order, and a call is extracted once: whatever interleaves or is lost,
\* one call's arguments never end up in another's (_ToolAccumulator, tool_blocks).
ToolsNotMixed ==
    \A i \in DOMAIN Result.tools :
        LET t == Result.tools[i] IN
        /\ InOrderOf(t.args, message.tools[t.index])
        /\ t.id \in {t.index, Null} /\ t.name = t.id
        /\ \A j \in DOMAIN Result.tools : Result.tools[j].index = t.index => i = j

\* The parse status tells how far to trust the rest: "ok" is never said of a
\* response of which a payload was lost on the parser, and "ok" with a finish
\* reason is the whole message even when the capture was cut after it;
\* "unparsed" and "error" come with nothing extracted.
StatusHonest ==
    /\ Status(Result) = "ok" => lost = 0
    /\ Status(Result) = "ok" /\ Result.finish # Null =>
            /\ Result.content = message.text /\ Result.thinking = message.thoughts
            /\ Result.tools = Calls
    /\ Status(Result) \in {"unparsed", "error"} =>
            Result = [Nothing EXCEPT !.raised = Result.raised]
=============================================================================
