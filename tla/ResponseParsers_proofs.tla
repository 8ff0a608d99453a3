----------------------- MODULE ResponseParsers_proofs -----------------------
(***************************************************************************)
(* For any messages, of any length, and any of the four dialects: what the *)
(* parsers make of a response that arrives whole, cut anywhere, garbled in *)
(* places or with payloads of an odd shape.                                *)
(*                                                                         *)
(* The strengthening says what was extracted at every moment.  Without a   *)
(* loss it is exactly what was sent (Heard).  With losses the tool calls   *)
(* still belong to calls that were begun, with arguments that are among    *)
(* those sent so far, in their order (ToolsFit), and the result's flags    *)
(* remember the loss.                                                      *)
(***************************************************************************)
EXTENDS ResponseParsers, SequenceTheorems, TLAPS

Numbers == Int \cup {Null}

Tool ==
    [index : Nat, id : Nat \cup {Null}, name : Nat \cup {Null}, args : Seq(Tokens)]

Acc ==
    [model : {"model", Null}, input : Numbers, output : Numbers, total : Numbers,
     content : Seq(Tokens), thinking : Seq(Tokens), tools : Seq(Tool),
     finish : {"stop", Null}, seen : BOOLEAN, garbled : BOOLEAN, raised : BOOLEAN]

\* The usage of a result.
Held(a) == [input |-> a.input, output |-> a.output, total |-> a.total]

\* What of the usage is known when s of the response was sent.
Counted(s) ==
    CASE dialect = "openai" -> IF s.closed THEN Usage ELSE NoUsage
      [] dialect = "anthropic" ->
            IF s.finished THEN Usage
            ELSE IF s.begun THEN [input |-> 5, output |-> 1, total |-> 6] ELSE NoUsage
      [] dialect = "gemini" ->
            IF s.finished THEN Usage
            ELSE IF s.begun THEN [input |-> 5, output |-> Null, total |-> 5] ELSE NoUsage
      [] dialect = "ollama" -> IF s.finished THEN Usage ELSE NoUsage

\* The tool calls begun, each with the arguments sent.
Opened(calls) == [i \in DOMAIN calls |-> Call(i, SubSeq(message.tools[i], 1, calls[i]))]

\* a is what was sent and nothing else.
Heard(s, a) ==
    /\ a.model = IF s.begun THEN "model" ELSE Null
    /\ Held(a) = Counted(s)
    /\ a.content = SubSeq(message.text, 1, s.text)
    /\ a.thinking = SubSeq(message.thoughts, 1, s.thoughts)
    /\ a.tools = Opened(s.calls)
    /\ a.finish = IF s.finished THEN "stop" ELSE Null
    /\ a.seen <=> s.begun
    /\ ~a.garbled /\ ~a.raised

\* args are among the first n of all, in their order.
Among(args, all, n) ==
    \E at \in [DOMAIN args -> 1..n] :
        /\ \A k \in DOMAIN args : args[k] = all[at[k]]
        /\ \A j, k \in DOMAIN args : j < k => at[j] < at[k]

\* A tool call that was extracted has the name of a call that was begun, or none,
\* and arguments sent for that call.
Fits(calls, t) ==
    /\ t.index \in DOMAIN calls
    /\ t.id \in {t.index, Null}
    /\ t.name = t.id
    /\ Among(t.args, message.tools[t.index], calls[t.index])

ToolsFit(calls, tools) ==
    /\ \A i \in DOMAIN tools : Fits(calls, tools[i])
    /\ \A i, j \in DOMAIN tools : tools[i].index = tools[j].index => i = j

Raised == [Nothing EXCEPT !.raised = TRUE]

AllSent ==
    /\ sent.thoughts = Len(message.thoughts)
    /\ sent.text = Len(message.text)
    /\ Len(sent.calls) = Len(message.tools)
    /\ \A i \in DOMAIN sent.calls : CallSent(i)

\* The setting, which never changes.
Setting ==
    /\ dialect \in Dialects
    /\ message \in Messages
    /\ dialect \in {"openai", "ollama"} => message.thoughts = <<>>
    /\ wire.form \in {"stream", "object", "array"}
    /\ wire.form = "array" => dialect = "gemini"

SentOK ==
    /\ sent \in [begun : BOOLEAN, thoughts : Nat, text : Nat, calls : Seq(Nat),
                 finished : BOOLEAN, closed : BOOLEAN]
    /\ lost \in Nat
    /\ sent.thoughts <= Len(message.thoughts)
    /\ sent.text <= Len(message.text)
    /\ Len(sent.calls) <= Len(message.tools)
    /\ \A i \in DOMAIN sent.calls :
         sent.calls[i] <= Len(message.tools[i]) /\ (~Fragmented => CallSent(i))
    /\ wire.form # "object" =>
         /\ sent.finished => sent.begun /\ AllSent
         /\ sent.closed => sent.finished
         /\ ~Fragmented => (sent.finished => sent.closed)
         /\ ~sent.begun => sent.thoughts = 0 /\ sent.text = 0 /\ sent.calls = <<>>
    /\ wire.form = "object" => (sent.finished => sent.closed)

\* What was extracted of a response sent in pieces, and of one sent as an object.
PiecesOK ==
    /\ ToolsFit(sent.calls, acc.tools)
    /\ lost > 0 => acc.garbled \/ acc.raised
    /\ lost = 0 => Heard(sent, acc)

ObjectOK ==
    /\ acc \in {Whole, Nothing, [Nothing EXCEPT !.garbled = TRUE], Raised}
    /\ acc = Whole \/ ~sent.closed => lost = 0
    /\ lost = 0 => acc = IF sent.closed THEN Whole ELSE Nothing

AccOK ==
    /\ acc \in Acc
    /\ acc.raised => acc = Raised
    /\ IF wire.form = "object" THEN ObjectOK ELSE PiecesOK

IInv == Setting /\ SentOK /\ AccOK

----------------------------------------------------------------------------
(* A payload has at most one choice, one fragment and one part *)

\* Folding the choices of a chunk over a list of one, and over an empty one.
LEMMA ChoicesFolds ==
    ASSUME NEW a, NEW c
    PROVE  FoldLeft(OpenAIChoice, a, <<c>>) = OpenAIChoice(a, c) /\ FoldLeft(OpenAIChoice, a, << >>) = a
<1> HIDE DEF OpenAIChoice
<1>1. FoldLeft(OpenAIChoice, a, <<c>>) = OpenAIChoice(a, c)
    <2> DEFINE Fold(f) == f = [S \in SUBSET (DOMAIN <<c>>) |->
                   IF S = {} THEN a ELSE OpenAIChoice(f[S \ {Max(S)}], <<c>>[Max(S)])]
               f == CHOOSE f : Fold(f)
               g == [S \in SUBSET {1} |-> IF S = {} THEN a ELSE OpenAIChoice(a, c)]
    <2>1. DOMAIN <<c>> = {1} /\ <<c>>[1] = c /\ {1} \ {1} = {}
        OBVIOUS
    <2>2. Max({1}) = 1
        BY DEF Max
    <2>3. Fold(g)
        <3> DEFINE h == [S \in SUBSET {1} |->
                   IF S = {} THEN a ELSE OpenAIChoice(g[S \ {Max(S)}], <<c>>[Max(S)])]
        <3>1. ASSUME NEW S \in SUBSET {1} PROVE g[S] = h[S]
            <4>1. CASE S = {}
                BY <4>1
            <4>2. CASE S = {1}
                <5>1. g[{1} \ {1}] = a
                    BY <2>1
                <5>2. h[S] = OpenAIChoice(g[{1} \ {1}], <<c>>[1])
                    <6> HIDE DEF g
                    <6> QED BY <2>1, <2>2, <4>2
                <5>3. g[S] = OpenAIChoice(a, c)
                    BY <4>2
                <5> QED BY <2>1, <5>1, <5>2, <5>3
            <4> QED BY <4>1, <4>2
        <3>2. g = h
            BY <3>1
        <3> QED BY <2>1, <3>2
    <2>4. Fold(f)
        <3> HIDE DEF Fold, g
        <3> QED BY <2>3
    <2>5. f[{}] = a /\ f[{1}] = OpenAIChoice(f[{1} \ {1}], <<c>>[1])
        <3> HIDE DEF f
        <3> QED BY <2>1, <2>2, <2>4
    <2>6. FoldLeft(OpenAIChoice, a, <<c>>) = f[DOMAIN <<c>>]
        BY DEF FoldLeft, MapThenFoldSet
    <2> HIDE DEF f
    <2> QED BY <2>1, <2>5, <2>6
<1>2. FoldLeft(OpenAIChoice, a, << >>) = a
    <2> DEFINE Fold(f) == f = [S \in SUBSET (DOMAIN << >>) |->
                   IF S = {} THEN a ELSE OpenAIChoice(f[S \ {Max(S)}], << >>[Max(S)])]
               f == CHOOSE f : Fold(f)
               g == [S \in SUBSET {} |-> a]
    <2>1. DOMAIN << >> = {} /\ SUBSET {} = {{}}
        OBVIOUS
    <2>2. Fold(g)
        BY <2>1
    <2>3. Fold(f)
        <3> HIDE DEF Fold, g
        <3> QED BY <2>2
    <2>4. f[{}] = a
        <3> HIDE DEF f
        <3> QED BY <2>1, <2>3
    <2>5. FoldLeft(OpenAIChoice, a, << >>) = f[DOMAIN << >>]
        BY DEF FoldLeft, MapThenFoldSet
    <2> HIDE DEF f
    <2> QED BY <2>1, <2>4, <2>5
<1> QED BY <1>1, <1>2

\* Folding the tool call fragments of a choice over a list of one, and over an empty one.
LEMMA FragmentsFolds ==
    ASSUME NEW a, NEW c
    PROVE  FoldLeft(AddFragment, a, <<c>>) = AddFragment(a, c) /\ FoldLeft(AddFragment, a, << >>) = a
<1> HIDE DEF AddFragment
<1>1. FoldLeft(AddFragment, a, <<c>>) = AddFragment(a, c)
    <2> DEFINE Fold(f) == f = [S \in SUBSET (DOMAIN <<c>>) |->
                   IF S = {} THEN a ELSE AddFragment(f[S \ {Max(S)}], <<c>>[Max(S)])]
               f == CHOOSE f : Fold(f)
               g == [S \in SUBSET {1} |-> IF S = {} THEN a ELSE AddFragment(a, c)]
    <2>1. DOMAIN <<c>> = {1} /\ <<c>>[1] = c /\ {1} \ {1} = {}
        OBVIOUS
    <2>2. Max({1}) = 1
        BY DEF Max
    <2>3. Fold(g)
        <3> DEFINE h == [S \in SUBSET {1} |->
                   IF S = {} THEN a ELSE AddFragment(g[S \ {Max(S)}], <<c>>[Max(S)])]
        <3>1. ASSUME NEW S \in SUBSET {1} PROVE g[S] = h[S]
            <4>1. CASE S = {}
                BY <4>1
            <4>2. CASE S = {1}
                <5>1. g[{1} \ {1}] = a
                    BY <2>1
                <5>2. h[S] = AddFragment(g[{1} \ {1}], <<c>>[1])
                    <6> HIDE DEF g
                    <6> QED BY <2>1, <2>2, <4>2
                <5>3. g[S] = AddFragment(a, c)
                    BY <4>2
                <5> QED BY <2>1, <5>1, <5>2, <5>3
            <4> QED BY <4>1, <4>2
        <3>2. g = h
            BY <3>1
        <3> QED BY <2>1, <3>2
    <2>4. Fold(f)
        <3> HIDE DEF Fold, g
        <3> QED BY <2>3
    <2>5. f[{}] = a /\ f[{1}] = AddFragment(f[{1} \ {1}], <<c>>[1])
        <3> HIDE DEF f
        <3> QED BY <2>1, <2>2, <2>4
    <2>6. FoldLeft(AddFragment, a, <<c>>) = f[DOMAIN <<c>>]
        BY DEF FoldLeft, MapThenFoldSet
    <2> HIDE DEF f
    <2> QED BY <2>1, <2>5, <2>6
<1>2. FoldLeft(AddFragment, a, << >>) = a
    <2> DEFINE Fold(f) == f = [S \in SUBSET (DOMAIN << >>) |->
                   IF S = {} THEN a ELSE AddFragment(f[S \ {Max(S)}], << >>[Max(S)])]
               f == CHOOSE f : Fold(f)
               g == [S \in SUBSET {} |-> a]
    <2>1. DOMAIN << >> = {} /\ SUBSET {} = {{}}
        OBVIOUS
    <2>2. Fold(g)
        BY <2>1
    <2>3. Fold(f)
        <3> HIDE DEF Fold, g
        <3> QED BY <2>2
    <2>4. f[{}] = a
        <3> HIDE DEF f
        <3> QED BY <2>1, <2>3
    <2>5. FoldLeft(AddFragment, a, << >>) = f[DOMAIN << >>]
        BY DEF FoldLeft, MapThenFoldSet
    <2> HIDE DEF f
    <2> QED BY <2>1, <2>4, <2>5
<1> QED BY <1>1, <1>2

\* Folding the parts of a chunk over a list of one, and over an empty one.
LEMMA PartsFolds ==
    ASSUME NEW a, NEW c
    PROVE  FoldLeft(GeminiPart, a, <<c>>) = GeminiPart(a, c) /\ FoldLeft(GeminiPart, a, << >>) = a
<1> HIDE DEF GeminiPart
<1>1. FoldLeft(GeminiPart, a, <<c>>) = GeminiPart(a, c)
    <2> DEFINE Fold(f) == f = [S \in SUBSET (DOMAIN <<c>>) |->
                   IF S = {} THEN a ELSE GeminiPart(f[S \ {Max(S)}], <<c>>[Max(S)])]
               f == CHOOSE f : Fold(f)
               g == [S \in SUBSET {1} |-> IF S = {} THEN a ELSE GeminiPart(a, c)]
    <2>1. DOMAIN <<c>> = {1} /\ <<c>>[1] = c /\ {1} \ {1} = {}
        OBVIOUS
    <2>2. Max({1}) = 1
        BY DEF Max
    <2>3. Fold(g)
        <3> DEFINE h == [S \in SUBSET {1} |->
                   IF S = {} THEN a ELSE GeminiPart(g[S \ {Max(S)}], <<c>>[Max(S)])]
        <3>1. ASSUME NEW S \in SUBSET {1} PROVE g[S] = h[S]
            <4>1. CASE S = {}
                BY <4>1
            <4>2. CASE S = {1}
                <5>1. g[{1} \ {1}] = a
                    BY <2>1
                <5>2. h[S] = GeminiPart(g[{1} \ {1}], <<c>>[1])
                    <6> HIDE DEF g
                    <6> QED BY <2>1, <2>2, <4>2
                <5>3. g[S] = GeminiPart(a, c)
                    BY <4>2
                <5> QED BY <2>1, <5>1, <5>2, <5>3
            <4> QED BY <4>1, <4>2
        <3>2. g = h
            BY <3>1
        <3> QED BY <2>1, <3>2
    <2>4. Fold(f)
        <3> HIDE DEF Fold, g
        <3> QED BY <2>3
    <2>5. f[{}] = a /\ f[{1}] = GeminiPart(f[{1} \ {1}], <<c>>[1])
        <3> HIDE DEF f
        <3> QED BY <2>1, <2>2, <2>4
    <2>6. FoldLeft(GeminiPart, a, <<c>>) = f[DOMAIN <<c>>]
        BY DEF FoldLeft, MapThenFoldSet
    <2> HIDE DEF f
    <2> QED BY <2>1, <2>5, <2>6
<1>2. FoldLeft(GeminiPart, a, << >>) = a
    <2> DEFINE Fold(f) == f = [S \in SUBSET (DOMAIN << >>) |->
                   IF S = {} THEN a ELSE GeminiPart(f[S \ {Max(S)}], << >>[Max(S)])]
               f == CHOOSE f : Fold(f)
               g == [S \in SUBSET {} |-> a]
    <2>1. DOMAIN << >> = {} /\ SUBSET {} = {{}}
        OBVIOUS
    <2>2. Fold(g)
        BY <2>1
    <2>3. Fold(f)
        <3> HIDE DEF Fold, g
        <3> QED BY <2>2
    <2>4. f[{}] = a
        <3> HIDE DEF f
        <3> QED BY <2>1, <2>3
    <2>5. FoldLeft(GeminiPart, a, << >>) = f[DOMAIN << >>]
        BY DEF FoldLeft, MapThenFoldSet
    <2> HIDE DEF f
    <2> QED BY <2>1, <2>4, <2>5
<1> QED BY <1>1, <1>2

----------------------------------------------------------------------------
(* Tool calls and their arguments *)

\* No arguments are among any.
LEMMA AmongNone ==
    ASSUME NEW all, NEW n PROVE Among(<< >>, all, n)
<1> DEFINE at == [k \in {} |-> k]
<1>1. at \in [DOMAIN << >> -> 1..n]
    OBVIOUS
<1> QED BY <1>1 DEF Among

\* All arguments are among all of them, in their order.
LEMMA AmongAll ==
    ASSUME NEW all \in Seq(Tokens) PROVE Among(all, all, Len(all))
<1> DEFINE at == [k \in 1..Len(all) |-> k]
<1>1. DOMAIN all = 1..Len(all) /\ at \in [DOMAIN all -> 1..Len(all)]
    OBVIOUS
<1>2. /\ \A k \in DOMAIN all : all[k] = all[at[k]]
      /\ \A j, k \in DOMAIN all : j < k => at[j] < at[k]
    BY <1>1
<1> HIDE DEF at
<1> QED BY <1>1, <1>2 DEF Among

\* What is among those sent stays so when more are sent.
LEMMA AmongMore ==
    ASSUME NEW args, NEW all, NEW n \in Nat, NEW m \in Nat, n <= m, Among(args, all, n)
    PROVE  Among(args, all, m)
<1>1. 1..n \subseteq 1..m
    OBVIOUS
<1>2. PICK at \in [DOMAIN args -> 1..n] :
          /\ \A k \in DOMAIN args : args[k] = all[at[k]]
          /\ \A j, k \in DOMAIN args : j < k => at[j] < at[k]
    BY DEF Among
<1>3. at \in [DOMAIN args -> 1..m]
    BY <1>1
<1> QED BY <1>2, <1>3 DEF Among

\* The argument sent last goes to the end.
LEMMA AmongNext ==
    ASSUME NEW args \in Seq(Tokens), NEW all \in Seq(Tokens), NEW n \in Nat, n < Len(all),
           Among(args, all, n)
    PROVE  Among(args \o <<all[n + 1]>>, all, n + 1)
<1> DEFINE l == Len(args)
           more == args \o <<all[n + 1]>>
<1>1. PICK at \in [DOMAIN args -> 1..n] :
          /\ \A k \in DOMAIN args : args[k] = all[at[k]]
          /\ \A j, k \in DOMAIN args : j < k => at[j] < at[k]
    BY DEF Among
<1>2. /\ l \in Nat /\ DOMAIN args = 1..l
      /\ DOMAIN more = 1..(l + 1)
      /\ \A k \in 1..l : more[k] = args[k]
      /\ more[l + 1] = all[n + 1]
    <2>1. all[n + 1] \in Tokens
        OBVIOUS
    <2> QED BY <2>1
<1> HIDE DEF l, more
<1> DEFINE to == [k \in 1..(l + 1) |-> IF k = l + 1 THEN n + 1 ELSE at[k]]
<1>3. /\ \A k \in 1..l : to[k] = at[k] /\ to[k] \in 1..n
      /\ to[l + 1] = n + 1
    BY <1>2
<1>4. to \in [DOMAIN more -> 1..(n + 1)]
    <2>1. ASSUME NEW k \in 1..(l + 1) PROVE to[k] \in 1..(n + 1)
        BY <1>2
    <2> QED BY <1>2, <2>1
<1> HIDE DEF to
<1>5. ASSUME NEW k \in DOMAIN more PROVE more[k] = all[to[k]]
    <2>1. CASE k = l + 1
        BY <1>2, <1>3, <2>1
    <2>2. CASE k # l + 1
        <3>1. k \in 1..l
            BY <1>2, <2>2
        <3> QED BY <1>1, <1>2, <1>3, <3>1
    <2> QED BY <2>1, <2>2
<1>6. ASSUME NEW j \in DOMAIN more, NEW k \in DOMAIN more, j < k PROVE to[j] < to[k]
    <2>1. j \in 1..l
        BY <1>2, <1>6
    <2>2. CASE k = l + 1
        BY <1>3, <2>1, <2>2
    <2>3. CASE k # l + 1
        <3>1. k \in 1..l
            BY <1>2, <2>3
        <3> QED BY <1>1, <1>2, <1>3, <1>6, <2>1, <3>1
    <2> QED BY <2>2, <2>3
<1>7. Among(more, all, n + 1)
    BY <1>4, <1>5, <1>6 DEF Among
<1> QED BY <1>7 DEF more

\* Tool calls fit a response of which more was sent.
LEMMA ToolsFitMore ==
    ASSUME NEW calls \in Seq(Nat), NEW more \in Seq(Nat), NEW tools, ToolsFit(calls, tools),
           DOMAIN calls \subseteq DOMAIN more,
           \A i \in DOMAIN calls : calls[i] <= more[i]
    PROVE  ToolsFit(more, tools)
<1>1. ASSUME NEW i \in DOMAIN tools PROVE Fits(more, tools[i])
    <2> DEFINE t == tools[i]
    <2>1. Fits(calls, t)
        BY DEF ToolsFit
    <2> HIDE DEF t
    <2>2. t.index \in DOMAIN calls /\ t.index \in DOMAIN more
        BY <2>1 DEF Fits
    <2>3. calls[t.index] \in Nat /\ more[t.index] \in Nat /\ calls[t.index] <= more[t.index]
        BY <2>2
    <2>4. Among(t.args, message.tools[t.index], more[t.index])
        BY <2>1, <2>3, AmongMore DEF Fits
    <2>5. Fits(more, t)
        BY <2>1, <2>2, <2>4 DEF Fits
    <2> QED BY <2>5 DEF t
<1> QED BY <1>1 DEF ToolsFit

\* A tool call of an index that no other has joins the others.
LEMMA ToolsFitAppend ==
    ASSUME NEW calls, NEW tools \in Seq(Tool), NEW t,
           ToolsFit(calls, tools), Fits(calls, t), SlotsAt(tools, t.index) = {}
    PROVE  ToolsFit(calls, Append(tools, t))
<1> DEFINE l == Len(tools)
           more == Append(tools, t)
<1>1. /\ l \in Nat /\ DOMAIN tools = 1..l /\ DOMAIN more = 1..(l + 1)
      /\ \A i \in 1..l : more[i] = tools[i]
      /\ more[l + 1] = t
    OBVIOUS
<1>2. \A i \in 1..l : tools[i].index # t.index
    BY <1>1 DEF SlotsAt
<1> HIDE DEF l, more
<1>3. ASSUME NEW i \in 1..(l + 1) PROVE Fits(calls, more[i])
    <2>1. CASE i = l + 1
        BY <1>1, <2>1
    <2>2. CASE i # l + 1
        <3>1. i \in 1..l
            BY <1>1, <2>2
        <3> QED BY <1>1, <3>1 DEF ToolsFit
    <2> QED BY <2>1, <2>2
<1>4. ASSUME NEW i \in 1..(l + 1), NEW j \in 1..(l + 1), more[i].index = more[j].index
      PROVE  i = j
    <2>1. \A k \in 1..(l + 1) : k # l + 1 => k \in 1..l
        BY <1>1
    <2>2. CASE i # l + 1 /\ j # l + 1
        BY <1>1, <1>4, <2>1, <2>2 DEF ToolsFit
    <2>3. CASE i = l + 1 /\ j # l + 1
        BY <1>1, <1>2, <1>4, <2>1, <2>3
    <2>4. CASE i # l + 1 /\ j = l + 1
        BY <1>1, <1>2, <1>4, <2>1, <2>4
    <2> QED BY <2>2, <2>3, <2>4
<1>5. ToolsFit(calls, more)
    BY <1>1, <1>3, <1>4 DEF ToolsFit
<1> QED BY <1>5 DEF more

\* A call that is begun is a new tool call.
LEMMA ToolsFitNew ==
    ASSUME NEW calls \in Seq(Nat), NEW n \in Nat, NEW tools \in Seq(Tool), NEW t,
           ToolsFit(calls, tools), t.index = Len(calls) + 1, Fits(Append(calls, n), t)
    PROVE  /\ ToolsFit(Append(calls, n), tools)
           /\ ToolsFit(Append(calls, n), Append(tools, t))
           /\ SlotsAt(tools, t.index) = {}
<1> DEFINE more == Append(calls, n)
<1>1. /\ more \in Seq(Nat) /\ DOMAIN calls = 1..Len(calls) /\ DOMAIN more = 1..(Len(calls) + 1)
      /\ Len(calls) \in Nat
      /\ \A i \in 1..Len(calls) : more[i] = calls[i] /\ calls[i] <= more[i]
    OBVIOUS
<1> HIDE DEF more
<1>2. ToolsFit(more, tools)
    BY <1>1, ToolsFitMore
<1>3. ASSUME NEW i \in DOMAIN tools PROVE tools[i].index # t.index
    <2>1. tools[i].index \in DOMAIN calls
        BY DEF ToolsFit, Fits
    <2> QED BY <1>1, <2>1
<1>4. SlotsAt(tools, t.index) = {}
    BY <1>3 DEF SlotsAt
<1> QED BY <1>2, <1>4, ToolsFitAppend DEF more

\* One more argument of call i was sent.
OneMore(calls, i) == [calls EXCEPT ![i] = @ + 1]

\* No count gets less, and only that of call i is another.
LEMMA OneMoreIsMore ==
    ASSUME NEW calls \in Seq(Nat), NEW i \in DOMAIN calls
    PROVE  /\ OneMore(calls, i) \in Seq(Nat)
           /\ DOMAIN OneMore(calls, i) = DOMAIN calls
           /\ Len(OneMore(calls, i)) = Len(calls)
           /\ \A j \in DOMAIN calls :
                /\ calls[j] <= OneMore(calls, i)[j]
                /\ OneMore(calls, i)[j] = IF j = i THEN calls[i] + 1 ELSE calls[j]
BY DEF OneMore

\* r is tools with x at the end of the arguments of call i, wherever it is.
Extends(r, tools, i, x) ==
    /\ DOMAIN r = DOMAIN tools
    /\ \A j \in DOMAIN tools :
         IF tools[j].index = i
         THEN /\ r[j].index = i /\ r[j].id = tools[j].id /\ r[j].name = tools[j].name
              /\ r[j].args = tools[j].args \o x
         ELSE r[j] = tools[j]

\* Wherever that call was extracted the argument goes to its end.
LEMMA ToolsFitArgument ==
    ASSUME message.tools \in Seq(Seq(Tokens)),
           NEW calls \in Seq(Nat), NEW i \in DOMAIN calls, NEW tools \in Seq(Tool), NEW r,
           i \in DOMAIN message.tools, calls[i] < Len(message.tools[i]),
           ToolsFit(calls, tools), Extends(r, tools, i, <<message.tools[i][calls[i] + 1]>>)
    PROVE  ToolsFit(OneMore(calls, i), r)
<1> DEFINE more == OneMore(calls, i)
<1>1. /\ more \in Seq(Nat) /\ DOMAIN more = DOMAIN calls /\ more[i] = calls[i] + 1
      /\ \A j \in DOMAIN calls : calls[j] <= more[j]
    BY OneMoreIsMore
<1> HIDE DEF more
<1>2. ToolsFit(more, tools)
    BY <1>1, ToolsFitMore
<1> USE DEF Extends
<1>3. ASSUME NEW j \in DOMAIN tools PROVE r[j].index = tools[j].index /\ Fits(more, r[j])
    <2>1. CASE tools[j].index = i
        <3> DEFINE all == message.tools[i]
        <3>1. calls[i] \in Nat /\ all \in Seq(Tokens) /\ tools[j].args \in Seq(Tokens)
            <4>1. calls[i] \in Nat
                OBVIOUS
            <4>2. all \in Seq(Tokens)
                OBVIOUS
            <4>3. tools[j] \in Tool
                OBVIOUS
            <4>4. tools[j].args \in Seq(Tokens)
                BY <4>3 DEF Tool
            <4> QED BY <4>1, <4>2, <4>4
        <3>2. Among(tools[j].args, all, calls[i])
            BY <2>1 DEF ToolsFit, Fits
        <3>3. Among(tools[j].args \o <<all[calls[i] + 1]>>, all, calls[i] + 1)
            BY <3>1, <3>2, AmongNext
        <3>4. r[j].index = i /\ Among(r[j].args, message.tools[i], more[i])
            BY <1>1, <2>1, <3>3
        <3>5. r[j].id \in {i, Null} /\ r[j].name = r[j].id
            BY <2>1 DEF ToolsFit, Fits
        <3> QED BY <1>1, <2>1, <3>4, <3>5 DEF Fits
    <2>2. CASE tools[j].index # i
        BY <1>2, <2>2 DEF ToolsFit
    <2> QED BY <2>1, <2>2
<1>4. ToolsFit(more, r)
    BY <1>3 DEF ToolsFit
<1> QED BY <1>4 DEF more

----------------------------------------------------------------------------
(* What a payload adds in each dialect *)

\* r is a after a payload that was understood.
Becomes(a, r, model, usage, content, thinking, tools, finish) ==
    /\ r \in Acc
    /\ r.model = model
    /\ r.input = usage.input /\ r.output = usage.output /\ r.total = usage.total
    /\ r.content = content
    /\ r.thinking = thinking
    /\ r.tools = tools
    /\ r.finish = finish
    /\ r.seen = TRUE /\ r.garbled = a.garbled /\ r.raised = a.raised

\* A result that a payload was seen of.
LEMMA Sees ==
    ASSUME NEW a \in Acc
    PROVE  Becomes(a, [a EXCEPT !.seen = TRUE], a.model, a, a.content, a.thinking, a.tools,
                   a.finish)
BY DEF Acc, Becomes

\* Its model is given.
LEMMA Names ==
    ASSUME NEW a, NEW b, NEW model, NEW u, NEW content, NEW thinking, NEW tools, NEW finish,
           Becomes(a, b, model, u, content, thinking, tools, finish), NEW x \in {"model", Null}
    PROVE  Becomes(a, [b EXCEPT !.model = Or(x, @)], Or(x, model), u, content, thinking, tools, finish)
<1> DEFINE r == [b EXCEPT !.model = Or(x, @)]
<1>1. b \in Acc
    BY DEF Becomes
<1>2. Or(x, b.model) \in {"model", Null}
    BY <1>1 DEF Acc, Or
<1>3. r \in Acc
    BY <1>1, <1>2 DEF Acc
<1>4. /\ r.model = Or(x, b.model)
      /\ r.input = b.input /\ r.output = b.output /\ r.total = b.total
      /\ r.content = b.content /\ r.thinking = b.thinking
      /\ r.tools = b.tools /\ r.finish = b.finish
      /\ r.seen = b.seen /\ r.garbled = b.garbled /\ r.raised = b.raised
    BY <1>1, <1>2 DEF Acc
<1> HIDE DEF r
<1>5. Becomes(a, r, Or(x, model), u, content, thinking, tools, finish)
    BY <1>3, <1>4 DEF Becomes
<1> QED BY <1>5 DEF r

\* Its finish reason is given.
LEMMA Ends ==
    ASSUME NEW a, NEW b, NEW model, NEW u, NEW content, NEW thinking, NEW tools, NEW finish,
           Becomes(a, b, model, u, content, thinking, tools, finish), NEW x \in {"stop", Null}
    PROVE  Becomes(a, [b EXCEPT !.finish = Or(x, @)], model, u, content, thinking, tools, Or(x, finish))
<1> DEFINE r == [b EXCEPT !.finish = Or(x, @)]
<1>1. b \in Acc
    BY DEF Becomes
<1>2. Or(x, b.finish) \in {"stop", Null}
    BY <1>1 DEF Acc, Or
<1>3. r \in Acc
    BY <1>1, <1>2 DEF Acc
<1>4. /\ r.model = b.model
      /\ r.input = b.input /\ r.output = b.output /\ r.total = b.total
      /\ r.content = b.content /\ r.thinking = b.thinking
      /\ r.tools = b.tools /\ r.finish = Or(x, b.finish)
      /\ r.seen = b.seen /\ r.garbled = b.garbled /\ r.raised = b.raised
    BY <1>1, <1>2 DEF Acc
<1> HIDE DEF r
<1>5. Becomes(a, r, model, u, content, thinking, tools, Or(x, finish))
    BY <1>3, <1>4 DEF Becomes
<1> QED BY <1>5 DEF r

\* It gets more text.
LEMMA Speaks ==
    ASSUME NEW a, NEW b, NEW model, NEW u, NEW content, NEW thinking, NEW tools, NEW finish,
           Becomes(a, b, model, u, content, thinking, tools, finish), NEW x \in Seq(Tokens)
    PROVE  Becomes(a, [b EXCEPT !.content = @ \o x], model, u, content \o x, thinking, tools, finish)
<1> DEFINE r == [b EXCEPT !.content = @ \o x]
<1>1. b \in Acc
    BY DEF Becomes
<1>2. b.content \o x \in Seq(Tokens)
    BY <1>1 DEF Acc, Or
<1>3. r \in Acc
    BY <1>1, <1>2 DEF Acc
<1>4. /\ r.model = b.model
      /\ r.input = b.input /\ r.output = b.output /\ r.total = b.total
      /\ r.content = b.content \o x /\ r.thinking = b.thinking
      /\ r.tools = b.tools /\ r.finish = b.finish
      /\ r.seen = b.seen /\ r.garbled = b.garbled /\ r.raised = b.raised
    BY <1>1, <1>2 DEF Acc
<1> HIDE DEF r
<1>5. Becomes(a, r, model, u, content \o x, thinking, tools, finish)
    BY <1>3, <1>4 DEF Becomes
<1> QED BY <1>5 DEF r

\* It gets more thoughts.
LEMMA Thinks ==
    ASSUME NEW a, NEW b, NEW model, NEW u, NEW content, NEW thinking, NEW tools, NEW finish,
           Becomes(a, b, model, u, content, thinking, tools, finish), NEW x \in Seq(Tokens)
    PROVE  Becomes(a, [b EXCEPT !.thinking = @ \o x], model, u, content, thinking \o x, tools, finish)
<1> DEFINE r == [b EXCEPT !.thinking = @ \o x]
<1>1. b \in Acc
    BY DEF Becomes
<1>2. b.thinking \o x \in Seq(Tokens)
    BY <1>1 DEF Acc, Or
<1>3. r \in Acc
    BY <1>1, <1>2 DEF Acc
<1>4. /\ r.model = b.model
      /\ r.input = b.input /\ r.output = b.output /\ r.total = b.total
      /\ r.content = b.content /\ r.thinking = b.thinking \o x
      /\ r.tools = b.tools /\ r.finish = b.finish
      /\ r.seen = b.seen /\ r.garbled = b.garbled /\ r.raised = b.raised
    BY <1>1, <1>2 DEF Acc
<1> HIDE DEF r
<1>5. Becomes(a, r, model, u, content, thinking \o x, tools, finish)
    BY <1>3, <1>4 DEF Becomes
<1> QED BY <1>5 DEF r

\* It gets other tool calls.
LEMMA Uses ==
    ASSUME NEW a, NEW b, NEW model, NEW u, NEW content, NEW thinking, NEW tools, NEW finish,
           Becomes(a, b, model, u, content, thinking, tools, finish), NEW x \in Seq(Tool)
    PROVE  Becomes(a, [b EXCEPT !.tools = x], model, u, content, thinking, x, finish)
<1> DEFINE r == [b EXCEPT !.tools = x]
<1>1. b \in Acc
    BY DEF Becomes
<1>2. x \in Seq(Tool)
    BY <1>1 DEF Acc, Or
<1>3. r \in Acc
    BY <1>1, <1>2 DEF Acc
<1>4. /\ r.model = b.model
      /\ r.input = b.input /\ r.output = b.output /\ r.total = b.total
      /\ r.content = b.content /\ r.thinking = b.thinking
      /\ r.tools = x /\ r.finish = b.finish
      /\ r.seen = b.seen /\ r.garbled = b.garbled /\ r.raised = b.raised
    BY <1>1, <1>2 DEF Acc
<1> HIDE DEF r
<1>5. Becomes(a, r, model, u, content, thinking, x, finish)
    BY <1>3, <1>4 DEF Becomes
<1> QED BY <1>5 DEF r

\* It gets the usage of a provider that counts the total.
LEMMA UsageGives ==
    ASSUME NEW a, NEW b, NEW model, NEW u, NEW content, NEW thinking, NEW tools, NEW finish,
           Becomes(a, b, model, u, content, thinking, tools, finish), NEW v,
           v.input \in Numbers, v.output \in Numbers, v.total \in Numbers
    PROVE  Becomes(a, UsageGiven(v, b), model,
                   [input |-> Or(v.input, u.input), output |-> Or(v.output, u.output),
                    total |-> Or(v.total, u.total)],
                   content, thinking, tools, finish)
<1> DEFINE r == UsageGiven(v, b)
           w == [input |-> Or(v.input, u.input), output |-> Or(v.output, u.output),
                 total |-> Or(v.total, u.total)]
<1>1. b \in Acc
    BY DEF Becomes
<1>2. /\ r \in Acc
      /\ r.model = b.model
      /\ r.input = Or(v.input, b.input) /\ r.output = Or(v.output, b.output)
      /\ r.total = Or(v.total, b.total)
      /\ r.content = b.content /\ r.thinking = b.thinking /\ r.tools = b.tools
      /\ r.finish = b.finish
      /\ r.seen = b.seen /\ r.garbled = b.garbled /\ r.raised = b.raised
    BY <1>1 DEF Acc, Or, UsageGiven
<1> HIDE DEF r
<1>3. Becomes(a, r, model, w, content, thinking, tools, finish)
    BY <1>2 DEF Becomes
<1> QED BY <1>3 DEF r

\* It gets the usage of one that does not: the total is the sum.
LEMMA UsageSums ==
    ASSUME NEW a, NEW b, NEW model, NEW u, NEW content, NEW thinking, NEW tools, NEW finish,
           Becomes(a, b, model, u, content, thinking, tools, finish), NEW v,
           v.input \in Numbers, v.output \in Numbers
    PROVE  LET i == Or(v.input, u.input)
               o == Or(v.output, u.output)
           IN  Becomes(a, UsageSummed(v, b), model,
                       [input |-> i, output |-> o,
                        total |-> IF i # Null /\ o # Null THEN i + o ELSE u.total],
                       content, thinking, tools, finish)
<1> DEFINE i == Or(v.input, u.input)
           o == Or(v.output, u.output)
           t == IF i # Null /\ o # Null THEN i + o ELSE u.total
           r == UsageSummed(v, b)
           w == [input |-> i, output |-> o, total |-> t]
<1>1. b \in Acc /\ u.input = b.input /\ u.output = b.output /\ u.total = b.total
    BY DEF Becomes
<1>2. i \in Numbers /\ o \in Numbers /\ t \in Numbers
    BY <1>1, ParsersAssumption DEF Acc, Or, Numbers
<1>3. r = [b EXCEPT !.input = i, !.output = o, !.total = t]
    <2>1. /\ Or(v.input, b.input) = i /\ Or(v.output, b.output) = o
          /\ t = IF i # Null /\ o # Null THEN i + o ELSE b.total
        BY <1>1
    <2> HIDE DEF i, o, t
    <2> QED BY <1>1, <2>1 DEF UsageSummed, Acc
<1> HIDE DEF i, o, t, r
<1>4. /\ r \in Acc
      /\ r.model = b.model
      /\ r.input = i /\ r.output = o /\ r.total = t
      /\ r.content = b.content /\ r.thinking = b.thinking /\ r.tools = b.tools
      /\ r.finish = b.finish
      /\ r.seen = b.seen /\ r.garbled = b.garbled /\ r.raised = b.raised
    BY <1>1, <1>2, <1>3 DEF Acc
<1>5. Becomes(a, r, model, w, content, thinking, tools, finish)
    BY <1>4 DEF Becomes
<1> QED BY <1>5 DEF r, i, o, t

\* A payload of OpenAI with a choice.
LEMMA OpenAIParsed ==
    ASSUME NEW a \in Acc, NEW content \in Seq(Tokens), NEW fragments,
           NEW finish \in {"stop", Null}, dialect = "openai",
           NEW tools \in Seq(Tool), tools = FoldLeft(AddFragment, a.tools, fragments)
    PROVE  Becomes(a, Parse(a, OpenAIPayload(content, fragments, finish)), "model", a,
                   a.content \o content, a.thinking, tools, Or(finish, a.finish))
<1> DEFINE b == [a EXCEPT !.seen = TRUE]
           c == [b EXCEPT !.model = Or("model", @)]
           d == UsageGiven(NoUsage, c)
           choice == [content |-> content, fragments |-> fragments, finish |-> finish]
           r == OpenAIChoice(d, choice)
<1>1. Parse(a, OpenAIPayload(content, fragments, finish)) = r
    BY ChoicesFolds DEF Parse, OpenAIChunk, OpenAIPayload
<1>2. Becomes(a, b, a.model, a, a.content, a.thinking, a.tools, a.finish)
    BY Sees
<1> HIDE DEF b
<1>3. Becomes(a, c, "model", a, a.content, a.thinking, a.tools, a.finish)
    BY <1>2, Names, ParsersAssumption DEF Or
<1> HIDE DEF c
<1>4. Becomes(a, d, "model", a, a.content, a.thinking, a.tools, a.finish)
    <2> DEFINE u == [input |-> Or(NoUsage.input, a.input), output |-> Or(NoUsage.output, a.output),
                     total |-> Or(NoUsage.total, a.total)]
    <2>1. NoUsage.input \in Numbers /\ NoUsage.output \in Numbers /\ NoUsage.total \in Numbers
        BY DEF NoUsage, Numbers
    <2>2. Becomes(a, d, "model", u, a.content, a.thinking, a.tools, a.finish)
        BY <1>3, <2>1, UsageGives
    <2>3. u.input = a.input /\ u.output = a.output /\ u.total = a.total
        BY DEF NoUsage, Or
    <2> HIDE DEF d, u
    <2> QED BY <2>2, <2>3 DEF Becomes
<1> HIDE DEF d
<1> DEFINE e == [d EXCEPT !.content = @ \o content]
           f == [e EXCEPT !.tools = tools]
<1>5. Becomes(a, e, "model", a, a.content \o content, a.thinking, a.tools, a.finish)
    BY <1>4, Speaks
<1>6. r = [f EXCEPT !.finish = Or(finish, @)]
    <2>1. d.tools = a.tools
        BY <1>4 DEF Becomes
    <2> QED BY <2>1 DEF OpenAIChoice
<1> HIDE DEF e
<1>7. Becomes(a, f, "model", a, a.content \o content, a.thinking, tools, a.finish)
    BY <1>5, Uses
<1> HIDE DEF f, r
<1>8. Becomes(a, r, "model", a, a.content \o content, a.thinking, tools, Or(finish, a.finish))
    BY <1>6, <1>7, Ends
<1> QED BY <1>1, <1>8 DEF r

\* OpenAI's last chunk has the usage and no choice.
LEMMA OpenAIClosed ==
    ASSUME NEW a \in Acc, dialect = "openai"
    PROVE  Becomes(a, Parse(a, ClosePayload), "model", Usage, a.content, a.thinking, a.tools,
                   a.finish)
<1> DEFINE b == [a EXCEPT !.seen = TRUE]
           c == [b EXCEPT !.model = Or("model", @)]
           d == UsageGiven(Usage, c)
           u == [input |-> Or(Usage.input, a.input), output |-> Or(Usage.output, a.output),
                 total |-> Or(Usage.total, a.total)]
<1>1. Parse(a, ClosePayload) = d
    BY ChoicesFolds DEF Parse, OpenAIChunk, ClosePayload
<1>2. Becomes(a, b, a.model, a, a.content, a.thinking, a.tools, a.finish)
    BY Sees
<1> HIDE DEF b
<1>3. Becomes(a, c, "model", a, a.content, a.thinking, a.tools, a.finish)
    BY <1>2, Names, ParsersAssumption DEF Or
<1> HIDE DEF c
<1>4. Usage.input \in Numbers /\ Usage.output \in Numbers /\ Usage.total \in Numbers
    BY DEF Usage, Numbers
<1>5. Becomes(a, d, "model", u, a.content, a.thinking, a.tools, a.finish)
    BY <1>3, <1>4, UsageGives
<1>6. u.input = Usage.input /\ u.output = Usage.output /\ u.total = Usage.total
    BY ParsersAssumption DEF Or, Usage
<1> HIDE DEF d, u
<1> QED BY <1>1, <1>5, <1>6 DEF Becomes

\* A payload of Gemini: without a part, and with one.
LEMMA GeminiParsed ==
    ASSUME NEW a \in Acc, NEW u, NEW finish \in {"stop", Null}, dialect = "gemini",
           u.input \in Numbers, u.output \in Numbers, u.total \in Numbers
    PROVE  LET w == [input |-> Or(u.input, a.input), output |-> Or(u.output, a.output),
                     total |-> Or(u.total, a.total)]
           IN  /\ Becomes(a, Parse(a, GeminiPayload(<< >>, u, finish)), "model", w,
                          a.content, a.thinking, a.tools, Or(finish, a.finish))
               /\ \A thought \in BOOLEAN, text \in Seq(Tokens), calls \in Seq(Tool) :
                    Becomes(a, Parse(a, GeminiPayload(<<Part(thought, text, calls)>>, u, finish)),
                            "model", w,
                            IF thought THEN a.content ELSE a.content \o text,
                            IF thought THEN a.thinking \o text ELSE a.thinking,
                            a.tools \o calls, Or(finish, a.finish))
<1> DEFINE w == [input |-> Or(u.input, a.input), output |-> Or(u.output, a.output),
                 total |-> Or(u.total, a.total)]
           b == [a EXCEPT !.seen = TRUE]
           c == [b EXCEPT !.model = Or("model", @)]
           d == [c EXCEPT !.finish = Or(finish, @)]
           e == UsageGiven(u, d)
<1>1. /\ Parse(a, GeminiPayload(<< >>, u, finish)) = e
      /\ \A part : Parse(a, GeminiPayload(<<part>>, u, finish)) = GeminiPart(e, part)
    BY PartsFolds DEF Parse, GeminiChunk, GeminiPayload
<1>2. Becomes(a, b, a.model, a, a.content, a.thinking, a.tools, a.finish)
    BY Sees
<1> HIDE DEF b
<1>3. Becomes(a, c, "model", a, a.content, a.thinking, a.tools, a.finish)
    BY <1>2, Names, ParsersAssumption DEF Or
<1> HIDE DEF c
<1>4. Becomes(a, d, "model", a, a.content, a.thinking, a.tools, Or(finish, a.finish))
    BY <1>3, Ends
<1> HIDE DEF d
<1>5. Becomes(a, e, "model", w, a.content, a.thinking, a.tools, Or(finish, a.finish))
    BY <1>4, UsageGives
<1> HIDE DEF e, w
<1>6. ASSUME NEW thought \in BOOLEAN, NEW text \in Seq(Tokens), NEW calls \in Seq(Tool)
      PROVE  Becomes(a, GeminiPart(e, Part(thought, text, calls)), "model", w,
                     IF thought THEN a.content ELSE a.content \o text,
                     IF thought THEN a.thinking \o text ELSE a.thinking,
                     a.tools \o calls, Or(finish, a.finish))
    <2>1. a.tools \o calls \in Seq(Tool)
        BY DEF Acc
    <2>2. CASE thought = TRUE
        <3> DEFINE f == [e EXCEPT !.thinking = @ \o text]
                   tools == a.tools \o calls
        <3>1. Becomes(a, f, "model", w, a.content, a.thinking \o text, a.tools, Or(finish, a.finish))
            BY <1>5, Thinks
        <3>2. GeminiPart(e, Part(thought, text, calls)) = [f EXCEPT !.tools = @ \o calls]
            BY <2>2 DEF GeminiPart, Part
        <3> HIDE DEF f
        <3>3. f.tools = a.tools
            BY <3>1 DEF Becomes
        <3>4. GeminiPart(e, Part(thought, text, calls)) = [f EXCEPT !.tools = tools]
            BY <3>2, <3>3
        <3> HIDE DEF tools
        <3>5. Becomes(a, [f EXCEPT !.tools = tools], "model", w, a.content, a.thinking \o text, tools,
                      Or(finish, a.finish))
            BY <2>1, <3>1, Uses DEF tools
        <3>6. /\ (IF thought THEN a.content ELSE a.content \o text) = a.content
              /\ (IF thought THEN a.thinking \o text ELSE a.thinking) = a.thinking \o text
            BY <2>2
        <3>7. Becomes(a, GeminiPart(e, Part(thought, text, calls)), "model", w, a.content, a.thinking \o text, tools,
                      Or(finish, a.finish))
            BY <3>4, <3>5
        <3> QED BY <3>6, <3>7 DEF tools
    <2>3. CASE thought = FALSE
        <3> DEFINE f == [e EXCEPT !.content = @ \o text]
                   tools == a.tools \o calls
        <3>1. Becomes(a, f, "model", w, a.content \o text, a.thinking, a.tools, Or(finish, a.finish))
            BY <1>5, Speaks
        <3>2. GeminiPart(e, Part(thought, text, calls)) = [f EXCEPT !.tools = @ \o calls]
            BY <2>3 DEF GeminiPart, Part
        <3> HIDE DEF f
        <3>3. f.tools = a.tools
            BY <3>1 DEF Becomes
        <3>4. GeminiPart(e, Part(thought, text, calls)) = [f EXCEPT !.tools = tools]
            BY <3>2, <3>3
        <3> HIDE DEF tools
        <3>5. Becomes(a, [f EXCEPT !.tools = tools], "model", w, a.content \o text, a.thinking, tools,
                      Or(finish, a.finish))
            BY <2>1, <3>1, Uses DEF tools
        <3>6. /\ (IF thought THEN a.content ELSE a.content \o text) = a.content \o text
              /\ (IF thought THEN a.thinking \o text ELSE a.thinking) = a.thinking
            BY <2>3
        <3>7. Becomes(a, GeminiPart(e, Part(thought, text, calls)), "model", w, a.content \o text, a.thinking, tools,
                      Or(finish, a.finish))
            BY <3>4, <3>5
        <3> QED BY <3>6, <3>7 DEF tools
    <2> QED BY <2>2, <2>3
<1> QED BY <1>1, <1>5, <1>6 DEF w

\* A line of Ollama: before the last one, and the last one.
LEMMA OllamaParsed ==
    ASSUME NEW a \in Acc, NEW content \in Seq(Tokens), NEW calls \in Seq(Tool),
           dialect = "ollama"
    PROVE  /\ Becomes(a, Parse(a, OllamaPayload(content, calls, FALSE)), "model", a,
                      a.content \o content, a.thinking, a.tools \o calls, a.finish)
           /\ Becomes(a, Parse(a, OllamaPayload(content, calls, TRUE)), "model", Usage,
                      a.content \o content, a.thinking, a.tools \o calls, "stop")
<1> DEFINE tools == a.tools \o calls
           b == [a EXCEPT !.seen = TRUE]
           c == [b EXCEPT !.model = Or("model", @)]
           d == [c EXCEPT !.content = @ \o content]
           e == [d EXCEPT !.tools = tools]
           f == [e EXCEPT !.finish = Or("stop", @)]
           g == UsageSummed(Usage, f)
<1>1. Becomes(a, b, a.model, a, a.content, a.thinking, a.tools, a.finish)
    BY Sees
<1>2. b.tools = a.tools
    BY <1>1 DEF Becomes
<1>3. /\ Parse(a, OllamaPayload(content, calls, FALSE)) = e
      /\ Parse(a, OllamaPayload(content, calls, TRUE)) = g
    BY <1>2 DEF Parse, OllamaLine, OllamaPayload
<1> HIDE DEF b
<1>4. Becomes(a, c, "model", a, a.content, a.thinking, a.tools, a.finish)
    BY <1>1, Names, ParsersAssumption DEF Or
<1> HIDE DEF c
<1>5. Becomes(a, d, "model", a, a.content \o content, a.thinking, a.tools, a.finish)
    BY <1>4, Speaks
<1> HIDE DEF d
<1>6. tools \in Seq(Tool)
    BY DEF Acc
<1> HIDE DEF tools
<1>7. Becomes(a, e, "model", a, a.content \o content, a.thinking, tools, a.finish)
    BY <1>5, <1>6, Uses
<1> HIDE DEF e
<1>8. Becomes(a, f, "model", a, a.content \o content, a.thinking, tools, "stop")
    BY <1>7, Ends, ParsersAssumption DEF Or
<1> HIDE DEF f
<1> DEFINE i == Or(Usage.input, a.input)
           o == Or(Usage.output, a.output)
           u == [input |-> i, output |-> o,
                 total |-> IF i # Null /\ o # Null THEN i + o ELSE a.total]
<1>9. Usage.input \in Numbers /\ Usage.output \in Numbers
    BY DEF Usage, Numbers
<1>10. Becomes(a, g, "model", u, a.content \o content, a.thinking, tools, "stop")
    BY <1>8, <1>9, UsageSums
<1>11. u.input = Usage.input /\ u.output = Usage.output /\ u.total = Usage.total
    BY ParsersAssumption DEF Or, Usage
<1> HIDE DEF g, u
<1>12. Becomes(a, g, "model", Usage, a.content \o content, a.thinking, tools, "stop")
    BY <1>10, <1>11 DEF Becomes
<1> QED BY <1>3, <1>7, <1>12 DEF tools

\* The first event of Anthropic, and the last but one.
LEMMA AnthropicCounted ==
    ASSUME NEW a \in Acc, dialect = "anthropic"
    PROVE  /\ a.input = Null /\ a.output = Null =>
                Becomes(a, Parse(a, BeginPayload), "model",
                        [input |-> 5, output |-> 1, total |-> 6],
                        a.content, a.thinking, a.tools, a.finish)
           /\ a.input = 5 =>
                Becomes(a, Parse(a, FinishPayload), a.model, Usage,
                        a.content, a.thinking, a.tools, "stop")
           /\ Parse(a, BeginPayload) \in Acc
           /\ Parse(a, BeginPayload).tools = a.tools
           /\ Parse(a, BeginPayload).garbled = a.garbled
           /\ Parse(a, BeginPayload).raised = a.raised
           /\ Parse(a, FinishPayload) \in Acc
           /\ Parse(a, FinishPayload).tools = a.tools
           /\ Parse(a, FinishPayload).garbled = a.garbled
           /\ Parse(a, FinishPayload).raised = a.raised
<1> DEFINE b == [a EXCEPT !.seen = TRUE]
           c == [b EXCEPT !.model = Or("model", @)]
           d == [b EXCEPT !.finish = Or("stop", @)]
           v == [NoUsage EXCEPT !.input = 5, !.output = 1]
           w == [NoUsage EXCEPT !.output = 3]
           e == UsageSummed(v, c)
           f == UsageSummed(w, d)
<1>1. Becomes(a, b, a.model, a, a.content, a.thinking, a.tools, a.finish)
    BY Sees
<1>2. Parse(a, BeginPayload) = e /\ Parse(a, FinishPayload) = f
    BY DEF Parse, AnthropicEvent, BeginPayload, FinishPayload
<1> HIDE DEF b
<1>3. Becomes(a, c, "model", a, a.content, a.thinking, a.tools, a.finish)
    BY <1>1, Names, ParsersAssumption DEF Or
<1>4. Becomes(a, d, a.model, a, a.content, a.thinking, a.tools, "stop")
    BY <1>1, Ends, ParsersAssumption DEF Or
<1>5. /\ v.input = 5 /\ v.output = 1 /\ v.input \in Numbers /\ v.output \in Numbers
      /\ w.input = Null /\ w.output = 3 /\ w.input \in Numbers /\ w.output \in Numbers
    BY DEF NoUsage, Numbers
<1> HIDE DEF c, d, v, w
<1> DEFINE i == Or(v.input, a.input)
           o == Or(v.output, a.output)
           t == [input |-> i, output |-> o,
                 total |-> IF i # Null /\ o # Null THEN i + o ELSE a.total]
           j == Or(w.input, a.input)
           p == Or(w.output, a.output)
           u == [input |-> j, output |-> p,
                 total |-> IF j # Null /\ p # Null THEN j + p ELSE a.total]
<1>6. Becomes(a, e, "model", t, a.content, a.thinking, a.tools, a.finish)
    BY <1>3, <1>5, UsageSums
<1>7. Becomes(a, f, a.model, u, a.content, a.thinking, a.tools, "stop")
    BY <1>4, <1>5, UsageSums
<1>8. t.input = 5 /\ t.output = 1 /\ t.total = 6
    BY <1>5, ParsersAssumption DEF Or
<1>9. a.input = 5 => u.input = Usage.input /\ u.output = Usage.output /\ u.total = Usage.total
    BY <1>5, ParsersAssumption DEF Or, Usage
<1> HIDE DEF e, f, t, u
<1> QED BY <1>2, <1>6, <1>7, <1>8, <1>9 DEF Becomes

\* Its events in between, and the very last.
LEMMA AnthropicParsed ==
    ASSUME NEW a \in Acc, dialect = "anthropic"
    PROVE  /\ Becomes(a, Parse(a, ClosePayload), a.model, a, a.content, a.thinking, a.tools,
                      a.finish)
           /\ \A x \in Seq(Tokens), i \in Nat :
                /\ Becomes(a, Parse(a, Delta("text", i, x)), a.model, a, a.content \o x,
                           a.thinking, a.tools, a.finish)
                /\ Becomes(a, Parse(a, Delta("thinking", i, x)), a.model, a, a.content,
                           a.thinking \o x, a.tools, a.finish)
           /\ \A x \in Seq(Tokens), i \in Nat, tools \in Seq(Tool) :
                tools = ExtendInput(a.tools, i, x)
                => Becomes(a, Parse(a, Delta("input_json", i, x)), a.model, a, a.content,
                           a.thinking, tools, a.finish)
           /\ \A t \in Tool : SlotsAt(a.tools, t.index) = {} =>
                Becomes(a, Parse(a, [event |-> "tool_use_start", block |-> t]), a.model, a,
                        a.content, a.thinking, Append(a.tools, t), a.finish)
<1> DEFINE b == [a EXCEPT !.seen = TRUE]
<1>1. Becomes(a, b, a.model, a, a.content, a.thinking, a.tools, a.finish)
    BY Sees
<1>2. ASSUME NEW e PROVE Parse(a, e) = AnthropicEvent(b, e)
    BY DEF Parse
<1>3. b.tools = a.tools
    BY <1>1 DEF Becomes
<1> HIDE DEF b
<1>4. Becomes(a, Parse(a, ClosePayload), a.model, a, a.content, a.thinking, a.tools, a.finish)
    <2>1. Parse(a, ClosePayload) = AnthropicEvent(b, ClosePayload)
        BY <1>2
    <2>2. AnthropicEvent(b, ClosePayload) = b
        BY DEF AnthropicEvent, ClosePayload
    <2> QED BY <1>1, <2>1, <2>2
<1>5. ASSUME NEW k \in {"text", "thinking", "input_json"}, NEW x, NEW i
      PROVE  /\ Parse(a, Delta(k, i, x)) = BlockDelta(b, Delta(k, i, x))
             /\ Delta(k, i, x).delta = k
             /\ Delta(k, i, x).index = i
             /\ Delta(k, i, x).tokens = x
    <2> DEFINE e == Delta(k, i, x)
    <2>1. e.event = "content_block_delta" /\ e.delta = k /\ e.index = i /\ e.tokens = x
        BY DEF Delta
    <2> HIDE DEF e
    <2>2. AnthropicEvent(b, e) = BlockDelta(b, e)
        BY <2>1 DEF AnthropicEvent
    <2>3. Parse(a, e) = BlockDelta(b, e)
        BY <1>2, <2>2
    <2> QED BY <2>1, <2>3 DEF e
<1>6. ASSUME NEW x \in Seq(Tokens), NEW i \in Nat
      PROVE  Becomes(a, Parse(a, Delta("text", i, x)), a.model, a, a.content \o x,
                     a.thinking, a.tools, a.finish)
    <2> DEFINE e == Delta("text", i, x)
    <2>1. Parse(a, e) = BlockDelta(b, e) /\ e.delta = "text" /\ e.tokens = x
        BY <1>5
    <2> HIDE DEF e
    <2>2. BlockDelta(b, e) = [b EXCEPT !.content = @ \o x]
        BY <2>1 DEF BlockDelta
    <2>3. Becomes(a, [b EXCEPT !.content = @ \o x], a.model, a, a.content \o x,
                  a.thinking, a.tools, a.finish)
        BY <1>1, Speaks
    <2>4. Becomes(a, Parse(a, e), a.model, a, a.content \o x, a.thinking, a.tools, a.finish)
        BY <2>1, <2>2, <2>3
    <2> QED BY <2>4 DEF e
<1>7. ASSUME NEW x \in Seq(Tokens), NEW i \in Nat
      PROVE  Becomes(a, Parse(a, Delta("thinking", i, x)), a.model, a, a.content,
                     a.thinking \o x, a.tools, a.finish)
    <2> DEFINE e == Delta("thinking", i, x)
    <2>1. Parse(a, e) = BlockDelta(b, e) /\ e.delta = "thinking" /\ e.tokens = x
        BY <1>5
    <2> HIDE DEF e
    <2>2. BlockDelta(b, e) = [b EXCEPT !.thinking = @ \o x]
        BY <2>1 DEF BlockDelta
    <2>3. Becomes(a, [b EXCEPT !.thinking = @ \o x], a.model, a, a.content,
                  a.thinking \o x, a.tools, a.finish)
        BY <1>1, Thinks
    <2>4. Becomes(a, Parse(a, e), a.model, a, a.content, a.thinking \o x, a.tools, a.finish)
        BY <2>1, <2>2, <2>3
    <2> QED BY <2>4 DEF e
<1>8. ASSUME NEW x \in Seq(Tokens), NEW i \in Nat, NEW tools \in Seq(Tool),
             tools = ExtendInput(a.tools, i, x)
      PROVE  Becomes(a, Parse(a, Delta("input_json", i, x)), a.model, a, a.content,
                     a.thinking, tools, a.finish)
    <2> DEFINE e == Delta("input_json", i, x)
    <2>1. Parse(a, e) = BlockDelta(b, e) /\ e.delta = "input_json" /\ e.tokens = x /\ e.index = i
        BY <1>5
    <2> HIDE DEF e
    <2>2. BlockDelta(b, e) = [b EXCEPT !.tools = ExtendInput(@, i, x)]
        BY <2>1 DEF BlockDelta
    <2>3. BlockDelta(b, e) = [b EXCEPT !.tools = tools]
        BY <1>3, <1>8, <2>2
    <2>4. Becomes(a, [b EXCEPT !.tools = tools], a.model, a, a.content, a.thinking, tools,
                  a.finish)
        BY <1>1, Uses
    <2>5. Becomes(a, Parse(a, e), a.model, a, a.content, a.thinking, tools, a.finish)
        BY <2>1, <2>3, <2>4
    <2> QED BY <2>5 DEF e
<1>9. ASSUME NEW t \in Tool, SlotsAt(a.tools, t.index) = {}
      PROVE  Becomes(a, Parse(a, [event |-> "tool_use_start", block |-> t]), a.model, a,
                     a.content, a.thinking, Append(a.tools, t), a.finish)
    <2> DEFINE e == [event |-> "tool_use_start", block |-> t]
               tools == Append(a.tools, t)
    <2>1. e.event = "tool_use_start" /\ e.block = t
        OBVIOUS
    <2> HIDE DEF e
    <2>2. OpenBlock(b.tools, t) = tools
        BY <1>3, <1>9 DEF OpenBlock
    <2>3. tools \in Seq(Tool)
        BY DEF Acc
    <2> HIDE DEF tools
    <2>4. AnthropicEvent(b, e) = [b EXCEPT !.tools = OpenBlock(@, t)]
        BY <2>1 DEF AnthropicEvent
    <2>5. AnthropicEvent(b, e) = [b EXCEPT !.tools = tools]
        BY <2>2, <2>4
    <2>6. Becomes(a, [b EXCEPT !.tools = tools], a.model, a, a.content, a.thinking, tools,
                  a.finish)
        BY <1>1, <2>3, Uses
    <2>7. Parse(a, e) = AnthropicEvent(b, e)
        BY <1>2
    <2>8. Becomes(a, Parse(a, e), a.model, a, a.content, a.thinking, tools, a.finish)
        BY <2>5, <2>6, <2>7
    <2> QED BY <2>8 DEF e, tools
<1> QED BY <1>4, <1>6, <1>7, <1>8, <1>9

----------------------------------------------------------------------------
(* A payload arrives *)

\* What was sent of a text grows by the next fragment, from nothing to all of it.
LEMMA SentSoFar ==
    ASSUME NEW s \in Seq(Tokens)
    PROVE  /\ SubSeq(s, 1, 0) = << >>
           /\ SubSeq(s, 1, Len(s)) = s
           /\ \A n \in Nat : n < Len(s) =>
                /\ s[n + 1] \in Tokens
                /\ SubSeq(s, 1, n + 1) = SubSeq(s, 1, n) \o <<s[n + 1]>>
<1>1. SubSeq(s, 1, 0) = << >>
    BY SubSeqEmpty
<1>2. SubSeq(s, 1, Len(s)) = s
    BY SubSeqFull
<1>3. ASSUME NEW n \in Nat, n < Len(s)
      PROVE  /\ s[n + 1] \in Tokens
             /\ SubSeq(s, 1, n + 1) = SubSeq(s, 1, n) \o <<s[n + 1]>>
    <2>1. 1 \in 1..Len(s) /\ n + 1 \in 1..Len(s) /\ (n + 1) - 1 = n
        BY <1>3
    <2>2. SubSeq(s, 1, n + 1) = SubSeq(s, 1, (n + 1) - 1) \o <<s[n + 1]>>
        BY <2>1, SubSeqRecursiveSecond
    <2> QED BY <2>1, <2>2
<1> QED BY <1>1, <1>2, <1>3

\* What is extracted of a message has the shape of one.
LEMMA MessageType ==
    ASSUME message \in Messages
    PROVE  /\ message.thoughts \in Seq(Tokens)
           /\ message.text \in Seq(Tokens)
           /\ message.tools \in Seq(Seq(Tokens))
           /\ Calls \in Seq(Tool)
           /\ Len(Calls) = Len(message.tools)
           /\ \A i \in DOMAIN message.tools : Calls[i] = Call(i, message.tools[i])
<1>1. /\ message.thoughts \in Seq(Tokens)
      /\ message.text \in Seq(Tokens)
      /\ message.tools \in Seq(Seq(Tokens))
    BY ParsersAssumption
<1>2. \A i \in DOMAIN message.tools : Call(i, message.tools[i]) \in Tool
    BY <1>1 DEF Call, Tool
<1> QED BY <1>1, <1>2 DEF Calls

\* The result a parser starts with is one.
LEMMA NothingIsAResult == Nothing \in Acc
<1>1. << >> \in Seq(Tokens) /\ << >> \in Seq(Tool) /\ Null \in Numbers
    BY DEF Numbers
<1> QED BY <1>1 DEF Nothing, Acc

\* A result to which the payload added what was sent is what was sent.
LEMMA Hears ==
    ASSUME NEW s, NEW a, NEW r, NEW model, NEW u, NEW content, NEW thinking, NEW tools, NEW finish,
           Becomes(a, r, model, u, content, thinking, tools, finish),
           s.begun = TRUE, a.garbled = FALSE, a.raised = FALSE, model = "model",
           [input |-> u.input, output |-> u.output, total |-> u.total] = Counted(s),
           content = SubSeq(message.text, 1, s.text),
           thinking = SubSeq(message.thoughts, 1, s.thoughts),
           tools = Opened(s.calls),
           finish = IF s.finished THEN "stop" ELSE Null
    PROVE  Heard(s, r)
BY DEF Heard, Held, Becomes

\* However the payload arrives, what was extracted is accounted for if that holds
\* of what it would be had it been understood.
LEMMA Arrival ==
    ASSUME IInv, wire.form # "object", NEW p, Arrives(p), NEW r, r = Parse(acc, p),
           acc.raised = FALSE => r \in Acc /\ r.garbled = acc.garbled /\ r.raised = FALSE,
           ToolsFit(sent'.calls, acc.tools),
           acc.raised = FALSE => ToolsFit(sent'.calls, r.tools),
           lost = 0 => Heard(sent', r)
    PROVE  AccOK' /\ Setting' /\ lost' \in Nat
<1> USE DEF IInv
<1>1. /\ acc \in Acc /\ lost \in Nat
      /\ acc.raised \in BOOLEAN /\ acc.garbled \in BOOLEAN
      /\ acc.raised => acc = Raised
      /\ lost > 0 => acc.garbled \/ acc.raised
      /\ lost = 0 => ~acc.raised
    BY DEF AccOK, PiecesOK, SentOK, Heard, Acc
<1>2. PICK damage \in Damages :
          /\ damage # "none" => lost < MaxLost
          /\ lost' = IF damage = "none" THEN lost ELSE lost + 1
          /\ acc' = Take(acc, p, damage)
          /\ UNCHANGED <<dialect, wire, message>>
    BY DEF Arrives
<1>3. damage \in {"none", "garbled", "odd"}
    BY DEF Damages
<1>4. Setting' /\ lost' \in Nat
    BY <1>1, <1>2 DEF Setting
<1>5. SUFFICES /\ acc' \in Acc
               /\ acc'.raised => acc' = Raised
               /\ ToolsFit(sent'.calls, acc'.tools)
               /\ lost' > 0 => acc'.garbled \/ acc'.raised
               /\ lost' = 0 => Heard(sent', acc')
    <2>1. ToolsFit(sent'.calls, acc'.tools) => (ToolsFit(sent.calls, acc.tools))'
        BY <1>2 DEF ToolsFit, Fits
    <2>2. Heard(sent', acc') => (Heard(sent, acc))'
        BY <1>2 DEF Heard, Held, Counted, Opened
    <2> QED BY <1>2, <1>4, <1>5, <2>1, <2>2 DEF AccOK, PiecesOK, Raised, Nothing
<1>6. /\ Raised \in Acc /\ Raised.raised = TRUE /\ Raised.tools = << >>
      /\ ToolsFit(sent'.calls, << >>)
    <2>1. Raised.raised = TRUE /\ Raised.tools = << >> /\ << >> \in Seq(Tool)
        BY DEF Raised, Nothing
    <2>2. Raised \in Acc
        BY NothingIsAResult DEF Raised, Acc
    <2>3. DOMAIN << >> = {}
        OBVIOUS
    <2>4. ToolsFit(sent'.calls, << >>)
        BY <2>3 DEF ToolsFit
    <2> QED BY <2>1, <2>2, <2>4
<1>7. CASE acc.raised = TRUE
    <2>1. acc' = acc
        BY <1>2, <1>7 DEF Take
    <2>2. acc = Raised /\ lost' > 0
        BY <1>1, <1>2, <1>7
    <2> QED BY <1>1, <1>6, <1>7, <2>1, <2>2
<1>8. CASE acc.raised = FALSE /\ damage = "none"
    <2>1. acc' = r /\ lost' = lost
        BY <1>2, <1>8 DEF Take
    <2> QED BY <1>1, <1>8, <2>1
<1>9. CASE acc.raised = FALSE /\ damage = "garbled"
    <2>1. acc' = [acc EXCEPT !.garbled = TRUE] /\ lost' = lost + 1
        BY <1>2, <1>9 DEF Take
    <2>2. acc' \in Acc /\ acc'.garbled = TRUE /\ acc'.raised = FALSE /\ acc'.tools = acc.tools
        BY <1>1, <1>9, <2>1 DEF Acc
    <2> QED BY <1>1, <2>1, <2>2
<1>10. CASE acc.raised = FALSE /\ damage = "odd"
    <2>1. acc' = Raised /\ lost' = lost + 1
        BY <1>2, <1>10 DEF Take, Raised
    <2> QED BY <1>1, <1>6, <2>1
<1> QED BY <1>1, <1>3, <1>7, <1>8, <1>9, <1>10

\* The same for a payload that brings no tool call.
LEMMA QuietArrival ==
    ASSUME IInv, wire.form # "object", NEW p, Arrives(p), NEW r, r = Parse(acc, p),
           r \in Acc, r.garbled = acc.garbled, r.raised = acc.raised, r.tools = acc.tools,
           sent'.calls = sent.calls,
           lost = 0 => Heard(sent', r)
    PROVE  AccOK' /\ Setting' /\ lost' \in Nat
<1>1. ToolsFit(sent'.calls, acc.tools) /\ ToolsFit(sent'.calls, r.tools)
    BY DEF IInv, AccOK, PiecesOK
<1> QED BY <1>1, Arrival

\* What holds of a response in pieces before the next one arrives.
LEMMA Before ==
    ASSUME IInv, wire.form # "object"
    PROVE  /\ acc \in Acc /\ acc.content \in Seq(Tokens) /\ acc.thinking \in Seq(Tokens)
           /\ acc.tools \in Seq(Tool)
           /\ acc.raised \in BOOLEAN /\ acc.garbled \in BOOLEAN
           /\ dialect \in {"openai", "anthropic", "gemini", "ollama"}
           /\ ToolsFit(sent.calls, acc.tools)
           /\ sent.begun \in BOOLEAN /\ sent.finished \in BOOLEAN /\ sent.closed \in BOOLEAN
           /\ sent.thoughts \in Nat /\ sent.text \in Nat /\ sent.calls \in Seq(Nat)
           /\ lost = 0 =>
                /\ acc.raised = FALSE /\ acc.garbled = FALSE
                /\ acc.model = IF sent.begun THEN "model" ELSE Null
                /\ [input |-> acc.input, output |-> acc.output, total |-> acc.total] = Counted(sent)
                /\ acc.content = SubSeq(message.text, 1, sent.text)
                /\ acc.thinking = SubSeq(message.thoughts, 1, sent.thoughts)
                /\ acc.tools = Opened(sent.calls)
                /\ acc.finish = IF sent.finished THEN "stop" ELSE Null
<1>1. acc \in Acc /\ PiecesOK /\ SentOK
    BY DEF IInv, AccOK
<1>2. dialect \in {"openai", "anthropic", "gemini", "ollama"}
    BY ParsersAssumption DEF IInv, Setting, Known
<1>3. lost = 0 => Heard(sent, acc)
    BY <1>1 DEF PiecesOK
<1>4. /\ acc.content \in Seq(Tokens) /\ acc.thinking \in Seq(Tokens) /\ acc.tools \in Seq(Tool)
      /\ acc.raised \in BOOLEAN /\ acc.garbled \in BOOLEAN
    BY <1>1 DEF Acc
<1>5. /\ sent.begun \in BOOLEAN /\ sent.finished \in BOOLEAN /\ sent.closed \in BOOLEAN
      /\ sent.thoughts \in Nat /\ sent.text \in Nat /\ sent.calls \in Seq(Nat)
    BY <1>1 DEF SentOK
<1> HIDE DEF IInv
<1>6. lost = 0 =>
                /\ acc.raised = FALSE /\ acc.garbled = FALSE
                /\ acc.model = IF sent.begun THEN "model" ELSE Null
                /\ [input |-> acc.input, output |-> acc.output, total |-> acc.total] = Counted(sent)
                /\ acc.content = SubSeq(message.text, 1, sent.text)
                /\ acc.thinking = SubSeq(message.thoughts, 1, sent.thoughts)
                /\ acc.tools = Opened(sent.calls)
                /\ acc.finish = IF sent.finished THEN "stop" ELSE Null
    BY <1>3, <1>4 DEF Heard, Held
<1> QED BY <1>1, <1>2, <1>4, <1>5, <1>6 DEF PiecesOK

----------------------------------------------------------------------------
(* One lemma for each action *)

\* The first payload: the model, and in two dialects the usage of the prompt.
LEMMA BeginStep == IInv /\ Begin => IInv'
<1> SUFFICES ASSUME IInv, Begin PROVE IInv'
    OBVIOUS
<1> DEFINE r == Parse(acc, BeginPayload)
           e == << >>
<1>1. /\ wire.form # "object" /\ Arrives(BeginPayload)
      /\ sent.begun = FALSE /\ sent' = [sent EXCEPT !.begun = TRUE]
    BY Before DEF Begin
<1>2. /\ sent.thoughts = 0 /\ sent.text = 0 /\ sent.calls = << >>
      /\ sent.finished = FALSE /\ sent.closed = FALSE
    BY <1>1 DEF IInv, SentOK
<1>3. /\ sent'.begun = TRUE /\ sent'.thoughts = 0 /\ sent'.text = 0 /\ sent'.calls = << >>
      /\ sent'.finished = FALSE /\ sent'.closed = FALSE
    BY <1>1, <1>2 DEF IInv, SentOK
<1>4. /\ e = SubSeq(message.text, 1, 0) /\ e = SubSeq(message.thoughts, 1, 0)
      /\ e = << >> /\ e = Opened(e) /\ e \in Seq(Tokens) /\ e \in Seq(Tool)
      /\ acc.content \o e = acc.content /\ acc.tools \o e = acc.tools
    BY <1>1, Before, SubSeqEmpty DEF Opened
<1>5. /\ acc \in Acc /\ acc.garbled \in BOOLEAN /\ acc.raised \in BOOLEAN
      /\ acc.tools \in Seq(Tool)
      /\ dialect \in {"openai", "anthropic", "gemini", "ollama"}
      /\ lost = 0 =>
           /\ acc.raised = FALSE /\ acc.garbled = FALSE
           /\ [input |-> acc.input, output |-> acc.output, total |-> acc.total] = NoUsage
           /\ acc.content = e /\ acc.thinking = e /\ acc.tools = e
           /\ acc.finish = Null
    <2>1. Counted(sent) = NoUsage
        BY <1>1, <1>2, Before DEF Counted
    <2> QED BY <1>1, <1>2, <1>4, <2>1, Before
<1>6. lost = 0 => acc.input = Null /\ acc.output = Null /\ acc.total = Null
    BY <1>5 DEF NoUsage
<1> HIDE DEF e
<1>7. ASSUME NEW u, NEW model, model = "model", lost = 0,
             Becomes(acc, r, model, u, acc.content, acc.thinking, acc.tools, acc.finish),
             [input |-> u.input, output |-> u.output, total |-> u.total] = Counted(sent')
      PROVE  Heard(sent', r)
    <2> HIDE DEF r
    <2>1. acc.content = SubSeq(message.text, 1, sent'.text)
        BY <1>3, <1>4, <1>5, <1>7
    <2>2. acc.thinking = SubSeq(message.thoughts, 1, sent'.thoughts)
        BY <1>3, <1>4, <1>5, <1>7
    <2>3. acc.tools = Opened(sent'.calls)
        BY <1>3, <1>4, <1>5, <1>7
    <2>4. acc.finish = IF sent'.finished THEN "stop" ELSE Null
        BY <1>3, <1>5, <1>7
    <2> QED BY <1>3, <1>5, <1>7, <2>1, <2>2, <2>3, <2>4, Hears
<1>8. /\ r \in Acc /\ r.garbled = acc.garbled /\ r.raised = acc.raised /\ r.tools = acc.tools
      /\ lost = 0 => Heard(sent', r)
    <2>1. CASE dialect = "openai"
        <3>1. r = Parse(acc, OpenAIPayload(e, << >>, Null))
            BY <2>1 DEF BeginPayload, e
        <3>2. acc.tools = FoldLeft(AddFragment, acc.tools, << >>)
            BY FragmentsFolds
        <3>3. Becomes(acc, Parse(acc, OpenAIPayload(e, << >>, Null)), "model", acc,
                      acc.content \o e, acc.thinking, acc.tools, Or(Null, acc.finish))
            BY <1>4, <1>5, <2>1, <3>2, OpenAIParsed
        <3>4. Counted(sent') = NoUsage /\ Or(Null, acc.finish) = acc.finish
            BY <1>3, <2>1 DEF Counted, Or
        <3>5. Becomes(acc, r, "model", acc, acc.content, acc.thinking, acc.tools, acc.finish)
            BY <1>4, <3>1, <3>3, <3>4
        <3>6. ASSUME lost = 0 PROVE Heard(sent', r)
            BY <1>5, <1>7, <3>4, <3>5, <3>6
        <3> QED BY <3>5, <3>6 DEF Becomes
    <2>2. CASE dialect = "anthropic"
        <3> DEFINE u == [input |-> 5, output |-> 1, total |-> 6]
        <3>1. Counted(sent') = u
            BY <1>3, <2>2 DEF Counted
        <3>2. r \in Acc /\ r.garbled = acc.garbled /\ r.raised = acc.raised /\ r.tools = acc.tools
            BY <1>5, <2>2, AnthropicCounted
        <3>3. ASSUME lost = 0 PROVE Heard(sent', r)
            <4>1. Becomes(acc, r, "model", u, acc.content, acc.thinking, acc.tools, acc.finish)
                BY <1>5, <1>6, <2>2, <3>3, AnthropicCounted
            <4> QED BY <1>7, <3>1, <3>3, <4>1
        <3> QED BY <3>2, <3>3
    <2>3. CASE dialect = "gemini"
        <3> DEFINE u == [Usage EXCEPT !.output = Null, !.total = 5]
                   w == [input |-> Or(u.input, acc.input), output |-> Or(u.output, acc.output),
                         total |-> Or(u.total, acc.total)]
        <3>1. u.input = 5 /\ u.output = Null /\ u.total = 5
            BY DEF Usage
        <3>2. u.input \in Numbers /\ u.output \in Numbers /\ u.total \in Numbers
            BY <3>1 DEF Numbers
        <3>3. r = Parse(acc, GeminiPayload(<< >>, u, Null))
            BY <2>3 DEF BeginPayload
        <3> HIDE DEF u
        <3>4. Becomes(acc, Parse(acc, GeminiPayload(<< >>, u, Null)), "model", w,
                      acc.content, acc.thinking, acc.tools, Or(Null, acc.finish))
            BY <1>5, <2>3, <3>2, GeminiParsed
        <3>5. lost = 0 => w = Counted(sent')
            BY <1>3, <1>6, <2>3, <3>1, ParsersAssumption DEF Counted, Or
        <3> HIDE DEF w
        <3>6. Becomes(acc, r, "model", w, acc.content, acc.thinking, acc.tools, acc.finish)
            BY <3>3, <3>4 DEF Or
        <3>7. ASSUME lost = 0 PROVE Heard(sent', r)
            <4>1. [input |-> w.input, output |-> w.output, total |-> w.total] = Counted(sent')
                BY <3>5, <3>7 DEF w
            <4> QED BY <1>7, <3>6, <3>7, <4>1
        <3> QED BY <3>6, <3>7 DEF Becomes
    <2>4. CASE dialect = "ollama"
        <3>1. r = Parse(acc, OllamaPayload(e, e, FALSE))
            BY <2>4 DEF BeginPayload, e
        <3>2. Becomes(acc, Parse(acc, OllamaPayload(e, e, FALSE)), "model", acc,
                      acc.content \o e, acc.thinking, acc.tools \o e, acc.finish)
            BY <1>4, <1>5, <2>4, OllamaParsed
        <3>3. Counted(sent') = NoUsage
            BY <1>3, <2>4 DEF Counted
        <3>4. Becomes(acc, r, "model", acc, acc.content, acc.thinking, acc.tools, acc.finish)
            BY <1>4, <3>1, <3>2
        <3>5. ASSUME lost = 0 PROVE Heard(sent', r)
            BY <1>5, <1>7, <3>3, <3>4, <3>5
        <3> QED BY <3>4, <3>5 DEF Becomes
    <2> QED BY <1>5, <2>1, <2>2, <2>3, <2>4
<1>9. AccOK' /\ Setting' /\ lost' \in Nat
    <2>1. sent'.calls = sent.calls
        BY <1>2, <1>3
    <2> HIDE DEF r
    <2> QED BY <1>1, <1>8, <2>1, QuietArrival DEF r
<1>10. SentOK'
    BY <1>1, <1>2, <1>3, <1>9 DEF IInv, SentOK, Setting, Arrives, Fragmented, CallSent
<1> QED BY <1>9, <1>10 DEF IInv

\* A thought, in the two dialects that have them.
LEMMA ThoughtStep == IInv /\ SendThought => IInv'
<1> SUFFICES ASSUME IInv, SendThought PROVE IInv'
    OBVIOUS
<1> DEFINE n == sent.thoughts
           x == <<message.thoughts[n + 1]>>
           r == Parse(acc, ThoughtPayload(message.thoughts[n + 1]))
<1>1. /\ wire.form # "object" /\ Arrives(ThoughtPayload(message.thoughts[n + 1]))
      /\ sent.begun = TRUE /\ sent.finished = FALSE
      /\ n \in Nat /\ n < Len(message.thoughts)
      /\ sent' = [sent EXCEPT !.thoughts = @ + 1]
    BY Before DEF SendThought, Streaming
<1>2. /\ sent.closed = FALSE
      /\ sent \in [begun : BOOLEAN, thoughts : Nat, text : Nat, calls : Seq(Nat),
                    finished : BOOLEAN, closed : BOOLEAN]
    BY <1>1, Before DEF IInv, SentOK
<1>3. /\ sent'.begun = TRUE /\ sent'.finished = FALSE /\ sent'.closed = FALSE
      /\ sent'.thoughts = n + 1 /\ sent'.text = sent.text
      /\ sent'.calls = sent.calls
    BY <1>1, <1>2
<1>4. /\ x \in Seq(Tokens)
      /\ SubSeq(message.thoughts, 1, n + 1) = SubSeq(message.thoughts, 1, n) \o x
    <2>1. message.thoughts \in Seq(Tokens)
        BY MessageType DEF IInv, Setting
    <2> DEFINE all == message.thoughts
    <2> HIDE DEF all, n
    <2>2. /\ all[n + 1] \in Tokens
          /\ SubSeq(all, 1, n + 1) = SubSeq(all, 1, n) \o <<all[n + 1]>>
        BY <1>1, <2>1, SentSoFar DEF all
    <2>3. <<all[n + 1]>> \in Seq(Tokens)
        BY <2>2
    <2>4. x = <<all[n + 1]>>
        BY DEF all
    <2> HIDE DEF x
    <2> QED BY <2>2, <2>3, <2>4 DEF all
<1>5. /\ acc \in Acc /\ acc.garbled \in BOOLEAN /\ acc.raised \in BOOLEAN
      /\ acc.content \in Seq(Tokens) /\ acc.thinking \in Seq(Tokens) /\ acc.tools \in Seq(Tool)
      /\ dialect \in {"openai", "anthropic", "gemini", "ollama"}
      /\ lost = 0 =>
           /\ acc.raised = FALSE /\ acc.garbled = FALSE
           /\ acc.model = "model"
           /\ [input |-> acc.input, output |-> acc.output, total |-> acc.total] = Counted(sent)
           /\ acc.content = SubSeq(message.text, 1, sent.text)
           /\ acc.thinking = SubSeq(message.thoughts, 1, sent.thoughts)
           /\ acc.tools = Opened(sent.calls)
           /\ acc.finish = Null
    BY <1>1, Before
<1>6. Counted(sent') = Counted(sent)
    BY <1>1, <1>2, <1>3 DEF Counted
<1>7. ASSUME NEW u, NEW model, lost = 0 => model = "model",
             u.input = acc.input, u.output = acc.output, u.total = acc.total,
             Becomes(acc, r, model, u, acc.content, acc.thinking \o x, acc.tools, acc.finish)
      PROVE  /\ r \in Acc /\ r.garbled = acc.garbled /\ r.raised = acc.raised
             /\ r.tools = acc.tools
             /\ lost = 0 => Heard(sent', r)
    <2> DEFINE content == acc.content
               thinking == acc.thinking \o x
    <2> HIDE DEF r, x
    <2>1. ASSUME lost = 0 PROVE Heard(sent', r)
        <3>1. content = SubSeq(message.text, 1, sent'.text)
            BY <1>3, <1>4, <1>5, <2>1
        <3>2. thinking = SubSeq(message.thoughts, 1, sent'.thoughts)
            BY <1>3, <1>4, <1>5, <2>1
        <3>3. acc.tools = Opened(sent'.calls)
            BY <1>3, <1>5, <2>1
        <3>4. acc.finish = IF sent'.finished THEN "stop" ELSE Null
            BY <1>3, <1>5, <2>1
        <3>5. [input |-> u.input, output |-> u.output, total |-> u.total] = Counted(sent')
            BY <1>5, <1>6, <1>7, <2>1
        <3>6. Becomes(acc, r, model, u, content, thinking, acc.tools, acc.finish)
            BY <1>7
        <3> HIDE DEF content, thinking
        <3> QED BY <1>3, <1>5, <1>7, <2>1, <3>1, <3>2, <3>3, <3>4, <3>5, <3>6, Hears
    <2> QED BY <1>7, <2>1 DEF Becomes
<1>8. /\ r \in Acc /\ r.garbled = acc.garbled /\ r.raised = acc.raised /\ r.tools = acc.tools
      /\ lost = 0 => Heard(sent', r)
    <2>1. dialect \in {"anthropic", "gemini"}
        BY <1>1, <1>5 DEF IInv, Setting
    <2>2. CASE dialect = "anthropic"
        <3>1. r = Parse(acc, Delta("thinking", 0, x))
            BY <2>2 DEF ThoughtPayload
        <3> HIDE DEF x
        <3>2. Becomes(acc, Parse(acc, Delta("thinking", 0, x)), acc.model, acc, acc.content,
                      acc.thinking \o x, acc.tools, acc.finish)
            BY <1>4, <1>5, <2>2, AnthropicParsed
        <3> HIDE DEF r
        <3> QED BY <1>5, <1>7, <3>1, <3>2
    <2>3. CASE dialect = "gemini"
        <3> DEFINE w == [input |-> Or(NoUsage.input, acc.input), output |-> Or(NoUsage.output, acc.output),
                         total |-> Or(NoUsage.total, acc.total)]
        <3>1. NoUsage.input \in Numbers /\ NoUsage.output \in Numbers /\ NoUsage.total \in Numbers
            BY DEF NoUsage, Numbers
        <3>2. w.input = acc.input /\ w.output = acc.output /\ w.total = acc.total
            BY DEF NoUsage, Or
        <3>3. r = Parse(acc, GeminiPayload(<<Part(TRUE, x, << >>)>>, NoUsage, Null))
            BY <2>3 DEF ThoughtPayload
        <3>4. << >> \in Seq(Tool) /\ acc.tools \o << >> = acc.tools /\ Or(Null, acc.finish) = acc.finish
            BY <1>5 DEF Or
        <3> HIDE DEF x
        <3>5. Becomes(acc, Parse(acc, GeminiPayload(<<Part(TRUE, x, << >>)>>, NoUsage, Null)), "model",
                      w, IF TRUE THEN acc.content ELSE acc.content \o x,
                      IF TRUE THEN acc.thinking \o x ELSE acc.thinking,
                      acc.tools \o << >>, Or(Null, acc.finish))
            BY <1>4, <1>5, <2>3, <3>1, <3>4, GeminiParsed
        <3> HIDE DEF w, r
        <3>6. Becomes(acc, r, "model", w, acc.content, acc.thinking \o x, acc.tools, acc.finish)
            BY <3>3, <3>4, <3>5
        <3> QED BY <1>7, <3>2, <3>6
    <2> QED BY <2>1, <2>2, <2>3
<1>9. AccOK' /\ Setting' /\ lost' \in Nat
    <2> HIDE DEF r
    <2> QED BY <1>1, <1>3, <1>8, QuietArrival DEF r
<1>10. SentOK'
    <2>1. UNCHANGED <<dialect, wire, message>>
        BY <1>1 DEF Arrives
    <2> QED BY <1>1, <1>2, <1>3, <1>9, <2>1 DEF IInv, SentOK, Setting, Fragmented, CallSent, AllSent
<1> QED BY <1>9, <1>10 DEF IInv

\* A fragment of the text.
LEMMA TextStep == IInv /\ SendText => IInv'
<1> SUFFICES ASSUME IInv, SendText PROVE IInv'
    OBVIOUS
<1> DEFINE n == sent.text
           x == <<message.text[n + 1]>>
           r == Parse(acc, TextPayload(message.text[n + 1]))
<1>1. /\ wire.form # "object" /\ Arrives(TextPayload(message.text[n + 1]))
      /\ sent.begun = TRUE /\ sent.finished = FALSE
      /\ n \in Nat /\ n < Len(message.text)
      /\ sent' = [sent EXCEPT !.text = @ + 1]
    BY Before DEF SendText, Streaming
<1>2. /\ sent.closed = FALSE
      /\ sent \in [begun : BOOLEAN, thoughts : Nat, text : Nat, calls : Seq(Nat),
                    finished : BOOLEAN, closed : BOOLEAN]
    BY <1>1, Before DEF IInv, SentOK
<1>3. /\ sent'.begun = TRUE /\ sent'.finished = FALSE /\ sent'.closed = FALSE
      /\ sent'.text = n + 1 /\ sent'.thoughts = sent.thoughts
      /\ sent'.calls = sent.calls
    BY <1>1, <1>2
<1>4. /\ x \in Seq(Tokens)
      /\ SubSeq(message.text, 1, n + 1) = SubSeq(message.text, 1, n) \o x
    <2>1. message.text \in Seq(Tokens)
        BY MessageType DEF IInv, Setting
    <2> DEFINE all == message.text
    <2> HIDE DEF all, n
    <2>2. /\ all[n + 1] \in Tokens
          /\ SubSeq(all, 1, n + 1) = SubSeq(all, 1, n) \o <<all[n + 1]>>
        BY <1>1, <2>1, SentSoFar DEF all
    <2>3. <<all[n + 1]>> \in Seq(Tokens)
        BY <2>2
    <2>4. x = <<all[n + 1]>>
        BY DEF all
    <2> HIDE DEF x
    <2> QED BY <2>2, <2>3, <2>4 DEF all
<1>5. /\ acc \in Acc /\ acc.garbled \in BOOLEAN /\ acc.raised \in BOOLEAN
      /\ acc.content \in Seq(Tokens) /\ acc.thinking \in Seq(Tokens) /\ acc.tools \in Seq(Tool)
      /\ dialect \in {"openai", "anthropic", "gemini", "ollama"}
      /\ lost = 0 =>
           /\ acc.raised = FALSE /\ acc.garbled = FALSE
           /\ acc.model = "model"
           /\ [input |-> acc.input, output |-> acc.output, total |-> acc.total] = Counted(sent)
           /\ acc.content = SubSeq(message.text, 1, sent.text)
           /\ acc.thinking = SubSeq(message.thoughts, 1, sent.thoughts)
           /\ acc.tools = Opened(sent.calls)
           /\ acc.finish = Null
    BY <1>1, Before
<1>6. Counted(sent') = Counted(sent)
    BY <1>1, <1>2, <1>3 DEF Counted
<1>7. ASSUME NEW u, NEW model, lost = 0 => model = "model",
             u.input = acc.input, u.output = acc.output, u.total = acc.total,
             Becomes(acc, r, model, u, acc.content \o x, acc.thinking, acc.tools, acc.finish)
      PROVE  /\ r \in Acc /\ r.garbled = acc.garbled /\ r.raised = acc.raised
             /\ r.tools = acc.tools
             /\ lost = 0 => Heard(sent', r)
    <2> DEFINE content == acc.content \o x
               thinking == acc.thinking
    <2> HIDE DEF r, x
    <2>1. ASSUME lost = 0 PROVE Heard(sent', r)
        <3>1. content = SubSeq(message.text, 1, sent'.text)
            BY <1>3, <1>4, <1>5, <2>1
        <3>2. thinking = SubSeq(message.thoughts, 1, sent'.thoughts)
            BY <1>3, <1>4, <1>5, <2>1
        <3>3. acc.tools = Opened(sent'.calls)
            BY <1>3, <1>5, <2>1
        <3>4. acc.finish = IF sent'.finished THEN "stop" ELSE Null
            BY <1>3, <1>5, <2>1
        <3>5. [input |-> u.input, output |-> u.output, total |-> u.total] = Counted(sent')
            BY <1>5, <1>6, <1>7, <2>1
        <3>6. Becomes(acc, r, model, u, content, thinking, acc.tools, acc.finish)
            BY <1>7
        <3> HIDE DEF content, thinking
        <3> QED BY <1>3, <1>5, <1>7, <2>1, <3>1, <3>2, <3>3, <3>4, <3>5, <3>6, Hears
    <2> QED BY <1>7, <2>1 DEF Becomes
<1>8. /\ r \in Acc /\ r.garbled = acc.garbled /\ r.raised = acc.raised /\ r.tools = acc.tools
      /\ lost = 0 => Heard(sent', r)
    <2>1. CASE dialect = "openai"
        <3>1. r = Parse(acc, OpenAIPayload(x, << >>, Null))
            BY <2>1 DEF TextPayload
        <3>2. acc.tools = FoldLeft(AddFragment, acc.tools, << >>)
            BY FragmentsFolds
        <3> HIDE DEF x
        <3>3. Becomes(acc, Parse(acc, OpenAIPayload(x, << >>, Null)), "model", acc,
                      acc.content \o x, acc.thinking, acc.tools, Or(Null, acc.finish))
            BY <1>4, <1>5, <2>1, <3>2, OpenAIParsed
        <3>4. Or(Null, acc.finish) = acc.finish
            BY DEF Or
        <3> HIDE DEF r
        <3> QED BY <1>7, <3>1, <3>3, <3>4
    <2>2. CASE dialect = "anthropic"
        <3>1. r = Parse(acc, Delta("text", 0, x))
            BY <2>2 DEF TextPayload
        <3> HIDE DEF x
        <3>2. Becomes(acc, Parse(acc, Delta("text", 0, x)), acc.model, acc, acc.content \o x,
                      acc.thinking, acc.tools, acc.finish)
            BY <1>4, <1>5, <2>2, AnthropicParsed
        <3> HIDE DEF r
        <3> QED BY <1>5, <1>7, <3>1, <3>2
    <2>3. CASE dialect = "gemini"
        <3> DEFINE w == [input |-> Or(NoUsage.input, acc.input), output |-> Or(NoUsage.output, acc.output),
                         total |-> Or(NoUsage.total, acc.total)]
        <3>1. NoUsage.input \in Numbers /\ NoUsage.output \in Numbers /\ NoUsage.total \in Numbers
            BY DEF NoUsage, Numbers
        <3>2. w.input = acc.input /\ w.output = acc.output /\ w.total = acc.total
            BY DEF NoUsage, Or
        <3>3. r = Parse(acc, GeminiPayload(<<Part(FALSE, x, << >>)>>, NoUsage, Null))
            BY <2>3 DEF TextPayload
        <3>4. << >> \in Seq(Tool) /\ acc.tools \o << >> = acc.tools /\ Or(Null, acc.finish) = acc.finish
            BY <1>5 DEF Or
        <3> HIDE DEF x
        <3>5. Becomes(acc, Parse(acc, GeminiPayload(<<Part(FALSE, x, << >>)>>, NoUsage, Null)), "model",
                      w, IF FALSE THEN acc.content ELSE acc.content \o x,
                      IF FALSE THEN acc.thinking \o x ELSE acc.thinking,
                      acc.tools \o << >>, Or(Null, acc.finish))
            BY <1>4, <1>5, <2>3, <3>1, <3>4, GeminiParsed
        <3> HIDE DEF w, r
        <3>6. Becomes(acc, r, "model", w, acc.content \o x, acc.thinking, acc.tools, acc.finish)
            BY <3>3, <3>4, <3>5
        <3> QED BY <1>7, <3>2, <3>6
    <2>4. CASE dialect = "ollama"
        <3>1. r = Parse(acc, OllamaPayload(x, << >>, FALSE))
            BY <2>4 DEF TextPayload
        <3>2. << >> \in Seq(Tool) /\ acc.tools \o << >> = acc.tools
            BY <1>5
        <3> HIDE DEF x
        <3>3. Becomes(acc, Parse(acc, OllamaPayload(x, << >>, FALSE)), "model", acc,
                      acc.content \o x, acc.thinking, acc.tools \o << >>, acc.finish)
            BY <1>4, <1>5, <2>4, <3>2, OllamaParsed
        <3> HIDE DEF r
        <3> QED BY <1>7, <3>1, <3>2, <3>3
    <2> QED BY <1>5, <2>1, <2>2, <2>3, <2>4
<1>9. AccOK' /\ Setting' /\ lost' \in Nat
    <2> HIDE DEF r
    <2> QED BY <1>1, <1>3, <1>8, QuietArrival DEF r
<1>10. SentOK'
    <2>1. UNCHANGED <<dialect, wire, message>>
        BY <1>1 DEF Arrives
    <2> QED BY <1>1, <1>2, <1>3, <1>9, <2>1 DEF IInv, SentOK, Setting, Fragmented, CallSent, AllSent
<1> QED BY <1>9, <1>10 DEF IInv

\* The finish reason, and the usage in all dialects but OpenAI's.
LEMMA FinishStep == IInv /\ SendFinish => IInv'
<1> SUFFICES ASSUME IInv, SendFinish PROVE IInv'
    OBVIOUS
<1> DEFINE r == Parse(acc, FinishPayload)
           e == << >>
<1>1. /\ wire.form # "object" /\ Arrives(FinishPayload)
      /\ sent.begun = TRUE /\ sent.finished = FALSE
      /\ sent' = [sent EXCEPT !.finished = TRUE, !.closed = ~Fragmented]
      /\ AllSent
    BY Before DEF SendFinish, Streaming, AllSent
<1>2. /\ sent.closed = FALSE
      /\ sent \in [begun : BOOLEAN, thoughts : Nat, text : Nat, calls : Seq(Nat),
                    finished : BOOLEAN, closed : BOOLEAN]
    BY <1>1, Before DEF IInv, SentOK
<1>3. /\ sent'.begun = TRUE /\ sent'.finished = TRUE /\ sent'.closed = ~Fragmented
      /\ sent'.text = sent.text /\ sent'.thoughts = sent.thoughts
      /\ sent'.calls = sent.calls
    BY <1>1, <1>2
<1>4. /\ acc \in Acc /\ acc.garbled \in BOOLEAN /\ acc.raised \in BOOLEAN
      /\ acc.content \in Seq(Tokens) /\ acc.thinking \in Seq(Tokens) /\ acc.tools \in Seq(Tool)
      /\ dialect \in {"openai", "anthropic", "gemini", "ollama"}
      /\ lost = 0 =>
           /\ acc.raised = FALSE /\ acc.garbled = FALSE
           /\ acc.model = "model"
           /\ [input |-> acc.input, output |-> acc.output, total |-> acc.total] = Counted(sent)
           /\ acc.content = SubSeq(message.text, 1, sent.text)
           /\ acc.thinking = SubSeq(message.thoughts, 1, sent.thoughts)
           /\ acc.tools = Opened(sent.calls)
           /\ acc.finish = Null
    BY <1>1, Before
<1>5. /\ e \in Seq(Tokens) /\ e \in Seq(Tool)
      /\ acc.content \o e = acc.content /\ acc.tools \o e = acc.tools
      /\ Or("stop", acc.finish) = "stop"
    BY <1>4, ParsersAssumption DEF Or
<1> HIDE DEF e
<1>6. ASSUME NEW u, NEW model, lost = 0, model = "model",
             [input |-> u.input, output |-> u.output, total |-> u.total] = Counted(sent'),
             Becomes(acc, r, model, u, acc.content, acc.thinking, acc.tools, "stop")
      PROVE  Heard(sent', r)
    <2> HIDE DEF r
    <2>1. acc.content = SubSeq(message.text, 1, sent'.text)
        BY <1>3, <1>4, <1>6
    <2>2. acc.thinking = SubSeq(message.thoughts, 1, sent'.thoughts)
        BY <1>3, <1>4, <1>6
    <2>3. acc.tools = Opened(sent'.calls)
        BY <1>3, <1>4, <1>6
    <2>4. "stop" = IF sent'.finished THEN "stop" ELSE Null
        BY <1>3
    <2> QED BY <1>3, <1>4, <1>6, <2>1, <2>2, <2>3, <2>4, Hears
<1>7. /\ r \in Acc /\ r.garbled = acc.garbled /\ r.raised = acc.raised /\ r.tools = acc.tools
      /\ lost = 0 => Heard(sent', r)
    <2>1. CASE dialect = "openai"
        <3>1. r = Parse(acc, OpenAIPayload(e, << >>, "stop"))
            BY <2>1 DEF FinishPayload, e
        <3>2. acc.tools = FoldLeft(AddFragment, acc.tools, << >>)
            BY FragmentsFolds
        <3>3. Becomes(acc, Parse(acc, OpenAIPayload(e, << >>, "stop")), "model", acc,
                      acc.content \o e, acc.thinking, acc.tools, Or("stop", acc.finish))
            BY <1>4, <1>5, <2>1, <3>2, OpenAIParsed
        <3>4. Counted(sent') = Counted(sent)
            BY <1>2, <1>3, <2>1 DEF Counted, Fragmented
        <3>5. Becomes(acc, r, "model", acc, acc.content, acc.thinking, acc.tools, "stop")
            BY <1>5, <3>1, <3>3
        <3>6. ASSUME lost = 0 PROVE Heard(sent', r)
            BY <1>4, <1>6, <3>4, <3>5, <3>6
        <3> QED BY <3>5, <3>6 DEF Becomes
    <2>2. CASE dialect = "anthropic"
        <3>1. Counted(sent') = Usage
            BY <1>3, <2>2 DEF Counted
        <3>2. r \in Acc /\ r.garbled = acc.garbled /\ r.raised = acc.raised /\ r.tools = acc.tools
            BY <1>4, <2>2, AnthropicCounted
        <3>3. ASSUME lost = 0 PROVE Heard(sent', r)
            <4>1. Counted(sent) = [input |-> 5, output |-> 1, total |-> 6]
                BY <1>1, <2>2 DEF Counted
            <4>2. acc.input = 5
                BY <1>4, <3>3, <4>1
            <4>3. Becomes(acc, r, acc.model, Usage, acc.content, acc.thinking, acc.tools, "stop")
                BY <1>4, <2>2, <4>2, AnthropicCounted
            <4>4. [input |-> Usage.input, output |-> Usage.output, total |-> Usage.total] = Usage
                BY DEF Usage
            <4> HIDE DEF r
            <4> QED BY <1>4, <1>6, <3>1, <3>3, <4>3, <4>4
        <3> QED BY <3>2, <3>3
    <2>3. CASE dialect = "gemini"
        <3> DEFINE w == [input |-> Or(Usage.input, acc.input), output |-> Or(Usage.output, acc.output),
                         total |-> Or(Usage.total, acc.total)]
        <3>1. Usage.input \in Numbers /\ Usage.output \in Numbers /\ Usage.total \in Numbers
            BY DEF Numbers, Usage
        <3>2. r = Parse(acc, GeminiPayload(<< >>, Usage, "stop"))
            BY <2>3 DEF FinishPayload
        <3>3. Becomes(acc, Parse(acc, GeminiPayload(<< >>, Usage, "stop")), "model", w,
                      acc.content, acc.thinking, acc.tools, Or("stop", acc.finish))
            BY <1>4, <2>3, <3>1, GeminiParsed
        <3>4. [input |-> w.input, output |-> w.output, total |-> w.total] = Usage
            BY ParsersAssumption DEF Usage, Or
        <3>5. Counted(sent') = Usage
            BY <1>3, <2>3 DEF Counted
        <3> HIDE DEF w
        <3>6. Becomes(acc, r, "model", w, acc.content, acc.thinking, acc.tools, "stop")
            BY <1>5, <3>2, <3>3
        <3>7. ASSUME lost = 0 PROVE Heard(sent', r)
            BY <1>6, <3>4, <3>5, <3>6, <3>7
        <3> QED BY <3>6, <3>7 DEF Becomes
    <2>4. CASE dialect = "ollama"
        <3>1. r = Parse(acc, OllamaPayload(e, e, TRUE))
            BY <2>4 DEF FinishPayload, e
        <3>2. Becomes(acc, Parse(acc, OllamaPayload(e, e, TRUE)), "model", Usage,
                      acc.content \o e, acc.thinking, acc.tools \o e, "stop")
            BY <1>4, <1>5, <2>4, OllamaParsed
        <3>3. Counted(sent') = Usage
            BY <1>3, <2>4 DEF Counted
        <3>4. [input |-> Usage.input, output |-> Usage.output, total |-> Usage.total] = Usage
            BY DEF Usage
        <3>5. Becomes(acc, r, "model", Usage, acc.content, acc.thinking, acc.tools, "stop")
            BY <1>5, <3>1, <3>2
        <3>6. ASSUME lost = 0 PROVE Heard(sent', r)
            BY <1>6, <3>3, <3>4, <3>5, <3>6
        <3> QED BY <3>5, <3>6 DEF Becomes
    <2> QED BY <1>4, <2>1, <2>2, <2>3, <2>4
<1>8. AccOK' /\ Setting' /\ lost' \in Nat
    <2> HIDE DEF r
    <2> QED BY <1>1, <1>3, <1>7, QuietArrival DEF r
<1>9. SentOK'
    <2>1. UNCHANGED <<dialect, wire, message>>
        BY <1>1 DEF Arrives
    <2>2. sent' \in [begun : BOOLEAN, thoughts : Nat, text : Nat, calls : Seq(Nat),
                     finished : BOOLEAN, closed : BOOLEAN]
        BY <1>1, <1>2 DEF Fragmented
    <2>3. /\ AllSent' /\ sent'.closed \in BOOLEAN
          /\ ~Fragmented => sent'.closed
        BY <1>1, <1>3, <2>1, <2>2 DEF AllSent, CallSent, Fragmented
    <2> QED BY <1>1, <1>2, <1>3, <1>8, <2>1, <2>2, <2>3 DEF IInv, SentOK, Setting, Fragmented, CallSent
<1> QED BY <1>8, <1>9 DEF IInv

\* OpenAI's usage chunk, and Anthropic's message_stop.
LEMMA CloseStep == IInv /\ SendClose => IInv'
<1> SUFFICES ASSUME IInv, SendClose PROVE IInv'
    OBVIOUS
<1> DEFINE r == Parse(acc, ClosePayload)
<1>1. /\ wire.form # "object" /\ Arrives(ClosePayload) /\ Fragmented
      /\ sent.finished /\ ~sent.closed
      /\ sent' = [sent EXCEPT !.closed = TRUE]
    BY DEF SendClose, IInv, SentOK
<1>2. /\ sent.begun = TRUE /\ sent.finished = TRUE /\ sent.closed = FALSE /\ AllSent
      /\ sent \in [begun : BOOLEAN, thoughts : Nat, text : Nat, calls : Seq(Nat),
                    finished : BOOLEAN, closed : BOOLEAN]
    BY <1>1, Before DEF IInv, SentOK
<1>3. /\ sent'.begun = TRUE /\ sent'.finished = TRUE /\ sent'.closed = TRUE
      /\ sent'.text = sent.text /\ sent'.thoughts = sent.thoughts
      /\ sent'.calls = sent.calls
    BY <1>1, <1>2
<1>4. /\ acc \in Acc /\ acc.garbled \in BOOLEAN /\ acc.raised \in BOOLEAN
      /\ lost = 0 =>
           /\ acc.raised = FALSE /\ acc.garbled = FALSE
           /\ acc.model = "model"
           /\ [input |-> acc.input, output |-> acc.output, total |-> acc.total] = Counted(sent)
           /\ acc.content = SubSeq(message.text, 1, sent.text)
           /\ acc.thinking = SubSeq(message.thoughts, 1, sent.thoughts)
           /\ acc.tools = Opened(sent.calls)
           /\ acc.finish = "stop"
    BY <1>1, <1>2, Before
<1>5. ASSUME NEW u, NEW model, lost = 0, model = "model",
             [input |-> u.input, output |-> u.output, total |-> u.total] = Counted(sent'),
             Becomes(acc, r, model, u, acc.content, acc.thinking, acc.tools, acc.finish)
      PROVE  Heard(sent', r)
    <2> HIDE DEF r
    <2>1. acc.content = SubSeq(message.text, 1, sent'.text)
        BY <1>3, <1>4, <1>5
    <2>2. acc.thinking = SubSeq(message.thoughts, 1, sent'.thoughts)
        BY <1>3, <1>4, <1>5
    <2>3. acc.tools = Opened(sent'.calls)
        BY <1>3, <1>4, <1>5
    <2>4. acc.finish = IF sent'.finished THEN "stop" ELSE Null
        BY <1>3, <1>4, <1>5
    <2> QED BY <1>3, <1>4, <1>5, <2>1, <2>2, <2>3, <2>4, Hears
<1>6. /\ r \in Acc /\ r.garbled = acc.garbled /\ r.raised = acc.raised /\ r.tools = acc.tools
      /\ lost = 0 => Heard(sent', r)
    <2>1. dialect \in {"openai", "anthropic"}
        BY <1>1 DEF Fragmented
    <2>2. CASE dialect = "openai"
        <3>1. Becomes(acc, r, "model", Usage, acc.content, acc.thinking, acc.tools, acc.finish)
            BY <1>4, <2>2, OpenAIClosed
        <3>2. Counted(sent') = Usage
            BY <1>3, <2>2 DEF Counted
        <3>3. [input |-> Usage.input, output |-> Usage.output, total |-> Usage.total] = Usage
            BY DEF Usage
        <3>4. ASSUME lost = 0 PROVE Heard(sent', r)
            BY <1>5, <3>1, <3>2, <3>3, <3>4
        <3> QED BY <3>1, <3>4 DEF Becomes
    <2>3. CASE dialect = "anthropic"
        <3>1. Becomes(acc, r, acc.model, acc, acc.content, acc.thinking, acc.tools, acc.finish)
            BY <1>4, <2>3, AnthropicParsed
        <3>2. Counted(sent') = Counted(sent)
            BY <1>2, <1>3, <2>3 DEF Counted
        <3>3. ASSUME lost = 0 PROVE Heard(sent', r)
            BY <1>4, <1>5, <3>1, <3>2, <3>3
        <3> QED BY <3>1, <3>3 DEF Becomes
    <2> QED BY <2>1, <2>2, <2>3
<1>7. AccOK' /\ Setting' /\ lost' \in Nat
    <2> HIDE DEF r
    <2> QED BY <1>1, <1>3, <1>6, QuietArrival DEF r
<1>8. SentOK'
    <2>1. UNCHANGED <<dialect, wire, message>>
        BY <1>1 DEF Arrives
    <2>2. AllSent'
        BY <1>2, <1>3, <2>1 DEF AllSent, CallSent
    <2> QED BY <1>1, <1>2, <1>3, <1>7, <2>1, <2>2 DEF IInv, SentOK, Setting, Fragmented, CallSent
<1> QED BY <1>7, <1>8 DEF IInv

\* The call that SendCall begins, as each dialect's parser takes it.
LEMMA CallParsed ==
    ASSUME NEW a \in Acc, message \in Messages, NEW i \in DOMAIN message.tools, i \in Nat,
           dialect \in {"openai", "anthropic", "gemini", "ollama"}, SlotsAt(a.tools, i) = {},
           NEW t, t = IF Fragmented THEN Call(i, << >>) ELSE Calls[i]
    PROVE  \E u : \E model \in {a.model, "model"} :
             /\ u.input = a.input /\ u.output = a.output /\ u.total = a.total
             /\ Becomes(a, Parse(a, CallPayload(i)), model, u, a.content, a.thinking,
                        Append(a.tools, t), a.finish)
<1> DEFINE e == << >>
           tools == Append(a.tools, t)
           r == Parse(a, CallPayload(i))
<1>1. /\ Calls[i] = Call(i, message.tools[i]) /\ message.tools[i] \in Seq(Tokens)
      /\ e \in Seq(Tokens)
    BY MessageType
<1>2. t \in Tool /\ t.index = i
    BY <1>1 DEF Call, Tool, Fragmented
<1>3. /\ a.tools \in Seq(Tool) /\ a.content \in Seq(Tokens) /\ a.thinking \in Seq(Tokens)
      /\ tools \in Seq(Tool) /\ <<t>> \in Seq(Tool) /\ a.tools \o <<t>> = tools
      /\ a.content \o e = a.content /\ a.thinking \o e = a.thinking
    <2>1. a.tools \in Seq(Tool) /\ a.content \in Seq(Tokens) /\ a.thinking \in Seq(Tokens)
        BY DEF Acc
    <2> QED BY <1>2, <2>1
<1>4. Or(Null, a.finish) = a.finish
    BY DEF Or
<1>5. CASE dialect = "openai"
    <2>1. r = Parse(a, OpenAIPayload(e, <<t>>, Null))
        BY <1>5 DEF CallPayload, Fragmented
    <2>2. tools = FoldLeft(AddFragment, a.tools, <<t>>)
        <3>1. FoldLeft(AddFragment, a.tools, <<t>>) = AddFragment(a.tools, t)
            BY FragmentsFolds
        <3> QED BY <1>2, <3>1 DEF AddFragment
    <2> HIDE DEF e, tools, r
    <2>3. Becomes(a, Parse(a, OpenAIPayload(e, <<t>>, Null)), "model", a, a.content \o e,
                  a.thinking, tools, Or(Null, a.finish))
        BY <1>1, <1>3, <1>5, <2>2, OpenAIParsed
    <2>4. Becomes(a, r, "model", a, a.content, a.thinking, tools, a.finish)
        BY <1>3, <1>4, <2>1, <2>3
    <2> QED BY <2>4 DEF r, tools
<1>6. CASE dialect = "anthropic"
    <2>1. r = Parse(a, [event |-> "tool_use_start", block |-> t])
        BY <1>6 DEF CallPayload, Fragmented
    <2>2. Becomes(a, Parse(a, [event |-> "tool_use_start", block |-> t]), a.model, a,
                  a.content, a.thinking, tools, a.finish)
        BY <1>2, <1>6, AnthropicParsed
    <2> HIDE DEF e, tools, r
    <2>3. Becomes(a, r, a.model, a, a.content, a.thinking, tools, a.finish)
        BY <2>1, <2>2
    <2> QED BY <2>3 DEF r, tools
<1>7. CASE dialect = "gemini"
    <2> DEFINE w == [input |-> Or(NoUsage.input, a.input), output |-> Or(NoUsage.output, a.output),
                     total |-> Or(NoUsage.total, a.total)]
    <2>1. NoUsage.input \in Numbers /\ NoUsage.output \in Numbers /\ NoUsage.total \in Numbers
        BY DEF NoUsage, Numbers
    <2>2. w.input = a.input /\ w.output = a.output /\ w.total = a.total
        BY DEF NoUsage, Or
    <2>3. r = Parse(a, GeminiPayload(<<Part(FALSE, e, <<t>>)>>, NoUsage, Null))
        BY <1>7 DEF CallPayload, Fragmented
    <2> HIDE DEF e, tools, r
    <2>4. Becomes(a, Parse(a, GeminiPayload(<<Part(FALSE, e, <<t>>)>>, NoUsage, Null)), "model",
                  w, IF FALSE THEN a.content ELSE a.content \o e,
                  IF FALSE THEN a.thinking \o e ELSE a.thinking,
                  a.tools \o <<t>>, Or(Null, a.finish))
        BY <1>1, <1>3, <1>7, <2>1, GeminiParsed
    <2> HIDE DEF w
    <2>5. Becomes(a, r, "model", w, a.content, a.thinking, tools, a.finish)
        BY <1>3, <1>4, <2>3, <2>4
    <2> QED BY <2>2, <2>5 DEF r, tools
<1>8. CASE dialect = "ollama"
    <2>1. r = Parse(a, OllamaPayload(e, <<t>>, FALSE))
        BY <1>8 DEF CallPayload, Fragmented
    <2> HIDE DEF e, tools, r
    <2>2. Becomes(a, Parse(a, OllamaPayload(e, <<t>>, FALSE)), "model", a, a.content \o e,
                  a.thinking, a.tools \o <<t>>, a.finish)
        BY <1>1, <1>3, <1>8, OllamaParsed
    <2>3. Becomes(a, r, "model", a, a.content, a.thinking, tools, a.finish)
        BY <1>3, <2>1, <2>2
    <2> QED BY <2>3 DEF r, tools
<1> QED BY <1>5, <1>6, <1>7, <1>8

\* A tool call: begun in two dialects, whole in the others.
LEMMA CallStep == IInv /\ SendCall => IInv'
<1> SUFFICES ASSUME IInv, SendCall PROVE IInv'
    OBVIOUS
<1> DEFINE i == Len(sent.calls) + 1
           n == IF Fragmented THEN 0 ELSE Len(message.tools[i])
           t == IF Fragmented THEN Call(i, << >>) ELSE Calls[i]
           more == Append(sent.calls, n)
           r == Parse(acc, CallPayload(i))
<1>1. /\ wire.form # "object" /\ Arrives(CallPayload(i))
      /\ sent.begun = TRUE /\ sent.finished = FALSE
      /\ sent' = [sent EXCEPT !.calls = more]
      /\ i <= Len(message.tools)
    BY Before DEF SendCall, Streaming
<1>2. /\ sent.closed = FALSE /\ sent.calls \in Seq(Nat)
      /\ sent \in [begun : BOOLEAN, thoughts : Nat, text : Nat, calls : Seq(Nat),
                    finished : BOOLEAN, closed : BOOLEAN]
    BY <1>1, Before DEF IInv, SentOK
<1>3. /\ message \in Messages /\ message.tools \in Seq(Seq(Tokens))
      /\ i \in Nat /\ i \in DOMAIN message.tools /\ message.tools[i] \in Seq(Tokens)
      /\ Calls[i] = Call(i, message.tools[i])
    <2>1. message \in Messages /\ message.tools \in Seq(Seq(Tokens))
        BY MessageType DEF IInv, Setting
    <2>2. i \in Nat /\ i \in DOMAIN message.tools
        BY <1>1, <1>2, <2>1
    <2> HIDE DEF i
    <2> QED BY <2>1, <2>2, MessageType
<1>4. n \in Nat /\ n <= Len(message.tools[i]) /\ (~Fragmented => n = Len(message.tools[i]))
    BY <1>3
<1>5. t = Call(i, SubSeq(message.tools[i], 1, n))
    <2> DEFINE all == message.tools[i]
    <2>1. SubSeq(all, 1, 0) = << >> /\ SubSeq(all, 1, Len(all)) = all
        BY <1>3, SentSoFar
    <2> HIDE DEF all, i
    <2> QED BY <1>3, <2>1 DEF all
<1>6. /\ more \in Seq(Nat) /\ DOMAIN more = 1..i /\ DOMAIN sent.calls = 1..(i - 1)
      /\ more[i] = n
      /\ \A k \in 1..(i - 1) : more[k] = sent.calls[k]
    BY <1>2, <1>4
<1>7. t.index = i /\ t.id = i /\ t.name = i /\ t.args = SubSeq(message.tools[i], 1, n)
    BY <1>5 DEF Call
<1> HIDE DEF n, more, t
<1>8. Fits(more, t)
    <2> DEFINE all == message.tools[i]
    <2>1. Among(t.args, all, n)
        <3>1. CASE Fragmented
            <4>1. n = 0 /\ t.args = << >>
                BY <1>7, <3>1, SubSeqEmpty DEF n
            <4> QED BY <4>1, AmongNone
        <3>2. CASE ~Fragmented
            <4>1. n = Len(all) /\ all \in Seq(Tokens)
                BY <1>3, <3>2 DEF n
            <4>2. t.args = all
                BY <1>7, <4>1, SubSeqFull
            <4> QED BY <4>1, <4>2, AmongAll
        <3> QED BY <3>1, <3>2
    <2>2. i \in DOMAIN more
        BY <1>3, <1>6
    <2> QED BY <1>6, <1>7, <2>1, <2>2 DEF Fits
<1>9. /\ acc \in Acc /\ acc.garbled \in BOOLEAN /\ acc.raised \in BOOLEAN
      /\ acc.tools \in Seq(Tool)
      /\ dialect \in {"openai", "anthropic", "gemini", "ollama"}
      /\ ToolsFit(sent.calls, acc.tools)
      /\ lost = 0 =>
           /\ acc.raised = FALSE /\ acc.garbled = FALSE
           /\ acc.model = "model"
           /\ [input |-> acc.input, output |-> acc.output, total |-> acc.total] = Counted(sent)
           /\ acc.content = SubSeq(message.text, 1, sent.text)
           /\ acc.thinking = SubSeq(message.thoughts, 1, sent.thoughts)
           /\ acc.tools = Opened(sent.calls)
           /\ acc.finish = Null
    BY <1>1, Before
<1>10. /\ ToolsFit(more, acc.tools) /\ ToolsFit(more, Append(acc.tools, t))
       /\ SlotsAt(acc.tools, i) = {}
    <2>1. t.index = Len(sent.calls) + 1 /\ Fits(Append(sent.calls, n), t)
        BY <1>7, <1>8 DEF more
    <2>2. /\ ToolsFit(Append(sent.calls, n), acc.tools)
          /\ ToolsFit(Append(sent.calls, n), Append(acc.tools, t))
          /\ SlotsAt(acc.tools, t.index) = {}
        BY <1>2, <1>4, <1>9, <2>1, ToolsFitNew
    <2> QED BY <1>7, <2>2 DEF more
<1>11. /\ sent'.begun = TRUE /\ sent'.finished = FALSE /\ sent'.closed = FALSE
       /\ sent'.text = sent.text /\ sent'.thoughts = sent.thoughts
       /\ sent'.calls = more
    BY <1>1, <1>2
<1>12. Append(Opened(sent.calls), t) = Opened(more)
    <2> DEFINE old == Opened(sent.calls)
               new == Opened(more)
    <2>1. /\ DOMAIN old = 1..(i - 1) /\ DOMAIN new = 1..i
          /\ \A k \in 1..(i - 1) : old[k] = Call(k, SubSeq(message.tools[k], 1, sent.calls[k]))
          /\ \A k \in 1..i : new[k] = Call(k, SubSeq(message.tools[k], 1, more[k]))
          /\ new = [k \in 1..i |-> new[k]] /\ old = [k \in 1..(i - 1) |-> old[k]]
        BY <1>6 DEF Opened
    <2> HIDE DEF old, new, i
    <2> DEFINE S == {new[k] : k \in 1..i}
    <2>2. /\ i - 1 \in Nat /\ (i - 1) + 1 = i
          /\ new[i] = t
          /\ \A k \in 1..(i - 1) : new[k] = old[k]
        BY <1>3, <1>5, <1>6, <2>1
    <2>3. \A k \in 1..i : new[k] \in S
        OBVIOUS
    <2> HIDE DEF S
    <2>4. old \in [1..(i - 1) -> S] /\ new \in [1..i -> S] /\ t \in S
        <3>1. \A k \in 1..(i - 1) : k \in 1..i /\ old[k] \in S
            BY <2>2, <2>3, <1>3
        <3>2. i \in 1..i /\ t \in S
            BY <1>3, <2>2, <2>3
        <3>3. [k \in 1..(i - 1) |-> old[k]] \in [1..(i - 1) -> S]
            BY <3>1
        <3>4. [k \in 1..i |-> new[k]] \in [1..i -> S]
            BY <2>3
        <3> QED BY <2>1, <3>2, <3>3, <3>4
    <2>5. old \in Seq(S) /\ new \in Seq(S) /\ Len(old) = i - 1 /\ Len(new) = i
        BY <1>3, <2>1, <2>2, <2>4
    <2>6. /\ Append(old, t) \in Seq(S) /\ Len(Append(old, t)) = i
          /\ \A k \in 1..(i - 1) : Append(old, t)[k] = old[k]
          /\ Append(old, t)[i] = t
        BY <2>2, <2>4, <2>5, AppendProperties
    <2>7. \A k \in 1..i : Append(old, t)[k] = new[k]
        <3>1. \A k \in 1..i : k = i \/ k \in 1..(i - 1)
            BY <1>3
        <3> QED BY <2>2, <2>6, <3>1
    <2>8. Append(old, t) = new
        BY <2>5, <2>6, <2>7, SeqEqual
    <2> QED BY <2>8 DEF old, new
<1>u. PICK u : \E model \in {acc.model, "model"} :
           /\ u.input = acc.input /\ u.output = acc.output /\ u.total = acc.total
           /\ Becomes(acc, r, model, u, acc.content, acc.thinking, Append(acc.tools, t), acc.finish)
    <2> HIDE DEF i
    <2> QED BY <1>3, <1>9, <1>10, CallParsed DEF t
<1>13. PICK model \in {acc.model, "model"} :
           /\ u.input = acc.input /\ u.output = acc.output /\ u.total = acc.total
           /\ Becomes(acc, r, model, u, acc.content, acc.thinking, Append(acc.tools, t), acc.finish)
    BY <1>u
<1> HIDE DEF r
<1>14. /\ r \in Acc /\ r.garbled = acc.garbled /\ r.raised = acc.raised
       /\ r.tools = Append(acc.tools, t)
    BY <1>13 DEF Becomes
<1>15. ASSUME lost = 0 PROVE Heard(sent', r)
    <2>1. acc.content = SubSeq(message.text, 1, sent'.text)
        BY <1>9, <1>11, <1>15
    <2>2. acc.thinking = SubSeq(message.thoughts, 1, sent'.thoughts)
        BY <1>9, <1>11, <1>15
    <2>3. Append(acc.tools, t) = Opened(sent'.calls)
        BY <1>9, <1>11, <1>12, <1>15
    <2>4. acc.finish = IF sent'.finished THEN "stop" ELSE Null
        BY <1>9, <1>11, <1>15
    <2>5. Counted(sent') = Counted(sent)
        BY <1>1, <1>2, <1>11 DEF Counted
    <2>6. model = "model" /\ [input |-> u.input, output |-> u.output, total |-> u.total] = Counted(sent')
        BY <1>9, <1>13, <1>15, <2>5
    <2>7. Becomes(acc, r, model, u, acc.content, acc.thinking, Append(acc.tools, t), acc.finish)
        BY <1>13
    <2> QED BY <1>9, <1>11, <1>15, <2>1, <2>2, <2>3, <2>4, <2>6, <2>7, Hears
<1>16. AccOK' /\ Setting' /\ lost' \in Nat
    <2>1. ToolsFit(sent'.calls, acc.tools) /\ ToolsFit(sent'.calls, r.tools)
        BY <1>10, <1>11, <1>14
    <2> HIDE DEF i
    <2> QED BY <1>1, <1>14, <1>15, <2>1, Arrival DEF r
<1>17. SentOK'
    <2>1. UNCHANGED <<dialect, wire, message>>
        BY <1>1 DEF Arrives
    <2>2. sent' \in [begun : BOOLEAN, thoughts : Nat, text : Nat, calls : Seq(Nat),
                     finished : BOOLEAN, closed : BOOLEAN]
        BY <1>1, <1>2, <1>6
    <2>3. /\ sent.thoughts <= Len(message.thoughts) /\ sent.text <= Len(message.text)
          /\ \A k \in 1..(i - 1) : /\ sent.calls[k] <= Len(message.tools[k])
                                   /\ ~Fragmented => sent.calls[k] = Len(message.tools[k])
        BY <1>6 DEF IInv, SentOK, CallSent
    <2>4. ASSUME NEW k \in 1..i
          PROVE  /\ more[k] <= Len(message.tools[k])
                 /\ ~Fragmented => more[k] = Len(message.tools[k])
        <3> HIDE DEF i
        <3>1. CASE k = i
            BY <1>4, <1>6, <3>1
        <3>2. CASE k # i
            <4>1. k \in 1..(i - 1)
                BY <1>3, <3>2
            <4> QED BY <1>6, <2>3, <4>1
        <3> QED BY <3>1, <3>2
    <2>5. Len(more) = i
        BY <1>2, <1>4 DEF more
    <2> HIDE DEF i
    <2> QED BY <1>1, <1>6, <1>11, <1>16, <2>1, <2>2, <2>3, <2>4, <2>5 DEF SentOK, Fragmented, CallSent
<1> QED BY <1>16, <1>17 DEF IInv

\* What ExtendInput does to the tool calls, and what it does to those begun.
LEMMA InputExtended ==
    ASSUME NEW tools \in Seq(Tool), NEW i \in Nat, NEW x \in Seq(Tokens)
    PROVE  ExtendInput(tools, i, x) \in Seq(Tool) /\ Extends(ExtendInput(tools, i, x), tools, i, x)
<1> DEFINE r == ExtendInput(tools, i, x)
<1>1. DOMAIN r = DOMAIN tools /\ r = [j \in DOMAIN tools |-> r[j]]
    BY DEF ExtendInput
<1>2. DOMAIN tools = 1..Len(tools) /\ Len(tools) \in Nat /\ \A j \in 1..Len(tools) : tools[j] \in Tool
    OBVIOUS
<1>3. ASSUME NEW j \in 1..Len(tools)
      PROVE  /\ r[j] \in Tool
             /\ tools[j].index = i =>
                  /\ r[j].index = i /\ r[j].id = tools[j].id /\ r[j].name = tools[j].name
                  /\ r[j].args = tools[j].args \o x
             /\ tools[j].index # i => r[j] = tools[j]
    <2> DEFINE t == tools[j]
    <2>1. t \in Tool
        BY <1>2
    <2>2. r[j] = IF t.index = i THEN [t EXCEPT !.args = @ \o x] ELSE t
        BY <1>2 DEF ExtendInput
    <2> HIDE DEF t, r
    <2>3. t.args \o x \in Seq(Tokens)
        BY <2>1 DEF Tool
    <2>4. CASE t.index = i
        <3>1. r[j] = [t EXCEPT !.args = t.args \o x]
            BY <2>2, <2>4
        <3>2. /\ r[j] \in Tool
              /\ r[j].index = i /\ r[j].id = t.id /\ r[j].name = t.name
              /\ r[j].args = t.args \o x
            BY <2>1, <2>3, <2>4, <3>1 DEF Tool
        <3> QED BY <2>4, <3>2 DEF t
    <2>5. CASE t.index # i
        BY <2>1, <2>2, <2>5 DEF t
    <2> QED BY <2>4, <2>5
<1> HIDE DEF r
<1>4. r \in Seq(Tool)
    BY <1>1, <1>2, <1>3
<1>5. Extends(r, tools, i, x)
    BY <1>1, <1>2, <1>3 DEF Extends
<1> QED BY <1>4, <1>5 DEF r

\* A call with more arguments, and one that is only told by its index.
LEMMA CallLonger ==
    ASSUME NEW k, NEW q, NEW more
    PROVE  [Call(k, q) EXCEPT !.args = @ \o more] = Call(k, q \o more)
<1> DEFINE S == [index : {k}, id : {k}, name : {k}, args : {q, q \o more}]
           c == Call(k, q)
           r == [c EXCEPT !.args = @ \o more]
           l == Call(k, q \o more)
<1>1. c \in S /\ c.args = q /\ l \in S /\ l.args = q \o more
    BY DEF Call
<1> HIDE DEF c, l
<1>2. r \in S /\ r.args = q \o more
    BY <1>1
<1> HIDE DEF r
<1>3. r = l
    BY <1>1, <1>2
<1> QED BY <1>3 DEF r, c, l

\* A fragment of OpenAI that continues a call has its index and nothing else.
LEMMA CallNameless ==
    ASSUME NEW k, NEW q
    PROVE  [Call(k, q) EXCEPT !.id = Null, !.name = Null]
               = [index |-> k, id |-> Null, name |-> Null, args |-> q]
<1> DEFINE S == [index : {k}, id : {k, Null}, name : {k, Null}, args : {q}]
           c == Call(k, q)
           r == [c EXCEPT !.id = Null, !.name = Null]
           l == [index |-> k, id |-> Null, name |-> Null, args |-> q]
<1>1. c \in S /\ l \in S /\ l.id = Null /\ l.name = Null
    BY DEF Call
<1> HIDE DEF c, l
<1>2. r \in S /\ r.id = Null /\ r.name = Null
    BY <1>1
<1> HIDE DEF r
<1>3. r = l
    BY <1>1, <1>2
<1> QED BY <1>3 DEF r, c, l

\* One more argument of a call that was begun is that argument at its end.
LEMMA OpenedExtended ==
    ASSUME message.tools \in Seq(Seq(Tokens)), NEW calls \in Seq(Nat), NEW i \in DOMAIN calls,
           DOMAIN calls \subseteq DOMAIN message.tools, calls[i] < Len(message.tools[i])
    PROVE  ExtendInput(Opened(calls), i, <<message.tools[i][calls[i] + 1]>>) = Opened(OneMore(calls, i))
<1> DEFINE x == <<message.tools[i][calls[i] + 1]>>
           old == Opened(calls)
           ext == ExtendInput(old, i, x)
           more == OneMore(calls, i)
           new == Opened(more)
           args(j) == SubSeq(message.tools[j], 1, calls[j])
<1>1. /\ DOMAIN more = DOMAIN calls
      /\ \A j \in DOMAIN calls : more[j] = IF j = i THEN calls[i] + 1 ELSE calls[j]
    BY OneMoreIsMore
<1> HIDE DEF more
<1>2. \A j \in DOMAIN calls : /\ old[j] = Call(j, args(j))
                              /\ new[j] = Call(j, SubSeq(message.tools[j], 1, more[j]))
    BY <1>1 DEF Opened
<1>3. /\ DOMAIN old = DOMAIN calls /\ DOMAIN new = DOMAIN calls
      /\ new = [j \in DOMAIN calls |-> new[j]]
    BY <1>1 DEF Opened
<1>4. /\ ext = [j \in DOMAIN calls |-> ext[j]]
      /\ \A j \in DOMAIN calls :
           ext[j] = IF old[j].index = i THEN [old[j] EXCEPT !.args = @ \o x] ELSE old[j]
    BY <1>3 DEF ExtendInput
<1>5. SubSeq(message.tools[i], 1, calls[i] + 1) = args(i) \o x
    <2> DEFINE all == message.tools[i]
               n == calls[i]
    <2>1. all \in Seq(Tokens) /\ n \in Nat /\ n < Len(all)
        OBVIOUS
    <2> HIDE DEF all, n
    <2>2. SubSeq(all, 1, n + 1) = SubSeq(all, 1, n) \o <<all[n + 1]>>
        BY <2>1, SentSoFar
    <2> QED BY <2>2 DEF all, n
<1> HIDE DEF ext, new, old, args, x
<1>6. ASSUME NEW j \in DOMAIN calls PROVE ext[j] = new[j]
    <2>1. old[j].index = j /\ old[j] = [index |-> j, id |-> j, name |-> j, args |-> args(j)]
        <3>1. old[j] = Call(j, args(j))
            BY <1>2
        <3> QED BY <3>1 DEF Call
    <2>2. CASE j = i
        <3>1. ext[j] = [old[j] EXCEPT !.args = @ \o x]
            BY <1>4, <2>1, <2>2
        <3>2. [Call(j, args(j)) EXCEPT !.args = @ \o x] = Call(j, args(j) \o x)
            BY CallLonger
        <3>3. old[j] = Call(j, args(j)) /\ new[j] = Call(j, args(j) \o x)
            BY <1>1, <1>2, <1>5, <2>2
        <3> QED BY <3>1, <3>2, <3>3
    <2>3. CASE j # i
        <3>1. ext[j] = old[j]
            BY <1>4, <2>1, <2>3
        <3>2. more[j] = calls[j]
            BY <1>1, <2>3
        <3> QED BY <1>2, <3>1, <3>2 DEF args
    <2> QED BY <2>2, <2>3
<1>7. ext = new
    BY <1>3, <1>4, <1>6
<1> QED BY <1>7 DEF ext, new, old, x, more

\* The argument that SendArgument brings: to the call it is for wherever that was
\* extracted, and in OpenAI's dialect to a new one, nameless, where it was not.
LEMMA ArgumentParsed ==
    ASSUME NEW a \in Acc, NEW i \in Nat, NEW token \in Tokens,
           dialect \in {"openai", "anthropic"}
    PROVE  \E model \in {a.model, "model"}, tools \in Seq(Tool) :
             /\ \/ tools = ExtendInput(a.tools, i, <<token>>)
                \/ /\ SlotsAt(a.tools, i) = {}
                   /\ tools = Append(a.tools, [index |-> i, id |-> Null, name |-> Null,
                                               args |-> <<token>>])
             /\ SlotsAt(a.tools, i) # {} => tools = ExtendInput(a.tools, i, <<token>>)
             /\ Becomes(a, Parse(a, ArgumentPayload(i, token)), model, a, a.content, a.thinking,
                        tools, a.finish)
<1> DEFINE x == <<token>>
           e == << >>
           ext == ExtendInput(a.tools, i, x)
           r == Parse(a, ArgumentPayload(i, token))
<1>1. a.tools \in Seq(Tool) /\ a.content \in Seq(Tokens) /\ x \in Seq(Tokens)
      /\ e \in Seq(Tokens) /\ a.content \o e = a.content
    <2>1. a.tools \in Seq(Tool) /\ a.content \in Seq(Tokens)
        BY DEF Acc
    <2> QED BY <2>1
<1>2. ext \in Seq(Tool)
    BY <1>1, InputExtended
<1>3. CASE dialect = "anthropic"
    <2>1. r = Parse(a, Delta("input_json", i, x))
        BY <1>3 DEF ArgumentPayload
    <2> HIDE DEF x, e, r
    <2>2. Becomes(a, Parse(a, Delta("input_json", i, x)), a.model, a, a.content, a.thinking,
                  ext, a.finish)
        BY <1>1, <1>2, <1>3, AnthropicParsed
    <2>3. Becomes(a, r, a.model, a, a.content, a.thinking, ext, a.finish)
        BY <2>1, <2>2
    <2> HIDE DEF ext
    <2> QED BY <1>2, <2>3 DEF ext, r, x
<1>4. CASE dialect = "openai"
    <2> DEFINE f == [Call(i, x) EXCEPT !.id = Null, !.name = Null]
               tools == AddFragment(a.tools, f)
    <2>1. r = Parse(a, OpenAIPayload(e, <<f>>, Null))
        BY <1>4 DEF ArgumentPayload
    <2>2. f = [index |-> i, id |-> Null, name |-> Null, args |-> x]
        <3> HIDE DEF x
        <3> QED BY CallNameless
    <2> HIDE DEF f
    <2>3. /\ f.index = i /\ f.id = Null /\ f.name = Null /\ f.args = x
          /\ f \in Tool
        BY <1>1, <2>2 DEF Tool
    <2>4. ASSUME SlotsAt(a.tools, i) = {} PROVE tools = Append(a.tools, f)
        BY <2>3, <2>4 DEF AddFragment
    <2>5. ASSUME SlotsAt(a.tools, i) # {} PROVE tools = ext
        <3>1. ASSUME NEW t \in Tool
              PROVE  [t EXCEPT !.id = Or(f.id, @), !.name = Or(f.name, @), !.args = @ \o f.args]
                         = [t EXCEPT !.args = @ \o x]
            BY <2>3 DEF Or, Tool
        <3>2. tools = [j \in DOMAIN a.tools |->
                         IF a.tools[j].index # i THEN a.tools[j]
                         ELSE [a.tools[j] EXCEPT !.id = Or(f.id, @), !.name = Or(f.name, @),
                                                 !.args = @ \o f.args]]
            BY <2>3, <2>5 DEF AddFragment
        <3>3. \A j \in DOMAIN a.tools : a.tools[j] \in Tool
            BY <1>1
        <3> HIDE DEF x, tools
        <3>4. tools = [j \in DOMAIN a.tools |->
                         IF a.tools[j].index # i THEN a.tools[j]
                         ELSE [a.tools[j] EXCEPT !.args = @ \o x]]
            BY <3>1, <3>2, <3>3
        <3>5. ext = [j \in DOMAIN a.tools |->
                         IF a.tools[j].index = i THEN [a.tools[j] EXCEPT !.args = @ \o x]
                         ELSE a.tools[j]]
            BY DEF ExtendInput
        <3> HIDE DEF ext
        <3> QED BY <3>4, <3>5
    <2>6. tools = FoldLeft(AddFragment, a.tools, <<f>>)
        BY FragmentsFolds
    <2> HIDE DEF tools, ext, x, e, r
    <2>7. tools \in Seq(Tool)
        <3>1. Append(a.tools, f) \in Seq(Tool)
            BY <1>1, <2>3
        <3> QED BY <1>2, <2>4, <2>5, <3>1
    <2>8. Becomes(a, Parse(a, OpenAIPayload(e, <<f>>, Null)), "model", a, a.content \o e,
                  a.thinking, tools, Or(Null, a.finish))
        BY <1>1, <1>4, <2>6, <2>7, OpenAIParsed
    <2>9. Becomes(a, r, "model", a, a.content, a.thinking, tools, a.finish)
        BY <1>1, <2>1, <2>8 DEF Or
    <2>10. /\ tools = ext \/ (SlotsAt(a.tools, i) = {} /\ tools = Append(a.tools, f))
           /\ SlotsAt(a.tools, i) # {} => tools = ext
        BY <2>4, <2>5
    <2> QED BY <2>2, <2>7, <2>9, <2>10 DEF ext, x, r
<1> QED BY <1>3, <1>4

\* The argument goes to the end of the call it is for, if that was extracted.
LEMMA ToolsFitExtended ==
    ASSUME message.tools \in Seq(Seq(Tokens)),
           NEW calls \in Seq(Nat), NEW i \in Nat, NEW tools \in Seq(Tool), NEW x,
           i \in DOMAIN calls, i \in DOMAIN message.tools, calls[i] < Len(message.tools[i]),
           x = <<message.tools[i][calls[i] + 1]>>, message.tools[i][calls[i] + 1] \in Tokens,
           ToolsFit(calls, tools)
    PROVE  ToolsFit(OneMore(calls, i), ExtendInput(tools, i, x))
<1> DEFINE r == ExtendInput(tools, i, x)
<1>1. x \in Seq(Tokens)
    OBVIOUS
<1>2. Extends(r, tools, i, x)
    BY <1>1, InputExtended
<1> HIDE DEF r
<1>3. ToolsFit(OneMore(calls, i), r)
    BY <1>2, ToolsFitArgument
<1> QED BY <1>3 DEF r

\* An argument of a call that was begun, which may have been lost on the parser.
LEMMA ArgumentStep == IInv /\ SendArgument => IInv'
<1> SUFFICES ASSUME IInv, SendArgument PROVE IInv'
    OBVIOUS
<1>1. PICK i \in DOMAIN sent.calls :
          /\ wire.form # "object" /\ sent.begun = TRUE /\ sent.finished = FALSE
          /\ ~CallSent(i)
          /\ sent' = [sent EXCEPT !.calls[i] = @ + 1]
          /\ Arrives(ArgumentPayload(i, message.tools[i][sent.calls[i] + 1]))
    BY Before DEF SendArgument, Streaming
<1> DEFINE calls == sent.calls
           token == message.tools[i][calls[i] + 1]
           x == <<token>>
           more == OneMore(calls, i)
           r == Parse(acc, ArgumentPayload(i, token))
<1>2. /\ sent.closed = FALSE /\ calls \in Seq(Nat)
      /\ sent \in [begun : BOOLEAN, thoughts : Nat, text : Nat, calls : Seq(Nat),
                    finished : BOOLEAN, closed : BOOLEAN]
      /\ sent.thoughts <= Len(message.thoughts) /\ sent.text <= Len(message.text)
      /\ Len(calls) <= Len(message.tools)
      /\ \A k \in DOMAIN calls : /\ calls[k] <= Len(message.tools[k])
                                 /\ ~Fragmented => CallSent(k)
    BY <1>1, Before DEF IInv, SentOK
<1>3. message \in Messages /\ message.tools \in Seq(Seq(Tokens))
    BY MessageType DEF IInv, Setting
<1>4. /\ i \in Nat /\ i \in DOMAIN calls /\ DOMAIN calls \subseteq DOMAIN message.tools
      /\ message.tools[i] \in Seq(Tokens) /\ calls[i] \in Nat
      /\ calls[i] < Len(message.tools[i])
      /\ Fragmented
    <2>1. i \in Nat /\ i \in DOMAIN calls /\ DOMAIN calls \subseteq DOMAIN message.tools
        BY <1>2, <1>3
    <2>2. message.tools[i] \in Seq(Tokens) /\ calls[i] \in Nat
        BY <1>2, <1>3, <2>1
    <2>3. calls[i] # Len(message.tools[i])
        BY <1>1 DEF CallSent
    <2>4. calls[i] <= Len(message.tools[i]) /\ Fragmented
        BY <1>1, <1>2, <2>1
    <2> HIDE DEF calls
    <2> QED BY <2>1, <2>2, <2>3, <2>4
<1>5. token \in Tokens
    <2> DEFINE all == message.tools[i]
               n == calls[i]
    <2>1. all \in Seq(Tokens) /\ n \in Nat /\ n < Len(all)
        BY <1>4
    <2> HIDE DEF all, n
    <2>2. all[n + 1] \in Tokens
        BY <2>1, SentSoFar
    <2> QED BY <2>2 DEF all, n
<1>6. sent' = [sent EXCEPT !.calls = more]
    BY <1>1 DEF OneMore
<1>7. /\ more \in Seq(Nat) /\ DOMAIN more = DOMAIN calls /\ Len(more) = Len(calls)
      /\ \A k \in DOMAIN calls : more[k] = IF k = i THEN calls[i] + 1 ELSE calls[k]
      /\ \A k \in DOMAIN calls : calls[k] <= more[k]
    BY <1>2, <1>4, OneMoreIsMore
<1> HIDE DEF more
<1>8. /\ sent'.begun = TRUE /\ sent'.finished = FALSE /\ sent'.closed = FALSE
      /\ sent'.text = sent.text /\ sent'.thoughts = sent.thoughts
      /\ sent'.calls = more
      /\ sent' \in [begun : BOOLEAN, thoughts : Nat, text : Nat, calls : Seq(Nat),
                    finished : BOOLEAN, closed : BOOLEAN]
    BY <1>1, <1>2, <1>6, <1>7
<1>9. /\ acc \in Acc /\ acc.garbled \in BOOLEAN /\ acc.raised \in BOOLEAN
      /\ acc.tools \in Seq(Tool)
      /\ dialect \in {"openai", "anthropic"}
      /\ ToolsFit(calls, acc.tools)
      /\ lost = 0 =>
           /\ acc.raised = FALSE /\ acc.garbled = FALSE
           /\ acc.model = "model"
           /\ [input |-> acc.input, output |-> acc.output, total |-> acc.total] = Counted(sent)
           /\ acc.content = SubSeq(message.text, 1, sent.text)
           /\ acc.thinking = SubSeq(message.thoughts, 1, sent.thoughts)
           /\ acc.tools = Opened(calls)
           /\ acc.finish = Null
    BY <1>1, <1>4, Before DEF Fragmented
<1> DEFINE ext == ExtendInput(acc.tools, i, x)
<1>10. PICK model \in {acc.model, "model"}, tools \in Seq(Tool) :
           /\ \/ tools = ext
              \/ /\ SlotsAt(acc.tools, i) = {}
                 /\ tools = Append(acc.tools, [index |-> i, id |-> Null, name |-> Null, args |-> x])
           /\ SlotsAt(acc.tools, i) # {} => tools = ext
           /\ Becomes(acc, r, model, acc, acc.content, acc.thinking, tools, acc.finish)
    <2> HIDE DEF token
    <2> QED BY <1>4, <1>5, <1>9, ArgumentParsed
<1> HIDE DEF r
<1>11. /\ r \in Acc /\ r.garbled = acc.garbled /\ r.raised = acc.raised /\ r.tools = tools
    BY <1>10 DEF Becomes
<1>12. ToolsFit(more, acc.tools)
    BY <1>2, <1>7, <1>9, ToolsFitMore
<1>13. ToolsFit(more, tools)
    <2>1. CASE tools = ext
        <3> DEFINE old == acc.tools
        <3>1. old \in Seq(Tool) /\ ext = ExtendInput(old, i, x) /\ ToolsFit(calls, old)
            BY <1>9
        <3>2. x = <<message.tools[i][calls[i] + 1]>>
            OBVIOUS
        <3> HIDE DEF old, ext, x, calls
        <3>3. ToolsFit(OneMore(calls, i), ExtendInput(old, i, x))
            BY <1>2, <1>3, <1>4, <1>5, <3>1, <3>2, ToolsFitExtended
        <3> QED BY <2>1, <3>1, <3>3 DEF more
    <2>2. CASE /\ SlotsAt(acc.tools, i) = {}
               /\ tools = Append(acc.tools, [index |-> i, id |-> Null, name |-> Null, args |-> x])
        <3> DEFINE t == [index |-> i, id |-> Null, name |-> Null, args |-> x]
        <3>1. t.index = i /\ t.id = Null /\ t.name = Null /\ t.args = x
            OBVIOUS
        <3> HIDE DEF t
        <3>2. Among(x, message.tools[i], more[i])
            <4> DEFINE all == message.tools[i]
                       n == calls[i]
            <4>1. all \in Seq(Tokens) /\ n \in Nat /\ n < Len(all) /\ x = <<all[n + 1]>>
                  /\ more[i] = n + 1
                BY <1>4, <1>7
            <4> HIDE DEF all, n, x
            <4>2. Among(<< >>, all, 0) /\ Among(<< >>, all, n)
                BY AmongNone
            <4>3. << >> \in Seq(Tokens) /\ all[n + 1] \in Tokens
                BY <4>1, SentSoFar
            <4>4. Among(<< >> \o <<all[n + 1]>>, all, n + 1)
                BY <4>1, <4>2, <4>3, AmongNext
            <4>5. << >> \o <<all[n + 1]>> = <<all[n + 1]>>
                BY <4>3
            <4> QED BY <4>1, <4>4, <4>5 DEF all
        <3> HIDE DEF x
        <3>3. Fits(more, t)
            BY <1>4, <1>7, <3>1, <3>2 DEF Fits
        <3>4. ToolsFit(more, Append(acc.tools, t))
            BY <1>9, <1>12, <2>2, <3>1, <3>3, ToolsFitAppend
        <3> QED BY <2>2, <3>4 DEF t
    <2> QED BY <1>10, <2>1, <2>2
<1>14. ASSUME lost = 0 PROVE Heard(sent', r)
    <2>1. acc.tools = Opened(calls)
        BY <1>9, <1>14
    <2>2. SlotsAt(acc.tools, i) # {}
        <3>1. i \in DOMAIN acc.tools /\ acc.tools[i].index = i
            BY <1>4, <2>1 DEF Opened, Call
        <3> QED BY <3>1 DEF SlotsAt
    <2>3. tools = ext
        BY <1>10, <2>2
    <2>4. ext = Opened(more)
        BY <1>2, <1>3, <1>4, <2>1, OpenedExtended DEF more
    <2> HIDE DEF ext
    <2>5. acc.content = SubSeq(message.text, 1, sent'.text)
        BY <1>8, <1>9, <1>14
    <2>6. acc.thinking = SubSeq(message.thoughts, 1, sent'.thoughts)
        BY <1>8, <1>9, <1>14
    <2>7. tools = Opened(sent'.calls)
        BY <1>8, <2>3, <2>4
    <2>8. acc.finish = IF sent'.finished THEN "stop" ELSE Null
        BY <1>8, <1>9, <1>14
    <2>9. Counted(sent') = Counted(sent)
        BY <1>1, <1>2, <1>8 DEF Counted
    <2>10. /\ model = "model"
           /\ [input |-> acc.input, output |-> acc.output, total |-> acc.total] = Counted(sent')
        BY <1>9, <1>10, <1>14, <2>9
    <2>11. Becomes(acc, r, model, acc, acc.content, acc.thinking, tools, acc.finish)
        BY <1>10
    <2> QED BY <1>8, <1>9, <1>14, <2>5, <2>6, <2>7, <2>8, <2>10, <2>11, Hears
<1>15. AccOK' /\ Setting' /\ lost' \in Nat
    <2>1. ToolsFit(sent'.calls, acc.tools) /\ ToolsFit(sent'.calls, r.tools)
        BY <1>8, <1>11, <1>12, <1>13
    <2>2. Arrives(ArgumentPayload(i, token)) /\ r = Parse(acc, ArgumentPayload(i, token))
        BY <1>1 DEF r
    <2> HIDE DEF token
    <2> QED BY <1>1, <1>11, <1>14, <2>1, <2>2, Arrival
<1>16. SentOK'
    <2>1. UNCHANGED <<dialect, wire, message>>
        BY <1>1 DEF Arrives
    <2>2. ASSUME NEW k \in DOMAIN more PROVE more[k] <= Len(message.tools[k])
        <3>1. CASE k = i
            BY <1>4, <1>7, <3>1
        <3>2. CASE k # i
            BY <1>2, <1>7, <3>2
        <3> QED BY <3>1, <3>2
    <2> HIDE DEF calls
    <2> QED BY <1>1, <1>2, <1>4, <1>7, <1>8, <1>15, <2>1, <2>2 DEF SentOK, Fragmented, CallSent
<1> QED BY <1>15, <1>16 DEF IInv

\* The message as one object.
LEMMA WholeIsAResult ==
    ASSUME message \in Messages
    PROVE  /\ Whole \in Acc
           /\ Whole.model = "model" /\ Whole.input = 5 /\ Whole.output = 3 /\ Whole.total = 8
           /\ Whole.content = message.text /\ Whole.thinking = message.thoughts
           /\ Whole.tools = Calls /\ Whole.finish = "stop"
           /\ Whole.seen = TRUE /\ Whole.garbled = FALSE /\ Whole.raised = FALSE
<1>1. 5 \in Numbers /\ 3 \in Numbers /\ 8 \in Numbers
    BY DEF Numbers
<1>2. message.text \in Seq(Tokens) /\ message.thoughts \in Seq(Tokens) /\ Calls \in Seq(Tool)
    BY MessageType
<1>3. Whole \in Acc
    BY <1>1, <1>2 DEF Whole, Acc
<1> QED BY <1>3 DEF Whole

\* The fields of the result a parser starts with.
LEMMA NothingHas ==
    /\ Nothing.model = Null /\ Nothing.input = Null /\ Nothing.output = Null /\ Nothing.total = Null
    /\ Nothing.content = << >> /\ Nothing.thinking = << >> /\ Nothing.tools = << >>
    /\ Nothing.finish = Null
    /\ Nothing.seen = FALSE /\ Nothing.garbled = FALSE /\ Nothing.raised = FALSE
BY DEF Nothing

\* The results that come with nothing extracted.
LEMMA Empty ==
    ASSUME NEW a \in {[Nothing EXCEPT !.garbled = TRUE], Raised}
    PROVE  /\ a \in Acc
           /\ a.model = Null /\ a.tools = << >> /\ a.content = << >> /\ a.thinking = << >>
           /\ a.finish = Null /\ a.seen = FALSE
           /\ a.raised => a = Raised
           /\ a.raised = TRUE \/ a.garbled = TRUE
<1>1. CASE a = Raised
    BY <1>1, NothingIsAResult, NothingHas DEF Raised, Acc
<1>2. CASE a = [Nothing EXCEPT !.garbled = TRUE]
    BY <1>2, NothingIsAResult, NothingHas DEF Acc
<1> QED BY <1>1, <1>2

\* A response in one piece: the whole message, or nothing of it.
LEMMA ObjectStep == IInv /\ ObjectArrives => IInv'
<1> SUFFICES ASSUME IInv, ObjectArrives PROVE IInv'
    OBVIOUS
<1>1. PICK damage \in Damages :
          /\ damage # "none" => lost < MaxLost
          /\ lost' = IF damage = "none" THEN lost ELSE lost + 1
          /\ acc' = ParseObject(damage)
    BY DEF ObjectArrives
<1>2. /\ wire.form = "object" /\ sent.closed = FALSE /\ lost = 0
      /\ sent' = [sent EXCEPT !.finished = TRUE, !.closed = TRUE]
      /\ UNCHANGED <<dialect, wire, message>>
    BY DEF ObjectArrives, IInv, SentOK, AccOK, ObjectOK
<1>3. /\ sent'.begun = sent.begun /\ sent'.finished = TRUE /\ sent'.closed = TRUE
      /\ sent'.text = sent.text /\ sent'.thoughts = sent.thoughts /\ sent'.calls = sent.calls
      /\ sent' \in [begun : BOOLEAN, thoughts : Nat, text : Nat, calls : Seq(Nat),
                    finished : BOOLEAN, closed : BOOLEAN]
    BY <1>2 DEF IInv, SentOK
<1>4. Setting' /\ message \in Messages /\ damage \in {"none", "garbled", "odd"}
    BY <1>2 DEF IInv, Setting, Damages
<1>5. SentOK' /\ lost' \in Nat
    BY <1>1, <1>2, <1>3 DEF IInv, SentOK, Fragmented, CallSent
<1>6. Whole' = Whole
    BY <1>2 DEF Whole, Calls
<1>7. CASE damage = "none"
    <2>1. acc' = Whole /\ lost' = 0
        BY <1>1, <1>2, <1>7 DEF ParseObject
    <2>2. acc' \in Acc /\ acc'.raised = FALSE
        BY <1>4, <2>1, WholeIsAResult
    <2> HIDE DEF Whole
    <2>3. ObjectOK'
        BY <1>3, <1>6, <2>1 DEF ObjectOK
    <2> QED BY <1>2, <1>4, <1>5, <2>2, <2>3 DEF AccOK, IInv
<1>8. CASE damage # "none"
    <2> DEFINE garbled == [Nothing EXCEPT !.garbled = TRUE]
    <2> HIDE DEF garbled
    <2>1. lost' = 1 /\ acc' \in {Nothing, garbled, Raised}
        <3>1. lost' = 1
            BY <1>1, <1>2, <1>8
        <3>2. CASE damage = "odd"
            <4>1. acc' = Raised
                BY <1>1, <3>2 DEF ParseObject, Raised
            <4> QED BY <3>1, <4>1
        <3>3. CASE damage = "garbled" /\ dialect \in {"openai", "anthropic"}
            <4>1. acc' = [Nothing EXCEPT !.garbled = dialect \notin {"openai", "anthropic"}]
                BY <1>1, <3>3 DEF ParseObject
            <4>2. acc' = [Nothing EXCEPT !.garbled = FALSE]
                BY <3>3, <4>1
            <4>3. [Nothing EXCEPT !.garbled = FALSE] = Nothing
                BY NothingHas, NothingIsAResult DEF Acc
            <4> QED BY <3>1, <4>2, <4>3
        <3>4. CASE damage = "garbled" /\ dialect \notin {"openai", "anthropic"}
            <4>1. acc' = [Nothing EXCEPT !.garbled = dialect \notin {"openai", "anthropic"}]
                BY <1>1, <3>4 DEF ParseObject
            <4>2. acc' = garbled
                BY <3>4, <4>1 DEF garbled
            <4> QED BY <3>1, <4>2
        <3> QED BY <1>4, <1>8, <3>2, <3>3, <3>4
    <2>2. acc' \in Acc /\ acc'.model = Null /\ (acc'.raised => acc' = Raised)
        <3>1. acc' \in {Nothing, [Nothing EXCEPT !.garbled = TRUE], Raised}
            BY <2>1 DEF garbled
        <3> QED BY <3>1, Empty, NothingIsAResult, NothingHas
    <2>3. acc' # Whole
        BY <1>4, <2>2, WholeIsAResult, ParsersAssumption
    <2>4. Nothing' = Nothing /\ Raised' = Raised
        BY DEF Nothing, Raised
    <2> HIDE DEF Whole, Nothing, Raised
    <2>5. ObjectOK'
        BY <1>3, <1>6, <2>1, <2>3, <2>4 DEF ObjectOK, garbled
    <2> QED BY <1>2, <1>4, <1>5, <2>2, <2>4, <2>5 DEF AccOK, IInv
<1> QED BY <1>7, <1>8

\* Before anything arrives.
LEMMA Initially == Init => IInv
<1> SUFFICES ASSUME Init PROVE IInv
    OBVIOUS
<1>1. /\ sent.begun = FALSE /\ sent.thoughts = 0 /\ sent.text = 0 /\ sent.calls = << >>
      /\ sent.finished = FALSE /\ sent.closed = FALSE
      /\ sent \in [begun : BOOLEAN, thoughts : Nat, text : Nat, calls : Seq(Nat),
                    finished : BOOLEAN, closed : BOOLEAN]
      /\ lost = 0 /\ acc = Nothing
    BY DEF Init
<1>2. Setting
    BY DEF Init, Setting, Wires
<1>3. /\ message.thoughts \in Seq(Tokens) /\ message.text \in Seq(Tokens)
      /\ message.tools \in Seq(Seq(Tokens))
      /\ dialect \in {"openai", "anthropic", "gemini", "ollama"}
    BY <1>2, MessageType, ParsersAssumption DEF Setting, Known
<1>4. SentOK
    BY <1>1, <1>3 DEF SentOK
<1>5. acc \in Acc /\ acc.raised = FALSE
    BY <1>1, NothingIsAResult, NothingHas
<1>6. ObjectOK
    BY <1>1 DEF ObjectOK
<1>7. Heard(sent, acc)
    <2>1. /\ SubSeq(message.text, 1, 0) = << >> /\ SubSeq(message.thoughts, 1, 0) = << >>
          /\ Opened(<< >>) = << >>
        BY SubSeqEmpty DEF Opened
    <2>2. Counted(sent) = NoUsage
        BY <1>1, <1>3 DEF Counted
    <2>3. Held(acc) = NoUsage
        BY <1>1, NothingHas DEF Held, NoUsage
    <2> QED BY <1>1, <2>1, <2>2, <2>3, NothingHas DEF Heard
<1>8. ToolsFit(sent.calls, acc.tools)
    BY <1>1, NothingHas DEF ToolsFit
<1>9. PiecesOK
    BY <1>1, <1>7, <1>8 DEF PiecesOK
<1> QED BY <1>2, <1>4, <1>5, <1>6, <1>9 DEF IInv, AccOK

----------------------------------------------------------------------------
(* Theorems *)

\* The strengthening holds in every reachable state.
THEOREM ParsersInvariant == Spec => []IInv
<1>1. IInv /\ [Next]_vars => IInv'
    <2> SUFFICES ASSUME IInv, [Next]_vars PROVE IInv'
        OBVIOUS
    <2>1. CASE UNCHANGED vars
        BY <2>1 DEF vars, IInv, Setting, SentOK, AccOK, ObjectOK, PiecesOK, ToolsFit, Fits,
             Heard, Held, Counted, Opened, Fragmented, CallSent, AllSent, Whole, Calls
    <2>2. CASE Next
        BY <2>2, ObjectStep, BeginStep, ThoughtStep, TextStep, CallStep, ArgumentStep, FinishStep,
             CloseStep DEF Next
    <2> QED BY <2>1, <2>2
<1> QED BY <1>1, Initially, PTL DEF Spec

\* A result is determined by its fields.
LEMMA SameResult ==
    ASSUME NEW a \in Acc, NEW b \in Acc,
           a.model = b.model, a.input = b.input, a.output = b.output, a.total = b.total,
           a.content = b.content, a.thinking = b.thinking, a.tools = b.tools,
           a.finish = b.finish, a.seen = b.seen, a.garbled = b.garbled, a.raised = b.raised
    PROVE  a = b
<1>1. a = [model |-> a.model, input |-> a.input, output |-> a.output, total |-> a.total,
           content |-> a.content, thinking |-> a.thinking, tools |-> a.tools,
           finish |-> a.finish, seen |-> a.seen, garbled |-> a.garbled, raised |-> a.raised]
    BY DEF Acc
<1>2. b = [model |-> b.model, input |-> b.input, output |-> b.output, total |-> b.total,
           content |-> b.content, thinking |-> b.thinking, tools |-> b.tools,
           finish |-> b.finish, seen |-> b.seen, garbled |-> b.garbled, raised |-> b.raised]
    BY DEF Acc
<1> QED BY <1>1, <1>2

\* When all was sent, what is known of it is the message.
LEMMA AllHeard ==
    ASSUME IInv, wire.form # "object", lost = 0, sent.finished = TRUE
    PROVE  /\ acc.content = message.text /\ acc.thinking = message.thoughts /\ acc.tools = Calls
           /\ acc.model = "model" /\ acc.finish = "stop" /\ acc.seen = TRUE
           /\ acc.garbled = FALSE /\ acc.raised = FALSE
           /\ sent.closed = TRUE => acc.input = 5 /\ acc.output = 3 /\ acc.total = 8
<1>1. /\ Heard(sent, acc) /\ AllSent /\ acc.seen \in BOOLEAN
      /\ sent.begun = TRUE /\ sent.calls \in Seq(Nat)
    BY Before DEF IInv, AccOK, PiecesOK, SentOK, Acc
<1>2. /\ message.thoughts \in Seq(Tokens) /\ message.text \in Seq(Tokens)
      /\ message.tools \in Seq(Seq(Tokens))
    BY MessageType DEF IInv, Setting
<1>3. acc.content = message.text
    BY <1>1, <1>2, SentSoFar DEF Heard, AllSent
<1>4. acc.thinking = message.thoughts
    BY <1>1, <1>2, SentSoFar DEF Heard, AllSent
<1>5. acc.tools = Calls
    <2>1. DOMAIN sent.calls = DOMAIN message.tools
        BY <1>1, <1>2 DEF AllSent
    <2>2. ASSUME NEW i \in DOMAIN message.tools
          PROVE  SubSeq(message.tools[i], 1, sent.calls[i]) = message.tools[i]
        <3> DEFINE all == message.tools[i]
        <3>1. all \in Seq(Tokens) /\ sent.calls[i] = Len(all)
            BY <1>1, <1>2, <2>1 DEF AllSent, CallSent
        <3> HIDE DEF all
        <3>2. SubSeq(all, 1, Len(all)) = all
            BY <3>1, SentSoFar
        <3> QED BY <3>1, <3>2 DEF all
    <2>3. Opened(sent.calls) = [i \in DOMAIN message.tools |-> Call(i, message.tools[i])]
        BY <2>1, <2>2 DEF Opened
    <2> QED BY <1>1, <2>3 DEF Heard, Calls
<1>6. /\ acc.model = "model" /\ acc.finish = "stop" /\ acc.seen = TRUE
      /\ acc.garbled = FALSE /\ acc.raised = FALSE
    BY <1>1, Before DEF Heard
<1>7. ASSUME sent.closed = TRUE PROVE acc.input = 5 /\ acc.output = 3 /\ acc.total = 8
    <2>1. Counted(sent) = Usage
        BY <1>7, Before DEF Counted
    <2>2. Held(acc) = Usage
        BY <1>1, <2>1 DEF Heard
    <2> QED BY <2>2 DEF Held, Usage
<1> QED BY <1>3, <1>4, <1>5, <1>6, <1>7

\* A response that arrives whole is parsed whole in each dialect, streamed or not, and
\* whatever the order its calls' fragments come in.
THEOREM WholeParsedHolds == Spec => []WholeParsed
<1>1. IInv => WholeParsed
    <2> SUFFICES ASSUME IInv, sent.closed, lost = 0, Honest PROVE Result = Whole
        BY DEF WholeParsed
    <2>1. message \in Messages /\ dialect \in {"openai", "anthropic", "gemini", "ollama"}
        BY ParsersAssumption DEF IInv, Setting, Known
    <2>2. wire.form # "stream" => ~TakenForStream
        BY <2>1 DEF Honest, TakenForStream
    <2>3. Result = acc
        BY <2>2 DEF Result
    <2>4. CASE wire.form = "object"
        BY <2>3, <2>4 DEF IInv, AccOK, ObjectOK
    <2>5. CASE wire.form # "object"
        <3>1. sent.finished = TRUE /\ sent.closed = TRUE
            BY <2>5, Before DEF IInv, SentOK
        <3>2. acc \in Acc
            BY <2>5, Before
        <3>3. acc = Whole
            BY <2>1, <2>5, <3>1, <3>2, AllHeard, WholeIsAResult, SameResult
        <3> QED BY <2>3, <3>3
    <2> QED BY <2>4, <2>5
<1> QED BY <1>1, ParsersInvariant, PTL

\* Tool calls that fit a response of which no more than its arguments was sent.
LEMMA FitNotMixed ==
    ASSUME message.tools \in Seq(Seq(Tokens)), NEW calls, NEW tools, ToolsFit(calls, tools),
           DOMAIN calls \subseteq DOMAIN message.tools,
           \A k \in DOMAIN calls : calls[k] \in Nat /\ calls[k] <= Len(message.tools[k])
    PROVE  \A i \in DOMAIN tools :
             LET t == tools[i] IN
             /\ InOrderOf(t.args, message.tools[t.index])
             /\ t.id \in {t.index, Null} /\ t.name = t.id
             /\ \A j \in DOMAIN tools : tools[j].index = t.index => i = j
<1> SUFFICES ASSUME NEW i \in DOMAIN tools
             PROVE  LET t == tools[i] IN
                    /\ InOrderOf(t.args, message.tools[t.index])
                    /\ t.id \in {t.index, Null} /\ t.name = t.id
                    /\ \A j \in DOMAIN tools : tools[j].index = t.index => i = j
    OBVIOUS
<1> DEFINE t == tools[i]
           all == message.tools[t.index]
<1>1. /\ t.index \in DOMAIN calls /\ t.id \in {t.index, Null} /\ t.name = t.id
      /\ Among(t.args, all, calls[t.index])
      /\ \A j \in DOMAIN tools : tools[j].index = t.index => i = j
    BY DEF ToolsFit, Fits
<1>2. all \in Seq(Tokens) /\ calls[t.index] \in Nat /\ calls[t.index] <= Len(all)
    BY <1>1
<1> HIDE DEF t, all
<1>3. 1..calls[t.index] \subseteq DOMAIN all
    BY <1>2
<1>4. InOrderOf(t.args, all)
    BY <1>1, <1>3 DEF Among, InOrderOf
<1> QED BY <1>1, <1>4 DEF t, all

\* Whatever interleaves, is lost or is cut, one call's arguments never end up in another's.
THEOREM ToolsNotMixedHolds == Spec => []ToolsNotMixed
<1>1. IInv => ToolsNotMixed
    <2> SUFFICES ASSUME IInv PROVE ToolsNotMixed
        OBVIOUS
    <2>1. message \in Messages /\ message.tools \in Seq(Seq(Tokens))
        BY MessageType DEF IInv, Setting
    <2>2. \E calls :
            /\ ToolsFit(calls, Result.tools)
            /\ DOMAIN calls \subseteq DOMAIN message.tools
            /\ \A k \in DOMAIN calls : calls[k] \in Nat /\ calls[k] <= Len(message.tools[k])
        <3> DEFINE lens == [k \in DOMAIN message.tools |-> Len(message.tools[k])]
        <3>1. /\ DOMAIN lens \subseteq DOMAIN message.tools
              /\ \A k \in DOMAIN lens : lens[k] \in Nat /\ lens[k] <= Len(message.tools[k])
              /\ \A k \in DOMAIN message.tools : k \in DOMAIN lens /\ lens[k] = Len(message.tools[k])
            BY <2>1
        <3> HIDE DEF lens
        <3>2. CASE Result.tools = << >>
            <4>1. DOMAIN << >> = {}
                OBVIOUS
            <4>2. ToolsFit(lens, << >>)
                BY <4>1 DEF ToolsFit
            <4> QED BY <3>1, <3>2, <4>2
        <3>3. CASE Result.tools = Calls
            <4>1. DOMAIN Calls = DOMAIN message.tools
                BY DEF Calls
            <4>2. ASSUME NEW i \in DOMAIN message.tools
                  PROVE  Calls[i].index = i /\ Fits(lens, Calls[i])
                <5> DEFINE all == message.tools[i]
                <5>1. Calls[i] = Call(i, all) /\ all \in Seq(Tokens)
                    BY <2>1 DEF Calls
                <5> HIDE DEF all
                <5>2. Among(all, all, Len(all))
                    BY <5>1, AmongAll
                <5> QED BY <3>1, <5>1, <5>2 DEF Call, Fits, all
            <4>3. ToolsFit(lens, Calls)
                BY <4>1, <4>2 DEF ToolsFit
            <4> QED BY <3>1, <3>3, <4>3
        <3>4. CASE wire.form # "object" /\ Result = acc
            <4>1. ToolsFit(sent.calls, acc.tools)
                BY <3>4, Before
            <4>2. /\ DOMAIN sent.calls \subseteq DOMAIN message.tools
                  /\ \A k \in DOMAIN sent.calls :
                       sent.calls[k] \in Nat /\ sent.calls[k] <= Len(message.tools[k])
                BY <2>1 DEF IInv, SentOK
            <4> QED BY <3>4, <4>1, <4>2
        <3>5. Result = Nothing \/ Result = acc
            BY DEF Result
        <3>6. Nothing.tools = << >> /\ Whole.tools = Calls
            BY <2>1, NothingHas, WholeIsAResult
        <3>7. wire.form = "object" =>
                  acc \in {Whole, Nothing} \/ acc \in {[Nothing EXCEPT !.garbled = TRUE], Raised}
            BY DEF IInv, AccOK, ObjectOK
        <3>8. wire.form = "object" => acc.tools = Calls \/ acc.tools = << >>
            BY <3>6, <3>7, Empty
        <3> QED BY <3>2, <3>3, <3>4, <3>5, <3>6, <3>8
    <2>3. PICK calls :
            /\ ToolsFit(calls, Result.tools)
            /\ DOMAIN calls \subseteq DOMAIN message.tools
            /\ \A k \in DOMAIN calls : calls[k] \in Nat /\ calls[k] <= Len(message.tools[k])
        BY <2>2
    <2> DEFINE tools == Result.tools
    <2>4. \A i \in DOMAIN tools :
             LET t == tools[i] IN
             /\ InOrderOf(t.args, message.tools[t.index])
             /\ t.id \in {t.index, Null} /\ t.name = t.id
             /\ \A j \in DOMAIN tools : tools[j].index = t.index => i = j
        <3> HIDE DEF tools
        <3>1. ToolsFit(calls, tools)
            BY <2>3 DEF tools
        <3> QED BY <2>1, <2>3, <3>1, FitNotMixed
    <2> QED BY <2>4 DEF ToolsNotMixed
<1> QED BY <1>1, ParsersInvariant, PTL

\* The parse status tells how far to trust the rest, wherever the capture ends.
THEOREM StatusHonestHolds == Spec => []StatusHonest
<1>1. IInv => StatusHonest
    <2> SUFFICES ASSUME IInv PROVE StatusHonest
        OBVIOUS
    <2>1. message \in Messages /\ acc \in Acc /\ lost \in Nat
        BY DEF IInv, Setting, AccOK, SentOK
    <2>2. Result = Nothing \/ Result = acc
        BY DEF Result
    <2>3. /\ Status(Result) = "ok" => Result.seen = TRUE /\ Result.garbled = FALSE /\ Result.raised = FALSE
          /\ Status(Result) = "unparsed" => Result.seen = FALSE /\ Result.garbled = FALSE /\ Result.raised = FALSE
          /\ Status(Result) = "error" => Result.raised = TRUE
        <3>1. Result.seen \in BOOLEAN /\ Result.garbled \in BOOLEAN /\ Result.raised \in BOOLEAN
            BY <2>1, <2>2, NothingHas DEF Acc
        <3> HIDE DEF Result
        <3> QED BY <3>1 DEF Status
    <2>4. wire.form = "object" => acc = Whole \/ acc = Nothing \/ acc \in {[Nothing EXCEPT !.garbled = TRUE], Raised}
        BY DEF IInv, AccOK, ObjectOK
    <2>5. acc = Whole => lost = 0 \/ wire.form # "object"
        BY DEF IInv, AccOK, ObjectOK
    <2>6. ASSUME Status(Result) = "ok"
          PROVE  /\ lost = 0
                 /\ Result.finish # Null =>
                      /\ Result.content = message.text /\ Result.thinking = message.thoughts
                      /\ Result.tools = Calls
        <3>1. Result = acc /\ acc.seen = TRUE /\ acc.garbled = FALSE /\ acc.raised = FALSE
            BY <2>2, <2>3, <2>6, NothingHas
        <3>2. CASE wire.form = "object"
            <4>1. acc = Whole
                BY <2>4, <3>1, <3>2, Empty, NothingHas
            <4> QED BY <2>1, <2>5, <3>1, <3>2, <4>1, WholeIsAResult
        <3>3. CASE wire.form # "object"
            <4>1. lost = 0
                BY <2>1, <3>1, <3>3 DEF IInv, AccOK, PiecesOK
            <4>2. ASSUME acc.finish # Null PROVE sent.finished = TRUE
                BY <3>3, <4>1, <4>2, Before
            <4> QED BY <3>1, <3>3, <4>1, <4>2, AllHeard
        <3> QED BY <3>2, <3>3
    <2>7. ASSUME Status(Result) \in {"unparsed", "error"}
          PROVE  Result = [Nothing EXCEPT !.raised = Result.raised]
        <3>1. [Nothing EXCEPT !.raised = FALSE] = Nothing
            BY NothingHas, NothingIsAResult DEF Acc
        <3>2. CASE Result = Nothing
            <4>1. Result.raised = FALSE
                BY <3>2, NothingHas
            <4> QED BY <3>1, <3>2, <4>1
        <3>3. CASE Status(Result) = "error" /\ Result = acc
            <4>1. acc.raised = TRUE
                BY <2>3, <3>3
            <4>2. acc = Raised
                BY <4>1 DEF IInv, AccOK
            <4> QED BY <3>3, <4>1, <4>2 DEF Raised
        <3>4. CASE Status(Result) = "unparsed" /\ Result = acc
            <4>1. acc.seen = FALSE /\ acc.garbled = FALSE /\ acc.raised = FALSE
                BY <2>3, <3>4
            <4>2. CASE wire.form = "object"
                <5>1. acc = Nothing
                    BY <2>1, <2>4, <4>1, <4>2, Empty, WholeIsAResult
                <5> QED BY <3>1, <3>4, <4>1, <5>1
            <4>3. CASE wire.form # "object"
                <5>1. lost = 0
                    BY <2>1, <4>1, <4>3 DEF IInv, AccOK, PiecesOK
                <5>2. Heard(sent, acc)
                    BY <4>3, <5>1 DEF IInv, AccOK, PiecesOK
                <5>3. sent.begun = FALSE
                    BY <4>1, <4>3, <5>2, Before DEF Heard
                <5>4. /\ sent.thoughts = 0 /\ sent.text = 0 /\ sent.calls = << >>
                      /\ sent.finished = FALSE /\ sent.closed = FALSE
                    BY <4>3, <5>3, Before DEF IInv, SentOK
                <5>5. Counted(sent) = NoUsage
                    BY <4>3, <5>3, <5>4, Before DEF Counted
                <5>6. acc.input = Null /\ acc.output = Null /\ acc.total = Null
                    <6>1. Held(acc) = NoUsage
                        BY <5>2, <5>5 DEF Heard
                    <6> QED BY <6>1 DEF Held, NoUsage
                <5>7. Opened(<< >>) = << >>
                    BY DEF Opened
                <5>8. /\ acc.content = << >> /\ acc.thinking = << >> /\ acc.tools = << >>
                      /\ acc.model = Null /\ acc.finish = Null
                    BY <4>3, <5>1, <5>3, <5>4, <5>7, Before, SubSeqEmpty
                <5>9. acc = Nothing
                    BY <2>1, <4>1, <5>6, <5>8, NothingHas, NothingIsAResult, SameResult
                <5> QED BY <3>1, <3>4, <4>1, <5>9
            <4> QED BY <4>2, <4>3
        <3> QED BY <2>2, <2>7, <3>2, <3>3, <3>4
    <2> QED BY <2>6, <2>7 DEF StatusHonest
<1> QED BY <1>1, ParsersInvariant, PTL
=============================================================================
