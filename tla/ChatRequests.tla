---------------------------- MODULE ChatRequests ----------------------------
(***************************************************************************)
(* Model requests of crates/sim-codec-chat: how a request transcript is    *)
(* written for a provider (Anthropic Messages, OpenAI chat completions,    *)
(* OpenAI Responses, Ollama), and how a gateway that speaks one of these   *)
(* formats reads the body back.                                            *)
(*                                                                         *)
(* A transcript has a task, the messages before it and fields.  A body is  *)
(* the JSON document: messages, the `system' text Anthropic keeps apart,   *)
(* the `input' text of old OpenAI requests, fields.  The kind of a part is *)
(* "text", "tool", the status of a tool result, or a name of the provider. *)
(***************************************************************************)
EXTENDS ChatResponses, TLC

Results == {"ok", "error", "denied"}  \* statuses of a tool result
NewLine == 91
Space   == 92
Joined(texts, between) ==
  FlattenSeq([i \in DOMAIN texts |-> IF i = 1 THEN texts[i] ELSE between \o texts[i]])
Texts(parts) == [i \in DOMAIN parts |-> parts[i].pieces]
Lines(parts) == Joined(Texts(parts), <<NewLine>>)

\* `form' of a content: "list", "string" (one text), or "odd" (neither).
Turn(role, content) == [role |-> role, form |-> "list", content |-> content]
Transcript(task, messages, fields) == [task |-> task, messages |-> messages, fields |-> fields]
Body(messages, system, fields) ==
  [messages |-> messages, system |-> system, input |-> <<>>, fields |-> fields]

NoFields == [f \in {} |-> "none"]
Has(t, field) == field \in DOMAIN t.fields
Copied(t, field, as) == IF Has(t, field) THEN as :> t.fields[field] ELSE NoFields
Contents(messages) == UNION {KindsIn(messages[i].content) : i \in DOMAIN messages}
WithTask(t) == Append(t.messages, Turn("user", <<TextPart(t.task)>>))

-----------------------------------------------------------------------------
(* The parameters of bridge calls and the output grammar. *)

\* model_param_key: - becomes _.
ParamKey(key) == IF key = "max-tokens" THEN "max_tokens" ELSE key
Params(t) ==
  IF ~Has(t, "bridge-calls") THEN NoFields
  ELSE LET given == t.fields["bridge-calls"]
       IN  [key \in {ParamKey(k) : k \in DOMAIN given} |->
              given[CHOOSE k \in DOMAIN given : ParamKey(k) = key]]
ParamsRefused(t, reserved) == DOMAIN Params(t) \cap reserved # {}

\* output_grammar_text: a grammar is of the json-schema dialect unless it says
\* otherwise; without one, a return shape in JSON is rendered.
GrammarRefused(t, dialect) ==
  IF Has(t, "dialect") THEN t.fields["dialect"] # dialect
  ELSE Has(t, "output-grammar") /\ dialect # "json-schema"
Grammar(t, as) ==
  CASE Has(t, "output-grammar") -> as :> t.fields["output-grammar"]
    [] Has(t, "return-shape") /\ Has(t, "return-codec") /\ t.fields["return-codec"] = "json" ->
         as :> t.fields["return-shape"]
    [] OTHER -> NoFields

-----------------------------------------------------------------------------
(* Tools: a value that is a list or not, and for each tool its name and the *)
(* shape it is described in: "flat" and "nested" of OpenAI, "schema" of     *)
(* Anthropic.                                                               *)

NoList == [list |-> FALSE, tools |-> <<>>]
ListOf(tools) == [list |-> TRUE, tools |-> tools]
Shaped(tools, shape) == [i \in DOMAIN tools |-> [tools[i] EXCEPT !.shape = shape]]
ShapesIn(tools) == {tools[i].shape : i \in DOMAIN tools}

\* tool_schemas: a nested tool has its name where nobody looks.
SchemasRefused(t) ==
  Has(t, "tools") /\ (~t.fields["tools"].list \/ "nested" \in ShapesIn(t.fields["tools"].tools))
Schemas(t) == ListOf(IF Has(t, "tools") THEN Shaped(t.fields["tools"].tools, "schema") ELSE <<>>)

\* request_tools: only function tools, made flat.
FunctionsRefused(t) ==
  Has(t, "tools") /\ (~t.fields["tools"].list \/ "schema" \in ShapesIn(t.fields["tools"].tools))
Functions(t) == ListOf(IF Has(t, "tools") THEN Shaped(t.fields["tools"].tools, "flat") ELSE <<>>)

-----------------------------------------------------------------------------
(* encode_openai_request *)

OpenaiReserved == {"model", "stream", "messages", "tools", "response_format", "stream_options"}
WriteOpenaiRequest(t, options) ==
  IF \/ ~(Contents(t.messages) \subseteq {"text"})
     \/ GrammarRefused(t, "json-schema") \/ ParamsRefused(t, OpenaiReserved)
  THEN <<>>
  ELSE <<Body(WithTask(t), <<>>,
              Params(t) @@ Grammar(t, "response_format") @@
              ("stream" :> options.stream) @@
              ("tools" :> IF options.tools THEN ListOf(<<>>) ELSE NoList))>>

(* decode_openai_request *)

Forms(messages) == {messages[i].form : i \in DOMAIN messages}
OpenaiFields(body) ==
  Copied(body, "stream", "stream") @@ Copied(body, "privacy", "privacy") @@
  Copied(body, "budget", "budget") @@ Copied(body, "max_tokens", "max-tokens") @@
  Copied(body, "tools", "tools") @@ Copied(body, "tool_choice", "tool-choice")
ReadOpenaiRequest(body) ==
  CASE body.messages = <<>> /\ body.input # <<>> ->
         <<Transcript(body.input[1], <<>>, OpenaiFields(body))>>
    [] \/ body.messages = <<>> \/ "odd" \in Forms(body.messages)
       \/ Last(body.messages).role # "user"
       \/ ~(Contents(body.messages) \subseteq {"text"}) -> <<>>
    [] OTHER -> LET prior == Front(body.messages)
                IN  <<Transcript(Lines(Last(body.messages).content),
                                 [i \in DOMAIN prior |-> Turn(prior[i].role, prior[i].content)],
                                 OpenaiFields(body))>>

\* LM Studio and Lemonade: OpenAI, with the provider's name on the transcript.
Stamped(read, provider) ==
  IF read = <<>> THEN <<>>
  ELSE <<[read[1] EXCEPT !.fields = ("provider" :> provider) @@ @]>>
ReadLmStudioRequest(body) == Stamped(ReadOpenaiRequest(body), "lm-studio")
ReadLemonadeRequest(body) == Stamped(ReadOpenaiRequest(body), "lemonade")

-----------------------------------------------------------------------------
(* encode_anthropic_request *)

AnthropicReserved ==
  {"model", "max_tokens", "stream", "system", "messages", "tools", "tool_choice"}
BySystem(m) == m.role = "system"
ByOthers(m) == m.role # "system"
ResultJson(p) == IF p.kind = "denied" THEN [p EXCEPT !.kind = "error"] ELSE p
TurnJson(m) == [m EXCEPT !.content = [i \in DOMAIN m.content |-> ResultJson(m.content[i])]]

\* Mutant: the last system message is the system text.
SystemTextLast(t) ==
  LET said == SelectSeq(t.messages, BySystem)
  IN  IF said = <<>> THEN <<>> ELSE <<Lines(Last(said).content)>>

\* All system messages become one text, wherever they stood.
SystemText(t) ==
  LET said == SelectSeq(t.messages, BySystem)
  IN  IF said = <<>> THEN <<>>
      ELSE <<Joined([i \in DOMAIN said |-> Lines(said[i].content)], <<NewLine, NewLine>>)>>

WriteAnthropicRequest(t, options) ==
  LET others == SelectSeq(t.messages, ByOthers)
  IN  IF \/ Has(t, "output-grammar") \/ Has(t, "dialect")
         \/ ~(Contents(SelectSeq(t.messages, BySystem)) \subseteq {"text"})
         \/ ~(Contents(others) \subseteq {"text", "tool"} \cup Results)
         \/ options.tools /\ SchemasRefused(t)
         \/ ParamsRefused(t, AnthropicReserved)
      THEN <<>>
      ELSE <<Body(Append([i \in DOMAIN others |-> TurnJson(others[i])],
                         Turn("user", <<TextPart(t.task)>>)),
                  SystemText(t),
                  Params(t) @@ ("stream" :> options.stream) @@
                  ("max_tokens" :> options.max_tokens) @@
                  Copied(t, "tool-choice", "tool_choice") @@
                  (IF options.tools THEN "tools" :> Schemas(t) ELSE NoFields))>>

(* decode_anthropic_request *)

AnthropicFields(body) ==
  Copied(body, "stream", "stream") @@ Copied(body, "max_tokens", "max-tokens") @@
  Copied(body, "tools", "tools") @@ Copied(body, "tool_choice", "tool-choice")
KeptPart(p) == IF p.kind \in {"text", "tool"} \cup Results THEN p ELSE Part("raw", 0, p.pieces)
ReadTurn(m) == Turn(m.role, [i \in DOMAIN m.content |-> KeptPart(m.content[i])])

\* The task is made of the texts of the last message: what else it has is lost.
ReadAnthropicRequest(body) ==
  IF \/ body.messages = <<>> \/ "odd" \in Forms(body.messages)
     \/ Last(body.messages).role # "user"
  THEN <<>>
  ELSE LET prior == Front(body.messages)
           read  == [i \in DOMAIN prior |-> ReadTurn(prior[i])]
       IN  <<Transcript(Lines(OfKind(Last(body.messages).content, {"text"})),
                        (IF body.system = <<>> THEN <<>>
                         ELSE <<Turn("system", <<TextPart(body.system[1])>>)>>) \o read,
                        AnthropicFields(body))>>

-----------------------------------------------------------------------------
(* encode_openai_responses_request *)

ResponsesReserved == {"model", "stream", "input", "tools", "text"}
WriteResponsesRequest(t, options) ==
  IF \/ ~(Contents(t.messages) \subseteq {"text"})
     \/ FunctionsRefused(t)
     \/ GrammarRefused(t, "json-schema") \/ ParamsRefused(t, ResponsesReserved)
  THEN <<>>
  ELSE <<Body(WithTask(t), <<>>,
              Params(t) @@ Grammar(t, "text") @@ ("stream" :> options.stream) @@
              (IF options.tools \/ Has(t, "tools") THEN "tools" :> Functions(t) ELSE NoFields))>>

(* decode_openai_responses_request: each message becomes one text. *)

ResponsesFields(body) ==
  Copied(body, "stream", "stream") @@ Copied(body, "tools", "tools") @@
  Copied(body, "tool_choice", "tool-choice")
ReadResponsesRequest(body) ==
  IF \/ body.messages = <<>> \/ ~(Forms(body.messages) \subseteq {"list"})
     \/ ~(Contents(body.messages) \subseteq {"text"})
     \/ Last(body.messages).role # "user"
  THEN <<>>
  ELSE LET prior == Front(body.messages)
       IN  <<Transcript(Lines(Last(body.messages).content),
                        [i \in DOMAIN prior |->
                           Turn(prior[i].role, <<TextPart(Lines(prior[i].content))>>)],
                        ResponsesFields(body))>>

-----------------------------------------------------------------------------
(* encode_ollama_request: a message is one text. *)

OllamaMessage(m) == Turn(m.role, <<TextPart(Joined(Texts(m.content), <<Space>>))>>)
WriteOllamaRequest(t, options) ==
  IF ~(Contents(t.messages) \subseteq {"text"}) \/ GrammarRefused(t, "gbnf") THEN <<>>
  ELSE <<Body([i \in DOMAIN WithTask(t) |-> OllamaMessage(WithTask(t)[i])], <<>>,
              Grammar(t, "grammar") @@ ("stream" :> options.stream) @@
              (IF options.tools THEN "tools" :> ListOf(<<>>) ELSE NoFields))>>

\* What the Ollama server makes of it.
ReadByOllama(body) ==
  <<Transcript(Last(body.messages).content[1].pieces, Front(body.messages), body.fields)>>

-----------------------------------------------------------------------------
(* What a transcript says, for the properties. *)

Spaces == {NewLine, Space}
SaidIn(pieces) == SelectSeq(pieces, LAMBDA w : w \notin Spaces)
Turns(t) == LET m == SelectSeq(t.messages, ByOthers) IN [i \in DOMAIN m |-> m[i].role]
Texted(t) ==
  LET m == SelectSeq(t.messages, ByOthers)
  IN  [i \in DOMAIN m |-> SaidIn(Words(OfKind(m[i].content, {"text"})))]
Calls(t) == FlattenSeq([i \in DOMAIN t.messages |-> OfKind(t.messages[i].content, {"tool"})])
Outcomes(t) ==
  LET r == FlattenSeq([i \in DOMAIN t.messages |-> OfKind(t.messages[i].content, Results)])
  IN  [i \in DOMAIN r |-> <<r[i].id, SaidIn(r[i].pieces), r[i].kind = "ok">>]
Instructions(t) ==
  LET m == SelectSeq(t.messages, BySystem)
  IN  FlattenSeq([i \in DOMAIN m |-> SaidIn(Words(m[i].content))])
ToolNames(t) ==
  IF ~Has(t, "tools") THEN <<>>
  ELSE LET tools == t.fields["tools"].tools IN [i \in DOMAIN tools |-> tools[i].name]

=============================================================================
