--------------------------- MODULE ChatResponses ---------------------------
(***************************************************************************)
(* Model responses of crates/sim-codec-chat outside of streams: what they  *)
(* are made of, how the body of a provider that does not stream is read,   *)
(* and how a gateway writes a response for a client of its own.            *)
(*                                                                         *)
(* A body is what the JSON document says: its kind ("message", "error", or *)
(* "empty" without the member that holds the answer), its content, its     *)
(* tool calls where the format keeps them apart, stop reason and usage.    *)
(* An operation that returns an error gives <<>>, else its value as a      *)
(* singleton.                                                              *)
(***************************************************************************)
EXTENDS Naturals, Sequences, SequencesExt, Lists

ErrorText == 0  \* the piece that stands for the message of an error
Part(kind, id, pieces) == [kind |-> kind, id |-> id, pieces |-> pieces]
TextPart(pieces) == Part("text", 0, pieces)
Response(content, stop, usage, ok) ==
  [content |-> content, stop |-> stop, usage |-> usage, ok |-> ok]
ErrorResponse == Response(<<TextPart(<<ErrorText>>)>>, "error", 0, FALSE)

KindsIn(parts) == {parts[i].kind : i \in DOMAIN parts}
OfKind(parts, kinds) == Only(parts, {p \in ToSet(parts) : p.kind \in kinds})
Words(parts) == FlattenSeq([i \in DOMAIN parts |-> parts[i].pieces])

\* provider_symbol, and back: the other names have neither - nor _.
Dashed(stop) == IF stop = "max_tokens" THEN "max-tokens" ELSE stop
Underscored(stop) == IF stop = "max-tokens" THEN "max_tokens" ELSE stop

Message(content, calls, stop, usage) ==
  [kind |-> "message", content |-> content, calls |-> calls, stop |-> stop, usage |-> usage]

-----------------------------------------------------------------------------
(* Reading. *)

\* Anthropic: a part that is neither text nor a tool call is kept as it came.
AnthropicPart(p) == IF p.kind \in {"text", "tool"} THEN p ELSE Part("raw", 0, p.pieces)
ReadAnthropic(body) ==
  CASE body.kind = "error" -> <<ErrorResponse>>
    [] body.kind = "empty" -> <<>>
    [] OTHER -> <<Response([i \in DOMAIN body.content |-> AnthropicPart(body.content[i])],
                           Dashed(body.stop), body.usage, TRUE)>>

\* Arguments come as a text, which must be JSON; <<>> stands for {}.
Arguments(calls, documents) == \A i \in DOMAIN calls : calls[i].pieces \in documents \cup {<<>>}

\* OpenAI chat completions: texts first, then the tool calls.
OpenaiContent(body, documents) ==
  IF Arguments(body.calls, documents) /\ KindsIn(body.content) \subseteq {"text"}
  THEN <<body.content \o body.calls>> ELSE <<>>
ReadOpenai(body, documents) ==
  CASE body.kind = "error" -> <<ErrorResponse>>
    [] body.kind = "empty" \/ OpenaiContent(body, documents) = <<>> -> <<>>
    [] OTHER -> <<Response(OpenaiContent(body, documents)[1], body.stop, body.usage, TRUE)>>

\* OpenAI Responses: a status stands for the stop reason, reasoning stays
\* with the provider, and an item of an unknown type is an error.
Status(stop) == IF stop = "end" THEN "stop" ELSE "incomplete"
Shown(items) == OfKind(items, {"text", "tool", "refusal"})
ReadResponses(body, documents) ==
  IF \/ body.kind # "message"
     \/ ~(KindsIn(body.content) \subseteq {"text", "tool", "refusal", "thinking"})
     \/ ~Arguments(OfKind(body.content, {"tool"}), documents)
  THEN <<>>
  ELSE <<Response(Shown(body.content), Status(body.stop), body.usage, TRUE)>>

\* Ollama: one text; a body without one, an error envelope too, is an error.
OllamaText(body) == IF body.kind = "message" THEN <<TextPart(Words(body.content))>> ELSE <<>>
ReadOllama(body) ==
  IF OllamaText(body) = <<>> THEN <<>>
  ELSE <<Response(OllamaText(body), body.stop, body.usage, TRUE)>>

-----------------------------------------------------------------------------
(* Writing for a client. *)

WriteAnthropic(response) ==
  IF ~(KindsIn(response.content) \subseteq {"text", "tool"}) THEN <<>>
  ELSE <<Message(response.content, <<>>, Underscored(response.stop), response.usage)>>

\* Mutant: only the first text is the content.
WriteOpenaiFirst(response) ==
  IF ~(KindsIn(response.content) \subseteq {"text"}) THEN <<>>
  ELSE <<Message(<<TextPart(Words(IF response.content = <<>> THEN <<>>
                                  ELSE <<Head(response.content)>>))>>,
                 <<>>, response.stop, response.usage)>>

\* response_text: the texts run together.
WriteOpenai(response) ==
  IF ~(KindsIn(response.content) \subseteq {"text"}) THEN <<>>
  ELSE <<Message(<<TextPart(Words(response.content))>>, <<>>, response.stop, response.usage)>>

=============================================================================
