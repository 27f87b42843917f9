----------------------------- MODULE ChatStreams -----------------------------
(***************************************************************************)
(* The stream decoders of crates/sim-codec-chat: Anthropic Messages, OpenAI *)
(* Responses, OpenAI chat completions and Ollama.                          *)
(*                                                                         *)
(* A provider streams one message as chunks; the connection may lose a     *)
(* chunk, repeat one or end early, and the provider may fail half way.     *)
(* The decoder is given the body that arrived and folds it, chunk after    *)
(* chunk, into one model response.                                         *)
(*                                                                         *)
(* Texts and JSON documents are sequences of pieces, one per delta.  The   *)
(* number of a block is its index on the wire and, plus one, its id.       *)
(***************************************************************************)
EXTENDS ChatResponses, FiniteSets

CONSTANTS
  Messages,   \* what the provider may have to say
  JsonTexts,  \* the piece sequences that are one JSON document
  Wires,      \* the stream formats
  ChunkLimits,\* values of DecodeLimits::max_collection_len
  MaxFaults   \* bound: faults of the connection

\* Tool calls are called with JSON, or without arguments.
ASSUME StreamsAssumption ==
  /\ \A m \in Messages :
       IsSeq(m.blocks) /\ \A i \in DOMAIN m.blocks :
         LET b == m.blocks[i]
         IN  /\ b.kind \in {"text", "thinking", "tool"} /\ IsSeq(b.pieces)
             /\ b.kind = "tool" => b.pieces \in JsonTexts \cup {<<>>}
  /\ Wires \subseteq {"anthropic", "responses", "openai", "ollama"}
  /\ ChunkLimits \subseteq Nat

VARIABLES
  message,  \* what the provider says
  wire,     \* in which format
  limit,    \* max_collection_len of the caller
  sent,     \* block -> how many of its chunks the provider has sent
  phase,    \* of the provider: "begin", "blocks", "stop", "over"
  faults,   \* what went wrong on the way, in order
  body,     \* the chunks that arrived
  pos,      \* how many of them are decoded
  acc,      \* the accumulators of the decoder
  pc,       \* "stream", then "decode", then "done" or "error"
  result    \* <<>>, or the response as a singleton

provider == <<message, wire, limit, sent, phase, faults, body>>
vars == <<provider, pos, acc, pc, result>>

-----------------------------------------------------------------------------
(* The provider and the connection. *)

Blank == [type |-> "", at |-> 0, kind |-> "", pieces |-> <<>>, stop |-> "",
          usage |-> 0, blocks |-> <<>>]
Chunk(type) == [Blank EXCEPT !.type = type]
BlockChunk(type, i, pieces) ==
  [Blank EXCEPT !.type = type, !.at = i, !.kind = message.blocks[i].kind, !.pieces = pieces]
Closing(type) == [Blank EXCEPT !.type = type, !.stop = message.stop, !.usage = message.usage]

Carries(chunk) ==
  \/ body' = Append(body, chunk) /\ UNCHANGED faults
  \/ /\ Len(faults) < MaxFaults
     /\ \/ body' = body /\ faults' = Append(faults, "lost")
        \/ body' = body \o <<chunk, chunk>> /\ faults' = Append(faults, "twice")
        \/ /\ chunk.at # 0
           /\ \E i \in DOMAIN sent \ {chunk.at} : body' = Append(body, [chunk EXCEPT !.at = i])
           /\ faults' = Append(faults, "misnumbered")

Framed == wire = "anthropic"  \* blocks have a start and a stop of their own
Pieces(i) == message.blocks[i].pieces
Whole(i) == Len(Pieces(i)) + (IF Framed THEN 2 ELSE 0)
AllSent == \A i \in DOMAIN sent : sent[i] = Whole(i)

\* The chunk of block i that comes next.
NextOf(i) ==
  CASE Framed /\ sent[i] = 0 -> BlockChunk("block_start", i, <<>>)
    [] Framed /\ sent[i] = Whole(i) - 1 -> BlockChunk("block_stop", i, <<>>)
    [] OTHER -> BlockChunk("piece", i, <<Pieces(i)[IF Framed THEN sent[i] ELSE sent[i] + 1]>>)

Begin ==
  /\ phase = "begin"
  /\ IF wire = "ollama" THEN UNCHANGED <<body, faults>> ELSE Carries(Chunk("open"))
  /\ phase' = "blocks"
  /\ UNCHANGED <<message, wire, limit, sent, pos, acc, pc, result>>

\* Only the Anthropic format numbers its deltas, so only there may they mix.
SendBlock(i) ==
  /\ phase = "blocks" /\ sent[i] < Whole(i)
  /\ Framed \/ \A j \in 1..(i - 1) : sent[j] = Whole(j)
  /\ Carries(NextOf(i))
  /\ sent' = [sent EXCEPT ![i] = @ + 1]
  /\ UNCHANGED <<message, wire, limit, phase, pos, acc, pc, result>>

Close ==
  /\ phase = "blocks" /\ AllSent
  /\ Carries([Closing("close") EXCEPT !.blocks = IF wire = "responses" THEN message.blocks ELSE <<>>])
  /\ phase' = "stop"
  /\ UNCHANGED <<message, wire, limit, sent, pos, acc, pc, result>>

Stop ==
  /\ phase = "stop"
  /\ IF wire \in {"anthropic", "openai"} THEN Carries(Chunk("stop"))
     ELSE UNCHANGED <<body, faults>>
  /\ phase' = "over"
  /\ UNCHANGED <<message, wire, limit, sent, pos, acc, pc, result>>

\* The provider fails and says so, or the connection ends.
BreakOff ==
  /\ phase \in {"begin", "blocks", "stop"}
  /\ body' = Append(body, Chunk("error"))
  /\ faults' = Append(faults, "failed")
  /\ phase' = "over"
  /\ UNCHANGED <<message, wire, limit, sent, pos, acc, pc, result>>

Cut ==
  /\ phase \in {"begin", "blocks", "stop"}
  /\ faults' = Append(faults, "cut")
  /\ phase' = "over"
  /\ UNCHANGED <<message, wire, limit, sent, body, pos, acc, pc, result>>

Provide == Begin \/ (\E i \in DOMAIN sent : SendBlock(i)) \/ Close \/ Stop \/ BreakOff \/ Cut

-----------------------------------------------------------------------------
(* Values the decoders build. *)

\* Only tool calls have an id.
NumberedBlocks(blocks) ==
  [i \in DOMAIN blocks |->
    Part(blocks[i].kind, IF blocks[i].kind = "tool" THEN i ELSE 0, blocks[i].pieces)]

Event(name, id, pieces) == [event |-> name, id |-> id, pieces |-> pieces, response |-> <<>>]
Final(response) == [event |-> "final", id |-> 0, pieces |-> <<>>, response |-> <<response>>]

\* StreamBlock: `pieces' is the text, or the `input' of a tool; `partial' is
\* its partial_json.
TextBlock(pieces) == [kind |-> "text", id |-> 0, pieces |-> pieces, partial |-> <<>>]
ToolBlock(id) == [kind |-> "tool", id |-> id, pieces |-> <<>>, partial |-> <<>>]

NoBlocks == [i \in {} |-> TextBlock(<<>>)]
NoResponse == <<>>
Empty == [blocks |-> NoBlocks, events |-> <<>>, text |-> <<>>, stop |-> "stop",
          usage |-> 0, terminal |-> NoResponse, taken |-> 0]

Init ==
  /\ message \in Messages /\ wire \in Wires /\ limit \in ChunkLimits
  /\ sent = [i \in DOMAIN message.blocks |-> 0]
  /\ phase = "begin" /\ faults = <<>> /\ body = <<>>
  /\ pos = 0 /\ acc = Empty /\ pc = "stream" /\ result = NoResponse

\* The transport hands the body over.  The Anthropic decoder looks at all of
\* it first.
Refused == wire = "anthropic" /\ (body = <<>> \/ Len(body) > limit)
Open ==
  /\ pc = "stream" /\ phase = "over"
  /\ pc' = IF Refused THEN "error" ELSE "decode"
  /\ UNCHANGED <<provider, pos, acc, result>>

Current == body[pos + 1]
At(w, types) == pc = "decode" /\ wire = w /\ pos < Len(body) /\ Current.type \in types
AtEnd(w) == pc = "decode" /\ wire = w /\ pos = Len(body)

Take(next) == acc' = next /\ pos' = pos + 1 /\ UNCHANGED <<provider, pc, result>>
Fail == pc' = "error" /\ UNCHANGED <<provider, pos, acc, result>>
Answer(response) == pc' = "done" /\ result' = <<response>> /\ UNCHANGED <<provider, pos>>

-----------------------------------------------------------------------------
(* Anthropic Messages: decode_anthropic_stream_events_with_limits. *)

Ordered(blocks) == Ascending(DOMAIN blocks)

\* Mutant: the parts collected so far are part of the arguments.
BlockPartEager(b) == Part(b.kind, b.id, b.pieces \o b.partial)

\* content_part: the tool call has what is in `input' by now.
BlockPart(b) == Part(b.kind, b.id, b.pieces)
StreamResponse ==
  LET order == Ordered(acc.blocks)
  IN  Response([j \in 1..Len(order) |-> BlockPart(acc.blocks[order[j]])], acc.stop, acc.usage, TRUE)

WithBlock(i, b) == [j \in DOMAIN acc.blocks \cup {i} |-> IF j = i THEN b ELSE acc.blocks[j]]
BlockOr(i, new) == IF i \in DOMAIN acc.blocks THEN acc.blocks[i] ELSE new
Emit(event) == Append(acc.events, event)
Called(name) == {k \in DOMAIN acc.events : acc.events[k].event = name}

AnthropicOpen ==
  /\ At("anthropic", {"open"})
  /\ Take([acc EXCEPT !.events = Emit(Event("start", 0, <<>>))])

AnthropicBlockStart ==
  /\ At("anthropic", {"block_start"})
  /\ LET c == Current
     IN  Take([acc EXCEPT !.blocks =
           WithBlock(c.at, IF c.kind = "tool" THEN ToolBlock(c.at) ELSE TextBlock(<<>>))])

\* text_delta and thinking_delta; only the text is announced.
AnthropicText ==
  /\ At("anthropic", {"piece"}) /\ Current.kind # "tool"
  /\ LET c == Current
         b == BlockOr(c.at, TextBlock(<<>>))
     IN  IF b.kind = "tool" THEN Fail
         ELSE Take([acc EXCEPT
                !.blocks = WithBlock(c.at, TextBlock(b.pieces \o c.pieces)),
                !.events = IF c.kind = "text" THEN Emit(Event("delta", 0, c.pieces)) ELSE @])

AnthropicJson ==
  /\ At("anthropic", {"piece"}) /\ Current.kind = "tool"
  /\ LET c == Current
         b == BlockOr(c.at, ToolBlock(0))
     IN  IF b.kind = "text" THEN Fail
         ELSE Take([acc EXCEPT !.blocks = WithBlock(c.at, [b EXCEPT !.partial = @ \o c.pieces])])

\* Mutant: the parts collected for the tool call stay where they are.
AnthropicBlockStopForgets ==
  /\ At("anthropic", {"block_stop"})
  /\ LET i == Current.at
     IN  IF i \notin DOMAIN acc.blocks \/ acc.blocks[i].kind = "text" THEN Take(acc)
         ELSE Take([acc EXCEPT !.events = Emit(Event("tool-call", acc.blocks[i].id, acc.blocks[i].pieces))])

\* finish_tool_call: what was collected becomes the input.
AnthropicBlockStop ==
  /\ At("anthropic", {"block_stop"})
  /\ LET i == Current.at
     IN  IF i \notin DOMAIN acc.blocks \/ acc.blocks[i].kind = "text" THEN Take(acc)
         ELSE LET b == acc.blocks[i]
                  input == IF b.partial = <<>> THEN b.pieces ELSE b.partial
              IN  IF b.partial # <<>> /\ b.partial \notin JsonTexts THEN Fail
                  ELSE Take([acc EXCEPT
                         !.blocks = WithBlock(i, [b EXCEPT !.pieces = input, !.partial = <<>>]),
                         !.events = Emit(Event("tool-call", b.id, input))])

AnthropicClose ==
  /\ At("anthropic", {"close"})
  /\ Take([acc EXCEPT !.stop = Dashed(Current.stop), !.usage = Current.usage,
                      !.events = Emit(Event("usage", 0, <<>>))])

AnthropicStop ==
  /\ At("anthropic", {"stop"})
  /\ Take([acc EXCEPT !.events = Emit(Final(StreamResponse))])

\* An error ends the stream with a response of its own.
AnthropicError ==
  /\ At("anthropic", {"error"})
  /\ acc' = [acc EXCEPT !.events = Emit(Final(ErrorResponse))]
  /\ Answer(ErrorResponse)

\* Mutant: a stream without message_stop has no final event.
AnthropicEndSilent ==
  /\ AtEnd("anthropic")
  /\ UNCHANGED acc
  /\ Answer(StreamResponse)

\* The last final event has the response; without one it is made now.
AnthropicEnd ==
  /\ AtEnd("anthropic")
  /\ LET finals == Called("final")
     IN  IF finals # {} THEN UNCHANGED acc /\ Answer(acc.events[Max(finals)].response[1])
         ELSE /\ acc' = [acc EXCEPT !.events = Emit(Final(StreamResponse))]
              /\ Answer(StreamResponse)

Anthropic ==
  \/ AnthropicOpen \/ AnthropicBlockStart \/ AnthropicText \/ AnthropicJson
  \/ AnthropicBlockStop \/ AnthropicClose \/ AnthropicStop \/ AnthropicError \/ AnthropicEnd

-----------------------------------------------------------------------------
(* OpenAI Responses: only the terminal event counts. *)

\* The response in a terminal event is read like one that was not streamed.
FromTerminal(c) ==
  ReadResponses(Message(NumberedBlocks(c.blocks), <<>>, c.stop, c.usage), JsonTexts)

RoomForOne == acc.taken + 1 <= limit
Counted(next) == IF RoomForOne THEN Take([next EXCEPT !.taken = @ + 1]) ELSE Fail

ResponsesProgress == At("responses", {"open", "piece"}) /\ Counted(acc)

ResponsesTerminal ==
  /\ At("responses", {"close"})
  /\ IF acc.terminal # NoResponse \/ FromTerminal(Current) = <<>> THEN Fail
     ELSE Counted([acc EXCEPT !.terminal = FromTerminal(Current)])

ResponsesError == At("responses", {"error"}) /\ Fail

ResponsesEnd ==
  /\ AtEnd("responses")
  /\ IF acc.terminal = NoResponse THEN Fail ELSE UNCHANGED acc /\ Answer(acc.terminal[1])

Responses == ResponsesProgress \/ ResponsesTerminal \/ ResponsesError \/ ResponsesEnd

-----------------------------------------------------------------------------
(* OpenAI chat completions and Ollama: one text, whatever else is streamed. *)

Said(c) == IF c.kind = "text" THEN acc.text \o c.pieces ELSE acc.text
OneText == Response(<<Part("text", 0, acc.text)>>, acc.stop, acc.usage, TRUE)
Summed(c) == [acc EXCEPT !.stop = c.stop, !.usage = c.usage]

OpenaiPiece == At("openai", {"open", "piece"}) /\ Counted([acc EXCEPT !.text = Said(Current)])
OpenaiClose == At("openai", {"close"}) /\ Counted(Summed(Current))
OpenaiDone == At("openai", {"stop"}) /\ Take(acc)

\* Mutant: an error chunk is one more chunk without text.
OpenaiErrorSkipped == At("openai", {"error"}) /\ Counted(acc)

OpenaiError == At("openai", {"error"}) /\ UNCHANGED acc /\ Answer(ErrorResponse)

\* An error line has no content: it is one more line.
OllamaLine == At("ollama", {"piece", "error"}) /\ Counted([acc EXCEPT !.text = Said(Current)])
OllamaDone == At("ollama", {"close"}) /\ Counted(Summed(Current))

OneTextEnd ==
  /\ AtEnd("openai") \/ AtEnd("ollama")
  /\ IF acc.taken = 0 THEN Fail ELSE UNCHANGED acc /\ Answer(OneText)

OneTextStreams ==
  OpenaiPiece \/ OpenaiClose \/ OpenaiDone \/ OpenaiError \/ OllamaLine \/ OllamaDone \/ OneTextEnd

Decode == Open \/ Anthropic \/ Responses \/ OneTextStreams
Halted == pc \in {"done", "error"} /\ UNCHANGED vars

Next == Provide \/ Decode \/ Halted

Spec == Init /\ [][Next]_vars

-----------------------------------------------------------------------------
Ended == pc \in {"done", "error"}
Faulty == ToSet(faults)
Arrived(type) == \E k \in 1..Len(body) : body[k].type = type

\* What a decoder makes of the whole message.
Seen(i) ==
  LET b == message.blocks[i]
  IN  CASE b.kind = "tool" -> Part("tool", i, b.pieces)
        [] b.kind = "thinking" /\ wire = "responses" -> Part("hidden", 0, b.pieces)
        [] OTHER -> Part("text", 0, b.pieces)
AllSeen == [i \in DOMAIN message.blocks |-> Seen(i)]
Spoken ==
  Flat([i \in DOMAIN message.blocks |->
    IF message.blocks[i].kind = "text" THEN message.blocks[i].pieces ELSE <<>>])

Expected ==
  CASE wire = "anthropic" -> Response(AllSeen, Dashed(message.stop), message.usage, TRUE)
    [] wire = "responses" ->
         Response(OfKind(AllSeen, {"text", "tool"}),
                  IF message.stop = "end" THEN "stop" ELSE "incomplete", message.usage, TRUE)
    [] OTHER -> Response(<<Part("text", 0, Spoken)>>, message.stop, message.usage, TRUE)

\* The chunks that count against max_collection_len.
Size == Cardinality({k \in DOMAIN body : ~(wire = "openai" /\ body[k].type = "stop")})

(***************************************************************************)
(* A stream that arrives as it was sent, its blocks mixed in any way the   *)
(* format allows, gives the response the provider meant: every block in    *)
(* order and complete, the stop reason and the usage.  It fails exactly    *)
(* when it has more chunks than the caller allows.  The Responses decoder  *)
(* takes everything from the one terminal event, so there the answer is    *)
(* the whole response or an error whatever was lost, repeated, misnumbered *)
(* or cut on the way.                                                      *)
(***************************************************************************)
Faithful ==
  /\ Ended /\ faults = <<>> =>
       result = IF Size <= limit THEN <<Expected>> ELSE NoResponse
  /\ pc = "done" /\ wire = "responses" => result = <<Expected>>

(***************************************************************************)
(* A response made from a stream that was cut invents nothing: its texts   *)
(* are beginnings of what was said, and a tool call has either all of its  *)
(* arguments or none, never the beginning of them.                         *)
(***************************************************************************)
TruncationSafe ==
  pc = "done" /\ Faulty \subseteq {"cut"} =>
    LET got   == result[1]
        begun == Ascending({body[k].at : k \in 1..Len(body)} \ {0})
    IN  /\ got.ok /\ got.stop \in {Expected.stop, "stop"}
        /\ got.usage \in {Expected.usage, 0}
        /\ wire = "responses" => got = Expected
        /\ wire = "anthropic" =>
             /\ Len(got.content) = Len(begun)
             /\ \A j \in 1..Len(begun) :
                  LET p == got.content[j]
                      q == Expected.content[begun[j]]
                  IN  /\ p.kind = q.kind /\ p.id = q.id
                      /\ IsPrefix(p.pieces, q.pieces)
                      /\ p.kind = "tool" => p.pieces \in {<<>>, q.pieces}
        /\ wire \in {"openai", "ollama"} => IsPrefix(got.content[1].pieces, Spoken)

(***************************************************************************)
(* The events of an Anthropic stream and its final response tell the same  *)
(* story, even if the stream was cut or lost a chunk: one final event, the *)
(* last; the announced texts are in the response, and all of its texts are *)
(* announced but for the thoughts, which are not; each announced tool call *)
(* is in it with the same arguments.                                       *)
(***************************************************************************)
EventsMatchResult ==
  wire = "anthropic" /\ pc = "done" /\ Faulty \subseteq {"cut", "lost"} =>
    LET content   == result[1].content
        SaidAs(kind) == UNION {ToSet(message.blocks[i].pieces) : i \in
                              {j \in DOMAIN message.blocks : message.blocks[j].kind = kind}}
        answered  == UNION {ToSet(content[j].pieces) : j \in {k \in DOMAIN content : content[k].kind = "text"}}
        announced == {acc.events[k].pieces[1] : k \in Called("delta")}
    IN  /\ Called("final") = {Len(acc.events)} /\ acc.events[Len(acc.events)].response = result
        /\ answered \ SaidAs("thinking") \subseteq announced /\ announced \subseteq answered \cap SaidAs("text")
        /\ \A k \in Called("tool-call") :
             \E j \in DOMAIN content :
               content[j] = Part("tool", acc.events[k].id, acc.events[k].pieces)

(***************************************************************************)
(* A provider that fails in the middle of a stream is never mistaken for   *)
(* one that ended: three of the formats make an error of it.  An Ollama    *)
(* error line passes as an empty one, and is the exception.                *)
(***************************************************************************)
FailureReported ==
  pc = "done" /\ Arrived("error") /\ wire # "ollama" => ~result[1].ok

(***************************************************************************)
(* decode_anthropic_stream_events is documented to emit a `tool-call'      *)
(* event for tool-use blocks: every tool call of the response was          *)
(* announced, with the arguments it has there.                             *)
(***************************************************************************)
ToolCallsAnnounced ==
  wire = "anthropic" /\ pc = "done" /\ result[1].ok =>
    \A j \in DOMAIN result[1].content :
      LET p == result[1].content[j]
      IN  p.kind = "tool" =>
            \E k \in DOMAIN acc.events :
              acc.events[k] = Event("tool-call", p.id, p.pieces)
=============================================================================
