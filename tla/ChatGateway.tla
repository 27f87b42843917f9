---------------------------- MODULE ChatGateway ----------------------------
(***************************************************************************)
(* A gateway built on crates/sim-codec-chat.  It gets an answer from a     *)
(* provider, streamed (module ChatStreams) or in one body, hands it to a   *)
(* client in the client's own format, and sends the conversation on: to    *)
(* the next gateway, which may speak another format and send it on again.  *)
(* Transcripts can be put into SIMCHAT1 text and taken out again.          *)
(*                                                                         *)
(* The host that composes a conversation from an answer is not part of the *)
(* crate; it uses the transcripts as the crate makes them.                 *)
(***************************************************************************)
EXTENDS ChatStreams, ChatRequests

CONSTANTS
  Asked,         \* bodies clients send, each with the reader of its format
  FieldSets,     \* fields a host puts on a request
  Options,       \* options of the request writers
  ArchiveLimits, \* decode limits of the SIMCHAT1 reader
  WideLimits,    \* bound: the limits under which damaged texts are read
  KeptSources,   \* bound: message, wire and limit whose conversations are archived
  KeptFields,    \* bound: sets of fields, of the requests that are archived
  MaxHops,       \* bound: gateways a request passes
  StreamFaults   \* bound: faults of the streams whose answer is used further

VARIABLES
  stage,     \* "idle", "answered", "relayed", "talking", "delivered", "refused",
             \* "lost", "kept"
  answer,    \* the response the gateway has
  relayed,   \* what the client reads of it
  talk,      \* the request transcript at the last gateway
  first,     \* the transcript the conversation began with
  hops,      \* the formats it went through
  archive    \* the last transcript archived, what was done to its text, and what came back

gateway == <<stage, answer, relayed, talk, first, hops, archive>>

Archive == INSTANCE ChatArchive

NoTalk == Transcript(<<>>, <<>>, NoFields)
NoArchive ==
  [what |-> <<>>, text |-> <<>>, limits |-> <<>>, damage |-> "none", back |-> <<>>]
GatewayInit ==
  /\ Init
  /\ stage = "idle" /\ answer = ErrorResponse /\ relayed = <<>>
  /\ talk = NoTalk /\ first = NoTalk /\ hops = <<>> /\ archive = NoArchive

Streaming == stage = "idle" /\ Next /\ UNCHANGED gateway

-----------------------------------------------------------------------------
(* The answer. *)

\* A provider that does not stream: its format decides what goes where, it
\* may fail, and when it runs out of tokens the last arguments are torn.
Torn(parts) ==
  [i \in DOMAIN parts |->
    IF i = Len(parts) /\ parts[i].kind = "tool" /\ parts[i].pieces # <<>>
    THEN [parts[i] EXCEPT !.pieces = <<Head(@)>>] ELSE parts[i]]
Bodies ==
  LET blocks == NumberedBlocks(message.blocks)
      said   == Words(OfKind(blocks, {"text"}))
      texts  == IF said = <<>> THEN <<>> ELSE <<TextPart(said)>>
      Plain(parts) ==
        CASE wire = "openai" -> Message(texts, OfKind(parts, {"tool"}), message.stop, message.usage)
          [] wire = "ollama" -> Message(texts, <<>>, message.stop, message.usage)
          [] OTHER -> Message(parts, <<>>, message.stop, message.usage)
  IN  {Plain(blocks), Plain(Torn(blocks)),
       [Plain(blocks) EXCEPT !.kind = "error"], [Plain(blocks) EXCEPT !.kind = "empty"]}
ReadWhole(received) ==
  CASE wire = "anthropic" -> ReadAnthropic(received)
    [] wire = "openai" -> ReadOpenai(received, JsonTexts)
    [] wire = "responses" -> ReadResponses(received, JsonTexts)
    [] wire = "ollama" -> ReadOllama(received)

TakeWhole ==
  /\ stage = "idle" /\ phase = "begin"
  /\ \E received \in Bodies :
       LET read == ReadWhole(received)
       IN  IF read = <<>> THEN stage' = "refused" /\ UNCHANGED answer
           ELSE stage' = "answered" /\ answer' = read[1]
  /\ UNCHANGED <<vars, relayed, talk, first, hops, archive>>

TakeStreamed ==
  /\ stage = "idle" /\ pc = "done" /\ ToSet(faults) \subseteq StreamFaults
  /\ answer' = result[1]
  /\ stage' = "answered"
  /\ UNCHANGED <<vars, relayed, talk, first, hops, archive>>

\* Written for the client, and read by it.
ReadByClient(format) ==
  IF format = "anthropic"
  THEN LET w == WriteAnthropic(answer) IN IF w = <<>> THEN <<>> ELSE ReadAnthropic(w[1])
  ELSE LET w == WriteOpenai(answer) IN IF w = <<>> THEN <<>> ELSE ReadOpenai(w[1], JsonTexts)

Relay ==
  /\ stage = "answered"
  /\ \E format \in {"anthropic", "openai"} :
       /\ relayed' = ReadByClient(format)
       /\ stage' = IF relayed' = <<>> THEN "refused" ELSE "relayed"
       /\ hops' = <<format>>
  /\ UNCHANGED <<vars, answer, talk, first, archive>>

-----------------------------------------------------------------------------
(* The request. *)

Begins(t) == talk' = t /\ first' = t /\ hops' = <<>> /\ stage' = "talking"

\* The host: the answer becomes a message, its tool calls are carried out.
Continue ==
  /\ stage = "answered"
  /\ \E fields \in FieldSets, status \in Results :
       LET calls == OfKind(answer.content, {"tool"})
           outcomes == [i \in DOMAIN calls |-> Part(status, calls[i].id, <<7>>)]
       IN  /\ calls = <<>> => status = "ok"
           /\ Begins(Transcript(<<8>>,
                <<Turn("system", <<TextPart(<<6>>)>>), Turn("assistant", answer.content)>> \o
                (IF calls = <<>> THEN <<>> ELSE <<Turn("user", outcomes)>>), fields))
  /\ UNCHANGED <<vars, answer, relayed, archive>>

\* A client's request as it comes over the wire.
ReadRequest(format, sending) ==
  CASE format = "openai" -> ReadOpenaiRequest(sending)
    [] format = "lm-studio" -> ReadLmStudioRequest(sending)
    [] format = "lemonade" -> ReadLemonadeRequest(sending)
    [] format = "anthropic" -> ReadAnthropicRequest(sending)
    [] format = "responses" -> ReadResponsesRequest(sending)
    [] format = "ollama" -> ReadByOllama(sending)
Ask ==
  /\ stage = "idle" /\ phase = "begin"
  /\ \E a \in Asked :
       LET read == ReadRequest(a.format, a.body)
       IN  IF read = <<>> THEN stage' = "refused" /\ UNCHANGED <<talk, first, hops>>
           ELSE Begins(read[1])
  /\ UNCHANGED <<vars, answer, relayed, archive>>

WriteRequest(format, options) ==
  CASE format \in {"openai", "lm-studio", "lemonade"} -> WriteOpenaiRequest(talk, options)
    [] format = "anthropic" -> WriteAnthropicRequest(talk, options)
    [] format = "responses" -> WriteResponsesRequest(talk, options)
    [] format = "ollama" -> WriteOllamaRequest(talk, options)

\* One gateway writes, the next one reads.  Ollama is a provider: the end.
Forward(format) ==
  /\ stage = "talking" /\ Len(hops) < MaxHops
  /\ \E options \in Options :
       LET written == WriteRequest(format, options)
           read    == IF written = <<>> THEN <<>> ELSE ReadRequest(format, written[1])
       IN  IF written = <<>> THEN stage' = "refused" /\ UNCHANGED <<talk, hops>>
           ELSE IF read = <<>> THEN stage' = "lost" /\ UNCHANGED <<talk, hops>>
           ELSE /\ talk' = read[1] /\ hops' = Append(hops, format)
                /\ stage' = IF format = "ollama" THEN "delivered" ELSE "talking"
  /\ UNCHANGED <<vars, answer, relayed, first, archive>>

-----------------------------------------------------------------------------
(* The archive. *)

Damaged(text, damage, at) ==
  CASE damage = "none" -> text
    [] damage = "cut" -> SubSeq(text, 1, at - 1)
    [] damage = "longer" -> Append(text, text[at])
    [] damage = "more" -> [text EXCEPT ![at].n = @ + 1]
    [] damage = "fewer" -> [text EXCEPT ![at].n = @ - 1]

Keep ==
  /\ archive = NoArchive /\ faults = <<>> /\ phase = "begin" /\ <<message, wire, limit>> \in KeptSources
  /\ stage = "answered" \/ (stage = "talking" /\ hops = <<>> /\ DOMAIN talk.fields \in KeptFields)
  /\ LET what == IF stage = "answered" THEN Archive!ResponseExpr(answer)
                 ELSE Archive!RequestExpr(talk)
     IN  archive' = [NoArchive EXCEPT !.what = <<what>>, !.text = Archive!Archived(what)[1]]
  /\ stage' = "kept"
  /\ UNCHANGED <<vars, answer, relayed, talk, first, hops>>

\* The text comes back as it was under any limits, or damaged under the wide ones.
Restore ==
  /\ stage = "kept" /\ archive.limits = <<>>
  /\ \E limits \in ArchiveLimits :
       LET Put(damage, at) ==
             archive' = [archive EXCEPT !.limits = <<limits>>, !.damage = damage,
               !.back = Archive!Restored(Damaged(archive.text, damage, at), limits)]
       IN  \/ Put("none", 1)
           \/ /\ limits = WideLimits
              /\ \E at \in DOMAIN archive.text :
                   \/ Put("cut", at) \/ Put("longer", at)
                   \/ /\ archive.text[at].is = "number"
                      /\ Put("more", at) \/ (archive.text[at].n > 0 /\ Put("fewer", at))
  /\ UNCHANGED <<vars, stage, answer, relayed, talk, first, hops>>

GatewayNext ==
  \/ Streaming \/ TakeWhole \/ TakeStreamed \/ Relay \/ Continue \/ Ask
  \/ (\E format \in {"openai", "lm-studio", "lemonade", "anthropic", "responses", "ollama"} :
        Forward(format))
  \/ Keep \/ Restore

GatewaySpec == GatewayInit /\ [][GatewayNext]_<<vars, gateway>>

-----------------------------------------------------------------------------
(***************************************************************************)
(* The client gets the answer the gateway has: all its words in order, its *)
(* tool calls with their arguments, how it ended and what it cost.  The    *)
(* gateway refuses instead when the client's format has no place for a     *)
(* part, and only then: thoughts anywhere, tool calls in chat completions. *)
(***************************************************************************)
RelayedWhole ==
  /\ stage = "relayed" =>
       LET got == relayed[1]
       IN  /\ Words(OfKind(got.content, {"text"})) = Words(OfKind(answer.content, {"text"}))
           /\ OfKind(got.content, {"tool"}) = OfKind(answer.content, {"tool"})
           /\ Dashed(got.stop) = Dashed(answer.stop) /\ got.usage = answer.usage
  /\ stage = "refused" /\ talk = NoTalk /\ hops # <<>> =>
       KindsIn(answer.content) \ {"text"} # {}
       /\ (hops = <<"anthropic">> => KindsIn(answer.content) \ {"text", "tool"} # {})

(***************************************************************************)
(* A conversation says the same after any chain of gateways: the turns and *)
(* their words, the instructions of the system, the task, the tool calls,  *)
(* and whose results succeeded.  What cannot be said is refused, nothing   *)
(* that was sent is unreadable to the next gateway, and a parameter of a   *)
(* bridge call takes the place of nothing said.  The tools on offer are    *)
(* the first ones or none at all.                                          *)
(***************************************************************************)
SaysTheSame ==
  /\ stage # "lost"
  /\ hops # <<>> /\ stage \in {"talking", "delivered"} =>
       /\ Turns(talk) = Turns(first) /\ Texted(talk) = Texted(first)
       /\ Instructions(talk) = Instructions(first)
       /\ SaidIn(talk.task) = SaidIn(first.task)
       /\ Calls(talk) = Calls(first) /\ Outcomes(talk) = Outcomes(first)
       /\ ToolNames(talk) \in {ToolNames(first), <<>>}

(***************************************************************************)
(* A transcript taken out of its text is the one that was put in, its maps *)
(* in order, whenever it is within the reader's limits, and an error when  *)
(* it is not.  A text that was cut, was given something at its end, or has *)
(* one number wrong is an error, never a shorter or another transcript.    *)
(***************************************************************************)
ArchiveSafe ==
  archive.limits # <<>> =>
    archive.back =
      IF archive.damage = "none" /\ Archive!Fits(archive.what[1], archive.limits[1])
      THEN <<Archive!InOrder(archive.what[1])>> ELSE <<>>
=============================================================================
