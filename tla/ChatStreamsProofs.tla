------------------------- MODULE ChatStreamsProofs -------------------------
(***************************************************************************)
(* What the decoders of module ChatStreams answer, for every message,      *)
(* format and limit, and whatever the connection does to the stream.       *)
(*                                                                         *)
(* FailureTheorem.  The decoder starts on a body that is complete, and     *)
(* outside of Ollama no rule but the one for errors takes an error chunk,  *)
(* wherever in the body it is.  So the chunks a decoder has left behind    *)
(* hold none, and whoever arrives at the end has met none (StreamInv).     *)
(*                                                                         *)
(* EventsTheorem.  A body that was cut or lost chunks is made of chunks of *)
(* the message, in an order that ProviderInv keeps.  Of what it has read   *)
(* the Anthropic decoder has told a Story: its texts were announced unless *)
(* they are thoughts, and each announced tool call is one of its blocks,   *)
(* complete.                                                               *)
(*                                                                         *)
(* FaithfulTheorem and TruncationTheorem.  A body that was only cut has    *)
(* the first chunks of each block (LosslessBody).  What a decoder has is   *)
(* then a function of how many chunks of each block it has read: a state   *)
(* of each block (Folded), or the text said so far (Learned).  At the end  *)
(* of a body these numbers are those that were sent, which is everything   *)
(* unless it was cut.                                                      *)
(***************************************************************************)
EXTENDS ChatStreams, DataLemmas

Strict == wire # "ollama"
IsError(k) == body[k].type = "error"

StreamInv ==
  /\ pos \in Nat
  /\ pc = "stream" => pos = 0
  /\ pc # "stream" => phase = "over"
  /\ pc = "decode" /\ Strict => \A k \in 1..pos : ~IsError(k)
  /\ FailureReported

\* An error is not ok.
LEMMA ErrorIsNotOk == ~ErrorResponse.ok
BY DEF ErrorResponse, Response

\* Before the transport hands the body over there is no response.
LEMMA ProviderKeeps ==
  ASSUME StreamInv, pc = "stream", UNCHANGED <<pc, pos>> PROVE StreamInv'
BY DEF StreamInv, FailureReported

\* What the provider and the connection do.
LEMMA ProvideKeeps == ASSUME StreamInv, Provide PROVE StreamInv'
<1>1. phase # "over" /\ UNCHANGED <<pc, pos>>
  BY DEF Provide, Begin, SendBlock, Close, Stop, BreakOff, Cut
<1> QED BY <1>1, ProviderKeeps DEF StreamInv

\* A rule that takes a chunk which is no error.
LEMMA TakeKeeps ==
  ASSUME StreamInv, pc = "decode", Strict => ~IsError(pos + 1),
         pos' = pos + 1, UNCHANGED <<provider, pc, result>>
  PROVE  StreamInv'
<1>1. /\ UNCHANGED <<wire, phase, body>> /\ pos \in Nat /\ phase = "over"
      /\ Strict => \A k \in 1..pos : ~IsError(k)
  BY DEF StreamInv, provider
<1>2. \A k \in 1..(pos + 1) : k \in 1..pos \/ k = pos + 1
  BY <1>1
<1>3. Strict => \A k \in 1..(pos + 1) : ~IsError(k)
  BY <1>1, <1>2
<1> QED BY <1>1, <1>3 DEF StreamInv, Strict, IsError, FailureReported

\* A refusal.
LEMMA FailKeeps ==
  ASSUME StreamInv, pc = "decode", pc' = "error", UNCHANGED <<provider, pos>>
  PROVE  StreamInv'
BY DEF StreamInv, provider, FailureReported

\* An answer: at the end of the body, or an error.
LEMMA AnswerKeeps ==
  ASSUME StreamInv, pc = "decode", NEW response, Answer(response),
         Strict => pos = Len(body) \/ ~response.ok
  PROVE  StreamInv'
<1>1. /\ UNCHANGED <<wire, phase, body, pos>> /\ phase = "over" /\ pc' = "done"
      /\ result' = <<response>>
      /\ Strict => \A k \in 1..pos : ~IsError(k)
  BY DEF StreamInv, provider, Answer
<1>2. result'[1] = response
  BY <1>1
<1>3. FailureReported'
  BY <1>1, <1>2 DEF FailureReported, Arrived, Strict, IsError
<1> QED BY <1>1, <1>3 DEF StreamInv

\* The body is handed over.
LEMMA OpenKeeps == ASSUME StreamInv, Open PROVE StreamInv'
<1>1. /\ phase = "over" /\ pc' \in {"decode", "error"} /\ UNCHANGED <<wire, phase, body, pos>>
      /\ pos = 0
  BY DEF Open, provider, StreamInv
<1> QED BY <1>1 DEF StreamInv, FailureReported, IsError, Strict

\* A chunk that a rule takes.
LEMMA AtChunk ==
  ASSUME NEW w, NEW types, At(w, types)
  PROVE  pc = "decode" /\ wire = w /\ ("error" \notin types => ~IsError(pos + 1))
BY DEF At, Current, IsError

-----------------------------------------------------------------------------
(* The decoders. *)

\* Taking a chunk, counted or not.
LEMMA TakesOne ==
  ASSUME NEW next, Take(next) \/ Counted(next)
  PROVE  \/ pos' = pos + 1 /\ UNCHANGED <<provider, pc, result>>
         \/ pc' = "error" /\ UNCHANGED <<provider, pos>>
BY DEF Take, Counted, Fail

\* Anthropic Messages.
LEMMA AnthropicKeeps == ASSUME StreamInv, Anthropic PROVE StreamInv'
<1>1. ASSUME NEW types, "error" \notin types, At("anthropic", types),
             \/ pos' = pos + 1 /\ UNCHANGED <<provider, pc, result>>
             \/ pc' = "error" /\ UNCHANGED <<provider, pos>>
      PROVE  StreamInv'
  BY <1>1, AtChunk, TakeKeeps, FailKeeps
<1>2. CASE AnthropicOpen
  BY <1>1, <1>2, TakesOne DEF AnthropicOpen
<1>3. CASE AnthropicBlockStart
  BY <1>1, <1>3, TakesOne DEF AnthropicBlockStart
<1>4. CASE AnthropicText
  <2>1. At("anthropic", {"piece"})
    BY <1>4 DEF AnthropicText
  <2>2. Fail \/ \E next : Take(next)
    BY <1>4 DEF AnthropicText
  <2> QED BY <1>1, <2>1, <2>2, TakesOne DEF Fail
<1>5. CASE AnthropicJson
  <2>1. At("anthropic", {"piece"})
    BY <1>5 DEF AnthropicJson
  <2>2. Fail \/ \E next : Take(next)
    BY <1>5 DEF AnthropicJson
  <2> QED BY <1>1, <2>1, <2>2, TakesOne DEF Fail
<1>6. CASE AnthropicBlockStop
  <2>1. At("anthropic", {"block_stop"})
    BY <1>6 DEF AnthropicBlockStop
  <2>2. Fail \/ \E next : Take(next)
    BY <1>6 DEF AnthropicBlockStop
  <2> QED BY <1>1, <2>1, <2>2, TakesOne DEF Fail
<1>7. CASE AnthropicClose
  BY <1>1, <1>7, TakesOne DEF AnthropicClose
<1>8. CASE AnthropicStop
  BY <1>1, <1>8, TakesOne DEF AnthropicStop
<1>9. CASE AnthropicError
  BY <1>9, AtChunk, AnswerKeeps, ErrorIsNotOk DEF AnthropicError
<1>10. CASE AnthropicEnd
  <2>1. pc = "decode" /\ pos = Len(body)
    BY <1>10 DEF AnthropicEnd, AtEnd
  <2>2. \E response : Answer(response)
    BY <1>10 DEF AnthropicEnd
  <2> QED BY <2>1, <2>2, AnswerKeeps
<1> QED BY <1>2, <1>3, <1>4, <1>5, <1>6, <1>7, <1>8, <1>9, <1>10 DEF Anthropic

\* OpenAI Responses.
LEMMA ResponsesKeeps == ASSUME StreamInv, Responses PROVE StreamInv'
<1>1. ASSUME NEW types, "error" \notin types, At("responses", types),
             NEW next, Counted(next)
      PROVE  StreamInv'
  BY <1>1, AtChunk, TakesOne, TakeKeeps, FailKeeps
<1>2. ASSUME pc = "decode", Fail PROVE StreamInv'
  BY <1>2, FailKeeps DEF Fail
<1>3. CASE ResponsesProgress
  BY <1>1, <1>3 DEF ResponsesProgress
<1>4. CASE ResponsesTerminal
  <2>1. At("responses", {"close"})
    BY <1>4 DEF ResponsesTerminal
  <2>2. Fail \/ \E next : Counted(next)
    BY <1>4 DEF ResponsesTerminal
  <2> QED BY <1>1, <1>2, <2>1, <2>2, AtChunk
<1>5. CASE ResponsesError
  BY <1>2, <1>5, AtChunk DEF ResponsesError
<1>6. CASE ResponsesEnd
  <2>1. pc = "decode" /\ pos = Len(body)
    BY <1>6 DEF ResponsesEnd, AtEnd
  <2>2. Fail \/ \E response : Answer(response)
    BY <1>6 DEF ResponsesEnd
  <2> QED BY <1>2, <2>1, <2>2, AnswerKeeps
<1> QED BY <1>3, <1>4, <1>5, <1>6 DEF Responses

\* OpenAI chat completions and Ollama.
LEMMA OneTextKeeps == ASSUME StreamInv, OneTextStreams PROVE StreamInv'
<1>1. ASSUME NEW w, NEW types, "error" \notin types \/ w = "ollama", At(w, types),
             NEW next, Counted(next) \/ Take(next)
      PROVE  StreamInv'
  BY <1>1, AtChunk, TakesOne, TakeKeeps, FailKeeps DEF Strict
<1>2. CASE OpenaiPiece
  BY <1>1, <1>2 DEF OpenaiPiece
<1>3. CASE OpenaiClose
  BY <1>1, <1>3 DEF OpenaiClose
<1>4. CASE OpenaiDone
  BY <1>1, <1>4 DEF OpenaiDone
<1>5. CASE OpenaiError
  BY <1>5, AtChunk, AnswerKeeps, ErrorIsNotOk DEF OpenaiError
<1>6. CASE OllamaLine
  BY <1>1, <1>6 DEF OllamaLine
<1>7. CASE OllamaDone
  BY <1>1, <1>7 DEF OllamaDone
<1>8. CASE OneTextEnd
  <2>1. pc = "decode" /\ pos = Len(body)
    BY <1>8 DEF OneTextEnd, AtEnd
  <2>2. Fail \/ Answer(OneText)
    BY <1>8 DEF OneTextEnd
  <2> QED BY <2>1, <2>2, AnswerKeeps, FailKeeps DEF Fail
<1> QED BY <1>2, <1>3, <1>4, <1>5, <1>6, <1>7, <1>8 DEF OneTextStreams

-----------------------------------------------------------------------------
(* Every run. *)

\* The invariant is inductive.
LEMMA StreamSteps == ASSUME StreamInv, [Next]_vars PROVE StreamInv'
<1>1. ASSUME UNCHANGED vars PROVE StreamInv'
  <2>1. UNCHANGED <<wire, phase, body, pos, pc, result>>
    BY <1>1 DEF vars, provider
  <2> QED BY <2>1 DEF StreamInv, FailureReported, Arrived, Strict, IsError
<1>2. CASE Decode
  BY <1>2, OpenKeeps, AnthropicKeeps, ResponsesKeeps, OneTextKeeps DEF Decode
<1>3. CASE Halted
  BY <1>1, <1>3 DEF Halted
<1> QED BY <1>1, <1>2, <1>3, ProvideKeeps DEF Next

\* A stream in which the provider failed never gives a response that is ok,
\* in the formats that have errors of their own, wherever the failure came,
\* and whatever was lost, repeated or misnumbered around it.
THEOREM FailureTheorem == Spec => []FailureReported
<1>1. Init => StreamInv
  BY DEF Init, StreamInv, FailureReported, IsError
<1>2. StreamInv /\ [Next]_vars => StreamInv'
  BY StreamSteps
<1>3. StreamInv => FailureReported
  BY DEF StreamInv
<1> QED BY <1>1, <1>2, <1>3, PTL DEF Spec

-----------------------------------------------------------------------------
(* What the provider sends and the connection lets through.                *)

Lossless == Faulty \subseteq {"cut"}
Calm == Faulty \subseteq {"cut", "lost"}

\* How many of the first k chunks of b are of block i.
Got(b, k, i) == Cardinality({l \in 1..k : b[l].at = i})

\* The chunk of block i of message m that n others of it come before, in
\* format w.
ChunkOf(m, w, i, n) ==
  LET parts == m.blocks[i].pieces
      Of(type, pieces) == [Blank EXCEPT !.type = type, !.at = i, !.kind = m.blocks[i].kind, !.pieces = pieces]
  IN  CASE w = "anthropic" /\ n = 0 -> Of("block_start", <<>>)
        [] w = "anthropic" /\ n = Len(parts) + 1 -> Of("block_stop", <<>>)
        [] OTHER -> Of("piece", <<parts[IF w = "anthropic" THEN n ELSE n + 1]>>)

TheClose == [Closing("close") EXCEPT !.blocks = IF wire = "responses" THEN message.blocks ELSE <<>>]

\* A chunk of a block, and any chunk of a stream in which nothing was garbled.
OfBlock(c) ==
  /\ c.at \in DOMAIN message.blocks /\ c.kind = message.blocks[c.at].kind
  /\ \/ Framed /\ c.type \in {"block_start", "block_stop"}
     \/ c.type = "piece" /\ \E p \in ToSet(Pieces(c.at)) : c.pieces = <<p>>
Proper(c) ==
  \/ c.at = 0 /\ c.type \in {"open", "stop", "close"} /\ c.kind = ""
  \/ c.at # 0 /\ OfBlock(c)

\* Where the chunks of a block may be: its start before all others, its stop
\* behind them, and where blocks have neither, all behind the blocks before.
InPlace(b, k, l) ==
  /\ b[k].at = b[l].at => b[k].type # "block_stop" /\ b[l].type # "block_start"
  /\ ~Framed => b[k].at <= b[l].at

\* A body without repeated, misnumbered or error chunks: the stop is its last
\* chunk, it has one close, and of the blocks it has what was sent, in place.
AllProper == \A k \in 1..Len(body) : Proper(body[k])
StopLast == \A k \in 1..Len(body) : body[k].type = "stop" => k = Len(body) /\ phase = "over"
OneClose ==
  /\ \A k \in 1..Len(body) : body[k].type = "close" => phase \in {"stop", "over"}
  /\ \A k, l \in 1..Len(body) : body[k].type = "close" /\ body[l].type = "close" => k = l
WasSent ==
  \A k \in 1..Len(body) : body[k].at # 0 =>
    /\ sent[body[k].at] > 0
    /\ body[k].type = "block_stop" => sent[body[k].at] = Whole(body[k].at)
    /\ ~Framed => \A j \in DOMAIN sent : j < body[k].at => sent[j] = Whole(j)
AllInPlace ==
  \A k, l \in 1..Len(body) : k < l /\ body[k].at # 0 /\ body[l].at # 0 => InPlace(body, k, l)
CalmBody == AllProper /\ StopLast /\ OneClose /\ WasSent /\ AllInPlace

\* Of each block a body that is no more than cut has the first chunks.
LosslessBody ==
  /\ \A k \in 1..Len(body) : body[k].at # 0 =>
       body[k] = ChunkOf(message, wire, body[k].at, Got(body, k - 1, body[k].at))
  /\ \A i \in DOMAIN sent : Got(body, Len(body), i) = sent[i]

ProviderInv ==
  /\ message \in Messages /\ wire \in Wires /\ limit \in ChunkLimits
  /\ sent \in [DOMAIN message.blocks -> Nat] /\ \A i \in DOMAIN sent : sent[i] <= Whole(i)
  /\ IsSeq(body) /\ IsSeq(faults)
  /\ phase \in {"begin", "blocks", "stop", "over"}
  /\ \A k \in 1..Len(body) : body[k].type = "close" => body[k] = TheClose
  /\ Calm => CalmBody
  /\ Lossless => LosslessBody
  /\ faults = <<>> /\ phase \in {"stop", "over"} =>
       AllSent /\ \E k \in 1..Len(body) : body[k].type = "close"

\* The blocks of a message.
LEMMA BlockTypes ==
  ASSUME NEW m \in Messages
  PROVE  /\ Len(m.blocks) \in Nat /\ DOMAIN m.blocks = 1..Len(m.blocks)
         /\ \A i \in DOMAIN m.blocks :
              /\ m.blocks[i].kind \in {"text", "thinking", "tool"}
              /\ IsSeq(m.blocks[i].pieces) /\ Len(m.blocks[i].pieces) \in Nat
              /\ DOMAIN m.blocks[i].pieces = 1..Len(m.blocks[i].pieces)
<1>1. /\ IsSeq(m.blocks)
      /\ \A i \in DOMAIN m.blocks :
           m.blocks[i].kind \in {"text", "thinking", "tool"} /\ IsSeq(m.blocks[i].pieces)
  BY StreamsAssumption
<1>2. ASSUME NEW s, IsSeq(s) PROVE Len(s) \in Nat /\ DOMAIN s = 1..Len(s)
  BY <1>2, LenProperties DEF IsSeq
<1> QED BY <1>1, <1>2

\* Counting chunks.
LEMMA GotLemma ==
  ASSUME NEW b, NEW i, NEW k \in Nat
  PROVE  /\ Got(b, 0, i) = 0
         /\ Got(b, k, i) \in Nat
         /\ Got(b, k + 1, i) = Got(b, k, i) + (IF b[k + 1].at = i THEN 1 ELSE 0)
         /\ Got(b, k, i) = 0 <=> \A l \in 1..k : b[l].at # i
<1> DEFINE G(n) == {l \in 1..n : b[l].at = i}
<1>1. \A n \in Nat : IsFiniteSet(G(n)) /\ Cardinality(G(n)) \in Nat
  <2> SUFFICES ASSUME NEW n \in Nat PROVE IsFiniteSet(G(n)) /\ Cardinality(G(n)) \in Nat
    OBVIOUS
  <2>1. IsFiniteSet(1..n) /\ G(n) \subseteq 1..n
    BY FS_Interval
  <2> HIDE DEF G
  <2> QED BY <2>1, FS_Subset, FS_CardinalityType
<1>2. G(0) = {}
  OBVIOUS
<1>3. k + 1 \notin G(k) /\ G(k + 1) = IF b[k + 1].at = i THEN G(k) \cup {k + 1} ELSE G(k)
  <2>1. k + 1 \notin G(k)
    OBVIOUS
  <2>2. \A l : l \in 1..(k + 1) <=> l \in 1..k \/ l = k + 1
    OBVIOUS
  <2> QED BY <2>1, <2>2
<1>4. G(k) = {} <=> \A l \in 1..k : b[l].at # i
  OBVIOUS
<1>5. Got(b, 0, i) = Cardinality(G(0)) /\ Got(b, k, i) = Cardinality(G(k))
      /\ Got(b, k + 1, i) = Cardinality(G(k + 1))
  BY DEF Got
<1> HIDE DEF G
<1>6. Cardinality(G(k) \cup {k + 1}) = Cardinality(G(k)) + 1
  BY <1>1, <1>3, FS_AddElement
<1>7. Cardinality(G(k)) = 0 <=> G(k) = {}
  BY <1>1, FS_EmptySet
<1>8. Cardinality(G(0)) = 0
  BY <1>2, FS_EmptySet
<1> QED BY <1>1, <1>3, <1>4, <1>5, <1>6, <1>7, <1>8

\* One more of block i, or one of another.
LEMMA GotNext ==
  ASSUME NEW b, NEW i, NEW k \in Nat
  PROVE  /\ Got(b, k, i) \in Nat /\ Got(b, k + 1, i) \in Nat
         /\ b[k + 1].at = i => Got(b, k + 1, i) = Got(b, k, i) + 1
         /\ b[k + 1].at # i => Got(b, k + 1, i) = Got(b, k, i)
BY GotLemma

\* The count does not look further than it counts.
LEMMA GotSame ==
  ASSUME NEW b, NEW c, NEW i, NEW k \in Nat, \A l \in 1..k : c[l] = b[l]
  PROVE  Got(c, k, i) = Got(b, k, i)
<1>1. {l \in 1..k : c[l].at = i} = {l \in 1..k : b[l].at = i}
  OBVIOUS
<1> QED BY <1>1, Zenon DEF Got

\* The places of a sequence, and what one more element adds.
LEMMA SeqPlaces ==
  ASSUME NEW s, IsSeq(s)
  PROVE  Len(s) \in Nat /\ DOMAIN s = 1..Len(s)
BY LenProperties DEF IsSeq

\* A sequence with one element more.
LEMMA OneMore ==
  ASSUME NEW s, IsSeq(s), NEW x
  PROVE  /\ IsSeq(Append(s, x)) /\ Append(s, x) # <<>>
         /\ Len(Append(s, x)) = Len(s) + 1 /\ Len(s) \in Nat
         /\ \A k \in 1..Len(s) : Append(s, x)[k] = s[k]
         /\ Append(s, x)[Len(s) + 1] = x
         /\ ToSet(Append(s, x)) = ToSet(s) \cup {x}
<1> DEFINE t == Push(s, x)
<1>1. /\ IsSeq(t) /\ t # <<>> /\ Len(t) = Len(s) + 1
      /\ \A k \in 1..Len(s) : t[k] = s[k]
      /\ t[Len(s) + 1] = x
  BY PushLemma
<1>2. t = Append(s, x)
  BY DEF Push
<1> HIDE DEF t
<1>3. Len(s) \in Nat /\ DOMAIN s = 1..Len(s) /\ DOMAIN t = 1..Len(t)
  BY <1>1, SeqPlaces
<1>4. \A k \in 1..Len(t) : k \in 1..Len(s) \/ k = Len(s) + 1
  BY <1>1, <1>3
<1>5. 1..Len(s) \subseteq 1..Len(t) /\ Len(s) + 1 \in 1..Len(t)
  BY <1>1, <1>3
<1>6. ToSet(t) = ToSet(s) \cup {x}
  BY <1>1, <1>3, <1>4, <1>5 DEF ToSet
<1> QED BY <1>1, <1>2, <1>3, <1>6, Zenon

\* The next chunk of a block.
LEMMA NextShape ==
  ASSUME message \in Messages, NEW i \in DOMAIN message.blocks, sent[i] \in Nat, sent[i] < Whole(i)
  PROVE  /\ NextOf(i) = ChunkOf(message, wire, i, sent[i])
         /\ NextOf(i).at = i /\ OfBlock(NextOf(i)) /\ i # 0
         /\ NextOf(i).type \in {"block_start", "block_stop", "piece"}
         /\ NextOf(i).type = "block_start" => sent[i] = 0
         /\ NextOf(i).type = "block_stop" => sent[i] = Whole(i) - 1
         /\ \A j : [NextOf(i) EXCEPT !.at = j].type # "close"
<1> DEFINE c == NextOf(i)
           at == IF Framed THEN sent[i] ELSE sent[i] + 1
<1>1. /\ Len(Pieces(i)) \in Nat /\ DOMAIN Pieces(i) = 1..Len(Pieces(i)) /\ i # 0
  BY BlockTypes DEF Pieces
<1>a. Framed => Whole(i) - 1 # 0
  BY <1>1 DEF Whole
<1>2. CASE Framed /\ sent[i] = 0
  <2>1. c = BlockChunk("block_start", i, <<>>) /\ ChunkOf(message, wire, i, sent[i]) = c
    BY <1>2, <1>a DEF NextOf, ChunkOf, BlockChunk, Framed, Whole, Pieces
  <2> QED BY <1>1, <1>2, <2>1 DEF BlockChunk, Blank, OfBlock
<1>3. CASE Framed /\ sent[i] # 0 /\ sent[i] = Whole(i) - 1
  <2>1. c = BlockChunk("block_stop", i, <<>>) /\ ChunkOf(message, wire, i, sent[i]) = c
    BY <1>3 DEF NextOf, ChunkOf, BlockChunk, Framed, Whole, Pieces
  <2> QED BY <1>1, <1>3, <2>1 DEF BlockChunk, Blank, OfBlock
<1>4. CASE ~(Framed /\ sent[i] = 0) /\ ~(Framed /\ sent[i] = Whole(i) - 1)
  <2>a. ~(Framed /\ sent[i] = Len(Pieces(i)) + 1)
    BY <1>1, <1>4 DEF Whole
  <2>1. c = BlockChunk("piece", i, <<Pieces(i)[at]>>) /\ ChunkOf(message, wire, i, sent[i]) = c
    BY <1>4, <2>a DEF NextOf, ChunkOf, BlockChunk, Framed, Whole, Pieces
  <2>2. at \in 1..Len(Pieces(i))
    BY <1>1, <1>4 DEF Whole
  <2>3. PICK p : p = Pieces(i)[at]
    OBVIOUS
  <2>4. p \in ToSet(Pieces(i))
    BY <1>1, <2>2, <2>3 DEF ToSet
  <2> HIDE DEF at
  <2>5. PICK one : one = <<p>>
    OBVIOUS
  <2>6. c = BlockChunk("piece", i, one)
    BY <2>1, <2>3, <2>5
  <2>7. /\ c.at = i /\ c.type = "piece" /\ c.kind = message.blocks[i].kind /\ c.pieces = one
        /\ \A j : [c EXCEPT !.at = j].type = "piece"
    BY <2>6 DEF BlockChunk, Blank
  <2>8. OfBlock(c)
    BY <2>4, <2>5, <2>7 DEF OfBlock
  <2> QED BY <1>1, <2>1, <2>7, <2>8
<1> QED BY <1>2, <1>3, <1>4

\* The provider sends chunk c: one of a block, or one of none.
Sends(c) ==
  /\ phase # "over" /\ UNCHANGED <<message, wire, limit>>
  /\ c.at = 0 => UNCHANGED sent
  /\ c.at # 0 =>
       /\ phase = "blocks" /\ c.at \in DOMAIN sent
       /\ sent[c.at] < Whole(c.at) /\ sent' = [sent EXCEPT ![c.at] = @ + 1]
       /\ c.type = "block_start" => sent[c.at] = 0
       /\ c.type = "block_stop" => sent[c.at] = Whole(c.at) - 1
       /\ ~Framed => \A j \in 1..(c.at - 1) : sent[j] = Whole(j)
  /\ c.type = "stop" => phase' = "over"
  /\ c.type = "close" => phase = "blocks" /\ phase' = "stop"
  /\ phase' \in {"blocks", "stop", "over"}
  /\ phase = "stop" => phase' \in {"stop", "over"}

\* What was sent of each block.
LEMMA SentMore ==
  ASSUME ProviderInv, NEW c, Sends(c)
  PROVE  /\ sent' \in [DOMAIN message'.blocks -> Nat]
         /\ \A i \in DOMAIN sent' : sent'[i] <= Whole(i)'
         /\ \A i \in DOMAIN sent : sent'[i] = IF i = c.at THEN sent[i] + 1 ELSE sent[i]
         /\ DOMAIN sent' = DOMAIN sent /\ DOMAIN sent = DOMAIN message.blocks
         /\ 0 \notin DOMAIN sent
<1>1. /\ sent \in [DOMAIN message.blocks -> Nat] /\ \A i \in DOMAIN sent : sent[i] <= Whole(i)
      /\ 0 \notin DOMAIN message.blocks
  BY BlockTypes DEF ProviderInv
<1>a. message' = message /\ wire' = wire
  BY DEF Sends
<1>b. \A i \in DOMAIN sent : Len(Pieces(i)) \in Nat
  <2>1. message \in Messages /\ DOMAIN sent = DOMAIN message.blocks
    BY <1>1 DEF ProviderInv
  <2> QED BY <2>1, BlockTypes DEF Pieces
<1>c. \A i : Pieces(i)' = Pieces(i)
  BY <1>a DEF Pieces
<1>2. /\ message' = message /\ \A i \in DOMAIN sent : Whole(i)' = Whole(i) /\ Whole(i) \in Nat
  BY <1>a, <1>b, <1>c DEF Whole, Framed
<1>3. CASE c.at = 0
  BY <1>1, <1>2, <1>3 DEF Sends
<1>4. CASE c.at # 0
  <2>1. c.at \in DOMAIN sent /\ sent[c.at] < Whole(c.at) /\ sent' = [sent EXCEPT ![c.at] = @ + 1]
    BY <1>4 DEF Sends
  <2>2. PICK a : a = c.at
    OBVIOUS
  <2>3. a \in DOMAIN sent /\ sent[a] < Whole(a) /\ sent' = [sent EXCEPT ![a] = sent[a] + 1]
    BY <2>1, <2>2
  <2>4. sent' \in [DOMAIN message.blocks -> Nat]
        /\ \A i \in DOMAIN sent : sent'[i] = IF i = a THEN sent[i] + 1 ELSE sent[i]
    BY <1>1, <2>3
  <2> QED BY <1>1, <1>2, <2>2, <2>3, <2>4
<1> QED BY <1>3, <1>4

\* What the connection makes of a chunk.
LEMMA CarryCases ==
  ASSUME NEW c, Carries(c), IsSeq(body), IsSeq(faults)
  PROVE  /\ IsSeq(body') /\ IsSeq(faults')
         /\ \A k \in 1..Len(body') : \/ \E l \in 1..Len(body) : body'[k] = body[l]
                                     \/ body'[k] = c
                                     \/ c.at # 0 /\ \E i : body'[k] = [c EXCEPT !.at = i]
         /\ Faulty \subseteq Faulty'
         /\ Calm' => body' = body \/ body' = Append(body, c)
         /\ Lossless' => body' = Append(body, c)
         /\ faults' = <<>> => faults = <<>> /\ body' = Append(body, c)
<1>1. ASSUME NEW x
      PROVE  /\ IsSeq(Append(body, x)) /\ Len(Append(body, x)) = Len(body) + 1 /\ Len(body) \in Nat
             /\ \A k \in 1..Len(Append(body, x)) :
                   Append(body, x)[k] = x \/ \E l \in 1..Len(body) : Append(body, x)[k] = body[l]
  <2>1. PICK t : t = Append(body, x)
    OBVIOUS
  <2>2. /\ IsSeq(t) /\ Len(t) = Len(body) + 1 /\ Len(body) \in Nat
        /\ \A k \in 1..Len(body) : t[k] = body[k]
        /\ t[Len(body) + 1] = x
    BY <2>1, OneMore
  <2>3. \A k \in 1..Len(t) : k \in 1..Len(body) \/ k = Len(body) + 1
    BY <2>2
  <2> QED BY <2>1, <2>2, <2>3
<1>2. ASSUME NEW x
      PROVE  /\ IsSeq(Append(faults, x)) /\ Append(faults, x) # <<>>
             /\ ToSet(Append(faults, x)) = ToSet(faults) \cup {x}
  BY OneMore
<1>3. CASE body' = Append(body, c) /\ UNCHANGED faults
  BY <1>1, <1>3 DEF Faulty
<1>4. CASE body' = body /\ faults' = Append(faults, "lost")
  <2>1. "lost" \in Faulty' /\ Faulty \subseteq Faulty' /\ faults' # <<>> /\ IsSeq(faults')
    BY <1>2, <1>4 DEF Faulty
  <2>2. ~Lossless'
    BY <2>1 DEF Lossless
  <2> QED BY <1>4, <2>1, <2>2
<1>5. CASE body' = body \o <<c, c>> /\ faults' = Append(faults, "twice")
  <2>1. "twice" \in Faulty' /\ Faulty \subseteq Faulty' /\ faults' # <<>> /\ IsSeq(faults')
    BY <1>2, <1>5 DEF Faulty
  <2>2. ~Lossless' /\ ~Calm'
    BY <2>1 DEF Lossless, Calm
  <2>3. PICK two : two = <<c, c>>
    OBVIOUS
  <2>4. PICK S : c \in S /\ body \in Seq(S)
    <3>1. c \in {c} \cup {body[k] : k \in 1..Len(body)}
      OBVIOUS
    <3>2. body \in Seq({c} \cup {body[k] : k \in 1..Len(body)})
      BY SeqMonotonic DEF IsSeq
    <3> QED BY <3>1, <3>2
  <2>5. two \in Seq(S) /\ Len(two) = 2 /\ two[1] = c /\ two[2] = c
    BY <2>3, <2>4
  <2>6. PICK both : both = body \o two
    OBVIOUS
  <2>7. /\ both \in Seq(S) /\ Len(both) = Len(body) + 2 /\ Len(body) \in Nat
        /\ \A k \in 1..(Len(body) + 2) :
              both[k] = IF k <= Len(body) THEN body[k] ELSE two[k - Len(body)]
    <3>1. /\ both \in Seq(S) /\ Len(both) = Len(body) + Len(two)
          /\ \A k \in 1..(Len(body) + Len(two)) :
                both[k] = IF k <= Len(body) THEN body[k] ELSE two[k - Len(body)]
      BY <2>4, <2>5, <2>6, ConcatProperties
    <3> QED BY <2>5, <3>1, SeqPlaces
  <2>8. ASSUME NEW k \in 1..Len(both) PROVE both[k] = c \/ \E l \in 1..Len(body) : both[k] = body[l]
    <3>1. CASE k <= Len(body)
      BY <2>7, <3>1
    <3>2. CASE k > Len(body)
      <4>1. k - Len(body) \in {1, 2}
        BY <2>7, <3>2
      <4> QED BY <2>5, <2>7, <3>2, <4>1
    <3> QED BY <2>7, <3>1, <3>2
  <2>9. IsSeq(both)
    BY <2>7, SeqIsSeq
  <2>10. body' = both
    BY <1>5, <2>3, <2>6
  <2> QED BY <2>1, <2>2, <2>8, <2>9, <2>10
<1>6. ASSUME c.at # 0, faults' = Append(faults, "misnumbered"),
             NEW i, body' = Append(body, [c EXCEPT !.at = i])
      PROVE  /\ IsSeq(body') /\ IsSeq(faults')
             /\ \A k \in 1..Len(body') : \/ \E l \in 1..Len(body) : body'[k] = body[l]
                                         \/ \E j : body'[k] = [c EXCEPT !.at = j]
             /\ Faulty \subseteq Faulty' /\ ~Calm' /\ ~Lossless' /\ faults' # <<>>
  <2>1. "misnumbered" \in Faulty' /\ Faulty \subseteq Faulty' /\ faults' # <<>> /\ IsSeq(faults')
    BY <1>2, <1>6 DEF Faulty
  <2>2. ~Lossless' /\ ~Calm'
    BY <2>1 DEF Lossless, Calm
  <2>3. PICK d : d = [c EXCEPT !.at = i]
    OBVIOUS
  <2>4. body' = Append(body, d)
    BY <1>6, <2>3
  <2>5. /\ IsSeq(body')
        /\ \A k \in 1..Len(body') : body'[k] = d \/ \E l \in 1..Len(body) : body'[k] = body[l]
    BY <1>1, <2>4
  <2> QED BY <2>1, <2>2, <2>3, <2>5
<1> QED BY <1>3, <1>4, <1>5, <1>6 DEF Carries

\* A body stays calm with another chunk of the provider, and without it.
LEMMA CalmKeeps ==
  ASSUME ProviderInv, CalmBody, NEW c, Sends(c), Proper(c), body' = body \/ body' = Append(body, c)
  PROVE  CalmBody'
<1> DEFINE n == Len(body)
           Old(k) == k \in 1..n /\ body'[k] = body[k]
           New(k) == k = n + 1 /\ Len(body') = n + 1 /\ body'[k] = c
<1>1. n \in Nat /\ (\A k \in 1..Len(body') : Old(k) \/ New(k)) /\ Len(body') \in n..(n + 1)
  <2>1. n \in Nat /\ IsSeq(body)
    BY SeqPlaces DEF ProviderInv
  <2>2. CASE body' = body
    BY <2>1, <2>2
  <2>3. CASE body' = Append(body, c)
    <3>1. /\ Len(body') = n + 1 /\ \A k \in 1..n : body'[k] = body[k]
          /\ body'[n + 1] = c
      BY <2>1, <2>3, OneMore
    <3> QED BY <2>1, <3>1
  <2> QED BY <2>2, <2>3
<1> HIDE DEF n
<1>2. /\ message' = message /\ wire' = wire /\ Framed' = Framed
      /\ phase # "over" /\ phase' \in {"blocks", "stop", "over"}
      /\ phase = "stop" => phase' \in {"stop", "over"}
  BY DEF Sends, Framed
<1>3. \A i : Whole(i)' = Whole(i)
  BY <1>2 DEF Whole, Framed, Pieces
<1>5. /\ \A i \in DOMAIN sent : /\ sent[i] \in Nat /\ sent'[i] >= sent[i] /\ sent[i] <= Whole(i)
                                /\ Whole(i) \in Nat
                                /\ sent[i] = Whole(i) => sent'[i] = sent[i]
      /\ DOMAIN sent' = DOMAIN sent /\ DOMAIN sent = DOMAIN message.blocks
      /\ DOMAIN sent = 1..Len(message.blocks) /\ Len(message.blocks) \in Nat
  <2>1. /\ \A i \in DOMAIN sent : sent'[i] = IF i = c.at THEN sent[i] + 1 ELSE sent[i]
        /\ DOMAIN sent' = DOMAIN sent /\ DOMAIN sent = DOMAIN message.blocks
    BY SentMore
  <2>2. /\ \A i \in DOMAIN sent : sent[i] \in Nat /\ sent[i] <= Whole(i)
        /\ message \in Messages
    BY DEF ProviderInv
  <2>3. /\ DOMAIN sent = 1..Len(message.blocks) /\ Len(message.blocks) \in Nat
        /\ \A i \in DOMAIN sent : Len(Pieces(i)) \in Nat
    BY <2>1, <2>2, BlockTypes DEF Pieces
  <2>4. \A i \in DOMAIN sent : Whole(i) \in Nat
    BY <2>3 DEF Whole
  <2>5. c.at \in DOMAIN sent => sent[c.at] < Whole(c.at)
    BY <2>3 DEF Sends
  <2> QED BY <2>1, <2>2, <2>3, <2>4, <2>5
<1>6. AllProper'
  <2>1. \A k \in 1..Len(body') : Proper(body'[k])
    BY <1>1 DEF CalmBody, AllProper
  <2> QED BY <1>2, <2>1 DEF AllProper, Proper, OfBlock, Framed, Pieces
<1>7. \A k \in 1..n : body[k].type # "stop"
  BY <1>2 DEF CalmBody, StopLast, n
<1>8. StopLast'
  <2> SUFFICES ASSUME NEW k \in 1..Len(body'), body'[k].type = "stop"
               PROVE  k = Len(body') /\ phase' = "over"
    BY DEF StopLast
  <2>1. New(k)
    BY <1>1, <1>7
  <2> QED BY <2>1 DEF Sends
<1>9. OneClose'
  <2>1. ASSUME NEW k \in 1..Len(body'), body'[k].type = "close", Old(k)
        PROVE  phase = "stop" /\ phase' \in {"stop", "over"}
    BY <1>2, <2>1 DEF CalmBody, OneClose, n
  <2>2. ASSUME NEW k \in 1..Len(body'), body'[k].type = "close", New(k)
        PROVE  phase = "blocks" /\ phase' = "stop"
    BY <2>2 DEF Sends
  <2>3. ASSUME NEW k \in 1..Len(body'), NEW l \in 1..Len(body'),
               body'[k].type = "close", body'[l].type = "close"
        PROVE  k = l
    <3>1. CASE Old(k) /\ Old(l)
      BY <2>3, <3>1 DEF CalmBody, OneClose, n
    <3>2. CASE New(k) /\ New(l)
      BY <3>2
    <3> QED BY <1>1, <2>1, <2>2, <2>3, <3>1, <3>2
  <2>4. \A k \in 1..Len(body') : body'[k].type = "close" => phase' \in {"stop", "over"}
    BY <1>1, <2>1, <2>2
  <2> QED BY <2>3, <2>4 DEF OneClose
<1>10. \A k \in 1..n : body[k].at # 0 => body[k].at \in DOMAIN sent
  BY <1>5 DEF CalmBody, AllProper, Proper, OfBlock, n
<1>11. c.at # 0 =>
         /\ c.at \in DOMAIN sent /\ sent[c.at] < Whole(c.at) /\ sent'[c.at] = sent[c.at] + 1
         /\ c.type = "block_start" => sent[c.at] = 0
         /\ c.type = "block_stop" => sent[c.at] = Whole(c.at) - 1
         /\ ~Framed => \A j \in 1..(c.at - 1) : sent[j] = Whole(j)
  BY SentMore DEF Sends
<1>12. ASSUME NEW k \in 1..Len(body'), body'[k].at # 0
       PROVE  /\ sent'[body'[k].at] > 0
              /\ body'[k].type = "block_stop" => sent'[body'[k].at] = Whole(body'[k].at)
              /\ ~Framed => \A j \in DOMAIN sent : j < body'[k].at => sent'[j] = Whole(j)
  <2>1. PICK i : i = body'[k].at
    OBVIOUS
  <2>2. CASE Old(k)
    <3>1. /\ i \in DOMAIN sent /\ sent[i] > 0
          /\ body'[k].type = "block_stop" => sent[i] = Whole(i)
          /\ ~Framed => \A j \in DOMAIN sent : j < i => sent[j] = Whole(j)
      BY <1>10, <1>12, <2>1, <2>2 DEF CalmBody, WasSent, n
    <3>a. /\ sent[i] \in Nat /\ sent'[i] >= sent[i] /\ Whole(i) \in Nat
          /\ (sent[i] = Whole(i) => sent'[i] = sent[i])
      BY <1>5, <3>1
    <3>b. sent'[i] \in Nat
      BY <1>5, <3>1, SentMore DEF ProviderInv
    <3>2. sent'[i] > 0 /\ (body'[k].type = "block_stop" => sent'[i] = Whole(i))
      BY <3>1, <3>a, <3>b
    <3>3. ~Framed => \A j \in DOMAIN sent : j < i => sent'[j] = Whole(j)
      BY <1>5, <3>1
    <3> QED BY <2>1, <3>2, <3>3
  <2>3. CASE New(k)
    <3>1. /\ i \in DOMAIN sent /\ sent'[i] = sent[i] + 1
          /\ body'[k].type = "block_stop" => sent[i] = Whole(i) - 1
          /\ ~Framed => \A j \in 1..(i - 1) : sent[j] = Whole(j)
      BY <1>11, <1>12, <2>1, <2>3
    <3>2. \A j \in DOMAIN sent : j < i => j \in 1..(i - 1)
      BY <1>5, <3>1
    <3>3. i \in Nat /\ Whole(i) \in Nat /\ sent[i] \in Nat
      BY <1>5, <3>1
    <3>4. sent'[i] > 0 /\ (body'[k].type = "block_stop" => sent'[i] = Whole(i))
      BY <3>1, <3>3
    <3>5. ~Framed => \A j \in DOMAIN sent : j < i => sent'[j] = Whole(j)
      BY <1>5, <3>1, <3>2
    <3> QED BY <2>1, <3>4, <3>5
  <2> QED BY <1>1, <2>2, <2>3
<1>13. WasSent'
  BY <1>2, <1>3, <1>5, <1>12 DEF WasSent
<1>14. ASSUME NEW k \in 1..Len(body'), NEW l \in 1..Len(body'), k < l,
              body'[k].at # 0, body'[l].at # 0
       PROVE  InPlace(body', k, l)
  <2>1. Old(k)
    BY <1>1, <1>14
  <2>2. CASE Old(l)
    BY <1>14, <2>1, <2>2 DEF CalmBody, AllInPlace, InPlace, n
  <2>3. CASE New(l)
    <3>1. PICK i, j : i = c.at /\ j = body[k].at
      OBVIOUS
    <3>2. /\ j \in DOMAIN sent /\ sent[j] > 0
          /\ body[k].type = "block_stop" => sent[j] = Whole(j)
          /\ ~Framed => \A m \in DOMAIN sent : m < j => sent[m] = Whole(m)
      BY <1>10, <1>14, <2>1, <3>1 DEF CalmBody, WasSent, n
    <3>3. /\ i \in DOMAIN sent /\ sent[i] < Whole(i) /\ i # 0
          /\ c.type = "block_start" => sent[i] = 0
      BY <1>11, <1>14, <2>3, <3>1
    <3>4. i = j => body[k].type # "block_stop" /\ c.type # "block_start"
      BY <1>5, <3>2, <3>3
    <3>5. ~Framed => j <= i
      BY <1>5, <3>2, <3>3
    <3> QED BY <2>1, <2>3, <3>1, <3>4, <3>5 DEF InPlace
  <2> QED BY <1>1, <2>2, <2>3
<1>15. AllInPlace'
  <2>1. \A k, l \in 1..Len(body') : k < l /\ body'[k].at # 0 /\ body'[l].at # 0 => InPlace(body', k, l)
    BY <1>14
  <2> QED BY <1>2, <2>1 DEF AllInPlace, InPlace
<1> QED BY <1>6, <1>8, <1>9, <1>13, <1>15 DEF CalmBody

\* What else is true of the provider stays so.
LEMMA ClosesKept ==
  ASSUME ProviderInv, NEW c, Sends(c), Carries(c),
         c.type = "close" => c = TheClose,
         c.at # 0 => \A i : [c EXCEPT !.at = i].type # "close"
  PROVE  (\A k \in 1..Len(body) : body[k].type = "close" => body[k] = TheClose)'
<1>1. /\ \A k \in 1..Len(body) : body[k].type = "close" => body[k] = TheClose
      /\ IsSeq(body) /\ IsSeq(faults)
  BY DEF ProviderInv
<1>2. ASSUME NEW k \in 1..Len(body'), body'[k].type = "close" PROVE body'[k] = TheClose
  <2>1. \/ \E l \in 1..Len(body) : body'[k] = body[l]
        \/ body'[k] = c
        \/ c.at # 0 /\ \E i : body'[k] = [c EXCEPT !.at = i]
    BY <1>1, CarryCases
  <2> QED BY <1>1, <1>2, <2>1
<1>3. message' = message /\ wire' = wire
  BY DEF Sends
<1> QED BY <1>2, <1>3 DEF TheClose, Closing

\* A body stays without loss with another chunk of the provider.
LEMMA LosslessKeeps ==
  ASSUME ProviderInv, LosslessBody, NEW c, Sends(c), body' = Append(body, c),
         c.at # 0 => c = ChunkOf(message, wire, c.at, sent[c.at])
  PROVE  LosslessBody'
<1>1. IsSeq(body)
  BY DEF ProviderInv
<1>2. PICK n \in Nat : n = Len(body)
  BY <1>1, OneMore
<1>b. PICK B : B = body'
  OBVIOUS
<1>3. /\ Len(B) = n + 1 /\ B[n + 1] = c
      /\ \A k \in 1..n : B[k] = body[k]
  BY <1>1, <1>2, <1>b, OneMore
<1>4. ASSUME NEW k \in 0..n, NEW i PROVE Got(B, k, i) = Got(body, k, i)
  <2>1. \A l \in 1..k : B[l] = body[l]
    BY <1>3
  <2> QED BY <2>1, GotSame
<1>5. message' = message /\ wire' = wire
  BY DEF Sends
<1>6. /\ \A i \in DOMAIN sent : sent'[i] = IF i = c.at THEN sent[i] + 1 ELSE sent[i]
      /\ DOMAIN sent' = DOMAIN sent /\ 0 \notin DOMAIN sent
      /\ \A i \in DOMAIN sent : Got(body, n, i) = sent[i]
      /\ c.at # 0 => c.at \in DOMAIN sent
  BY <1>2, SentMore DEF LosslessBody, Sends
<1>7. \A i \in DOMAIN sent : Got(B, n + 1, i) = sent'[i]
  <2> SUFFICES ASSUME NEW i \in DOMAIN sent PROVE Got(B, n + 1, i) = sent'[i]
    OBVIOUS
  <2>1. Got(B, n, i) = sent[i]
    BY <1>4, <1>6
  <2>2. Got(B, n + 1, i) = Got(B, n, i) + (IF B[n + 1].at = i THEN 1 ELSE 0)
        /\ Got(B, n, i) \in Nat
    BY GotLemma
  <2> QED BY <1>3, <1>6, <2>1, <2>2
<1>8. ASSUME NEW k \in 1..(n + 1), B[k].at # 0
      PROVE  B[k] = ChunkOf(message, wire, B[k].at, Got(B, k - 1, B[k].at))
  <2>1. k - 1 \in 0..n
    OBVIOUS
  <2>2. CASE k \in 1..n
    <3>1. body[k] = ChunkOf(message, wire, body[k].at, Got(body, k - 1, body[k].at))
      BY <1>2, <1>3, <1>8, <2>2 DEF LosslessBody
    <3> QED BY <1>3, <1>4, <2>1, <2>2, <3>1
  <2>3. CASE k = n + 1
    <3>1. B[k] = c /\ k - 1 = n /\ c.at # 0
      BY <1>3, <1>8, <2>3
    <3>2. Got(B, n, c.at) = sent[c.at]
      BY <1>4, <1>6, <3>1
    <3> QED BY <3>1, <3>2
  <2> QED BY <2>2, <2>3
<1>10. (\A k \in 1..Len(body) : body[k].at # 0 =>
         body[k] = ChunkOf(message, wire, body[k].at, Got(body, k - 1, body[k].at)))'
  BY <1>b, <1>3, <1>5, <1>8
<1>11. (\A i \in DOMAIN sent : Got(body, Len(body), i) = sent[i])'
  BY <1>b, <1>3, <1>6, <1>7
<1> QED BY <1>10, <1>11 DEF LosslessBody

\* A chunk is sent and carried.
LEMMA ProviderSends ==
  ASSUME ProviderInv, NEW c, Sends(c), Carries(c), Proper(c),
         c.type = "close" => c = TheClose,
         c.at # 0 => /\ c = ChunkOf(message, wire, c.at, sent[c.at])
                     /\ \A i : [c EXCEPT !.at = i].type # "close",
         \/ phase' = "blocks"
         \/ phase = "blocks" /\ AllSent /\ c.at = 0 /\ c.type = "close"
         \/ phase = "stop"
  PROVE  ProviderInv'
<1>1. /\ IsSeq(body) /\ IsSeq(faults) /\ Len(body) \in Nat
      /\ message \in Messages /\ wire \in Wires /\ limit \in ChunkLimits
      /\ (Calm => CalmBody) /\ (Lossless => LosslessBody)
  BY SeqPlaces DEF ProviderInv
<1>2. message' = message /\ wire' = wire /\ limit' = limit /\ phase' \in {"begin", "blocks", "stop", "over"}
  BY DEF Sends
<1>3. IsSeq(body') /\ IsSeq(faults')
  BY <1>1, CarryCases
<1>4. (sent \in [DOMAIN message.blocks -> Nat] /\ \A i \in DOMAIN sent : sent[i] <= Whole(i))'
  BY SentMore
<1>5. (\A k \in 1..Len(body) : body[k].type = "close" => body[k] = TheClose)'
  BY ClosesKept
<1>6. (Calm => CalmBody)'
  <2> SUFFICES ASSUME Calm' PROVE CalmBody'
    OBVIOUS
  <2>1. Calm
    BY <1>1, CarryCases DEF Calm
  <2>2. body' = body \/ body' = Append(body, c)
    BY <1>1, CarryCases
  <2> QED BY <1>1, <2>1, <2>2, CalmKeeps
<1>7. (Lossless => LosslessBody)'
  <2> SUFFICES ASSUME Lossless' PROVE LosslessBody'
    OBVIOUS
  <2>1. Lossless
    BY <1>1, CarryCases DEF Lossless
  <2>2. body' = Append(body, c)
    BY <1>1, CarryCases
  <2> QED BY <1>1, <2>1, <2>2, LosslessKeeps
<1>8. (faults = <<>> /\ phase \in {"stop", "over"} =>
         AllSent /\ \E k \in 1..Len(body) : body[k].type = "close")'
  <2> SUFFICES ASSUME faults' = <<>>, phase' \in {"stop", "over"}
               PROVE  AllSent' /\ \E k \in 1..Len(body') : body'[k].type = "close"
    OBVIOUS
  <2>1. faults = <<>> /\ body' = Append(body, c)
    BY <1>1, CarryCases
  <2>2. PICK n \in Nat : n = Len(body)
    BY <1>1
  <2>3. /\ Len(body') = n + 1 /\ body'[n + 1] = c
        /\ \A k \in 1..n : body'[k] = body[k]
    BY <1>1, <2>1, <2>2, OneMore
  <2>4. c.at = 0 => (AllSent => AllSent')
    BY <1>2 DEF Sends, AllSent, Whole, Framed, Pieces
  <2>5. CASE phase = "blocks" /\ AllSent /\ c.at = 0 /\ c.type = "close"
    <3>1. n + 1 \in 1..Len(body')
      BY <2>2, <2>3
    <3> QED BY <2>3, <2>4, <2>5, <3>1
  <2>6. CASE phase = "stop"
    <3>1. AllSent /\ \E k \in 1..n : body[k].type = "close"
      BY <2>1, <2>2, <2>6 DEF ProviderInv
    <3>2. c.at = 0
      BY <2>6 DEF Sends
    <3> QED BY <2>3, <2>4, <3>1, <3>2
  <2> QED BY <2>5, <2>6
<1> QED BY <1>1, <1>2, <1>3, <1>4, <1>5, <1>6, <1>7, <1>8 DEF ProviderInv

\* Nothing is sent.
LEMMA ProviderPauses ==
  ASSUME ProviderInv, phase # "over", UNCHANGED <<message, wire, limit, sent, body>>,
         phase' \in {"blocks", "over"}, phase = "stop" => phase' = "over",
         \/ faults' = faults /\ (phase' = "over" => phase = "stop")
         \/ faults' = Append(faults, "cut")
  PROVE  ProviderInv'
<1>1. /\ IsSeq(faults) /\ (Calm => CalmBody) /\ (Lossless => LosslessBody)
      /\ message \in Messages /\ wire \in Wires /\ limit \in ChunkLimits /\ IsSeq(body)
  BY DEF ProviderInv
<1>2. faults' # faults => IsSeq(faults') /\ faults' # <<>> /\ Faulty' = Faulty \cup {"cut"}
  BY <1>1, OneMore DEF Faulty
<1>3. Faulty \subseteq Faulty'
  BY <1>2 DEF Faulty
<1>4. (Calm => CalmBody)'
  <2>1. PICK c : c = Chunk("open")
    OBVIOUS
  <2>2. c.at = 0 /\ c.type = "open" /\ c.kind = ""
    BY <2>1 DEF Chunk, Blank
  <2>3. Sends(c) /\ Proper(c)
    BY <2>2 DEF Sends, Proper
  <2> QED BY <1>1, <1>3, <2>3, CalmKeeps DEF Calm
<1>5. (Lossless => LosslessBody)'
  BY <1>1, <1>3 DEF Lossless, LosslessBody
<1>6. (\A k \in 1..Len(body) : body[k].type = "close" => body[k] = TheClose)'
  BY DEF ProviderInv, TheClose, Closing
<1>7. (sent \in [DOMAIN message.blocks -> Nat] /\ \A i \in DOMAIN sent : sent[i] <= Whole(i))'
  BY DEF ProviderInv, Whole, Framed, Pieces
<1>8. (faults = <<>> /\ phase \in {"stop", "over"} =>
         AllSent /\ \E k \in 1..Len(body) : body[k].type = "close")'
  <2> SUFFICES ASSUME faults' = <<>>, phase' = "over"
               PROVE  AllSent' /\ \E k \in 1..Len(body) : body[k].type = "close"
    BY DEF AllSent
  <2>1. faults = <<>> /\ phase = "stop"
    BY <1>2
  <2>2. AllSent /\ \E k \in 1..Len(body) : body[k].type = "close"
    BY <2>1 DEF ProviderInv
  <2>3. AllSent'
    BY <2>2 DEF AllSent, Whole, Framed, Pieces
  <2> QED BY <2>2, <2>3
<1> QED BY <1>1, <1>2, <1>4, <1>5, <1>6, <1>7, <1>8 DEF ProviderInv

\* The provider breaks off.
LEMMA ProviderFails ==
  ASSUME ProviderInv, BreakOff PROVE ProviderInv'
<1>1. /\ IsSeq(faults) /\ IsSeq(body)
      /\ message \in Messages /\ wire \in Wires /\ limit \in ChunkLimits
  BY DEF ProviderInv
<1>2. PICK c : c = Chunk("error")
  OBVIOUS
<1>3. c.type = "error"
  BY <1>2 DEF Chunk, Blank
<1>4. UNCHANGED <<message, wire, limit, sent>> /\ body' = Append(body, c)
      /\ faults' = Append(faults, "failed") /\ phase' = "over"
  BY <1>2 DEF BreakOff
<1>5. IsSeq(faults') /\ faults' # <<>> /\ "failed" \in Faulty'
  BY <1>1, <1>4, OneMore DEF Faulty
<1>6. ~Calm' /\ ~Lossless'
  BY <1>5 DEF Calm, Lossless
<1>7. /\ IsSeq(body') /\ Len(body') = Len(body) + 1 /\ body'[Len(body) + 1] = c /\ Len(body) \in Nat
      /\ \A k \in 1..Len(body) : body'[k] = body[k]
  BY <1>1, <1>4, OneMore
<1>8. (\A k \in 1..Len(body) : body[k].type = "close" => body[k] = TheClose)'
  <2>1. \A k \in 1..Len(body) : body[k].type = "close" => body[k] = TheClose
    BY DEF ProviderInv
  <2>2. ASSUME NEW k \in 1..Len(body'), body'[k].type = "close" PROVE body'[k] = TheClose
    <3>1. k \in 1..Len(body) \/ k = Len(body) + 1
      BY <1>7
    <3> QED BY <1>3, <1>7, <2>1, <2>2, <3>1
  <2> QED BY <1>4, <2>2 DEF TheClose, Closing
<1>9. (sent \in [DOMAIN message.blocks -> Nat] /\ \A i \in DOMAIN sent : sent[i] <= Whole(i))'
  BY <1>4 DEF ProviderInv, Whole, Framed, Pieces
<1> QED BY <1>1, <1>4, <1>5, <1>6, <1>7, <1>8, <1>9 DEF ProviderInv

\* What the provider does.
LEMMA ProviderSteps ==
  ASSUME ProviderInv, Provide PROVE ProviderInv'
<1>1. /\ message \in Messages /\ DOMAIN sent = DOMAIN message.blocks
      /\ \A i \in DOMAIN sent : sent[i] \in Nat
      /\ DOMAIN sent = 1..Len(message.blocks)
  BY BlockTypes DEF ProviderInv
<1>2. CASE Begin
  <2>1. CASE wire = "ollama"
    BY <1>2, <2>1, ProviderPauses DEF Begin
  <2>2. CASE wire # "ollama"
    <3>1. PICK c : c = Chunk("open")
      OBVIOUS
    <3>2. c.at = 0 /\ c.type = "open" /\ c.kind = ""
      BY <3>1 DEF Chunk, Blank
    <3>3. Sends(c) /\ Proper(c) /\ Carries(c) /\ phase' = "blocks"
      BY <1>2, <2>2, <3>1, <3>2 DEF Begin, Sends, Proper
    <3> QED BY <3>2, <3>3, ProviderSends
  <2> QED BY <2>1, <2>2
<1>3. ASSUME NEW i \in DOMAIN sent, SendBlock(i) PROVE ProviderInv'
  <2>1. PICK c : c = NextOf(i)
    OBVIOUS
  <2>2. sent[i] < Whole(i) /\ i \in DOMAIN message.blocks /\ sent[i] \in Nat
    BY <1>1, <1>3 DEF SendBlock
  <2>3. /\ c = ChunkOf(message, wire, i, sent[i])
        /\ c.at = i /\ OfBlock(c) /\ i # 0
        /\ c.type \in {"block_start", "block_stop", "piece"}
        /\ c.type = "block_start" => sent[i] = 0
        /\ c.type = "block_stop" => sent[i] = Whole(i) - 1
        /\ \A j : [c EXCEPT !.at = j].type # "close"
    BY <1>1, <2>1, <2>2, NextShape
  <2>4. Sends(c) /\ Proper(c) /\ Carries(c) /\ phase' = "blocks"
    <3>1. /\ phase = "blocks" /\ UNCHANGED <<message, wire, limit, phase>>
          /\ Framed \/ \A j \in 1..(i - 1) : sent[j] = Whole(j)
          /\ Carries(c) /\ sent' = [sent EXCEPT ![i] = @ + 1]
      BY <1>3, <2>1 DEF SendBlock
    <3>2. Sends(c)
      BY <2>2, <2>3, <3>1 DEF Sends
    <3> QED BY <2>3, <3>1, <3>2 DEF Proper
  <2> QED BY <2>3, <2>4, ProviderSends
<1>4. CASE Close
  <2>1. PICK c : c = TheClose
    OBVIOUS
  <2>2. c.at = 0 /\ c.type = "close" /\ c.kind = ""
    BY <2>1 DEF TheClose, Closing, Blank
  <2>3. /\ phase = "blocks" /\ AllSent /\ phase' = "stop" /\ Carries(c)
        /\ UNCHANGED <<message, wire, limit, sent>>
    BY <1>4, <2>1 DEF Close, TheClose
  <2>4. Sends(c) /\ Proper(c)
    BY <2>2, <2>3 DEF Sends, Proper
  <2> QED BY <2>1, <2>2, <2>3, <2>4, ProviderSends
<1>5. CASE Stop
  <2>1. CASE wire \in {"anthropic", "openai"}
    <3>1. PICK c : c = Chunk("stop")
      OBVIOUS
    <3>2. c.at = 0 /\ c.type = "stop" /\ c.kind = ""
      BY <3>1 DEF Chunk, Blank
    <3>3. Sends(c) /\ Proper(c) /\ Carries(c) /\ phase = "stop"
      BY <1>5, <2>1, <3>1, <3>2 DEF Stop, Sends, Proper
    <3> QED BY <3>2, <3>3, ProviderSends
  <2>2. CASE wire \notin {"anthropic", "openai"}
    BY <1>5, <2>2, ProviderPauses DEF Stop
  <2> QED BY <2>1, <2>2
<1>6. CASE Cut
  BY <1>6, ProviderPauses DEF Cut
<1> QED BY <1>2, <1>3, <1>4, <1>5, <1>6, ProviderFails DEF Provide

-----------------------------------------------------------------------------
(* What the Anthropic decoder makes of a calm body. *)

AccFields == {"blocks", "events", "text", "stop", "usage", "terminal", "taken"}
BlockFields == {"kind", "id", "pieces", "partial"}
CalledIn(events, name) == {k \in DOMAIN events : events[k].event = name}
Put(blocks, i, x) == [j \in DOMAIN blocks \cup {i} |-> IF j = i THEN x ELSE blocks[j]]
Reply(blocks, stop, usage) ==
  LET order == Ascending(DOMAIN blocks)
  IN  Response([j \in 1..Len(order) |-> BlockPart(blocks[order[j]])], stop, usage, TRUE)

\* x is made of chunks of block i of message m, which the first n of b hold.
BlockFits(m, b, n, i, x) ==
  /\ i \in DOMAIN m.blocks
  /\ \E k \in 1..n : b[k].at = i
  /\ DOMAIN x = BlockFields
  /\ x.kind = IF m.blocks[i].kind = "tool" THEN "tool" ELSE "text"
  /\ x.kind = "text" =>
       x.id = 0 /\ IsSeq(x.pieces) /\ ToSet(x.pieces) \subseteq ToSet(m.blocks[i].pieces)

\* What was announced is what the text blocks hold.
Told(m, blocks, events) ==
  {events[k].pieces[1] : k \in CalledIn(events, "delta")}
  = UNION {ToSet(blocks[i].pieces) : i \in {j \in DOMAIN blocks : m.blocks[j].kind = "text"}}

\* An announced tool call is a block that is finished.
Finished(b, n, i) == \E l \in 1..n : b[l].at = i /\ b[l].type = "block_stop"
Kept(b, n, blocks, events) ==
  \A k \in CalledIn(events, "tool-call") : \E i \in DOMAIN blocks :
    /\ blocks[i].kind = "tool" /\ blocks[i].id = events[k].id /\ blocks[i].pieces = events[k].pieces
    /\ Finished(b, n, i)

Story(m, b, n, blocks, events) ==
  /\ IsSeq(events)
  /\ \A i \in DOMAIN blocks : BlockFits(m, b, n, i, blocks[i])
  /\ Told(m, blocks, events)
  /\ Kept(b, n, blocks, events)

\* The events of a name after one more event, which has the name or not.
Gains(events, name, x, more) ==
  /\ CalledIn(more, name) = CalledIn(events, name) \cup {Len(events) + 1}
  /\ \A k \in CalledIn(events, name) : more[k] = events[k] /\ k # Len(events) + 1
  /\ more[Len(events) + 1] = x
Spares(events, name, more) ==
  /\ CalledIn(more, name) = CalledIn(events, name)
  /\ \A k \in CalledIn(events, name) : more[k] = events[k]

\* One more event, of this name or of another.
LEMMA CalledMore ==
  ASSUME NEW events, IsSeq(events), NEW x, NEW name
  PROVE  /\ x.event = name => Gains(events, name, x, Append(events, x))
         /\ x.event # name => Spares(events, name, Append(events, x))
<1>1. PICK t : t = Append(events, x)
  OBVIOUS
<1>2. /\ IsSeq(t) /\ Len(t) = Len(events) + 1 /\ Len(events) \in Nat
      /\ \A k \in 1..Len(events) : t[k] = events[k]
      /\ t[Len(events) + 1] = x
  BY <1>1, OneMore
<1>3. DOMAIN t = 1..Len(t) /\ DOMAIN events = 1..Len(events)
  BY <1>2, SeqPlaces
<1>4. \A k : k \in DOMAIN t <=> k \in DOMAIN events \/ k = Len(events) + 1
  BY <1>2, <1>3
<1>5. \A k \in CalledIn(events, name) : t[k] = events[k] /\ k # Len(events) + 1
  BY <1>2, <1>3 DEF CalledIn
<1>6. \A k : k \in CalledIn(t, name) <=> k \in CalledIn(events, name) \/ (k = Len(events) + 1 /\ x.event = name)
  BY <1>2, <1>3, <1>4 DEF CalledIn
<1>7. x.event = name => Gains(events, name, x, t)
  BY <1>2, <1>5, <1>6 DEF Gains
<1>8. x.event # name => Spares(events, name, t)
  BY <1>5, <1>6 DEF Spares
<1> QED BY <1>1, <1>7, <1>8

\* Another chunk that changes no block.
LEMMA StoryReads ==
  ASSUME NEW m, NEW b, NEW n \in Nat, NEW blocks, NEW events, Story(m, b, n, blocks, events)
  PROVE  /\ Story(m, b, n + 1, blocks, events)
         /\ \A x : x.event \notin {"delta", "tool-call"} => Story(m, b, n + 1, blocks, Append(events, x))
<1>1. \A k \in 1..n : k \in 1..(n + 1)
  OBVIOUS
<1>2. \A i \in DOMAIN blocks : BlockFits(m, b, n + 1, i, blocks[i])
  BY <1>1 DEF Story, BlockFits
<1>3. \A i : Finished(b, n, i) => Finished(b, n + 1, i)
  BY <1>1 DEF Finished
<1>4. Kept(b, n + 1, blocks, events)
  BY <1>3 DEF Story, Kept
<1>5. IsSeq(events) /\ Told(m, blocks, events)
  BY DEF Story
<1>6. ASSUME NEW x, x.event \notin {"delta", "tool-call"}
      PROVE  Story(m, b, n + 1, blocks, Append(events, x))
  <2>1. PICK t : t = Append(events, x)
    OBVIOUS
  <2>2. /\ CalledIn(t, "delta") = CalledIn(events, "delta")
        /\ CalledIn(t, "tool-call") = CalledIn(events, "tool-call")
        /\ \A k \in CalledIn(events, "delta") : t[k] = events[k]
        /\ \A k \in CalledIn(events, "tool-call") : t[k] = events[k]
        /\ IsSeq(t)
    <3>1. PICK d : d = "delta"
      OBVIOUS
    <3>2. PICK c : c = "tool-call"
      OBVIOUS
    <3>3. x.event # d /\ x.event # c
      BY <1>6, <3>1, <3>2
    <3>4. Spares(events, d, Append(events, x)) /\ Spares(events, c, Append(events, x))
      BY <1>5, <3>3, CalledMore
    <3>5. IsSeq(t)
      BY <1>5, <2>1, OneMore
    <3> QED BY <2>1, <3>1, <3>2, <3>4, <3>5 DEF Spares
  <2>3. Told(m, blocks, t)
    BY <1>5, <2>2 DEF Told
  <2>4. Kept(b, n + 1, blocks, t)
    BY <1>4, <2>2 DEF Kept
  <2> QED BY <1>2, <2>1, <2>2, <2>3, <2>4 DEF Story
<1> QED BY <1>2, <1>4, <1>5, <1>6 DEF Story

\* A block that was not finished becomes x.
LEMMA KeptPut ==
  ASSUME NEW m, NEW b, NEW n \in Nat, NEW blocks, NEW events, Story(m, b, n, blocks, events),
         NEW i, NEW x, ~Finished(b, n, i), BlockFits(m, b, n + 1, i, x)
  PROVE  /\ DOMAIN Put(blocks, i, x) = DOMAIN blocks \cup {i} /\ Put(blocks, i, x)[i] = x
         /\ \A j \in DOMAIN blocks : j # i => Put(blocks, i, x)[j] = blocks[j]
         /\ \A j \in DOMAIN Put(blocks, i, x) : BlockFits(m, b, n + 1, j, Put(blocks, i, x)[j])
         /\ Kept(b, n + 1, Put(blocks, i, x), events)
<1>1. PICK more : more = Put(blocks, i, x)
  OBVIOUS
<1>2. /\ DOMAIN more = DOMAIN blocks \cup {i} /\ more[i] = x
      /\ \A j \in DOMAIN blocks : j # i => more[j] = blocks[j]
  BY <1>1 DEF Put
<1>3. \A k \in 1..n : k \in 1..(n + 1)
  OBVIOUS
<1>4. \A j \in DOMAIN blocks : BlockFits(m, b, n + 1, j, blocks[j])
  BY <1>3 DEF Story, BlockFits
<1>5. \A j \in DOMAIN more : BlockFits(m, b, n + 1, j, more[j])
  BY <1>2, <1>4
<1>6. \A j : Finished(b, n, j) => Finished(b, n + 1, j) /\ j # i
  BY <1>3 DEF Finished
<1>7. Kept(b, n, blocks, events)
  BY DEF Story
<1>8. ASSUME NEW k \in CalledIn(events, "tool-call")
      PROVE  \E j \in DOMAIN more :
               /\ more[j].kind = "tool" /\ more[j].id = events[k].id /\ more[j].pieces = events[k].pieces
               /\ Finished(b, n + 1, j)
  <2>1. PICK j \in DOMAIN blocks :
          /\ blocks[j].kind = "tool" /\ blocks[j].id = events[k].id /\ blocks[j].pieces = events[k].pieces
          /\ Finished(b, n, j)
    BY <1>7 DEF Kept
  <2> QED BY <1>2, <1>6, <2>1
<1> QED BY <1>1, <1>2, <1>5, <1>8 DEF Kept

\* A block that is no text changes, and nothing is announced.
LEMMA StoryPuts ==
  ASSUME NEW m, NEW b, NEW n \in Nat, NEW blocks, NEW events, Story(m, b, n, blocks, events),
         NEW i, NEW x, ~Finished(b, n, i), BlockFits(m, b, n + 1, i, x),
         \/ m.blocks[i].kind # "text"
         \/ i \notin DOMAIN blocks /\ x.pieces = <<>>
  PROVE  Story(m, b, n + 1, Put(blocks, i, x), events)
<1>1. PICK more : more = Put(blocks, i, x)
  OBVIOUS
<1>2. /\ DOMAIN more = DOMAIN blocks \cup {i} /\ more[i] = x
      /\ \A j \in DOMAIN blocks : j # i => more[j] = blocks[j]
      /\ \A j \in DOMAIN more : BlockFits(m, b, n + 1, j, more[j])
      /\ Kept(b, n + 1, more, events)
  <2>1. /\ DOMAIN Put(blocks, i, x) = DOMAIN blocks \cup {i} /\ Put(blocks, i, x)[i] = x
        /\ \A j \in DOMAIN blocks : j # i => Put(blocks, i, x)[j] = blocks[j]
        /\ \A j \in DOMAIN Put(blocks, i, x) : BlockFits(m, b, n + 1, j, Put(blocks, i, x)[j])
        /\ Kept(b, n + 1, Put(blocks, i, x), events)
    BY KeptPut
  <2> QED BY <1>1, <2>1, Zenon
<1>3. IsSeq(events) /\ Told(m, blocks, events)
  BY DEF Story
<1> DEFINE Texts(bs) == {j \in DOMAIN bs : m.blocks[j].kind = "text"}
<1>4. UNION {ToSet(more[j].pieces) : j \in Texts(more)} = UNION {ToSet(blocks[j].pieces) : j \in Texts(blocks)}
  <2>1. CASE m.blocks[i].kind # "text"
    <3>1. Texts(more) = Texts(blocks) /\ \A j \in Texts(blocks) : more[j] = blocks[j]
      BY <1>2, <2>1
    <3> QED BY <3>1
  <2>2. CASE i \notin DOMAIN blocks /\ x.pieces = <<>>
    <3>1. ToSet(more[i].pieces) = {}
      BY <1>2, <2>2 DEF ToSet
    <3>2. /\ Texts(more) \subseteq Texts(blocks) \cup {i} /\ Texts(blocks) \subseteq Texts(more)
          /\ \A j \in Texts(blocks) : more[j] = blocks[j]
      BY <1>2, <2>2
    <3> HIDE DEF Texts
    <3> QED BY <3>1, <3>2
  <2> QED BY <2>1, <2>2
<1>5. Told(m, more, events)
  BY <1>3, <1>4 DEF Told
<1> QED BY <1>1, <1>2, <1>3, <1>5 DEF Story

\* The piece p of a text is announced.
LEMMA StoryTells ==
  ASSUME NEW m, NEW b, NEW n \in Nat, NEW blocks, NEW events, Story(m, b, n, blocks, events),
         NEW i, NEW x, ~Finished(b, n, i), BlockFits(m, b, n + 1, i, x), m.blocks[i].kind = "text",
         NEW p, NEW e, e.event = "delta", e.pieces = <<p>>,
         ToSet(x.pieces) = (IF i \in DOMAIN blocks THEN ToSet(blocks[i].pieces) ELSE {}) \cup {p}
  PROVE  Story(m, b, n + 1, Put(blocks, i, x), Append(events, e))
<1>1. PICK more : more = Put(blocks, i, x)
  OBVIOUS
<1>2. /\ DOMAIN more = DOMAIN blocks \cup {i} /\ more[i] = x
      /\ \A j \in DOMAIN blocks : j # i => more[j] = blocks[j]
      /\ \A j \in DOMAIN more : BlockFits(m, b, n + 1, j, more[j])
      /\ Kept(b, n + 1, more, events)
  <2>1. /\ DOMAIN Put(blocks, i, x) = DOMAIN blocks \cup {i} /\ Put(blocks, i, x)[i] = x
        /\ \A j \in DOMAIN blocks : j # i => Put(blocks, i, x)[j] = blocks[j]
        /\ \A j \in DOMAIN Put(blocks, i, x) : BlockFits(m, b, n + 1, j, Put(blocks, i, x)[j])
        /\ Kept(b, n + 1, Put(blocks, i, x), events)
    BY KeptPut
  <2> QED BY <1>1, <2>1, Zenon
<1>3. IsSeq(events) /\ Told(m, blocks, events)
  BY DEF Story
<1>4. PICK t : t = Append(events, e)
  OBVIOUS
<1>5. PICK d, c : d = "delta" /\ c = "tool-call"
  OBVIOUS
<1>6. /\ CalledIn(t, d) = CalledIn(events, d) \cup {Len(events) + 1}
      /\ \A k \in CalledIn(events, d) : t[k] = events[k]
      /\ t[Len(events) + 1] = e /\ IsSeq(t)
      /\ Len(events) + 1 \notin CalledIn(events, d)
  <2>1. e.event = d
    BY <1>5
  <2>2. Gains(events, d, e, Append(events, e))
    BY <1>3, <2>1, CalledMore
  <2>3. IsSeq(t)
    BY <1>3, <1>4, OneMore
  <2> QED BY <1>4, <2>2, <2>3 DEF Gains
<1>7. /\ CalledIn(t, c) = CalledIn(events, c)
      /\ \A k \in CalledIn(events, c) : t[k] = events[k]
  <2>1. e.event # c
    BY <1>5
  <2>2. Spares(events, c, Append(events, e))
    BY <1>3, <2>1, CalledMore
  <2> QED BY <1>4, <2>2 DEF Spares
<1> DEFINE Texts(bs) == {j \in DOMAIN bs : m.blocks[j].kind = "text"}
           Held(bs) == UNION {ToSet(bs[j].pieces) : j \in Texts(bs)}
<1>8. Held(more) = Held(blocks) \cup {p}
  <2>1. Texts(more) = Texts(blocks) \cup {i} /\ (i \in Texts(blocks) <=> i \in DOMAIN blocks)
    BY <1>2
  <2>2. \A j \in Texts(blocks) : j # i => more[j] = blocks[j]
    BY <1>2
  <2> HIDE DEF Texts
  <2>3. ASSUME NEW q PROVE q \in Held(more) <=> q \in Held(blocks) \cup {p}
    BY <1>2, <2>1, <2>2
  <2> QED BY <2>3
<1> DEFINE Heard(s) == {s[k].pieces[1] : k \in CalledIn(s, d)}
<1>9. Heard(t) = Heard(events) \cup {p}
  <2>1. t[Len(events) + 1].pieces[1] = p
    BY <1>6
  <2> QED BY <1>6, <2>1
<1>10. Heard(events) = Held(blocks)
  BY <1>3, <1>5 DEF Told
<1>11. Told(m, more, t)
  BY <1>5, <1>8, <1>9, <1>10 DEF Told
<1>12. Kept(b, n + 1, more, t)
  BY <1>2, <1>5, <1>7 DEF Kept
<1> QED BY <1>1, <1>2, <1>4, <1>6, <1>11, <1>12 DEF Story

\* A tool call is finished and announced.
LEMMA StoryCalls ==
  ASSUME NEW m, NEW b, NEW n \in Nat, NEW blocks, NEW events, Story(m, b, n, blocks, events),
         NEW i, NEW x, ~Finished(b, n, i), BlockFits(m, b, n + 1, i, x), x.kind = "tool",
         b[n + 1].at = i, b[n + 1].type = "block_stop",
         NEW e, e.event = "tool-call", e.id = x.id, e.pieces = x.pieces
  PROVE  Story(m, b, n + 1, Put(blocks, i, x), Append(events, e))
<1>1. PICK more : more = Put(blocks, i, x)
  OBVIOUS
<1>2. m.blocks[i].kind = "tool"
  BY DEF BlockFits
<1>3. Story(m, b, n + 1, more, events)
  BY <1>1, <1>2, StoryPuts
<1>4. i \in DOMAIN more /\ more[i] = x
  BY <1>1 DEF Put
<1>5. PICK t : t = Append(events, e)
  OBVIOUS
<1>6. PICK d, c : d = "delta" /\ c = "tool-call"
  OBVIOUS
<1>7. IsSeq(events) /\ Told(m, more, events) /\ Kept(b, n + 1, more, events)
  BY <1>3 DEF Story
<1>8. /\ CalledIn(t, d) = CalledIn(events, d)
      /\ \A k \in CalledIn(events, d) : t[k] = events[k]
  <2>1. e.event # d
    BY <1>6
  <2>2. Spares(events, d, Append(events, e))
    BY <1>7, <2>1, CalledMore
  <2> QED BY <1>5, <2>2 DEF Spares
<1>9. /\ CalledIn(t, c) = CalledIn(events, c) \cup {Len(events) + 1}
      /\ \A k \in CalledIn(events, c) : t[k] = events[k]
      /\ t[Len(events) + 1] = e /\ IsSeq(t)
  <2>1. e.event = c
    BY <1>6
  <2>2. Gains(events, c, e, Append(events, e))
    BY <1>7, <2>1, CalledMore
  <2>3. IsSeq(t)
    BY <1>5, <1>7, OneMore
  <2> QED BY <1>5, <2>2, <2>3 DEF Gains
<1>10. Told(m, more, t)
  BY <1>6, <1>7, <1>8 DEF Told
<1>11. Finished(b, n + 1, i)
  <2>1. n + 1 \in 1..(n + 1)
    OBVIOUS
  <2> QED BY <2>1 DEF Finished
<1>12. Kept(b, n + 1, more, t)
  BY <1>4, <1>6, <1>7, <1>9, <1>11 DEF Kept
<1> QED BY <1>1, <1>3, <1>5, <1>9, <1>10, <1>12 DEF Story

\* A final event is the last, and has what the blocks make.
Tale(m, b, n, blocks, events, stop, usage) ==
  /\ Story(m, b, n, blocks, events)
  /\ \A k \in CalledIn(events, "final") :
       k = Len(events) /\ n = Len(b) /\ events[k].response = <<Reply(blocks, stop, usage)>>

TaleInv ==
  /\ DOMAIN acc = AccFields
  /\ pc = "stream" => acc = Empty /\ pos = 0
  /\ Framed /\ Calm /\ pc \in {"decode", "done"} =>
       /\ pos \in Nat /\ pos <= Len(body)
       /\ Tale(message, body, pos, acc.blocks, acc.events, acc.stop, acc.usage)
       /\ pc = "done" => /\ CalledIn(acc.events, "final") = {Len(acc.events)}
                         /\ result = acc.events[Len(acc.events)].response

\* Another chunk, but not the stop.
LEMMA TaleGoes ==
  ASSUME NEW m, NEW b, NEW n \in Nat, NEW blocks, NEW events, NEW stop, NEW usage,
         Tale(m, b, n, blocks, events, stop, usage), n < Len(b), Len(b) \in Nat,
         NEW more, NEW told, NEW why, NEW cost, Story(m, b, n + 1, more, told),
         told = events \/ \E x : x.event # "final" /\ told = Append(events, x)
  PROVE  Tale(m, b, n + 1, more, told, why, cost)
<1>1. PICK f : f = "final"
  OBVIOUS
<1>2. CalledIn(events, f) = {} /\ IsSeq(events)
  BY <1>1 DEF Tale, Story
<1>3. CalledIn(told, f) = {}
  <2>1. CASE told = events
    BY <1>2, <2>1
  <2>2. ASSUME NEW x, x.event # "final", told = Append(events, x) PROVE CalledIn(told, f) = {}
    <3>1. x.event # f
      BY <1>1, <2>2
    <3>2. Spares(events, f, Append(events, x))
      BY <1>2, <3>1, CalledMore
    <3> QED BY <1>2, <2>2, <3>2 DEF Spares
  <2> QED BY <2>1, <2>2
<1> QED BY <1>1, <1>3 DEF Tale

\* The first final event.
LEMMA OneFinal ==
  ASSUME NEW events, IsSeq(events), CalledIn(events, "final") = {}, NEW x, x.event = "final"
  PROVE  /\ CalledIn(Append(events, x), "final") = {Len(Append(events, x))}
         /\ Append(events, x)[Len(Append(events, x))] = x
<1>1. PICK f, told : f = "final" /\ told = Append(events, x)
  OBVIOUS
<1>2. CalledIn(events, f) = {} /\ x.event = f
  BY <1>1
<1>3. Gains(events, f, x, Append(events, x))
  BY <1>2, CalledMore
<1>4. IsSeq(told) /\ Len(told) = Len(events) + 1
  BY <1>1, OneMore
<1>5. CalledIn(told, f) = {} \cup {Len(told)} /\ told[Len(told)] = x
  BY <1>1, <1>2, <1>3, <1>4 DEF Gains
<1> QED BY <1>1, <1>5

\* The final event, with the last chunk or behind it.
LEMMA TaleEnds ==
  ASSUME NEW m, NEW b, NEW n \in Nat, NEW blocks, NEW events, NEW stop, NEW usage,
         Tale(m, b, n, blocks, events, stop, usage), Len(b) \in Nat, CalledIn(events, "final") = {},
         NEW x, x.event = "final", x.response = <<Reply(blocks, stop, usage)>>
  PROVE  /\ n + 1 = Len(b) => Tale(m, b, n + 1, blocks, Append(events, x), stop, usage)
         /\ n = Len(b) => Tale(m, b, n, blocks, Append(events, x), stop, usage)
<1>1. PICK f, told : f = "final" /\ told = Append(events, x)
  OBVIOUS
<1>2. Story(m, b, n, blocks, events) /\ IsSeq(events) /\ CalledIn(events, f) = {}
  BY <1>1 DEF Tale, Story
<1>3. x.event \notin {"delta", "tool-call"} /\ x.event = f
  BY <1>1
<1>4. CalledIn(told, f) = {Len(told)} /\ told[Len(told)] = x /\ IsSeq(told)
  BY <1>1, <1>2, <1>3, OneFinal, OneMore
<1>5. Story(m, b, n + 1, blocks, told)
  BY <1>1, <1>2, <1>3, StoryReads
<1>6. Story(m, b, n, blocks, told)
  <2>1. PICK d, c : d = "delta" /\ c = "tool-call"
    OBVIOUS
  <2>2. Spares(events, d, Append(events, x)) /\ Spares(events, c, Append(events, x))
    <3>1. x.event # d /\ x.event # c
      BY <1>3, <2>1
    <3> QED BY <1>2, <3>1, CalledMore
  <2>3. Spares(events, d, told) /\ Spares(events, c, told)
    BY <1>1, <2>2
  <2>4. Told(m, blocks, events) /\ Kept(b, n, blocks, events)
    BY <1>2 DEF Story
  <2>5. Told(m, blocks, told)
    BY <2>1, <2>3, <2>4 DEF Told, Spares
  <2>6. Kept(b, n, blocks, told)
    BY <2>1, <2>3, <2>4 DEF Kept, Spares
  <2> QED BY <1>2, <1>4, <2>5, <2>6 DEF Story
<1>7. \A k \in CalledIn(told, f) : k = Len(told) /\ told[k].response = <<Reply(blocks, stop, usage)>>
  BY <1>4
<1> QED BY <1>1, <1>4, <1>5, <1>6, <1>7 DEF Tale

\* The chunk a decoder is at when the body is calm.
LEMMA CalmChunk ==
  ASSUME ProviderInv, Calm, Framed, pos \in Nat, pos < Len(body),
         NEW blocks, NEW events, Story(message, body, pos, blocks, events)
  PROVE  /\ Len(body) \in Nat /\ Current.type # "error"
         /\ Current.type = "stop" => pos + 1 = Len(body)
         /\ Current.type \in {"block_start", "block_stop", "piece"} =>
              /\ Current.at \in DOMAIN message.blocks
              /\ Current.kind = message.blocks[Current.at].kind
              /\ Current.kind \in {"text", "thinking", "tool"}
              /\ ~Finished(body, pos, Current.at)
         /\ Current.type = "block_start" => Current.at \notin DOMAIN blocks
         /\ Current.type = "piece" => \E p \in ToSet(Pieces(Current.at)) : Current.pieces = <<p>>
<1>1. Len(body) \in Nat /\ pos + 1 \in 1..Len(body) /\ message \in Messages /\ CalmBody
  <2>1. IsSeq(body) /\ message \in Messages /\ CalmBody
    BY DEF ProviderInv
  <2> QED BY <2>1, SeqPlaces
<1>2. PICK c : c = Current
  OBVIOUS
<1>3. Proper(c)
  BY <1>1, <1>2 DEF CalmBody, AllProper, Current
<1>4. c.type # "error" /\ (c.type = "stop" => pos + 1 = Len(body))
  BY <1>1, <1>2, <1>3 DEF Proper, OfBlock, CalmBody, StopLast, Current
<1>5. c.type \in {"block_start", "block_stop", "piece"} => c.at # 0 /\ OfBlock(c)
  BY <1>3 DEF Proper
<1>6. c.type = "piece" => \E p \in ToSet(Pieces(c.at)) : c.pieces = <<p>>
  BY <1>5 DEF OfBlock
<1>7. ASSUME c.at # 0, NEW k \in 1..pos, body[k].at = c.at
      PROVE  body[k].type # "block_stop" /\ c.type # "block_start"
  <2>1. k \in 1..Len(body) /\ k < pos + 1
    BY <1>1
  <2>2. InPlace(body, k, pos + 1)
    BY <1>1, <1>2, <1>7, <2>1 DEF CalmBody, AllInPlace, Current
  <2> QED BY <1>2, <1>7, <2>2 DEF InPlace, Current
<1>8. c.type = "block_start" => c.at \notin DOMAIN blocks
  <2>1. \A i \in DOMAIN blocks : \E k \in 1..pos : body[k].at = i
    BY DEF Story, BlockFits
  <2> QED BY <1>5, <1>7, <2>1
<1>9. c.at # 0 => ~Finished(body, pos, c.at)
  BY <1>7 DEF Finished
<1>10. OfBlock(c) => c.at \in DOMAIN message.blocks /\ c.kind = message.blocks[c.at].kind
                     /\ c.kind \in {"text", "thinking", "tool"}
  BY <1>1, BlockTypes DEF OfBlock
<1> QED BY <1>1, <1>2, <1>4, <1>5, <1>6, <1>8, <1>9, <1>10

\* The fields of the accumulators.
LEMMA AccBlocks ==
  ASSUME NEW a, DOMAIN a = AccFields, NEW v, NEW c, c = [a EXCEPT !.blocks = v]
  PROVE  /\ DOMAIN c = AccFields /\ c.blocks = v /\ c.events = a.events /\ c.text = a.text
         /\ c.stop = a.stop /\ c.usage = a.usage /\ c.terminal = a.terminal /\ c.taken = a.taken
BY DEF AccFields

\* The same for the events,
LEMMA AccEvents ==
  ASSUME NEW a, DOMAIN a = AccFields, NEW v, NEW c, c = [a EXCEPT !.events = v]
  PROVE  /\ DOMAIN c = AccFields /\ c.blocks = a.blocks /\ c.events = v /\ c.text = a.text
         /\ c.stop = a.stop /\ c.usage = a.usage /\ c.terminal = a.terminal /\ c.taken = a.taken
BY DEF AccFields

\* for stop reason and usage,
LEMMA AccSums ==
  ASSUME NEW a, DOMAIN a = AccFields, NEW v, NEW w, NEW c, c = [a EXCEPT !.stop = v, !.usage = w]
  PROVE  /\ DOMAIN c = AccFields /\ c.blocks = a.blocks /\ c.events = a.events /\ c.text = a.text
         /\ c.stop = v /\ c.usage = w /\ c.terminal = a.terminal /\ c.taken = a.taken
BY DEF AccFields

\* for the number of chunks,
LEMMA AccCounts ==
  ASSUME NEW a, DOMAIN a = AccFields, NEW v, NEW c, c = [a EXCEPT !.taken = v]
  PROVE  /\ DOMAIN c = AccFields /\ c.blocks = a.blocks /\ c.events = a.events /\ c.text = a.text
         /\ c.stop = a.stop /\ c.usage = a.usage /\ c.terminal = a.terminal /\ c.taken = v
BY DEF AccFields

\* for the text,
LEMMA AccText ==
  ASSUME NEW a, DOMAIN a = AccFields, NEW v, NEW c, c = [a EXCEPT !.text = v]
  PROVE  /\ DOMAIN c = AccFields /\ c.blocks = a.blocks /\ c.events = a.events /\ c.text = v
         /\ c.stop = a.stop /\ c.usage = a.usage /\ c.terminal = a.terminal /\ c.taken = a.taken
BY DEF AccFields

\* and for the terminal event.
LEMMA AccTerminal ==
  ASSUME NEW a, DOMAIN a = AccFields, NEW v, NEW c, c = [a EXCEPT !.terminal = v]
  PROVE  /\ DOMAIN c = AccFields /\ c.blocks = a.blocks /\ c.events = a.events /\ c.text = a.text
         /\ c.stop = a.stop /\ c.usage = a.usage /\ c.terminal = v /\ c.taken = a.taken
BY DEF AccFields

\* Taking a chunk.
LEMMA TaleTakes ==
  ASSUME TaleInv, pc = "decode", pos' = pos + 1, UNCHANGED <<provider, pc, result>>,
         DOMAIN acc' = AccFields, NEW more, NEW told, acc'.blocks = more, acc'.events = told,
         Framed /\ Calm =>
           /\ pos < Len(body) /\ Len(body) \in Nat /\ pos \in Nat
           /\ Story(message, body, pos + 1, more, told)
           /\ told = acc.events \/ \E x : x.event # "final" /\ told = Append(acc.events, x)
  PROVE  TaleInv'
<1>1. ASSUME Framed, Calm
      PROVE  Tale(message, body, pos + 1, more, told, acc'.stop, acc'.usage)
  <2>1. Tale(message, body, pos, acc.blocks, acc.events, acc.stop, acc.usage)
    BY <1>1 DEF TaleInv
  <2>2. PICK blocks, events, stop, usage :
          blocks = acc.blocks /\ events = acc.events /\ stop = acc.stop /\ usage = acc.usage
    OBVIOUS
  <2>3. PICK why, cost : why = acc'.stop /\ cost = acc'.usage
    OBVIOUS
  <2>4. /\ Tale(message, body, pos, blocks, events, stop, usage)
        /\ pos < Len(body) /\ Len(body) \in Nat /\ pos \in Nat
        /\ Story(message, body, pos + 1, more, told)
        /\ told = events \/ \E x : x.event # "final" /\ told = Append(events, x)
    BY <1>1, <2>1, <2>2
  <2>5. Tale(message, body, pos + 1, more, told, why, cost)
    BY <2>4, TaleGoes
  <2> QED BY <2>3, <2>5
<1>2. PICK P, A : P = pos + 1 /\ A = acc'
  OBVIOUS
<1>3. (Framed <=> Framed') /\ (Calm <=> Calm') /\ pc' = "decode" /\ pos' = P /\ message' = message /\ body' = body
  BY <1>2 DEF provider, Framed, Calm, Faulty
<1>4. ASSUME Framed, Calm
      PROVE  P \in Nat /\ P <= Len(body) /\ Tale(message, body, P, A.blocks, A.events, A.stop, A.usage)
  BY <1>1, <1>2, <1>4
<1> QED BY <1>2, <1>3, <1>4 DEF TaleInv

\* Failing.
LEMMA TaleFails == ASSUME TaleInv, Fail PROVE TaleInv'
BY DEF Fail, TaleInv, provider, Framed, Calm, Faulty

\* Where the Anthropic decoder is in a calm body.
LEMMA CalmNow ==
  ASSUME ProviderInv, TaleInv, NEW types, At("anthropic", types), Calm
  PROVE  /\ pos \in Nat /\ pos < Len(body) /\ Len(body) \in Nat
         /\ Story(message, body, pos, acc.blocks, acc.events)
         /\ Current.type \in types /\ Current.type # "error"
         /\ Current.type = "stop" => pos + 1 = Len(body)
         /\ Current.type \in {"block_start", "block_stop", "piece"} =>
              /\ Current.at \in DOMAIN message.blocks
              /\ Current.kind = message.blocks[Current.at].kind
              /\ Current.kind \in {"text", "thinking", "tool"}
              /\ ~Finished(body, pos, Current.at)
         /\ Current.type = "block_start" => Current.at \notin DOMAIN acc.blocks
         /\ Current.type = "piece" => \E p \in ToSet(Pieces(Current.at)) : Current.pieces = <<p>>
<1>1. Framed /\ pc = "decode" /\ pos < Len(body) /\ Current.type \in types
  BY DEF At, Framed
<1>2. pos \in Nat /\ Story(message, body, pos, acc.blocks, acc.events)
  BY <1>1 DEF TaleInv, Tale
<1>3. PICK blocks, events : blocks = acc.blocks /\ events = acc.events
  OBVIOUS
<1>4. Story(message, body, pos, blocks, events)
  BY <1>2, <1>3
<1> QED BY <1>1, <1>2, <1>3, <1>4, CalmChunk

\* The first message of a stream, and the stop reason and usage.
LEMMA TaleOpens ==
  ASSUME ProviderInv, TaleInv, AnthropicOpen \/ AnthropicClose PROVE TaleInv'
<1>1. PICK x, B, E : /\ B = acc.blocks /\ E = Append(acc.events, x)
                     /\ AnthropicOpen => x = Event("start", 0, <<>>)
                     /\ AnthropicOpen \/ x = Event("usage", 0, <<>>)
  <2>1. CASE AnthropicOpen
    BY <2>1
  <2>2. CASE ~AnthropicOpen
    BY <2>2
  <2> QED BY <2>1, <2>2
<1>2. x.event \notin {"delta", "tool-call"} /\ x.event # "final"
  BY <1>1 DEF Event
<1>3. \E types : At("anthropic", types)
  BY DEF AnthropicOpen, AnthropicClose
<1>4. pos' = pos + 1 /\ UNCHANGED <<provider, pc, result>> /\ pc = "decode"
  BY DEF AnthropicOpen, AnthropicClose, Take, At
<1>5. DOMAIN acc' = AccFields /\ acc'.blocks = B /\ acc'.events = E
  <2>1. DOMAIN acc = AccFields
    BY DEF TaleInv
  <2>2. PICK A, s, u : A = acc' /\ s = Dashed(Current.stop) /\ u = Current.usage
    OBVIOUS
  <2>3. CASE AnthropicOpen
    <3>1. A = [acc EXCEPT !.events = E]
      BY <1>1, <2>2, <2>3 DEF AnthropicOpen, Take, Emit
    <3> QED BY <1>1, <2>1, <2>2, <3>1, AccEvents
  <2>4. CASE ~AnthropicOpen
    <3>1. A = [acc EXCEPT !.stop = s, !.usage = u, !.events = E]
      BY <1>1, <2>2, <2>4 DEF AnthropicClose, Take, Emit
    <3>2. /\ DOMAIN A = AccFields /\ A.blocks = acc.blocks /\ A.events = E /\ A.text = acc.text
          /\ A.stop = s /\ A.usage = u /\ A.terminal = acc.terminal /\ A.taken = acc.taken
      BY <2>1, <3>1 DEF AccFields
    <3> QED BY <1>1, <2>2, <3>2
  <2> QED BY <2>3, <2>4
<1>6. ASSUME Calm
      PROVE  /\ pos < Len(body) /\ Len(body) \in Nat /\ pos \in Nat
             /\ Story(message, body, pos + 1, B, E)
             /\ E = Append(acc.events, x)
  <2>1. pos \in Nat /\ pos < Len(body) /\ Len(body) \in Nat
        /\ Story(message, body, pos, acc.blocks, acc.events)
    BY <1>3, <1>6, CalmNow
  <2>2. PICK events : events = acc.events
    OBVIOUS
  <2>3. Story(message, body, pos, B, events)
    BY <1>1, <2>1, <2>2
  <2>4. Story(message, body, pos + 1, B, Append(events, x))
    BY <1>2, <2>1, <2>3, StoryReads
  <2> QED BY <1>1, <2>1, <2>2, <2>4
<1> QED BY <1>2, <1>4, <1>5, <1>6, TaleTakes

\* A block begins.
LEMMA TaleStarts ==
  ASSUME ProviderInv, TaleInv, AnthropicBlockStart PROVE TaleInv'
<1>1. PICK c, x, B, E : /\ c = Current /\ x = (IF c.kind = "tool" THEN ToolBlock(c.at) ELSE TextBlock(<<>>))
                        /\ B = Put(acc.blocks, c.at, x) /\ E = acc.events
  OBVIOUS
<1>2. At("anthropic", {"block_start"}) /\ pc = "decode"
  BY DEF AnthropicBlockStart, At
<1>3. pos' = pos + 1 /\ UNCHANGED <<provider, pc, result>>
  BY DEF AnthropicBlockStart, Take
<1>4. DOMAIN acc' = AccFields /\ acc'.blocks = B /\ acc'.events = E
  <2>1. DOMAIN acc = AccFields
    BY DEF TaleInv
  <2>2. PICK A : A = acc'
    OBVIOUS
  <2>3. A = [acc EXCEPT !.blocks = B]
    BY <1>1, <2>2 DEF AnthropicBlockStart, Take, WithBlock, Put
  <2> QED BY <1>1, <2>1, <2>2, <2>3, AccBlocks
<1>5. DOMAIN x = BlockFields /\ x.kind = (IF c.kind = "tool" THEN "tool" ELSE "text")
      /\ x.pieces = <<>> /\ (x.kind = "text" => x.id = 0)
  BY <1>1 DEF ToolBlock, TextBlock, BlockFields
<1>6. ASSUME Calm
      PROVE  /\ pos < Len(body) /\ Len(body) \in Nat /\ pos \in Nat
             /\ Story(message, body, pos + 1, B, E)
             /\ E = acc.events
  <2>1. /\ pos \in Nat /\ pos < Len(body) /\ Len(body) \in Nat
        /\ Story(message, body, pos, acc.blocks, acc.events)
        /\ c.at \in DOMAIN message.blocks /\ c.kind = message.blocks[c.at].kind
        /\ ~Finished(body, pos, c.at) /\ c.at \notin DOMAIN acc.blocks
    BY <1>1, <1>2, <1>6, CalmNow
  <2>2. PICK blocks, i : blocks = acc.blocks /\ i = c.at
    OBVIOUS
  <2>3. BlockFits(message, body, pos + 1, i, x)
    <3>1. pos + 1 \in 1..(pos + 1) /\ body[pos + 1].at = i
      BY <1>1, <2>1, <2>2 DEF Current
    <3>2. IsSeq(<<>>) /\ ToSet(<<>>) = {}
      BY EmptyStack DEF ToSet
    <3>3. x.kind = "text" => x.id = 0 /\ IsSeq(x.pieces) /\ ToSet(x.pieces) \subseteq ToSet(message.blocks[i].pieces)
      BY <1>5, <3>2
    <3> QED BY <1>5, <2>1, <2>2, <3>1, <3>3 DEF BlockFits
  <2>4. Story(message, body, pos, blocks, E) /\ ~Finished(body, pos, i) /\ i \notin DOMAIN blocks
    BY <1>1, <2>1, <2>2
  <2>5. Story(message, body, pos + 1, Put(blocks, i, x), E)
    BY <1>5, <2>1, <2>3, <2>4, StoryPuts
  <2> QED BY <1>1, <2>1, <2>2, <2>5
<1> QED BY <1>2, <1>3, <1>4, <1>6, TaleTakes

\* One more piece.
LEMMA JoinOne ==
  ASSUME NEW s, IsSeq(s), NEW x
  PROVE  /\ IsSeq(s \o <<x>>) /\ Len(s \o <<x>>) = Len(s) + 1
         /\ \A k \in 1..Len(s) : (s \o <<x>>)[k] = s[k]
         /\ (s \o <<x>>)[Len(s) + 1] = x
         /\ ToSet(s \o <<x>>) = ToSet(s) \cup {x}
<1> DEFINE S == {s[k] : k \in 1..Len(s)} \cup {x}
<1>1. s \in Seq(S) /\ x \in S
  BY SMT DEF IsSeq
<1> HIDE DEF S
<1>2. Append(s, x) = s \o <<x>>
  BY <1>1, AppendIsConcat
<1>3. /\ IsSeq(Append(s, x)) /\ Len(Append(s, x)) = Len(s) + 1
      /\ \A k \in 1..Len(s) : Append(s, x)[k] = s[k]
      /\ Append(s, x)[Len(s) + 1] = x
      /\ ToSet(Append(s, x)) = ToSet(s) \cup {x}
  BY OneMore
<1> QED BY <1>2, <1>3, Zenon

\* A piece of a text or of a thought.
LEMMA TaleReads ==
  ASSUME ProviderInv, TaleInv, AnthropicText PROVE TaleInv'
<1>1. PICK c, old : c = Current /\ old = BlockOr(c.at, TextBlock(<<>>))
  OBVIOUS
<1>2. PICK x, B, E : /\ x = TextBlock(old.pieces \o c.pieces)
                     /\ B = Put(acc.blocks, c.at, x)
                     /\ E = IF c.kind = "text" THEN Append(acc.events, Event("delta", 0, c.pieces))
                            ELSE acc.events
  OBVIOUS
<1>3. At("anthropic", {"piece"}) /\ pc = "decode" /\ c.kind # "tool" /\ DOMAIN acc = AccFields
  BY <1>1 DEF AnthropicText, At, TaleInv
<1>4. CASE old.kind = "tool"
  <2>1. Fail
    BY <1>1, <1>4 DEF AnthropicText
  <2> QED BY <2>1, TaleFails
<1>5. CASE old.kind # "tool"
  <2>1. pos' = pos + 1 /\ UNCHANGED <<provider, pc, result>>
    BY <1>1, <1>5 DEF AnthropicText, Take
  <2>2. DOMAIN acc' = AccFields /\ acc'.blocks = B /\ acc'.events = E
    <3>1. acc' = [acc EXCEPT !.blocks = B, !.events = IF c.kind = "text" THEN Append(acc.events, Event("delta", 0, c.pieces)) ELSE @]
      BY <1>1, <1>2, <1>5 DEF AnthropicText, Take, WithBlock, Put, Emit
    <3>2. PICK A : A = acc'
      OBVIOUS
    <3>3. A = [acc EXCEPT !.blocks = B, !.events = E]
      BY <1>2, <1>3, <3>1, <3>2 DEF AccFields
    <3> QED BY <1>3, <3>2, <3>3 DEF AccFields
  <2>3. ASSUME Calm
        PROVE  /\ pos < Len(body) /\ Len(body) \in Nat /\ pos \in Nat
               /\ Story(message, body, pos + 1, B, E)
               /\ E = acc.events \/ \E e : e.event # "final" /\ E = Append(acc.events, e)
    <3>1. Current.type = "piece"
      BY <1>3 DEF At
    <3>2. /\ pos \in Nat /\ pos < Len(body) /\ Len(body) \in Nat
          /\ Story(message, body, pos, acc.blocks, acc.events)
          /\ c.at \in DOMAIN message.blocks /\ c.kind = message.blocks[c.at].kind
          /\ ~Finished(body, pos, c.at)
          /\ \E p \in ToSet(Pieces(c.at)) : c.pieces = <<p>>
      BY <1>1, <1>3, <2>3, <3>1, CalmNow
    <3>3. PICK blocks, events, i : blocks = acc.blocks /\ events = acc.events /\ i = c.at
      OBVIOUS
    <3>4. PICK p \in ToSet(message.blocks[i].pieces) : c.pieces = <<p>>
      BY <3>2, <3>3 DEF Pieces
    <3>5. Story(message, body, pos, blocks, events) /\ ~Finished(body, pos, i)
          /\ i \in DOMAIN message.blocks /\ c.kind = message.blocks[i].kind
      BY <3>2, <3>3
    <3>6. /\ IsSeq(old.pieces) /\ ToSet(old.pieces) \subseteq ToSet(message.blocks[i].pieces)
          /\ ToSet(old.pieces) = IF i \in DOMAIN blocks THEN ToSet(blocks[i].pieces) ELSE {}
      <4>1. CASE i \in DOMAIN blocks
        <5>1. BlockFits(message, body, pos, i, blocks[i]) /\ old = blocks[i]
          BY <1>1, <3>3, <3>5, <4>1 DEF Story, BlockOr
        <5>2. blocks[i].kind = "text"
          BY <1>5, <5>1 DEF BlockFits
        <5> QED BY <4>1, <5>1, <5>2 DEF BlockFits
      <4>2. CASE i \notin DOMAIN blocks
        <5>1. old.pieces = <<>>
          BY <1>1, <3>3, <4>2 DEF BlockOr, TextBlock
        <5>2. IsSeq(<<>>) /\ ToSet(<<>>) = {}
          BY EmptyStack DEF ToSet
        <5> QED BY <4>2, <5>1, <5>2
      <4> QED BY <4>1, <4>2
    <3>7. /\ x.kind = "text" /\ x.id = 0 /\ DOMAIN x = BlockFields
          /\ x.pieces = old.pieces \o <<p>>
      BY <1>2, <3>4 DEF TextBlock, BlockFields
    <3>8. IsSeq(x.pieces) /\ ToSet(x.pieces) = ToSet(old.pieces) \cup {p}
      BY <3>6, <3>7, JoinOne
    <3>9. BlockFits(message, body, pos + 1, i, x)
      <4>1. pos + 1 \in 1..(pos + 1) /\ body[pos + 1].at = i
        BY <1>1, <3>2, <3>3 DEF Current
      <4>2. message.blocks[i].kind # "tool"
        BY <1>3, <3>5
      <4> QED BY <3>4, <3>5, <3>6, <3>7, <3>8, <4>1, <4>2 DEF BlockFits
    <3>10. CASE c.kind = "text"
      <4>1. PICK e : e = Event("delta", 0, c.pieces)
        OBVIOUS
      <4>2. e.event = "delta" /\ e.pieces = <<p>> /\ e.event # "final"
        BY <3>4, <4>1 DEF Event
      <4>3. message.blocks[i].kind = "text"
        BY <3>5, <3>10
      <4>4. ToSet(x.pieces) = (IF i \in DOMAIN blocks THEN ToSet(blocks[i].pieces) ELSE {}) \cup {p}
        BY <3>6, <3>8
      <4>5. Story(message, body, pos + 1, Put(blocks, i, x), Append(events, e))
        BY <3>2, <3>5, <3>9, <4>2, <4>3, <4>4, StoryTells
      <4>6. E = Append(events, e) /\ B = Put(blocks, i, x)
        BY <1>2, <3>3, <3>10, <4>1
      <4> QED BY <3>2, <3>3, <4>2, <4>5, <4>6
    <3>11. CASE c.kind # "text"
      <4>1. message.blocks[i].kind # "text"
        BY <3>5, <3>11
      <4>2. Story(message, body, pos + 1, Put(blocks, i, x), events)
        BY <3>2, <3>5, <3>9, <4>1, StoryPuts
      <4>3. E = events /\ B = Put(blocks, i, x)
        BY <1>2, <3>3, <3>11
      <4> QED BY <3>2, <3>3, <4>2, <4>3
    <3> QED BY <3>10, <3>11
  <2> QED BY <1>3, <2>1, <2>2, <2>3, TaleTakes
<1> QED BY <1>4, <1>5

\* A piece of the arguments of a tool call.
LEMMA TaleCollects ==
  ASSUME ProviderInv, TaleInv, AnthropicJson PROVE TaleInv'
<1>1. PICK c, old : c = Current /\ old = BlockOr(c.at, ToolBlock(0))
  OBVIOUS
<1>2. PICK x, B, E : /\ x = [old EXCEPT !.partial = @ \o c.pieces]
                     /\ B = Put(acc.blocks, c.at, x) /\ E = acc.events
  OBVIOUS
<1>3. At("anthropic", {"piece"}) /\ pc = "decode" /\ c.kind = "tool" /\ DOMAIN acc = AccFields
  BY <1>1 DEF AnthropicJson, At, TaleInv
<1>4. CASE old.kind = "text"
  <2>1. Fail
    BY <1>1, <1>4 DEF AnthropicJson
  <2> QED BY <2>1, TaleFails
<1>5. CASE old.kind # "text"
  <2>1. pos' = pos + 1 /\ UNCHANGED <<provider, pc, result>>
    BY <1>1, <1>5 DEF AnthropicJson, Take
  <2>2. DOMAIN acc' = AccFields /\ acc'.blocks = B /\ acc'.events = E
    <3>1. PICK A : A = acc'
      OBVIOUS
    <3>2. A = [acc EXCEPT !.blocks = B]
      BY <1>1, <1>2, <1>5, <3>1 DEF AnthropicJson, Take, WithBlock, Put
    <3> QED BY <1>2, <1>3, <3>1, <3>2, AccBlocks
  <2>3. ASSUME Calm
        PROVE  /\ pos < Len(body) /\ Len(body) \in Nat /\ pos \in Nat
               /\ Story(message, body, pos + 1, B, E)
               /\ E = acc.events
    <3>1. Current.type = "piece"
      BY <1>3 DEF At
    <3>2. /\ pos \in Nat /\ pos < Len(body) /\ Len(body) \in Nat
          /\ Story(message, body, pos, acc.blocks, acc.events)
          /\ c.at \in DOMAIN message.blocks /\ c.kind = message.blocks[c.at].kind
          /\ ~Finished(body, pos, c.at)
      BY <1>1, <1>3, <2>3, <3>1, CalmNow
    <3>3. PICK blocks, i : blocks = acc.blocks /\ i = c.at
      OBVIOUS
    <3>4. Story(message, body, pos, blocks, E) /\ ~Finished(body, pos, i)
          /\ i \in DOMAIN message.blocks /\ message.blocks[i].kind = "tool"
      BY <1>2, <1>3, <3>2, <3>3
    <3>5. DOMAIN old = BlockFields /\ old.kind = "tool"
      <4>1. CASE i \in DOMAIN blocks
        <5>1. BlockFits(message, body, pos, i, blocks[i]) /\ old = blocks[i]
          BY <1>1, <3>3, <3>4, <4>1 DEF Story, BlockOr
        <5> QED BY <3>4, <5>1 DEF BlockFits
      <4>2. CASE i \notin DOMAIN blocks
        BY <1>1, <3>3, <4>2 DEF BlockOr, ToolBlock, BlockFields
      <4> QED BY <4>1, <4>2
    <3>6. DOMAIN x = BlockFields /\ x.kind = "tool"
      BY <1>2, <3>5 DEF BlockFields
    <3>7. BlockFits(message, body, pos + 1, i, x)
      <4>1. pos + 1 \in 1..(pos + 1) /\ body[pos + 1].at = i
        BY <1>1, <3>2, <3>3 DEF Current
      <4> QED BY <3>4, <3>6, <4>1 DEF BlockFits
    <3>8. message.blocks[i].kind # "text"
      BY <3>4
    <3>9. Story(message, body, pos + 1, Put(blocks, i, x), E)
      BY <3>2, <3>4, <3>7, <3>8, StoryPuts
    <3> QED BY <1>2, <3>2, <3>3, <3>9
  <2> QED BY <1>3, <2>1, <2>2, <2>3, TaleTakes
<1> QED BY <1>4, <1>5

\* A block ends, and if it is a tool call it is announced.
LEMMA TaleCalls ==
  ASSUME ProviderInv, TaleInv, AnthropicBlockStop PROVE TaleInv'
<1>1. PICK c, i, blocks, events : c = Current /\ i = c.at /\ blocks = acc.blocks /\ events = acc.events
  OBVIOUS
<1>2. At("anthropic", {"block_stop"}) /\ pc = "decode" /\ c.type = "block_stop" /\ DOMAIN acc = AccFields
  BY <1>1 DEF AnthropicBlockStop, At, TaleInv
<1>3. ASSUME Calm
      PROVE  /\ pos \in Nat /\ pos < Len(body) /\ Len(body) \in Nat
             /\ Story(message, body, pos, blocks, events)
             /\ ~Finished(body, pos, i) /\ body[pos + 1].at = i /\ body[pos + 1].type = "block_stop"
  <2>1. Current.type = "block_stop"
    BY <1>1, <1>2
  <2>2. /\ pos \in Nat /\ pos < Len(body) /\ Len(body) \in Nat
        /\ Story(message, body, pos, acc.blocks, acc.events)
        /\ ~Finished(body, pos, Current.at)
    BY <1>2, <1>3, <2>1, CalmNow
  <2> QED BY <1>1, <2>1, <2>2 DEF Current
<1>4. CASE i \notin DOMAIN blocks \/ blocks[i].kind = "text"
  <2>1. pos' = pos + 1 /\ UNCHANGED <<provider, pc, result>> /\ acc' = acc
    BY <1>1, <1>4 DEF AnthropicBlockStop, Take
  <2>2. DOMAIN acc' = AccFields /\ acc'.blocks = blocks /\ acc'.events = events
    BY <1>1, <1>2, <2>1
  <2>3. ASSUME Calm
        PROVE  /\ pos < Len(body) /\ Len(body) \in Nat /\ pos \in Nat
               /\ Story(message, body, pos + 1, blocks, events)
               /\ events = acc.events
    BY <1>1, <1>3, <2>3, StoryReads
  <2> QED BY <1>2, <2>1, <2>2, <2>3, TaleTakes
<1>5. CASE ~(i \notin DOMAIN blocks \/ blocks[i].kind = "text")
  <2>1. PICK b, input : b = blocks[i] /\ input = IF b.partial = <<>> THEN b.pieces ELSE b.partial
    OBVIOUS
  <2>2. PICK x, e : x = [b EXCEPT !.pieces = input, !.partial = <<>>] /\ e = Event("tool-call", b.id, input)
    OBVIOUS
  <2>3. PICK B, E : B = Put(blocks, i, x) /\ E = Append(events, e)
    OBVIOUS
  <2>4. \/ Fail
        \/ Take([acc EXCEPT !.blocks = B, !.events = E])
    BY <1>1, <1>5, <2>1, <2>2, <2>3 DEF AnthropicBlockStop, WithBlock, Put, Emit
  <2>5. CASE Fail
    BY <2>5, TaleFails
  <2>6. CASE Take([acc EXCEPT !.blocks = B, !.events = E])
    <3>1. pos' = pos + 1 /\ UNCHANGED <<provider, pc, result>>
      BY <2>6 DEF Take
    <3>2. DOMAIN acc' = AccFields /\ acc'.blocks = B /\ acc'.events = E
      BY <1>2, <2>6 DEF Take, AccFields
    <3>3. ASSUME Calm
          PROVE  /\ pos < Len(body) /\ Len(body) \in Nat /\ pos \in Nat
                 /\ Story(message, body, pos + 1, B, E)
                 /\ e.event # "final" /\ E = Append(acc.events, e)
      <4>1. i \in DOMAIN blocks /\ b = blocks[i] /\ b.kind # "text"
        BY <1>5, <2>1
      <4>2. BlockFits(message, body, pos, i, b)
        BY <1>3, <3>3, <4>1 DEF Story
      <4>3. i \in DOMAIN message.blocks /\ DOMAIN b = BlockFields /\ b.kind = "tool"
            /\ message.blocks[i].kind = "tool"
        BY <4>1, <4>2 DEF BlockFits
      <4>4. DOMAIN x = BlockFields /\ x.kind = "tool" /\ x.id = b.id /\ x.pieces = input
        BY <2>2, <4>3 DEF BlockFields
      <4>5. BlockFits(message, body, pos + 1, i, x)
        <5>1. pos + 1 \in 1..(pos + 1) /\ body[pos + 1].at = i
          BY <1>3, <3>3
        <5> QED BY <4>3, <4>4, <5>1 DEF BlockFits
      <4>6. e.event = "tool-call" /\ e.id = x.id /\ e.pieces = x.pieces /\ e.event # "final"
        BY <2>2, <4>4 DEF Event
      <4>7. Story(message, body, pos + 1, Put(blocks, i, x), Append(events, e))
        BY <1>3, <3>3, <4>4, <4>5, <4>6, StoryCalls
      <4> QED BY <1>1, <1>3, <2>3, <3>3, <4>6, <4>7
    <3> QED BY <1>2, <3>1, <3>2, <3>3, TaleTakes
  <2> QED BY <2>4, <2>5, <2>6
<1> QED BY <1>4, <1>5

\* The response so far.
LEMMA ReplyIs == StreamResponse = Reply(acc.blocks, acc.stop, acc.usage)
BY DEF StreamResponse, Reply, Ordered

\* The stop, which is the last chunk.
LEMMA TaleStops ==
  ASSUME ProviderInv, TaleInv, AnthropicStop PROVE TaleInv'
<1>1. PICK x, B, E, s, u : /\ x = Final(StreamResponse) /\ B = acc.blocks /\ E = acc.events
                           /\ s = acc.stop /\ u = acc.usage
  OBVIOUS
<1>2. At("anthropic", {"stop"}) /\ pc = "decode" /\ DOMAIN acc = AccFields /\ Framed
  BY DEF AnthropicStop, At, TaleInv, Framed
<1>3. x.event = "final" /\ x.response = <<Reply(B, s, u)>>
  BY <1>1, ReplyIs DEF Final
<1>4. PICK F : F = Append(E, x)
  OBVIOUS
<1>5. pos' = pos + 1 /\ UNCHANGED <<provider, pc, result>>
  BY DEF AnthropicStop, Take
<1>6. PICK A : A = acc'
  OBVIOUS
<1>7. /\ DOMAIN A = AccFields /\ A.blocks = B /\ A.events = F /\ A.stop = s /\ A.usage = u
  <2>1. A = [acc EXCEPT !.events = F]
    BY <1>1, <1>4, <1>6 DEF AnthropicStop, Take, Emit
  <2> QED BY <1>1, <1>2, <2>1, AccEvents
<1>8. PICK P : P = pos + 1
  OBVIOUS
<1>9. ASSUME Calm
      PROVE  P \in Nat /\ P <= Len(body) /\ Tale(message, body, P, B, F, s, u)
  <2>1. Current.type = "stop"
    BY <1>2 DEF At
  <2>2. pos \in Nat /\ pos < Len(body) /\ Len(body) \in Nat /\ pos + 1 = Len(body)
    BY <1>2, <1>9, <2>1, CalmNow
  <2>3. Tale(message, body, pos, B, E, s, u)
    BY <1>1, <1>2, <1>9 DEF TaleInv
  <2>4. CalledIn(E, "final") = {}
    BY <2>2, <2>3 DEF Tale
  <2>5. pos + 1 = Len(body) => Tale(message, body, pos + 1, B, Append(E, x), s, u)
    BY <1>3, <2>2, <2>3, <2>4, TaleEnds
  <2> QED BY <1>4, <1>8, <2>2, <2>5
<1>10. (Framed <=> Framed') /\ (Calm <=> Calm') /\ pc' = "decode" /\ pos' = P /\ message' = message /\ body' = body
  BY <1>2, <1>5, <1>8 DEF provider, Framed, Calm, Faulty
<1> QED BY <1>6, <1>7, <1>9, <1>10 DEF TaleInv

\* The end of the body.
LEMMA TaleFinishes ==
  ASSUME ProviderInv, TaleInv, AnthropicEnd PROVE TaleInv'
<1>1. PICK x, B, E, s, u : /\ x = Final(StreamResponse) /\ B = acc.blocks /\ E = acc.events
                           /\ s = acc.stop /\ u = acc.usage
  OBVIOUS
<1>2. pc = "decode" /\ pos = Len(body) /\ DOMAIN acc = AccFields /\ Framed
  BY DEF AnthropicEnd, AtEnd, TaleInv, Framed
<1>3. x.event = "final" /\ x.response = <<Reply(B, s, u)>> /\ x.response = <<StreamResponse>>
  BY <1>1, ReplyIs DEF Final
<1>4. PICK F : F = Append(E, x)
  OBVIOUS
<1>5. pos' = pos /\ UNCHANGED provider /\ pc' = "done"
  BY DEF AnthropicEnd, Answer
<1>6. PICK A, R : A = acc' /\ R = result'
  OBVIOUS
<1>7. CASE CalledIn(E, "final") # {}
  <2>1. Called("final") = CalledIn(E, "final")
    BY <1>1 DEF Called, CalledIn
  <2>2. A = acc /\ R = <<E[Max(CalledIn(E, "final"))].response[1]>>
    BY <1>1, <1>6, <1>7, <2>1 DEF AnthropicEnd, Answer
  <2>3. ASSUME Calm
        PROVE  /\ pos \in Nat /\ pos <= Len(body) /\ Tale(message, body, pos, B, E, s, u)
               /\ CalledIn(E, "final") = {Len(E)} /\ R = E[Len(E)].response
    <3>1. pos \in Nat /\ pos <= Len(body) /\ Tale(message, body, pos, B, E, s, u)
      BY <1>1, <1>2, <2>3 DEF TaleInv
    <3>2. CalledIn(E, "final") = {Len(E)} /\ E[Len(E)].response = <<Reply(B, s, u)>> /\ IsSeq(E)
      BY <1>7, <3>1 DEF Tale, Story
    <3>3. Len(E) \in Nat
      BY <3>2, SeqPlaces
    <3>4. Max({Len(E)}) = Len(E)
      <4>1. PICK n : n = Len(E)
        OBVIOUS
      <4>2. n \in Nat /\ Max({n}) \in {n}
        BY <3>3, <4>1 DEF Max
      <4> QED BY <4>1, <4>2
    <3>5. R = <<E[Len(E)].response[1]>>
      BY <2>2, <3>2, <3>4
    <3> QED BY <3>1, <3>2, <3>5
  <2>4. DOMAIN A = AccFields /\ A.blocks = B /\ A.events = E /\ A.stop = s /\ A.usage = u
    BY <1>1, <1>2, <2>2
  <2>5. (Calm <=> Calm') /\ message' = message /\ body' = body
    BY <1>5 DEF provider, Calm, Faulty
  <2> QED BY <1>5, <1>6, <2>3, <2>4, <2>5 DEF TaleInv
<1>8. CASE CalledIn(E, "final") = {}
  <2>1. Called("final") = CalledIn(E, "final")
    BY <1>1 DEF Called, CalledIn
  <2>2. A = [acc EXCEPT !.events = F] /\ R = x.response
    BY <1>1, <1>3, <1>4, <1>6, <1>8, <2>1 DEF AnthropicEnd, Answer, Emit
  <2>3. ASSUME Calm
        PROVE  /\ pos \in Nat /\ pos <= Len(body) /\ Tale(message, body, pos, B, F, s, u)
               /\ CalledIn(F, "final") = {Len(F)} /\ R = F[Len(F)].response
    <3>1. pos \in Nat /\ pos <= Len(body) /\ Tale(message, body, pos, B, E, s, u) /\ Len(body) \in Nat
      BY <1>1, <1>2, <2>3 DEF TaleInv
    <3>2. x.event = "final" /\ x.response = <<Reply(B, s, u)>> /\ CalledIn(E, "final") = {}
      BY <1>3, <1>8
    <3>3. pos = Len(body) => Tale(message, body, pos, B, Append(E, x), s, u)
      BY <3>1, <3>2, TaleEnds
    <3>4. /\ CalledIn(Append(E, x), "final") = {Len(Append(E, x))}
          /\ Append(E, x)[Len(Append(E, x))] = x
      <4>1. IsSeq(E)
        BY <3>1 DEF Tale, Story
      <4> QED BY <3>2, <4>1, OneFinal
    <3> QED BY <1>2, <1>4, <2>2, <3>1, <3>3, <3>4
  <2>4. DOMAIN A = AccFields /\ A.blocks = B /\ A.events = F /\ A.stop = s /\ A.usage = u
    BY <1>1, <1>2, <2>2, AccEvents
  <2>5. (Calm <=> Calm') /\ message' = message /\ body' = body
    BY <1>5 DEF provider, Calm, Faulty
  <2> QED BY <1>5, <1>6, <2>3, <2>4, <2>5 DEF TaleInv
<1> QED BY <1>7, <1>8

\* The body is handed over.
LEMMA TaleBegins ==
  ASSUME ProviderInv, TaleInv, Open PROVE TaleInv'
<1>1. acc = Empty /\ pos = 0 /\ acc' = acc /\ pos' = pos /\ UNCHANGED provider /\ pc' \in {"decode", "error"}
  BY DEF Open, TaleInv
<1>2. PICK m, b, A : m = message /\ b = body /\ A = acc
  OBVIOUS
<1>3. DOMAIN A = AccFields /\ A.blocks = NoBlocks /\ A.events = <<>>
  BY <1>1, <1>2 DEF Empty, AccFields
<1>4. Len(b) \in Nat
  BY <1>2, SeqPlaces DEF ProviderInv
<1>5. DOMAIN NoBlocks = {}
  BY DEF NoBlocks
<1>6. \A name : CalledIn(<<>>, name) = {}
  BY DEF CalledIn
<1>7. Told(m, NoBlocks, <<>>)
  <2>1. {<<>>[k].pieces[1] : k \in CalledIn(<<>>, "delta")} = {}
    BY <1>6
  <2>2. UNION {ToSet(NoBlocks[i].pieces) : i \in {j \in DOMAIN NoBlocks : m.blocks[j].kind = "text"}} = {}
    BY <1>5
  <2> QED BY <2>1, <2>2 DEF Told
<1>8. Kept(b, 0, NoBlocks, <<>>)
  BY <1>6 DEF Kept
<1>9. Story(m, b, 0, NoBlocks, <<>>)
  BY <1>5, <1>7, <1>8, EmptyStack DEF Story
<1>10. Tale(m, b, 0, A.blocks, A.events, A.stop, A.usage)
  BY <1>3, <1>6, <1>9 DEF Tale
<1> QED BY <1>1, <1>2, <1>3, <1>4, <1>10 DEF TaleInv, provider

\* The other formats.
LEMMA TaleElsewhere ==
  ASSUME TaleInv, Responses \/ OneTextStreams PROVE TaleInv'
<1>1. ~Framed /\ pc = "decode"
  BY DEF Responses, ResponsesProgress, ResponsesTerminal, ResponsesError, ResponsesEnd,
         OneTextStreams, OpenaiPiece, OpenaiClose, OpenaiDone, OpenaiError, OllamaLine, OllamaDone,
         OneTextEnd, At, AtEnd, Framed
<1>2. DOMAIN acc = AccFields
  BY DEF TaleInv
<1>3. ASSUME NEW a, DOMAIN a = AccFields, Counted(a) PROVE DOMAIN acc' = AccFields /\ UNCHANGED provider
  BY <1>2, <1>3 DEF Counted, Take, Fail
<1>4. DOMAIN acc' = AccFields /\ UNCHANGED provider
  <2>1. CASE Responses
    <3>1. CASE ResponsesProgress
      BY <1>2, <1>3, <3>1 DEF ResponsesProgress
    <3>2. CASE ResponsesTerminal
      <4>1. PICK a : a = [acc EXCEPT !.terminal = FromTerminal(Current)]
        OBVIOUS
      <4>2. DOMAIN a = AccFields
        BY <1>2, <4>1
      <4>3. Fail \/ Counted(a)
        BY <3>2, <4>1 DEF ResponsesTerminal
      <4> QED BY <1>2, <1>3, <4>2, <4>3 DEF Fail
    <3>3. CASE ResponsesError \/ ResponsesEnd
      BY <1>2, <3>3 DEF ResponsesError, ResponsesEnd, Fail, Answer
    <3> QED BY <2>1, <3>1, <3>2, <3>3 DEF Responses
  <2>2. CASE OneTextStreams
    <3>1. CASE OpenaiPiece \/ OllamaLine
      <4>1. PICK a : a = [acc EXCEPT !.text = Said(Current)]
        OBVIOUS
      <4>2. DOMAIN a = AccFields
        BY <1>2, <4>1
      <4>3. Counted(a)
        BY <3>1, <4>1 DEF OpenaiPiece, OllamaLine
      <4> QED BY <1>3, <4>2, <4>3
    <3>2. CASE OpenaiClose \/ OllamaDone
      <4>1. PICK a : a = Summed(Current)
        OBVIOUS
      <4>2. DOMAIN a = AccFields
        BY <1>2, <4>1 DEF Summed
      <4>3. Counted(a)
        BY <3>2, <4>1 DEF OpenaiClose, OllamaDone
      <4> QED BY <1>3, <4>2, <4>3
    <3>3. CASE OpenaiDone \/ OpenaiError \/ OneTextEnd
      BY <1>2, <3>3 DEF OpenaiDone, OpenaiError, OneTextEnd, Take, Fail, Answer
    <3> QED BY <2>2, <3>1, <3>2, <3>3 DEF OneTextStreams
  <2> QED BY <2>1, <2>2
<1>5. pc' # "stream"
  <2>1. ASSUME NEW a, Counted(a) \/ Take(a) PROVE pc' # "stream"
    BY <1>1, <2>1 DEF Counted, Take, Fail
  <2>2. (\E a : Counted(a) \/ Take(a)) \/ Fail \/ \E r : Answer(r)
    <3>1. CASE Responses
      BY <3>1 DEF Responses, ResponsesProgress, ResponsesTerminal, ResponsesError, ResponsesEnd
    <3>2. CASE OneTextStreams
      BY <3>2 DEF OneTextStreams, OpenaiPiece, OpenaiClose, OpenaiDone, OpenaiError, OllamaLine,
                  OllamaDone, OneTextEnd
    <3> QED BY <3>1, <3>2
  <2> QED BY <2>1, <2>2 DEF Fail, Answer
<1> QED BY <1>1, <1>4, <1>5 DEF TaleInv, provider, Framed

\* The invariant is inductive.
LEMMA TaleSteps ==
  ASSUME StreamInv, ProviderInv, TaleInv, [Next]_vars PROVE TaleInv'
<1>1. ASSUME UNCHANGED vars PROVE TaleInv'
  BY <1>1 DEF vars, provider, TaleInv, Framed, Calm, Faulty
<1>2. CASE Provide
  <2>1. phase # "over" /\ UNCHANGED <<pos, acc, pc, result>>
    BY <1>2 DEF Provide, Begin, SendBlock, Close, Stop, BreakOff, Cut
  <2>2. pc = "stream"
    BY <2>1 DEF StreamInv
  <2> QED BY <2>1, <2>2 DEF TaleInv
<1>3. CASE Anthropic
  <2>1. CASE AnthropicError
    <3>1. Current.type = "error" /\ pc = "decode" /\ At("anthropic", {"error"})
      BY <2>1 DEF AnthropicError, At
    <3>2. ~Calm
      BY <3>1, CalmNow
    <3>3. DOMAIN acc' = AccFields /\ UNCHANGED provider /\ pc' = "done"
      BY <2>1 DEF AnthropicError, Answer, TaleInv
    <3> QED BY <3>2, <3>3 DEF TaleInv, provider, Calm, Faulty
  <2> QED BY <1>3, <2>1, TaleOpens, TaleStarts, TaleReads, TaleCollects, TaleCalls, TaleStops,
             TaleFinishes DEF Anthropic
<1> QED BY <1>1, <1>2, <1>3, TaleBegins, TaleElsewhere DEF Next, Decode, Halted

\* What the provider sent stays as it is while the decoder reads.
LEMMA ProviderRuns ==
  ASSUME ProviderInv, [Next]_vars PROVE ProviderInv'
<1>1. CASE Provide
  BY <1>1, ProviderSteps
<1>2. CASE ~Provide
  <2>1. UNCHANGED provider
    <3>1. CASE Open \/ Halted \/ UNCHANGED vars
      BY <3>1 DEF Open, Halted, vars
    <3>2. CASE Anthropic
      BY <3>2 DEF Anthropic, AnthropicOpen, AnthropicBlockStart, AnthropicText, AnthropicJson,
                  AnthropicBlockStop, AnthropicClose, AnthropicStop, AnthropicError, AnthropicEnd,
                  Take, Fail, Answer
    <3>3. CASE Responses
      BY <3>3 DEF Responses, ResponsesProgress, ResponsesTerminal, ResponsesError, ResponsesEnd,
                  Counted, Take, Fail, Answer
    <3>4. CASE OneTextStreams
      BY <3>4 DEF OneTextStreams, OpenaiPiece, OpenaiClose, OpenaiDone, OpenaiError, OllamaLine,
                  OllamaDone, OneTextEnd, Counted, Take, Fail, Answer
    <3> QED BY <1>2, <3>1, <3>2, <3>3, <3>4 DEF Next, Decode
  <2>2. /\ message' = message /\ wire' = wire /\ limit' = limit /\ sent' = sent
        /\ phase' = phase /\ faults' = faults /\ body' = body
    BY <2>1 DEF provider
  <2>3. (Calm <=> Calm') /\ (Lossless <=> Lossless') /\ (AllSent <=> AllSent') /\ TheClose' = TheClose
    BY <2>2 DEF Calm, Lossless, Faulty, AllSent, Whole, Pieces, Framed, TheClose, Closing
  <2>4. \A i : Whole(i)' = Whole(i)
    BY <2>2 DEF Whole, Pieces, Framed
  <2>5. AllProper => AllProper'
    BY <2>2 DEF AllProper, Proper, OfBlock, Pieces, Framed
  <2>6. (StopLast => StopLast') /\ (OneClose => OneClose')
    BY <2>2 DEF StopLast, OneClose
  <2>7. WasSent => WasSent'
    BY <2>2 DEF WasSent, Whole, Pieces, Framed
  <2>8. AllInPlace => AllInPlace'
    BY <2>2 DEF AllInPlace, InPlace, Framed
  <2>9. (CalmBody => CalmBody') /\ (LosslessBody => LosslessBody')
    BY <2>2, <2>5, <2>6, <2>7, <2>8 DEF CalmBody, LosslessBody
  <2> QED BY <2>2, <2>3, <2>4, <2>9 DEF ProviderInv
<1> QED BY <1>1, <1>2

\* No chunk was sent.
LEMMA ProviderStarts == Init => ProviderInv
<1> SUFFICES ASSUME Init PROVE ProviderInv
  OBVIOUS
<1>1. /\ message \in Messages /\ wire \in Wires /\ limit \in ChunkLimits
      /\ sent = [i \in DOMAIN message.blocks |-> 0] /\ body = <<>> /\ faults = <<>> /\ phase = "begin"
  BY DEF Init
<1>2. Len(body) = 0 /\ 1..Len(body) = {} /\ IsSeq(body) /\ IsSeq(faults)
  BY <1>1, EmptyStack
<1>3. \A i \in DOMAIN sent : sent[i] <= Whole(i)
  <2>1. \A i \in DOMAIN message.blocks : Len(message.blocks[i].pieces) \in Nat
    BY <1>1, BlockTypes
  <2>2. ASSUME NEW i \in DOMAIN sent PROVE sent[i] <= Whole(i)
    <3>1. sent[i] = 0 /\ Len(Pieces(i)) \in Nat
      BY <1>1, <2>1, <2>2 DEF Pieces
    <3> QED BY <3>1 DEF Whole
  <2> QED BY <2>2
<1>4. \A i \in DOMAIN sent : Got(body, Len(body), i) = sent[i]
  <2>1. PICK b : b = body
    OBVIOUS
  <2>2. \A i : Got(b, 0, i) = 0
    BY GotLemma
  <2> QED BY <1>1, <1>2, <2>1, <2>2
<1>5. CalmBody /\ LosslessBody
  BY <1>2, <1>4 DEF CalmBody, AllProper, StopLast, OneClose, WasSent, AllInPlace, LosslessBody
<1> QED BY <1>1, <1>2, <1>3, <1>5 DEF ProviderInv

\* The parts of a response are what the blocks hold.
MadeOf(content, blocks) ==
  /\ \A j \in DOMAIN content : \E i \in DOMAIN blocks : content[j] = BlockPart(blocks[i])
  /\ \A i \in DOMAIN blocks : \E j \in DOMAIN content : content[j] = BlockPart(blocks[i])
\* A reply is made of its blocks.
LEMMA ReplyParts ==
  ASSUME NEW blocks, NEW N \in Nat, DOMAIN blocks \subseteq 1..N, NEW stop, NEW usage
  PROVE  MadeOf(Reply(blocks, stop, usage).content, blocks)
<1>0. PICK content : content = Reply(blocks, stop, usage).content
  OBVIOUS
<1>1. PICK order, S : order = Ascending(S) /\ S = DOMAIN blocks
  OBVIOUS
<1>2. content = [j \in 1..Len(order) |-> BlockPart(blocks[order[j]])]
  BY <1>0, <1>1 DEF Reply, Response
<1>3. IsFiniteSet(S) /\ S \subseteq Nat
  <2>1. IsFiniteSet(1..N) /\ S \subseteq 1..N
    BY <1>1, FS_Interval
  <2>2. IsFiniteSet(S)
    BY <2>1, FS_Subset
  <2> QED BY <2>1, <2>2
<1>4. ToSet(order) = S /\ DOMAIN order = 1..Len(order)
  <2>1. Ascending(S) \in Seq(S) /\ \A i \in S : \E j \in 1..Len(Ascending(S)) : Ascending(S)[j] = i
    BY <1>3, AscendingHolds
  <2>2. order \in Seq(S) /\ \A i \in S : \E j \in 1..Len(order) : order[j] = i
    BY <1>1, <2>1
  <2>3. DOMAIN order = 1..Len(order) /\ \A j \in 1..Len(order) : order[j] \in S
    BY <2>2
  <2> QED BY <2>2, <2>3 DEF ToSet
<1>5. ASSUME NEW j \in 1..Len(order) PROVE order[j] \in DOMAIN blocks
  BY <1>1, <1>4 DEF ToSet
<1>6. ASSUME NEW i \in DOMAIN blocks PROVE \E j \in 1..Len(order) : order[j] = i
  BY <1>1, <1>4 DEF ToSet
<1>7. DOMAIN content = 1..Len(order) /\ \A j \in 1..Len(order) : content[j] = BlockPart(blocks[order[j]])
  BY <1>2
<1>8. ASSUME NEW i \in DOMAIN blocks PROVE \E j \in DOMAIN content : content[j] = BlockPart(blocks[i])
  <2>1. PICK j \in 1..Len(order) : order[j] = i
    BY <1>6
  <2> QED BY <1>7, <2>1
<1>9. ASSUME NEW j \in DOMAIN content PROVE \E i \in DOMAIN blocks : content[j] = BlockPart(blocks[i])
  BY <1>5, <1>7
<1> QED BY <1>0, <1>8, <1>9 DEF MadeOf

\* What EventsMatchResult says of a message, its events and a response.
SaidAs(m, kind) ==
  UNION {ToSet(m.blocks[i].pieces) : i \in {j \in DOMAIN m.blocks : m.blocks[j].kind = kind}}
Answered(content) ==
  UNION {ToSet(content[j].pieces) : j \in {k \in DOMAIN content : content[k].kind = "text"}}
Announced(events) == {events[k].pieces[1] : k \in CalledIn(events, "delta")}
Agree(m, events, response) ==
  /\ CalledIn(events, "final") = {Len(events)} /\ events[Len(events)].response = response
  /\ Answered(response[1].content) \ SaidAs(m, "thinking") \subseteq Announced(events)
  /\ Announced(events) \subseteq Answered(response[1].content) \cap SaidAs(m, "text")
  /\ \A k \in CalledIn(events, "tool-call") :
       \E j \in DOMAIN response[1].content :
         response[1].content[j] = Part("tool", events[k].id, events[k].pieces)

\* The events agree with the response.
LEMMA TaleTold ==
  ASSUME ProviderInv, TaleInv PROVE EventsMatchResult
<1> SUFFICES ASSUME wire = "anthropic", pc = "done", Calm PROVE Agree(message, acc.events, result)
  BY DEF EventsMatchResult, Agree, SaidAs, Answered, Announced, Called, CalledIn, Calm
<1>1. PICK m, blocks, events, stop, usage :
        m = message /\ blocks = acc.blocks /\ events = acc.events /\ stop = acc.stop /\ usage = acc.usage
  OBVIOUS
<1>2. /\ Tale(m, body, pos, blocks, events, stop, usage)
      /\ CalledIn(events, "final") = {Len(events)} /\ result = events[Len(events)].response
  BY <1>1 DEF TaleInv, Framed
<1>3. result = <<Reply(blocks, stop, usage)>> /\ Story(m, body, pos, blocks, events)
  BY <1>2 DEF Tale
<1>4. PICK content : content = Reply(blocks, stop, usage).content
  OBVIOUS
<1>5. content = result[1].content
  BY <1>3, <1>4
<1>6. m \in Messages /\ Len(m.blocks) \in Nat /\ DOMAIN m.blocks = 1..Len(m.blocks)
  BY <1>1, BlockTypes DEF ProviderInv
<1>7. \A i \in DOMAIN blocks : BlockFits(m, body, pos, i, blocks[i])
  BY <1>3 DEF Story
<1>8. DOMAIN blocks \subseteq 1..Len(m.blocks)
  BY <1>6, <1>7 DEF BlockFits
<1>9. /\ \A j \in DOMAIN content : \E i \in DOMAIN blocks : content[j] = BlockPart(blocks[i])
      /\ \A i \in DOMAIN blocks : \E j \in DOMAIN content : content[j] = BlockPart(blocks[i])
  <2>1. MadeOf(Reply(blocks, stop, usage).content, blocks)
    BY <1>6, <1>8, ReplyParts
  <2> QED BY <1>4, <2>1 DEF MadeOf
<1>10. \A b : BlockPart(b).kind = b.kind /\ BlockPart(b).id = b.id /\ BlockPart(b).pieces = b.pieces
  BY DEF BlockPart, Part
<1> DEFINE texts == {j \in DOMAIN blocks : m.blocks[j].kind = "text"}
<1>11. Announced(events) = UNION {ToSet(blocks[i].pieces) : i \in texts}
  BY <1>3 DEF Story, Told, Announced
<1>12. \A i \in texts : blocks[i].kind = "text"
  BY <1>7 DEF BlockFits
<1>13. ASSUME NEW p \in Answered(content), p \notin SaidAs(m, "thinking") PROVE p \in Announced(events)
  <2>1. PICK j \in DOMAIN content : content[j].kind = "text" /\ p \in ToSet(content[j].pieces)
    BY <1>13 DEF Answered
  <2>2. PICK i \in DOMAIN blocks : blocks[i].kind = "text" /\ p \in ToSet(blocks[i].pieces)
    BY <1>9, <1>10, <2>1
  <2>3. /\ i \in DOMAIN m.blocks /\ p \in ToSet(m.blocks[i].pieces) /\ m.blocks[i].kind # "tool"
    BY <1>7, <2>2 DEF BlockFits
  <2>4. m.blocks[i].kind \in {"text", "thinking", "tool"}
    BY <1>6, <2>3, BlockTypes
  <2>5. m.blocks[i].kind = "text"
    BY <1>13, <2>3, <2>4 DEF SaidAs
  <2> QED BY <1>11, <2>2, <2>5
<1>14. ASSUME NEW p \in Announced(events) PROVE p \in Answered(content) /\ p \in SaidAs(m, "text")
  <2>1. PICK i \in texts : p \in ToSet(blocks[i].pieces)
    BY <1>11, <1>14
  <2>2. blocks[i].kind = "text" /\ i \in DOMAIN m.blocks /\ p \in ToSet(m.blocks[i].pieces)
    BY <1>7, <1>12, <2>1 DEF BlockFits
  <2>3. PICK j \in DOMAIN content : content[j] = BlockPart(blocks[i])
    BY <1>9, <2>1
  <2>4. content[j].kind = "text" /\ p \in ToSet(content[j].pieces)
    BY <1>10, <2>1, <2>2, <2>3
  <2> QED BY <2>1, <2>2, <2>4 DEF Answered, SaidAs
<1>15. ASSUME NEW k \in CalledIn(events, "tool-call")
       PROVE  \E j \in DOMAIN content : content[j] = Part("tool", events[k].id, events[k].pieces)
  <2>1. PICK i \in DOMAIN blocks :
          blocks[i].kind = "tool" /\ blocks[i].id = events[k].id /\ blocks[i].pieces = events[k].pieces
    BY <1>3, <1>15 DEF Story, Kept
  <2>2. PICK j \in DOMAIN content : content[j] = BlockPart(blocks[i])
    BY <1>9
  <2> QED BY <2>1, <2>2 DEF BlockPart
<1>16. Agree(m, events, result)
  BY <1>2, <1>5, <1>13, <1>14, <1>15 DEF Agree
<1> QED BY <1>1, <1>16

\* The events of an Anthropic stream tell what its response says.
THEOREM EventsTheorem == Spec => []EventsMatchResult
<1> DEFINE Inv == StreamInv /\ ProviderInv /\ TaleInv
<1>1. Init => Inv
  <2> SUFFICES ASSUME Init PROVE Inv
    OBVIOUS
  <2>1. StreamInv
    BY DEF Init, StreamInv, FailureReported, IsError
  <2>2. ProviderInv
    BY ProviderStarts
  <2>3. TaleInv
    BY DEF Init, TaleInv, Empty, AccFields
  <2> QED BY <2>1, <2>2, <2>3
<1>2. Inv /\ [Next]_vars => Inv'
  BY StreamSteps, ProviderRuns, TaleSteps
<1>3. Inv => EventsMatchResult
  BY TaleTold
<1> HIDE DEF Inv
<1> QED BY <1>1, <1>2, <1>3, PTL DEF Spec

-----------------------------------------------------------------------------
(* What the decoders make of a body that is no more than cut. *)

\* The first k pieces of a sequence.
First(P, k) == SubSeq(P, 1, k)

\* They are a beginning of it.
LEMMA FirstLemma ==
  ASSUME NEW T, NEW P \in Seq(T), NEW k \in 0..Len(P)
  PROVE  /\ First(P, k) \in Seq(T) /\ IsSeq(First(P, k))
         /\ Len(First(P, k)) = k /\ \A l \in 1..k : First(P, k)[l] = P[l]
         /\ IsPrefix(First(P, k), P)
<1>1. Len(P) \in Nat /\ \A l \in 1..Len(P) : P[l] \in T
  BY LenProperties, ElementOfSeq
<1>2. k \in Nat /\ k <= Len(P)
  BY <1>1
<1>3. PICK F : F = SubSeq(P, 1, k)
  OBVIOUS
<1>4. \A l \in 1..k : P[l] \in T
  BY <1>1, <1>2
<1>5. /\ F \in Seq(T) /\ Len(F) = (IF 1 <= k THEN k - 1 + 1 ELSE 0)
      /\ \A l \in 1..(k - 1 + 1) : F[l] = P[1 + l - 1]
  <2>1. 1 \in Int /\ k \in Int
    BY <1>2
  <2> QED BY <1>3, <1>4, <2>1, SubSeqProperties
<1>6. Len(F) = k
  BY <1>2, <1>5
<1>7. \A l \in 1..k : F[l] = P[l]
  <2>1. ASSUME NEW l \in 1..k PROVE F[l] = P[l]
    <3>1. l \in 1..(k - 1 + 1) /\ 1 + l - 1 = l
      BY <1>2
    <3> QED BY <1>5, <3>1
  <2> QED BY <2>1
<1>8. IsSeq(F)
  BY <1>5, SeqIsSeq
<1>9. SubSeq(F, 1, Len(F)) = F
  BY <1>5, SubSeqFull
<1>10. Len(F) <= Len(P) /\ SubSeq(F, 1, Len(F)) = SubSeq(P, 1, Len(F))
  BY <1>2, <1>3, <1>6, <1>9
<1> QED BY <1>3, <1>5, <1>6, <1>7, <1>8, <1>10 DEF First, IsPrefix

\* None of them, all of them, and one more.
LEMMA FirstMore ==
  ASSUME NEW T, NEW P \in Seq(T)
  PROVE  /\ First(P, 0) = <<>> /\ First(P, Len(P)) = P
         /\ \A k \in 1..Len(P) : First(P, k) = First(P, k - 1) \o <<P[k]>>
<1>1. Len(P) \in Nat
  BY LenProperties
<1>2. First(P, 0) = <<>>
  BY SubSeqEmpty DEF First
<1>3. First(P, Len(P)) = P
  BY SubSeqFull DEF First
<1>4. ASSUME NEW k \in 1..Len(P) PROVE First(P, k) = First(P, k - 1) \o <<P[k]>>
  <2>1. 1 \in 1..Len(P) /\ k \in 1..Len(P)
    BY <1>1
  <2>2. SubSeq(P, 1, k) = SubSeq(P, 1, k - 1) \o <<P[k]>>
    BY <2>1, SubSeqRecursiveSecond
  <2> QED BY <2>2 DEF First
<1> QED BY <1>2, <1>3, <1>4

\* The count never shrinks, and is never more than there is.
LEMMA GotGrows ==
  ASSUME NEW b, NEW i, NEW k \in Nat, NEW l \in Nat, k <= l
  PROVE  Got(b, k, i) <= Got(b, l, i)
<1>1. PICK A, B : A = {j \in 1..k : b[j].at = i} /\ B = {j \in 1..l : b[j].at = i}
  OBVIOUS
<1>2. A \subseteq B /\ IsFiniteSet(B)
  <2>1. IsFiniteSet(1..l) /\ B \subseteq 1..l
    BY <1>1, FS_Interval
  <2>2. A \subseteq B
    BY <1>1
  <2>3. IsFiniteSet(B)
    BY <2>1, FS_Subset
  <2> QED BY <2>2, <2>3
<1>3. Cardinality(A) <= Cardinality(B)
  BY <1>2, FS_Subset
<1> QED BY <1>1, <1>3 DEF Got

\* A block of which n > 0 chunks are read: its start, its pieces, its stop.
BlockAfter(m, i, n) ==
  LET P == m.blocks[i].pieces
      full == n = Len(P) + 2
  IN  IF m.blocks[i].kind = "tool"
      THEN [kind |-> "tool", id |-> i, pieces |-> IF full THEN P ELSE <<>>,
            partial |-> IF full THEN <<>> ELSE First(P, n - 1)]
      ELSE TextBlock(IF full THEN P ELSE First(P, n - 1))

\* A block after its start,
LEMMA AfterStart ==
  ASSUME NEW m \in Messages, NEW i \in DOMAIN m.blocks
  PROVE  BlockAfter(m, i, 1) = IF m.blocks[i].kind = "tool" THEN ToolBlock(i) ELSE TextBlock(<<>>)
<1>1. PICK P : P = m.blocks[i].pieces
  OBVIOUS
<1>2. IsSeq(P) /\ Len(P) \in Nat
  BY <1>1, BlockTypes
<1>3. First(P, 0) = <<>> /\ 1 # Len(P) + 2 /\ 1 - 1 = 0
  BY <1>2, FirstMore DEF IsSeq
<1> QED BY <1>1, <1>3 DEF BlockAfter, ToolBlock

\* after one piece more,
LEMMA AfterPiece ==
  ASSUME NEW m \in Messages, NEW i \in DOMAIN m.blocks, NEW n \in 1..Len(m.blocks[i].pieces)
  PROVE  LET p == <<m.blocks[i].pieces[n]>>
             b == BlockAfter(m, i, n)
         IN  BlockAfter(m, i, n + 1) =
               IF m.blocks[i].kind = "tool" THEN [b EXCEPT !.partial = @ \o p]
               ELSE TextBlock(b.pieces \o p)
<1>1. PICK P, b : P = m.blocks[i].pieces /\ b = BlockAfter(m, i, n)
  OBVIOUS
<1>2. IsSeq(P) /\ Len(P) \in Nat
  BY <1>1, BlockTypes
<1>3. /\ n \in 1..Len(P) /\ n # Len(P) + 2 /\ n + 1 # Len(P) + 2 /\ (n + 1) - 1 = n
  BY <1>1, <1>2
<1>4. First(P, n) = First(P, n - 1) \o <<P[n]>>
  BY <1>2, <1>3, FirstMore DEF IsSeq
<1>5. CASE m.blocks[i].kind = "tool"
  <2>1. b = [kind |-> "tool", id |-> i, pieces |-> <<>>, partial |-> First(P, n - 1)]
    BY <1>1, <1>3, <1>5 DEF BlockAfter
  <2>2. BlockAfter(m, i, n + 1) = [kind |-> "tool", id |-> i, pieces |-> <<>>, partial |-> First(P, n)]
    BY <1>1, <1>3, <1>5 DEF BlockAfter
  <2>3. [b EXCEPT !.partial = @ \o <<P[n]>>] =
          [kind |-> "tool", id |-> i, pieces |-> <<>>, partial |-> First(P, n - 1) \o <<P[n]>>]
    <3>1. PICK f, r, e, t : f = First(P, n - 1) /\ r = f \o <<P[n]>> /\ e = <<>> /\ t = "tool"
      OBVIOUS
    <3>2. b = [kind |-> t, id |-> i, pieces |-> e, partial |-> f]
      BY <2>1, <3>1
    <3>3. [b EXCEPT !.partial = r] = [kind |-> t, id |-> i, pieces |-> e, partial |-> r] /\ b.partial = f
      BY <3>2
    <3> QED BY <3>1, <3>3, Zenon
  <2> QED BY <1>1, <1>4, <1>5, <2>2, <2>3
<1>6. CASE m.blocks[i].kind # "tool"
  <2>1. b.pieces = First(P, n - 1)
    BY <1>1, <1>3, <1>6 DEF BlockAfter, TextBlock
  <2>2. BlockAfter(m, i, n + 1) = TextBlock(First(P, n))
    BY <1>1, <1>3, <1>6 DEF BlockAfter
  <2> QED BY <1>1, <1>4, <1>6, <2>1, <2>2
<1> QED BY <1>5, <1>6

\* and after its stop.
LEMMA AfterStop ==
  ASSUME NEW m \in Messages, NEW i \in DOMAIN m.blocks
  PROVE  LET n == Len(m.blocks[i].pieces) + 1
             b == BlockAfter(m, i, n)
             input == IF b.partial = <<>> THEN b.pieces ELSE b.partial
         IN  BlockAfter(m, i, n + 1) =
               IF m.blocks[i].kind = "tool" THEN [b EXCEPT !.pieces = input, !.partial = <<>>] ELSE b
<1>1. PICK P, n, b : P = m.blocks[i].pieces /\ n = Len(P) + 1 /\ b = BlockAfter(m, i, n)
  OBVIOUS
<1>2. IsSeq(P) /\ Len(P) \in Nat
  BY <1>1, BlockTypes
<1>3. n # Len(P) + 2 /\ n + 1 = Len(P) + 2 /\ n - 1 = Len(P)
  BY <1>1, <1>2
<1>4. First(P, n - 1) = P
  BY <1>2, <1>3, FirstMore DEF IsSeq
<1>5. CASE m.blocks[i].kind = "tool"
  <2>1. b = [kind |-> "tool", id |-> i, pieces |-> <<>>, partial |-> P]
    BY <1>1, <1>3, <1>4, <1>5 DEF BlockAfter
  <2>2. BlockAfter(m, i, n + 1) = [kind |-> "tool", id |-> i, pieces |-> P, partial |-> <<>>]
    BY <1>1, <1>3, <1>5 DEF BlockAfter
  <2>3. PICK input : input = IF b.partial = <<>> THEN b.pieces ELSE b.partial
    OBVIOUS
  <2>4. input = P
    BY <2>1, <2>3
  <2>5. [b EXCEPT !.pieces = input, !.partial = <<>>] =
          [kind |-> "tool", id |-> i, pieces |-> P, partial |-> <<>>]
    <3>1. PICK e, t : e = <<>> /\ t = "tool"
      OBVIOUS
    <3>2. b = [kind |-> t, id |-> i, pieces |-> e, partial |-> P]
      BY <2>1, <3>1
    <3>3. [b EXCEPT !.pieces = P, !.partial = e] = [kind |-> t, id |-> i, pieces |-> P, partial |-> e]
      <4>1. [b EXCEPT !.pieces = P] = [kind |-> t, id |-> i, pieces |-> P, partial |-> P]
        BY <3>2
      <4>2. [[kind |-> t, id |-> i, pieces |-> P, partial |-> P] EXCEPT !.partial = e]
              = [kind |-> t, id |-> i, pieces |-> P, partial |-> e]
        OBVIOUS
      <4> QED BY <4>1, <4>2, Zenon
    <3> QED BY <2>4, <3>1, <3>3, Zenon
  <2> QED BY <1>1, <1>5, <2>2, <2>3, <2>5
<1>6. CASE m.blocks[i].kind # "tool"
  BY <1>1, <1>3, <1>4, <1>6 DEF BlockAfter
<1> QED BY <1>5, <1>6

\* The blocks that k chunks of b make, block by block.
Folded(m, b, k, blocks) ==
  /\ DOMAIN blocks = {i \in DOMAIN m.blocks : Got(b, k, i) # 0}
  /\ \A i \in DOMAIN blocks : blocks[i] = BlockAfter(m, i, Got(b, k, i))

\* The next chunk may be of no block,
LEMMA FoldedSame ==
  ASSUME NEW m, NEW b, NEW k \in Nat, NEW blocks, Folded(m, b, k, blocks), b[k + 1].at \notin DOMAIN m.blocks
  PROVE  Folded(m, b, k + 1, blocks)
<1>1. ASSUME NEW i \in DOMAIN m.blocks PROVE Got(b, k + 1, i) = Got(b, k, i)
  <2>1. Got(b, k, i) \in Nat /\ Got(b, k + 1, i) = Got(b, k, i) + (IF b[k + 1].at = i THEN 1 ELSE 0)
    BY GotLemma
  <2> QED BY <1>1, <2>1
<1> QED BY <1>1 DEF Folded

\* change nothing in its block,
LEMMA FoldedStays ==
  ASSUME NEW m, NEW b, NEW k \in Nat, NEW blocks, Folded(m, b, k, blocks),
         NEW i \in DOMAIN blocks, b[k + 1].at = i,
         BlockAfter(m, i, Got(b, k, i) + 1) = BlockAfter(m, i, Got(b, k, i))
  PROVE  Folded(m, b, k + 1, blocks)
<1>1. ASSUME NEW j \in DOMAIN m.blocks, j # i PROVE Got(b, k + 1, j) = Got(b, k, j)
  <2>1. Got(b, k, j) \in Nat /\ Got(b, k + 1, j) = Got(b, k, j) + (IF b[k + 1].at = j THEN 1 ELSE 0)
    BY GotLemma
  <2> QED BY <1>1, <2>1
<1>2. Got(b, k, i) \in Nat /\ Got(b, k + 1, i) = Got(b, k, i) + 1
  BY GotLemma
<1>3. Got(b, k + 1, i) # 0
  BY <1>2
<1>4. i \in DOMAIN m.blocks /\ Got(b, k, i) # 0
  BY DEF Folded
<1>5. DOMAIN blocks = {j \in DOMAIN m.blocks : Got(b, k + 1, j) # 0}
  BY <1>1, <1>3, <1>4 DEF Folded
<1>6. ASSUME NEW j \in DOMAIN blocks PROVE blocks[j] = BlockAfter(m, j, Got(b, k + 1, j))
  <2>1. CASE j = i
    BY <1>2, <2>1, Zenon DEF Folded
  <2>2. CASE j # i
    BY <1>1, <2>2 DEF Folded
  <2> QED BY <2>1, <2>2
<1> QED BY <1>5, <1>6 DEF Folded

\* or change its block.
LEMMA FoldedPut ==
  ASSUME NEW m, NEW b, NEW k \in Nat, NEW blocks, Folded(m, b, k, blocks),
         NEW i \in DOMAIN m.blocks, b[k + 1].at = i,
         NEW x, x = BlockAfter(m, i, Got(b, k, i) + 1)
  PROVE  Folded(m, b, k + 1, Put(blocks, i, x))
<1>1. ASSUME NEW j \in DOMAIN m.blocks, j # i PROVE Got(b, k + 1, j) = Got(b, k, j)
  <2>1. Got(b, k, j) \in Nat /\ Got(b, k + 1, j) = Got(b, k, j) + (IF b[k + 1].at = j THEN 1 ELSE 0)
    BY GotLemma
  <2> QED BY <1>1, <2>1
<1>2. Got(b, k, i) \in Nat /\ Got(b, k + 1, i) = Got(b, k, i) + 1
  BY GotLemma
<1>3. Got(b, k + 1, i) # 0
  BY <1>2
<1>4. PICK more : more = Put(blocks, i, x)
  OBVIOUS
<1>5. DOMAIN more = DOMAIN blocks \cup {i} /\ more[i] = x /\ \A j \in DOMAIN blocks : j # i => more[j] = blocks[j]
  BY <1>4 DEF Put
<1>6. DOMAIN more = {j \in DOMAIN m.blocks : Got(b, k + 1, j) # 0}
  BY <1>1, <1>3, <1>5 DEF Folded
<1>7. ASSUME NEW j \in DOMAIN more PROVE more[j] = BlockAfter(m, j, Got(b, k + 1, j))
  <2>1. CASE j = i
    BY <1>2, <1>5, <2>1, Zenon
  <2>2. CASE j # i
    <3>1. j \in DOMAIN blocks /\ j \in DOMAIN m.blocks
      BY <1>5, <2>2 DEF Folded
    <3> QED BY <1>1, <1>5, <2>2, <3>1 DEF Folded
  <2> QED BY <2>1, <2>2
<1> QED BY <1>4, <1>6, <1>7 DEF Folded

\* Stop reason and usage come with the close.
Closed(b, k) == \E l \in 1..k : b[l].type = "close"
StopOf(m, w) == IF w = "anthropic" THEN Dashed(m.stop) ELSE m.stop
Summing(m, w, b, k, stop, usage) ==
  /\ Closed(b, k) => stop = StopOf(m, w) /\ usage = m.usage
  /\ ~Closed(b, k) => stop = "stop" /\ usage = 0

\* Whether the close is there, chunk by chunk.
LEMMA ClosedLemma ==
  ASSUME NEW b, NEW k \in Nat
  PROVE  /\ ~Closed(b, 0)
         /\ Closed(b, k + 1) <=> Closed(b, k) \/ b[k + 1].type = "close"
<1>1. \A l : l \in 1..(k + 1) <=> l \in 1..k \/ l = k + 1
  OBVIOUS
<1>2. 1..0 = {}
  OBVIOUS
<1> QED BY <1>1, <1>2 DEF Closed

\* Only the close brings stop reason and usage.
LEMMA SummingSteps ==
  ASSUME NEW m, NEW w, NEW b, NEW k \in Nat, NEW stop, NEW usage, Summing(m, w, b, k, stop, usage)
  PROVE  /\ b[k + 1].type # "close" => Summing(m, w, b, k + 1, stop, usage)
         /\ b[k + 1].type = "close" => Summing(m, w, b, k + 1, StopOf(m, w), m.usage)
BY ClosedLemma DEF Summing

\* The chunks that count among the first k.
Charged(b, w, k) == Cardinality({l \in 1..k : ~(w = "openai" /\ b[l].type = "stop")})

\* The count of chunks, chunk by chunk.
LEMMA ChargedLemma ==
  ASSUME NEW b, NEW w, NEW k \in Nat
  PROVE  /\ Charged(b, w, 0) = 0
         /\ Charged(b, w, k) \in Nat
         /\ Charged(b, w, k + 1) = Charged(b, w, k) + (IF w = "openai" /\ b[k + 1].type = "stop" THEN 0 ELSE 1)
         /\ \A l \in 1..k : (w = "openai" /\ b[l].type = "stop") \/ Charged(b, w, k) > 0
<1> DEFINE G(n) == {l \in 1..n : ~(w = "openai" /\ b[l].type = "stop")}
<1>1. \A n \in Nat : IsFiniteSet(G(n)) /\ Cardinality(G(n)) \in Nat
  <2> SUFFICES ASSUME NEW n \in Nat PROVE IsFiniteSet(G(n)) /\ Cardinality(G(n)) \in Nat
    OBVIOUS
  <2>1. G(n) \subseteq 1..n
    OBVIOUS
  <2> HIDE DEF G
  <2>2. IsFiniteSet(1..n)
    BY FS_Interval
  <2> QED BY <2>1, <2>2, FS_Subset, FS_CardinalityType
<1>2. G(0) = {}
  OBVIOUS
<1>3. k + 1 \notin G(k) /\ G(k + 1) = IF w = "openai" /\ b[k + 1].type = "stop" THEN G(k) ELSE G(k) \cup {k + 1}
  <2>1. k + 1 \notin G(k)
    OBVIOUS
  <2>2. \A l : l \in 1..(k + 1) <=> l \in 1..k \/ l = k + 1
    OBVIOUS
  <2>3. \A l : l \in G(k + 1) <=> l \in G(k) \/ (l = k + 1 /\ ~(w = "openai" /\ b[k + 1].type = "stop"))
    BY <2>2
  <2> HIDE DEF G
  <2> QED BY <2>1, <2>3
<1>4. \A l \in 1..k : (w = "openai" /\ b[l].type = "stop") \/ G(k) # {}
  OBVIOUS
<1>5. Charged(b, w, 0) = Cardinality(G(0)) /\ Charged(b, w, k) = Cardinality(G(k))
      /\ Charged(b, w, k + 1) = Cardinality(G(k + 1))
  BY DEF Charged
<1> HIDE DEF G
<1>6. Cardinality(G(k) \cup {k + 1}) = Cardinality(G(k)) + 1
  BY <1>1, <1>3, FS_AddElement
<1>7. Cardinality(G(k)) = 0 <=> G(k) = {}
  BY <1>1, FS_EmptySet
<1>8. Cardinality(G(0)) = 0
  BY <1>2, FS_EmptySet
<1>9. Cardinality(G(k)) \in Nat
  BY <1>1
<1> QED BY <1>3, <1>4, <1>5, <1>6, <1>7, <1>8, <1>9

\* It grows.
LEMMA ChargedGrows ==
  ASSUME NEW b, NEW w, NEW k \in Nat, NEW l \in Nat, k <= l
  PROVE  Charged(b, w, k) <= Charged(b, w, l)
<1>1. PICK A, B : /\ A = {j \in 1..k : ~(w = "openai" /\ b[j].type = "stop")}
                  /\ B = {j \in 1..l : ~(w = "openai" /\ b[j].type = "stop")}
  OBVIOUS
<1>2. A \subseteq B /\ IsFiniteSet(B)
  <2>1. IsFiniteSet(1..l) /\ B \subseteq 1..l
    BY <1>1, FS_Interval
  <2>2. A \subseteq B
    BY <1>1
  <2>3. IsFiniteSet(B)
    BY <2>1, FS_Subset
  <2> QED BY <2>2, <2>3
<1>3. Cardinality(A) <= Cardinality(B)
  BY <1>2, FS_Subset
<1> QED BY <1>1, <1>3 DEF Charged

\* The chunk a decoder is at when the body is no more than cut: what block i
\* has next, or a chunk of no block.
NextOfBlock(m, w, i, n, c) ==
  LET P == m.blocks[i].pieces
  IN  /\ i \in DOMAIN m.blocks /\ c.kind = m.blocks[i].kind /\ n \in Nat
      /\ \/ w = "anthropic" /\ n = 0 /\ c.type = "block_start"
         \/ w = "anthropic" /\ n = Len(P) + 1 /\ c.type = "block_stop"
         \/ w = "anthropic" /\ n \in 1..Len(P) /\ c.type = "piece" /\ c.pieces = <<P[n]>>
         \/ w # "anthropic" /\ n < Len(P) /\ c.type = "piece" /\ c.pieces = <<P[n + 1]>>

\* A stream that was only cut is one that was cut or lost a chunk.
LEMMA LosslessIsCalm == Lossless => Calm
BY DEF Lossless, Calm

\* The next chunk of a stream that was only cut is of no block or the one its block expects.
LEMMA LosslessChunk ==
  ASSUME ProviderInv, Lossless, pos \in Nat, pos < Len(body)
  PROVE  /\ Len(body) \in Nat /\ message \in Messages
         /\ \/ /\ Current.at \notin DOMAIN message.blocks
               /\ Current.type \in {"open", "stop", "close"}
            \/ NextOfBlock(message, wire, Current.at, Got(body, pos, Current.at), Current)
         /\ Current.type = "close" => Current = TheClose
<1>1. /\ Len(body) \in Nat /\ pos + 1 \in 1..Len(body) /\ message \in Messages
      /\ CalmBody /\ LosslessBody
      /\ \A k \in 1..Len(body) : body[k].type = "close" => body[k] = TheClose
      /\ \A i \in DOMAIN sent : sent[i] <= Whole(i) /\ sent[i] \in Nat
      /\ DOMAIN sent = DOMAIN message.blocks
  <2>1. IsSeq(body) /\ message \in Messages /\ CalmBody /\ LosslessBody
    BY LosslessIsCalm DEF ProviderInv
  <2>2. Len(body) \in Nat
    BY <2>1, SeqPlaces
  <2> QED BY <2>1, <2>2 DEF ProviderInv
<1>2. PICK c, i, n, m : c = Current /\ i = c.at /\ n = Got(body, pos, i) /\ m = message
  OBVIOUS
<1>3. Proper(c) /\ (c.type = "close" => c = TheClose)
  BY <1>1, <1>2 DEF CalmBody, AllProper, Current
<1>4. CASE i = 0
  <2>1. c.type \in {"open", "stop", "close"}
    BY <1>2, <1>3, <1>4 DEF Proper
  <2>2. i \notin DOMAIN message.blocks
    BY <1>1, <1>4, BlockTypes
  <2> QED BY <1>1, <1>2, <1>3, <2>1, <2>2
<1>5. CASE i # 0
  <2>1. OfBlock(c) /\ i \in DOMAIN m.blocks /\ c.kind = m.blocks[i].kind
    BY <1>2, <1>3, <1>5 DEF Proper, OfBlock
  <2>2. c = ChunkOf(m, wire, i, n)
    <3>1. body[pos + 1].at = i /\ body[pos + 1] = c /\ (pos + 1) - 1 = pos
      BY <1>1, <1>2 DEF Current
    <3> QED BY <1>1, <1>2, <1>5, <3>1 DEF LosslessBody
  <2>3. n \in Nat /\ n < Whole(i)
    <3>1. PICK b, k : b = body /\ k = pos
      OBVIOUS
    <3>a. k \in Nat
      BY <3>1
    <3>b. b[k + 1].at = i
      BY <1>2, <3>1 DEF Current
    <3>2. Got(b, k, i) \in Nat /\ Got(b, k + 1, i) = Got(b, k, i) + 1
      BY <3>a, <3>b, GotNext
    <3>3. Got(b, pos + 1, i) = n + 1 /\ n \in Nat
      BY <1>2, <3>1, <3>2
    <3>4. Got(b, pos + 1, i) <= Got(b, Len(body), i)
      BY <1>1, GotGrows
    <3>5. Got(b, Len(body), i) = sent[i] /\ sent[i] <= Whole(i) /\ sent[i] \in Nat
      BY <1>1, <1>2, <2>1, <3>1 DEF LosslessBody
    <3>6. Whole(i) \in Nat
      <4>1. Len(Pieces(i)) \in Nat
        BY <1>1, <1>2, <2>1, BlockTypes DEF Pieces
      <4> QED BY <4>1 DEF Whole
    <3>7. PICK z : z = Got(b, Len(body), i)
      OBVIOUS
    <3> QED BY <3>3, <3>4, <3>5, <3>6, <3>7
  <2>4. PICK P : P = m.blocks[i].pieces
    OBVIOUS
  <2>5. Len(P) \in Nat
    BY <1>1, <1>2, <2>1, <2>4, BlockTypes
  <2>6. n < (IF wire = "anthropic" THEN Len(P) + 2 ELSE Len(P))
    <3>1. Whole(i) = Len(P) + (IF wire = "anthropic" THEN 2 ELSE 0)
      BY <1>2, <2>4 DEF Whole, Framed, Pieces
    <3> QED BY <2>3, <2>5, <3>1
  <2>7. NextOfBlock(m, wire, i, n, c)
    <3>1. CASE wire = "anthropic" /\ n = 0
      <4>1. c.type = "block_start"
        BY <2>2, <2>4, <3>1 DEF ChunkOf, Blank
      <4> QED BY <2>1, <2>3, <3>1, <4>1 DEF NextOfBlock
    <3>2. CASE wire = "anthropic" /\ n # 0 /\ n = Len(P) + 1
      <4>1. c.type = "block_stop"
        BY <2>2, <2>4, <3>2 DEF ChunkOf, Blank
      <4> QED BY <2>1, <2>3, <2>4, <3>2, <4>1 DEF NextOfBlock
    <3>3. CASE wire = "anthropic" /\ n # 0 /\ n # Len(P) + 1
      <4>1. c.type = "piece" /\ c.pieces = <<P[n]>>
        BY <2>2, <2>4, <3>3 DEF ChunkOf, Blank
      <4>2. n \in 1..Len(P)
        BY <2>3, <2>5, <2>6, <3>3
      <4> QED BY <2>1, <2>3, <2>4, <3>3, <4>1, <4>2 DEF NextOfBlock
    <3>4. CASE wire # "anthropic"
      <4>1. c.type = "piece" /\ c.pieces = <<P[n + 1]>>
        BY <2>2, <2>4, <3>4 DEF ChunkOf, Blank
      <4> QED BY <2>1, <2>3, <2>4, <2>6, <3>4, <4>1 DEF NextOfBlock
    <3> QED BY <3>1, <3>2, <3>3, <3>4
  <2> QED BY <1>1, <1>2, <1>3, <2>7
<1> QED BY <1>4, <1>5

\* The Anthropic decoder on such a body: blocks, stop reason and usage are
\* what the chunks so far make, and it fails only at the start.
FramedInv ==
  /\ Lossless /\ Framed /\ pc \in {"decode", "done"} =>
       /\ pos \in Nat /\ pos <= Len(body) /\ ~Refused
       /\ Folded(message, body, pos, acc.blocks)
       /\ Summing(message, wire, body, pos, acc.stop, acc.usage)
  /\ Lossless /\ Framed /\ pc = "error" => Refused

\* Where the provider does nothing, all that depends on it stays.
LEMMA ProviderSame ==
  ASSUME UNCHANGED provider
  PROVE  /\ message' = message /\ wire' = wire /\ limit' = limit /\ body' = body
         /\ phase' = phase /\ faults' = faults /\ sent' = sent
         /\ (Framed <=> Framed') /\ (Lossless <=> Lossless') /\ (Calm <=> Calm') /\ (Refused <=> Refused')
BY DEF provider, Framed, Lossless, Calm, Faulty, Refused

\* The Anthropic decoder takes a chunk.
LEMMA FramedTakes ==
  ASSUME FramedInv, pc = "decode", pos' = pos + 1, UNCHANGED <<provider, pc, result>>,
         NEW more, NEW why, NEW cost, acc'.blocks = more, acc'.stop = why, acc'.usage = cost,
         Lossless /\ Framed =>
           /\ pos \in Nat /\ pos < Len(body) /\ Len(body) \in Nat
           /\ Folded(message, body, pos + 1, more)
           /\ Summing(message, wire, body, pos + 1, why, cost)
  PROVE  FramedInv'
<1>1. PICK P : P = pos + 1
  OBVIOUS
<1>2. ASSUME Lossless, Framed
      PROVE  /\ P \in Nat /\ P <= Len(body) /\ ~Refused
             /\ Folded(message, body, P, more) /\ Summing(message, wire, body, P, why, cost)
  BY <1>1, <1>2 DEF FramedInv
<1>3. pos' = P /\ pc' = "decode" /\ UNCHANGED provider
  BY <1>1
<1> QED BY <1>2, <1>3, ProviderSame DEF FramedInv

\* What is known when it does.
LEMMA FramedNow ==
  ASSUME ProviderInv, FramedInv, NEW types, At("anthropic", types), Lossless
  PROVE  /\ pos \in Nat /\ pos < Len(body) /\ Len(body) \in Nat /\ message \in Messages
         /\ Framed /\ wire = "anthropic" /\ ~Refused
         /\ Folded(message, body, pos, acc.blocks)
         /\ Summing(message, wire, body, pos, acc.stop, acc.usage)
         /\ Current.type \in types /\ body[pos + 1] = Current
         /\ \/ Current.at \notin DOMAIN message.blocks /\ Current.type \in {"open", "stop", "close"}
            \/ NextOfBlock(message, wire, Current.at, Got(body, pos, Current.at), Current)
         /\ Current.type = "close" => Current = TheClose
<1>1. Framed /\ wire = "anthropic" /\ pc = "decode" /\ pos < Len(body) /\ Current.type \in types
  BY DEF At, Framed
<1>2. /\ pos \in Nat /\ Folded(message, body, pos, acc.blocks) /\ ~Refused
      /\ Summing(message, wire, body, pos, acc.stop, acc.usage)
  BY <1>1 DEF FramedInv
<1> QED BY <1>1, <1>2, LosslessChunk DEF Current

\* A chunk of a block at that block.
LEMMA FramedBlock ==
  ASSUME ProviderInv, FramedInv, NEW types, At("anthropic", types), Lossless,
         types \subseteq {"block_start", "piece", "block_stop"}
  PROVE  /\ Current.at \in DOMAIN message.blocks /\ body[pos + 1].at = Current.at
         /\ Current.kind = message.blocks[Current.at].kind
         /\ LET n == Got(body, pos, Current.at)
                P == message.blocks[Current.at].pieces
            IN  /\ n \in Nat
                /\ Current.type = "block_start" => n = 0
                /\ Current.type = "piece" => n \in 1..Len(P) /\ Current.pieces = <<P[n]>>
                /\ Current.type = "block_stop" => n = Len(P) + 1
                /\ n # 0 => Current.at \in DOMAIN acc.blocks
                            /\ acc.blocks[Current.at] = BlockAfter(message, Current.at, n)
<1>1. PICK c, i, n : c = Current /\ i = c.at /\ n = Got(body, pos, i)
  OBVIOUS
<1>2. /\ Folded(message, body, pos, acc.blocks) /\ wire = "anthropic"
      /\ c.type \in types /\ body[pos + 1] = c
      /\ c.type \in {"open", "stop", "close"} \/ NextOfBlock(message, wire, i, n, c)
  BY <1>1, FramedNow
<1>3. c.type \in {"block_start", "piece", "block_stop"}
  BY <1>2
<1>4. NextOfBlock(message, wire, i, n, c)
  BY <1>2, <1>3
<1>5. /\ i \in DOMAIN message.blocks /\ c.kind = message.blocks[i].kind /\ n \in Nat
      /\ c.type = "block_start" => n = 0
      /\ c.type = "piece" => n \in 1..Len(message.blocks[i].pieces) /\ c.pieces = <<message.blocks[i].pieces[n]>>
      /\ c.type = "block_stop" => n = Len(message.blocks[i].pieces) + 1
  BY <1>2, <1>4 DEF NextOfBlock
<1>6. n # 0 => i \in DOMAIN acc.blocks /\ acc.blocks[i] = BlockAfter(message, i, n)
  BY <1>1, <1>2, <1>5 DEF Folded
<1> QED BY <1>1, <1>2, <1>5, <1>6

\* A chunk of no block.
LEMMA FramedReads ==
  ASSUME ProviderInv, FramedInv, DOMAIN acc = AccFields, AnthropicOpen \/ AnthropicClose \/ AnthropicStop
  PROVE  FramedInv'
<1>1. PICK B, E, s, u : /\ B = acc.blocks
                        /\ AnthropicOpen => E = Append(acc.events, Event("start", 0, <<>>))
                        /\ AnthropicStop => E = Append(acc.events, Final(StreamResponse))
                        /\ s = (IF AnthropicClose THEN Dashed(Current.stop) ELSE acc.stop)
                        /\ u = (IF AnthropicClose THEN Current.usage ELSE acc.usage)
  <2>1. CASE AnthropicOpen /\ AnthropicStop
    BY <2>1 DEF AnthropicOpen, AnthropicStop, At
  <2>2. CASE AnthropicOpen /\ ~AnthropicStop
    BY <2>2
  <2>3. CASE ~AnthropicOpen
    BY <2>3
  <2> QED BY <2>1, <2>2, <2>3
<1>2. PICK types : /\ At("anthropic", types) /\ types \subseteq {"open", "close", "stop"}
                   /\ (AnthropicClose <=> Current.type = "close")
  <2>1. At("anthropic", {"open"}) \/ At("anthropic", {"close"}) \/ At("anthropic", {"stop"})
    BY DEF AnthropicOpen, AnthropicClose, AnthropicStop
  <2>2. AnthropicClose => Current.type = "close"
    BY DEF AnthropicClose, At
  <2>3. AnthropicOpen \/ AnthropicStop => Current.type # "close"
    BY DEF AnthropicOpen, AnthropicStop, At
  <2> QED BY <2>1, <2>2, <2>3
<1>3. pos' = pos + 1 /\ UNCHANGED <<provider, pc, result>> /\ pc = "decode"
  BY DEF AnthropicOpen, AnthropicClose, AnthropicStop, Take, At
<1>4. acc'.blocks = B /\ acc'.stop = s /\ acc'.usage = u
  <2>1. CASE AnthropicOpen \/ AnthropicStop
    <3>1. ~AnthropicClose
      BY <1>2, <2>1 DEF AnthropicOpen, AnthropicStop, At
    <3>2. acc' = [acc EXCEPT !.events = E]
      BY <1>1, <2>1 DEF AnthropicOpen, AnthropicStop, Take, Emit
    <3>3. PICK A : A = acc'
      OBVIOUS
    <3> QED BY <1>1, <3>1, <3>2, <3>3, AccEvents
  <2>2. CASE AnthropicClose
    <3>1. PICK e : e = Append(acc.events, Event("usage", 0, <<>>))
      OBVIOUS
    <3>2. acc' = [acc EXCEPT !.stop = s, !.usage = u, !.events = e]
      BY <1>1, <2>2, <3>1 DEF AnthropicClose, Take, Emit
    <3>3. PICK A : A = acc'
      OBVIOUS
    <3>4. A.blocks = acc.blocks /\ A.stop = s /\ A.usage = u
      BY <3>2, <3>3 DEF AccFields
    <3> QED BY <1>1, <3>3, <3>4
  <2> QED BY <2>1, <2>2
<1>5. ASSUME Lossless
      PROVE  /\ pos \in Nat /\ pos < Len(body) /\ Len(body) \in Nat
             /\ Folded(message, body, pos + 1, B) /\ Summing(message, wire, body, pos + 1, s, u)
  <2>1. /\ pos \in Nat /\ pos < Len(body) /\ Len(body) \in Nat /\ wire = "anthropic"
        /\ Folded(message, body, pos, acc.blocks)
        /\ Summing(message, wire, body, pos, acc.stop, acc.usage)
        /\ Current.type \in types /\ body[pos + 1] = Current
        /\ \/ Current.at \notin DOMAIN message.blocks /\ Current.type \in {"open", "stop", "close"}
           \/ NextOfBlock(message, wire, Current.at, Got(body, pos, Current.at), Current)
        /\ Current.type = "close" => Current = TheClose
    BY <1>2, <1>5, FramedNow
  <2>2. Current.type \notin {"block_start", "piece", "block_stop"}
    BY <1>2, <2>1
  <2>3. Current.at \notin DOMAIN message.blocks
    BY <2>1, <2>2 DEF NextOfBlock
  <2>4. PICK m, b, k, w, ps, pu : m = message /\ b = body /\ k = pos /\ w = wire /\ ps = acc.stop /\ pu = acc.usage
    OBVIOUS
  <2>5. k \in Nat /\ Folded(m, b, k, B) /\ b[k + 1].at \notin DOMAIN m.blocks /\ Summing(m, w, b, k, ps, pu)
    BY <1>1, <2>1, <2>3, <2>4
  <2>6. Folded(m, b, k + 1, B)
    BY <2>5, FoldedSame
  <2>7. /\ b[k + 1].type # "close" => Summing(m, w, b, k + 1, ps, pu)
        /\ b[k + 1].type = "close" => Summing(m, w, b, k + 1, StopOf(m, w), m.usage)
    BY <2>5, SummingSteps
  <2>8. Summing(m, w, b, k + 1, s, u)
    <3>1. CASE AnthropicClose
      <4>1. Current = TheClose /\ b[k + 1].type = "close"
        BY <1>2, <2>1, <2>4, <3>1
      <4>2. s = StopOf(m, w) /\ u = m.usage
        BY <1>1, <2>1, <2>4, <3>1, <4>1 DEF StopOf, TheClose, Closing, Blank
      <4> QED BY <2>7, <4>1, <4>2
    <3>2. CASE ~AnthropicClose
      BY <1>1, <1>2, <2>1, <2>4, <2>7, <3>2
    <3> QED BY <3>1, <3>2
  <2> QED BY <2>1, <2>4, <2>6, <2>8
<1> QED BY <1>3, <1>4, <1>5, FramedTakes

\* A chunk of a block that makes x of it.
LEMMA FramedPuts ==
  ASSUME ProviderInv, FramedInv, NEW types, At("anthropic", types),
         types \subseteq {"block_start", "piece", "block_stop"},
         pos' = pos + 1, UNCHANGED <<provider, pc, result>>, NEW x,
         acc'.blocks = Put(acc.blocks, Current.at, x), acc'.stop = acc.stop, acc'.usage = acc.usage,
         Lossless => x = BlockAfter(message, Current.at, Got(body, pos, Current.at) + 1)
  PROVE  FramedInv'
<1>1. PICK c, i, m, b, k, w, s, u, blocks :
        /\ c = Current /\ i = c.at /\ m = message /\ b = body /\ k = pos /\ w = wire
        /\ s = acc.stop /\ u = acc.usage /\ blocks = acc.blocks
  OBVIOUS
<1>2. PICK B : B = Put(blocks, i, x)
  OBVIOUS
<1>3. ASSUME Lossless
      PROVE  /\ pos \in Nat /\ pos < Len(body) /\ Len(body) \in Nat
             /\ Folded(message, body, pos + 1, B) /\ Summing(message, wire, body, pos + 1, s, u)
  <2>1. /\ pos \in Nat /\ pos < Len(body) /\ Len(body) \in Nat
        /\ Folded(message, body, pos, acc.blocks)
        /\ Summing(message, wire, body, pos, acc.stop, acc.usage)
        /\ Current.type \in types /\ body[pos + 1] = Current
    BY <1>3, FramedNow
  <2>2. Current.at \in DOMAIN message.blocks /\ body[pos + 1].at = Current.at
    BY <1>3, FramedBlock
  <2>3. /\ k \in Nat /\ Folded(m, b, k, blocks) /\ Summing(m, w, b, k, s, u)
        /\ i \in DOMAIN m.blocks /\ b[k + 1].at = i /\ b[k + 1].type # "close"
        /\ x = BlockAfter(m, i, Got(b, k, i) + 1)
    BY <1>1, <1>3, <2>1, <2>2
  <2>4. Folded(m, b, k + 1, Put(blocks, i, x))
    BY <2>3, FoldedPut
  <2>5. Summing(m, w, b, k + 1, s, u)
    BY <2>3, SummingSteps
  <2> QED BY <1>1, <1>2, <2>1, <2>4, <2>5
<1>4. pc = "decode" /\ acc'.blocks = B /\ acc'.stop = s /\ acc'.usage = u
  BY <1>1, <1>2 DEF At
<1> QED BY <1>3, <1>4, FramedTakes

\* A block begins.
LEMMA FramedStarts ==
  ASSUME ProviderInv, FramedInv, DOMAIN acc = AccFields, AnthropicBlockStart PROVE FramedInv'
<1>1. PICK x, B : /\ x = (IF Current.kind = "tool" THEN ToolBlock(Current.at) ELSE TextBlock(<<>>))
                  /\ B = Put(acc.blocks, Current.at, x)
  OBVIOUS
<1>2. At("anthropic", {"block_start"}) /\ pos' = pos + 1 /\ UNCHANGED <<provider, pc, result>>
  BY DEF AnthropicBlockStart, Take
<1>3. acc'.blocks = Put(acc.blocks, Current.at, x) /\ acc'.stop = acc.stop /\ acc'.usage = acc.usage
  <2>1. acc' = [acc EXCEPT !.blocks = B]
    BY <1>1 DEF AnthropicBlockStart, Take, WithBlock, Put
  <2>2. PICK A : A = acc'
    OBVIOUS
  <2>3. A.blocks = B /\ A.stop = acc.stop /\ A.usage = acc.usage
    BY <2>1, <2>2, AccBlocks
  <2> QED BY <1>1, <2>2, <2>3
<1>4. ASSUME Lossless PROVE x = BlockAfter(message, Current.at, Got(body, pos, Current.at) + 1)
  <2>1. /\ Current.at \in DOMAIN message.blocks /\ Current.kind = message.blocks[Current.at].kind
        /\ Current.type = "block_start" => Got(body, pos, Current.at) = 0
    BY <1>2, <1>4, FramedBlock
  <2>2. Current.type = "block_start" /\ message \in Messages
    BY <1>2 DEF At, ProviderInv
  <2>3. PICK i, m : i = Current.at /\ m = message
    OBVIOUS
  <2>4. BlockAfter(m, i, 1) = IF m.blocks[i].kind = "tool" THEN ToolBlock(i) ELSE TextBlock(<<>>)
    BY <2>1, <2>2, <2>3, AfterStart
  <2>5. Got(body, pos, Current.at) + 1 = 1
    BY <2>1, <2>2
  <2> QED BY <1>1, <2>1, <2>3, <2>4, <2>5
<1> QED BY <1>2, <1>3, <1>4, FramedPuts

\* A piece.
LEMMA FramedPieces ==
  ASSUME ProviderInv, FramedInv, DOMAIN acc = AccFields, AnthropicText \/ AnthropicJson PROVE FramedInv'
<1>1. PICK c, i, n, m, p : c = Current /\ i = c.at /\ n = Got(body, pos, i) /\ m = message /\ p = c.pieces
  OBVIOUS
<1>2. At("anthropic", {"piece"}) /\ pc = "decode"
  BY DEF AnthropicText, AnthropicJson, At
<1>3. PICK b : b = (IF c.kind = "tool" THEN BlockOr(i, ToolBlock(0)) ELSE BlockOr(i, TextBlock(<<>>)))
  OBVIOUS
<1>4. PICK x, B : /\ x = (IF c.kind = "tool" THEN [b EXCEPT !.partial = @ \o p] ELSE TextBlock(b.pieces \o p))
                  /\ B = Put(acc.blocks, i, x)
  OBVIOUS
<1>5. ASSUME Lossless
      PROVE  /\ x = BlockAfter(m, i, n + 1)
             /\ b.kind = IF c.kind = "tool" THEN "tool" ELSE "text"
  <2>1. /\ i \in DOMAIN m.blocks /\ c.kind = m.blocks[i].kind /\ n \in Nat
        /\ c.type = "piece" => n \in 1..Len(m.blocks[i].pieces) /\ c.pieces = <<m.blocks[i].pieces[n]>>
        /\ n # 0 => i \in DOMAIN acc.blocks /\ acc.blocks[i] = BlockAfter(m, i, n)
    BY <1>1, <1>2, <1>5, FramedBlock
  <2>2. c.type = "piece" /\ m \in Messages
    BY <1>1, <1>2 DEF At, ProviderInv
  <2>3. PICK P : P = m.blocks[i].pieces
    OBVIOUS
  <2>4. n \in 1..Len(P) /\ p = <<P[n]>> /\ n # 0
    BY <1>1, <2>1, <2>2, <2>3
  <2>5. b = BlockAfter(m, i, n)
    BY <1>3, <2>1, <2>4 DEF BlockOr
  <2>6. BlockAfter(m, i, n + 1) =
          IF m.blocks[i].kind = "tool" THEN [b EXCEPT !.partial = @ \o p] ELSE TextBlock(b.pieces \o p)
    <3>1. n \in 1..Len(m.blocks[i].pieces) /\ p = <<m.blocks[i].pieces[n]>>
      BY <2>3, <2>4
    <3> QED BY <2>1, <2>2, <2>5, <3>1, AfterPiece
  <2>7. x = BlockAfter(m, i, n + 1)
    BY <1>4, <2>1, <2>6, Zenon
  <2>8. b.kind = IF c.kind = "tool" THEN "tool" ELSE "text"
    BY <2>1, <2>5 DEF BlockAfter, TextBlock
  <2> QED BY <2>7, <2>8
<1>6. CASE AnthropicText
  <2>1. c.kind # "tool" /\ b = BlockOr(i, TextBlock(<<>>)) /\ x = TextBlock(b.pieces \o p)
    BY <1>1, <1>3, <1>4, <1>6 DEF AnthropicText
  <2>2. CASE b.kind = "tool"
    <3>1. Fail
      BY <1>1, <1>6, <2>1, <2>2 DEF AnthropicText
    <3>2. ~Lossless
      BY <1>5, <2>1, <2>2
    <3>3. pc' = "error" /\ UNCHANGED provider
      BY <3>1 DEF Fail
    <3> QED BY <3>2, <3>3, ProviderSame DEF FramedInv
  <2>3. CASE b.kind # "tool"
    <3>1. pos' = pos + 1 /\ UNCHANGED <<provider, pc, result>>
      BY <1>1, <1>6, <2>1, <2>3 DEF AnthropicText, Take
    <3>2. acc' = [acc EXCEPT !.blocks = B, !.events = IF c.kind = "text" THEN Append(acc.events, Event("delta", 0, p)) ELSE @]
      BY <1>1, <1>4, <1>6, <2>1, <2>3 DEF AnthropicText, Take, WithBlock, Put, Emit
    <3>3. PICK A : A = acc'
      OBVIOUS
    <3>4. A.blocks = B /\ A.stop = acc.stop /\ A.usage = acc.usage
      BY <3>2, <3>3 DEF AccFields
    <3>5. acc'.blocks = Put(acc.blocks, Current.at, x) /\ acc'.stop = acc.stop /\ acc'.usage = acc.usage
      BY <1>1, <1>4, <3>3, <3>4
    <3>6. Lossless => x = BlockAfter(message, Current.at, Got(body, pos, Current.at) + 1)
      BY <1>1, <1>5
    <3> QED BY <1>2, <3>1, <3>5, <3>6, FramedPuts
  <2> QED BY <2>2, <2>3
<1>7. CASE AnthropicJson
  <2>1. c.kind = "tool" /\ b = BlockOr(i, ToolBlock(0)) /\ x = [b EXCEPT !.partial = @ \o p]
    BY <1>1, <1>3, <1>4, <1>7 DEF AnthropicJson
  <2>2. CASE b.kind = "text"
    <3>1. Fail
      BY <1>1, <1>7, <2>1, <2>2 DEF AnthropicJson
    <3>2. ~Lossless
      BY <1>5, <2>1, <2>2
    <3>3. pc' = "error" /\ UNCHANGED provider
      BY <3>1 DEF Fail
    <3> QED BY <3>2, <3>3, ProviderSame DEF FramedInv
  <2>3. CASE b.kind # "text"
    <3>1. pos' = pos + 1 /\ UNCHANGED <<provider, pc, result>>
      BY <1>1, <1>7, <2>1, <2>3 DEF AnthropicJson, Take
    <3>2. acc' = [acc EXCEPT !.blocks = B]
      <4>1. b = BlockOr(i, ToolBlock(0)) /\ b.kind # "text" /\ i = c.at /\ c = Current
        BY <1>1, <2>1, <2>3
      <4>2. PICK y : y = [b EXCEPT !.partial = @ \o c.pieces]
        OBVIOUS
      <4>3. x = y
        BY <1>1, <2>1, <4>2, Zenon
      <4>4. Take([acc EXCEPT !.blocks = WithBlock(c.at, [b EXCEPT !.partial = @ \o c.pieces])])
        BY <1>7, <4>1, Zenon DEF AnthropicJson
      <4>5. Take([acc EXCEPT !.blocks = WithBlock(i, y)])
        BY <4>1, <4>2, <4>4, Zenon
      <4>6. WithBlock(i, y) = B
        BY <1>4, <4>3 DEF WithBlock, Put
      <4>7. PICK W : W = WithBlock(i, y)
        OBVIOUS
      <4>8. acc' = [acc EXCEPT !.blocks = W]
        BY <4>5, <4>7 DEF Take
      <4> QED BY <4>6, <4>7, <4>8
    <3>3. PICK A : A = acc'
      OBVIOUS
    <3>4. A.blocks = B /\ A.stop = acc.stop /\ A.usage = acc.usage
      BY <3>2, <3>3, AccBlocks
    <3>5. acc'.blocks = Put(acc.blocks, Current.at, x) /\ acc'.stop = acc.stop /\ acc'.usage = acc.usage
      BY <1>1, <1>4, <3>3, <3>4
    <3>6. Lossless => x = BlockAfter(message, Current.at, Got(body, pos, Current.at) + 1)
      BY <1>1, <1>5
    <3> QED BY <1>2, <3>1, <3>5, <3>6, FramedPuts
  <2> QED BY <2>2, <2>3
<1> QED BY <1>6, <1>7

\* A block ends.
LEMMA FramedStops ==
  ASSUME ProviderInv, FramedInv, DOMAIN acc = AccFields, AnthropicBlockStop PROVE FramedInv'
<1>1. PICK c, i, n, m, b, blocks :
        c = Current /\ i = c.at /\ n = Got(body, pos, i) /\ m = message /\ blocks = acc.blocks /\ b = blocks[i]
  OBVIOUS
<1>2. At("anthropic", {"block_stop"}) /\ pc = "decode"
  BY DEF AnthropicBlockStop, At
<1>3. PICK input : input = IF b.partial = <<>> THEN b.pieces ELSE b.partial
  OBVIOUS
<1>4. PICK x : x = [b EXCEPT !.pieces = input, !.partial = <<>>]
  OBVIOUS
<1>5. ASSUME Lossless
      PROVE  /\ i \in DOMAIN blocks /\ b.kind \in {"text", "tool"}
             /\ b.partial # <<>> => b.partial \in JsonTexts
             /\ b.kind = "tool" => x = BlockAfter(m, i, n + 1)
             /\ b.kind = "text" => b = BlockAfter(m, i, n + 1)
  <2>1. /\ i \in DOMAIN m.blocks /\ n \in Nat
        /\ c.type = "block_stop" => n = Len(m.blocks[i].pieces) + 1
        /\ n # 0 => i \in DOMAIN acc.blocks /\ acc.blocks[i] = BlockAfter(m, i, n)
    BY <1>1, <1>2, <1>5, FramedBlock
  <2>2. c.type = "block_stop" /\ m \in Messages
    BY <1>1, <1>2 DEF At, ProviderInv
  <2>3. PICK P : P = m.blocks[i].pieces
    OBVIOUS
  <2>4. IsSeq(P) /\ Len(P) \in Nat /\ m.blocks[i].kind \in {"text", "thinking", "tool"}
        /\ (m.blocks[i].kind = "tool" => P \in JsonTexts \cup {<<>>})
    BY <2>1, <2>2, <2>3, BlockTypes, StreamsAssumption
  <2>5. n = Len(P) + 1 /\ n # 0
    BY <2>1, <2>2, <2>3, <2>4
  <2>6. i \in DOMAIN blocks /\ b = BlockAfter(m, i, n)
    BY <1>1, <2>1, <2>5
  <2>7. BlockAfter(m, i, n + 1) = IF m.blocks[i].kind = "tool" THEN x ELSE b
    <3>1. n = Len(m.blocks[i].pieces) + 1
      BY <2>3, <2>5
    <3>2. LET k == Len(m.blocks[i].pieces) + 1
              o == BlockAfter(m, i, k)
              in == IF o.partial = <<>> THEN o.pieces ELSE o.partial
          IN  BlockAfter(m, i, k + 1) =
                IF m.blocks[i].kind = "tool" THEN [o EXCEPT !.pieces = in, !.partial = <<>>] ELSE o
      BY <2>1, <2>2, AfterStop
    <3> QED BY <1>3, <1>4, <2>6, <3>1, <3>2, Zenon
  <2>8. n # Len(P) + 2 /\ First(P, n - 1) = P
    <3>1. First(P, Len(P)) = P
      BY <2>4, FirstMore DEF IsSeq
    <3>2. n - 1 = Len(P) /\ n # Len(P) + 2
      BY <2>4, <2>5
    <3> QED BY <3>1, <3>2
  <2>9. /\ m.blocks[i].kind = "tool" => b.kind = "tool" /\ b.partial = P
        /\ m.blocks[i].kind # "tool" => b.kind = "text" /\ b.partial = <<>>
    BY <2>3, <2>6, <2>8 DEF BlockAfter, TextBlock
  <2> QED BY <2>4, <2>6, <2>7, <2>9
<1>6. CASE i \notin DOMAIN blocks \/ b.kind = "text"
  <2>1. pos' = pos + 1 /\ UNCHANGED <<provider, pc, result>> /\ acc' = acc
    BY <1>1, <1>6 DEF AnthropicBlockStop, Take
  <2>2. PICK s, u, w, d, k : s = acc.stop /\ u = acc.usage /\ w = wire /\ d = body /\ k = pos
    OBVIOUS
  <2>3. ASSUME Lossless
        PROVE  /\ pos \in Nat /\ pos < Len(body) /\ Len(body) \in Nat
               /\ Folded(message, body, pos + 1, blocks) /\ Summing(message, wire, body, pos + 1, s, u)
    <3>1. /\ pos \in Nat /\ pos < Len(body) /\ Len(body) \in Nat
          /\ Folded(message, body, pos, acc.blocks)
          /\ Summing(message, wire, body, pos, acc.stop, acc.usage)
          /\ Current.type \in {"block_stop"} /\ body[pos + 1] = Current
      BY <1>2, <2>3, FramedNow
    <3>2. i \in DOMAIN blocks /\ b = BlockAfter(m, i, n + 1)
      BY <1>5, <1>6, <2>3
    <3>3. /\ k \in Nat /\ Folded(m, d, k, blocks) /\ Summing(m, w, d, k, s, u)
          /\ d[k + 1].at = i /\ d[k + 1].type # "close" /\ n = Got(d, k, i)
      BY <1>1, <2>2, <3>1
    <3>4. b = BlockAfter(m, i, n)
      BY <1>1, <3>2, <3>3 DEF Folded
    <3>5. BlockAfter(m, i, Got(d, k, i) + 1) = BlockAfter(m, i, Got(d, k, i))
      BY <3>2, <3>3, <3>4, Zenon
    <3>6. Folded(m, d, k + 1, blocks)
      BY <3>2, <3>3, <3>5, FoldedStays
    <3>7. Summing(m, w, d, k + 1, s, u)
      BY <3>3, SummingSteps
    <3> QED BY <1>1, <2>2, <3>1, <3>6, <3>7
  <2>4. acc'.blocks = blocks /\ acc'.stop = s /\ acc'.usage = u
    BY <1>1, <2>1, <2>2
  <2> QED BY <1>2, <2>1, <2>3, <2>4, FramedTakes
<1>7. CASE ~(i \notin DOMAIN blocks \/ b.kind = "text")
  <2>1. PICK e, B, E : e = Event("tool-call", b.id, input) /\ B = Put(blocks, i, x) /\ E = Append(acc.events, e)
    OBVIOUS
  <2>2. \/ b.partial # <<>> /\ b.partial \notin JsonTexts /\ Fail
        \/ Take([acc EXCEPT !.blocks = B, !.events = E])
    BY <1>1, <1>3, <1>4, <1>7, <2>1 DEF AnthropicBlockStop, WithBlock, Put, Emit
  <2>3. CASE b.partial # <<>> /\ b.partial \notin JsonTexts /\ Fail
    <3>1. pc' = "error" /\ UNCHANGED provider /\ ~Lossless
      BY <1>5, <2>3 DEF Fail
    <3> QED BY <3>1, ProviderSame DEF FramedInv
  <2>4. CASE Take([acc EXCEPT !.blocks = B, !.events = E])
    <3>1. pos' = pos + 1 /\ UNCHANGED <<provider, pc, result>> /\ acc' = [acc EXCEPT !.blocks = B, !.events = E]
      BY <2>4 DEF Take
    <3>2. PICK A : A = acc'
      OBVIOUS
    <3>3. A.blocks = B /\ A.stop = acc.stop /\ A.usage = acc.usage
      BY <3>1, <3>2 DEF AccFields
    <3>4. acc'.blocks = Put(acc.blocks, Current.at, x) /\ acc'.stop = acc.stop /\ acc'.usage = acc.usage
      BY <1>1, <2>1, <3>2, <3>3
    <3>5. Lossless => x = BlockAfter(message, Current.at, Got(body, pos, Current.at) + 1)
      BY <1>1, <1>5, <1>7
    <3> QED BY <1>2, <3>1, <3>4, <3>5, FramedPuts
  <2> QED BY <2>2, <2>3, <2>4
<1> QED BY <1>6, <1>7

\* The end of the body changes nothing of that.
LEMMA FramedEnds ==
  ASSUME FramedInv, DOMAIN acc = AccFields, AnthropicEnd PROVE FramedInv'
<1>1. PICK B, s, u : B = acc.blocks /\ s = acc.stop /\ u = acc.usage
  OBVIOUS
<1>2. pc = "decode" /\ pc' = "done" /\ pos' = pos /\ UNCHANGED provider
  BY DEF AnthropicEnd, AtEnd, Answer
<1>3. PICK A : A = acc'
  OBVIOUS
<1>4. A.blocks = B /\ A.stop = s /\ A.usage = u
  <2>1. CASE A = acc
    BY <1>1, <2>1
  <2>2. CASE A # acc
    <3>1. PICK E : E = Emit(Final(StreamResponse))
      OBVIOUS
    <3>2. A = [acc EXCEPT !.events = E]
      BY <1>3, <2>2, <3>1 DEF AnthropicEnd
    <3> QED BY <1>1, <3>2 DEF AccFields
  <2> QED BY <2>1, <2>2
<1>5. ASSUME Lossless, Framed
      PROVE  /\ pos \in Nat /\ pos <= Len(body) /\ ~Refused
             /\ Folded(message, body, pos, B) /\ Summing(message, wire, body, pos, s, u)
  BY <1>1, <1>2, <1>5 DEF FramedInv
<1> QED BY <1>2, <1>3, <1>4, <1>5, ProviderSame DEF FramedInv

\* The body is handed over.
LEMMA FramedBegins ==
  ASSUME ProviderInv, TaleInv, FramedInv, Open PROVE FramedInv'
<1>1. acc = Empty /\ pos = 0 /\ acc' = acc /\ pos' = pos /\ UNCHANGED provider
      /\ pc' = IF Refused THEN "error" ELSE "decode"
  BY DEF Open, TaleInv
<1>2. PICK m, w, b, A : m = message /\ w = wire /\ b = body /\ A = acc
  OBVIOUS
<1>3. A.blocks = NoBlocks /\ A.stop = "stop" /\ A.usage = 0
  BY <1>1, <1>2 DEF Empty
<1>4. Len(b) \in Nat
  BY <1>2, SeqPlaces DEF ProviderInv
<1>5. Folded(m, b, 0, NoBlocks)
  <2>1. DOMAIN NoBlocks = {}
    BY DEF NoBlocks
  <2>2. \A i \in DOMAIN m.blocks : Got(b, 0, i) = 0
    BY GotLemma
  <2> QED BY <2>1, <2>2 DEF Folded
<1>6. Summing(m, w, b, 0, "stop", 0)
  BY ClosedLemma DEF Summing
<1>7. CASE Refused
  BY <1>1, <1>7, ProviderSame DEF FramedInv
<1>8. CASE ~Refused
  <2>1. pos \in Nat /\ pos <= Len(body) /\ pos = 0
    BY <1>1, <1>2, <1>4
  <2>2. Folded(message, body, pos, acc.blocks) /\ Summing(message, wire, body, pos, acc.stop, acc.usage)
    BY <1>2, <1>3, <1>5, <1>6, <2>1
  <2>3. pc' = "decode"
    BY <1>1, <1>8
  <2> QED BY <1>1, <1>8, <2>1, <2>2, <2>3, ProviderSame DEF FramedInv
<1> QED BY <1>7, <1>8

\* What a decoder can do with a chunk, or at the end.
LEMMA Leaving ==
  ASSUME Anthropic \/ Responses \/ OneTextStreams
  PROVE  (\E a : Counted(a) \/ Take(a)) \/ Fail \/ \E r : Answer(r)
<1>1. CASE AnthropicOpen \/ AnthropicBlockStart
  BY <1>1, Zenon DEF AnthropicOpen, AnthropicBlockStart
<1>2. CASE AnthropicText \/ AnthropicJson
  BY <1>2, Zenon DEF AnthropicText, AnthropicJson
<1>3. CASE AnthropicBlockStop \/ AnthropicClose
  BY <1>3, Zenon DEF AnthropicBlockStop, AnthropicClose
<1>4. CASE AnthropicStop \/ AnthropicError \/ AnthropicEnd
  BY <1>4, Zenon DEF AnthropicStop, AnthropicError, AnthropicEnd
<1>5. CASE ResponsesProgress \/ ResponsesTerminal
  BY <1>5, Zenon DEF ResponsesProgress, ResponsesTerminal
<1>6. CASE ResponsesError \/ ResponsesEnd
  BY <1>6, Zenon DEF ResponsesError, ResponsesEnd
<1>7. CASE OpenaiPiece \/ OpenaiClose \/ OpenaiDone
  BY <1>7, Zenon DEF OpenaiPiece, OpenaiClose, OpenaiDone
<1>8. CASE OpenaiError \/ OllamaLine \/ OllamaDone \/ OneTextEnd
  BY <1>8, Zenon DEF OpenaiError, OllamaLine, OllamaDone, OneTextEnd
<1> QED BY <1>1, <1>2, <1>3, <1>4, <1>5, <1>6, <1>7, <1>8, Zenon DEF Anthropic, Responses, OneTextStreams

\* The decoder reads the body only when the provider is over, and leaves it
\* as it is.
Rests == UNCHANGED provider
\* A rule of a decoder applies while the body is read, and changes nothing of it.
LEMMA DecodersLeave == ASSUME Anthropic \/ Responses \/ OneTextStreams PROVE UNCHANGED provider /\ pc = "decode"
<1>1. ASSUME NEW a, Counted(a) \/ Take(a) PROVE Rests
  BY <1>1 DEF Counted, Take, Fail, Rests
<1>2. ASSUME NEW r, Answer(r) PROVE Rests
  BY <1>2 DEF Answer, Rests
<1>3. Fail => Rests
  BY DEF Fail, Rests
<1>4. pc = "decode"
  BY DEF Anthropic, Responses, OneTextStreams, AnthropicOpen, AnthropicBlockStart, AnthropicText, AnthropicJson,
         AnthropicBlockStop, AnthropicClose, AnthropicStop, AnthropicError, AnthropicEnd,
         ResponsesProgress, ResponsesTerminal, ResponsesError, ResponsesEnd, OpenaiPiece,
         OpenaiClose, OpenaiDone, OpenaiError, OllamaLine, OllamaDone, OneTextEnd, At, AtEnd
<1>5. (\E a : Counted(a) \/ Take(a)) \/ Fail \/ \E r : Answer(r)
  BY Leaving
<1>6. Rests
  BY <1>1, <1>2, <1>3, <1>5, Zenon
<1> QED BY <1>4, <1>6 DEF Rests

\* A decoder reads its own format.
LEMMA WireOf ==
  /\ Anthropic => Framed
  /\ Responses => wire = "responses"
  /\ OneTextStreams => wire \in {"openai", "ollama"}
<1>1. Anthropic => Framed
  BY DEF Anthropic, AnthropicOpen, AnthropicBlockStart, AnthropicText, AnthropicJson, AnthropicBlockStop,
         AnthropicClose, AnthropicStop, AnthropicError, AnthropicEnd, At, AtEnd, Framed
<1>2. Responses => wire = "responses"
  BY DEF Responses, ResponsesProgress, ResponsesTerminal, ResponsesError, ResponsesEnd, At, AtEnd
<1>3. OneTextStreams => wire \in {"openai", "ollama"}
  BY DEF OneTextStreams, OpenaiPiece, OpenaiClose, OpenaiDone, OpenaiError, OllamaLine, OllamaDone,
         OneTextEnd, At, AtEnd
<1> QED BY <1>1, <1>2, <1>3

\* Every step keeps what the Anthropic decoder has.
LEMMA FramedSteps ==
  ASSUME StreamInv, ProviderInv, TaleInv, FramedInv, [Next]_vars PROVE FramedInv'
<1>1. DOMAIN acc = AccFields
  BY DEF TaleInv
<1>2. CASE UNCHANGED vars
  BY <1>2, ProviderSame DEF vars, FramedInv
<1>3. CASE Provide
  <2>1. phase # "over" /\ UNCHANGED <<pos, acc, pc, result>>
    BY <1>3 DEF Provide, Begin, SendBlock, Close, Stop, BreakOff, Cut
  <2>2. pc = "stream" /\ pc' = "stream"
    BY <2>1 DEF StreamInv
  <2> QED BY <2>2 DEF FramedInv
<1>4. CASE Anthropic
  <2>1. CASE AnthropicError
    <3>1. Current.type = "error" /\ pc = "decode" /\ At("anthropic", {"error"})
      BY <2>1 DEF AnthropicError, At
    <3>2. ~Calm
      BY <3>1, CalmNow
    <3>3. ~Lossless'
      BY <1>4, <3>2, DecodersLeave, ProviderSame, LosslessIsCalm
    <3> QED BY <3>3 DEF FramedInv
  <2> QED BY <1>1, <1>4, <2>1, FramedReads, FramedStarts, FramedPieces, FramedStops, FramedEnds DEF Anthropic
<1>5. CASE Responses \/ OneTextStreams
  <2>1. ~Framed
    BY <1>5, WireOf DEF Framed
  <2>2. ~Framed'
    BY <1>5, <2>1, DecodersLeave, ProviderSame
  <2> QED BY <2>2 DEF FramedInv
<1>6. CASE Open
  BY <1>6, FramedBegins
<1> QED BY <1>2, <1>3, <1>4, <1>5, <1>6 DEF Next, Decode, Halted

-----------------------------------------------------------------------------
(* The one terminal event of OpenAI Responses. *)

\* The close of a stream has the whole message, and reading it gives the
\* response that was meant.
LEMMA TerminalTells ==
  ASSUME message \in Messages, wire = "responses"
  PROVE  FromTerminal(TheClose) = <<Expected>>
<1>1. PICK m, B, n, N, A : /\ m = message /\ B = m.blocks /\ n = Len(B) /\ N = NumberedBlocks(B) /\ A = AllSeen
  OBVIOUS
<1>2. /\ n \in Nat /\ DOMAIN B = 1..n
      /\ \A i \in 1..n : /\ B[i].kind \in {"text", "thinking", "tool"}
                         /\ B[i].kind = "tool" => B[i].pieces \in JsonTexts \cup {<<>>}
  BY <1>1, BlockTypes, StreamsAssumption
<1>3. N = [i \in 1..n |-> Part(B[i].kind, IF B[i].kind = "tool" THEN i ELSE 0, B[i].pieces)]
  BY <1>1, <1>2 DEF NumberedBlocks
<1>4. A = [i \in 1..n |-> Seen(i)]
  BY <1>1, <1>2 DEF AllSeen
<1>5. \A i \in 1..n : N[i] = Part(B[i].kind, IF B[i].kind = "tool" THEN i ELSE 0, B[i].pieces)
  BY <1>3
<1>6. \A i \in 1..n :
        /\ B[i].kind = "tool" => A[i] = Part("tool", i, B[i].pieces)
        /\ B[i].kind = "thinking" => A[i] = Part("hidden", 0, B[i].pieces)
        /\ B[i].kind = "text" => A[i] = Part("text", 0, B[i].pieces)
  BY <1>1, <1>4 DEF Seen
<1>a. \A k, i, p : Part(k, i, p).kind = k /\ Part(k, i, p).pieces = p
  BY DEF Part
<1>b. \A i \in 1..n :
        /\ B[i].kind = "tool" => A[i].kind = "tool"
        /\ B[i].kind = "thinking" => A[i].kind = "hidden"
        /\ B[i].kind = "text" => A[i].kind = "text"
  BY <1>6, <1>a
<1>c. \A i \in 1..n : N[i].kind = B[i].kind /\ N[i].pieces = B[i].pieces
  BY <1>5, <1>a
<1>d. \A i \in 1..n : B[i].kind \in {"text", "tool"} => N[i] = A[i]
  <2> SUFFICES ASSUME NEW i \in 1..n, B[i].kind \in {"text", "tool"} PROVE N[i] = A[i]
    OBVIOUS
  <2>1. PICK z : z = IF B[i].kind = "tool" THEN i ELSE 0
    OBVIOUS
  <2>2. N[i] = Part(B[i].kind, z, B[i].pieces)
    BY <1>5, <2>1, Zenon
  <2>3. A[i] = Part(B[i].kind, z, B[i].pieces)
    BY <1>6, <2>1
  <2> QED BY <2>2, <2>3
<1>7. PICK U : U = {N[i] : i \in 1..n} \cup {A[i] : i \in 1..n}
  OBVIOUS
<1>8. N \in [1..n -> U] /\ A \in [1..n -> U]
  <2>1. \A i \in 1..n : N[i] \in U /\ A[i] \in U
    BY <1>7
  <2>2. N = [i \in 1..n |-> N[i]] /\ A = [i \in 1..n |-> A[i]]
    BY <1>3, <1>4
  <2> QED BY <2>1, <2>2
<1>9. N \in Seq(U) /\ A \in Seq(U)
  BY <1>2, <1>8
<1>10. Len(N) = n /\ Len(A) = n /\ DOMAIN N = 1..n /\ DOMAIN A = 1..n
  <2>1. DOMAIN N = 1..n /\ DOMAIN A = 1..n
    BY <1>8
  <2> QED BY <1>2, <1>9, <2>1, LenProperties
<1>11. ToSet(N) = {N[i] : i \in 1..n} /\ ToSet(A) = {A[i] : i \in 1..n}
  BY <1>10 DEF ToSet
<1>12. PICK S, T : /\ S = {p \in ToSet(N) : p.kind \in {"text", "tool", "refusal"}}
                   /\ T = {p \in ToSet(A) : p.kind \in {"text", "tool"}}
  OBVIOUS
<1>13. \A i \in 1..n : (N[i] \in S <=> A[i] \in T) /\ (N[i] \in S => N[i] = A[i])
  <2> SUFFICES ASSUME NEW i \in 1..n PROVE (N[i] \in S <=> A[i] \in T) /\ (N[i] \in S => N[i] = A[i])
    OBVIOUS
  <2>1. N[i] \in ToSet(N) /\ A[i] \in ToSet(A)
    BY <1>11
  <2>2. (N[i] \in S <=> N[i].kind \in {"text", "tool", "refusal"}) /\ (A[i] \in T <=> A[i].kind \in {"text", "tool"})
    BY <1>12, <2>1
  <2>3. N[i].kind = B[i].kind
    BY <1>c
  <2>4. CASE B[i].kind = "tool"
    <3>1. N[i] = A[i] /\ A[i].kind = "tool"
      BY <1>b, <1>d, <2>4
    <3> QED BY <2>2, <3>1
  <2>5. CASE B[i].kind = "thinking"
    <3>1. A[i].kind = "hidden" /\ N[i].kind = "thinking"
      BY <1>b, <2>3, <2>5
    <3> QED BY <2>2, <3>1
  <2>6. CASE B[i].kind = "text"
    <3>1. N[i] = A[i] /\ A[i].kind = "text"
      BY <1>b, <1>d, <2>6
    <3> QED BY <2>2, <3>1
  <2> QED BY <1>2, <2>4, <2>5, <2>6
<1>14. Only(N, S) = Only(A, T)
  BY <1>9, <1>10, <1>13, OnlySame
<1>15. KindsIn(N) \subseteq {"text", "tool", "refusal", "thinking"}
  <2>1. \A i \in 1..n : N[i].kind \in {"text", "thinking", "tool"}
    BY <1>2, <1>c
  <2> QED BY <1>10, <2>1 DEF KindsIn
<1>16. Arguments(OfKind(N, {"tool"}), JsonTexts)
  <2>1. PICK V, X : V = {p \in ToSet(N) : p.kind \in {"tool"}} /\ X = Only(N, V)
    OBVIOUS
  <2>2. X \in Seq(U \cap V)
    BY <1>9, <2>1, OnlyType
  <2>3. ASSUME NEW k \in DOMAIN X PROVE X[k].pieces \in JsonTexts \cup {<<>>}
    <3>1. DOMAIN X = 1..Len(X)
      BY <2>2, LenProperties
    <3>2. X[k] \in V
      BY <2>2, <2>3, <3>1, ElementOfSeq
    <3>3. X[k].kind = "tool" /\ X[k] \in ToSet(N)
      BY <2>1, <3>2
    <3>4. PICK i \in 1..n : X[k] = N[i]
      BY <1>11, <3>3
    <3>5. B[i].kind = "tool" /\ X[k].pieces = B[i].pieces
      BY <1>c, <3>3, <3>4
    <3> QED BY <1>2, <3>5
  <2>4. OfKind(N, {"tool"}) = X
    BY <2>1 DEF OfKind
  <2> QED BY <2>3, <2>4 DEF Arguments
<1>17. PICK s, u : s = m.stop /\ u = m.usage
  OBVIOUS
<1>18. PICK M : M = Message(N, <<>>, s, u)
  OBVIOUS
<1>19. FromTerminal(TheClose) = ReadResponses(M, JsonTexts)
  <2>1. PICK c : c = TheClose
    OBVIOUS
  <2>2. c.blocks = B /\ c.stop = s /\ c.usage = u
    BY <1>1, <1>17, <2>1 DEF TheClose, Closing, Blank
  <2> QED BY <1>1, <1>18, <2>1, <2>2 DEF FromTerminal
<1>20. M.kind = "message" /\ M.content = N /\ M.stop = s /\ M.usage = u
  BY <1>18 DEF Message
<1>21. Shown(N) = Only(N, S)
  BY <1>12 DEF Shown, OfKind
<1>22. ReadResponses(M, JsonTexts) = <<Response(Shown(N), Status(s), u, TRUE)>>
  BY <1>15, <1>16, <1>20 DEF ReadResponses
<1>23. Expected = Response(Only(A, T), Status(s), u, TRUE)
  BY <1>1, <1>12, <1>17 DEF Expected, OfKind, Status
<1> QED BY <1>14, <1>19, <1>21, <1>22, <1>23

\* Nothing is answered before the end, and what the terminal event says is
\* all that OpenAI Responses answers.
ResultInv ==
  /\ pc # "done" => result = NoResponse
  /\ wire = "responses" => acc.terminal \in {NoResponse, <<Expected>>}
  /\ wire = "responses" /\ pc = "done" => result = <<Expected>>

\* What was meant depends on the provider alone.
LEMMA ExpectedSame == ASSUME UNCHANGED provider PROVE Expected' = Expected
BY DEF provider, Expected, AllSeen, Seen, Spoken

\* While nothing is answered, and nothing else is known of the message.
LEMMA ResultStays ==
  ASSUME ResultInv, UNCHANGED <<provider, result>>, pc # "done", pc' # "done",
         wire = "responses" => acc'.terminal \in {NoResponse, <<Expected>>}
  PROVE  ResultInv'
<1>1. PICK x : x = Expected
  OBVIOUS
<1>2. Expected' = x /\ wire' = wire
  BY <1>1, ExpectedSame DEF provider
<1> QED BY <1>1, <1>2 DEF ResultInv, NoResponse

\* Every step keeps what is answered.
LEMMA ResultSteps ==
  ASSUME StreamInv, ProviderInv, TaleInv, ResultInv, [Next]_vars PROVE ResultInv'
<1>1. CASE UNCHANGED vars
  <2>1. UNCHANGED provider /\ UNCHANGED <<acc, pc, result>>
    BY <1>1 DEF vars
  <2>2. Expected' = Expected /\ wire' = wire
    BY <2>1, ExpectedSame DEF provider
  <2> QED BY <2>1, <2>2 DEF ResultInv, NoResponse
<1>2. CASE Provide
  <2>1. phase # "over" /\ UNCHANGED <<pos, acc, pc, result>>
    BY <1>2 DEF Provide, Begin, SendBlock, Close, Stop, BreakOff, Cut
  <2>2. pc = "stream" /\ acc = Empty
    BY <2>1 DEF StreamInv, TaleInv
  <2>3. acc'.terminal = NoResponse
    BY <2>1, <2>2 DEF Empty
  <2> QED BY <2>1, <2>2, <2>3 DEF ResultInv, NoResponse
<1>3. CASE Open
  <2>1. pc = "stream" /\ pc' \in {"decode", "error"} /\ UNCHANGED <<provider, acc, result>>
    BY <1>3 DEF Open
  <2> QED BY <2>1, ResultStays DEF ResultInv
<1>4. CASE Anthropic \/ OneTextStreams
  <2>1. wire # "responses" /\ UNCHANGED provider /\ pc = "decode"
    BY <1>4, WireOf, DecodersLeave DEF Framed
  <2>2. wire' # "responses"
    BY <2>1 DEF provider
  <2>3. pc' = "done" \/ UNCHANGED result
    <3>1. ASSUME NEW a, Counted(a) \/ Take(a) PROVE UNCHANGED result
      BY <3>1 DEF Counted, Take, Fail
    <3>2. (\E a : Counted(a) \/ Take(a)) \/ Fail \/ \E r : Answer(r)
      BY <1>4, Leaving
    <3> QED BY <3>1, <3>2 DEF Fail, Answer
  <2> QED BY <2>1, <2>2, <2>3 DEF ResultInv, NoResponse
<1>5. CASE Responses
  <2>1. wire = "responses" /\ UNCHANGED provider /\ pc = "decode" /\ DOMAIN acc = AccFields
    BY <1>5, WireOf, DecodersLeave DEF TaleInv
  <2>2. PICK x : x = Expected
    OBVIOUS
  <2>3. acc.terminal \in {NoResponse, <<x>>} /\ message \in Messages
    BY <2>1, <2>2 DEF ResultInv, ProviderInv
  <2>4. ASSUME NEW a, a.terminal \in {NoResponse, <<x>>}, DOMAIN a = AccFields, Counted(a) PROVE ResultInv'
    <3>1. UNCHANGED <<provider, result>> /\ pc' \in {"decode", "error"}
      BY <2>1, <2>4 DEF Counted, Take, Fail
    <3>2. acc'.terminal \in {NoResponse, <<x>>}
      <4>1. PICK n, A : n = a.taken + 1 /\ A = acc'
        OBVIOUS
      <4>2. A = acc \/ A = [a EXCEPT !.taken = n]
        BY <2>4, <4>1 DEF Counted, Take, Fail
      <4>3. A.terminal \in {NoResponse, <<x>>}
        BY <2>3, <2>4, <4>2 DEF AccFields
      <4> QED BY <4>1, <4>3
    <3> QED BY <2>1, <2>2, <3>1, <3>2, ResultStays
  <2>5. ASSUME Fail PROVE ResultInv'
    <3>1. UNCHANGED <<provider, result>> /\ pc' = "error" /\ acc'.terminal \in {NoResponse, <<x>>}
      BY <2>3, <2>5 DEF Fail
    <3> QED BY <2>1, <2>2, <3>1, ResultStays
  <2>6. CASE ResponsesProgress
    BY <2>1, <2>3, <2>4, <2>6 DEF ResponsesProgress
  <2>7. CASE ResponsesTerminal
    <3>1. pos + 1 \in 1..Len(body) /\ Current.type = "close"
      <4>1. pos \in Nat /\ pos < Len(body) /\ Len(body) \in Nat
        BY <2>7, SeqPlaces DEF ResponsesTerminal, At, StreamInv, ProviderInv
      <4>2. Current.type = "close"
        BY <2>7 DEF ResponsesTerminal, At
      <4> QED BY <4>1, <4>2
    <3>2. Current = TheClose
      BY <3>1 DEF Current, ProviderInv
    <3>3. FromTerminal(Current) = <<x>>
      BY <2>1, <2>2, <2>3, <3>2, TerminalTells
    <3>4. PICK a, y : y = <<x>> /\ a = [acc EXCEPT !.terminal = y]
      OBVIOUS
    <3>5. a.terminal = y /\ DOMAIN a = AccFields
      BY <2>1, <3>4 DEF AccFields
    <3>6. Fail \/ Counted(a)
      BY <2>7, <3>3, <3>4 DEF ResponsesTerminal
    <3>7. a.terminal \in {NoResponse, <<x>>}
      BY <3>4, <3>5
    <3> QED BY <2>4, <2>5, <3>5, <3>6, <3>7
  <2>8. CASE ResponsesError
    BY <2>5, <2>8 DEF ResponsesError
  <2>9. CASE ResponsesEnd
    <3>1. CASE acc.terminal = NoResponse
      BY <2>5, <2>9, <3>1 DEF ResponsesEnd
    <3>2. CASE acc.terminal # NoResponse
      <4>1. acc.terminal = <<x>> /\ acc' = acc
        BY <2>3, <2>9, <3>2 DEF ResponsesEnd
      <4>2. pc' = "done" /\ result' = <<acc.terminal[1]>>
        BY <2>9, <3>2 DEF ResponsesEnd, Answer
      <4>3. result' = <<x>>
        BY <4>1, <4>2
      <4>4. Expected' = x
        BY <2>1, <2>2, ExpectedSame
      <4>5. acc'.terminal = <<x>>
        BY <4>1
      <4> QED BY <4>2, <4>3, <4>4, <4>5 DEF ResultInv
    <3> QED BY <3>1, <3>2
  <2> QED BY <1>5, <2>6, <2>7, <2>8, <2>9 DEF Responses
<1> QED BY <1>1, <1>2, <1>3, <1>4, <1>5 DEF Next, Decode, Halted

-----------------------------------------------------------------------------
(* The decoders without blocks, on a body that is no more than cut. *)

\* What was said by the first k chunks of b, block by block.
SaidSoFar(m, b, k) ==
  [i \in DOMAIN m.blocks |->
    IF m.blocks[i].kind = "text" THEN First(m.blocks[i].pieces, Got(b, k, i)) ELSE <<>>]

\* What the first k chunks of b tell.
Learned(m, w, b, k, terminal, text, stop, usage) ==
  /\ w = "responses" => (terminal = NoResponse <=> ~Closed(b, k))
  /\ w \in {"openai", "ollama"} => Summing(m, w, b, k, stop, usage) /\ text = Flat(SaidSoFar(m, b, k))

\* The decoders have counted what they read, and fail only for its number, or
\* where something is missing.
PlainInv ==
  Lossless /\ ~Framed =>
    /\ pc \in {"decode", "done"} =>
         /\ pos \in Nat /\ pos <= Len(body)
         /\ acc.taken = Charged(body, wire, pos) /\ acc.taken <= limit
         /\ Learned(message, wire, body, pos, acc.terminal, acc.text, acc.stop, acc.usage)
    /\ pc = "done" => pos = Len(body) /\ (wire \in {"openai", "ollama"} => result = <<OneText>>)
    /\ pc = "error" /\ faults = <<>> => Size > limit

\* A chunk of no block says nothing.
LEMMA QuietChunk ==
  ASSUME ProviderInv, Lossless, pos \in Nat, pos < Len(body), Current.at \notin DOMAIN message.blocks
  PROVE  Current.kind = ""
<1>1. Len(body) \in Nat /\ CalmBody
  BY LosslessIsCalm, SeqPlaces DEF ProviderInv
<1>2. pos + 1 \in 1..Len(body)
  BY <1>1
<1>3. Proper(Current)
  BY <1>1, <1>2 DEF CalmBody, AllProper, Current
<1> QED BY <1>3 DEF Proper, OfBlock

\* The parts of what is said, as sequences over one set.
LEMMA SaidParts ==
  ASSUME NEW m \in Messages, NEW b, NEW k \in Nat,
         \A i \in DOMAIN m.blocks : Got(b, k, i) <= Len(m.blocks[i].pieces)
  PROVE  /\ Len(m.blocks) \in Nat /\ DOMAIN m.blocks = 1..Len(m.blocks)
         /\ Len(SaidSoFar(m, b, k)) = Len(m.blocks)
         /\ \A i \in DOMAIN m.blocks :
              SaidSoFar(m, b, k)[i] \in Seq(UNION {ToSet(m.blocks[j].pieces) : j \in DOMAIN m.blocks})
<1>1. PICK n, B, S, F : /\ n = Len(m.blocks) /\ B = m.blocks /\ F = SaidSoFar(m, b, k)
                        /\ S = UNION {ToSet(B[j].pieces) : j \in DOMAIN B}
  OBVIOUS
<1>2. /\ n \in Nat /\ DOMAIN B = 1..n
      /\ \A i \in 1..n : /\ IsSeq(B[i].pieces) /\ Len(B[i].pieces) \in Nat
                         /\ DOMAIN B[i].pieces = 1..Len(B[i].pieces)
  BY <1>1, BlockTypes
<1>3. F = [i \in 1..n |-> IF B[i].kind = "text" THEN First(B[i].pieces, Got(b, k, i)) ELSE <<>>]
  BY <1>1, <1>2 DEF SaidSoFar
<1>4. F = [i \in 1..n |-> F[i]]
  BY <1>3
<1>5. Len(F) = n
  BY <1>2, <1>4, FunSeq
<1>6. ASSUME NEW i \in 1..n PROVE F[i] \in Seq(S)
  <2>1. PICK P, g : P = B[i].pieces /\ g = Got(b, k, i)
    OBVIOUS
  <2>2. g \in 0..Len(P)
    <3>1. g \in Nat
      BY <2>1, GotLemma
    <3>2. g <= Len(P)
      BY <1>1, <1>2, <2>1
    <3> QED BY <1>2, <2>1, <3>1, <3>2
  <2>3. P \in Seq(S)
    <3>1. P \in Seq({P[l] : l \in 1..Len(P)})
      BY <1>2, <2>1 DEF IsSeq
    <3>2. {P[l] : l \in 1..Len(P)} \subseteq S
      <4>1. ToSet(P) = {P[l] : l \in 1..Len(P)}
        BY <1>2, <2>1 DEF ToSet
      <4>2. ToSet(P) \subseteq S
        BY <1>1, <1>2, <2>1
      <4> QED BY <4>1, <4>2
    <3> QED BY <3>1, <3>2, SeqMonotonic
  <2>4. First(P, g) \in Seq(S)
    BY <2>2, <2>3, FirstLemma
  <2>5. <<>> \in Seq(S)
    OBVIOUS
  <2> QED BY <1>3, <2>1, <2>4, <2>5
<1> QED BY <1>1, <1>2, <1>5, <1>6

\* One more chunk: of no block, of one that says nothing, or of one that
\* says something.
LEMMA SaidSame ==
  ASSUME NEW m, NEW b, NEW k \in Nat,
         b[k + 1].at \notin DOMAIN m.blocks \/ m.blocks[b[k + 1].at].kind # "text"
  PROVE  SaidSoFar(m, b, k + 1) = SaidSoFar(m, b, k)
<1>1. ASSUME NEW i \in DOMAIN m.blocks, m.blocks[i].kind = "text" PROVE Got(b, k + 1, i) = Got(b, k, i)
  <2>1. b[k + 1].at # i
    BY <1>1
  <2> QED BY <2>1, GotNext
<1> QED BY <1>1 DEF SaidSoFar

SaysOn(m, b, k, i, p) ==
  i \in DOMAIN m.blocks /\ Flat(SaidSoFar(m, b, k + 1)) = Flat(SaidSoFar(m, b, k)) \o p

\* A piece of the last text begun is said behind all the others.
LEMMA SaidMore ==
  ASSUME NEW m \in Messages, NEW b, NEW k \in Nat,
         \A i \in DOMAIN m.blocks : Got(b, k + 1, i) <= Len(m.blocks[i].pieces),
         NEW i \in DOMAIN m.blocks, b[k + 1].at = i, m.blocks[i].kind = "text",
         \A j \in DOMAIN m.blocks : j > i => Got(b, k + 1, j) = 0,
         NEW p, p = <<m.blocks[i].pieces[Got(b, k, i) + 1]>>
  PROVE  SaysOn(m, b, k, i, p)
<1>1. PICK n, B, S, F, G, P, g :
        /\ n = Len(m.blocks) /\ B = m.blocks /\ F = SaidSoFar(m, b, k) /\ G = SaidSoFar(m, b, k + 1)
        /\ S = UNION {ToSet(B[j].pieces) : j \in DOMAIN B} /\ P = B[i].pieces /\ g = Got(b, k, i)
  OBVIOUS
<1>2. \A j \in DOMAIN B : /\ Got(b, k, j) \in Nat /\ Got(b, k + 1, j) \in Nat
                          /\ j = i => Got(b, k + 1, j) = Got(b, k, j) + 1
                          /\ j # i => Got(b, k + 1, j) = Got(b, k, j)
  BY <1>1, GotNext
<1>3. \A j \in DOMAIN B : Len(B[j].pieces) \in Nat /\ IsSeq(B[j].pieces)
  BY <1>1, BlockTypes
<1>4. \A j \in DOMAIN B : Got(b, k, j) <= Len(B[j].pieces)
  <2> SUFFICES ASSUME NEW j \in DOMAIN B PROVE Got(b, k, j) <= Len(B[j].pieces)
    OBVIOUS
  <2>1. PICK x, y, z : x = Got(b, k, j) /\ y = Got(b, k + 1, j) /\ z = Len(B[j].pieces)
    OBVIOUS
  <2>2. x \in Nat /\ y \in Nat /\ z \in Nat /\ y <= z /\ (y = x + 1 \/ y = x)
    BY <1>1, <1>2, <1>3, <2>1
  <2> QED BY <2>1, <2>2
<1>5. /\ n \in Nat /\ DOMAIN B = 1..n /\ Len(F) = n /\ Len(G) = n
      /\ \A j \in 1..n : F[j] \in Seq(S) /\ G[j] \in Seq(S)
  <2>1. /\ n \in Nat /\ DOMAIN B = 1..n /\ Len(F) = n
        /\ \A j \in DOMAIN B : F[j] \in Seq(S)
    BY <1>1, <1>4, SaidParts
  <2>2. PICK l : l = k + 1
    OBVIOUS
  <2>3. l \in Nat /\ \A j \in DOMAIN m.blocks : Got(b, l, j) <= Len(m.blocks[j].pieces)
    BY <2>2
  <2>4. Len(G) = n /\ \A j \in DOMAIN B : G[j] \in Seq(S)
    BY <1>1, <2>2, <2>3, SaidParts
  <2> QED BY <2>1, <2>4
<1>6. F = [j \in 1..n |-> IF B[j].kind = "text" THEN First(B[j].pieces, Got(b, k, j)) ELSE <<>>]
      /\ G = [j \in 1..n |-> IF B[j].kind = "text" THEN First(B[j].pieces, Got(b, k + 1, j)) ELSE <<>>]
  BY <1>1, <1>5 DEF SaidSoFar
<1>7. /\ g \in Nat /\ g + 1 \in 1..Len(P) /\ P \in Seq(S)
  <2>1. g \in Nat /\ Len(P) \in Nat /\ IsSeq(P) /\ g + 1 <= Len(P)
    BY <1>1, <1>2, <1>3
  <2>2. P \in Seq(S)
    <3>1. P \in Seq({P[l] : l \in 1..Len(P)}) /\ DOMAIN P = 1..Len(P)
      BY <2>1, SeqPlaces DEF IsSeq
    <3>2. ToSet(P) = {P[l] : l \in 1..Len(P)}
      BY <3>1 DEF ToSet
    <3>3. i \in DOMAIN B /\ P = B[i].pieces
      BY <1>1
    <3>4. ToSet(P) \subseteq S
      BY <1>1, <3>3
    <3> QED BY <3>1, <3>2, <3>4, SeqMonotonic
  <2> QED BY <2>1, <2>2
<1>8. G[i] = F[i] \o p
  <2>1. F[i] = First(P, g) /\ G[i] = First(P, g + 1)
    BY <1>1, <1>2, <1>5, <1>6
  <2>2. PICK h : h = g + 1
    OBVIOUS
  <2>3. h \in 1..Len(P) /\ h - 1 = g
    BY <1>7, <2>2
  <2>4. First(P, h) = First(P, h - 1) \o <<P[h]>>
    BY <1>7, <2>3, FirstMore
  <2> QED BY <1>1, <2>1, <2>2, <2>3, <2>4
<1>9. p \in Seq(S)
  <2>1. P[g + 1] \in S
    BY <1>7, ElementOfSeq
  <2>2. p = <<P[g + 1]>>
    BY <1>1
  <2>3. PICK e : e = P[g + 1]
    OBVIOUS
  <2> QED BY <2>1, <2>2, <2>3
<1>10. ASSUME NEW j \in 1..n
       PROVE  /\ j < i => F[j] = G[j]
              /\ j > i => F[j] = <<>> /\ G[j] = <<>>
  <2>1. j < i => Got(b, k + 1, j) = Got(b, k, j)
    <3>1. i \in Nat /\ j \in Nat /\ j \in DOMAIN B
      BY <1>1, <1>5
    <3>2. j < i => j # i
      BY <3>1
    <3> QED BY <1>2, <3>1, <3>2
  <2>2. j > i => Got(b, k, j) = 0 /\ Got(b, k + 1, j) = 0
    <3>1. i \in Nat /\ j \in Nat
      BY <1>1, <1>5
    <3> QED BY <1>1, <1>2, <1>5, <3>1
  <2>3. First(B[j].pieces, 0) = <<>>
    <3>1. B[j].pieces \in Seq({B[j].pieces[l] : l \in 1..Len(B[j].pieces)})
      BY <1>3, <1>5 DEF IsSeq
    <3> QED BY <3>1, FirstMore
  <2> QED BY <1>6, <2>1, <2>2, <2>3
<1>11. i \in 1..n
  BY <1>1, <1>5
<1>12. Overtakes(G, F, S, n, i, p)
  BY <1>5, <1>8, <1>10 DEF Overtakes
<1>13. \A j \in 1..n : j > i => G[j] = <<>>
  BY <1>10
<1>14. GoesOn(G, F, S, n, i, p)
  <2>1. n \in Nat
    BY <1>5
  <2> QED BY <2>1, <1>9, <1>11, <1>12, FlatFollows
<1>15. Flat(G) = Flat(F) \o p
  BY <1>13, <1>14 DEF GoesOn
<1> QED BY <1>1, <1>15 DEF SaysOn

\* Of each block no more can have come than there is, and none behind the
\* one that comes now.
LEMMA PlainOrder ==
  ASSUME ProviderInv, Lossless, ~Framed, pos \in Nat, pos < Len(body)
  PROVE  /\ \A i \in DOMAIN message.blocks : Got(body, pos + 1, i) <= Len(message.blocks[i].pieces)
         /\ Current.at \in DOMAIN message.blocks =>
              \A j \in DOMAIN message.blocks : j > Current.at => Got(body, pos + 1, j) = 0
<1>1. /\ Len(body) \in Nat /\ CalmBody /\ LosslessBody /\ message \in Messages
      /\ \A i \in DOMAIN sent : sent[i] <= Whole(i) /\ sent[i] \in Nat
      /\ DOMAIN sent = DOMAIN message.blocks
  BY LosslessIsCalm, SeqPlaces DEF ProviderInv
<1>2. PICK b, n, k : b = body /\ n = Len(body) /\ k = pos + 1
  OBVIOUS
<1>3. n \in Nat /\ k \in 1..n /\ k \in Nat /\ k <= n
  BY <1>1, <1>2
<1>4. DOMAIN message.blocks = 1..Len(message.blocks) /\ Len(message.blocks) \in Nat
      /\ \A i \in DOMAIN message.blocks : Len(message.blocks[i].pieces) \in Nat
  BY <1>1, BlockTypes
<1>5. ASSUME NEW i \in DOMAIN message.blocks PROVE Got(b, k, i) <= Len(message.blocks[i].pieces)
  <2>1. Got(b, k, i) <= Got(b, n, i)
    BY <1>3, GotGrows
  <2>2. Got(b, n, i) = sent[i] /\ sent[i] <= Whole(i) /\ sent[i] \in Nat
    BY <1>1, <1>2, <1>5 DEF LosslessBody
  <2>3. Whole(i) = Len(message.blocks[i].pieces) + 0
    BY DEF Whole, Pieces
  <2>4. Got(b, k, i) \in Nat
    BY <1>3, GotLemma
  <2>5. PICK x, y, z, l : x = Got(b, k, i) /\ y = Got(b, n, i) /\ z = Whole(i) /\ l = Len(message.blocks[i].pieces)
    OBVIOUS
  <2>6. x \in Nat /\ y \in Nat /\ l \in Nat /\ z = l /\ x <= y /\ y <= z
    BY <1>4, <1>5, <2>1, <2>2, <2>3, <2>4, <2>5
  <2> QED BY <2>5, <2>6
<1>6. ASSUME NEW j \in DOMAIN message.blocks, j > Current.at, Current.at \in DOMAIN message.blocks
      PROVE  Got(b, k, j) = 0
  <2>1. ASSUME NEW l \in 1..k, b[l].at = j PROVE FALSE
    <3>1. b[k].at = Current.at /\ j # b[k].at /\ j # 0 /\ b[k].at # 0
      BY <1>2, <1>4, <1>6 DEF Current
    <3>2. l \in 1..Len(body) /\ k \in 1..Len(body) /\ l < k
      BY <1>2, <1>3, <2>1, <3>1
    <3>3. InPlace(body, l, k)
      BY <1>1, <1>2, <2>1, <3>1, <3>2 DEF CalmBody, AllInPlace
    <3>4. body[l].at <= body[k].at
      BY <3>3 DEF InPlace
    <3>5. j \in Nat /\ Current.at \in Nat /\ j <= Current.at
      BY <1>2, <1>4, <1>6, <2>1, <3>1, <3>4
    <3> QED BY <1>6, <3>5
  <2> QED BY <1>3, <2>1, GotLemma
<1> QED BY <1>2, <1>5, <1>6

\* One more chunk tells more.
LEMMA LearnedMore ==
  ASSUME ProviderInv, Lossless, ~Framed, pos \in Nat, pos < Len(body),
         NEW t, NEW x, NEW s, NEW u, Learned(message, wire, body, pos, t, x, s, u)
  PROVE  /\ Len(body) \in Nat /\ Current.type \in {"open", "piece", "stop", "close"}
         /\ Current.type # "close" =>
              Learned(message, wire, body, pos + 1, t, IF Current.kind = "text" THEN x \o Current.pieces ELSE x, s, u)
         /\ Current.type = "close" =>
              \A r : r # NoResponse => Learned(message, wire, body, pos + 1, r, x, Current.stop, Current.usage)
<1>1. PICK m, w, b, k, c, i, y :
        /\ m = message /\ w = wire /\ b = body /\ k = pos /\ c = Current /\ i = c.at
        /\ y = IF Current.kind = "text" THEN x \o Current.pieces ELSE x
  OBVIOUS
<1>2. /\ k \in Nat /\ m \in Messages /\ Len(body) \in Nat /\ w # "anthropic" /\ b[k + 1] = c
      /\ \/ i \notin DOMAIN m.blocks /\ c.type \in {"open", "stop", "close"}
         \/ NextOfBlock(m, w, i, Got(b, k, i), c)
      /\ c.type = "close" => c = TheClose
  BY <1>1, LosslessChunk DEF Current, Framed
<1>3. NextOfBlock(m, w, i, Got(b, k, i), c) =>
        /\ i \in DOMAIN m.blocks /\ c.kind = m.blocks[i].kind /\ c.type = "piece"
        /\ c.pieces = <<m.blocks[i].pieces[Got(b, k, i) + 1]>>
  BY <1>2 DEF NextOfBlock
<1>4. c.type \in {"open", "piece", "stop", "close"} /\ (c.type = "close" => i \notin DOMAIN m.blocks)
  BY <1>2, <1>3
<1>5. i \notin DOMAIN m.blocks => c.kind = ""
  BY <1>1, QuietChunk
<1>6. Learned(m, w, b, k, t, x, s, u)
  BY <1>1
<1>7. Closed(b, k + 1) <=> Closed(b, k) \/ c.type = "close"
  BY <1>2, ClosedLemma
<1>8. w \in {"openai", "ollama"} => y = Flat(SaidSoFar(m, b, k + 1))
  <2> SUFFICES ASSUME w \in {"openai", "ollama"} PROVE y = Flat(SaidSoFar(m, b, k + 1))
    OBVIOUS
  <2>1. x = Flat(SaidSoFar(m, b, k))
    BY <1>6 DEF Learned
  <2>2. CASE c.kind # "text"
    <3>1. b[k + 1].at \notin DOMAIN m.blocks \/ m.blocks[b[k + 1].at].kind # "text"
      BY <1>1, <1>2, <1>3, <2>2
    <3>2. SaidSoFar(m, b, k + 1) = SaidSoFar(m, b, k)
      BY <1>2, <3>1, SaidSame
    <3> QED BY <1>1, <2>1, <2>2, <3>2
  <2>3. CASE c.kind = "text"
    <3>1. PICK p : p = <<m.blocks[i].pieces[Got(b, k, i) + 1]>>
      OBVIOUS
    <3>2. i \in DOMAIN m.blocks /\ m.blocks[i].kind = "text" /\ c.pieces = p /\ b[k + 1].at = i
      BY <1>1, <1>2, <1>3, <1>5, <2>3, <3>1
    <3>3. /\ \A j \in DOMAIN m.blocks : Got(b, k + 1, j) <= Len(m.blocks[j].pieces)
          /\ \A j \in DOMAIN m.blocks : j > i => Got(b, k + 1, j) = 0
      <4>1. Current.at \in DOMAIN message.blocks
        BY <1>1, <3>2
      <4>2. /\ \A j \in DOMAIN message.blocks : Got(body, pos + 1, j) <= Len(message.blocks[j].pieces)
            /\ \A j \in DOMAIN message.blocks : j > Current.at => Got(body, pos + 1, j) = 0
        BY <4>1, PlainOrder
      <4> QED BY <1>1, <4>2
    <3>4. k \in Nat /\ m \in Messages
      BY <1>2
    <3>5. SaysOn(m, b, k, i, p)
      BY <3>1, <3>2, <3>3, <3>4, SaidMore
    <3> QED BY <1>1, <2>1, <2>3, <3>2, <3>5 DEF SaysOn
  <2> QED BY <2>2, <2>3
<1>9. w \in {"openai", "ollama"} =>
        /\ c.type # "close" => Summing(m, w, b, k + 1, s, u)
        /\ c.type = "close" => Summing(m, w, b, k + 1, StopOf(m, w), m.usage)
  BY <1>2, <1>6, SummingSteps DEF Learned
<1>10. c.type # "close" => Learned(m, w, b, k + 1, t, y, s, u)
  <2> SUFFICES ASSUME c.type # "close" PROVE Learned(m, w, b, k + 1, t, y, s, u)
    OBVIOUS
  <2>1. w = "responses" => (t = NoResponse <=> ~Closed(b, k + 1))
    BY <1>6, <1>7 DEF Learned
  <2> QED BY <1>8, <1>9, <2>1 DEF Learned
<1>11. ASSUME c.type = "close", NEW r, r # NoResponse
       PROVE  Learned(m, w, b, k + 1, r, x, c.stop, c.usage)
  <2>1. c.stop = StopOf(m, w) /\ c.usage = m.usage
    BY <1>1, <1>2, <1>11 DEF TheClose, Closing, Blank, StopOf
  <2>2. y = x
    BY <1>1, <1>4, <1>5, <1>11
  <2>3. Closed(b, k + 1)
    BY <1>7, <1>11
  <2>4. w \in {"openai", "ollama"} => Summing(m, w, b, k + 1, c.stop, c.usage)
    BY <1>9, <1>11, <2>1
  <2> QED BY <1>8, <1>11, <2>2, <2>3, <2>4 DEF Learned
<1> QED BY <1>1, <1>2, <1>4, <1>10, <1>11

\* The whole size.
LEMMA SizeIs == ASSUME IsSeq(body) PROVE Size = Charged(body, wire, Len(body))
BY SeqPlaces DEF Size, Charged

\* What the decoder knows where it stands.
LEMMA PlainNow ==
  ASSUME ProviderInv, PlainInv, Lossless, NEW w, w # "anthropic",
         pc = "decode", wire = w
  PROVE  /\ ~Framed /\ pos \in Nat /\ pos <= Len(body) /\ Len(body) \in Nat /\ limit \in Nat
         /\ acc.taken = Charged(body, wire, pos) /\ acc.taken <= limit
         /\ Learned(message, wire, body, pos, acc.terminal, acc.text, acc.stop, acc.usage)
<1>1. ~Framed
  BY DEF Framed
<1>2. Len(body) \in Nat /\ limit \in Nat
  BY SeqPlaces, StreamsAssumption DEF ProviderInv
<1> QED BY <1>1, <1>2 DEF PlainInv

\* A chunk that counts.
LEMMA PlainCounts ==
  ASSUME ProviderInv, PlainInv, pc = "decode", NEW w, w # "anthropic", wire = w, pos < Len(body),
         ~(w = "openai" /\ Current.type = "stop"),
         NEW next, DOMAIN next = AccFields, next.taken = acc.taken, Counted(next),
         Lossless => Learned(message, wire, body, pos + 1, next.terminal, next.text, next.stop, next.usage)
  PROVE  PlainInv'
<1>1. PICK b, k, n, l, x, f : /\ b = body /\ k = pos /\ n = Len(body) /\ l = limit /\ x = acc.taken /\ f = next.taken + 1
  OBVIOUS
<1>2. Lossless => /\ ~Framed /\ k \in Nat /\ n \in Nat /\ k + 1 <= n /\ l \in Nat
                  /\ x = Charged(b, w, k) /\ x <= l /\ x \in Nat
                  /\ Charged(b, w, k + 1) = x + 1 /\ Charged(b, w, k + 1) <= Charged(b, w, n)
  <2> SUFFICES ASSUME Lossless
               PROVE  /\ ~Framed /\ k \in Nat /\ n \in Nat /\ k + 1 <= n /\ l \in Nat
                      /\ x = Charged(b, w, k) /\ x <= l /\ x \in Nat
                      /\ Charged(b, w, k + 1) = x + 1 /\ Charged(b, w, k + 1) <= Charged(b, w, n)
    OBVIOUS
  <2>1. /\ ~Framed /\ k \in Nat /\ n \in Nat /\ l \in Nat /\ x = Charged(b, w, k) /\ x <= l
    BY <1>1, PlainNow
  <2>2. k + 1 <= n /\ k + 1 \in Nat /\ b[k + 1] = Current
    BY <1>1, <2>1 DEF Current
  <2>3. x \in Nat /\ Charged(b, w, k + 1) = x + 1
    <3>1. /\ Charged(b, w, k) \in Nat
          /\ Charged(b, w, k + 1) = Charged(b, w, k) + (IF w = "openai" /\ b[k + 1].type = "stop" THEN 0 ELSE 1)
      BY <2>1, ChargedLemma
    <3> QED BY <2>1, <2>2, <3>1
  <2>4. Charged(b, w, k + 1) <= Charged(b, w, n)
    BY <2>1, <2>2, ChargedGrows
  <2> QED BY <2>1, <2>2, <2>3, <2>4
<1>3. CASE x + 1 <= l
  <2>1. PICK A : A = acc'
    OBVIOUS
  <2>2. A = [next EXCEPT !.taken = f] /\ pos' = k + 1 /\ UNCHANGED <<provider, pc, result>>
    BY <1>1, <1>3, <2>1 DEF Counted, RoomForOne, Take
  <2>3. A.taken = x + 1 /\ A.terminal = next.terminal /\ A.text = next.text
        /\ A.stop = next.stop /\ A.usage = next.usage
    BY <1>1, <2>2 DEF AccFields
  <2>4. PICK P : P = k + 1
    OBVIOUS
  <2>5. ASSUME Lossless
        PROVE  /\ P \in Nat /\ P <= n /\ A.taken = Charged(b, w, P) /\ A.taken <= l
               /\ Learned(message, wire, b, P, A.terminal, A.text, A.stop, A.usage)
    BY <1>1, <1>2, <1>3, <2>3, <2>4, <2>5
  <2>6. /\ pos' = P /\ pc' = "decode" /\ acc' = A /\ body' = b /\ message' = message /\ wire' = w /\ limit' = l
        /\ (Lossless <=> Lossless')
    BY <1>1, <2>1, <2>2, <2>4, ProviderSame
  <2> QED BY <1>1, <2>5, <2>6 DEF PlainInv
<1>4. CASE ~(x + 1 <= l)
  <2>1. pc' = "error" /\ UNCHANGED <<provider, result>>
    BY <1>1, <1>4 DEF Counted, RoomForOne, Fail
  <2>2. Lossless => Size > l
    <3> SUFFICES ASSUME Lossless PROVE Size > l
      OBVIOUS
    <3>1. Size = Charged(b, w, n)
      BY <1>1, SizeIs DEF ProviderInv
    <3>2. Charged(b, w, n) \in Nat
      BY <1>2, ChargedLemma
    <3>3. PICK z : z = Charged(b, w, n)
      OBVIOUS
    <3> QED BY <1>2, <1>4, <3>1, <3>2, <3>3
  <2>3. Size' = Size /\ limit' = l /\ (Lossless <=> Lossless')
    BY <1>1, <2>1, ProviderSame DEF Size
  <2> QED BY <2>1, <2>2, <2>3 DEF PlainInv
<1> QED BY <1>3, <1>4

\* A failure that a body that is no more than cut does not give, or that
\* its loss explains.
LEMMA PlainFails ==
  ASSUME pc' = "error", UNCHANGED provider, ~Lossless \/ faults # <<>> PROVE PlainInv'
BY ProviderSame DEF PlainInv

\* The end.
LEMMA PlainEnds ==
  ASSUME PlainInv, pc = "decode", UNCHANGED <<provider, pos, acc>>, pc' = "done", pos = Len(body),
         wire \in {"openai", "ollama"} => result' = <<OneText>>
  PROVE  PlainInv'
<1>1. PICK A, o : A = acc /\ o = OneText
  OBVIOUS
<1>2. OneText' = o
  BY <1>1 DEF OneText
<1>3. ASSUME Lossless, ~Framed
      PROVE  /\ pos \in Nat /\ pos <= Len(body)
             /\ A.taken = Charged(body, wire, pos) /\ A.taken <= limit
             /\ Learned(message, wire, body, pos, A.terminal, A.text, A.stop, A.usage)
  BY <1>1, <1>3 DEF PlainInv
<1>4. pos' = pos /\ acc' = A
  BY <1>1
<1> QED BY <1>1, <1>2, <1>3, <1>4, ProviderSame DEF PlainInv

\* Where nothing is missing, there is a close, and it counts.
LEMMA PlainCloses ==
  ASSUME StreamInv, ProviderInv, pc = "decode", faults = <<>>
  PROVE  Closed(body, Len(body)) /\ Charged(body, wire, Len(body)) > 0
<1>1. phase = "over" /\ Len(body) \in Nat
  BY SeqPlaces DEF StreamInv, ProviderInv
<1>2. PICK k \in 1..Len(body) : body[k].type = "close"
  BY <1>1 DEF ProviderInv
<1>3. Closed(body, Len(body))
  BY <1>2 DEF Closed
<1>4. PICK b, w, n : b = body /\ w = wire /\ n = Len(body)
  OBVIOUS
<1>5. n \in Nat /\ k \in 1..n /\ ~(w = "openai" /\ b[k].type = "stop")
  BY <1>1, <1>2, <1>4
<1>6. Charged(b, w, n) > 0
  BY <1>5, ChargedLemma
<1> QED BY <1>3, <1>4, <1>6

\* The Responses decoder keeps what the decoders without blocks have,
LEMMA PlainResponses ==
  ASSUME StreamInv, ProviderInv, DOMAIN acc = AccFields, ResultInv, PlainInv, Responses PROVE PlainInv'
<1>1. wire = "responses" /\ pc = "decode" /\ UNCHANGED provider
  BY WireOf, DecodersLeave
<1>2. PICK t, x, s, u : t = acc.terminal /\ x = acc.text /\ s = acc.stop /\ u = acc.usage
  OBVIOUS
<1>3. Lossless => /\ pos \in Nat /\ pos <= Len(body) /\ Len(body) \in Nat /\ ~Framed
                  /\ Learned(message, wire, body, pos, t, x, s, u)
  BY <1>1, <1>2, PlainNow
<1>4. ASSUME Lossless, pos < Len(body)
      PROVE  /\ Current.type \in {"open", "piece", "stop", "close"}
             /\ Current.type # "close" => Learned(message, wire, body, pos + 1, t, x, s, u)
             /\ Current.type = "close" =>
                  \A r : r # NoResponse => Learned(message, wire, body, pos + 1, r, x, Current.stop, Current.usage)
  <2>1. /\ Current.type \in {"open", "piece", "stop", "close"}
        /\ Current.type # "close" =>
             Learned(message, wire, body, pos + 1, t, IF Current.kind = "text" THEN x \o Current.pieces ELSE x, s, u)
        /\ Current.type = "close" =>
             \A r : r # NoResponse => Learned(message, wire, body, pos + 1, r, x, Current.stop, Current.usage)
    BY <1>3, <1>4, LearnedMore
  <2> QED BY <1>1, <2>1 DEF Learned
<1>5. CASE ResponsesProgress
  <2>1. Counted(acc) /\ pos < Len(body) /\ Current.type \in {"open", "piece"}
    BY <1>5 DEF ResponsesProgress, At
  <2>2. PICK next : next = acc
    OBVIOUS
  <2>3. DOMAIN next = AccFields /\ next.taken = acc.taken /\ Counted(next)
    BY <2>1, <2>2
  <2>4. Lossless => Learned(message, wire, body, pos + 1, next.terminal, next.text, next.stop, next.usage)
    BY <1>2, <1>4, <2>1, <2>2
  <2> QED BY <1>1, <2>1, <2>3, <2>4, PlainCounts
<1>6. CASE ResponsesTerminal
  <2>1. pos < Len(body) /\ Current.type = "close"
    BY <1>6 DEF ResponsesTerminal, At
  <2>2. pos \in Nat /\ pos + 1 \in 1..Len(body) /\ Len(body) \in Nat /\ message \in Messages
    BY <2>1, SeqPlaces DEF StreamInv, ProviderInv
  <2>3. Current = TheClose
    BY <2>1, <2>2 DEF Current, ProviderInv
  <2>4. PICK y : y = FromTerminal(Current)
    OBVIOUS
  <2>5. y # <<>> /\ y # NoResponse
    BY <1>1, <2>2, <2>3, <2>4, TerminalTells DEF NoResponse
  <2>6. CASE t # NoResponse
    <3>1. Fail
      BY <1>2, <1>6, <2>6 DEF ResponsesTerminal
    <3>2. ~Lossless
      <4> SUFFICES ASSUME Lossless PROVE FALSE
        OBVIOUS
      <4>1. Closed(body, pos)
        BY <1>1, <1>3, <2>6 DEF Learned
      <4>2. PICK k \in 1..pos : body[k].type = "close"
        BY <4>1 DEF Closed
      <4>3. k \in 1..Len(body) /\ k # pos + 1 /\ body[pos + 1].type = "close"
        BY <2>1, <2>2 DEF Current
      <4>4. OneClose
        BY LosslessIsCalm DEF ProviderInv, CalmBody
      <4> QED BY <2>2, <4>2, <4>3, <4>4 DEF OneClose
    <3> QED BY <1>1, <3>1, <3>2, PlainFails DEF Fail
  <2>7. CASE t = NoResponse
    <3>1. PICK next : next = [acc EXCEPT !.terminal = y]
      OBVIOUS
    <3>2. /\ DOMAIN next = AccFields /\ next.taken = acc.taken /\ next.terminal = y /\ next.text = x
          /\ next.stop = s /\ next.usage = u
      BY <1>2, <3>1 DEF AccFields
    <3>3. Counted(next)
      BY <1>2, <1>6, <2>4, <2>5, <2>7, <3>1 DEF ResponsesTerminal
    <3>4. Lossless => Learned(message, wire, body, pos + 1, y, x, s, u)
      <4>1. Lossless => Learned(message, wire, body, pos + 1, y, x, Current.stop, Current.usage)
        BY <1>4, <2>1, <2>5
      <4> QED BY <1>1, <4>1 DEF Learned
    <3>5. Lossless => Learned(message, wire, body, pos + 1, next.terminal, next.text, next.stop, next.usage)
      BY <3>2, <3>4
    <3> QED BY <1>1, <2>1, <3>2, <3>3, <3>5, PlainCounts
  <2> QED BY <2>6, <2>7
<1>7. CASE ResponsesError
  <2>1. pos < Len(body) /\ Current.type = "error" /\ Fail
    BY <1>7 DEF ResponsesError, At
  <2>2. ~Lossless
    BY <1>4, <2>1
  <2> QED BY <1>1, <2>1, <2>2, PlainFails DEF Fail
<1>8. CASE ResponsesEnd
  <2>1. pos = Len(body)
    BY <1>8 DEF ResponsesEnd, AtEnd
  <2>2. CASE t = NoResponse
    <3>1. Fail
      BY <1>2, <1>8, <2>2 DEF ResponsesEnd
    <3>2. ~Lossless \/ faults # <<>>
      <4> SUFFICES ASSUME Lossless, faults = <<>> PROVE FALSE
        OBVIOUS
      <4>1. ~Closed(body, pos)
        BY <1>1, <1>3, <2>2 DEF Learned
      <4> QED BY <1>1, <2>1, <4>1, PlainCloses
    <3> QED BY <1>1, <3>1, <3>2, PlainFails DEF Fail
  <2>3. CASE t # NoResponse
    <3>1. UNCHANGED <<provider, pos, acc>> /\ pc' = "done"
      BY <1>2, <1>8, <2>3 DEF ResponsesEnd, Answer
    <3> QED BY <1>1, <2>1, <3>1, PlainEnds
  <2> QED BY <2>2, <2>3
<1> QED BY <1>5, <1>6, <1>7, <1>8 DEF Responses

\* the decoders of one text keep it,
LEMMA PlainOneText ==
  ASSUME StreamInv, ProviderInv, DOMAIN acc = AccFields, PlainInv, OneTextStreams PROVE PlainInv'
<1>1. wire \in {"openai", "ollama"} /\ pc = "decode" /\ UNCHANGED provider
  BY WireOf, DecodersLeave
<1>2. PICK w, t, x, s, u : w = wire /\ t = acc.terminal /\ x = acc.text /\ s = acc.stop /\ u = acc.usage
  OBVIOUS
<1>3. Lossless => /\ pos \in Nat /\ pos <= Len(body) /\ Len(body) \in Nat /\ ~Framed
                  /\ Learned(message, wire, body, pos, t, x, s, u)
  BY <1>1, <1>2, PlainNow
<1>4. PICK y : y = IF Current.kind = "text" THEN x \o Current.pieces ELSE x
  OBVIOUS
<1>5. ASSUME Lossless, pos < Len(body)
      PROVE  /\ Current.type \in {"open", "piece", "stop", "close"}
             /\ Current.type # "close" => Learned(message, wire, body, pos + 1, t, y, s, u)
             /\ Current.type = "close" => Learned(message, wire, body, pos + 1, t, x, Current.stop, Current.usage)
  <2>1. /\ Current.type \in {"open", "piece", "stop", "close"}
        /\ Current.type # "close" =>
             Learned(message, wire, body, pos + 1, t, IF Current.kind = "text" THEN x \o Current.pieces ELSE x, s, u)
        /\ Current.type = "close" =>
             \A r : r # NoResponse => Learned(message, wire, body, pos + 1, r, x, Current.stop, Current.usage)
    BY <1>3, <1>5, LearnedMore
  <2>2. <<1>> # NoResponse
    BY DEF NoResponse
  <2>3. Current.type = "close" => Learned(message, wire, body, pos + 1, <<1>>, x, Current.stop, Current.usage)
    BY <2>1, <2>2
  <2>4. Current.type = "close" => Learned(message, wire, body, pos + 1, t, x, Current.stop, Current.usage)
    BY <1>1, <2>3 DEF Learned
  <2> QED BY <1>4, <2>1, <2>4
<1>6. CASE OpenaiPiece \/ OllamaLine
  <2>1. PICK next : next = [acc EXCEPT !.text = y]
    OBVIOUS
  <2>2. /\ DOMAIN next = AccFields /\ next.taken = acc.taken /\ next.terminal = t /\ next.text = y
        /\ next.stop = s /\ next.usage = u
    BY <1>2, <2>1 DEF AccFields
  <2>3. y = Said(Current)
    BY <1>2, <1>4 DEF Said
  <2>4. Counted(next) /\ pos < Len(body) /\ Current.type \in {"open", "piece", "error"}
    BY <1>6, <2>1, <2>3 DEF OpenaiPiece, OllamaLine, At
  <2>5. Lossless => Learned(message, wire, body, pos + 1, next.terminal, next.text, next.stop, next.usage)
    BY <1>5, <2>2, <2>4
  <2>6. ~(w = "openai" /\ Current.type = "stop") /\ w # "anthropic" /\ wire = w
    BY <1>1, <1>2, <2>4
  <2> QED BY <1>1, <2>2, <2>4, <2>5, <2>6, PlainCounts
<1>7. CASE OpenaiClose \/ OllamaDone
  <2>1. PICK a, c, next : a = Current.stop /\ c = Current.usage /\ next = [acc EXCEPT !.stop = a, !.usage = c]
    OBVIOUS
  <2>2. /\ DOMAIN next = AccFields /\ next.taken = acc.taken /\ next.terminal = t /\ next.text = x
        /\ next.stop = a /\ next.usage = c
    BY <1>2, <2>1 DEF AccFields
  <2>3. Counted(next) /\ pos < Len(body) /\ Current.type = "close"
    BY <1>7, <2>1 DEF OpenaiClose, OllamaDone, Summed, At
  <2>4. Lossless => Learned(message, wire, body, pos + 1, next.terminal, next.text, next.stop, next.usage)
    BY <1>5, <2>1, <2>2, <2>3
  <2>5. ~(w = "openai" /\ Current.type = "stop") /\ w # "anthropic" /\ wire = w
    BY <1>1, <1>2, <2>3
  <2> QED BY <1>1, <2>2, <2>3, <2>4, <2>5, PlainCounts
<1>8. CASE OpenaiDone
  <2>1. wire = "openai" /\ pos < Len(body) /\ Current.type = "stop" /\ acc' = acc /\ pos' = pos + 1
        /\ UNCHANGED <<provider, pc, result>>
    BY <1>8 DEF OpenaiDone, At, Take
  <2>2. PICK A, b, k, n, v : A = acc /\ b = body /\ k = pos + 1 /\ n = Len(body) /\ v = limit
    OBVIOUS
  <2>3. ASSUME Lossless
        PROVE  /\ k \in Nat /\ k <= n /\ A.taken = Charged(b, w, k) /\ A.taken <= v
               /\ Learned(message, wire, b, k, A.terminal, A.text, A.stop, A.usage)
    <3>1. pos \in Nat /\ n \in Nat /\ A.taken = Charged(b, w, pos) /\ A.taken <= v
      BY <1>1, <1>2, <2>1, <2>2, <2>3, PlainNow
    <3>2. Charged(b, w, k) = Charged(b, w, pos)
      <4>1. PICK p : p = pos
        OBVIOUS
      <4>2. p \in Nat /\ w = "openai" /\ b[p + 1].type = "stop"
        BY <1>2, <2>1, <2>2, <3>1, <4>1 DEF Current
      <4>3. Charged(b, w, p) \in Nat /\
            Charged(b, w, p + 1) = Charged(b, w, p) + (IF w = "openai" /\ b[p + 1].type = "stop" THEN 0 ELSE 1)
        BY <4>2, ChargedLemma
      <4> QED BY <2>2, <4>1, <4>2, <4>3
    <3>3. Current.kind = ""
      <4>1. wire # "anthropic" /\ (Current.at \notin DOMAIN message.blocks
              \/ NextOfBlock(message, wire, Current.at, Got(body, pos, Current.at), Current))
        BY <2>1, <2>3, <3>1, LosslessChunk
      <4>2. Current.at \notin DOMAIN message.blocks
        BY <2>1, <4>1 DEF NextOfBlock
      <4> QED BY <2>1, <2>3, <3>1, <4>2, QuietChunk
    <3>4. y = x
      BY <1>4, <3>3
    <3>5. Learned(message, wire, b, k, A.terminal, A.text, A.stop, A.usage)
      BY <1>2, <1>5, <2>1, <2>2, <2>3, <3>4
    <3> QED BY <2>1, <2>2, <3>1, <3>2, <3>5
  <2>4. /\ pos' = k /\ pc' = "decode" /\ acc' = A /\ body' = b /\ message' = message /\ wire' = w /\ limit' = v
        /\ (Lossless <=> Lossless')
    BY <1>1, <1>2, <2>1, <2>2, ProviderSame
  <2> QED BY <1>2, <2>2, <2>3, <2>4 DEF PlainInv
<1>9. CASE OpenaiError
  <2>1. pos < Len(body) /\ Current.type = "error" /\ pc' = "done"
    BY <1>9 DEF OpenaiError, At, Answer
  <2>2. ~Lossless
    BY <1>5, <2>1
  <2>3. ~Lossless'
    BY <1>1, <2>2, ProviderSame
  <2> QED BY <2>3 DEF PlainInv
<1>10. CASE OneTextEnd
  <2>1. pos = Len(body)
    BY <1>10 DEF OneTextEnd, AtEnd
  <2>2. CASE acc.taken = 0
    <3>1. Fail
      BY <1>10, <2>2 DEF OneTextEnd
    <3>2. ~Lossless \/ faults # <<>>
      <4> SUFFICES ASSUME Lossless, faults = <<>> PROVE FALSE
        OBVIOUS
      <4>1. acc.taken = Charged(body, wire, pos)
        BY <1>1, <1>2, PlainNow
      <4> QED BY <1>1, <2>1, <2>2, <4>1, PlainCloses
    <3> QED BY <1>1, <3>1, <3>2, PlainFails DEF Fail
  <2>3. CASE acc.taken # 0
    <3>1. UNCHANGED <<provider, pos, acc>> /\ pc' = "done" /\ result' = <<OneText>>
      BY <1>10, <2>3 DEF OneTextEnd, Answer
    <3> QED BY <1>1, <2>1, <3>1, PlainEnds
  <2> QED BY <2>2, <2>3
<1> QED BY <1>6, <1>7, <1>8, <1>9, <1>10 DEF OneTextStreams

\* The body is handed over.
LEMMA PlainBegins ==
  ASSUME ProviderInv, TaleInv, PlainInv, Open PROVE PlainInv'
<1>1. acc = Empty /\ pos = 0 /\ acc' = acc /\ pos' = pos /\ UNCHANGED provider
      /\ pc' = IF Refused THEN "error" ELSE "decode"
  BY DEF Open, TaleInv
<1>2. PICK m, w, b, A, l : m = message /\ w = wire /\ b = body /\ A = acc /\ l = limit
  OBVIOUS
<1>3. A.text = <<>> /\ A.stop = "stop" /\ A.usage = 0 /\ A.terminal = NoResponse /\ A.taken = 0
  BY <1>1, <1>2 DEF Empty
<1>4. Len(b) \in Nat /\ l \in Nat /\ m \in Messages
  BY <1>2, SeqPlaces, StreamsAssumption DEF ProviderInv
<1>5. ~Closed(b, 0) /\ Summing(m, w, b, 0, "stop", 0)
  BY ClosedLemma DEF Summing
<1>6. Charged(b, w, 0) = 0
  BY ChargedLemma
<1>7. Flat(SaidSoFar(m, b, 0)) = <<>>
  <2>1. PICK n, F : n = Len(m.blocks) /\ F = SaidSoFar(m, b, 0)
    OBVIOUS
  <2>2. /\ \A i \in DOMAIN m.blocks : Got(b, 0, i) = 0
        /\ \A i \in DOMAIN m.blocks : Len(m.blocks[i].pieces) \in Nat /\ IsSeq(m.blocks[i].pieces)
    BY <1>4, BlockTypes, GotLemma
  <2>3. n \in Nat /\ DOMAIN m.blocks = 1..n /\ Len(F) = n
    <3>1. \A i \in DOMAIN m.blocks : Got(b, 0, i) <= Len(m.blocks[i].pieces)
      BY <2>2
    <3> QED BY <1>4, <2>1, <3>1, SaidParts
  <2>4. ASSUME NEW i \in 1..n PROVE F[i] = <<>>
    <3>1. First(m.blocks[i].pieces, 0) = <<>>
      BY <2>2, <2>3, FirstMore DEF IsSeq
    <3> QED BY <2>1, <2>2, <2>3, <3>1 DEF SaidSoFar
  <2>5. PICK Q : Q = [i \in 0..n |-> {<<>>}]
    OBVIOUS
  <2>6. <<>> \in Q[0] /\ Q[n] = {<<>>}
    BY <2>3, <2>5
  <2>7. ASSUME NEW i \in 1..n, NEW z \in Q[i - 1] PROVE (z \o F[i]) \in Q[i]
    <3>1. z = <<>> /\ i \in 0..n /\ i - 1 \in 0..n
      BY <2>3, <2>5
    <3>2. <<>> \o <<>> = <<>>
      BY ConcatEmptySeq
    <3> QED BY <2>4, <2>5, <3>1, <3>2
  <2>8. Flat(F) \in Q[n]
    BY <2>3, <2>6, <2>7, FlatIn
  <2> QED BY <2>1, <2>6, <2>8
<1>8. Learned(m, w, b, 0, A.terminal, A.text, A.stop, A.usage)
  BY <1>3, <1>5, <1>7 DEF Learned
<1>9. ~Framed => pc' = "decode"
  BY <1>1 DEF Refused, Framed
<1>10. /\ pos' = 0 /\ acc' = A /\ body' = b /\ message' = m /\ wire' = w /\ limit' = l
       /\ (Framed <=> Framed')
  BY <1>1, <1>2, ProviderSame
<1>11. 0 \in Nat /\ 0 <= Len(b) /\ A.taken = Charged(b, w, 0) /\ A.taken <= l
  BY <1>3, <1>4, <1>6
<1> QED BY <1>8, <1>9, <1>10, <1>11 DEF PlainInv

\* and so does every step.
LEMMA PlainSteps ==
  ASSUME StreamInv, ProviderInv, TaleInv, ResultInv, PlainInv, [Next]_vars PROVE PlainInv'
<1>1. DOMAIN acc = AccFields
  BY DEF TaleInv
<1>2. CASE UNCHANGED vars
  <2>1. UNCHANGED provider /\ UNCHANGED <<pos, acc, pc, result>>
    BY <1>2 DEF vars
  <2>2. OneText' = OneText /\ Size' = Size
    BY <2>1, ProviderSame DEF OneText, Size
  <2> QED BY <2>1, <2>2, ProviderSame DEF PlainInv
<1>3. CASE Provide
  <2>1. phase # "over" /\ UNCHANGED <<pos, acc, pc, result>>
    BY <1>3 DEF Provide, Begin, SendBlock, Close, Stop, BreakOff, Cut
  <2>2. pc = "stream" /\ pc' = "stream"
    BY <2>1 DEF StreamInv
  <2> QED BY <2>2 DEF PlainInv
<1>4. CASE Anthropic
  <2>1. Framed'
    BY <1>4, WireOf, DecodersLeave, ProviderSame
  <2> QED BY <2>1 DEF PlainInv
<1>5. CASE Open
  BY <1>5, PlainBegins
<1> QED BY <1>1, <1>2, <1>3, <1>4, <1>5, PlainResponses, PlainOneText DEF Next, Decode, Halted

-----------------------------------------------------------------------------
(* What comes of it. *)

StreamsInv == StreamInv /\ ProviderInv /\ TaleInv /\ FramedInv /\ ResultInv /\ PlainInv

\* What was to be said, block by block.
ToSay(m) == [i \in DOMAIN m.blocks |-> IF m.blocks[i].kind = "text" THEN m.blocks[i].pieces ELSE <<>>]

\* These are sequences of pieces.
LEMMA ToSayLemma ==
  ASSUME NEW m \in Messages
  PROVE  /\ Len(ToSay(m)) = Len(m.blocks)
         /\ \A i \in DOMAIN m.blocks :
              ToSay(m)[i] \in Seq(UNION {ToSet(m.blocks[j].pieces) : j \in DOMAIN m.blocks})
<1>1. PICK n, B, S, F : /\ n = Len(m.blocks) /\ B = m.blocks /\ F = ToSay(m)
                        /\ S = UNION {ToSet(B[j].pieces) : j \in DOMAIN B}
  OBVIOUS
<1>2. /\ n \in Nat /\ DOMAIN B = 1..n
      /\ \A i \in 1..n : /\ IsSeq(B[i].pieces) /\ Len(B[i].pieces) \in Nat
                         /\ DOMAIN B[i].pieces = 1..Len(B[i].pieces)
  BY <1>1, BlockTypes
<1>3. F = [i \in 1..n |-> IF B[i].kind = "text" THEN B[i].pieces ELSE <<>>]
  BY <1>1, <1>2 DEF ToSay
<1>4. F = [i \in 1..n |-> F[i]]
  BY <1>3
<1>5. Len(F) = n
  BY <1>2, <1>4, FunSeq
<1>6. ASSUME NEW i \in 1..n PROVE F[i] \in Seq(S)
  <2>1. PICK P : P = B[i].pieces
    OBVIOUS
  <2>2. P \in Seq({P[l] : l \in 1..Len(P)})
    BY <1>2, <2>1 DEF IsSeq
  <2>3. ToSet(P) = {P[l] : l \in 1..Len(P)}
    BY <1>2, <2>1 DEF ToSet
  <2>4. ToSet(P) \subseteq S
    BY <1>1, <1>2, <2>1
  <2>5. P \in Seq(S) /\ <<>> \in Seq(S)
    BY <2>2, <2>3, <2>4, SeqMonotonic
  <2> QED BY <1>3, <2>1, <2>5
<1> QED BY <1>1, <1>2, <1>5, <1>6

\* A sequence begins a longer one.
LEMMA BeginsLonger ==
  ASSUME NEW S, NEW s \in Seq(S), NEW u \in Seq(S)
  PROVE  IsPrefix(s, s \o u)
<1>1. PICK t : t = s \o u
  OBVIOUS
<1>2. Len(s) \in Nat /\ Len(u) \in Nat
  BY LenProperties
<1>3. Len(t) = Len(s) + Len(u)
  BY <1>1, ConcatProperties
<1>4. SubSeq(s \o u, 1, Len(s)) = SubSeq(s, 1, Len(s))
  <2>1. PICK n : n = Len(s)
    OBVIOUS
  <2>2. CASE n = 0
    <3>1. 1 \in Int /\ n \in Int /\ n < 1
      BY <2>2
    <3>2. SubSeq(t, 1, n) = <<>> /\ SubSeq(s, 1, n) = <<>>
      BY <3>1, SubSeqEmpty
    <3> QED BY <1>1, <2>1, <3>2
  <2>3. CASE n # 0
    <3>1. 1 \in 1..Len(s) /\ n \in 1..Len(s)
      BY <1>2, <2>1, <2>3
    <3>2. SubSeq(s \o u, 1, n) = SubSeq(s, 1, n)
      BY <3>1, SubSeqOfConcat1
    <3> QED BY <2>1, <3>2
  <2> QED BY <2>2, <2>3
<1> QED BY <1>1, <1>2, <1>3, <1>4 DEF IsPrefix

\* What is said is the beginning of what was to be said, and all of it when
\* everything came.
LEMMA SaidBegins ==
  ASSUME ProviderInv, Lossless, ~Framed
  PROVE  /\ IsPrefix(Flat(SaidSoFar(message, body, Len(body))), Spoken)
         /\ AllSent => Flat(SaidSoFar(message, body, Len(body))) = Spoken
<1>1. /\ Len(body) \in Nat /\ CalmBody /\ LosslessBody /\ message \in Messages
      /\ \A i \in DOMAIN sent : sent[i] <= Whole(i) /\ sent[i] \in Nat
      /\ DOMAIN sent = DOMAIN message.blocks
  BY LosslessIsCalm, SeqPlaces DEF ProviderInv
<1>2. PICK m, b, k, n, B, S, F, G :
        /\ m = message /\ b = body /\ k = Len(body) /\ B = m.blocks /\ n = Len(m.blocks)
        /\ F = SaidSoFar(m, b, k) /\ G = ToSay(m)
        /\ S = UNION {ToSet(B[j].pieces) : j \in DOMAIN B}
  OBVIOUS
<1>3. /\ n \in Nat /\ DOMAIN B = 1..n /\ k \in Nat
      /\ \A i \in 1..n : Len(B[i].pieces) \in Nat /\ IsSeq(B[i].pieces)
  BY <1>1, <1>2, BlockTypes
<1>4. \A i \in 1..n : /\ Got(b, k, i) = sent[i] /\ Whole(i) = Len(B[i].pieces)
                      /\ Got(b, k, i) \in Nat /\ Got(b, k, i) <= Len(B[i].pieces)
  <2> SUFFICES ASSUME NEW i \in 1..n
               PROVE  /\ Got(b, k, i) = sent[i] /\ Whole(i) = Len(B[i].pieces)
                      /\ Got(b, k, i) \in Nat /\ Got(b, k, i) <= Len(B[i].pieces)
    OBVIOUS
  <2>1. i \in DOMAIN sent
    BY <1>1, <1>2, <1>3
  <2>2. Got(b, k, i) = sent[i] /\ sent[i] <= Whole(i) /\ sent[i] \in Nat
    BY <1>1, <1>2, <2>1 DEF LosslessBody
  <2>3. Whole(i) = Len(B[i].pieces) + 0
    BY <1>2 DEF Whole, Pieces
  <2>4. Whole(i) = Len(B[i].pieces)
    BY <1>3, <2>3
  <2> QED BY <2>2, <2>4
<1>5. /\ Len(F) = n /\ Len(G) = n
      /\ \A j \in 1..n : F[j] \in Seq(S) /\ G[j] \in Seq(S)
  <2>1. \A i \in DOMAIN m.blocks : Got(b, k, i) <= Len(m.blocks[i].pieces)
    BY <1>2, <1>3, <1>4
  <2>a. m \in Messages /\ k \in Nat
    BY <1>1, <1>2
  <2>b. /\ Len(SaidSoFar(m, b, k)) = Len(m.blocks)
        /\ \A i \in DOMAIN m.blocks :
             SaidSoFar(m, b, k)[i] \in Seq(UNION {ToSet(m.blocks[j].pieces) : j \in DOMAIN m.blocks})
    BY <2>1, <2>a, SaidParts
  <2>2. Len(F) = n /\ \A j \in DOMAIN B : F[j] \in Seq(S)
    BY <1>2, <2>b
  <2>3. Len(G) = n /\ \A j \in DOMAIN B : G[j] \in Seq(S)
    BY <1>1, <1>2, ToSayLemma
  <2> QED BY <1>3, <2>2, <2>3
<1>6. /\ F = [j \in 1..n |-> IF B[j].kind = "text" THEN First(B[j].pieces, Got(b, k, j)) ELSE <<>>]
      /\ G = [j \in 1..n |-> IF B[j].kind = "text" THEN B[j].pieces ELSE <<>>]
  BY <1>2, <1>3 DEF SaidSoFar, ToSay
<1>7. Spoken = Flat(G)
  BY <1>2 DEF Spoken, ToSay
<1>8. ASSUME NEW j \in 1..n
      PROVE  /\ Got(b, k, j) = Len(B[j].pieces) => F[j] = G[j]
             /\ Got(b, k, j) = 0 => F[j] = <<>>
  <2>1. B[j].pieces \in Seq({B[j].pieces[l] : l \in 1..Len(B[j].pieces)})
    BY <1>3, <1>8 DEF IsSeq
  <2>2. First(B[j].pieces, 0) = <<>> /\ First(B[j].pieces, Len(B[j].pieces)) = B[j].pieces
    BY <2>1, FirstMore
  <2> QED BY <1>6, <2>2
<1>9. (\A j \in 1..n : F[j] = G[j]) => F = G
  BY <1>6
<1>10. AllSent => F = G
  <2> SUFFICES ASSUME AllSent, NEW j \in 1..n PROVE F[j] = G[j]
    BY <1>9
  <2>1. sent[j] = Whole(j)
    BY <1>1, <1>2, <1>3 DEF AllSent
  <2> QED BY <1>4, <1>8, <2>1
<1>11. CASE n = 0
  <2>1. F = G
    BY <1>9, <1>11
  <2>2. PICK Q : Q = [i \in 0..n |-> Seq(S)]
    OBVIOUS
  <2>3. <<>> \in Q[0] /\ Q[n] = Seq(S)
    BY <1>3, <2>2
  <2>4. \A i \in 1..n : \A y \in Q[i - 1] : (y \o F[i]) \in Q[i]
    BY <1>11
  <2>5. Flat(F) \in Seq(S)
    BY <1>3, <1>5, <2>3, <2>4, FlatIn
  <2>6. <<>> \in Seq(S) /\ Flat(F) \o <<>> = Flat(F)
    BY <2>5, ConcatEmptySeq
  <2>7. IsPrefix(Flat(F), Flat(F) \o <<>>)
    BY <2>5, <2>6, BeginsLonger
  <2> QED BY <1>2, <1>7, <2>1, <2>6, <2>7
<1>12. CASE n # 0
  <2>1. PICK i \in 1..n : /\ \A j \in 1..n : j < i => Got(b, k, j) = Len(B[j].pieces)
                          /\ \A j \in 1..n : j > i => Got(b, k, j) = 0
    <3>1. PICK T : T = {j \in 1..n : Got(b, k, j) # 0}
      OBVIOUS
    <3>2. CASE T = {}
      <4>1. 1 \in 1..n /\ \A j \in 1..n : Got(b, k, j) = 0 /\ ~(j < 1)
        BY <1>3, <1>12, <3>1, <3>2
      <4> QED BY <4>1
    <3>3. CASE T # {}
      <4>1. T \subseteq 0..n
        BY <1>3, <3>1
      <4>2. PICK i \in T : \A j \in T : j <= i
        BY <1>3, <3>3, <4>1, GreatestElement
      <4>3. i \in 1..n /\ Got(b, k, i) # 0
        BY <3>1, <4>2
      <4>4. \A j \in 1..n : j > i => Got(b, k, j) = 0
        <5> SUFFICES ASSUME NEW j \in 1..n, j > i, Got(b, k, j) # 0 PROVE FALSE
          OBVIOUS
        <5>1. j \in T /\ j <= i
          BY <3>1, <4>2
        <5> QED BY <4>3, <5>1
      <4>5. PICK l \in 1..k : b[l].at = i
        <5>1. Got(b, k, i) = 0 <=> \A l \in 1..k : b[l].at # i
          BY <1>3, GotLemma
        <5> QED BY <4>3, <5>1
      <4>6. \A j \in DOMAIN sent : j < i => sent[j] = Whole(j)
        <5>1. WasSent /\ l \in 1..Len(body) /\ body[l].at = i /\ i # 0
          BY <1>1, <1>2, <4>3, <4>5 DEF CalmBody
        <5> QED BY <5>1 DEF WasSent
      <4>7. \A j \in 1..n : j < i => Got(b, k, j) = Len(B[j].pieces)
        BY <1>1, <1>2, <1>3, <1>4, <4>6
      <4> QED BY <4>3, <4>4, <4>7
    <3> QED BY <3>2, <3>3
  <2>2. PICK t \in Seq(S) : G[i] = F[i] \o t
    <3>1. PICK P, g : P = B[i].pieces /\ g = Got(b, k, i)
      OBVIOUS
    <3>2. CASE B[i].kind = "text"
      <4>1. G[i] = P /\ F[i] = First(P, g) /\ P \in Seq(S) /\ Len(P) \in Nat /\ g \in Nat /\ g <= Len(P)
        BY <1>3, <1>4, <1>5, <1>6, <3>1, <3>2
      <4>2. PICK z : z = Len(P)
        OBVIOUS
      <4>3. 1 \in 1..(Len(P) + 1) /\ g \in (1 - 1)..Len(P) /\ z \in g..Len(P)
        BY <4>1, <4>2
      <4>4. SubSeq(P, 1, g) \o SubSeq(P, g + 1, z) = SubSeq(P, 1, z)
        BY <4>1, <4>3, ConcatAdjacentSubSeq
      <4>5. SubSeq(P, 1, Len(P)) = P
        BY <4>1, SubSeqFull
      <4>6. SubSeq(P, g + 1, z) \in Seq(S)
        <5>1. \A l \in (g + 1)..z : P[l] \in S
          <6>1. \A l \in (g + 1)..z : l \in 1..Len(P)
            BY <4>1, <4>2
          <6> QED BY <4>1, <6>1, ElementOfSeq
        <5>2. g + 1 \in Int /\ z \in Int
          BY <4>1, <4>2
        <5> QED BY <4>1, <5>1, <5>2, SubSeqProperties
      <4> QED BY <4>1, <4>2, <4>4, <4>5, <4>6 DEF First
    <3>3. CASE B[i].kind # "text"
      <4>1. F[i] = <<>> /\ G[i] = <<>>
        BY <1>6, <3>3
      <4>2. <<>> \in Seq(S) /\ <<>> \o <<>> = <<>>
        BY ConcatEmptySeq
      <4> QED BY <4>1, <4>2
    <3> QED BY <3>2, <3>3
  <2>3. Overtakes(G, F, S, n, i, t)
    BY <1>5, <1>8, <2>1, <2>2 DEF Overtakes
  <2>4. GoesOn(G, F, S, n, i, t)
    BY <1>3, <2>3, FlatFollows
  <2>5. PICK u \in Seq(S) : Flat(G) = Flat(F) \o u
    BY <2>4 DEF GoesOn
  <2>6. Flat(F) \in Seq(S)
    <3>1. PICK Q : Q = [j \in 0..n |-> Seq(S)]
      OBVIOUS
    <3>2. <<>> \in Q[0] /\ Q[n] = Seq(S)
      BY <1>3, <3>1
    <3>3. ASSUME NEW j \in 1..n, NEW y \in Q[j - 1] PROVE (y \o F[j]) \in Q[j]
      <4>1. y \in Seq(S) /\ F[j] \in Seq(S) /\ Q[j] = Seq(S)
        <5>1. j - 1 \in 0..n /\ j \in 0..n
          BY <1>3
        <5> QED BY <1>5, <3>1, <5>1
      <4> QED BY <4>1, ConcatProperties
    <3> QED BY <1>3, <1>5, <3>2, <3>3, FlatIn
  <2>7. IsPrefix(Flat(F), Flat(F) \o u)
    BY <2>5, <2>6, BeginsLonger
  <2> QED BY <1>2, <1>7, <1>10, <2>5, <2>7
<1> QED BY <1>11, <1>12

\* What the Anthropic decoder answers.
LEMMA FramedAnswers ==
  ASSUME ProviderInv, TaleInv, FramedInv, Lossless, Framed, pc = "done"
  PROVE  /\ Len(body) \in Nat /\ ~Refused /\ message \in Messages
         /\ result = <<Reply(acc.blocks, acc.stop, acc.usage)>>
         /\ Folded(message, body, Len(body), acc.blocks)
         /\ Summing(message, wire, body, Len(body), acc.stop, acc.usage)
<1>1. PICK E : E = acc.events
  OBVIOUS
<1>2. /\ Tale(message, body, pos, acc.blocks, E, acc.stop, acc.usage)
      /\ CalledIn(E, "final") = {Len(E)} /\ result = E[Len(E)].response
  BY <1>1, LosslessIsCalm DEF TaleInv
<1>3. Len(E) \in CalledIn(E, "final")
  BY <1>2
<1>4. pos = Len(body) /\ E[Len(E)].response = <<Reply(acc.blocks, acc.stop, acc.usage)>>
  BY <1>2, <1>3 DEF Tale
<1>5. /\ ~Refused /\ Folded(message, body, pos, acc.blocks)
      /\ Summing(message, wire, body, pos, acc.stop, acc.usage)
  BY DEF FramedInv
<1> QED BY <1>2, <1>4, <1>5, SeqPlaces DEF ProviderInv

\* A block of which n chunks came, in the answer.
KindOf(m, i) == IF m.blocks[i].kind = "tool" THEN "tool" ELSE "text"
IdOf(m, i) == IF m.blocks[i].kind = "tool" THEN i ELSE 0
\* It has the kind and id it should, and a beginning of the pieces.
LEMMA PartAfter ==
  ASSUME NEW m \in Messages, NEW i \in DOMAIN m.blocks, NEW n \in Nat, n # 0, n <= Len(m.blocks[i].pieces) + 2,
         NEW x, x = BlockPart(BlockAfter(m, i, n))
  PROVE  /\ x.kind = KindOf(m, i) /\ x.id = IdOf(m, i)
         /\ IsPrefix(x.pieces, m.blocks[i].pieces)
         /\ m.blocks[i].kind = "tool" => x.pieces \in {<<>>, m.blocks[i].pieces}
         /\ n = Len(m.blocks[i].pieces) + 2 => x = Part(KindOf(m, i), IdOf(m, i), m.blocks[i].pieces)
<1>1. PICK P, S : P = m.blocks[i].pieces /\ S = {P[l] : l \in 1..Len(P)}
  OBVIOUS
<1>2. P \in Seq(S) /\ Len(P) \in Nat
  <2>1. IsSeq(m.blocks[i].pieces) /\ Len(m.blocks[i].pieces) \in Nat
    BY BlockTypes
  <2>2. IsSeq(P) /\ Len(P) \in Nat
    BY <1>1, <2>1
  <2> QED BY <1>1, <2>2 DEF IsSeq
<1>3. First(P, 0) = <<>> /\ First(P, Len(P)) = P
  BY <1>2, FirstMore
<1>4. \A k \in 0..Len(P) : IsPrefix(First(P, k), P)
  BY <1>2, FirstLemma
<1>5. IsPrefix(<<>>, P) /\ IsPrefix(P, P)
  <2>1. 0 \in 0..Len(P) /\ Len(P) \in 0..Len(P)
    BY <1>2
  <2>2. IsPrefix(First(P, 0), P) /\ IsPrefix(First(P, Len(P)), P)
    BY <1>4, <2>1
  <2> QED BY <1>3, <2>2
<1>6. PICK b, q : b = BlockAfter(m, i, n) /\ q = (IF n = Len(P) + 2 THEN P ELSE First(P, n - 1))
  OBVIOUS
<1>7. IsPrefix(q, P)
  <2>1. n # Len(P) + 2 => n - 1 \in 0..Len(P)
    BY <1>1, <1>2
  <2> QED BY <1>4, <1>5, <1>6, <2>1
<1>8. CASE m.blocks[i].kind = "tool"
  <2>1. b.kind = "tool" /\ b.id = i /\ b.pieces = IF n = Len(P) + 2 THEN P ELSE <<>>
    BY <1>1, <1>6, <1>8 DEF BlockAfter
  <2>2. x = Part("tool", i, b.pieces)
    BY <1>6, <2>1 DEF BlockPart
  <2>3. x.kind = "tool" /\ x.id = i /\ x.pieces = b.pieces
    BY <2>2 DEF Part
  <2> QED BY <1>1, <1>5, <1>8, <2>1, <2>2, <2>3 DEF KindOf, IdOf
<1>9. CASE m.blocks[i].kind # "tool"
  <2>1. b.kind = "text" /\ b.id = 0 /\ b.pieces = q
    BY <1>1, <1>6, <1>9 DEF BlockAfter, TextBlock
  <2>2. x = Part("text", 0, q)
    BY <1>6, <2>1 DEF BlockPart
  <2>3. x.kind = "text" /\ x.id = 0 /\ x.pieces = q
    BY <2>2 DEF Part
  <2> QED BY <1>1, <1>6, <1>7, <1>9, <2>2, <2>3 DEF KindOf, IdOf
<1> QED BY <1>8, <1>9

\* The part that the Anthropic decoder should make of a block.
LEMMA SeenFramed ==
  ASSUME Framed, NEW i \in DOMAIN message.blocks
  PROVE  Seen(i) = Part(KindOf(message, i), IdOf(message, i), message.blocks[i].pieces)
BY DEF Framed, Seen, KindOf, IdOf

\* How much came of each block.
LEMMA CameOf ==
  ASSUME ProviderInv, Lossless, NEW i \in DOMAIN message.blocks
  PROVE  /\ Got(body, Len(body), i) \in Nat /\ Got(body, Len(body), i) = sent[i]
         /\ Got(body, Len(body), i) <= Whole(i)
         /\ Framed => Whole(i) = Len(message.blocks[i].pieces) + 2
         /\ Len(message.blocks[i].pieces) \in Nat
<1>1. Got(body, Len(body), i) = sent[i] /\ sent[i] \in Nat /\ sent[i] <= Whole(i)
  BY DEF ProviderInv, LosslessBody
<1>2. Len(message.blocks[i].pieces) \in Nat
  BY BlockTypes DEF ProviderInv
<1>3. Framed => Whole(i) = Len(message.blocks[i].pieces) + 2
  BY DEF Whole, Pieces
<1> QED BY <1>1, <1>2, <1>3

\* The answer to the whole stream.
LEMMA FramedWhole ==
  ASSUME ProviderInv, TaleInv, FramedInv, Lossless, Framed, pc = "done", AllSent, Closed(body, Len(body))
  PROVE  result = <<Expected>>
<1>1. PICK m, b, k, n, B, s, u :
        /\ m = message /\ b = body /\ k = Len(body) /\ n = Len(m.blocks)
        /\ B = acc.blocks /\ s = acc.stop /\ u = acc.usage
  OBVIOUS
<1>2. /\ m \in Messages /\ result = <<Reply(B, s, u)>> /\ Folded(m, b, k, B)
      /\ Summing(m, wire, b, k, s, u)
  BY <1>1, FramedAnswers
<1>3. n \in Nat /\ DOMAIN m.blocks = 1..n
  BY <1>1, <1>2, BlockTypes
<1>4. ASSUME NEW i \in 1..n
      PROVE  /\ Got(b, k, i) \in Nat /\ Got(b, k, i) # 0
             /\ Got(b, k, i) = Len(m.blocks[i].pieces) + 2 /\ Len(m.blocks[i].pieces) \in Nat
  <2>1. i \in DOMAIN message.blocks /\ i \in DOMAIN sent
    BY <1>1, <1>3 DEF ProviderInv
  <2>2. /\ Got(body, Len(body), i) \in Nat /\ Got(body, Len(body), i) = sent[i]
        /\ Whole(i) = Len(message.blocks[i].pieces) + 2 /\ Len(message.blocks[i].pieces) \in Nat
    BY <2>1, CameOf
  <2>3. sent[i] = Whole(i)
    BY <2>1 DEF AllSent
  <2> QED BY <1>1, <2>2, <2>3
<1>5. DOMAIN B = 1..n
  BY <1>2, <1>3, <1>4 DEF Folded
<1>6. PICK o : o = Ascending(1..n)
  OBVIOUS
<1>7. Len(o) = n /\ \A j \in 1..n : o[j] = j
  BY <1>3, <1>6, AscendingCounts
<1>8. PICK C, A : C = [j \in 1..Len(o) |-> BlockPart(B[o[j]])] /\ A = AllSeen
  OBVIOUS
<1>9. ASSUME NEW j \in 1..n PROVE BlockPart(B[j]) = Seen(j)
  <2>1. B[j] = BlockAfter(m, j, Got(b, k, j))
    BY <1>2, <1>5 DEF Folded
  <2>2. PICK x, g : x = BlockPart(B[j]) /\ g = Got(b, k, j)
    OBVIOUS
  <2>3. /\ g \in Nat /\ g # 0 /\ g <= Len(m.blocks[j].pieces) + 2 /\ g = Len(m.blocks[j].pieces) + 2
        /\ x = BlockPart(BlockAfter(m, j, g)) /\ j \in DOMAIN m.blocks
    BY <1>3, <1>4, <2>1, <2>2
  <2>4. x = Part(KindOf(m, j), IdOf(m, j), m.blocks[j].pieces)
    BY <1>2, <2>3, PartAfter
  <2>5. Seen(j) = Part(KindOf(m, j), IdOf(m, j), m.blocks[j].pieces)
    BY <1>1, <2>3, SeenFramed
  <2> QED BY <2>2, <2>4, <2>5
<1>10. C = A
  <2>1. C = [j \in 1..n |-> BlockPart(B[j])]
    BY <1>7, <1>8
  <2>2. A = [j \in 1..n |-> Seen(j)]
    BY <1>1, <1>3, <1>8 DEF AllSeen
  <2> QED BY <1>9, <2>1, <2>2
<1>11. Reply(B, s, u) = Response(C, s, u, TRUE)
  BY <1>5, <1>6, <1>8 DEF Reply
<1>12. s = Dashed(m.stop) /\ u = m.usage
  BY <1>1, <1>2 DEF Summing, StopOf, Framed
<1>13. Expected = Response(A, s, u, TRUE)
  BY <1>1, <1>8, <1>12 DEF Expected, Framed
<1> QED BY <1>2, <1>10, <1>11, <1>13

\* The invariant says that the response is faithful.
LEMMA FaithfulTold ==
  ASSUME StreamsInv PROVE Faithful
<1>1. StreamInv /\ ProviderInv /\ TaleInv /\ FramedInv /\ ResultInv /\ PlainInv
  BY DEF StreamsInv
<1>2. pc = "done" /\ wire = "responses" => result = <<Expected>>
  BY <1>1 DEF ResultInv
<1>3. ASSUME Ended, faults = <<>>
      PROVE  result = IF Size <= limit THEN <<Expected>> ELSE NoResponse
  <2>1. Lossless /\ phase = "over"
    <3>1. Faulty = {}
      BY <1>3 DEF Faulty, ToSet
    <3> QED BY <1>1, <1>3, <3>1 DEF Lossless, StreamInv, Ended
  <2>2. AllSent /\ Closed(body, Len(body)) /\ IsSeq(body) /\ Len(body) \in Nat /\ limit \in Nat
    <3>1. AllSent /\ (\E k \in 1..Len(body) : body[k].type = "close") /\ IsSeq(body) /\ limit \in Nat
      BY <1>1, <1>3, <2>1, StreamsAssumption DEF ProviderInv
    <3> QED BY <3>1, SeqPlaces DEF Closed
  <2>3. wire \in {"anthropic", "responses", "openai", "ollama"}
    BY <1>1, StreamsAssumption DEF ProviderInv
  <2>4. PICK x, l : x = Size /\ l = limit
    OBVIOUS
  <2>5. x \in Nat /\ l \in Nat /\ x = Charged(body, wire, Len(body))
    <3>1. Size = Charged(body, wire, Len(body))
      BY <2>2, SizeIs
    <3>2. Charged(body, wire, Len(body)) \in Nat
      BY <2>2, ChargedLemma
    <3> QED BY <2>2, <2>4, <3>1, <3>2
  <2>6. Framed => x = Len(body) /\ body # <<>>
    <3> SUFFICES ASSUME Framed PROVE x = Len(body) /\ body # <<>>
      OBVIOUS
    <3>1. PICK n : n = Len(body)
      OBVIOUS
    <3>2. {k \in DOMAIN body : ~(wire = "openai" /\ body[k].type = "stop")} = 1..n
      BY <2>2, <3>1, SeqPlaces DEF Framed
    <3>3. n \in Nat /\ Cardinality(1..n) = n
      <4>1. 1 \in Int /\ n \in Int /\ n \in Nat
        BY <2>2, <3>1
      <4>2. Cardinality(1..n) = IF 1 > n THEN 0 ELSE n - 1 + 1
        BY <4>1, FS_Interval
      <4> QED BY <4>1, <4>2
    <3>4. Len(body) # 0
      <4>1. PICK k \in 1..Len(body) : body[k].type = "close"
        BY <2>2 DEF Closed
      <4> QED BY <2>2, <4>1
    <3>5. x = Len(body)
      BY <2>4, <3>1, <3>2, <3>3 DEF Size
    <3>6. Len(<<>>) = 0
      OBVIOUS
    <3> QED BY <3>4, <3>5, <3>6
  <2>7. CASE pc = "done"
    <3>1. CASE Framed
      <4>1. result = <<Expected>> /\ ~Refused
        BY <1>1, <2>1, <2>2, <2>7, <3>1, FramedWhole, FramedAnswers
      <4>2. Len(body) <= l
        BY <2>2, <2>4, <2>5, <2>6, <3>1, <4>1 DEF Refused, Framed
      <4>3. x <= l
        BY <2>6, <3>1, <4>2
      <4> QED BY <2>4, <4>1, <4>3
    <3>2. CASE ~Framed
      <4>1. pos = Len(body) /\ acc.taken = Charged(body, wire, pos) /\ acc.taken <= limit
            /\ Learned(message, wire, body, pos, acc.terminal, acc.text, acc.stop, acc.usage)
            /\ (wire \in {"openai", "ollama"} => result = <<OneText>>)
        BY <1>1, <2>1, <2>7, <3>2 DEF PlainInv
      <4>2. Size <= limit
        BY <2>4, <2>5, <4>1
      <4>3. CASE wire = "responses"
        BY <1>2, <2>7, <4>2, <4>3
      <4>4. CASE wire \in {"openai", "ollama"}
        <5>1. acc.text = Flat(SaidSoFar(message, body, Len(body)))
              /\ Summing(message, wire, body, Len(body), acc.stop, acc.usage)
          BY <4>1, <4>4 DEF Learned
        <5>2. acc.text = Spoken
          BY <1>1, <2>1, <2>2, <3>2, <5>1, SaidBegins
        <5>3. acc.stop = message.stop /\ acc.usage = message.usage
          BY <2>2, <4>4, <5>1 DEF Summing, StopOf
        <5>4. OneText = Expected
          BY <4>4, <5>2, <5>3 DEF OneText, Expected
        <5> QED BY <4>1, <4>2, <4>4, <5>4
      <4> QED BY <2>3, <3>2, <4>3, <4>4 DEF Framed
    <3> QED BY <3>1, <3>2
  <2>8. CASE pc = "error"
    <3>1. result = NoResponse
      BY <1>1, <2>8 DEF ResultInv
    <3>2. x > l
      <4>1. CASE Framed
        <5>1. Refused
          BY <1>1, <2>1, <2>8, <4>1 DEF FramedInv
        <5> QED BY <2>4, <2>6, <4>1, <5>1 DEF Refused
      <4>2. CASE ~Framed
        BY <1>1, <1>3, <2>1, <2>4, <2>8, <4>2 DEF PlainInv
      <4> QED BY <4>1, <4>2
    <3>3. ~(Size <= limit)
      BY <2>4, <2>5, <3>2
    <3> QED BY <3>1, <3>3
  <2> QED BY <1>3, <2>7, <2>8 DEF Ended
<1> QED BY <1>2, <1>3 DEF Faithful

\* A reply has a part for each block.
Replies(r, B, s, u, o) ==
  /\ r.ok /\ r.stop = s /\ r.usage = u /\ Len(r.content) = Len(o)
  /\ \A j \in 1..Len(o) : r.content[j] = BlockPart(B[o[j]])

\* A reply has what it was made from.
LEMMA PartsOfReply ==
  ASSUME NEW B, NEW s, NEW u, NEW o, o = Ascending(DOMAIN B), NEW r, r = Reply(B, s, u), Len(o) \in Nat
  PROVE  Replies(r, B, s, u, o)
<1>1. PICK n, C : n = Len(o) /\ C = [j \in 1..n |-> BlockPart(B[o[j]])]
  OBVIOUS
<1>2. r = Response(C, s, u, TRUE)
  BY <1>1 DEF Reply
<1>3. r.ok /\ r.stop = s /\ r.usage = u /\ r.content = C
  BY <1>2 DEF Response
<1>4. Len(C) = n /\ \A j \in 1..n : C[j] = BlockPart(B[o[j]])
  BY <1>1
<1> QED BY <1>1, <1>3, <1>4 DEF Replies

\* A part of an answer that holds no more than what was said of a block.
PartSafe(p, q) ==
  /\ p.kind = q.kind /\ p.id = q.id /\ IsPrefix(p.pieces, q.pieces)
  /\ p.kind = "tool" => p.pieces \in {<<>>, q.pieces}

\* A block of which anything came is no more than what was said.
LEMMA PartsAreSafe ==
  ASSUME ProviderInv, Lossless, Framed, NEW i \in DOMAIN message.blocks, Got(body, Len(body), i) # 0,
         NEW x, x = BlockPart(BlockAfter(message, i, Got(body, Len(body), i)))
  PROVE  PartSafe(x, Seen(i))
<1>1. PICK m, g, S, P : /\ m = message /\ g = Got(body, Len(body), i) /\ S = Seen(i)
                        /\ P = message.blocks[i].pieces
  OBVIOUS
<1>2. /\ m \in Messages /\ i \in DOMAIN m.blocks /\ g \in Nat /\ g # 0
      /\ g <= Len(m.blocks[i].pieces) + 2 /\ x = BlockPart(BlockAfter(m, i, g))
  <2>1. g \in Nat /\ g <= Whole(i) /\ Whole(i) = Len(message.blocks[i].pieces) + 2
    BY <1>1, CameOf
  <2> QED BY <1>1, <2>1 DEF ProviderInv
<1>3. /\ x.kind = KindOf(m, i) /\ x.id = IdOf(m, i)
      /\ IsPrefix(x.pieces, m.blocks[i].pieces)
      /\ m.blocks[i].kind = "tool" => x.pieces \in {<<>>, m.blocks[i].pieces}
  BY <1>2, PartAfter
<1>4. S = Part(KindOf(m, i), IdOf(m, i), P)
  BY <1>1, SeenFramed
<1>5. S.kind = KindOf(m, i) /\ S.id = IdOf(m, i) /\ S.pieces = P
  BY <1>4 DEF Part
<1>6. x.kind = "tool" => m.blocks[i].kind = "tool"
  BY <1>3 DEF KindOf
<1>7. PartSafe(x, S)
  BY <1>1, <1>3, <1>5, <1>6 DEF PartSafe
<1> QED BY <1>1, <1>7

\* The blocks of a body that is no more than cut are of the message.
LEMMA Begun ==
  ASSUME ProviderInv, Lossless
  PROVE  {body[k].at : k \in 1..Len(body)} \ {0} = {i \in DOMAIN message.blocks : Got(body, Len(body), i) # 0}
<1>1. /\ Len(body) \in Nat /\ CalmBody /\ message \in Messages
  BY LosslessIsCalm, SeqPlaces DEF ProviderInv
<1>2. 0 \notin DOMAIN message.blocks
  BY <1>1, BlockTypes
<1>3. ASSUME NEW k \in 1..Len(body), body[k].at # 0
      PROVE  body[k].at \in DOMAIN message.blocks /\ Got(body, Len(body), body[k].at) # 0
  <2>1. body[k].at \in DOMAIN message.blocks
    BY <1>1, <1>3 DEF CalmBody, AllProper, Proper, OfBlock
  <2>2. PICK b, i, n : b = body /\ i = body[k].at /\ n = Len(body)
    OBVIOUS
  <2>3. n \in Nat /\ k \in 1..n /\ b[k].at = i
    BY <1>1, <2>2
  <2>4. Got(b, n, i) = 0 <=> \A l \in 1..n : b[l].at # i
    BY <2>3, GotLemma
  <2>5. Got(b, n, i) # 0
    BY <2>3, <2>4
  <2> QED BY <2>1, <2>2, <2>5
<1>4. ASSUME NEW i \in DOMAIN message.blocks, Got(body, Len(body), i) # 0
      PROVE  i # 0 /\ \E k \in 1..Len(body) : body[k].at = i
  <2>1. PICK b, n : b = body /\ n = Len(body)
    OBVIOUS
  <2>2. n \in Nat /\ Got(b, n, i) # 0
    BY <1>1, <1>4, <2>1
  <2>4. Got(b, n, i) = 0 <=> \A l \in 1..n : b[l].at # i
    BY <2>2, GotLemma
  <2>3. \E k \in 1..n : b[k].at = i
    BY <2>2, <2>4
  <2> QED BY <1>2, <2>1, <2>3
<1> QED BY <1>3, <1>4

\* An answer to a stream that was cut.
LEMMA FramedCut ==
  ASSUME ProviderInv, TaleInv, FramedInv, Lossless, Framed, pc = "done",
         NEW r, r = result[1], NEW o, o = Ascending({body[k].at : k \in 1..Len(body)} \ {0})
  PROVE  /\ r.ok /\ Summing(message, wire, body, Len(body), r.stop, r.usage)
         /\ Len(r.content) = Len(o)
         /\ \A j \in 1..Len(o) : o[j] \in DOMAIN message.blocks /\ PartSafe(r.content[j], Seen(o[j]))
<1>1. PICK m, b, k, n, B, s, u :
        /\ m = message /\ b = body /\ k = Len(body) /\ n = Len(m.blocks)
        /\ B = acc.blocks /\ s = acc.stop /\ u = acc.usage
  OBVIOUS
<1>2. /\ m \in Messages /\ result = <<Reply(B, s, u)>> /\ Folded(m, b, k, B)
      /\ Summing(m, wire, b, k, s, u)
  BY <1>1, FramedAnswers
<1>3. n \in Nat /\ DOMAIN m.blocks = 1..n
  BY <1>1, <1>2, BlockTypes
<1>4. PICK D : D = DOMAIN B
  OBVIOUS
<1>5. D \subseteq 1..n /\ D = {i \in DOMAIN m.blocks : Got(b, k, i) # 0}
  BY <1>2, <1>3, <1>4 DEF Folded
<1>6. o = Ascending(D)
  <2>1. {body[l].at : l \in 1..Len(body)} \ {0} = D
    BY <1>1, <1>5, Begun
  <2> QED BY <2>1
<1>7. D \subseteq Nat /\ IsFiniteSet(D)
  <2>1. IsFiniteSet(1..n)
    BY <1>3, FS_Interval
  <2>2. IsFiniteSet(D)
    BY <1>5, <2>1, FS_Subset
  <2> QED BY <1>3, <1>5, <2>2
<1>8. Len(o) \in Nat /\ \A j \in 1..Len(o) : o[j] \in D
  <2>1. Ascending(D) \in Seq(D)
    BY <1>7, AscendingHolds
  <2>2. o \in Seq(D)
    BY <1>6, <2>1
  <2> QED BY <2>2, ElementOfSeq, LenProperties
<1>9. /\ r.ok /\ r.stop = s /\ r.usage = u /\ Len(r.content) = Len(o)
      /\ \A j \in 1..Len(o) : r.content[j] = BlockPart(B[o[j]])
  <2>1. r = Reply(B, s, u) /\ o = Ascending(DOMAIN B) /\ Len(o) \in Nat
    BY <1>2, <1>4, <1>6, <1>8
  <2>2. Replies(r, B, s, u, o)
    BY <2>1, PartsOfReply
  <2> QED BY <2>2 DEF Replies
<1>10. ASSUME NEW j \in 1..Len(o)
       PROVE  o[j] \in DOMAIN message.blocks /\ PartSafe(r.content[j], Seen(o[j]))
  <2>1. PICK i, x : i = o[j] /\ x = r.content[j]
    OBVIOUS
  <2>2. i \in D /\ x = BlockPart(B[i])
    BY <1>8, <1>9, <1>10, <2>1
  <2>3. B[i] = BlockAfter(m, i, Got(b, k, i))
    BY <1>2, <1>4, <2>2 DEF Folded
  <2>4. /\ i \in DOMAIN message.blocks /\ Got(body, Len(body), i) # 0
        /\ x = BlockPart(BlockAfter(message, i, Got(body, Len(body), i)))
    BY <1>1, <1>5, <2>2, <2>3
  <2>5. PartSafe(x, Seen(i))
    BY <2>4, PartsAreSafe
  <2> QED BY <2>1, <2>4, <2>5
<1>11. Summing(message, wire, body, Len(body), r.stop, r.usage)
  BY <1>1, <1>2, <1>9
<1> QED BY <1>9, <1>10, <1>11

\* What the summing chunk leaves, come or not.
LEMMA SumsUp ==
  ASSUME NEW s, NEW u, wire \in {"anthropic", "openai", "ollama"}, Summing(message, wire, body, Len(body), s, u)
  PROVE  s \in {Expected.stop, "stop"} /\ u \in {Expected.usage, 0}
<1>1. Expected.stop = StopOf(message, wire) /\ Expected.usage = message.usage
  <2>1. PICK S, A, u0 : /\ S = StopOf(message, wire) /\ u0 = message.usage
                        /\ A = IF wire = "anthropic" THEN AllSeen ELSE <<Part("text", 0, Spoken)>>
    OBVIOUS
  <2>2. CASE wire = "anthropic"
    <3>1. Expected = Response(A, S, u0, TRUE)
      BY <2>1, <2>2 DEF Expected, StopOf
    <3> QED BY <2>1, <3>1 DEF Response
  <2>3. CASE wire # "anthropic"
    <3>1. Expected = Response(A, S, u0, TRUE)
      BY <2>1, <2>3 DEF Expected, StopOf
    <3> QED BY <2>1, <3>1 DEF Response
  <2> QED BY <2>2, <2>3
<1> QED BY <1>1 DEF Summing

\* What TruncationSafe says of a response.
CutSafe(got, begun, meant, w, said) ==
  /\ got.ok /\ got.stop \in {meant.stop, "stop"} /\ got.usage \in {meant.usage, 0}
  /\ w = "responses" => got = meant
  /\ w = "anthropic" =>
       /\ Len(got.content) = Len(begun)
       /\ \A j \in 1..Len(begun) : PartSafe(got.content[j], meant.content[begun[j]])
  /\ w \in {"openai", "ollama"} => IsPrefix(got.content[1].pieces, said)

\* This is TruncationSafe.
LEMMA CutSafeMeans ==
  CutSafe(result[1], Ascending({body[k].at : k \in 1..Len(body)} \ {0}), Expected, wire, Spoken) =>
  TruncationSafe
BY DEF CutSafe, PartSafe, TruncationSafe

\* The invariant says that a cut stream is safe.
LEMMA TruncatedTold ==
  ASSUME StreamsInv PROVE TruncationSafe
<1>1. StreamInv /\ ProviderInv /\ TaleInv /\ FramedInv /\ ResultInv /\ PlainInv
  BY DEF StreamsInv
<1>2. SUFFICES ASSUME pc = "done", Faulty \subseteq {"cut"} PROVE TruncationSafe
  BY DEF TruncationSafe
<1>3. Lossless /\ wire \in {"anthropic", "responses", "openai", "ollama"}
  BY <1>1, <1>2, StreamsAssumption DEF ProviderInv, Lossless
<1>4. PICK r, o, E : /\ r = result[1] /\ o = Ascending({body[k].at : k \in 1..Len(body)} \ {0})
                     /\ E = Expected
  OBVIOUS
<1>8. CutSafe(r, o, E, wire, Spoken) => TruncationSafe
  BY <1>4, CutSafeMeans
<1>5. CASE wire = "anthropic"
  <2>1. Framed
    BY <1>5 DEF Framed
  <2>2. /\ r.ok /\ Summing(message, wire, body, Len(body), r.stop, r.usage)
        /\ Len(r.content) = Len(o)
        /\ \A j \in 1..Len(o) : o[j] \in DOMAIN message.blocks /\ PartSafe(r.content[j], Seen(o[j]))
    BY <1>1, <1>2, <1>3, <1>4, <2>1, FramedCut
  <2>3. r.stop \in {E.stop, "stop"} /\ r.usage \in {E.usage, 0}
    BY <1>4, <1>5, <2>2, SumsUp
  <2>4. \A i \in DOMAIN message.blocks : E.content[i] = Seen(i)
    <3>1. E.content = AllSeen
      BY <1>4, <1>5 DEF Expected, Response
    <3> QED BY <3>1 DEF AllSeen
  <2>5. \A j \in 1..Len(o) : PartSafe(r.content[j], E.content[o[j]])
    BY <2>2, <2>4
  <2>6. CutSafe(r, o, E, wire, Spoken)
    BY <1>5, <2>2, <2>3, <2>5 DEF CutSafe
  <2> QED BY <1>8, <2>6
<1>6. CASE wire = "responses"
  <2>1. r = E
    BY <1>1, <1>2, <1>4, <1>6 DEF ResultInv
  <2>2. r.ok
    BY <1>4, <1>6, <2>1 DEF Expected, Response
  <2>3. CutSafe(r, o, E, wire, Spoken)
    BY <1>6, <2>1, <2>2 DEF CutSafe
  <2> QED BY <1>8, <2>3
<1>7. CASE wire \in {"openai", "ollama"}
  <2>1. ~Framed
    BY <1>7 DEF Framed
  <2>2. /\ pos = Len(body) /\ result = <<OneText>>
        /\ Learned(message, wire, body, pos, acc.terminal, acc.text, acc.stop, acc.usage)
    BY <1>1, <1>2, <1>3, <1>7, <2>1 DEF PlainInv
  <2>3. PICK t, s, u : t = acc.text /\ s = acc.stop /\ u = acc.usage
    OBVIOUS
  <2>4. Summing(message, wire, body, Len(body), s, u) /\ t = Flat(SaidSoFar(message, body, Len(body)))
    BY <1>7, <2>2, <2>3 DEF Learned
  <2>5. IsPrefix(t, Spoken)
    BY <1>1, <1>3, <2>1, <2>4, SaidBegins
  <2>6. s \in {E.stop, "stop"} /\ u \in {E.usage, 0}
    BY <1>4, <1>7, <2>4, SumsUp
  <2>7. r = Response(<<Part("text", 0, t)>>, s, u, TRUE)
    BY <1>4, <2>2, <2>3 DEF OneText
  <2>8. r.ok /\ r.stop = s /\ r.usage = u /\ r.content[1] = Part("text", 0, t)
    BY <2>7 DEF Response
  <2>9. r.content[1].pieces = t
    BY <2>8 DEF Part
  <2>10. IsPrefix(r.content[1].pieces, Spoken)
    BY <2>5, <2>9
  <2>11. CutSafe(r, o, E, wire, Spoken)
    BY <1>7, <2>6, <2>8, <2>10 DEF CutSafe
  <2> QED BY <1>8, <2>11
<1> QED BY <1>3, <1>5, <1>6, <1>7

\* The invariant holds at the start.
LEMMA StreamsStart == Init => StreamsInv
<1> SUFFICES ASSUME Init PROVE StreamsInv
  OBVIOUS
<1>1. StreamInv
  BY DEF Init, StreamInv, FailureReported, IsError
<1>2. ProviderInv
  BY ProviderStarts
<1>3. TaleInv
  BY DEF Init, TaleInv, Empty, AccFields
<1>4. pc = "stream" /\ result = NoResponse /\ acc.terminal = NoResponse
  BY DEF Init, Empty
<1>5. FramedInv /\ ResultInv /\ PlainInv
  BY <1>4 DEF FramedInv, ResultInv, PlainInv
<1> QED BY <1>1, <1>2, <1>3, <1>5 DEF StreamsInv

\* Every step keeps the invariant.
LEMMA StreamsRun == StreamsInv /\ [Next]_vars => StreamsInv'
<1> SUFFICES ASSUME StreamsInv, [Next]_vars PROVE StreamsInv'
  OBVIOUS
<1>1. StreamInv /\ ProviderInv /\ TaleInv /\ FramedInv /\ ResultInv /\ PlainInv
  BY DEF StreamsInv
<1>2. StreamInv'
  BY <1>1, StreamSteps
<1>3. ProviderInv'
  BY <1>1, ProviderRuns
<1>4. TaleInv'
  BY <1>1, TaleSteps
<1>5. FramedInv'
  BY <1>1, FramedSteps
<1>6. ResultInv'
  BY <1>1, ResultSteps
<1>7. PlainInv'
  BY <1>1, PlainSteps
<1> QED BY <1>2, <1>3, <1>4, <1>5, <1>6, <1>7 DEF StreamsInv

\* A stream that comes as it was sent gives the response that was meant, or an
\* error if it is too long; the Responses decoder gives no other, whatever came.
THEOREM FaithfulTheorem == Spec => []Faithful
<1>1. Init => StreamsInv
  BY StreamsStart
<1>2. StreamsInv /\ [Next]_vars => StreamsInv'
  BY StreamsRun
<1>3. StreamsInv => Faithful
  BY FaithfulTold
<1> QED BY <1>1, <1>2, <1>3, PTL DEF Spec

\* The response made of a stream that was cut holds beginnings of what was
\* said, and of a tool call all of its arguments or none.
THEOREM TruncationTheorem == Spec => []TruncationSafe
<1>1. Init => StreamsInv
  BY StreamsStart
<1>2. StreamsInv /\ [Next]_vars => StreamsInv'
  BY StreamsRun
<1>3. StreamsInv => TruncationSafe
  BY TruncatedTold
<1> QED BY <1>1, <1>2, <1>3, PTL DEF Spec
=============================================================================
