--------------------------- MODULE MCChatStreams ---------------------------
(***************************************************************************)
(* Module ChatGateway on a few messages (a text and a tool call, a thought *)
(* before a text, two tool calls, one of them without arguments), eleven   *)
(* requests of clients and six sets of fields.                             *)
(***************************************************************************)
EXTENDS ChatGateway

Block(kind, pieces) == [kind |-> kind, pieces |-> pieces]
Says(blocks, stop) == [blocks |-> blocks, stop |-> stop, usage |-> 1]

\* 3 4 is a JSON document, and with the 4 repeated it still is one.
MCJsonTexts == {<<3, 4>>, <<3, 4, 4>>}
MCMixed == Says(<<Block("text", <<1, 2>>), Block("tool", <<3, 4>>)>>, "end")
MCThought == Says(<<Block("thinking", <<5>>), Block("text", <<1>>)>>, "max_tokens")
MCMessages ==
  {MCMixed, MCThought,
   Says(<<Block("tool", <<>>), Block("tool", <<3, 4>>)>>, "end"),
   Says(<<Block("text", <<1>>), Block("text", <<2>>)>>, "end"),
   Says(<<>>, "end")}
MCWires == {"anthropic", "responses", "openai", "ollama"}
MCChunkLimits == {20, 5}
MCMaxFaults == 1
MCNoFaults == 0

T(pieces) == TextPart(pieces)
Tool(shape) == [name |-> "f", shape |-> shape]
Sent(role, form, content) == [role |-> role, form |-> form, content |-> content]
Plain(role, piece) == Sent(role, "string", <<T(<<piece>>)>>)
Ask1(format, messages, fields) == [format |-> format, body |-> Body(messages, <<>>, fields)]

Talk == <<Plain("user", 1), Sent("assistant", "list", <<T(<<2>>), T(<<3>>)>>),
          Sent("user", "list", <<T(<<4>>), T(<<5>>)>>)>>
Systems == <<Plain("system", 1), Plain("user", 2), Plain("system", 3), Plain("user", 4)>>
Agent(last) ==
  <<Plain("user", 1),
    Sent("assistant", "list", <<T(<<2>>), Part("tool", 1, <<3, 4>>)>>),
    Sent("user", "list", <<Part("error", 1, <<5>>)>>), last>>
MCAsked ==
  {Ask1("openai", Talk, ("tools" :> ListOf(<<Tool("nested")>>)) @@ ("max_tokens" :> "5")),
   Ask1("openai", <<Plain("user", 1), Sent("user", "odd", <<>>)>>, NoFields),
   Ask1("openai", <<Plain("user", 1), Plain("assistant", 2)>>, NoFields),
   [format |-> "openai", body |-> [Body(<<>>, <<>>, NoFields) EXCEPT !.input = <<<<1>>>>]],
   Ask1("lm-studio", Systems, "tools" :> ListOf(<<Tool("flat")>>)),
   Ask1("lemonade", Systems, "stream" :> FALSE),
   [format |-> "anthropic",
    body |-> Body(Agent(Plain("user", 7)), <<<<6>>>>,
                  ("tools" :> ListOf(<<Tool("schema")>>)) @@ ("tool_choice" :> "auto"))],
   Ask1("anthropic", Agent(Sent("user", "list", <<Part("ok", 1, <<8>>)>>)), NoFields),
   Ask1("anthropic", <<Sent("assistant", "list", <<Part("thinking", 0, <<9>>)>>),
                       Plain("user", 1)>>, NoFields),
   Ask1("responses", <<Sent("user", "list", <<T(<<1>>), T(<<2>>)>>),
                       Sent("assistant", "list", <<>>),
                       Sent("user", "list", <<T(<<3>>)>>)>>,
        "tools" :> ListOf(<<Tool("flat")>>)),
   Ask1("responses", Talk, NoFields)}
MCFieldSets ==
  {("tools" :> ListOf(<<Tool("flat"), Tool("flat")>>)) @@ ("tool-choice" :> "auto"),
   "bridge-calls" :> [temperature |-> "1"], "bridge-calls" :> [messages |-> "1"],
   ("output-grammar" :> "g") @@ ("dialect" :> "gbnf"), "output-grammar" :> "g",
   ("return-shape" :> "s") @@ ("return-codec" :> "json") @@
     ("bridge-calls" :> ("max-tokens" :> "1"))}
MCOptions == {[stream |-> FALSE, tools |-> tools, max_tokens |-> "9"] : tools \in BOOLEAN}
MCWideLimits == [nodes |-> 100, depth |-> 8, items |-> 20, bytes |-> 8]
MCKeptSources == {<<MCMixed, "responses", 20>>, <<MCThought, "anthropic", 20>>}
MCNoSources == {}
MCKeptFields == {{}, {"tools", "tool-choice"}, {"provider", "tools"}, {"provider", "stream"}}
MCArchiveLimits ==
  {MCWideLimits,
   [nodes |-> 24, depth |-> 8, items |-> 20, bytes |-> 8],
   [nodes |-> 100, depth |-> 3, items |-> 20, bytes |-> 8],
   [nodes |-> 100, depth |-> 8, items |-> 20, bytes |-> 1],
   [nodes |-> 100, depth |-> 8, items |-> 5, bytes |-> 8]}
MCMaxHops == 2
MCStreamFaults == {"cut"}
=============================================================================
