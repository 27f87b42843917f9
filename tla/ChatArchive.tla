---------------------------- MODULE ChatArchive ----------------------------
(***************************************************************************)
(* The SIMCHAT1 text of crates/sim-codec-chat: transcripts as expressions, *)
(* their text, the parser under a decode budget, and the shape check that  *)
(* both directions run.                                                    *)
(*                                                                         *)
(* An expression is a node: a tag, the count of its items where the text   *)
(* has one, and its parts in the order of the text.  A name (a symbol, an  *)
(* operator, a text) is a part without a tag, its characters in `text'.    *)
(* The text is a sequence of tokens: a tag, a number with its colon, a     *)
(* character, or the closing semicolon.                                    *)
(***************************************************************************)
EXTENDS ChatRequests, FiniteSets, Functions

Token(is, n, c) == [is |-> is, n |-> n, c |-> c]
Tag(tag) == Token("tag", 0, tag)
Number(n) == Token("number", n, "")
Char(c) == Token("char", 0, c)
Word(piece) == Token("char", piece, "")
Close == Token("close", 0, "")

Node(tag, parts) == [tag |-> tag, text |-> <<>>, parts |-> parts]
Name(text) == [tag |-> "name", text |-> text, parts |-> <<>>]
Constant(c) == Node(c, <<>>)
Symbol(c) == Node("symbol", <<Name(<<Char(c)>>)>>)
Qualified(space, c) == Node("symbol", <<Name(<<Char(space), Char("/"), Char(c)>>)>>)
Text(pieces) == Node("string", <<Name([i \in DOMAIN pieces |-> Word(pieces[i])])>>)
List(items) == Node("list", items)
Count(n) == Node("numeral", <<Name(<<Char("f64")>>), Name(<<Word(n)>>)>>)

-----------------------------------------------------------------------------
(* The grammar: what follows each tag.  `first' comes once, `each' once for *)
(* every item counted.                                                      *)

Forms0 == [counted |-> FALSE, first |-> <<>>, each |-> <<>>]
Fixed(parts) == [Forms0 EXCEPT !.first = parts]
Items(first, each) == [counted |-> TRUE, first |-> first, each |-> each]
Grammars ==
  [nil |-> Fixed(<<>>), true |-> Fixed(<<>>), false |-> Fixed(<<>>),
   numeral |-> Fixed(<<"name", "name">>), symbol |-> Fixed(<<"name">>),
   local |-> Fixed(<<"name">>), string |-> Fixed(<<"name">>), bytes |-> Fixed(<<"name">>),
   list |-> Items(<<>>, <<"node">>), vector |-> Items(<<>>, <<"node">>),
   set |-> Items(<<>>, <<"node">>), block |-> Items(<<>>, <<"node">>),
   map |-> Items(<<>>, <<"node", "node">>), call |-> Items(<<"node">>, <<"node">>),
   infix |-> Fixed(<<"name", "node", "node">>), prefix |-> Fixed(<<"name", "node">>),
   postfix |-> Fixed(<<"name", "node">>), extension |-> Fixed(<<"name", "node">>),
   quote |-> Fixed(<<"mode", "node">>), annotated |-> Items(<<"node">>, <<"name", "node">>)]
Tags == DOMAIN Grammars

Counted(tag) == Grammars[tag].counted
ItemsOf(node) ==
  (Len(node.parts) - Len(Grammars[node.tag].first)) \div Len(Grammars[node.tag].each)
PartForms(tag, count) ==
  Grammars[tag].first \o FlattenSeq([i \in 1..count |-> Grammars[tag].each])

-----------------------------------------------------------------------------
(* encode_chat_text: maps and sets are sorted by their keys. *)

\* Stands for the order of canonical_key on the keys transcripts have.
Alphabet ==
  <<"arguments", "content", "id", "input-tokens", "messages", "model", "model-request",
    "model-response", "name", "output", "role", "runner", "shape-ok", "status", "stop-reason",
    "task", "text", "tool-call-id", "type", "usage", "x">>
KeyRank(key) == SelectInSeq(Alphabet, LAMBDA c : c = key.parts[1].text[1].c)
Pairs(map) == [i \in 1..(Len(map.parts) \div 2) |-> <<map.parts[2 * i - 1], map.parts[(2 * i)]>>]
MapOf(pairs) == Node("map", FlattenSeq(pairs))

Sorted(node) ==
  IF node.tag # "map" THEN node
  ELSE MapOf(SortSeq(Pairs(node), LAMBDA a, b : KeyRank(a[1]) < KeyRank(b[1])))

RECURSIVE Written(_)
Written(node) ==
  CASE node.tag = "name" -> <<Number(Len(node.text))>> \o node.text
    [] node.tag = "mode" -> node.text
    [] OTHER ->
         <<Tag(node.tag)>> \o (IF Counted(node.tag) THEN <<Number(ItemsOf(node))>> ELSE <<>>)
         \o LET parts == Sorted(node).parts
            IN  FlattenSeq([i \in DOMAIN parts |-> Written(parts[i])]) \o <<Close>>

-----------------------------------------------------------------------------
(* decode_chat_text.  A reading has the position after what was read, the  *)
(* nodes entered, and the nodes read; `ok' is false after an error.        *)

Reading(at, nodes, read) == [ok |-> TRUE, at |-> at, nodes |-> nodes, read |-> read]
Failed == [ok |-> FALSE, at |-> 0, nodes |-> 0, read |-> <<>>]
Standing(text, at, is) == at <= Len(text) /\ text[at].is = is

\* parse_text: the characters are taken as they are, whatever they say.
ReadName(text, at, nodes, limits) ==
  IF ~Standing(text, at, "number") THEN Failed
  ELSE LET n == text[at].n
       IN  IF n > limits.bytes \/ at + n > Len(text) THEN Failed
           ELSE Reading(at + n + 1, nodes, <<Name(SubSeq(text, at + 1, at + n))>>)

ReadMode(text, at, nodes) ==
  IF ~Standing(text, at, "char") THEN Failed
  ELSE Reading(at + 1, nodes, <<[Name(<<text[at]>>) EXCEPT !.tag = "mode"]>>)

RECURSIVE ReadNode(_, _, _, _, _), ReadParts(_, _, _, _, _, _)
ReadParts(text, forms, at, depth, nodes, limits) ==
  IF forms = <<>> THEN Reading(at, nodes, <<>>)
  ELSE LET one  == CASE Head(forms) = "name" -> ReadName(text, at, nodes, limits)
                     [] Head(forms) = "mode" -> ReadMode(text, at, nodes)
                     [] OTHER -> ReadNode(text, at, depth, nodes, limits)
       IN  IF ~one.ok THEN Failed
           ELSE LET rest == ReadParts(text, Tail(forms), one.at, depth, one.nodes, limits)
                IN  IF rest.ok THEN Reading(rest.at, rest.nodes, one.read \o rest.read)
                    ELSE Failed

\* enter_node, the tag, the count, the parts and the semicolon.
ReadNode(text, at, depth, nodes, limits) ==
  IF \/ nodes + 1 > limits.nodes \/ depth > limits.depth
     \/ ~Standing(text, at, "tag")
     \/ (Counted(text[at].c) /\ ~Standing(text, at + 1, "number"))
  THEN Failed
  ELSE LET tag   == text[at].c
           count == IF Counted(tag) THEN text[at + 1].n ELSE 0
           after == IF Counted(tag) THEN at + 2 ELSE at + 1
       IN  IF count > limits.items THEN Failed
           ELSE LET parts == ReadParts(text, PartForms(tag, count), after, depth + 1,
                                       nodes + 1, limits)
                IN  IF parts.ok /\ Standing(text, parts.at, "close")
                    THEN Reading(parts.at + 1, parts.nodes, <<Node(tag, parts.read)>>)
                    ELSE Failed

-----------------------------------------------------------------------------
(* validate_chat_transcript *)

Is(key, name) == key.tag = "symbol" /\ key.parts[1].text = <<Char(name)>>
KeysNamed(map, name) == {i \in 1..Len(Pairs(map)) : Is(Pairs(map)[i][1], name)}
Field(map, name) == Pairs(map)[CHOOSE i \in KeysNamed(map, name) : \A j \in KeysNamed(map, name) : i <= j][2]
HasField(map, name, tags) ==
  KeysNamed(map, name) # {} /\ Field(map, name).tag \in tags
Once(map, names) == \A n \in names : Cardinality(KeysNamed(map, n)) <= 1
BareOnce(map) == Once(map, ToSet(Alphabet))

\* A projected value has no key twice, at any depth.
RECURSIVE Projected(_)
Projected(node) ==
  /\ node.tag = "map" => BareOnce(node)
  /\ node.tag \in {"map", "list", "vector", "set", "block"} =>
       \A i \in DOMAIN node.parts : Projected(node.parts[i])

PartKind(part) == Field(part, "type").parts[1].text[1].c
ValidPart(part) ==
  /\ part.tag = "map" /\ BareOnce(part) /\ HasField(part, "type", {"symbol"})
  /\ CASE PartKind(part) = "text" -> HasField(part, "text", {"string"})
       [] PartKind(part) = "tool-call" ->
            /\ HasField(part, "id", {"string"}) /\ HasField(part, "name", {"string"})
            /\ HasField(part, "arguments", Tags) /\ Projected(Field(part, "arguments"))
       [] PartKind(part) = "tool-result" ->
            /\ HasField(part, "tool-call-id", {"string"}) /\ HasField(part, "status", {"symbol"})
            /\ HasField(part, "output", Tags) /\ Projected(Field(part, "output"))
       [] OTHER -> TRUE
ValidContent(map) ==
  HasField(map, "content", {"list"}) /\ \A i \in DOMAIN Field(map, "content").parts :
    ValidPart(Field(map, "content").parts[i])

ValidMessage(message) ==
  message.tag = "map" /\ BareOnce(message) /\ HasField(message, "role", {"symbol"})
  /\ ValidContent(message)
ValidRequest(map) ==
  /\ Once(map, {"task", "messages"}) /\ HasField(map, "task", Tags)
  /\ HasField(map, "messages", {"list"})
  /\ \A i \in DOMAIN Field(map, "messages").parts : ValidMessage(Field(map, "messages").parts[i])
ValidResponse(map) ==
  /\ Once(map, {"runner", "model", "stop-reason", "content", "usage"})
  /\ HasField(map, "runner", {"symbol"}) /\ HasField(map, "model", {"string"})
  /\ HasField(map, "stop-reason", {"symbol"}) /\ ValidContent(map)
  /\ HasField(map, "usage", Tags) => Projected(Field(map, "usage"))

\* Exactly one marker, and the fields of what it marks.
Markers == {"model-request", "model-response"}
Marked(map, marker) == HasField(map, marker, {"true"})
Valid(node) ==
  /\ node.tag = "map" /\ Once(node, Markers)
  /\ Cardinality({m \in Markers : Marked(node, m)}) = 1
  /\ Marked(node, "model-request") => ValidRequest(node)
  /\ Marked(node, "model-response") => ValidResponse(node)

-----------------------------------------------------------------------------
(* codec:chat *)

Archived(node) == IF Valid(node) THEN <<Written(node)>> ELSE <<>>

\* Mutant: what follows the transcript is not looked at.
RestoredLeading(text, limits) ==
  LET r == ReadNode(text, 1, 0, 0, limits)
  IN  IF r.ok /\ Valid(r.read[1]) THEN r.read ELSE <<>>

Restored(text, limits) ==
  LET r == ReadNode(text, 1, 0, 0, limits)
  IN  IF r.ok /\ r.at = Len(text) + 1 /\ Valid(r.read[1]) THEN r.read ELSE <<>>

-----------------------------------------------------------------------------
(* model_response_expr and the request transcripts as expressions. *)

Entry(key, value) == <<Symbol(key), value>>
Mark(marker) == Entry(marker, Constant("true"))
PartExpr(p) ==
  CASE p.kind = "tool" ->
         MapOf(<<Entry("type", Symbol("tool-call")), Entry("id", Text(<<p.id>>)),
                 Entry("name", Text(<<p.id>>)), Entry("arguments", Text(p.pieces))>>)
    [] p.kind \in Results ->
         MapOf(<<Entry("type", Symbol("tool-result")), Entry("tool-call-id", Text(<<p.id>>)),
                 Entry("status", Symbol(p.kind)), Entry("output", Text(p.pieces))>>)
    [] OTHER -> MapOf(<<Entry("type", Symbol(p.kind)), Entry("text", Text(p.pieces))>>)
PartExprs(parts) == Entry("content", List([i \in DOMAIN parts |-> PartExpr(parts[i])]))

ResponseExpr(r) ==
  MapOf(<<Mark("model-response"), Entry("runner", Symbol("runner")), Entry("model", Text(<<1>>)),
          PartExprs(r.content), Entry("stop-reason", Symbol(r.stop)),
          Entry("usage", MapOf(<<Entry("input-tokens", Count(r.usage))>>))>>
        \o (IF r.ok THEN <<>> ELSE <<Entry("text", Text(<<ErrorText>>)),
                                     Entry("shape-ok", Constant("false"))>>))
RequestExpr(t) ==
  MapOf(<<Mark("model-request"), Entry("task", Text(t.task)),
          Entry("messages", List([i \in DOMAIN t.messages |->
            MapOf(<<Entry("role", Symbol(t.messages[i].role)),
                    PartExprs(t.messages[i].content)>>)]))>>)

-----------------------------------------------------------------------------
(* What the budget counts, for the properties. *)

RECURSIVE Nodes(_), Depth(_), Widest(_), Longest(_)
Most(S) == CHOOSE n \in S \cup {0} : \A m \in S : m <= n
Nodes(n) == IF n.tag \in {"name", "mode"} THEN 0
            ELSE 1 + FoldFunction(LAMBDA a, b : a + b, 0, [i \in DOMAIN n.parts |-> Nodes(n.parts[i])])
Depth(n) == IF n.tag \in {"name", "mode"} THEN 0
            ELSE Most({Depth(n.parts[i]) + (IF n.parts[i].tag \in {"name", "mode"} THEN 0 ELSE 1)
                       : i \in DOMAIN n.parts})
Widest(n) == Most({Widest(n.parts[i]) : i \in DOMAIN n.parts} \cup
                  (IF n.tag \in Tags /\ Counted(n.tag) THEN {ItemsOf(n)} ELSE {}))
Longest(n) == Most({Len(n.text)} \cup {Longest(n.parts[i]) : i \in DOMAIN n.parts})
Fits(n, limits) ==
  /\ Nodes(n) <= limits.nodes /\ Depth(n) <= limits.depth
  /\ Widest(n) <= limits.items /\ Longest(n) <= limits.bytes

\* The same expression with the entries of its maps in order.
RECURSIVE InOrder(_)
InOrder(node) ==
  LET n == IF node.tag = "map"
           THEN MapOf(SortSeq(Pairs(node), LAMBDA a, b : KeyRank(a[1]) < KeyRank(b[1]))) ELSE node
  IN  [n EXCEPT !.parts = [i \in DOMAIN n.parts |-> InOrder(n.parts[i])]]
=============================================================================
