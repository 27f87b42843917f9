----------------------------- MODULE BridgeLine -----------------------------
(***************************************************************************)
(* A BRIDGE packet, its content id (identity.rs), its record form          *)
(* (packet.rs) and its BRIDGE/1 line face (line.rs).  Readers and writers  *)
(* return [ok, v]; which error it is is left out.                          *)
(***************************************************************************)
EXTENDS BridgeBooks

CONSTANTS
  Upper,       \* a part name -> the keyword of its line
  Proper       \* a keyword -> the part name that kind_from_keyword makes of it

Got(value) == [ok |-> TRUE, v |-> value]
Err == [ok |-> FALSE, v |-> <<>>]
Then(reading, Continue(_)) == IF reading.ok THEN Continue(reading.v) ELSE Err
All(readings) == IF \A i \in DOMAIN readings : readings[i].ok
                 THEN Got([i \in DOMAIN readings |-> readings[i].v]) ELSE Err

Part(id, kind, payload) == [id |-> id, kind |-> kind, payload |-> payload]

\* cid and card are <<>> when there is none.
HeaderKeys == {"CID", "MOVE", "FROM", "TO", "ROLE", "PARENTS", "TASK", "OUTPUT", "CEIL", "CONTEXT", "PROV"}
-----------------------------------------------------------------------------
(* Identity *)

\* Payloads that are equal as expressions are the same.
Settled(packet) ==
  [packet EXCEPT !.body = [i \in DOMAIN packet.body |-> [packet.body[i] EXCEPT !.payload = ExprToJson(@)]]]
SamePacket(p, q) == p = q \/ Settled(p) = Settled(q)

\* mutant: the warrant is not part of what the cid binds
BareDatum(packet) == [Settled(packet) EXCEPT !.cid = <<>>, !.warrant = NoWarrant]

CanonicalDatum(packet) == [Settled(packet) EXCEPT !.cid = <<>>]

PacketId(packet) == ContentId(CanonicalDatum(packet))
Stamp(packet) == [packet EXCEPT !.cid = PacketId(packet)]
VerifyCid(packet) == packet.cid = PacketId(packet)

IsContentId(text) == Len(text) = 1 /\ "hash" \in DOMAIN text[1]
ParseContentId(text) == IF IsContentId(text) THEN Got(text) ELSE Err
-----------------------------------------------------------------------------
(* Splitting and joining *)

Positions(text, token) == Ascending({i \in DOMAIN text : text[i] = token})

SplitOnce(text, token) ==
  LET at == Positions(text, token)
  IN  IF at = <<>> THEN Err ELSE Got(<<SubSeq(text, 1, at[1] - 1), SubSeq(text, at[1] + 1, Len(text))>>)

SplitAll(text, token) ==
  LET cuts == <<0>> \o Positions(text, token) \o <<Len(text) + 1>>
  IN  [k \in 1..(Len(cuts) - 1) |-> SubSeq(text, cuts[k] + 1, cuts[k + 1] - 1)]

Joined(pieces, token) ==
  FlattenSeq([i \in DOMAIN pieces |-> (IF i = 1 THEN <<>> ELSE <<token>>) \o pieces[i]])

Comma == [word |-> ","]
Open == [word |-> "["]
Close == [word |-> "]"]
Equals == [word |-> "="]
Slash == [word |-> "/"]
Evidence == [word |-> "#move="]

SymbolText(s) == IF s.ns = <<>> THEN s.name ELSE s.ns \o <<Slash>> \o s.name
ParseSymbol(text) ==
  LET halves == SplitOnce(text, Slash)
  IN  IF halves.ok /\ <<>> \notin ToSet(halves.v) THEN Symbol(halves.v[1], halves.v[2]) ELSE Symbol(<<>>, text)

Bracketed(items) == <<Open>> \o Joined(items, Comma) \o <<Close>>
SymbolList(symbols) == Bracketed([i \in DOMAIN symbols |-> SymbolText(symbols[i])])

ParseList(text) ==
  IF Len(text) < 2 THEN Err
  ELSE IF text[1] # Open \/ Last(text) # Close THEN Err
  ELSE LET inner == SubSeq(text, 2, Len(text) - 1)
       IN  Got(IF inner = <<>> THEN <<>> ELSE SplitAll(inner, Comma))
ParseSymbolList(text) ==
  Then(ParseList(text), LAMBDA items : Got([i \in DOMAIN items |-> ParseSymbol(items[i])]))

CheckedToken(text) == text # <<>> /\ ToSet(text) \cap {Space, Newline, Open, Close, Comma} = {}

\* parent_move_evidence
ParentMove(parent) ==
  Then(SplitOnce(parent, Evidence), LAMBDA halves :
    IF halves[2] = <<>> THEN Err ELSE Got(ParseSymbol(halves[2])))
ParentMoves(packet) == All([i \in DOMAIN packet.parents |-> ParentMove(packet.parents[i])])

\* BridgeBook::validate_packet
ValidPacket(book, packet) ==
  LET parents == ParentMoves(packet)
  IN  IF ~parents.ok \/ ~\A i \in DOMAIN packet.body :
              ValidPart(PartBooks[book.parts], FrameBooks[book.frames], packet.body[i])
      THEN FALSE
      ELSE /\ CheckMove(MoveBooks[book.moves], packet.move, ToSet(parents.v), Kinds(packet.body))
           /\ Cardinality(MatchingProfiles(ProfileBooks[book.profiles], packet.body)) = 1
           /\ ValidWarrant(book, packet)
-----------------------------------------------------------------------------
(* encode_bridge_text *)

OrNil(text) == IF text = <<>> THEN Word("nil") ELSE text
Line(key, value) == Word(key) \o <<Space>> \o value
Pair(key, value) == Word(key) \o <<Equals>> \o value

WarrantText(w) ==
  Joined(<<Pair("moves", w.moves), Pair("frames", w.frames),
           Pair("parts", Bracketed([i \in DOMAIN w.parts |-> SymbolText(w.parts[i][1]) \o <<Equals>> \o w.parts[i][2]]))>>,
         Space)

\* Only the name of a kind is written.
Keyword(kind) ==
  [i \in DOMAIN kind.name |-> IF kind.name[i].word \in DOMAIN Upper THEN [word |-> Upper[kind.name[i].word]] ELSE kind.name[i]]

PartLine(part) ==
  Keyword(part.kind) \o <<Space>> \o SymbolText(part.id) \o <<Space>>
    \o Word("payload=") \o <<[json |-> ExprToJson(part.payload)]>>

PacketLines(p) ==
  <<Word("BRIDGE/1"), Line("CID", OrNil(p.cid)), Line("MOVE", SymbolText(p.move)), Line("FROM", p.from),
    Line("TO", Bracketed(p.to)), Line("ROLE", SymbolText(p.role)), Line("PARENTS", Bracketed(p.parents)),
    Line("TASK", SymbolText(p.task)), Line("OUTPUT", SymbolText(p.output)), Line("CEIL", SymbolList(p.ceiling)),
    Line("CONTEXT", SymbolList(p.context)),
    Line("PROV", Joined(<<Pair("author", SymbolText(p.author)), Pair("card", OrNil(p.card))>>, Space))>>
  \o (IF p.warrant = NoWarrant THEN <<>> ELSE <<Line("WARRANT", WarrantText(p.warrant))>>)
  \o <<Word("BODY")>> \o [i \in DOMAIN p.body |-> PartLine(p.body[i])] \o <<Word("END")>>

EncodeText(packet, book) ==
  IF /\ ValidPacket(book, packet)
     /\ CheckedToken(packet.from)
     /\ \A i \in DOMAIN packet.to : CheckedToken(packet.to[i])
     /\ \A i \in DOMAIN packet.parents : CheckedToken(packet.parents[i])
  THEN Got(Joined(PacketLines(packet), Newline) \o <<Newline>>) ELSE Err
-----------------------------------------------------------------------------
(* decode_bridge_text *)

Lines(text) ==
  LET pieces == SplitAll(text, Newline)
  IN  IF Last(pieces) = <<>> THEN Front(pieces) ELSE pieces

\* "key=value" items; the last of several values of one key counts.
ParseItems(text, keys) ==
  LET items == SplitAll(text, Space)
      halves == [i \in DOMAIN items |-> SplitOnce(items[i], Equals)]
  IN  IF ~\A i \in DOMAIN halves : halves[i].ok THEN Err
      ELSE IF {halves[i].v[1] : i \in DOMAIN halves} # {Word(k) : k \in keys} THEN Err
      ELSE Got([k \in keys |-> halves[Max({i \in DOMAIN halves : halves[i].v[1] = Word(k)})].v[2]])

CidVerbatim(value) == value     \* mutant: nil stays a cid
ParseCid(value) == IF value = Word("nil") THEN <<>> ELSE value

ParseWarrantPart(item) ==
  Then(SplitOnce(item, Equals), LAMBDA halves :
  Then(ParseContentId(halves[2]), LAMBDA id : Got(<<ParseSymbol(halves[1]), id>>)))

ParseWarrant(value) ==
  Then(ParseItems(value, {"moves", "frames", "parts"}), LAMBDA w :
  Then(ParseContentId(w["moves"]), LAMBDA moves :
  Then(ParseContentId(w["frames"]), LAMBDA frames :
  Then(ParseList(w["parts"]), LAMBDA items :
  Then(All([i \in DOMAIN items |-> ParseWarrantPart(items[i])]), LAMBDA parts :
    Got([moves |-> moves, frames |-> frames, parts |-> parts]))))))

KindOf(keyword) ==
  Symbol(Word("bridge"), [i \in DOMAIN keyword |->
    IF keyword[i].word \in DOMAIN Proper THEN [word |-> Proper[keyword[i].word]] ELSE keyword[i]])

\* splitn(3, ' '), the registered kind, then the payload.
ParsePart(line, book) ==
  Then(SplitOnce(line, Space), LAMBDA first :
  Then(SplitOnce(first[2], Space), LAMBDA second :
    LET kind == KindOf(first[1])
        rest == second[2]
    IN  IF kind \notin DOMAIN PartBooks[book.parts] \/ Len(rest) # 2 THEN Err
        ELSE IF rest[1] # Word("payload=")[1] \/ "json" \notin DOMAIN rest[2] THEN Err
        ELSE Then(JsonToExpr(rest[2].json), LAMBDA payload : Got(Part(ParseSymbol(second[1]), kind, payload)))))

WithinNodes(body) == FoldLeft(LAMBDA acc, part : acc + Nodes(part.payload), 0, body) <= DecodeLimits.nodes

Known(key) == key \in {Word(k) : k \in HeaderKeys \cup {"WARRANT"}}

\* The headers by key: every line well formed, known and given once.
ParseHeaders(lines) ==
  Then(All([i \in DOMAIN lines |-> SplitOnce(lines[i], Space)]), LAMBDA halves :
    IF \/ \E i \in DOMAIN halves : ~Known(halves[i][1])
       \/ \E i, j \in DOMAIN halves : i < j /\ halves[i][1] = halves[j][1]
       \/ \E k \in HeaderKeys : ~\E i \in DOMAIN halves : halves[i][1] = Word(k)
    THEN Err
    ELSE Got([k \in {halves[i][1][1].word : i \in DOMAIN halves} |->
                halves[CHOOSE i \in DOMAIN halves : halves[i][1] = Word(k)][2]]))

ParsePacket(h, lines, book) ==
  Then(All([i \in DOMAIN lines |-> ParsePart(lines[i], book)]), LAMBDA body :
  Then(ParseList(h["TO"]), LAMBDA to :
  Then(ParseList(h["PARENTS"]), LAMBDA parents :
  Then(ParseSymbolList(h["CEIL"]), LAMBDA ceiling :
  Then(ParseSymbolList(h["CONTEXT"]), LAMBDA context :
  Then(ParseItems(h["PROV"], {"author", "card"}), LAMBDA prov :
  Then(IF "WARRANT" \in DOMAIN h THEN ParseWarrant(h["WARRANT"]) ELSE Got(NoWarrant), LAMBDA warrant :
    Got([cid |-> ParseCid(h["CID"]), move |-> ParseSymbol(h["MOVE"]), from |-> h["FROM"], to |-> to,
         role |-> ParseSymbol(h["ROLE"]), parents |-> parents, task |-> ParseSymbol(h["TASK"]),
         output |-> ParseSymbol(h["OUTPUT"]), ceiling |-> ceiling, context |-> context,
         author |-> ParseSymbol(prov["author"]),
         card |-> IF prov["card"] = Word("nil") THEN <<>> ELSE prov["card"],
         body |-> body, warrant |-> warrant]))))))))

DecodeText(text, book) ==
  LET lines == Lines(text)
      ends == {i \in 2..Len(lines) : lines[i] = Word("END")}
      end == Min(ends)
      bodies == {i \in 2..(end - 1) : lines[i] = Word("BODY")}
      start == Min(bodies)
  IN  IF lines = <<>> \/ ends = {} THEN Err
      ELSE IF \/ lines[1] # Word("BRIDGE/1") \/ Cardinality(bodies) # 1
              \/ \E i \in (end + 1)..Len(lines) : ~IsBlank(lines[i]) THEN Err
      ELSE Then(ParseHeaders(SubSeq(lines, 2, start - 1)), LAMBDA h :
           Then(ParsePacket(h, SubSeq(lines, start + 1, end - 1), book), LAMBDA packet :
             IF WithinNodes(packet.body) /\ ValidPacket(book, packet) THEN Got(packet) ELSE Err))
-----------------------------------------------------------------------------
(* packet_to_expr and expr_to_packet *)

StringOrNil(text) == IF text = <<>> THEN Nil ELSE Text(text)
Strings(texts) == Vector([i \in DOMAIN texts |-> Text(texts[i])])
Symbols(symbols) == Vector([i \in DOMAIN symbols |-> SymbolExpr(symbols[i])])

HeaderRecord(p) ==
  Record(<< <<"cid", StringOrNil(p.cid)>>, <<"move", SymbolExpr(p.move)>>, <<"from", Text(p.from)>>,
            <<"to", Strings(p.to)>>, <<"role", SymbolExpr(p.role)>>, <<"parents", Strings(p.parents)>>,
            <<"task", SymbolExpr(p.task)>>, <<"output", SymbolExpr(p.output)>>, <<"ceiling", Symbols(p.ceiling)>>,
            <<"context", Symbols(p.context)>>,
            <<"provenance", Record(<< <<"author", SymbolExpr(p.author)>>, <<"card", StringOrNil(p.card)>> >>)>> >>)

WarrantRecord(w) ==
  IF w = NoWarrant THEN Nil
  ELSE Record(<< <<"moves", Text(w.moves)>>, <<"frames", Text(w.frames)>>,
                 <<"parts", Vector([i \in DOMAIN w.parts |->
                    Record(<< <<"kind", SymbolExpr(w.parts[i][1])>>, <<"cid", Text(w.parts[i][2])>> >>)])>> >>)

PartRecord(part) ==
  Record(<< <<"id", SymbolExpr(part.id)>>, <<"kind", SymbolExpr(part.kind)>>, <<"payload", part.payload>> >>)

PacketToExpr(p) ==
  Record(<< <<"bridge", Text(Word("1"))>>, <<"header", HeaderRecord(p)>>,
            <<"body", Vector([i \in DOMAIN p.body |-> PartRecord(p.body[i])])>>, <<"warrant", WarrantRecord(p.warrant)>> >>)

HeaderFields ==
  [cid |-> "optional", move |-> "symbol", from |-> "string", to |-> "strings", role |-> "symbol", parents |-> "strings",
   task |-> "symbol", output |-> "symbol", ceiling |-> "symbols", context |-> "symbols", provenance |-> "any"]

TextsOf(e) == [i \in DOMAIN e.items |-> e.items[i].a]
SymbolsOf(e) == [i \in DOMAIN e.items |-> ToSymbol(e.items[i])]

PartFromExpr(e) ==
  IF Reads(e, "packet", [id |-> "symbol", kind |-> "symbol", payload |-> "any"], None)
  THEN Got(Part(ToSymbol(Field(e, "id")), ToSymbol(Field(e, "kind")), Field(e, "payload"))) ELSE Err

WarrantPartFromExpr(e) ==
  IF Reads(e, "packet", [kind |-> "symbol", cid |-> "string"], None)
  THEN Then(ParseContentId(Field(e, "cid").a), LAMBDA id : Got(<<ToSymbol(Field(e, "kind")), id>>)) ELSE Err

WarrantFromExpr(e) ==
  IF e.t = "nil" THEN Got(NoWarrant)
  ELSE IF ~Reads(e, "packet", [moves |-> "string", frames |-> "string", parts |-> "vector"], None) THEN Err
  ELSE LET parts == Field(e, "parts").items
       IN  Then(ParseContentId(Field(e, "moves").a), LAMBDA moves :
           Then(ParseContentId(Field(e, "frames").a), LAMBDA frames :
           Then(All([i \in DOMAIN parts |-> WarrantPartFromExpr(parts[i])]), LAMBDA ids :
             Got([moves |-> moves, frames |-> frames, parts |-> ids]))))

PacketFromExpr(e) ==
  IF ~Reads(e, "packet", [bridge |-> "string", header |-> "any", body |-> "vector", warrant |-> "any"], None) THEN Err
  ELSE LET h == Field(e, "header")
           prov == Field(h, "provenance")
           parts == Field(e, "body").items
       IN  IF Field(e, "bridge").a # Word("1") \/ ~Reads(h, "packet", HeaderFields, None) THEN Err
           ELSE IF ~Reads(prov, "packet", [author |-> "symbol", card |-> "optional"], None) THEN Err
           ELSE Then(All([i \in DOMAIN parts |-> PartFromExpr(parts[i])]), LAMBDA body :
                Then(WarrantFromExpr(Field(e, "warrant")), LAMBDA warrant :
                  Got([cid |-> Field(h, "cid").a, move |-> ToSymbol(Field(h, "move")), from |-> Field(h, "from").a,
                       to |-> TextsOf(Field(h, "to")), role |-> ToSymbol(Field(h, "role")),
                       parents |-> TextsOf(Field(h, "parents")), task |-> ToSymbol(Field(h, "task")),
                       output |-> ToSymbol(Field(h, "output")), ceiling |-> SymbolsOf(Field(h, "ceiling")),
                       context |-> SymbolsOf(Field(h, "context")), author |-> ToSymbol(Field(prov, "author")),
                       card |-> Field(prov, "card").a, body |-> body, warrant |-> warrant])))
=============================================================================
