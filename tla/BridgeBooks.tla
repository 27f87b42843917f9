---------------------------- MODULE BridgeBooks ----------------------------
(***************************************************************************)
(* The books of a BRIDGE peer and the validation of a packet against them  *)
(* (move_book.rs, part_book.rs, profile.rs, frame_book.rs, call.rs,        *)
(* weave.rs, collab.rs, warrant.rs, frame_render.rs).                      *)
(***************************************************************************)
EXTENDS ExprRecords

CONSTANTS
  PartBooks, MoveBooks, FrameBooks, ProfileBooks   \* name -> book

\* A content id names content: two books of different content have two names.
ASSUME BooksAssumption ==
  /\ \A x, y \in DOMAIN MoveBooks : MoveBooks[x] = MoveBooks[y] => x = y
  /\ \A x, y \in DOMAIN FrameBooks : FrameBooks[x] = FrameBooks[y] => x = y

Bridge(name) == Symbol(Word("bridge"), Word(name))
BridgeAll(names) == {Bridge(n) : n \in names}
Kinds(body) == {body[i].kind : i \in DOMAIN body}

\* register: a spec replaces the one of the same key.
With(book, key, spec) == (key :> spec) @@ book
-----------------------------------------------------------------------------
(* Moves *)

Move(rule, parents, parts, any, terminal) ==
  [rule |-> rule, only |-> {Plain(p) : p \in parents}, parts |-> BridgeAll(parts),
   any |-> {BridgeAll(group) : group \in any}, terminal |-> terminal]

StandardMoves ==
     Plain("request") :> Move("Opens", {}, {"Return"}, {{"Frame", "Call", "Weave"}}, FALSE)
  @@ Plain("offer")   :> Move("Only", {"request"}, {"Return"}, {}, FALSE)
  @@ Plain("reply")   :> Move("Only", {"request"}, {"Return"}, {}, FALSE)
  @@ Plain("review")  :> Move("Only", {"offer", "reply", "patch"}, {"Review"}, {}, FALSE)
  @@ Plain("vote")    :> Move("Only", {"offer", "reply"}, {"Vote"}, {}, FALSE)
  @@ Plain("patch")   :> Move("Only", {"receipt", "review", "reply"}, {"Patch"}, {}, FALSE)
  @@ Plain("fetch")   :> Move("AnyNonReceipt", {}, {"Fetch"}, {}, FALSE)
  @@ Plain("receipt") :> Move("AnyNonReceipt", {}, {"Receipt"}, {}, TRUE)
  @@ Plain("attest")  :> Move("Only", {"reply", "receipt"}, {"Attest"}, {}, TRUE)
  @@ Plain("error")   :> Move("Any", {}, {"Receipt"}, {}, TRUE)

\* mutant: a move that answers anything may also answer nothing
MayAnswerOrphans(spec, parents) ==
  \/ spec.rule = "Opens" /\ parents = {}
  \/ spec.rule = "Any"
  \/ spec.rule = "AnyNonReceipt" /\ Plain("receipt") \notin parents
  \/ spec.rule = "Only" /\ parents # {} /\ parents \subseteq spec.only

MayAnswer(spec, parents) ==
  IF spec.rule = "Opens" THEN parents = {}
  ELSE /\ parents # {}
       /\ spec.rule = "AnyNonReceipt" => Plain("receipt") \notin parents
       /\ spec.rule = "Only" => parents \subseteq spec.only

LegalReplyIntents(moves, parents) == {m \in DOMAIN moves : MayAnswer(moves[m], parents)}

CheckMove(moves, intent, parents, kinds) ==
  /\ intent \in LegalReplyIntents(moves, parents)
  /\ moves[intent].parts \subseteq kinds
  /\ \A group \in moves[intent].any : group \cap kinds # {}
-----------------------------------------------------------------------------
(* Profiles *)

Rule(name, count) == [kind |-> Bridge(name), count |-> count]
Ordered(rules) == [rules |-> rules, anyOf |-> {}]

CollabKinds == {"Review", "Vote", "Patch", "Evidence", "Receipt", "Attest"}

StandardProfiles ==
     "BRIEF"  :> Ordered(<<Rule("Given", "*"), Rule("Frame", "+"), Rule("Return", "?")>>)
  @@ "ASK"    :> Ordered(<<Rule("Given", "*"), Rule("Frame", "*"), Rule("Call", "+"), Rule("Return", "1")>>)
  @@ "LOOM"   :> Ordered(<<Rule("Given", "*"), Rule("Frame", "*"), Rule("Weave", "+"), Rule("Return", "1")>>)
  @@ "COLLAB" :> [rules |-> <<>>, anyOf |-> BridgeAll(CollabKinds)]

\* The parts of one kind from the cursor on; a rule takes all of them.
RunLength(body, cursor, kind) ==
  Max({n \in 0..(Len(body) - cursor) : \A i \in 1..n : body[cursor + i].kind = kind})

CountAllows(count, n) ==
  CASE count = "*" -> TRUE [] count = "+" -> n > 0 [] count = "?" -> n <= 1 [] OTHER -> n = 1

MatchesProfile(profile, body) ==
  IF profile.anyOf # {} THEN body # <<>> /\ Kinds(body) \subseteq profile.anyOf
  ELSE LET end == FoldLeft(LAMBDA acc, rule :
                     LET n == RunLength(body, acc.cursor, rule.kind)
                     IN  [ok |-> acc.ok /\ CountAllows(rule.count, n), cursor |-> acc.cursor + n],
                     [ok |-> TRUE, cursor |-> 0], profile.rules)
       IN  end.ok /\ end.cursor = Len(body)

MatchingProfiles(profiles, body) == {id \in DOMAIN profiles : MatchesProfile(profiles[id], body)}
-----------------------------------------------------------------------------
(* Frames *)

Hole(name, kind) == [name |-> Plain(name), kind |-> kind]

\* A template is text with a marker token for every hole.
Frame(prefix, template, holes) == [prefix |-> prefix, template |-> template, holes |-> holes]

Around(name) == <<Marker(Word(name))>> \o Word(".")
StandardFrames ==
     Bridge("use")      :> Frame("Use", Word("the referenced context") \o Around("resource"), <<Hole("resource", "Ref")>>)
  @@ Bridge("inform")   :> Frame("Note", Around("fact"), <<Hole("fact", "Term")>>)
  @@ Bridge("proposal") :> Frame("You MUST", Word("produce the requested proposal."), <<>>)
  @@ Bridge("answer")   :> Frame("Note", Word("answer the parent packet."), <<>>)
  @@ Bridge("produce-artifact") :>
       Frame("You MUST", Word("produce") \o <<Marker(Word("what"))>> \o Word("for") \o Around("target"),
             <<Hole("what", "Term"), Hole("target", "Term")>>)
  @@ Bridge("require")  :> Frame("You MUST", Around("rule"), <<Hole("rule", "Term")>>)
  @@ Bridge("forbid")   :> Frame("You must NEVER", Around("rule"), <<Hole("rule", "Term")>>)
  @@ Bridge("prefer")   :> Frame("Prefer to", Around("choice"), <<Hole("choice", "Choice")>>)
  @@ Bridge("return")   :> Frame("Return", Around("shape"), <<Hole("shape", "Term")>>)
  @@ Bridge("check")    :> Frame("Check", Around("path"), <<Hole("path", "Path")>>)
  @@ Bridge("explain")  :> Frame("Note", Around("text"), <<Hole("text", "Prose")>>)

IsMarker(token) == "marker" \in DOMAIN token
IsToken(text) == text # <<>> /\ \A i \in DOMAIN text : text[i] \notin {Space, Newline} /\ ~IsMarker(text[i])
IsTerm(e) == e.t = "symbol" \/ (e.t = "string" /\ IsToken(e.a))

FitsHole(kind, e) ==
  CASE kind \in {"Ref", "Term", "Choice"} -> IsTerm(e)
    [] kind = "Path" -> IsVector(e) /\ e.items # <<>> /\ Items(e, IsTerm)
    [] kind = "Number" -> e.t = "number"
    [] OTHER -> e.t = "string"

IsFramePayload(e) == Reads(e, "frame", [frame |-> "symbol"], [slots |-> "keyed"])
FrameId(e) == ToSymbol(Field(e, "frame"))

\* The last of several slots of one name wins.
SlotEntries(e) == IF Has(e, "slots") THEN Field(e, "slots").entries ELSE <<>>
SlotNames(e) == {ToSymbol(SlotEntries(e)[i][1]) : i \in DOMAIN SlotEntries(e)}
Slot(e, name) ==
  SlotEntries(e)[Max({i \in DOMAIN SlotEntries(e) : ToSymbol(SlotEntries(e)[i][1]) = name})][2]

\* mutant: a hole without a value passes
FillsSomeHoles(frame, e) ==
  /\ SlotNames(e) \subseteq {frame.holes[i].name : i \in DOMAIN frame.holes}
  /\ \A i \in DOMAIN frame.holes :
       frame.holes[i].name \in SlotNames(e) => FitsHole(frame.holes[i].kind, Slot(e, frame.holes[i].name))

FillsHoles(frame, e) ==
  /\ SlotNames(e) = {frame.holes[i].name : i \in DOMAIN frame.holes}
  /\ \A i \in DOMAIN frame.holes : FitsHole(frame.holes[i].kind, Slot(e, frame.holes[i].name))

ValidFrame(frames, e) ==
  IF ~IsFramePayload(e) THEN FALSE
  ELSE FrameId(e) \in DOMAIN frames /\ FillsHoles(frames[FrameId(e)], e)
-----------------------------------------------------------------------------
(* The other payloads *)

Fence == Word("<sim-data-")
FenceEnd == Word("</sim-data-")
IsFenced(text) == ToSet(Fence \o FenceEnd) \subseteq ToSet(text)
IsBlank(text) == \A i \in DOMAIN text : text[i] \in {Space, Newline}

CallArgument == [name |-> "symbol", codec |-> "symbol", media |-> "symbol",
                 content_id |-> "string", fenced |-> "string"]
ValidArgument(e) ==
  IF ~Reads(e, "call", CallArgument, None) THEN FALSE
  ELSE /\ ToSymbol(Field(e, "media")) \in BridgeAll({"Text", "Bytes"})
       /\ ~IsBlank(Field(e, "content_id").a)
       /\ IsFenced(Field(e, "fenced").a)

ValidCall(e) ==
  IF ~Reads(e, "call", [name |-> "symbol", args |-> "vector"], [model_params |-> "keyed"]) THEN FALSE
  ELSE Items(Field(e, "args"), ValidArgument)

IsRow(e) == Reads(e, "weave", [slot |-> "string", head |-> "symbol", roles |-> "keyed"], None)

\* The result shape belongs to the checker: it is derived from the rows.
DeriveShape(rows) ==
  Record(<< <<"shape", SymbolExpr(Bridge("WeaveResult"))>>,
            <<"slots", Vector([i \in DOMAIN rows |->
                Record(<< <<"slot", Text(Field(rows[i], "slot").a)>>, <<"head", SymbolExpr(ToSymbol(Field(rows[i], "head")))>> >>)])>> >>)

ValidWeave(e) ==
  IF ~Reads(e, "weave", [rows |-> "vector", result_shape |-> "any"], None) THEN FALSE
  ELSE LET rows == Field(e, "rows").items
           slot == [i \in DOMAIN rows |-> Field(rows[i], "slot").a]
       IN  IF ~Items(Field(e, "rows"), IsRow) \/ rows = <<>> THEN FALSE
           ELSE /\ SameExpr(Field(e, "result_shape"), DeriveShape(rows))
                /\ \A i, j \in DOMAIN rows : IsToken(slot[i]) /\ (slot[i] = slot[j] => i = j)

IsScore(e) == Reads(e, "collab", [axis |-> "symbol", value |-> "integer", reason |-> "string"], None)
CollabFields ==
  [Review |-> [target |-> "string", body |-> "string"],
   Vote |-> [target |-> "string", scores |-> "vector"],
   Patch |-> [parent_cid |-> "string", target |-> "string", replacement |-> "any"],
   Evidence |-> [source |-> "string", body |-> "string"],
   Receipt |-> [status |-> "symbol", refs |-> "strings"],
   Attest |-> [subject |-> "string", claim |-> "string", evidence |-> "strings"]]

ValidCollab(name, e) ==
  IF ~Reads(e, "collab", CollabFields[name], None) THEN FALSE
  ELSE name = "Vote" => Field(e, "scores").items # <<>> /\ Items(Field(e, "scores"), IsScore)

\* A registered kind without a rule of its own carries any payload.
ValidPart(parts, frames, part) ==
  /\ part.kind \in DOMAIN parts
  /\ part.kind = Bridge("Frame") => ValidFrame(frames, part.payload)
  /\ part.kind = Bridge("Call") => ValidCall(part.payload)
  /\ part.kind = Bridge("Weave") => ValidWeave(part.payload)
  /\ \A name \in CollabKinds : part.kind = Bridge(name) => ValidCollab(name, part.payload)
-----------------------------------------------------------------------------
(* Parts, warrants and the whole packet *)

PartSpec(render, authority, unknown) == [render |-> render, authority |-> authority, unknown |-> unknown]

StandardRender ==
  [Given |-> "Data", Frame |-> "Frame", Call |-> "Structural", Weave |-> "Structural", Check |-> "Structural",
   Evidence |-> "Evidence", Review |-> "Review", Vote |-> "Vote", Patch |-> "Patch", Fetch |-> "Fetch",
   Return |-> "Return", Receipt |-> "Receipt", Attest |-> "Evidence", Extension |-> "Extension"]
StandardAuthority(name) ==
  CASE name \in {"Given", "Extension"} -> "Data"
    [] name \in {"Call", "Fetch"} -> "Callable"
    [] name \in {"Evidence", "Review", "Vote", "Receipt", "Attest"} -> "Evidence"
    [] OTHER -> "Normative"

StandardParts ==
  [kind \in BridgeAll(DOMAIN StandardRender) |->
     LET name == kind.name[1].word
     IN  PartSpec(StandardRender[name], StandardAuthority(name), "Reject")]

ContentId(of) == <<[hash |-> of]>>
NoWarrant == [none |-> TRUE]

\* mutant: the warrant vouches for the first part only
WarrantForFirst(book, body) ==
  LET kinds == SetToSeq({body[i].kind : i \in {1} \cap DOMAIN body})
  IN  [moves |-> ContentId([moves |-> book.moves]), frames |-> ContentId([frames |-> book.frames]),
       parts |-> [i \in DOMAIN kinds |-> <<kinds[i], ContentId([kind |-> kinds[i], spec |-> PartBooks[book.parts][kinds[i]]])>>]]

\* warrant_for_packet; the kinds are registered where it is called.
WarrantFor(book, body) ==
  LET kinds == SetToSeq(Kinds(body))
  IN  [moves |-> ContentId([moves |-> book.moves]), frames |-> ContentId([frames |-> book.frames]),
       parts |-> [i \in DOMAIN kinds |-> <<kinds[i], ContentId([kind |-> kinds[i], spec |-> PartBooks[book.parts][kinds[i]]])>>]]

ValidWarrant(book, packet) ==
  book.policy = "Verify" =>
    IF packet.warrant = NoWarrant THEN FALSE ELSE packet.warrant = WarrantFor(book, packet.body)
-----------------------------------------------------------------------------
(* Rendering a Frame part *)

\* The caller's fence around prose.
FencedProse(text) == Fence \o text \o FenceEnd

\* What the match arms of render_hole expect validation to have established.
Renderable(kind, e) ==
  CASE kind \in {"Ref", "Term", "Choice"} -> e.t \in {"symbol", "string"}
    [] kind = "Path" -> IsVector(e) /\ Items(e, LAMBDA x : x.t \in {"symbol", "string"})
    [] kind = "Number" -> e.t = "number"
    [] OTHER -> e.t = "string"

TermText(e) == IF e.t = "symbol" /\ e.ns # <<>> THEN e.ns \o Word("/") \o e.a ELSE e.a
HoleText(kind, e) ==
  CASE kind = "Path" -> FlattenSeq([i \in DOMAIN e.items |-> (IF i = 1 THEN <<>> ELSE Word(".")) \o TermText(e.items[i])])
    [] kind = "Prose" -> FencedProse(e.a)
    [] OTHER -> TermText(e)

MarkerOf(hole) == Marker(hole.name.name)
Replaced(text, marker, by) == Flat([i \in DOMAIN text |-> IF text[i] = marker THEN by ELSE <<text[i]>>])

Unrendered == [ok |-> FALSE, v |-> <<>>]
Unfilled(frame) == [ok |-> TRUE, v |-> frame.template]
FillHole(acc, hole, e) ==
  IF ~acc.ok \/ hole.name \notin SlotNames(e) THEN Unrendered
  ELSE LET value == Slot(e, hole.name)
       IN  IF ~Renderable(hole.kind, value) \/ MarkerOf(hole) \notin ToSet(acc.v) THEN Unrendered
           ELSE [ok |-> TRUE, v |-> Replaced(acc.v, MarkerOf(hole), HoleText(hole.kind, value))]

\* The holes are filled one after the other in what the earlier ones left.
RenderFrame(frame, e) ==
  LET after[n \in 0..Len(frame.holes)] ==
        IF n = 0 THEN Unfilled(frame) ELSE FillHole(after[n - 1], frame.holes[n], e)
  IN  after[Len(frame.holes)]
=============================================================================
