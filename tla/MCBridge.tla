------------------------------ MODULE MCBridge ------------------------------
(***************************************************************************)
(* Two peers, four sets of books and a dialogue of small packets of every *)
(* profile, with some that validation has to refuse.                       *)
(***************************************************************************)
EXTENDS BridgeExchange

\* Words, and the markers of two holes, which a value may spell as well.
MCTokens == [word : STRING] \cup {Marker(Word("what")), Marker(Word("target"))}

\* Keys and doubled values in the order of canonical_key.
MCCanonical ==
  [i \in 1..18 |-> SymbolExpr(Plain(
     <<"args", "body", "claim", "codec", "evidence", "fact", "frame", "name", "parent_cid", "refs", "replacement",
       "result_shape", "rows", "scores", "slots", "status", "target", "what">>[i]))]
  \o <<Text(Word("a")), Text(Word("z"))>>
MCIntegerTexts == {Word("1")}
MCDecodeLimits == [nodes |-> 60, depth |-> 6, collection |-> 5, string |-> 6]

MCUpper == [Given |-> "GIVEN", Frame |-> "FRAME", Call |-> "CALL", Weave |-> "WEAVE", Evidence |-> "EVIDENCE",
            Review |-> "REVIEW", Vote |-> "VOTE", Patch |-> "PATCH", Fetch |-> "FETCH", Return |-> "RETURN",
            Receipt |-> "RECEIPT", Attest |-> "ATTEST", RiskNote |-> "RISKNOTE", Note |-> "NOTE"]
MCProper == [k \in {MCUpper[n] : n \in DOMAIN MCUpper} |->
               IF k = "RISKNOTE" THEN "Risknote" ELSE CHOOSE n \in DOMAIN MCUpper : MCUpper[n] = k]
-----------------------------------------------------------------------------
(* Books: the standard ones, and those of a peer with its own Return, notes, frames and fetches. *)
Note == Bridge("Note")
RiskNote == Bridge("RiskNote")
Foreign == Symbol(Word("local"), Word("Note"))

MCPartBooks ==
  [standard |-> StandardParts,
   local |-> With(With(With(With(StandardParts, Note, PartSpec("Extension", "Data", "PreserveDataOnly")),
                            RiskNote, PartSpec("Extension", "Data", "PreserveDataOnly")),
                       Foreign, PartSpec("Extension", "Data", "PreserveDataOnly")),
                  Bridge("Return"), PartSpec("Return", "Data", "Reject"))]
MCMoveBooks ==
  [standard |-> StandardMoves,
   local |-> With(StandardMoves, Plain("fetch"), Move("Only", {"reply"}, {"Fetch"}, {}, FALSE))]
ASSUME MovesDocumented == \A b \in DOMAIN MoveBooks : Documented(MoveBooks[b])
MCFrameBooks ==
  [standard |-> StandardFrames,
   local |-> With(StandardFrames, Bridge("inform"), Frame("Note", Around("text"), <<Hole("text", "Number")>>))]
MCProfileBooks ==
  [standard |-> StandardProfiles,
   local |-> With(With(StandardProfiles, "NOTE", Ordered(<<Rule("Frame", "+"), Rule("Return", "1"), Rule("Note", "+")>>)),
                  "FETCH", [rules |-> <<>>, anyOf |-> {Bridge("Fetch"), RiskNote, Foreign}])]

Book(parts, moves, frames, profiles, policy) ==
  [parts |-> parts, moves |-> moves, frames |-> frames, profiles |-> profiles, policy |-> policy]
MCBooks ==
  <<Book("standard", "standard", "standard", "standard", "SharedTrust"),
    Book("standard", "standard", "standard", "standard", "Verify"),
    Book("local", "standard", "standard", "local", "Verify"),
    Book("local", "local", "local", "local", "Verify")>>
-----------------------------------------------------------------------------
Draft(move, output, card, parts) ==
  [cid |-> <<>>, move |-> Plain(move), from |-> <<>>, to |-> <<Word("b")>>, role |-> Plain("worker"), parents |-> <<>>,
   task |-> Symbol(Word("ns"), Word("T1")), output |-> output, ceiling |-> <<Symbol(Word("ai"), Word("run")), Plain("x")>>,
   context |-> <<>>, author |-> Plain("sim"), card |-> card,
   body |-> [i \in DOMAIN parts |-> Part(Plain("P"), parts[i][1], parts[i][2])], warrant |-> NoWarrant]
Out == Plain("O1")
MCClaims == {Plain("reply")}

Entry(name, e) == <<SymbolExpr(Plain(name)), e>>
FramePart(id, slots) == <<Bridge("Frame"), MapOf(<<Entry("frame", SymbolExpr(Bridge(id))), Entry("slots", MapOf(slots))>>)>>
Short == Text(Word("a"))
Produce == FramePart("produce-artifact", <<Entry("what", Short), Entry("target", SymbolExpr(Symbol(Word("x"), Word("y"))))>>)
Braces == FramePart("produce-artifact", <<Entry("what", SymbolExpr(Symbol(<<>>, <<Marker(Word("target"))>>))),
                                         Entry("target", SymbolExpr(Symbol(Word("x"), <<Marker(Word("what"))>>)))>>)
Half == FramePart("produce-artifact", <<Entry("what", Short)>>)
Check == FramePart("check", <<Entry("path", Vector(<<Short, Text(Word("z"))>>))>>)
Explain == FramePart("explain", <<Entry("text", Text(Word("a") \o <<Space>> \o Word("b")))>>)
Inform == FramePart("inform", <<Entry("fact", Text(Word("a") \o <<Space>>))>>)
Return == <<Bridge("Return"), MapOf(<<Entry("codec", SymbolExpr(Symbol(Word("codec"), Word("bridge"))))>>)>>
Long == Text([i \in 1..7 |-> Word("a")[1]])
Given == <<Bridge("Given"), Nil>>
Argument(fenced) ==
  MapOf(<<Entry("name", SymbolExpr(Plain("x"))), Entry("codec", SymbolExpr(Plain("json"))), Entry("media", SymbolExpr(Bridge("Text"))),
          Entry("content_id", Short), Entry("fenced", Text(fenced))>>)
Call(fenced) == <<Bridge("Call"), MapOf(<<Entry("name", SymbolExpr(Plain("f"))), Entry("args", Vector(<<Argument(fenced)>>))>>)>>
Row(slot) == MapOf(<<Entry("slot", Text(slot)), Entry("head", SymbolExpr(Plain("f"))), Entry("roles", MapOf(<<>>))>>)
Weave(rows, shaped) == <<Bridge("Weave"), MapOf(<<Entry("rows", Vector(rows)), Entry("result_shape", DeriveShape(shaped))>>)>>
Rows == <<Row(Word("s"))>>
Review == <<Bridge("Review"), MapOf(<<Entry("target", Text(Word("z"))), Entry("target", Short), Entry("body", Short)>>)>>
Vote(scores) == <<Bridge("Vote"), MapOf(<<Entry("target", Short), Entry("scores", Vector(scores))>>)>>
Score == MapOf(<<Entry("axis", SymbolExpr(Plain("fit"))), Entry("value", NumberOf(Word("1"))), Entry("reason", Short)>>)
Patch == <<Bridge("Patch"), MapOf(<<Entry("parent_cid", Short), Entry("target", Short), Entry("replacement", Nil)>>)>>
Receipt == <<Bridge("Receipt"), MapOf(<<Entry("status", SymbolExpr(Plain("ok"))), Entry("refs", Vector(<<Short>>))>>)>>
Attest == <<Bridge("Attest"), MapOf(<<Entry("subject", Short), Entry("claim", Short), Entry("evidence", Vector(<<>>))>>)>>

Compose(packet, warranted, stamped) == [packet |-> packet, warranted |-> warranted, stamped |-> stamped]
MCDrafts ==
  [a |-> <<Compose(Draft("request", Out, <<>>, <<Braces, Return>>), TRUE, TRUE),
           Compose(Draft("request", Out, Word("c1"), <<Given, Call(Fence \o Word("q") \o FenceEnd), Return>>), FALSE, TRUE),
           Compose(Draft("review", Out, <<>>, <<Review, Vote(<<Score>>)>>), TRUE, TRUE),
           Compose(Draft("receipt", Out, <<>>, <<Receipt>>), TRUE, FALSE),
           Compose(Draft("fetch", Out, <<>>, <<<<Bridge("Fetch"), Nil>>, <<Foreign, Nil>>>>), TRUE, TRUE),
           \* refused
           Compose(Draft("request", Out, <<>>, <<Half, Return>>), TRUE, TRUE),
           Compose(Draft("request", Out, <<>>, <<Call(Word("q")), Return>>), TRUE, TRUE),
           Compose(Draft("vote", Out, <<>>, <<Vote(<<>>)>>), TRUE, TRUE),
           \* not kept by the text, and over the reader's limits
           Compose(Draft("request", Out, Word("c1") \o <<Space>> \o Word("c2"), <<Produce, Return>>), TRUE, TRUE),
           Compose(Draft("request", Out, <<>>, <<Produce, <<Bridge("Return"), Long>>>>), TRUE, TRUE)>>,
   b |-> <<Compose(Draft("reply", Out, <<>>, <<Check, Explain, Weave(Rows, Rows), Return>>), TRUE, TRUE),
           Compose(Draft("patch", Out, <<>>, <<Patch>>), TRUE, TRUE),
           Compose(Draft("error", Out, <<>>, <<Attest, Receipt>>), FALSE, TRUE),
           Compose(Draft("request", Out, <<>>, <<Produce, Return, <<Note, Nil>>>>), TRUE, TRUE),
           Compose(Draft("fetch", Out, <<>>, <<<<Bridge("Fetch"), Nil>>, <<RiskNote, Nil>>>>), TRUE, TRUE),
           \* refused
           Compose(Draft("request", Out, <<>>, <<Inform, Return>>), TRUE, TRUE),
           Compose(Draft("reply", Out, <<>>, <<Weave(Rows, <<>>), Return>>), TRUE, TRUE)>>]

MCFirstBooks == {[a |-> MCBooks[1], b |-> MCBooks[2]]}
=============================================================================
