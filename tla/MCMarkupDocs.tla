---------------------------- MODULE MCMarkupDocs ----------------------------
(***************************************************************************)
(* Small instances of MarkupDocs: every block construct of every language  *)
(* alone and before every other one, every inline construct, texts that    *)
(* are edited, all short sequences of HTML tokens, and small documents to  *)
(* be chunked.                                                             *)
(***************************************************************************)
EXTENDS MarkupDocs

MCMaxNodes == 7
MCMaxDepth == 3
MCMaxText == 3
MCMaxSize == 4

Text(b, nodes, keep, n) == [lang |-> b, nodes |-> nodes, keep |-> keep, edits |-> n]
X(k, c) == [k |-> k, c |-> c]
Say == <<X("text", "plain")>>
Broken == Say \o <<X("text", "break")>> \o Say

\* The inline constructs of a language, as they may begin or end a paragraph.
InlinesIn(b) ==
    {X(k, "none") : k \in (DOMAIN InlineReading[b]) \ {"text", "link", "fragment"}}
      \cup {X("text", c) : c \in {"plain", "caret", "stars"}}
      \cup {X("link", c) : c \in {"target", "label"}}

\* A block construct with the attributes and inlines it may have.
Variants(b, n) ==
    LET k == IF n \in DOMAIN BlockReading[b] THEN BlockReading[b][n] ELSE "para"
        with(as, ins) == {Node(n, a, in, 0) : a \in as, in \in ins}
        none == At(0, "")
    IN CASE k = "heading" -> with({At(l, "") : l \in IF b = "latex" THEN 1..3 ELSE {1, 2, 7}}, {Say})
         [] k = "para" -> with({none}, {Say} \cup {<<x>> : x \in InlinesIn(b)}
                                       \cup {Say \o <<x>> : x \in InlinesIn(b)}
                                       \cup (IF b = "latex" THEN {} ELSE {Broken}))
         [] k = "quote" -> with({none}, {Say, <<X("emph", "none")>>})
         [] k = "list" -> with({At(0, "ul"), At(0, "ol")},
                               IF n = "item" THEN {Say} ELSE {Say, Say \o Say})
         [] k = "table" -> with({At(0, s) : s \in {"full", "hole"}
                                   \cup (IF b = "asciidoc" THEN {"noheader"} ELSE {})
                                   \cup (IF b = "latex" THEN {"ragged"} ELSE {})}, {Say})
         [] k = "figure" -> with({none}, {Say})
         [] k = "code" -> with({At(l, s) : l \in {0, 2}, s \in {"", "rust"} \cup
                                   (IF b = "markdown" THEN {} ELSE {"tex"})}, {<<>>})
         [] n = "stem" -> with({none, At(2, "")}, {<<>>})
         [] OTHER -> with({none}, {<<>>})

\* A Markdown heading has at most six levels.
Sound(b, nd) == ~(b = "markdown" /\ nd.n = "heading" /\ nd.a.l > 6)

Extra ==
    [markdown |-> {}, asciidoc |-> {"doctitle", "empty", "delimiter"},
     latex |-> {"blank", "comment", "wrapper", "title", "line"},
     typst |-> {"parbreak", "inline"}]

Items == {Node("item", At(0, s), Say, 0) : s \in {"ul", "ol"}}

Plainly(b, n) ==
    IF n \in {"blank", "comment", "wrapper", "title", "parbreak", "doctitle", "empty", "delimiter"}
    THEN {Node(n, At(0, ""), <<>>, 0)} ELSE {nd \in Variants(b, n) : Sound(b, nd)}

Singles(b) ==
    UNION {Plainly(b, n) : n \in ((DOMAIN BlockReading[b]) \ {"fragment"}) \cup Extra[b]}
      \cup (IF b = "typst" THEN Items ELSE {})

\* One variant of each construct, to be followed by another construct.
Brief(b) == {nd \in Singles(b) : nd.in \in {<<>>, Say}
                                 /\ nd.a.l < (IF nd.n = "heading" THEN 3 ELSE 2)
                                 /\ nd.a.s \in {"", "ul", "ol", "full"}}

\* Constructs are worded alike exactly if they stand at the same place.
Placed(nodes) == [i \in DOMAIN nodes |-> [nodes[i] EXCEPT !.id = i]]

ShortTexts ==
    UNION {{Text(b, <<[nd EXCEPT !.id = 1]>>, keep, 0) : nd \in Singles(b), keep \in BOOLEAN} :
              b \in Readable}
PairTexts ==
    UNION {{Text(b, Placed(<<p, q>>), keep, 0) :
              p \in Brief(b), q \in Brief(b), keep \in BOOLEAN} : b \in Readable}

Space == Node("space", At(0, ""), <<>>, 0)
Para(in) == Node("para", At(0, ""), in, 0)
Line(in) == Node("line", At(0, ""), in, 0)
Item == Node("item", At(0, "ul"), Say, 0)

\* What is stepped over stands right behind the construct it belongs to.
Behind(b, n, owners) ==
    {<<nd, Node(n, At(0, ""), <<>>, 0)>> : nd \in {nd \in Brief(b) : nd.n \in owners}}
SteppedOver ==
    {Text("latex", Placed(s), FALSE, 0) :
        s \in Behind("latex", "rest", {"title", "heading", "wrapper", "figure", "list"})}
      \cup {Text("typst", Placed(s), FALSE, 0) :
        s \in Behind("typst", "argument", {"table", "figure"})}

\* Directives among blocks of which two start together or one has no span.
Directive == Node("directive", At(0, ""), <<>>, 0)
Starting(nd, st) == [nd EXCEPT !.st = st]
Unplaced ==
    {Text("asciidoc", Placed(<<Directive, Starting(p, s), Starting(q, t)>> \o r), keep, 0) :
        p \in {Para(Say), Node("attribute", At(0, ""), <<>>, 0)}, s \in {"own", "shared", "none"},
        q \in {Para(Say), Node("comment", At(0, ""), <<>>, 0)}, t \in {"own", "none"},
        r \in {<<>>, <<Directive>>}, keep \in BOOLEAN}
      \cup {Text("asciidoc", Placed(<<Starting(p, "none"), Para(Say)>>), TRUE, 0) :
        p \in {Para(Say), Node("media", At(0, ""), <<>>, 0)}}

LongTexts ==
    SteppedOver \cup Unplaced \cup
    {Text("latex", Placed(<<Line(Say), Line(Say), Line(<<X("emph", "none")>>),
                            Node("comment", At(0, ""), <<>>, 0), Line(Say)>>), TRUE, 0),
     Text("typst", Placed(<<Item, Space, Item, Item, Space, Node("inline", At(0, ""), Say, 0)>>),
          TRUE, 0),
     Text("asciidoc", Placed(<<Para(Say), Node("directive", At(0, ""), <<>>, 0), Para(Say),
                               Node("directive", At(0, ""), <<>>, 0)>>), TRUE, 0),
     Text("asciidoc", <<Node("error", At(0, ""), <<>>, 1)>>, TRUE, 0),
     Text("typst", <<Node("error", At(0, ""), <<>>, 1)>>, TRUE, 0)}

EditedTexts ==
    {Text("markdown", Placed(<<Node("heading", At(1, ""), Say, 0), Para(<<X("link", "label")>>)>>),
          TRUE, 2),
     Text("latex", Placed(<<Line(Say)>>), TRUE, 3),
     Text("asciidoc", Placed(<<Node("figure", At(0, ""), Say, 0),
                               Node("list", At(0, "ul"), Say, 0)>>), TRUE, 2)}

Tok(n, t) == Node(n, At(0, t), <<>>, 0)
HtmlTokens ==
    {Tok("open", "p"), Tok("close", "p"), Tok("open", "li"), Tok("close", "li"),
     Tok("open", "script"), Tok("close", "script"), Tok("text", "")}
HtmlSequences == UNION {[1..n -> HtmlTokens] : n \in 1..4}
HtmlLong ==
    {<<Tok("open", "ul"), Tok("open", "li"), Tok("text", ""), Tok("close", "li"),
       Tok("close", "ul")>>,
     <<Tok("open", "p"), Tok("open", "form"), Tok("open", "p"), Tok("text", ""),
       Tok("close", "form"), Tok("text", ""), Tok("close", "p")>>,
     <<Tok("open", "h1"), Tok("text", ""), Tok("empty", "embed"), Tok("text", ""),
       Tok("close", "h1")>>,
     <<Tok("open", "title"), Tok("text", ""), Tok("close", "title"), Tok("void", "br"),
       Tok("open", "pre"), Tok("text", ""), Tok("close", "pre")>>,
     <<Tok("open", "ol"), Tok("open", "li"), Tok("open", "script"), Tok("text", ""),
       Tok("close", "script"), Tok("close", "li"), Tok("close", "ol")>>,
     <<Tok("open", "li"), Tok("open", "script"), Tok("open", "p"), Tok("close", "p"),
       Tok("text", ""), Tok("close", "script"), Tok("close", "li")>>,
     <<Tok("open", "li"), Tok("open", "p"), Tok("open", "p"), Tok("close", "p"),
       Tok("open", "script"), Tok("close", "p"), Tok("text", ""), Tok("close", "li")>>,
     [i \in 1..8 |-> Tok("void", "br")],
     [i \in 1..4 |-> Tok("open", "blockquote")],
     [i \in 1..4 |-> Tok("text", "")]}
HtmlTexts == {Text("html", Placed(s), TRUE, 0) : s \in HtmlSequences \cup HtmlLong}

MCTexts == ShortTexts \cup PairTexts \cup LongTexts \cup EditedTexts \cup HtmlTexts

LineOf(h, w, e) == [h |-> h, w |-> w, e |-> e]
MCLines == {LineOf(-1, <<>>, 1), LineOf(0, <<1, 3>>, 1), LineOf(0, <<2>>, 2)}
             \cup {LineOf(h, <<1, 1>>, 1) : h \in {1, 2, 3, 7}}
MCDocuments == {<<>>} \cup UNION {[1..n -> MCLines] : n \in 1..3}
                 \cup {<<a, b, c, d>> : a, b, c \in {LineOf(h, <<1, 1>>, 1) : h \in 1..3},
                                        d \in {LineOf(0, <<4, 1>>, 0)}}

\* Edited texts alone, for the run about undoing.
MCEditedTexts == EditedTexts
MCNoDocuments == {}
=============================================================================
