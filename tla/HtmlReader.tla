---------------------------- MODULE HtmlReader ----------------------------
(***************************************************************************)
(* The tolerant HTML reader.  The text is a sequence of tokens: opening,   *)
(* closing and self-closing tags, void tags, and pieces of text.  A first  *)
(* pass keeps a stack of open elements, gives every piece of text to all   *)
(* of them and turns an element into a block when it is closed; while an   *)
(* active element is open, text is left out.  A second pass searches the   *)
(* text for lists and tables and appends them.                             *)
(*                                                                         *)
(* A piece of text carries, as its attribute c, whether it lies inside an  *)
(* active element: the reader does not look at it, properties do.          *)
(***************************************************************************)
EXTENDS MarkupReader

ActiveTags == {"script", "style", "form", "object", "embed", "iframe"}

Html == result = "reading" /\ text.lang = "html"
HtmlMore == Html /\ rd.pos <= Len(text.nodes)

\* The blocks of the closed elements.
HtmlBlock ==
    [h1 |-> "heading", h2 |-> "heading", pre |-> "code", blockquote |-> "quote",
     p |-> "para", li |-> "para", td |-> "para", th |-> "para"]

\* The elements that are open behind the first i tokens, known by the places
\* of their tags: a closing tag ends the innermost element of its name and
\* every element inside that one.
OpenBehind(nodes) ==
    LET open[i \in 0..Len(nodes)] ==
            IF i = 0 THEN {}
            ELSE LET before == open[i - 1]
                     same == {k \in before : nodes[k].a.s = nodes[i].a.s}
                 IN CASE nodes[i].n = "open" -> before \cup {i}
                      [] nodes[i].n = "close" /\ same # {} ->
                             {k \in before : \E m \in same : k < m}
                      [] OTHER -> before
    IN open

\* Whether the token at i lies inside an active element.
InsideActive(nodes, i) ==
    \E k \in OpenBehind(nodes)[i - 1] : nodes[k].a.s \in ActiveTags

Piece(nodes, i) ==
    [k |-> "text", c |-> IF InsideActive(nodes, i) THEN "active" ELSE "plain"]

\* Mutant: any element that is closed ends a suppression.
FinishAny(r) ==
    LET f == Last(r.frames)
        blk == Block(HtmlBlock[f.tag], At(0, NoWord), f.in, f.id)
        s == [r EXCEPT !.frames = Front(@), !.hidden = IF @ > 0 THEN @ - 1 ELSE 0]
    IN IF f.in # <<>> /\ f.tag \in DOMAIN HtmlBlock
       THEN [s EXCEPT !.got = Append(@, [at |-> f.at, blk |-> blk])] ELSE s

\* An element is closed: an active one ends its suppression, one with text
\* becomes a block or the title.
Finish(r) ==
    LET f == Last(r.frames)
        level == IF f.tag = "h2" THEN 2 ELSE IF f.tag = "h1" THEN 1 ELSE 0
        blk == Block(HtmlBlock[f.tag], At(level, NoWord), f.in, f.id)
        s == [r EXCEPT !.frames = Front(@)]
    IN CASE f.tag \in ActiveTags -> [s EXCEPT !.hidden = IF @ > 0 THEN @ - 1 ELSE 0]
         [] f.tag \notin ActiveTags /\ f.in # <<>> /\ f.tag = "title" ->
                [s EXCEPT !.title = f.id]
         [] f.tag \notin ActiveTags /\ f.in # <<>> /\ f.tag \in DOMAIN HtmlBlock ->
                [s EXCEPT !.got = Append(@, [at |-> f.at, blk |-> blk])]
         [] OTHER -> s

\* The state of the reader after its innermost n elements are closed.
FinishInner(r, n) ==
    LET after[i \in 0..n] == IF i = 0 THEN r ELSE Finish(after[i - 1])
    IN after[n]

Counted(r) == [r EXCEPT !.pos = @ + 1, !.tags = @ + 1]
TooManyTags == rd.tags + 1 > MaxNodes

\* Tags over the limit, and elements nested too deeply, end the reading.
RejectHtml ==
    /\ HtmlMore
    /\ \/ Here.n # "text" /\ TooManyTags
       \/ Here.n = "open" /\ Len(rd.frames) + 1 > MaxDepth
       \/ Here.n = "text" /\ rd.hidden = 0 /\ rd.chars + 1 > MaxText
    /\ result' = "error" /\ UNCHANGED <<text, rd>>

\* An opening tag; a self-closing active tag starts a suppression too, but
\* opens no element.
OpenTag ==
    /\ HtmlMore /\ Here.n \in {"open", "empty", "void"} /\ ~TooManyTags
    /\ Here.n = "open" => Len(rd.frames) + 1 <= MaxDepth
    /\ LET tag == Here.a.s
           frame == [tag |-> tag, at |-> rd.pos, in |-> <<>>, id |-> 0]
       IN Read([Counted(rd) EXCEPT
                   !.hidden = IF tag \in ActiveTags THEN @ + 1 ELSE @,
                   !.frames = IF Here.n = "open" THEN Append(@, frame) ELSE @])

\* A closing tag closes the innermost element of its name and those inside
\* it; without such an element it is ignored.
CloseTag ==
    /\ HtmlMore /\ Here.n = "close" /\ ~TooManyTags
    /\ LET same == {i \in DOMAIN rd.frames : rd.frames[i].tag = Here.a.s}
           inner == CHOOSE i \in same : \A j \in same : j <= i
           n == IF same = {} THEN 0 ELSE Len(rd.frames) + 1 - inner
       IN Read(FinishInner(Counted(rd), n))

HtmlText ==
    /\ HtmlMore /\ Here.n = "text" /\ ~(rd.hidden = 0 /\ rd.chars + 1 > MaxText)
    /\ LET piece == Piece(text.nodes, rd.pos)
           given == [i \in DOMAIN rd.frames |->
                        [rd.frames[i] EXCEPT !.in = Append(@, piece),
                                             !.id = IF @ = 0 THEN Here.id ELSE @]]
       IN IF rd.hidden > 0
          THEN Read([rd EXCEPT !.pos = @ + 1])
          ELSE Read([rd EXCEPT !.pos = @ + 1, !.chars = @ + 1, !.frames = given])

(***************************************************************************)
(* The second pass.                                                        *)
(***************************************************************************)

\* A search for "<tag" also finds the tags that begin with it.
BeginWith == [ul |-> {"ul"}, ol |-> {"ol"}, li |-> {"li", "link"}]

\* The stretches <<first, last>> of tokens between an opening tag found in
\* lo..hi and the first closing tag behind it, from left to right.
Elements(nodes, lo, hi, tag) ==
    LET Opens(i) == {j \in i..hi : /\ nodes[j].n \in {"open", "empty", "void"}
                                   /\ nodes[j].a.s \in BeginWith[tag]}
        Least(S) == CHOOSE j \in S : \A m \in S : j <= m
        Closes(i) == {j \in (Least(Opens(i)) + 1)..hi :
                          nodes[j].n = "close" /\ nodes[j].a.s = tag}
        search[n \in 0..Len(nodes)] ==
            IF n = 0 THEN [rest |-> lo, found |-> <<>>]
            ELSE LET s == search[n - 1]
                 IN IF Opens(s.rest) = {} \/ Closes(s.rest) = {} THEN s
                    ELSE [rest |-> Least(Closes(s.rest)) + 1,
                          found |-> Append(s.found, <<Least(Opens(s.rest)) + 1,
                                                      Least(Closes(s.rest)) - 1>>)]
    IN search[Len(nodes)].found

\* The text of a stretch, tags left out.
PiecesIn(nodes, lo, hi) ==
    LET places == SelectSeq([i \in 1..Len(nodes) |-> i],
                            LAMBDA i : i \in lo..hi /\ nodes[i].n = "text")
    IN [i \in DOMAIN places |-> Piece(nodes, places[i])]

\* An item is one inline, active as soon as a piece of it is.
ListItem(nodes, lo, hi) ==
    [k |-> "text", c |-> IF [k |-> "text", c |-> "active"] \in Range(PiecesIn(nodes, lo, hi))
                         THEN "active" ELSE "plain"]

ListsIn(nodes, tag) ==
    LET lists == Elements(nodes, 1, Len(nodes), tag)
        items == [i \in DOMAIN lists |-> Elements(nodes, lists[i][1], lists[i][2], "li")]
        blocks == [i \in DOMAIN lists |->
                     [at |-> lists[i][1],
                      blk |-> Block("list", At(0, tag),
                                    [j \in DOMAIN items[i] |->
                                        ListItem(nodes, items[i][j][1], items[i][j][2])],
                                    0)]]
    IN Only(blocks, {e \in Range(blocks) : e.blk.in # <<>>})

\* What is still open is closed at the end of the text; then the lists of
\* the whole text are appended.
HtmlResult(r) ==
    LET closed == FinishInner(r, Len(r.frames))
    IN [closed EXCEPT !.got = @ \o ListsIn(text.nodes, "ul") \o ListsIn(text.nodes, "ol")]
=============================================================================
