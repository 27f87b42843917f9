--------------------------- MODULE MarkupTables ---------------------------
(***************************************************************************)
(* What the markup backends of sim-codec-doc read each source construct as *)
(* and write each block as.                                                *)
(*                                                                         *)
(* A source text is a sequence of nodes [n, a, in, id, st]: what the       *)
(* backend's parser (pulldown-cmark, asciidork, typst-syntax) or, for      *)
(* LaTeX, its own line scanner meets next.  n is the construct, a = [l, s] *)
(* its attribute (l is a heading's level, and of code and mathematics the  *)
(* layout: 1 for a newline at the end, plus 2 for several lines or runs of *)
(* blanks; s is a language, table shape, list kind or notation), in its    *)
(* inline constructs [k, c], c being the attribute of an inline.  The      *)
(* wording of a construct but for its layout is abstracted to id: two      *)
(* constructs have the same text iff they have the same id, and 0 is no    *)
(* text.  st says where the parser's span of the construct starts: at a    *)
(* place of its own, at the place of the construct before it, or nowhere   *)
(* when the parser has no span for it.                                     *)
(*                                                                         *)
(* A document is a sequence of blocks [k, a, in, id, sp], sp the state of  *)
(* the block's span.                                                       *)
(***************************************************************************)
EXTENDS Integers, Sequences, SequencesExt, Lists

Readable == {"markdown", "asciidoc", "latex", "typst"}
Backends == Readable \cup {"html"}

\* Inline constructs of each language, and what the reader makes of them:
\* "raw" is kept or dropped as the options say; of a "stub" only a part of
\* the source is kept, so that writing it out again does not spell the
\* construct; "verbatim" is a stub kept whatever the options say and not
\* reported; "silent" leaves nothing behind.  A "fragment" is an unsupported
\* construct that was kept with all of its source.
InlineReading ==
    [markdown |-> [text |-> "text", code |-> "code", math |-> "math",
                   emph |-> "emph", strong |-> "strong", link |-> "link",
                   html |-> "raw", footnote |-> "raw", task |-> "raw",
                   image |-> "raw", fragment |-> "raw"],
     asciidoc |-> [text |-> "text", code |-> "code", math |-> "math",
                   emph |-> "emph", strong |-> "strong", link |-> "link",
                   passthru |-> "verbatim", comment |-> "stub",
                   image |-> "stub", macro |-> "raw", anchor |-> "silent",
                   callout |-> "silent", indexterm |-> "silent",
                   dashes |-> "silent", discarded |-> "silent",
                   fragment |-> "raw"],
     latex    |-> [text |-> "text", code |-> "code", math |-> "math",
                   emph |-> "emph", strong |-> "strong", link |-> "link",
                   cite |-> "raw", command |-> "raw", fragment |-> "raw"],
     typst    |-> [text |-> "text", code |-> "code", math |-> "math",
                   emph |-> "emph", strong |-> "strong", link |-> "link",
                   crossref |-> "silent", label |-> "raw", value |-> "stub",
                   fragment |-> "raw"]]

\* Block constructs of each language, and the kind of block they become.
BlockReading ==
    [markdown |-> [heading |-> "heading", para |-> "para", fence |-> "code",
                   indented |-> "code", texfence |-> "math",
                   display |-> "math", quote |-> "quote", list |-> "list",
                   table |-> "table", figure |-> "para", rule |-> "raw",
                   html |-> "raw", footnote |-> "raw", fragment |-> "raw"],
     asciidoc |-> [heading |-> "heading", para |-> "para",
                   listing |-> "code", stem |-> "math", quote |-> "quote",
                   list |-> "list", table |-> "table", figure |-> "figure",
                   passthrough |-> "raw", attribute |-> "raw",
                   media |-> "raw", dlist |-> "raw", directive |-> "raw",
                   comment |-> "stub", fragment |-> "raw"],
     latex    |-> [heading |-> "heading", display |-> "math",
                   equation |-> "math", verbatim |-> "code",
                   quote |-> "quote", list |-> "list", tabular |-> "table",
                   figure |-> "figure", emptyfigure |-> "raw",
                   environment |-> "raw", command |-> "raw", fragment |-> "raw"],
     typst    |-> [heading |-> "heading", fence |-> "code",
                   equation |-> "math", table |-> "table",
                   figure |-> "figure", badtable |-> "stub",
                   badfigure |-> "stub", call |-> "stub", include |-> "stub",
                   import |-> "stub"]]

\* The notation a backend gives the mathematics it reads.
Notation == [markdown |-> "tex", asciidoc |-> "asciidoc", latex |-> "tex",
             typst |-> "typst"]

\* An attribute without a word.
NoWord == ""

At(l, s) == [l |-> l, s |-> s]
Node(n, a, in, id) == [n |-> n, a |-> a, in |-> in, id |-> id, st |-> "own"]
Block(k, a, in, id) ==
    [k |-> k, a |-> a, in |-> in, id |-> id, sp |-> "Preserved"]

(***************************************************************************)
(* Reading.                                                                *)
(***************************************************************************)

\* The inline a construct is read as: mathematics gets the backend's
\* notation, a raw inline the backend's id, and Typst knows a link by its
\* target only, which becomes its label.
InlineOf(b, x) ==
    LET r == InlineReading[b][x.k]
    IN CASE r = "math" -> [k |-> "math", c |-> Notation[b]]
         [] r = "raw" -> [k |-> "raw", c |-> b]
         [] r \in {"stub", "verbatim"} -> [k |-> "raw", c |-> "stub"]
         [] r = "link" /\ b = "typst" -> [k |-> "link", c |-> "target"]
         [] OTHER -> [k |-> r, c |-> x.c]

\* Whether a construct read by b under the policy `keep` leaves an inline.
Survives(b, keep, x) ==
    \/ InlineReading[b][x.k] \notin {"raw", "stub", "silent"}
    \/ InlineReading[b][x.k] \in {"raw", "stub"} /\ keep

ReadInlines(b, keep, in) ==
    LET read == Only(in, {x \in Range(in) : Survives(b, keep, x)})
    IN [i \in DOMAIN read |-> InlineOf(b, read[i])]

\* How many inline constructs were kept raw and reported, or dropped and
\* reported.
ReportedInlines(b, in) ==
    Len(Only(in, {x \in Range(in) : InlineReading[b][x.k] \in {"raw", "stub"}}))

\* The layout of code or mathematics but for the newline at the end.
LinesOf(nd) == 2 * (nd.a.l \div 2)

\* The attribute of the block a construct becomes.  The Markdown reader is
\* the only one that leaves the newline at the end of code; the AsciiDoc
\* reader makes every newline and run of blanks in code and mathematics one
\* blank; verbatim text has no language; deep AsciiDoc sections are level 6.
AttributeOf(b, nd) ==
    LET k == BlockReading[b][nd.n]
        layout == IF b = "asciidoc" THEN 0 ELSE LinesOf(nd)
    IN CASE k = "math" -> At(layout, Notation[b])
         [] k = "raw" -> At(0, b)
         [] k = "stub" -> At(0, "stub")
         [] k = "code" -> At(layout + (IF b = "markdown" THEN 1 ELSE 0),
                             IF b = "latex" \/ nd.n = "indented" THEN NoWord ELSE nd.a.s)
         [] k = "heading" /\ b = "asciidoc" -> At(IF nd.a.l > 6 THEN 6 ELSE nd.a.l, NoWord)
         [] OTHER -> nd.a

\* The LaTeX source of these inlines starts with a backslash.
StartsWithCommand(in) == in # <<>> /\ in[1].k \notin {"text", "math"}

\* Code, mathematics and raw blocks have no inlines of their own; the image
\* of a Markdown figure, and a LaTeX line that starts with a command, is raw.
InlinesOf(b, keep, nd) ==
    IF BlockReading[b][nd.n] \in {"math", "raw", "stub", "code"} THEN <<>>
    ELSE IF \/ b = "markdown" /\ nd.n = "figure"
            \/ b = "latex" /\ nd.n = "quote" /\ StartsWithCommand(nd.in)
         THEN IF keep THEN <<[k |-> "raw", c |-> b]>> ELSE <<>>
         ELSE ReadInlines(b, keep, nd.in)

\* Where the parser has no span for a construct, its block has none either,
\* and the source of a raw block is lost, which is taken from the span.
Spanless(nd) == nd.st = "none"
WordingOf(b, nd) == IF Spanless(nd) /\ BlockReading[b][nd.n] = "raw" THEN 0 ELSE nd.id

\* The blocks one construct becomes, none when it is dropped.  AsciiDoc
\* leaves out a paragraph without text.
BlocksOf(b, keep, nd) ==
    LET k == BlockReading[b][nd.n]
        in == InlinesOf(b, keep, nd)
    IN IF (k \in {"raw", "stub"} /\ ~keep) \/ (b = "asciidoc" /\ k = "para" /\ in = <<>>)
       THEN <<>>
       ELSE <<[Block(IF k = "stub" THEN "raw" ELSE k, AttributeOf(b, nd), in, WordingOf(b, nd))
                 EXCEPT !.sp = IF Spanless(nd) THEN "none" ELSE @]>>

(***************************************************************************)
(* Writing.                                                                *)
(***************************************************************************)

\* A written inline.  LaTeX spells the caret of a text as a command of its
\* own, Markdown does not escape the stars of a text, and a line break is
\* written as a newline, a blank to every other language.
WriteInline(b, x) ==
    CASE x.k = "raw" -> <<[k |-> IF x.c = b THEN "fragment" ELSE "text",
                           c |-> "foreign"]>>
      [] x.k = "text" /\ x.c = "caret" /\ b = "latex" ->
           <<[k |-> "text", c |-> "plain"], [k |-> "command", c |-> "accent"]>>
      [] x.k = "text" /\ x.c = "stars" /\ b = "markdown" ->
           <<[k |-> "emph", c |-> "none"]>>
      [] x.k = "text" /\ x.c = "break" /\ b # "markdown" -> <<[k |-> "text", c |-> "plain"]>>
      [] OTHER -> <<x>>

\* Whether writer b under the policy `keep` reports a loss for an inline:
\* raw fragments when they are not wanted, and in Typst a link whose label
\* is not its target.
LosesInline(b, keep, x) ==
    \/ x.k = "raw" /\ ~keep
    \/ b = "typst" /\ x.k = "link" /\ x.c # "target"

\* The construct writer b spells a kind of block with.
Spelling ==
    [markdown |-> [heading |-> "heading", para |-> "para", code |-> "fence",
                   math |-> "display", quote |-> "quote", list |-> "list",
                   table |-> "table", figure |-> "figure"],
     asciidoc |-> [heading |-> "heading", para |-> "para", code |-> "listing",
                   math |-> "stem", quote |-> "quote", list |-> "list",
                   table |-> "table", figure |-> "figure"],
     latex    |-> [heading |-> "heading", para |-> "line", code |-> "verbatim",
                   math |-> "display", quote |-> "quote", list |-> "list",
                   table |-> "tabular", figure |-> "figure"],
     typst    |-> [heading |-> "heading", para |-> "inline", code |-> "fence",
                   math |-> "equation", list |-> "item", table |-> "table",
                   figure |-> "figure"]]

\* The levels a heading of which is spelled as one: deeper ones are a
\* paragraph of number signs in Markdown and another command in LaTeX.
DeepestHeading == [markdown |-> 6, asciidoc |-> 6, latex |-> 3, typst |-> 255]

\* What a reader finds of a table that writer b was given: Markdown and
\* AsciiDoc cannot leave cells out, a Markdown table needs a header, LaTeX
\* and Typst do not tell the header from the rows, and Typst fills rows up.
Reshape ==
    [markdown |-> [full |-> "full", hole |-> "hole", ragged |-> "hole", noheader |-> "none"],
     asciidoc |-> [full |-> "full", hole |-> "hole", ragged |-> "none", noheader |-> "noheader"],
     latex    |-> [full |-> "full", hole |-> "ragged", ragged |-> "ragged", noheader |-> "full"],
     typst    |-> [full |-> "full", hole |-> "hole", ragged |-> "hole", noheader |-> "full"]]

\* Whether writer b reports a loss for the whole block.
LosesBlock(b, keep, blk) ==
    \/ blk.k = "raw" /\ ~keep
    \/ b = "typst" /\ blk.k = "quote"

WriteInlines(b, keep, in) ==
    FlattenSeq([i \in DOMAIN in |->
        IF LosesInline(b, keep, in[i]) THEN <<>> ELSE WriteInline(b, in[i])])

\* A paragraph of prose; one without text leaves no trace.
Prose(b, in, id) ==
    IF in = <<>> THEN <<>> ELSE <<Node(Spelling[b].para, At(0, NoWord), in, id)>>

\* Raw source: its own backend meets the fragment again, another one text,
\* and nobody anything when the source was lost.
WriteRaw(b, blk) ==
    IF blk.id = 0 THEN <<>>
    ELSE IF blk.a.s = b THEN <<Node("fragment", At(0, NoWord), <<>>, blk.id)>>
                   ELSE Prose(b, <<[k |-> "text", c |-> "foreign"]>>, blk.id)

WriteHeading(b, blk, in) ==
    IF blk.a.l <= DeepestHeading[b] THEN <<Node("heading", blk.a, in, blk.id)>>
    ELSE Prose(b, <<[k |-> IF b = "latex" THEN "command" ELSE "text", c |-> "foreign"]>> \o in,
               blk.id)

WriteTable(b, blk, in) ==
    IF Reshape[b][blk.a.s] = "none" THEN Prose(b, <<[k |-> "text", c |-> "foreign"]>> \o in, blk.id)
    ELSE <<Node(Spelling[b].table, At(0, Reshape[b][blk.a.s]), in, blk.id)>>

\* Typst writes the items of a list on lines of their own.
WriteItems(blk, in) ==
    FlattenSeq([i \in DOMAIN in |->
        IF i = 1 THEN <<Node("item", blk.a, <<in[i]>>, blk.id)>>
        ELSE <<Node("space", At(0, NoWord), <<>>, blk.id), Node("item", blk.a, <<in[i]>>, blk.id)>>])

\* Mutant: the language of a code block is not written.
WriteCodeBare(b, blk) == <<Node(Spelling[b].code, At(blk.a.l, NoWord), <<>>, blk.id)>>

\* Markdown takes a fence in the language "tex" for mathematics.
WriteCode(b, blk) ==
    <<Node(IF b = "markdown" /\ blk.a.s = "tex" THEN "texfence" ELSE Spelling[b].code,
           blk.a, <<>>, blk.id)>>

WriteBlock(b, keep, blk) ==
    LET in == WriteInlines(b, keep, blk.in)
    IN CASE LosesBlock(b, keep, blk) -> <<>>
         [] blk.k = "raw" /\ keep -> WriteRaw(b, blk)
         [] blk.k = "para" -> Prose(b, in, blk.id)
         [] blk.k = "heading" -> WriteHeading(b, blk, in)
         [] blk.k = "table" -> WriteTable(b, blk, in)
         [] blk.k = "code" -> WriteCode(b, blk)
         [] blk.k = "list" /\ b = "typst" -> WriteItems(blk, in)
         [] blk.k = "quote" /\ b = "markdown" /\ in = <<>> -> <<>>
         [] OTHER -> <<Node(Spelling[b][blk.k], blk.a, in, blk.id)>>

\* Blocks are separated by a blank line, which LaTeX and Typst readers see.
Separator == [markdown |-> <<>>, asciidoc |-> <<>>,
              latex |-> <<Node("blank", At(0, NoWord), <<>>, 0)>>,
              typst |-> <<Node("parbreak", At(0, NoWord), <<>>, 0)>>]

WriteBlocks(b, keep, blocks) ==
    FlattenSeq([i \in DOMAIN blocks |->
        (IF i = 1 THEN <<>> ELSE Separator[b]) \o WriteBlock(b, keep, blocks[i])])

\* AsciiDoc writes the title as the document's and leaves the heading it was
\* taken from out; LaTeX writes it beside the heading.
TitleIsFirst(doc) ==
    /\ doc.title # 0 /\ doc.blocks # <<>>
    /\ doc.blocks[1].k = "heading" /\ doc.blocks[1].a.l = 1 /\ doc.blocks[1].id = doc.title

WriteDoc(b, keep, doc) ==
    CASE b = "asciidoc" /\ doc.title # 0 ->
           <<Node("doctitle", At(0, NoWord), <<>>, doc.title)>>
             \o WriteBlocks(b, keep, IF TitleIsFirst(doc) THEN Tail(doc.blocks) ELSE doc.blocks)
      [] b = "latex" /\ doc.title # 0 ->
           <<Node("title", At(0, NoWord), <<>>, doc.title)>> \o Separator[b]
             \o WriteBlocks(b, keep, doc.blocks)
      [] OTHER -> WriteBlocks(b, keep, doc.blocks)

\* The losses writer b reports; those inside a block it loses are not looked at.
WriteLosses(b, keep, doc) ==
    LET blocks == IF b = "asciidoc" /\ TitleIsFirst(doc) THEN Tail(doc.blocks) ELSE doc.blocks
        lost(blk) == IF LosesBlock(b, keep, blk) THEN 1
                     ELSE Len(SelectSeq(blk.in, LAMBDA x : LosesInline(b, keep, x)))
    IN FoldSeq(LAMBDA blk, n : n + lost(blk), 0, blocks)
=============================================================================
