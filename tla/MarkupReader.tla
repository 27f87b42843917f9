--------------------------- MODULE MarkupReader ---------------------------
(***************************************************************************)
(* The readers of sim-codec-doc as one machine: a text of one of the five  *)
(* languages is consumed construct by construct into the blocks of a       *)
(* document, its title and a fidelity report.  The Markdown, AsciiDoc and  *)
(* Typst readers walk what their parser yields; the LaTeX reader scans     *)
(* lines and joins them into paragraphs; the HTML reader keeps a stack of  *)
(* open elements and then extracts lists from the text a second time.      *)
(***************************************************************************)
EXTENDS MarkupTables, FiniteSets

CONSTANTS MaxNodes,   \* HTML: tags examined
          MaxDepth,   \* HTML: open elements
          MaxText     \* HTML: pieces of text

ASSUME LimitsAssumption == {MaxNodes, MaxDepth, MaxText} \subseteq Nat

VARIABLES text,   \* the source being read: language lang, nodes, raw policy keep
          rd,     \* the state of the reader
          result  \* "reading", "ok" or "error"

readerVars == <<text, rd, result>>

\* got: blocks with the place their construct starts at; para, list: the
\* paragraph and the list under construction; dirs: AsciiDoc directives put
\* aside; raws, lost: entries of the fidelity report; frames, hidden, tags,
\* chars: the HTML parser's stack, suppression count and resource counters.
NewReader ==
    [pos |-> 1, got |-> <<>>, para |-> <<>>, list |-> <<>>, dirs |-> <<>>,
     title |-> 0, raws |-> 0, lost |-> 0,
     frames |-> <<>>, hidden |-> 0, tags |-> 0, chars |-> 0]

More == result = "reading" /\ rd.pos <= Len(text.nodes)
Here == text.nodes[rd.pos]
Found(blks) == [i \in DOMAIN blks |-> [at |-> rd.pos, blk |-> blks[i]]]

\* The fidelity entries a construct causes: itself when it is unsupported,
\* and each unsupported inline in it.
Reports(b, nd) ==
    LET k == BlockReading[b][nd.n]
    IN CASE k \in {"raw", "stub"} \/ (b = "markdown" /\ nd.n = "figure") -> 1
         [] b = "latex" /\ k = "quote" /\ StartsWithCommand(nd.in) -> 1
         [] k \in {"math", "code"} -> 0
         [] OTHER -> ReportedInlines(b, nd.in)

Report(r, n) == IF text.keep THEN [r EXCEPT !.raws = @ + n]
                             ELSE [r EXCEPT !.lost = @ + n]

\* The pending paragraph and the pending list become blocks.  A paragraph
\* without visible content is not kept.
FlushPara(r) ==
    IF r.para = <<>> THEN r
    ELSE [r EXCEPT !.para = <<>>,
                   !.got = IF r.para[1].blk.in = <<>> THEN @ ELSE Append(@, r.para[1])]

FlushList(r) == [r EXCEPT !.list = <<>>, !.got = @ \o r.list]

\* The pending paragraph grows by the inlines of one more piece of text; it
\* is known by its first visible piece.
Grow(r, in, at, id) ==
    [r EXCEPT !.para =
        IF r.para = <<>> \/ r.para[1].blk.in = <<>>
        THEN <<[at |-> at, blk |-> Block("para", At(0, NoWord), in, id)]>>
        ELSE <<[r.para[1] EXCEPT !.blk.in = @ \o in]>>]

\* A construct that is a block of its own.
ReadBlock(r) ==
    LET b == text.lang
    IN Report([FlushList(FlushPara(r)) EXCEPT
                   !.pos = @ + 1,
                   !.got = @ \o Found(BlocksOf(b, text.keep, Here))],
              Reports(b, Here))

Read(r) == rd' = r /\ UNCHANGED <<text, result>>

(***************************************************************************)
(* Markdown: every construct of the parser is a block or a reported loss.  *)
(***************************************************************************)
ReadMarkdown == More /\ text.lang = "markdown" /\ Read(ReadBlock(rd))

(***************************************************************************)
(* AsciiDoc: directives were cut out of the text before it was parsed; they *)
(* are merged with the parsed blocks by place at the end.                  *)
(***************************************************************************)
ReadAsciidocBlock ==
    /\ More /\ text.lang = "asciidoc" /\ Here.n \in DOMAIN BlockReading["asciidoc"]
    /\ Here.n # "directive"
    /\ Read(ReadBlock(rd))

ReadAsciidocDirective ==
    /\ More /\ text.lang = "asciidoc" /\ Here.n = "directive"
    /\ Read(Report([rd EXCEPT !.pos = @ + 1,
                              !.dirs = @ \o Found(BlocksOf("asciidoc", text.keep, Here))],
                   1))

\* An empty block and the delimiters of a block of blocks that is no quote
\* leave nothing; what is between the delimiters is read as if they were not.
ReadAsciidocUnseen ==
    /\ More /\ text.lang = "asciidoc" /\ Here.n \in {"empty", "delimiter"}
    /\ Read([rd EXCEPT !.pos = @ + 1])

ReadAsciidocTitle ==
    /\ More /\ text.lang = "asciidoc" /\ Here.n = "doctitle"
    /\ Read([rd EXCEPT !.pos = @ + 1, !.title = Here.id])

(***************************************************************************)
(* LaTeX: a scanner of lines.                                              *)
(***************************************************************************)

LatexLine(kind) == More /\ text.lang = "latex" /\ Here.n = kind

ReadLatexBlank   == LatexLine("blank") /\ Read([FlushPara(rd) EXCEPT !.pos = @ + 1])
ReadLatexComment == LatexLine("comment") /\ Read([rd EXCEPT !.pos = @ + 1])
ReadLatexWrapper == LatexLine("wrapper") /\ Read([FlushPara(rd) EXCEPT !.pos = @ + 1])

\* What the scanner steps over: the rest of a line behind the argument of a
\* title or heading and behind the document wrapper, and what a figure has
\* beside its image and caption, or a list before its first item.
ReadLatexRest == LatexLine("rest") /\ Read([rd EXCEPT !.pos = @ + 1])

ReadLatexTitle ==
    /\ LatexLine("title")
    /\ Read([FlushPara(rd) EXCEPT !.pos = @ + 1, !.title = Here.id])

\* A line of prose joins the pending paragraph, unless it begins with a
\* command that is not one of the block constructs: that line is kept raw.
ReadLatexLine ==
    /\ LatexLine("line") /\ ~StartsWithCommand(Here.in)
    /\ LET in == ReadInlines("latex", text.keep, Here.in)
       IN Read(Report([Grow(rd, in, rd.pos, Here.id) EXCEPT !.pos = @ + 1],
                      ReportedInlines("latex", Here.in)))

ReadLatexCommandLine ==
    /\ LatexLine("line") /\ StartsWithCommand(Here.in)
    /\ LET raw == Block("raw", At(0, "latex"), <<>>, Here.id)
       IN Read(Report([FlushPara(rd) EXCEPT
                          !.pos = @ + 1,
                          !.got = IF text.keep THEN @ \o Found(<<raw>>) ELSE @],
                      1))

ReadLatexBlock ==
    /\ More /\ text.lang = "latex" /\ Here.n \in DOMAIN BlockReading["latex"]
    /\ Read(ReadBlock(rd))

(***************************************************************************)
(* Typst: the expressions of the markup; the line break between two list   *)
(* items is an expression as well.                                         *)
(***************************************************************************)
ReadTypstBreak ==
    /\ More /\ text.lang = "typst" /\ Here.n = "parbreak"
    /\ Read([FlushList(FlushPara(rd)) EXCEPT !.pos = @ + 1])

ReadTypstSpace ==
    /\ More /\ text.lang = "typst" /\ Here.n = "space"
    /\ Read([Grow(FlushList(rd), <<>>, rd.pos, Here.id) EXCEPT !.pos = @ + 1])

ReadTypstInline ==
    /\ More /\ text.lang = "typst" /\ Here.n = "inline"
    /\ LET in == ReadInlines("typst", text.keep, Here.in)
       IN Read(Report([Grow(FlushList(rd), in, rd.pos, Here.id) EXCEPT !.pos = @ + 1],
                      ReportedInlines("typst", Here.in)))

\* An item joins the pending list when that is of the same kind.
ReadTypstItem ==
    /\ More /\ text.lang = "typst" /\ Here.n = "item"
    /\ LET in == ReadInlines("typst", text.keep, Here.in)
           r  == FlushPara(rd)
           new == [at |-> rd.pos, blk |-> Block("list", Here.a, in, Here.id)]
           joins == r.list # <<>> /\ r.list[1].blk.a = Here.a
           s == IF joins THEN [r EXCEPT !.list[1].blk.in = @ \o in]
                         ELSE [FlushList(r) EXCEPT !.list = <<new>>]
       IN Read(Report([s EXCEPT !.pos = @ + 1], ReportedInlines("typst", Here.in)))

\* An argument of a table or figure that is not one of those looked for
\* causes a warning only.
ReadTypstArgument ==
    /\ More /\ text.lang = "typst" /\ Here.n = "argument"
    /\ Read([rd EXCEPT !.pos = @ + 1])

ReadTypstBlock ==
    /\ More /\ text.lang = "typst" /\ Here.n \in DOMAIN BlockReading["typst"]
    /\ Read(ReadBlock(rd))

\* The parser rejects the text.
RejectText ==
    /\ result = "reading" /\ rd.pos = 1
    /\ \E i \in DOMAIN text.nodes : text.nodes[i].n = "error"
    /\ result' = "error" /\ UNCHANGED <<text, rd>>
=============================================================================
