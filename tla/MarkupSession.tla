--------------------------- MODULE MarkupSession ---------------------------
(***************************************************************************)
(* The life of a markup document: a text is read, edits are applied to the *)
(* document and taken back in reverse order, a writer turns it into the    *)
(* text of a language, and a reader of that language reads it again.       *)
(*                                                                         *)
(* Edits carry what they expect to find.  Two authors prepare them, one    *)
(* from the document as it is and one from the document as it was read, so *)
(* that an edit may be out of date when it is applied.                     *)
(***************************************************************************)
EXTENDS HtmlReader

CONSTANT Texts   \* the texts a session starts from, edits: how many edits are made

Attributes == [l : Int, s : STRING]
Inlines == [k : STRING, c : STRING]
Nodes == [n : STRING, a : Attributes, in : Seq(Inlines), id : Nat, st : STRING]

\* A text of a language consists of constructs of that language; only the
\* AsciiDoc parser has constructs without a span, or two that start together;
\* active content is a notion of the HTML reader.
ASSUME TextsAssumption ==
    \A t \in Texts :
        /\ t \in [lang : Backends, nodes : Seq(Nodes), keep : BOOLEAN, edits : Nat]
        /\ t.lang = "markdown" =>
              \A i \in DOMAIN t.nodes : t.nodes[i].n \in DOMAIN BlockReading["markdown"]
        /\ \A i \in DOMAIN t.nodes :
              t.lang # "asciidoc" \/ t.nodes[i].n = "directive" => t.nodes[i].st = "own"
        /\ t.lang # "html" =>
              \A i \in DOMAIN t.nodes : \A j \in DOMAIN t.nodes[i].in :
                  LET x == t.nodes[i].in[j]
                  IN x.k \in DOMAIN InlineReading[t.lang] /\ x.c # "active"

VARIABLES phase,    \* "reading", "open", "rereading", "reread" or "closed"
          first,    \* the document as it was read
          doc,      \* the document: title, blocks, source
          journal,  \* applied edits [edit, before], the last one at the end
          refused,  \* what was refused last: "none", "edit" or "undo"
          out,      \* the last writing: language, losses, success, whether it is the source
          again     \* the blocks of the text that was written and read again

sessionVars == <<phase, first, doc, journal, refused, out, again>>

NoSource == [lang |-> "none", nodes |-> <<>>]
NoDoc == [title |-> 0, blocks |-> <<>>, source |-> NoSource]
NotWritten == [lang |-> "none", lost |-> 0, ok |-> TRUE, verbatim |-> FALSE]

SessionInit ==
    /\ text \in Texts
    /\ rd = NewReader /\ result = "reading" /\ phase = "reading"
    /\ first = NoDoc /\ doc = NoDoc /\ journal = <<>> /\ refused = "none"
    /\ out = NotWritten /\ again = <<>>

(***************************************************************************)
(* The end of the reading.                                                 *)
(***************************************************************************)

\* Mutant: the directives are put behind the parsed blocks.
AppendDirectives(r) == [r EXCEPT !.got = @ \o r.dirs, !.dirs = <<>>]

\* Where the span of the construct at place p starts, behind everything for
\* one the parser has no span for (usize::MAX).
StartOf(nodes, p) ==
    CASE nodes[p].st = "none" -> Len(nodes) + 1
      [] nodes[p].st = "shared" -> p - 1
      [] OTHER -> p

\* The elements of a sequence in the order of their starts, those with the
\* same start as they come: an element has as many before it as start
\* earlier.
InPlace(s, nodes) ==
    LET start(i) == StartOf(nodes, s[i].at)
        before(i) ==
            {j \in DOMAIN s : start(j) < start(i) \/ (start(j) = start(i) /\ j < i)}
    IN [p \in DOMAIN s |-> s[CHOOSE i \in DOMAIN s : Cardinality(before(i)) = p - 1]]

\* AsciiDoc directives that were kept take their places among the parsed
\* blocks, behind a block with the same start.
MergeDirectives(r) ==
    IF r.dirs = <<>> THEN r
    ELSE [r EXCEPT !.got = InPlace(@ \o r.dirs, text.nodes), !.dirs = <<>>]

EndOf(b, r) ==
    CASE b = "html" -> HtmlResult(r)
      [] b = "asciidoc" -> MergeDirectives(r)
      [] OTHER -> FlushList(FlushPara(r))

BlocksRead(r) == [i \in DOMAIN r.got |-> r.got[i].blk]

\* The first heading of level 1 titles a Markdown, Typst or LaTeX document
\* that does not say otherwise.
TitleRead(b, r) ==
    LET tops == SelectSeq(BlocksRead(r), LAMBDA x : x.k = "heading" /\ x.a.l = 1)
    IN IF r.title # 0 \/ tops = <<>> \/ b \in {"html", "asciidoc"} THEN r.title
       ELSE tops[1].id

FinishReading ==
    /\ result = "reading" /\ rd.pos > Len(text.nodes)
    /\ LET r == EndOf(text.lang, rd)
           d == [title |-> TitleRead(text.lang, r), blocks |-> BlocksRead(r),
                 source |-> [lang |-> text.lang, nodes |-> text.nodes]]
       IN /\ rd' = r /\ result' = "ok"
          /\ IF phase = "reading"
             THEN phase' = "open" /\ first' = d /\ doc' = d /\ again' = again
             ELSE phase' = "reread" /\ again' = d.blocks /\ UNCHANGED <<first, doc>>
    /\ UNCHANGED <<text, journal, refused, out>>

GiveUpReading ==
    /\ \/ RejectText
       \/ RejectHtml
    /\ phase' = "closed" /\ UNCHANGED <<first, doc, journal, refused, out, again>>

ReadNext ==
    /\ \/ ReadMarkdown
       \/ ReadAsciidocBlock \/ ReadAsciidocDirective \/ ReadAsciidocTitle \/ ReadAsciidocUnseen
       \/ ReadLatexBlank \/ ReadLatexComment \/ ReadLatexRest
       \/ ReadLatexWrapper \/ ReadLatexTitle
       \/ ReadLatexLine \/ ReadLatexCommandLine \/ ReadLatexBlock
       \/ ReadTypstBreak \/ ReadTypstSpace \/ ReadTypstInline \/ ReadTypstItem
       \/ ReadTypstArgument \/ ReadTypstBlock
       \/ OpenTag \/ CloseTag \/ HtmlText
    /\ UNCHANGED sessionVars

(***************************************************************************)
(* Edits.                                                                  *)
(***************************************************************************)

\* Mutant: the span of an edited block stays as it is.
LeftClean(blk) == blk

\* Spans of an edited block are dirty; a block built by an author has none.
Dirty(blk) == [blk EXCEPT !.sp = IF @ = "none" THEN @ ELSE "Dirty"]

\* The inlines whose text can be replaced: texts, and the label of a link.
\* Only headings, paragraphs and figures have editable inlines.
EditableBlocks == {"heading", "para", "figure"}
EditableInlines == {"text", "link"}

TextOf(blk, j) ==
    IF blk.k \in EditableBlocks /\ j \in DOMAIN blk.in /\ blk.in[j].k \in EditableInlines
    THEN {blk.in[j].c} ELSE {}

\* Whether an edit finds what it expects, and what it then makes.
Expected(d, e) ==
    CASE e.op = "title"   -> d.title = e.old
      [] e.op = "insert"  -> e.at <= Len(d.blocks) + 1
      [] e.op \in {"replace", "delete"} -> e.at \in DOMAIN d.blocks /\ d.blocks[e.at] = e.old
      [] e.op = "text"    -> e.at \in DOMAIN d.blocks /\ e.old \in TextOf(d.blocks[e.at], e.path)

Applied(d, e) ==
    LET changed ==
            CASE e.op = "title"   -> [d EXCEPT !.title = e.new]
              [] e.op = "insert"  -> [d EXCEPT !.blocks = InsertAt(@, e.at, e.new)]
              [] e.op = "replace" -> [d EXCEPT !.blocks[e.at] = e.new]
              [] e.op = "delete"  -> [d EXCEPT !.blocks = RemoveAt(@, e.at)]
              [] e.op = "text"    -> [d EXCEPT !.blocks[e.at] =
                                         Dirty([@ EXCEPT !.in[e.path].c = e.new])]
    IN [changed EXCEPT !.source = NoSource]

\* Mutant: a deleted block comes back at the front.
InverseAtFront(e) ==
    CASE e.op = "insert" -> [op |-> "delete", at |-> e.at, old |-> e.new]
      [] e.op = "delete" -> [op |-> "insert", at |-> 1, new |-> e.old]
      [] OTHER -> [e EXCEPT !.old = e.new, !.new = e.old]

InverseEdit(e) ==
    CASE e.op = "insert" -> [op |-> "delete", at |-> e.at, old |-> e.new]
      [] e.op = "delete" -> [op |-> "insert", at |-> e.at, new |-> e.old]
      [] OTHER -> [e EXCEPT !.old = e.new, !.new = e.old]

\* A paragraph an author writes.
Fresh == [Block("para", At(0, NoWord), <<[k |-> "text", c |-> "plain"]>>, 90) EXCEPT !.sp = "none"]

\* The edits an author can prepare who sees the document d.
EditsOf(d) ==
    LET places == DOMAIN d.blocks
        other(c) == CASE c = "plain" -> "caret" [] c = "target" -> "label" [] OTHER -> "plain"
    IN {[op |-> "title", old |-> d.title, new |-> 91]}
       \cup {[op |-> "insert", at |-> i, new |-> blk] :
                i \in 1..(Len(d.blocks) + 1), blk \in {Fresh} \cup Range(d.blocks)}
       \cup {[op |-> "replace", at |-> i, old |-> d.blocks[i], new |-> Fresh] : i \in places}
       \cup {[op |-> "delete", at |-> i, old |-> d.blocks[i]] : i \in places}
       \cup UNION {UNION {{[op |-> "text", at |-> i, path |-> j, old |-> c, new |-> other(c)] :
                              c \in TextOf(d.blocks[i], j)} :
                          j \in DOMAIN d.blocks[i].in} : i \in places}

\* Applying an edit changes nothing when it does not find what it expects.
Edit ==
    /\ phase = "open" /\ Len(journal) < text.edits
    /\ \E e \in EditsOf(doc) \cup EditsOf(first) :
          IF Expected(doc, e)
          THEN /\ doc' = Applied(doc, e) /\ refused' = "none"
               /\ journal' = Append(journal, [edit |-> e, before |-> [doc EXCEPT !.source = NoSource]])
          ELSE refused' = "edit" /\ UNCHANGED <<doc, journal>>
    /\ UNCHANGED <<readerVars, phase, first, out, again>>

\* The inverse of the last edit is applied.
Undo ==
    /\ phase = "open" /\ journal # <<>>
    /\ LET e == InverseEdit(Last(journal).edit)
       IN IF Expected(doc, e)
          THEN doc' = Applied(doc, e) /\ journal' = Front(journal) /\ refused' = "none"
          ELSE refused' = "undo" /\ UNCHANGED <<doc, journal>>
    /\ UNCHANGED <<readerVars, phase, first, out, again>>

(***************************************************************************)
(* Writing, and reading what was written.                                  *)
(***************************************************************************)

\* Texts whose structure asciidork settles for itself (a later part, skipped
\* levels, nested lists, uneven tables, empty quotes) are not read again.
Settled(b, d) ==
    b # "asciidoc" \/
    \A i \in DOMAIN d.blocks :
       LET blk == d.blocks[i]
       IN /\ blk.k = "heading" => blk.a.l = 2 \/ (i = 1 /\ TitleIsFirst(d))
          /\ blk.k = "list" => i = 1 \/ d.blocks[i - 1].k # "list"
          /\ blk.k = "table" => blk.a.s # "ragged"
          /\ blk.k = "quote" => blk.in # <<>>
          /\ \A j \in DOMAIN blk.in : blk.in[j].c # "stars"

\* What the Markdown parser joins: two lists of a kind without anything
\* between them.
Joined(b, nodes) ==
    LET join(seq, nd) ==
            IF b = "markdown" /\ seq # <<>> /\ nd.n = "list" /\ Last(seq).n = "list"
                 /\ Last(seq).a = nd.a
            THEN Append(Front(seq), [Last(seq) EXCEPT !.in = @ \o nd.in])
            ELSE Append(seq, nd)
    IN FoldLeft(join, <<>>, nodes)

Reopen(b, nodes, keep) ==
    /\ text' = [lang |-> b, nodes |-> nodes, keep |-> keep, edits |-> 0]
    /\ rd' = NewReader /\ result' = "reading" /\ phase' = "rereading"

\* A writer with its policies: keep raw fragments, fail on any loss.
Write(b, keep, strict) ==
    /\ phase = "open" /\ b \in Readable
    /\ LET lost == WriteLosses(b, keep, doc)
           ok == ~(strict /\ lost > 0)
       IN /\ out' = [lang |-> b, lost |-> lost, ok |-> ok, verbatim |-> FALSE]
          /\ IF ok /\ keep /\ Settled(b, doc)
             THEN Reopen(b, Joined(b, WriteDoc(b, keep, doc)), keep)
             ELSE phase' = "closed" /\ UNCHANGED readerVars
    /\ UNCHANGED <<first, doc, journal, refused, again>>

\* HTML is only given back as it came.
WriteHtml ==
    /\ phase = "open"
    /\ out' = [lang |-> "html", lost |-> 0, ok |-> doc.source.lang = "html",
               verbatim |-> doc.source.lang = "html"]
    /\ IF doc.source.lang = "html" THEN Reopen("html", doc.source.nodes, text.keep)
       ELSE phase' = "closed" /\ UNCHANGED readerVars
    /\ UNCHANGED <<first, doc, journal, refused, again>>

\* codec:doc gives the source back when there is one, and writes Markdown
\* without looking at losses otherwise.
WriteSource ==
    /\ phase = "open"
    /\ IF doc.source = NoSource
       THEN /\ Reopen("markdown", Joined("markdown", WriteDoc("markdown", TRUE, doc)), TRUE)
            /\ out' = [lang |-> "markdown", lost |-> 0, ok |-> TRUE, verbatim |-> FALSE]
       ELSE /\ Reopen(doc.source.lang, doc.source.nodes, text.keep)
            /\ out' = [lang |-> doc.source.lang, lost |-> 0, ok |-> TRUE, verbatim |-> TRUE]
    /\ UNCHANGED <<first, doc, journal, refused, again>>

SessionNext ==
    \/ ReadNext \/ FinishReading \/ GiveUpReading
    \/ Edit \/ Undo
    \/ \E b \in Readable, keep, strict \in BOOLEAN : Write(b, keep, strict)
    \/ WriteHtml \/ WriteSource
=============================================================================
