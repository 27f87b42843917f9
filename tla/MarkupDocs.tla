----------------------------- MODULE MarkupDocs -----------------------------
(***************************************************************************)
(* sim-codec-doc as a whole: a behaviour is a session with a markup        *)
(* document or the chunking of a plain one.                                *)
(***************************************************************************)
EXTENDS MarkupSession, DocChunks

vars == <<readerVars, sessionVars, chunkVars>>

NoText == [lang |-> "none", nodes |-> <<>>, keep |-> TRUE, edits |-> 0]

StartSession ==
    /\ SessionInit
    /\ lines = <<>> /\ scan = NewScan /\ chunks = NoChunks

StartChunking ==
    /\ ChunkInit
    /\ text = NoText /\ rd = NewReader /\ result = "ok" /\ phase = "closed"
    /\ first = NoDoc /\ doc = NoDoc /\ journal = <<>> /\ refused = "none"
    /\ out = NotWritten /\ again = <<>>

Init == StartSession \/ StartChunking

Next ==
    \/ text # NoText /\ SessionNext /\ UNCHANGED chunkVars
    \/ text = NoText /\ ChunkNext /\ UNCHANGED <<readerVars, sessionVars>>

Spec == Init /\ [][Next]_vars

(***************************************************************************)
(* Properties.                                                             *)
(***************************************************************************)

\* The blocks without their spans; code has no inlines, its text is its own.
Plain(blocks) ==
    [i \in DOMAIN blocks |->
        [blocks[i] EXCEPT !.sp = "none", !.in = IF blocks[i].k = "code" THEN <<>> ELSE @]]

\* What a language can say of an inline and of a block so that its own
\* reader finds the same again.
KeepsInline(b, x) ==
    /\ x.k = "raw" => x.c = b
    /\ x.k = "math" => x.c = Notation[b]
    /\ x.k = "text" => /\ ~(b = "latex" /\ x.c = "caret") /\ ~(b = "markdown" /\ x.c = "stars")
                       /\ x.c = "break" => b = "markdown"
    /\ x.k = "link" /\ b = "typst" => x.c = "target"

KeepsBlock(b, blk) ==
    /\ \A j \in DOMAIN blk.in : KeepsInline(b, blk.in[j])
    /\ CASE blk.k = "heading" -> blk.a.l <= DeepestHeading[b] /\ (b = "asciidoc" => blk.a.l # 1)
         [] blk.k = "para" -> blk.in # <<>> /\ (b = "latex" => ~StartsWithCommand(blk.in))
         [] blk.k = "code" -> /\ (blk.a.l % 2 = 1) = (b = "markdown")
                              /\ b = "asciidoc" => blk.a.l < 2
                              /\ b = "latex" => blk.a.s = NoWord
                              /\ b = "markdown" => blk.a.s # "tex"
         [] blk.k = "math" -> blk.a.s = Notation[b]
         [] blk.k = "quote" -> /\ b # "typst" /\ (b = "markdown" => blk.in # <<>>)
                               /\ b = "latex" /\ StartsWithCommand(blk.in) =>
                                      blk.in = <<[k |-> "raw", c |-> "latex"]>>
         [] blk.k = "list" -> b = "typst" => Len(blk.in) = 1
         [] blk.k = "table" -> Reshape[b][blk.a.s] = blk.a.s
         [] blk.k = "figure" -> b # "markdown"
         [] blk.k = "raw" -> blk.a.s = b /\ blk.id # 0

InFragment(b, blocks) ==
    /\ \A i \in DOMAIN blocks : KeepsBlock(b, blocks[i])
    /\ b = "markdown" =>
          ~ \E i \in 1..(Len(blocks) - 1) :
                blocks[i].k = "list" /\ blocks[i + 1].k = "list" /\ blocks[i].a = blocks[i + 1].a

\* A written document is read again as the same blocks exactly if it is in
\* the language's fragment, whatever it was read from and however it was
\* edited, when no loss was reported (what the conformance tests check on
\* one fixture of each language).
TransferExactlyFragment ==
    phase = "reread" /\ out.lost = 0 =>
        (Plain(again) = Plain(doc.blocks) <=> (out.verbatim \/ InFragment(out.lang, doc.blocks)))

\* The inlines that leave nothing behind and that no reader reports.
UnnamedInlines ==
    [markdown |-> {}, latex |-> {}, typst |-> {"crossref"},
     asciidoc |-> {"anchor", "callout", "indexterm", "dashes", "discarded"}]

Voiced(b, in) == Len(Only(in, {x \in Range(in) : x.k \notin UnnamedInlines[b]}))

\* The nodes that leave nothing behind and that no reader reports as lost.
UnnamedNodes ==
    [markdown |-> {}, asciidoc |-> {"empty", "delimiter"}, latex |-> {"comment", "rest"},
     typst |-> {"argument"}]

\* The source constructs a node stands for: itself when it is kept or lost as
\* a whole, its inlines when they are read, n of them, and none in titles,
\* breaks and the unnamed nodes.
Standing(b, nd, n) ==
    CASE nd.n \in DOMAIN BlockReading[b] ->
           IF \/ BlockReading[b][nd.n] \in {"raw", "stub", "math", "code"}
              \/ b = "markdown" /\ nd.n = "figure"
              \/ b = "latex" /\ nd.n = "quote" /\ StartsWithCommand(nd.in)
           THEN 1 ELSE n
      [] nd.n = "line" -> IF StartsWithCommand(nd.in) THEN 1 ELSE n
      [] nd.n \in {"inline", "item"} -> n
      [] OTHER -> 0

Constructs(b, nd) == Standing(b, nd, Voiced(b, nd.in))

\* Those a block keeps.
Kept(blk) == IF blk.k \in {"raw", "math", "code"} THEN 1 ELSE Len(blk.in)

ConstructsOf(t) == [i \in DOMAIN t.nodes |-> Constructs(t.lang, t.nodes[i])]
KeptBy(blocks) == [i \in DOMAIN blocks |-> Kept(blocks[i])]

Positioned(p) == text.nodes[p].st # "none"
Start(p) == StartOf(text.nodes, p)

\* Two constructs that reach the document on the same way: both AsciiDoc
\* directives, or both parsed and with a span, or both parsed without one.
SameWay(p, q) ==
    /\ (text.nodes[p].n = "directive") = (text.nodes[q].n = "directive")
    /\ Positioned(p) = Positioned(q)

\* Directives were put among the blocks.
Merged == \E i \in DOMAIN rd.got : text.nodes[rd.got[i].at].n = "directive"

\* Every construct of a text but the unnamed ones is in the document that was
\* read or is named as a loss, and nothing is lost when raw fragments are
\* kept.  Each block is that of its place in the text, with the text it has
\* there unless that had to come from a span there is none of.  Blocks with a
\* span are in the order of their starts, those that came on the same way in
\* the order of the text; a block without a span keeps its place as well
\* unless a directive was kept, and is behind those with one if so.
ReadingAccounts ==
    phase = "open" /\ text.lang # "html" =>
        /\ Total(ConstructsOf(text)) = Total(KeptBy(first.blocks)) + rd.lost
        /\ text.keep => rd.lost = 0
        /\ \A i \in DOMAIN first.blocks :
              first.blocks[i].id = WordingOf(text.lang, text.nodes[rd.got[i].at])
        /\ \A i, j \in DOMAIN first.blocks :
              i < j => LET p == rd.got[i].at
                           q == rd.got[j].at
                       IN /\ (Positioned(p) /\ Positioned(q)) \/ Merged => Start(p) <= Start(q)
                          /\ SameWay(p, q) \/ ~Merged => p < q

\* The text of scripts, styles, forms and embedded objects is in no block
\* that comes from a closed element, however badly the elements nest.
NoActiveContent ==
    \A i \in DOMAIN first.blocks :
        first.blocks[i].k # "list" =>
            \A j \in DOMAIN first.blocks[i].in : first.blocks[i].in[j].c # "active"

\* Taking an edit back restores title and blocks as they were before it
\* (their spans stay dirty), and is refused only for a block whose span was
\* made dirty in the meantime.
UndoRestores ==
    [][/\ Len(journal') < Len(journal) =>
             /\ doc'.title = Last(journal).before.title
             /\ Plain(doc'.blocks) = Plain(Last(journal).before.blocks)
       /\ refused' = "undo" =>
             LET e == Last(journal).edit
             IN /\ e.op \in {"insert", "replace"} /\ e.at \in DOMAIN doc.blocks
                /\ doc.blocks[e.at] = Dirty(e.new) /\ e.new.sp = "Preserved"]_vars

\* A document that still has its source has the blocks that were read from
\* it, and a block with a preserved span is one that was read: what is given
\* back verbatim, or copied from the source by a span, is never out of date.
VerbatimIsCurrent ==
    /\ doc.source # NoSource => doc = first
    /\ \A i \in DOMAIN doc.blocks :
          doc.blocks[i].sp = "Preserved" => doc.blocks[i] \in Range(first.blocks)

\* "A reversible edit over a semantic markup document": an edit that was
\* applied can be taken back.
UndoAccepted == refused # "undo"
=============================================================================
