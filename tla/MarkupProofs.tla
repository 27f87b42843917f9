---------------------------- MODULE MarkupProofs ----------------------------
(***************************************************************************)
(* Proofs about markup documents: what a reader makes of a text is typed,  *)
(* the HTML reader puts no active content into a block, what a document    *)
(* claims to have preserved was read from its source, an edit that is      *)
(* taken back leaves the document as it was, and a reading accounts for    *)
(* every construct of its text.                                            *)
(***************************************************************************)
EXTENDS MarkupDocs, DataLemmas, FiniteSetTheorems

(***************************************************************************)
(* Types.                                                                  *)
(***************************************************************************)

\* The strings; the words the readers use are named because no prover knows
\* of a literal that it is a string.
Words ==
    STRING \cup {NoWord, "text", "code", "math", "emph", "strong", "link", "raw", "silent", "stub",
                 "verbatim", "heading", "para", "quote", "list", "table", "figure",
                 "tex", "markdown", "asciidoc", "latex", "typst", "html",
                 "plain", "active", "caret", "label", "target", "ul", "ol"}

Spans == {"none", "Preserved", "Dirty"}
Attrs == [l : Int, s : Words]
Phrases == [k : Words, c : Words]
AllBlocks == [k : Words, a : Attrs, in : Seq(Phrases), id : Nat, sp : Spans]

\* Inlines that no active element contributed to, blocks of such inlines,
\* and what ends up in a document: only lists may hold active content.
CleanPhrases == {x \in Phrases : x.c # "active"}
CleanBlocks == [k : Words, a : Attrs, in : Seq(CleanPhrases), id : Nat, sp : Spans]
ReadBlocks == {blk \in AllBlocks : blk.k # "list" => blk.in \in Seq(CleanPhrases)}

Items == [at : Nat, blk : CleanBlocks]
Frames == [tag : Words, at : Nat, in : Seq(CleanPhrases), id : Nat]

Readers ==
    [pos : Nat \ {0}, got : Seq(Items), para : Seq(Items), list : Seq(Items), dirs : Seq(Items),
     title : Nat, raws : Nat, lost : Nat,
     frames : Seq(Frames), hidden : Nat, tags : Nat, chars : Nat]

\* The constructs a text of language b may consist of.
Constructed(b) ==
    {nd \in [n : Words, a : Attrs, in : Seq(Phrases), id : Nat, st : Words] :
        /\ \A j \in DOMAIN nd.in : nd.in[j].k \in DOMAIN InlineReading[b] /\ nd.in[j].c # "active"
        /\ b # "asciidoc" => nd.st = "own"}

(***************************************************************************)
(* The tables and the operators on sequences.                              *)
(***************************************************************************)

\* The tables name kinds, and no notation is called active.
LEMMA TablesType ==
  /\ \A b \in Readable : \A k \in DOMAIN InlineReading[b] : InlineReading[b][k] \in Words
  /\ \A b \in Readable : \A n \in DOMAIN BlockReading[b] : BlockReading[b][n] \in Words
  /\ \A b \in Readable : Notation[b] \in Words /\ Notation[b] # "active"
  /\ \A b \in Readable : b \in Words /\ b # "active" /\ b # "html"
<1>1. \A b \in Readable : \A k \in DOMAIN InlineReading[b] : InlineReading[b][k] \in Words
  BY SMT DEF InlineReading, Words, Readable
<1>2. \A b \in Readable : \A n \in DOMAIN BlockReading[b] : BlockReading[b][n] \in Words
  BY SMT DEF BlockReading, Words, Readable
<1>3. \A b \in Readable : Notation[b] \in Words /\ Notation[b] # "active"
  BY SMT DEF Notation, Words, Readable
<1>4. \A b \in Readable : b \in Words /\ b # "active" /\ b # "html"
  BY SMT DEF Words, Readable
<1> QED BY <1>1, <1>2, <1>3, <1>4

(***************************************************************************)
(* What a construct becomes.                                               *)
(***************************************************************************)

\* Phrases a text of language b may have.
PhrasesOf(b) == {x \in Phrases : x.k \in DOMAIN InlineReading[b] /\ x.c # "active"}

\* What an inline construct is read as.
LEMMA InlineType ==
  ASSUME NEW b \in Readable, NEW x \in PhrasesOf(b)
  PROVE  InlineOf(b, x) \in CleanPhrases
<1> DEFINE r == InlineReading[b][x.k]
<1>1. r \in Words /\ x.c \in Words /\ x.c # "active"
  BY TablesType DEF PhrasesOf, Phrases
<1>2. Notation[b] \in Words /\ Notation[b] # "active" /\ b \in Words /\ b # "active"
  BY TablesType
<1>3. PICK w : w = r
  OBVIOUS
<1>4. InlineOf(b, x) = CASE w = "math" -> [k |-> "math", c |-> Notation[b]]
                         [] w = "raw" -> [k |-> "raw", c |-> b]
                         [] w \in {"stub", "verbatim"} -> [k |-> "raw", c |-> "stub"]
                         [] w = "link" /\ b = "typst" -> [k |-> "link", c |-> "target"]
                         [] OTHER -> [k |-> w, c |-> x.c]
  BY <1>3 DEF InlineOf
<1>5. {"math", "raw", "stub", "link", "target"} \subseteq Words
  BY DEF Words
<1> HIDE DEF r
<1>6. \A k, c \in Words : c # "active" => [k |-> k, c |-> c] \in CleanPhrases
  BY DEF CleanPhrases, Phrases
<1>a. CASE w = "math"
  BY <1>a, <1>2, <1>4, <1>5, <1>6
<1>b. CASE w = "raw"
  BY <1>b, <1>2, <1>4, <1>5, <1>6
<1>c. CASE w \in {"stub", "verbatim"}
  BY <1>c, <1>2, <1>4, <1>5, <1>6
<1>d. CASE w = "link" /\ b = "typst"
  BY <1>d, <1>2, <1>4, <1>5, <1>6
<1>e. CASE ~(w \in {"math", "raw", "stub", "verbatim"} \/ (w = "link" /\ b = "typst"))
  <2>1. InlineOf(b, x) = [k |-> w, c |-> x.c]
    BY <1>e, <1>4
  <2> QED BY <2>1, <1>1, <1>3, <1>6
<1> QED BY <1>a, <1>b, <1>c, <1>d, <1>e

\* What is read of a sequence of inline constructs.
LEMMA ReadInlinesType ==
  ASSUME NEW b \in Readable, NEW keep, NEW in \in Seq(PhrasesOf(b))
  PROVE  /\ ReadInlines(b, keep, in) \in Seq(CleanPhrases)
         /\ ReportedInlines(b, in) \in Nat
<1>1. ASSUME NEW S PROVE Only(in, S) \in Seq(PhrasesOf(b))
  <2>1. Only(in, S) \in Seq(PhrasesOf(b) \cap S)
    BY OnlyType
  <2> QED BY <2>1, PhrasesOf(b) \cap S \subseteq PhrasesOf(b), SeqMonotonic
<1>2. ReadInlines(b, keep, in) \in Seq(CleanPhrases)
  <2>1. PICK read \in Seq(PhrasesOf(b)) :
               ReadInlines(b, keep, in) = [i \in DOMAIN read |-> InlineOf(b, read[i])]
    BY <1>1 DEF ReadInlines
  <2>2. \A i \in 1..Len(read) : InlineOf(b, read[i]) \in CleanPhrases
    BY InlineType
  <2> QED BY <2>1, <2>2
<1>3. ReportedInlines(b, in) \in Nat
  <2>1. PICK read \in Seq(PhrasesOf(b)) : ReportedInlines(b, in) = Len(read)
    BY <1>1 DEF ReportedInlines
  <2> QED BY <2>1
<1> QED BY <1>2, <1>3

\* The blocks a construct becomes, and how many losses or raw fragments it
\* is reported as.
LEMMA BlocksType ==
  ASSUME NEW b \in Readable, NEW keep, NEW nd \in Constructed(b),
         nd.n \in DOMAIN BlockReading[b]
  PROVE  /\ BlocksOf(b, keep, nd) \in Seq(CleanBlocks)
         /\ Reports(b, nd) \in Nat
<1> DEFINE k == BlockReading[b][nd.n]
           in == InlinesOf(b, keep, nd)
           a == AttributeOf(b, nd)
<1>1. k \in Words /\ b \in Words /\ Notation[b] \in Words /\ b # "active" /\ NoWord \in Words
  BY TablesType DEF Words
<1>2. nd.in \in Seq(PhrasesOf(b)) /\ nd.a \in Attrs /\ nd.a.l \in Int /\ nd.a.s \in Words
       /\ nd.id \in Nat
  <2>1. nd.in \in Seq(Phrases) /\ nd.a \in Attrs /\ nd.id \in Nat
    BY DEF Constructed
  <2>2. \A j \in 1..Len(nd.in) : nd.in[j] \in PhrasesOf(b)
    BY <2>1 DEF Constructed, PhrasesOf
  <2>3. nd.in \in Seq(PhrasesOf(b))
    BY <2>1, <2>2
  <2> QED BY <2>1, <2>3 DEF Attrs
<1>3. in \in Seq(CleanPhrases)
  <2>1. ReadInlines(b, keep, nd.in) \in Seq(CleanPhrases)
    BY <1>2, ReadInlinesType
  <2>2. [k |-> "raw", c |-> b] \in CleanPhrases
    BY <1>1 DEF CleanPhrases, Phrases, Words
  <2>3. <<[k |-> "raw", c |-> b]>> \in Seq(CleanPhrases) /\ <<>> \in Seq(CleanPhrases)
    BY <2>2
  <2> QED BY <2>1, <2>3 DEF InlinesOf
<1>4. a \in Attrs
  <2> HIDE DEF k
  <2>1. \A l \in Int, s \in Words : At(l, s) \in Attrs
    BY DEF At, Attrs
  <2>2. "stub" \in Words
    BY DEF Words
  <2>3. PICK w : w = BlockReading[b][nd.n]
    OBVIOUS
  <2>5. PICK layout \in Int : layout = IF b = "asciidoc" THEN 0 ELSE LinesOf(nd)
    <3>1. LinesOf(nd) \in Int
      BY <1>2, SMT DEF LinesOf
    <3> QED BY <3>1
  <2>4. a \in {At(layout, Notation[b]), At(0, b), At(0, "stub"), nd.a,
               At(layout + (IF b = "markdown" THEN 1 ELSE 0),
                  IF b = "latex" \/ nd.n = "indented" THEN NoWord ELSE nd.a.s),
               At(IF nd.a.l > 6 THEN 6 ELSE nd.a.l, NoWord)}
    BY <2>3, <2>5 DEF AttributeOf
  <2>6. layout + (IF b = "markdown" THEN 1 ELSE 0) \in Int
    BY <2>5
  <2> HIDE DEF a
  <2> QED BY <1>1, <1>2, <2>1, <2>2, <2>4, <2>5, <2>6
<1>5. BlocksOf(b, keep, nd) \in Seq(CleanBlocks)
  <2> DEFINE id == WordingOf(b, nd)
             blk == [Block(IF k = "stub" THEN "raw" ELSE k, a, in, id)
                       EXCEPT !.sp = IF Spanless(nd) THEN "none" ELSE @]
  <2>1. blk \in CleanBlocks
    <3>1. (IF k = "stub" THEN "raw" ELSE k) \in Words
      BY <1>1 DEF Words
    <3>2. id \in Nat
      BY <1>2 DEF WordingOf
    <3> HIDE DEF k, a, in, id
    <3> QED BY <3>1, <3>2, <1>3, <1>4 DEF Block, CleanBlocks, Spans
  <2>2. BlocksOf(b, keep, nd) \in {<<>>, <<blk>>}
    BY DEF BlocksOf
  <2> HIDE DEF blk
  <2>3. <<>> \in Seq(CleanBlocks) /\ <<blk>> \in Seq(CleanBlocks)
    BY <2>1
  <2> QED BY <2>2, <2>3
<1>6. Reports(b, nd) \in Nat
  <2>1. ReportedInlines(b, nd.in) \in Nat
    BY <1>2, ReadInlinesType
  <2> QED BY <2>1 DEF Reports
<1> QED BY <1>5, <1>6

(***************************************************************************)
(* The steps of the readers.                                               *)
(***************************************************************************)

\* The fields of a reader.
LEMMA ReaderFields ==
  ASSUME NEW r \in Readers
  PROVE  /\ r.pos \in Nat \ {0} /\ r.title \in Nat /\ r.raws \in Nat /\ r.lost \in Nat
         /\ r.got \in Seq(Items) /\ r.para \in Seq(Items) /\ r.list \in Seq(Items)
         /\ r.dirs \in Seq(Items)
         /\ r.frames \in Seq(Frames) /\ r.hidden \in Nat /\ r.tags \in Nat /\ r.chars \in Nat
BY DEF Readers

\* A reader starts empty.
LEMMA NewReaderType == NewReader \in Readers
<1>1. <<>> \in Seq(Items) /\ <<>> \in Seq(Frames)
  OBVIOUS
<1> QED BY <1>1 DEF NewReader, Readers

\* Moving on, and putting something among what was found, keeps a reader one.
LEMMA MoveType ==
  ASSUME NEW r \in Readers
  PROVE  /\ [r EXCEPT !.pos = @ + 1] \in Readers
         /\ \A t \in Nat : [r EXCEPT !.pos = @ + 1, !.title = t] \in Readers
         /\ \A s \in Seq(Items) : [r EXCEPT !.pos = @ + 1, !.got = @ \o s] \in Readers
         /\ \A s \in Seq(Items) : [r EXCEPT !.pos = @ + 1, !.dirs = @ \o s] \in Readers
         /\ \A s \in Seq(Items) : [r EXCEPT !.list = s] \in Readers
<1>1. r.pos + 1 \in Nat \ {0} /\ r.got \in Seq(Items) /\ r.dirs \in Seq(Items)
  BY ReaderFields
<1>2. ASSUME NEW s \in Seq(Items)
      PROVE  r.got \o s \in Seq(Items) /\ r.dirs \o s \in Seq(Items)
  BY <1>1
<1>3. [r EXCEPT !.pos = @ + 1] \in Readers
  BY <1>1 DEF Readers
<1>4. ASSUME NEW t \in Nat PROVE [r EXCEPT !.pos = @ + 1, !.title = t] \in Readers
  BY <1>1 DEF Readers
<1>5. ASSUME NEW s \in Seq(Items) PROVE [r EXCEPT !.pos = @ + 1, !.got = @ \o s] \in Readers
  <2>1. PICK t \in Seq(Items) : t = r.got \o s
    BY <1>2
  <2>2. [r EXCEPT !.pos = @ + 1, !.got = t] \in Readers
    BY <1>1 DEF Readers
  <2> QED BY <2>1, <2>2
<1>6. ASSUME NEW s \in Seq(Items) PROVE [r EXCEPT !.pos = @ + 1, !.dirs = @ \o s] \in Readers
  <2>1. PICK t \in Seq(Items) : t = r.dirs \o s
    BY <1>2
  <2>2. [r EXCEPT !.pos = @ + 1, !.dirs = t] \in Readers
    BY <1>1 DEF Readers
  <2> QED BY <2>1, <2>2
<1>7. ASSUME NEW s \in Seq(Items) PROVE [r EXCEPT !.list = s] \in Readers
  BY DEF Readers
<1> QED BY <1>3, <1>4, <1>5, <1>6, <1>7

\* Reporting counts.
LEMMA ReportType ==
  ASSUME NEW r \in Readers, NEW n \in Nat
  PROVE  Report(r, n) \in Readers
<1>1. r.raws + n \in Nat /\ r.lost + n \in Nat
  BY ReaderFields
<1>2. [r EXCEPT !.raws = @ + n] \in Readers
  BY <1>1 DEF Readers
<1>3. [r EXCEPT !.lost = @ + n] \in Readers
  BY <1>1 DEF Readers
<1> QED BY <1>2, <1>3 DEF Report

\* A pending paragraph or list that is flushed is among what was found.
LEMMA FlushType ==
  ASSUME NEW r \in Readers
  PROVE  FlushPara(r) \in Readers /\ FlushList(r) \in Readers
<1>1. <<>> \in Seq(Items) /\ r.got \in Seq(Items) /\ r.got \o r.list \in Seq(Items)
  BY ReaderFields
<1>2. ASSUME r.para # <<>> PROVE Append(r.got, r.para[1]) \in Seq(Items)
  <2>1. r.para[1] \in Items
    BY <1>2, ReaderFields
  <2> QED BY <1>1, <2>1
<1>3. FlushPara(r) \in Readers
  <2>1. CASE r.para = <<>>
    BY <2>1 DEF FlushPara
  <2>2. CASE r.para # <<>>
    <3>1. PICK s \in Seq(Items) :
             s = IF r.para[1].blk.in = <<>> THEN r.got ELSE Append(r.got, r.para[1])
      BY <1>1, <1>2, <2>2
    <3>2. FlushPara(r) = [r EXCEPT !.para = <<>>, !.got = s]
      BY <2>2, <3>1 DEF FlushPara, Readers
    <3> QED BY <1>1, <3>2 DEF Readers
  <2> QED BY <2>1, <2>2
<1>4. FlushList(r) \in Readers
  BY <1>1 DEF FlushList, Readers
<1> QED BY <1>3, <1>4

\* A paragraph grows by clean inlines.
LEMMA GrowType ==
  ASSUME NEW r \in Readers, NEW in \in Seq(CleanPhrases), NEW at \in Nat, NEW id \in Nat
  PROVE  Grow(r, in, at, id) \in Readers
<1>1. At(0, NoWord) \in Attrs /\ "para" \in Words
  BY DEF At, Attrs, Words
<1>2. [at |-> at, blk |-> Block("para", At(0, NoWord), in, id)] \in Items
  BY <1>1 DEF Items, Block, CleanBlocks, Spans
<1>3. ASSUME r.para # <<>> PROVE [r.para[1] EXCEPT !.blk.in = @ \o in] \in Items
  <2>1. r.para[1] \in Items
    BY <1>3, ReaderFields
  <2>2. r.para[1].blk \in CleanBlocks /\ r.para[1].at \in Nat
    BY <2>1 DEF Items
  <2>3. r.para[1].blk.in \o in \in Seq(CleanPhrases)
    BY <2>2 DEF CleanBlocks
  <2>4. [r.para[1].blk EXCEPT !.in = @ \o in] \in CleanBlocks
    BY <2>2, <2>3 DEF CleanBlocks
  <2> QED BY <2>1, <2>4 DEF Items
<1>4. \A x \in Items : [r EXCEPT !.para = <<x>>] \in Readers
  <2> SUFFICES ASSUME NEW x \in Items PROVE [r EXCEPT !.para = <<x>>] \in Readers
    OBVIOUS
  <2>1. <<x>> \in Seq(Items)
    OBVIOUS
  <2>2. \A s \in Seq(Items) : [r EXCEPT !.para = s] \in Readers
    BY DEF Readers
  <2> QED BY <2>1, <2>2
<1>5. CASE r.para = <<>> \/ r.para[1].blk.in = <<>>
  <2>1. PICK x \in Items : x = [at |-> at, blk |-> Block("para", At(0, NoWord), in, id)]
    BY <1>2
  <2>2. Grow(r, in, at, id) = [r EXCEPT !.para = <<x>>]
    BY <1>5, <2>1 DEF Grow
  <2> QED BY <1>4, <2>2
<1>6. CASE ~(r.para = <<>> \/ r.para[1].blk.in = <<>>)
  <2>1. PICK x \in Items : x = [r.para[1] EXCEPT !.blk.in = @ \o in]
    BY <1>3, <1>6
  <2>2. Grow(r, in, at, id) = [r EXCEPT !.para = <<x>>]
    BY <1>6, <2>1 DEF Grow
  <2> QED BY <1>4, <2>2
<1> QED BY <1>5, <1>6

\* The texts a session starts from are typed, and those that are not HTML
\* consist of constructs of their language.
LEMMA TextType ==
  ASSUME NEW t \in Texts
  PROVE  /\ t.lang \in Backends /\ t.nodes \in Seq(Nodes) /\ Len(t.nodes) \in Nat
         /\ \A i \in 1..Len(t.nodes) : t.nodes[i].id \in Nat
         /\ \A i \in 1..Len(t.nodes) : t.nodes[i].a.s \in Words
         /\ t.lang = "markdown" =>
               \A i \in 1..Len(t.nodes) : t.nodes[i].n \in DOMAIN BlockReading["markdown"]
         /\ t.lang # "html" => \A i \in 1..Len(t.nodes) : t.nodes[i] \in Constructed(t.lang)
<1>1. /\ t.lang \in Backends /\ t.nodes \in Seq(Nodes)
      /\ t.lang = "markdown" =>
            \A i \in DOMAIN t.nodes : t.nodes[i].n \in DOMAIN BlockReading["markdown"]
      /\ t.lang # "html" =>
            \A i \in DOMAIN t.nodes : \A j \in DOMAIN t.nodes[i].in :
               t.nodes[i].in[j].k \in DOMAIN InlineReading[t.lang] /\ t.nodes[i].in[j].c # "active"
      /\ t.lang # "asciidoc" => \A i \in DOMAIN t.nodes : t.nodes[i].st = "own"
  BY TextsAssumption
<1>2. DOMAIN t.nodes = 1..Len(t.nodes) /\ Len(t.nodes) \in Nat
       /\ \A i \in 1..Len(t.nodes) : t.nodes[i] \in Nodes
  BY <1>1
<1>3. STRING \subseteq Words
  BY DEF Words
<1>4. ASSUME NEW nd \in Nodes
      PROVE  nd \in [n : Words, a : Attrs, in : Seq(Phrases), id : Nat, st : Words]
  <2>1. nd.n \in Words /\ nd.a \in Attrs /\ nd.id \in Nat /\ nd.st \in Words
    BY <1>3 DEF Nodes, Attributes, Attrs
  <2>2. nd.in \in Seq(Phrases)
    <3>1. Inlines \subseteq Phrases
      BY <1>3 DEF Inlines, Phrases
    <3>2. nd.in \in Seq(Inlines)
      BY DEF Nodes
    <3> QED BY <3>1, <3>2, SeqMonotonic
  <2>3. nd = [n |-> nd.n, a |-> nd.a, in |-> nd.in, id |-> nd.id, st |-> nd.st]
    BY DEF Nodes
  <2> QED BY <2>1, <2>2, <2>3
<1>5. ASSUME t.lang # "html", NEW i \in 1..Len(t.nodes) PROVE t.nodes[i] \in Constructed(t.lang)
  <2>1. t.nodes[i] \in [n : Words, a : Attrs, in : Seq(Phrases), id : Nat, st : Words]
    BY <1>2, <1>4
  <2>2. \A j \in DOMAIN t.nodes[i].in :
            t.nodes[i].in[j].k \in DOMAIN InlineReading[t.lang] /\ t.nodes[i].in[j].c # "active"
    BY <1>1, <1>2, <1>5
  <2>3. t.lang # "asciidoc" => t.nodes[i].st = "own"
    BY <1>1, <1>2
  <2> QED BY <2>1, <2>2, <2>3 DEF Constructed
<1>6. \A i \in 1..Len(t.nodes) : t.nodes[i].id \in Nat /\ t.nodes[i].a.s \in Words
  <2> SUFFICES ASSUME NEW i \in 1..Len(t.nodes)
               PROVE  t.nodes[i].id \in Nat /\ t.nodes[i].a.s \in Words
    OBVIOUS
  <2>1. t.nodes[i] \in Nodes
    BY <1>2
  <2> QED BY <2>1, <1>3 DEF Nodes, Attributes
<1> QED BY <1>1, <1>2, <1>5, <1>6

\* The construct a reader stands at.
LEMMA HereType ==
  ASSUME text \in Texts, text.lang \in Readable, rd \in Readers, More
  PROVE  /\ Here \in Constructed(text.lang)
         /\ Here.id \in Nat /\ Here.a \in Attrs /\ Here.in \in Seq(PhrasesOf(text.lang))
         /\ text.lang = "markdown" => Here.n \in DOMAIN BlockReading["markdown"]
<1>1. text.lang # "html"
  BY TablesType
<1>2. rd.pos \in 1..Len(text.nodes)
  BY ReaderFields, TextType DEF More
<1>3. Here \in Constructed(text.lang)
  BY <1>1, <1>2, TextType DEF Here
<1>4. Here.id \in Nat /\ Here.a \in Attrs /\ Here.in \in Seq(Phrases)
  BY <1>3 DEF Constructed
<1>5. \A j \in 1..Len(Here.in) : Here.in[j] \in PhrasesOf(text.lang)
  BY <1>3, <1>4 DEF Constructed, PhrasesOf
<1>6. Here.in \in Seq(PhrasesOf(text.lang))
  BY <1>4, <1>5
<1> QED BY <1>2, <1>3, <1>4, <1>6, TextType DEF Here

\* What was found at a place.
LEMMA FoundType ==
  ASSUME rd \in Readers, NEW blks \in Seq(CleanBlocks)
  PROVE  Found(blks) \in Seq(Items)
<1>1. rd.pos \in Nat
  BY ReaderFields
<1>2. \A i \in 1..Len(blks) : [at |-> rd.pos, blk |-> blks[i]] \in Items
  BY <1>1 DEF Items
<1> QED BY <1>2 DEF Found

\* A construct of its own.
LEMMA ReadBlockType ==
  ASSUME text \in Texts, text.lang \in Readable, rd \in Readers, More,
         Here.n \in DOMAIN BlockReading[text.lang]
  PROVE  ReadBlock(rd) \in Readers
<1>1. PICK s \in Seq(Items) : s = Found(BlocksOf(text.lang, text.keep, Here))
  BY HereType, BlocksType, FoundType
<1>2. PICK r \in Readers : r = FlushList(FlushPara(rd))
  BY FlushType
<1>3. PICK q \in Readers : q = [r EXCEPT !.pos = @ + 1, !.got = @ \o s]
  BY MoveType
<1>4. PICK n \in Nat : n = Reports(text.lang, Here)
  BY HereType, BlocksType
<1>5. ReadBlock(rd) = Report(q, n)
  BY <1>1, <1>2, <1>3, <1>4 DEF ReadBlock
<1> QED BY <1>5, ReportType

\* Every step of the readers that are not the HTML reader keeps a reader one.
LEMMA ReadStep ==
  ASSUME text \in Texts, text.lang \in Readable, rd \in Readers, ReadNext
  PROVE  rd' \in Readers /\ text' = text
<1> DEFINE reported == ReportedInlines(text.lang, Here.in)
           read == ReadInlines(text.lang, text.keep, Here.in)
<1>1. /\ FlushPara(rd) \in Readers /\ FlushList(rd) \in Readers
      /\ FlushList(FlushPara(rd)) \in Readers
      /\ rd.pos \in Nat
  BY FlushType, ReaderFields
<1>2. ASSUME More
      PROVE  /\ Here.id \in Nat /\ Here.a \in Attrs
             /\ reported \in Nat /\ read \in Seq(CleanPhrases)
  BY <1>2, HereType, ReadInlinesType
<1>3. ~Html
  BY TablesType DEF Html
<1>4. ASSUME Read(ReadBlock(rd)), More, Here.n \in DOMAIN BlockReading[text.lang]
      PROVE  rd' \in Readers /\ text' = text
  BY <1>4, ReadBlockType DEF Read
<1>5. CASE ReadMarkdown
  BY <1>4, <1>5, HereType DEF ReadMarkdown
<1>6. CASE ReadAsciidocBlock \/ ReadLatexBlock \/ ReadTypstBlock
  BY <1>4, <1>6 DEF ReadAsciidocBlock, ReadLatexBlock, ReadTypstBlock
<1>7. CASE ReadAsciidocDirective
  <2>1. More /\ text.lang = "asciidoc" /\ Here.n = "directive"
    BY <1>7 DEF ReadAsciidocDirective
  <2>2. Here.n \in DOMAIN BlockReading[text.lang]
    BY <2>1 DEF BlockReading
  <2>3. PICK s \in Seq(Items) : s = Found(BlocksOf("asciidoc", text.keep, Here))
    BY <2>1, <2>2, HereType, BlocksType, FoundType
  <2>4. PICK q \in Readers : q = [rd EXCEPT !.pos = @ + 1, !.dirs = @ \o s]
    BY MoveType
  <2>5. rd' = Report(q, 1) /\ text' = text
    BY <1>7, <2>3, <2>4 DEF ReadAsciidocDirective, Read
  <2> QED BY <2>5, ReportType
<1>8. CASE ReadAsciidocTitle
  <2>1. More /\ rd' = [rd EXCEPT !.pos = @ + 1, !.title = Here.id] /\ text' = text
    BY <1>8 DEF ReadAsciidocTitle, Read
  <2> QED BY <1>2, <2>1, MoveType
<1>9. CASE \/ ReadLatexBlank \/ ReadLatexComment \/ ReadLatexRest \/ ReadLatexWrapper
           \/ ReadAsciidocUnseen \/ ReadTypstArgument
  <2>1. PICK r \in Readers : rd' = [r EXCEPT !.pos = @ + 1] /\ text' = text
    BY <1>1, <1>9 DEF ReadLatexBlank, ReadLatexComment, ReadLatexRest, ReadLatexWrapper,
                      ReadAsciidocUnseen, ReadTypstArgument, Read
  <2> QED BY <2>1, MoveType
<1>10. CASE ReadLatexTitle
  <2>1. PICK r \in Readers : /\ More
                             /\ rd' = [r EXCEPT !.pos = @ + 1, !.title = Here.id] /\ text' = text
    BY <1>1, <1>10 DEF ReadLatexTitle, LatexLine, Read
  <2> QED BY <1>2, <2>1, MoveType
<1>11. CASE ReadLatexLine
  <2>1. More /\ text.lang = "latex" /\ text' = text
    BY <1>11 DEF ReadLatexLine, LatexLine, Read
  <2>2. PICK r \in Readers : r = Grow(rd, read, rd.pos, Here.id)
    BY <1>1, <1>2, <2>1, GrowType
  <2>3. PICK q \in Readers : q = [r EXCEPT !.pos = @ + 1]
    BY MoveType
  <2>4. rd' = Report(q, reported)
    BY <1>11, <2>1, <2>2, <2>3 DEF ReadLatexLine, Read
  <2> QED BY <1>2, <2>1, <2>4, ReportType
<1>12. CASE ReadLatexCommandLine
  <2> DEFINE raw == Block("raw", At(0, "latex"), <<>>, Here.id)
  <2>1. More /\ text.lang = "latex" /\ text' = text
    BY <1>12 DEF ReadLatexCommandLine, LatexLine, Read
  <2>2. raw \in CleanBlocks
    <3>1. <<>> \in Seq(CleanPhrases) /\ "raw" \in Words /\ At(0, "latex") \in Attrs
      BY DEF Words, At, Attrs
    <3> QED BY <1>2, <2>1, <3>1 DEF Block, CleanBlocks, Spans
  <2>3. PICK s \in Seq(Items) : s = Found(<<raw>>)
    <3> HIDE DEF raw
    <3>1. <<raw>> \in Seq(CleanBlocks)
      BY <2>2
    <3> QED BY <3>1, FoundType
  <2>4. PICK r \in Readers : r = FlushPara(rd)
    BY <1>1
  <2>5. PICK q \in Readers : q = [r EXCEPT !.pos = @ + 1, !.got = IF text.keep THEN @ \o s ELSE @]
    <3>1. CASE text.keep
      <4>1. PICK q \in Readers : q = [r EXCEPT !.pos = @ + 1, !.got = @ \o s]
        BY MoveType
      <4> QED BY <3>1, <4>1
    <3>2. CASE ~text.keep
      <4>1. PICK q \in Readers : q = [r EXCEPT !.pos = @ + 1]
        BY MoveType
      <4>2. q = [r EXCEPT !.pos = @ + 1, !.got = @]
        BY <4>1 DEF Readers
      <4> QED BY <3>2, <4>2
    <3> QED BY <3>1, <3>2
  <2>6. rd' = Report(q, 1)
    BY <1>12, <2>3, <2>4, <2>5 DEF ReadLatexCommandLine, Read
  <2> QED BY <2>1, <2>6, ReportType
<1>13. CASE ReadTypstBreak
  <2>1. PICK r \in Readers : rd' = [r EXCEPT !.pos = @ + 1] /\ text' = text
    BY <1>1, <1>13 DEF ReadTypstBreak, Read
  <2> QED BY <2>1, MoveType
<1>14. CASE ReadTypstSpace
  <2>1. More /\ text' = text
    BY <1>14 DEF ReadTypstSpace, Read
  <2>2. <<>> \in Seq(CleanPhrases)
    OBVIOUS
  <2>3. PICK r \in Readers : r = Grow(FlushList(rd), <<>>, rd.pos, Here.id)
    BY <1>1, <1>2, <2>1, <2>2, GrowType
  <2>4. rd' = [r EXCEPT !.pos = @ + 1]
    BY <1>14, <2>3 DEF ReadTypstSpace, Read
  <2> QED BY <2>1, <2>4, MoveType
<1>15. CASE ReadTypstInline
  <2>1. More /\ text.lang = "typst" /\ text' = text
    BY <1>15 DEF ReadTypstInline, Read
  <2>2. PICK r \in Readers : r = Grow(FlushList(rd), read, rd.pos, Here.id)
    BY <1>1, <1>2, <2>1, GrowType
  <2>3. PICK q \in Readers : q = [r EXCEPT !.pos = @ + 1]
    BY MoveType
  <2>4. rd' = Report(q, reported)
    BY <1>15, <2>1, <2>2, <2>3 DEF ReadTypstInline, Read
  <2> QED BY <1>2, <2>1, <2>4, ReportType
<1>16. CASE ReadTypstItem
  <2>1. More /\ text.lang = "typst" /\ text' = text
    BY <1>16 DEF ReadTypstItem, Read
  <2>2. PICK r \in Readers : r = FlushPara(rd)
    BY <1>1
  <2>3. PICK new \in Items : new = [at |-> rd.pos, blk |-> Block("list", Here.a, read, Here.id)]
    <3>1. "list" \in Words
      BY DEF Words
    <3> QED BY <1>1, <1>2, <2>1, <3>1 DEF Items, Block, CleanBlocks, Spans
  <2>4. ASSUME r.list # <<>> PROVE [r EXCEPT !.list[1].blk.in = @ \o read] \in Readers
    <3>1. r.list \in Seq(Items) /\ 1 \in 1..Len(r.list) /\ r.list[1] \in Items
      BY <2>4, ReaderFields
    <3>2. r.list[1].blk \in CleanBlocks /\ r.list[1].blk.in \in Seq(CleanPhrases)
      BY <3>1 DEF Items, CleanBlocks
    <3>a. read \in Seq(CleanPhrases)
      BY <1>2, <2>1
    <3>b. r.list[1].blk.in \o read \in Seq(CleanPhrases)
      <4> HIDE DEF read
      <4> QED BY <3>2, <3>a
    <3>3. PICK in \in Seq(CleanPhrases) : in = r.list[1].blk.in \o read
      BY <3>b
    <3>4. PICK blk \in CleanBlocks : blk = [r.list[1].blk EXCEPT !.in = in]
      BY <3>2 DEF CleanBlocks
    <3>5. PICK item \in Items : item = [r.list[1] EXCEPT !.blk = blk]
      BY <3>1 DEF Items
    <3>c. [r.list EXCEPT ![1] = item] \in Seq(Items)
      BY <3>1, ExceptSeq
    <3>6. PICK list \in Seq(Items) : list = [r.list EXCEPT ![1] = item]
      BY <3>c
    <3>7. [r EXCEPT !.list[1].blk.in = @ \o read] = [r EXCEPT !.list = list]
      BY <3>3, <3>4, <3>5, <3>6
    <3> QED BY <3>7, MoveType
  <2>5. [FlushList(r) EXCEPT !.list = <<new>>] \in Readers
    <3>1. <<new>> \in Seq(Items)
      OBVIOUS
    <3> QED BY <3>1, FlushType, MoveType
  <2>6. PICK s \in Readers :
           s = IF r.list # <<>> /\ r.list[1].blk.a = Here.a
               THEN [r EXCEPT !.list[1].blk.in = @ \o read]
               ELSE [FlushList(r) EXCEPT !.list = <<new>>]
    BY <2>4, <2>5
  <2>7. PICK q \in Readers : q = [s EXCEPT !.pos = @ + 1]
    BY MoveType
  <2>8. rd' = Report(q, reported)
    BY <1>16, <2>1, <2>2, <2>3, <2>6, <2>7 DEF ReadTypstItem, Read
  <2> QED BY <1>2, <2>1, <2>8, ReportType
<1>17. CASE OpenTag \/ CloseTag \/ HtmlText
  BY <1>3, <1>17 DEF OpenTag, CloseTag, HtmlText, HtmlMore
<1> QED BY <1>5, <1>6, <1>7, <1>8, <1>9, <1>10, <1>11, <1>12, <1>13, <1>14, <1>15, <1>16, <1>17
        DEF ReadNext

(***************************************************************************)
(* AsciiDoc directives among the blocks.                                   *)
(***************************************************************************)

\* The start of the i-th element, and the elements that come before it.
Begin(s, t, i) == StartOf(t, s[i].at)
Earlier(s, t, i) ==
    {j \in DOMAIN s :
        Begin(s, t, j) < Begin(s, t, i) \/ (Begin(s, t, j) = Begin(s, t, i) /\ j < i)}

\* Every element starts somewhere.
LEMMA BeginType ==
  ASSUME NEW s \in Seq(Items), NEW t, Len(t) \in Nat
  PROVE  \A i \in DOMAIN s : Begin(s, t, i) \in Int
<1> SUFFICES ASSUME NEW i \in DOMAIN s PROVE Begin(s, t, i) \in Int
  OBVIOUS
<1>1. s[i].at \in Nat
  <2>1. i \in 1..Len(s)
    BY LenProperties
  <2>2. s[i] \in Items
    BY <2>1, ElementOfSeq
  <2> QED BY <2>2 DEF Items
<1>2. StartOf(t, s[i].at) \in {Len(t) + 1, s[i].at - 1, s[i].at}
  BY DEF StartOf
<1> QED BY <1>1, <1>2 DEF Begin

\* A place before an element has fewer elements before it.
LEMMA EarlierCounts ==
  ASSUME NEW s \in Seq(Items), NEW t, Len(t) \in Nat, NEW i \in DOMAIN s
  PROVE  /\ IsFiniteSet(Earlier(s, t, i))
         /\ Cardinality(Earlier(s, t, i)) \in 0..(Len(s) - 1)
         /\ \A j \in Earlier(s, t, i) : Cardinality(Earlier(s, t, j)) < Cardinality(Earlier(s, t, i))
<1>1. /\ DOMAIN s = 1..Len(s) /\ Len(s) \in Nat
      /\ \A k \in DOMAIN s : Begin(s, t, k) \in Int
  BY BeginType, LenProperties
<1>2. IsFiniteSet(1..Len(s)) /\ Cardinality(1..Len(s)) = Len(s)
  <2>1. PICK n : n = Len(s)
    OBVIOUS
  <2>2. n \in Nat /\ 1 \in Int /\ n \in Int
    BY <1>1, <2>1
  <2>3. IsFiniteSet(1..n) /\ Cardinality(1..n) = IF 1 > n THEN 0 ELSE n - 1 + 1
    BY <2>2, FS_Interval
  <2>4. Cardinality(1..n) = n
    BY <2>2, <2>3
  <2> QED BY <2>1, <2>3, <2>4
<1>3. ASSUME NEW k \in DOMAIN s
      PROVE  /\ Earlier(s, t, k) \subseteq 1..Len(s) /\ k \notin Earlier(s, t, k)
             /\ IsFiniteSet(Earlier(s, t, k)) /\ Cardinality(Earlier(s, t, k)) \in Nat
             /\ Cardinality(Earlier(s, t, k) \cup {k}) = Cardinality(Earlier(s, t, k)) + 1
  <2>1. Earlier(s, t, k) \subseteq 1..Len(s) /\ k \notin Earlier(s, t, k)
    BY <1>1 DEF Earlier
  <2>2. IsFiniteSet(Earlier(s, t, k)) /\ Cardinality(Earlier(s, t, k)) \in Nat
    BY <1>2, <2>1, FS_Subset, FS_CardinalityType
  <2> QED BY <2>1, <2>2, FS_AddElement
<1>4. Cardinality(Earlier(s, t, i)) \in 0..(Len(s) - 1)
  <2>1. Earlier(s, t, i) \cup {i} \in SUBSET (1..Len(s))
    BY <1>1, <1>3
  <2>2. Cardinality(Earlier(s, t, i) \cup {i}) <= Len(s)
    BY <1>2, <2>1, FS_Subset
  <2> QED BY <1>1, <1>3, <2>2
<1>5. ASSUME NEW j \in Earlier(s, t, i) PROVE Cardinality(Earlier(s, t, j)) < Cardinality(Earlier(s, t, i))
  <2>1. j \in DOMAIN s
    BY DEF Earlier
  <2>2. Earlier(s, t, j) \cup {j} \in SUBSET Earlier(s, t, i)
    <3>1. \A k \in Earlier(s, t, j) : k \in Earlier(s, t, i)
      <4> SUFFICES ASSUME NEW k \in Earlier(s, t, j) PROVE k \in Earlier(s, t, i)
        OBVIOUS
      <4>1. /\ k \in DOMAIN s /\ (Begin(s, t, k) < Begin(s, t, j) \/ (Begin(s, t, k) = Begin(s, t, j) /\ k < j))
            /\ Begin(s, t, j) < Begin(s, t, i) \/ (Begin(s, t, j) = Begin(s, t, i) /\ j < i)
        BY DEF Earlier
      <4>2. /\ Begin(s, t, k) \in Int /\ Begin(s, t, j) \in Int /\ Begin(s, t, i) \in Int
            /\ k \in Nat /\ j \in Nat /\ i \in Nat
        BY <1>1, <2>1, <4>1
      <4>3. Begin(s, t, k) < Begin(s, t, i) \/ (Begin(s, t, k) = Begin(s, t, i) /\ k < i)
        BY <4>1, <4>2
      <4> QED BY <4>1, <4>3 DEF Earlier
    <3> QED BY <3>1
  <2>3. Cardinality(Earlier(s, t, j) \cup {j}) <= Cardinality(Earlier(s, t, i))
    BY <1>3, <2>2, FS_Subset
  <2>4. Cardinality(Earlier(s, t, i)) \in Nat /\ Cardinality(Earlier(s, t, j)) \in Nat
    BY <1>3, <2>1
  <2> QED BY <1>3, <2>1, <2>3, <2>4
<1> QED BY <1>3, <1>4, <1>5

\* Every rank is taken, by one element of the sequence.
LEMMA RanksTaken ==
  ASSUME NEW s \in Seq(Items), NEW t, Len(t) \in Nat, NEW p \in DOMAIN s
  PROVE  \E i \in DOMAIN s : Cardinality(Earlier(s, t, i)) = p - 1
<1> DEFINE f == [i \in DOMAIN s |-> Cardinality(Earlier(s, t, i))]
           R == 0..(Len(s) - 1)
<1>1. DOMAIN s = 1..Len(s) /\ Len(s) \in Nat /\ p - 1 \in R
  OBVIOUS
<1>2. f \in [DOMAIN s -> R]
  BY EarlierCounts
<1>3. ASSUME NEW i \in DOMAIN s, NEW j \in DOMAIN s, f[i] = f[j] PROVE i = j
  <2>1. /\ Cardinality(Earlier(s, t, i)) \in Nat
        /\ \A k \in Earlier(s, t, i) : Cardinality(Earlier(s, t, k)) < Cardinality(Earlier(s, t, i))
        /\ \A k \in Earlier(s, t, j) : Cardinality(Earlier(s, t, k)) < Cardinality(Earlier(s, t, j))
    BY EarlierCounts
  <2>2. i \notin Earlier(s, t, j) /\ j \notin Earlier(s, t, i)
    BY <1>3, <2>1
  <2>3. i \in Nat /\ j \in Nat
    BY <1>1
  <2>4. Begin(s, t, i) \in Int /\ Begin(s, t, j) \in Int
    BY BeginType
  <2> QED BY <2>2, <2>3, <2>4 DEF Earlier
<1>4. f \in Injection(DOMAIN s, R)
  <2>1. \A i, j \in DOMAIN s : f[i] = f[j] => i = j
    BY <1>3
  <2> HIDE DEF f, R
  <2> QED BY <1>2, <2>1, Zenon DEF Injection, IsInjective
<1>5. /\ IsFiniteSet(R) /\ Cardinality(R) = Len(s)
      /\ IsFiniteSet(1..Len(s)) /\ Cardinality(1..Len(s)) = Len(s)
  <2>1. PICK n : n = Len(s)
    OBVIOUS
  <2>2. n \in Nat
    BY <1>1, <2>1
  <2>3. n - 1 \in Int /\ n \in Int /\ 0 \in Int /\ 1 \in Int
    BY <2>2
  <2>4. IsFiniteSet(0..(n - 1)) /\ Cardinality(0..(n - 1)) = IF 0 > n - 1 THEN 0 ELSE n - 1 - 0 + 1
    BY <2>3, FS_Interval
  <2>5. IsFiniteSet(1..n) /\ Cardinality(1..n) = IF 1 > n THEN 0 ELSE n - 1 + 1
    BY <2>3, FS_Interval
  <2> QED BY <2>1, <2>2, <2>4, <2>5
<1>6. f \in Surjection(DOMAIN s, R)
  <2>1. DOMAIN s = 1..Len(s)
    BY <1>1
  <2> HIDE DEF f, R
  <2> QED BY <1>4, <1>5, <2>1, FS_Injection
<1>7. \A r \in R : \E i \in DOMAIN s : f[i] = r
  <2> HIDE DEF f, R
  <2> QED BY <1>6 DEF Surjection
<1>8. PICK i \in DOMAIN s : f[i] = p - 1
  BY <1>1, <1>7
<1> QED BY <1>8

\* Putting items in their places leaves items.
LEMMA InPlaceType ==
  ASSUME NEW s \in Seq(Items), NEW t, Len(t) \in Nat
  PROVE  InPlace(s, t) \in Seq(Items)
<1> DEFINE at(p) == CHOOSE i \in DOMAIN s : Cardinality(Earlier(s, t, i)) = p - 1
<1>1. DOMAIN s = 1..Len(s) /\ Len(s) \in Nat
  OBVIOUS
<1>2. \A p \in DOMAIN s : at(p) \in DOMAIN s
  BY RanksTaken
<1>3. InPlace(s, t) = [p \in DOMAIN s |-> s[at(p)]]
  BY DEF InPlace, Earlier, Begin
<1> HIDE DEF at
<1>4. \A p \in 1..Len(s) : s[at(p)] \in Items
  BY <1>1, <1>2
<1> QED BY <1>1, <1>3, <1>4

(***************************************************************************)
(* The end of a reading.                                                   *)
(***************************************************************************)

\* What a reading may end with: lists that were searched for a second time
\* too.
EndItems == [at : Nat, blk : ReadBlocks]

\* Items of the reader are among them.
LEMMA ItemsEnd == Items \subseteq EndItems /\ Seq(Items) \subseteq Seq(EndItems)
<1>1. Seq(CleanPhrases) \subseteq Seq(Phrases)
  BY CleanPhrases \subseteq Phrases, SeqMonotonic DEF CleanPhrases
<1>2. CleanBlocks \subseteq ReadBlocks
  BY <1>1 DEF CleanBlocks, ReadBlocks, AllBlocks
<1>3. Items \subseteq EndItems
  BY <1>2 DEF Items, EndItems
<1> QED BY <1>3, SeqMonotonic

\* The end of the other readers.
LEMMA OtherEnd ==
  ASSUME text \in Texts, NEW b \in Readable, NEW r \in Readers
  PROVE  EndOf(b, r).got \in Seq(EndItems)
<1>1. b # "html"
  BY TablesType
<1>2. r.got \o r.dirs \in Seq(Items)
  BY ReaderFields
<1>3. MergeDirectives(r).got \in Seq(Items)
  <2>1. MergeDirectives(r).got \in {r.got, InPlace(r.got \o r.dirs, text.nodes)}
    BY DEF MergeDirectives, Readers
  <2>2. r.got \in Seq(Items)
    BY ReaderFields
  <2>3. InPlace(r.got \o r.dirs, text.nodes) \in Seq(Items)
    BY <1>2, TextType, InPlaceType
  <2> QED BY <2>1, <2>2, <2>3
<1>4. FlushList(FlushPara(r)).got \in Seq(Items)
  BY FlushType, ReaderFields
<1>5. EndOf(b, r) \in {MergeDirectives(r), FlushList(FlushPara(r))}
  BY <1>1 DEF EndOf
<1> QED BY <1>3, <1>4, <1>5, ItemsEnd

(***************************************************************************)
(* The stack of the HTML reader.                                           *)
(***************************************************************************)

\* What is left of a sequence without its last element.
LEMMA FrontType ==
  ASSUME NEW T, NEW s \in Seq(T), s # <<>>
  PROVE  /\ Front(s) \in Seq(T) /\ Last(s) \in T
         /\ Len(s) \in 1..Len(s) /\ Last(s) = s[Len(s)]
         /\ Len(Front(s)) = Len(s) - 1 /\ DOMAIN Front(s) = 1..(Len(s) - 1)
         /\ \A i \in 1..(Len(s) - 1) : Front(s)[i] = s[i]
<1>1. PICK n \in Nat : n = Len(s)
  OBVIOUS
<1>2. n \in 1..n
  BY <1>1
<1>3. \A i \in 1..(n - 1) : s[i] \in T
  BY <1>1
<1>4. /\ SubSeq(s, 1, n - 1) \in Seq(T)
      /\ Len(SubSeq(s, 1, n - 1)) = n - 1
      /\ \A i \in 1..(n - 1) : SubSeq(s, 1, n - 1)[i] = s[i]
  BY <1>1, <1>2, <1>3
<1> QED BY <1>1, <1>2, <1>4 DEF Front, Last

\* The open elements that are active, and how many there are.
ActiveIn(fs) == {i \in DOMAIN fs : fs[i].tag \in ActiveTags}
NumActive(fs) == Cardinality(ActiveIn(fs))

\* The number of active elements follows the stack, and does not depend on
\* the text in it.
LEMMA ActiveCount ==
  ASSUME NEW fs \in Seq(Frames)
  PROVE  /\ NumActive(fs) \in Nat
         /\ NumActive(fs) = 0 => \A i \in DOMAIN fs : fs[i].tag \notin ActiveTags
         /\ \A f \in Frames : NumActive(Append(fs, f)) =
               IF f.tag \in ActiveTags THEN NumActive(fs) + 1 ELSE NumActive(fs)
         /\ fs # <<>> => NumActive(Front(fs)) =
               IF Last(fs).tag \in ActiveTags THEN NumActive(fs) - 1 ELSE NumActive(fs)
<1>1. DOMAIN fs = 1..Len(fs) /\ Len(fs) \in Nat
  OBVIOUS
<1>2. IsFiniteSet(1..Len(fs))
  BY <1>1, FS_Interval
<1>3. IsFiniteSet(ActiveIn(fs)) /\ NumActive(fs) \in Nat
  <2>1. ActiveIn(fs) \subseteq 1..Len(fs)
    BY <1>1 DEF ActiveIn
  <2> QED BY <1>2, <2>1, FS_Subset, FS_CardinalityType DEF NumActive
<1>4. NumActive(fs) = 0 => \A i \in DOMAIN fs : fs[i].tag \notin ActiveTags
  <2>1. NumActive(fs) = 0 => ActiveIn(fs) = {}
    BY <1>3, FS_EmptySet DEF NumActive
  <2> QED BY <2>1 DEF ActiveIn
<1>5. ASSUME NEW f \in Frames
      PROVE  NumActive(Append(fs, f)) = IF f.tag \in ActiveTags THEN NumActive(fs) + 1
                                                               ELSE NumActive(fs)
  <2>a. Append(fs, f) \in Seq(Frames)
    OBVIOUS
  <2>1. PICK gs \in Seq(Frames) : gs = Append(fs, f)
    BY <2>a
  <2>2. /\ DOMAIN gs = 1..(Len(fs) + 1) /\ gs[Len(fs) + 1] = f
        /\ \A i \in 1..Len(fs) : gs[i] = fs[i]
    BY <2>1
  <2>3. ActiveIn(gs) = IF f.tag \in ActiveTags THEN ActiveIn(fs) \cup {Len(fs) + 1}
                                              ELSE ActiveIn(fs)
    BY <1>1, <2>2 DEF ActiveIn
  <2>4. Len(fs) + 1 \notin ActiveIn(fs)
    BY <1>1 DEF ActiveIn
  <2>5. Cardinality(ActiveIn(fs) \cup {Len(fs) + 1}) = Cardinality(ActiveIn(fs)) + 1
    BY <1>3, <2>4, FS_AddElement
  <2> QED BY <2>1, <2>3, <2>5 DEF NumActive
<1>6. ASSUME fs # <<>>
      PROVE  NumActive(Front(fs)) = IF Last(fs).tag \in ActiveTags THEN NumActive(fs) - 1
                                                                  ELSE NumActive(fs)
  <2>1. PICK gs \in Seq(Frames) : gs = Front(fs)
    BY <1>6, FrontType
  <2>2. /\ DOMAIN gs = 1..(Len(fs) - 1) /\ Last(fs) = fs[Len(fs)] /\ Len(fs) \in 1..Len(fs)
        /\ \A i \in 1..(Len(fs) - 1) : gs[i] = fs[i]
    BY <1>6, <2>1, FrontType
  <2>3. ActiveIn(gs) = IF Last(fs).tag \in ActiveTags THEN ActiveIn(fs) \ {Len(fs)}
                                                      ELSE ActiveIn(fs)
    BY <1>1, <2>2 DEF ActiveIn
  <2>4. Last(fs).tag \in ActiveTags => Len(fs) \in ActiveIn(fs)
    BY <1>1, <2>2 DEF ActiveIn
  <2>5. Last(fs).tag \in ActiveTags =>
          Cardinality(ActiveIn(fs) \ {Len(fs)}) = Cardinality(ActiveIn(fs)) - 1
    BY <1>3, <2>4, FS_RemoveElement
  <2> QED BY <2>1, <2>3, <2>5 DEF NumActive
<1> QED BY <1>3, <1>4, <1>5, <1>6

\* Closing the innermost element takes it from the stack, keeps a reader one
\* and never ends the suppression while an active element is open.
LEMMA FinishType ==
  ASSUME NEW r \in Readers, r.frames # <<>>, NumActive(r.frames) <= r.hidden
  PROVE  /\ Finish(r) \in Readers
         /\ Finish(r).frames = Front(r.frames) /\ Finish(r).pos = r.pos
         /\ NumActive(Finish(r).frames) <= Finish(r).hidden
<1>1. PICK f \in Frames : f = Last(r.frames)
  BY ReaderFields, FrontType
<1>2. PICK fs \in Seq(Frames) : fs = Front(r.frames)
  BY ReaderFields, FrontType
<1>3. PICK s \in Readers : s = [r EXCEPT !.frames = fs]
  BY DEF Readers
<1>4. s.frames = fs /\ s.pos = r.pos /\ s.hidden = r.hidden /\ s.got = r.got
  BY <1>3 DEF Readers
<1>5. /\ NumActive(r.frames) \in Nat /\ NumActive(fs) \in Nat /\ r.hidden \in Nat
      /\ NumActive(fs) = IF f.tag \in ActiveTags THEN NumActive(r.frames) - 1
                                                 ELSE NumActive(r.frames)
  BY <1>1, <1>2, ReaderFields, ActiveCount
<1>6. [r EXCEPT !.frames = Front(@)] = s
  BY <1>2, <1>3
<1>7. CASE f.tag \in ActiveTags
  <2>1. PICK h \in Nat : h = IF s.hidden > 0 THEN s.hidden - 1 ELSE 0
    BY <1>4, <1>5
  <2>2. PICK q \in Readers : q = [s EXCEPT !.hidden = h]
    BY DEF Readers
  <2>3. q.frames = fs /\ q.pos = r.pos /\ q.hidden = h
    BY <1>4, <2>2 DEF Readers
  <2>4. Finish(r) = q
    BY <1>1, <1>6, <1>7, <2>1, <2>2 DEF Finish
  <2> QED BY <1>2, <1>4, <1>5, <1>7, <2>1, <2>3, <2>4
<1>8. ASSUME f.tag \notin ActiveTags, NEW q \in Readers, Finish(r) = q,
             q.frames = s.frames, q.pos = s.pos, q.hidden = s.hidden
      PROVE  /\ Finish(r) \in Readers
             /\ Finish(r).frames = Front(r.frames) /\ Finish(r).pos = r.pos
             /\ NumActive(Finish(r).frames) <= Finish(r).hidden
  BY <1>2, <1>4, <1>5, <1>8
<1>9. CASE f.tag \notin ActiveTags /\ f.in # <<>> /\ f.tag = "title"
  <2>1. f.id \in Nat
    BY DEF Frames
  <2>2. PICK q \in Readers : q = [s EXCEPT !.title = f.id]
    BY <2>1 DEF Readers
  <2>3. q.frames = s.frames /\ q.pos = s.pos /\ q.hidden = s.hidden
    BY <2>2 DEF Readers
  <2>4. Finish(r) = q
    <3>1. "title" \notin DOMAIN HtmlBlock
      BY DEF HtmlBlock
    <3>2. Finish(r) = [s EXCEPT !.title = f.id]
      BY <1>1, <1>6, <1>9, <3>1 DEF Finish
    <3> QED BY <3>2, <2>2
  <2> QED BY <1>8, <1>9, <2>3, <2>4
<1>10. CASE f.tag \notin ActiveTags /\ f.in # <<>> /\ f.tag \in DOMAIN HtmlBlock
  <2> DEFINE level == IF f.tag = "h2" THEN 2 ELSE IF f.tag = "h1" THEN 1 ELSE 0
             blk == Block(HtmlBlock[f.tag], At(level, NoWord), f.in, f.id)
  <2>1. blk \in CleanBlocks
    <3>1. HtmlBlock[f.tag] \in Words
      BY <1>10 DEF HtmlBlock, Words
    <3>2. At(level, NoWord) \in Attrs
      BY DEF At, Attrs, Words
    <3>3. f.in \in Seq(CleanPhrases) /\ f.id \in Nat
      BY DEF Frames
    <3> HIDE DEF level
    <3> QED BY <3>1, <3>2, <3>3 DEF Block, CleanBlocks, Spans
  <2>2. PICK item \in Items : item = [at |-> f.at, blk |-> blk]
    BY <2>1 DEF Items, Frames
  <2>a. Append(s.got, item) \in Seq(Items)
    BY ReaderFields
  <2>3. PICK got \in Seq(Items) : got = Append(s.got, item)
    BY <2>a
  <2>4. PICK q \in Readers : q = [s EXCEPT !.got = got]
    BY DEF Readers
  <2>5. q.frames = s.frames /\ q.pos = s.pos /\ q.hidden = s.hidden
    BY <2>4 DEF Readers
  <2>6. f.tag # "title"
    BY <1>10 DEF HtmlBlock
  <2>7. Finish(r) = q
    <3>1. Finish(r) = [s EXCEPT !.got = Append(@, [at |-> f.at, blk |-> blk])]
      BY <1>1, <1>6, <1>10, <2>6 DEF Finish
    <3> HIDE DEF blk
    <3> QED BY <3>1, <2>2, <2>3, <2>4
  <2> QED BY <1>8, <1>10, <2>5, <2>7
<1>11. CASE /\ f.tag \notin ActiveTags
            /\ ~(f.in # <<>> /\ f.tag = "title") /\ ~(f.in # <<>> /\ f.tag \in DOMAIN HtmlBlock)
  <2>1. Finish(r) = s
    BY <1>1, <1>6, <1>11 DEF Finish
  <2> QED BY <1>8, <1>11, <2>1
<1> QED BY <1>7, <1>9, <1>10, <1>11

\* The readers that are left when the innermost i elements of r are closed.
Closed(r, i) ==
    {y \in Readers : /\ y.frames = SubSeq(r.frames, 1, Len(r.frames) - i) /\ y.pos = r.pos
                     /\ NumActive(y.frames) <= y.hidden}

\* One more element is closed.
LEMMA ClosedStep ==
  ASSUME NEW r \in Readers, NEW i \in 1..Len(r.frames), NEW y \in Closed(r, i - 1)
  PROVE  Finish(y) \in Closed(r, i)
<1>1. r.frames \in Seq(Frames)
  BY ReaderFields
<1>2. PICK n \in Nat : n = Len(r.frames)
  BY <1>1
<1>3. /\ y \in Readers /\ y.frames = SubSeq(r.frames, 1, n - (i - 1)) /\ y.pos = r.pos
      /\ NumActive(y.frames) <= y.hidden
  BY <1>2 DEF Closed
<1>4. i \in 1..n /\ n - (i - 1) \in 1..n
  BY <1>2
<1>5. PICK m \in 1..n : m = n - (i - 1)
  BY <1>4
<1>6. \A j \in 1..n : r.frames[j] \in Frames
  BY <1>1, <1>2
<1>7. Len(SubSeq(r.frames, 1, m)) = m
  BY <1>1, <1>2, <1>6
<1>8. y.frames # <<>>
  BY <1>3, <1>5, <1>7
<1>9. SubSeq(SubSeq(r.frames, 1, m), 1, m - 1) = SubSeq(r.frames, 1, m - 1)
  BY <1>1, <1>2, <1>6
<1>10. Front(y.frames) = SubSeq(r.frames, 1, n - i)
  <2>1. m - 1 = n - i
    BY <1>4, <1>5
  <2> QED BY <1>3, <1>5, <1>7, <1>9, <2>1 DEF Front
<1> QED BY <1>2, <1>3, <1>8, <1>10, FinishType DEF Closed

\* Closing the innermost n elements.
LEMMA FinishInnerType ==
  ASSUME NEW r \in Readers, NumActive(r.frames) <= r.hidden, NEW n \in 0..Len(r.frames)
  PROVE  FinishInner(r, n) \in Closed(r, n)
<1> DEFINE X == [i \in 0..n |-> Closed(r, i)]
           g == [i \in 1..n |-> [y \in Readers |-> Finish(y)]]
           Closes(h) == h = [i \in 0..n |-> IF i = 0 THEN r ELSE Finish(h[i - 1])]
<1>1. n \in Nat /\ n <= Len(r.frames) /\ r.frames \in Seq(Frames) /\ Len(r.frames) \in Nat
  BY ReaderFields
<1>2. r \in Closed(r, 0)
  <2>1. r.frames = SubSeq(r.frames, 1, Len(r.frames) - 0)
    BY <1>1
  <2> QED BY <2>1 DEF Closed
<1>3. \A i \in 1..n : \A y \in Closed(r, i - 1) : y \in Readers /\ Finish(y) \in Closed(r, i)
  <2> SUFFICES ASSUME NEW i \in 1..n, NEW y \in Closed(r, i - 1)
               PROVE  y \in Readers /\ Finish(y) \in Closed(r, i)
    OBVIOUS
  <2>1. i \in 1..Len(r.frames)
    BY <1>1
  <2> QED BY <2>1, ClosedStep DEF Closed
<1>4. Leads(g, X, n)
  <2> SUFFICES ASSUME NEW i \in 1..n, NEW y \in X[i - 1] PROVE g[i][y] \in X[i]
    BY DEF Leads
  <2>1. i - 1 \in 0..n /\ i \in 0..n
    OBVIOUS
  <2>2. X[i - 1] = Closed(r, i - 1) /\ X[i] = Closed(r, i)
    BY <2>1
  <2> QED BY <1>3, <2>2
<1>5. PICK h : Takes(h, g, r, n) /\ \A i \in 0..n : h[i] \in X[i]
  <2>1. r \in X[0]
    BY <1>1, <1>2
  <2> HIDE DEF X, g
  <2> QED BY <1>1, <1>4, <2>1, Iteration
<1>6. \A i \in 0..n : h[i] \in Closed(r, i)
  BY <1>5
<1>7. \A i \in 1..n : h[i] = Finish(h[i - 1])
  <2> SUFFICES ASSUME NEW i \in 1..n PROVE g[i][h[i - 1]] = Finish(h[i - 1])
    BY <1>5 DEF Takes
  <2>1. h[i - 1] \in Readers
    BY <1>6 DEF Closed
  <2> QED BY <2>1
<1>8. Closes(h)
  <2>1. \A i \in 0..n : h[i] = IF i = 0 THEN r ELSE Finish(h[i - 1])
    <3> SUFFICES ASSUME NEW i \in 0..n PROVE h[i] = IF i = 0 THEN r ELSE Finish(h[i - 1])
      OBVIOUS
    <3>1. i = 0 \/ i \in 1..n
      OBVIOUS
    <3> QED BY <1>5, <1>7, <3>1 DEF Takes
  <2>2. h = [i \in 0..n |-> h[i]]
    BY <1>5 DEF Takes
  <2> QED BY <2>1, <2>2, Zenon
<1>9. PICK after : after = CHOOSE f : Closes(f)
  OBVIOUS
<1>10. Closes(after)
  <2> HIDE DEF Closes
  <2> QED BY <1>8, <1>9
<1>11. InStep(after, h, n)
  <2>1. \A f : Closes(f) => f[0] = r /\ \A i \in 1..n : f[i] = Finish(f[i - 1])
    <3> SUFFICES ASSUME NEW f, Closes(f)
                 PROVE  f[0] = r /\ \A i \in 1..n : f[i] = Finish(f[i - 1])
      OBVIOUS
    <3>1. 0 \in 0..n /\ \A i \in 1..n : i \in 0..n /\ i # 0
      BY <1>1
    <3> QED BY <3>1
  <2> HIDE DEF Closes
  <2> QED BY <1>8, <1>10, <2>1 DEF InStep
<1>12. after[n] = h[n]
  <2>1. n \in 0..n
    BY <1>1
  <2> QED BY <1>1, <1>11, <2>1, SameIteration
<1>13. FinishInner(r, n) = after[n]
  BY <1>9 DEF FinishInner
<1>14. n \in 0..n
  BY <1>1
<1> QED BY <1>6, <1>12, <1>13, <1>14

\* What the i-th token makes of the open elements.
OpenStep(nodes, i, before) ==
    LET same == {k \in before : nodes[k].a.s = nodes[i].a.s}
    IN CASE nodes[i].n = "open" -> before \cup {i}
         [] nodes[i].n = "close" /\ same # {} -> {k \in before : \E m \in same : k < m}
         [] OTHER -> before

\* The open elements are found token by token.
LEMMA OpenBehindSteps ==
  ASSUME NEW nodes, NEW n \in Nat, n = Len(nodes)
  PROVE  /\ OpenBehind(nodes)[0] = {}
         /\ \A i \in 1..n :
               OpenBehind(nodes)[i] = OpenStep(nodes, i, OpenBehind(nodes)[i - 1])
<1>0. PICK x : x = {}
  OBVIOUS
<1> DEFINE X == [i \in 0..n |-> SUBSET (1..n)]
           g == [i \in 1..n |-> [y \in SUBSET (1..n) |-> OpenStep(nodes, i, y)]]
           Opens(h) == h = [i \in 0..n |-> IF i = 0 THEN {} ELSE OpenStep(nodes, i, h[i - 1])]
<1>1. \A i \in 1..n : \A y \in SUBSET (1..n) : OpenStep(nodes, i, y) \in SUBSET (1..n)
  BY DEF OpenStep
<1>2. Leads(g, X, n)
  <2> SUFFICES ASSUME NEW i \in 1..n, NEW y \in X[i - 1] PROVE g[i][y] \in X[i]
    BY DEF Leads
  <2>1. i - 1 \in 0..n /\ i \in 0..n
    OBVIOUS
  <2>2. y \in SUBSET (1..n) /\ X[i] = SUBSET (1..n)
    BY <2>1
  <2>3. g[i][y] = OpenStep(nodes, i, y)
    BY <2>2
  <2>4. OpenStep(nodes, i, y) \in SUBSET (1..n)
    BY <1>1, <2>2
  <2> HIDE DEF X, g
  <2> QED BY <2>2, <2>3, <2>4
<1>3. PICK h : Takes(h, g, x, n) /\ \A i \in 0..n : h[i] \in X[i]
  <2>1. x \in X[0]
    BY <1>0
  <2> HIDE DEF X, g
  <2> QED BY <1>2, <2>1, Iteration
<1>4. \A i \in 1..n : h[i] = OpenStep(nodes, i, h[i - 1])
  <2> SUFFICES ASSUME NEW i \in 1..n PROVE g[i][h[i - 1]] = OpenStep(nodes, i, h[i - 1])
    BY <1>3 DEF Takes
  <2>1. i - 1 \in 0..n
    OBVIOUS
  <2>2. h[i - 1] \in SUBSET (1..n)
    BY <1>3, <2>1
  <2> QED BY <2>2
<1>5. Opens(h)
  <2>1. \A i \in 0..n : h[i] = IF i = 0 THEN {} ELSE OpenStep(nodes, i, h[i - 1])
    <3> SUFFICES ASSUME NEW i \in 0..n
                 PROVE  h[i] = IF i = 0 THEN {} ELSE OpenStep(nodes, i, h[i - 1])
      OBVIOUS
    <3>1. i = 0 \/ i \in 1..n
      OBVIOUS
    <3> QED BY <1>0, <1>3, <1>4, <3>1 DEF Takes
  <2>2. h = [i \in 0..n |-> h[i]]
    BY <1>3 DEF Takes
  <2> QED BY <2>1, <2>2, Zenon
<1>6. OpenBehind(nodes) = CHOOSE f : Opens(f)
  BY DEF OpenBehind, OpenStep
<1>7. Opens(OpenBehind(nodes))
  <2> HIDE DEF Opens
  <2> QED BY <1>5, <1>6
<1>8. 0 \in 0..n /\ \A i \in 1..n : i \in 0..n /\ i # 0
  OBVIOUS
<1> QED BY <1>7, <1>8

\* The stack fs holds the elements of B, which are open behind token p: each
\* with the place and the name of its tag, from the outermost to the innermost.
Mirrors(fs, B, nodes, p) ==
    /\ \A i \in DOMAIN fs : fs[i].at \in 1..p /\ nodes[fs[i].at].a.s = fs[i].tag
    /\ \A i, j \in DOMAIN fs : i < j => fs[i].at < fs[j].at
    /\ B = {fs[i].at : i \in DOMAIN fs}

\* An element is opened.
LEMMA MirrorsOpen ==
  ASSUME NEW fs \in Seq(Frames), NEW B, NEW nodes, NEW p \in Nat \ {0},
         Mirrors(fs, B, nodes, p - 1),
         NEW f \in Frames, f.at = p, f.tag = nodes[p].a.s
  PROVE  Mirrors(Append(fs, f), B \cup {p}, nodes, p)
<1>1. PICK n \in Nat : n = Len(fs) /\ DOMAIN fs = 1..n
  OBVIOUS
<1>a. Append(fs, f) \in Seq(Frames)
  OBVIOUS
<1>2. PICK gs : gs = Append(fs, f)
  OBVIOUS
<1>3. DOMAIN gs = 1..(n + 1) /\ gs[n + 1] = f /\ \A i \in 1..n : gs[i] = fs[i]
  BY <1>1, <1>2
<1>4. /\ \A i \in 1..n : fs[i].at \in 1..(p - 1) /\ nodes[fs[i].at].a.s = fs[i].tag
      /\ \A i, j \in 1..n : i < j => fs[i].at < fs[j].at
      /\ B = {fs[i].at : i \in 1..n}
  BY <1>1 DEF Mirrors
<1>5. \A i \in 1..(n + 1) : gs[i].at \in 1..p /\ nodes[gs[i].at].a.s = gs[i].tag
  <2> SUFFICES ASSUME NEW i \in 1..(n + 1)
               PROVE  gs[i].at \in 1..p /\ nodes[gs[i].at].a.s = gs[i].tag
    OBVIOUS
  <2>1. CASE i = n + 1
    BY <1>3, <2>1
  <2>2. CASE i \in 1..n
    BY <1>3, <1>4, <2>2
  <2> QED BY <2>1, <2>2
<1>6. \A i, j \in 1..(n + 1) : i < j => gs[i].at < gs[j].at
  <2> SUFFICES ASSUME NEW i \in 1..(n + 1), NEW j \in 1..(n + 1), i < j
               PROVE  gs[i].at < gs[j].at
    OBVIOUS
  <2>1. i \in 1..n /\ gs[i] = fs[i] /\ fs[i].at \in 1..(p - 1)
    BY <1>3, <1>4
  <2>2. CASE j = n + 1
    BY <1>3, <2>1, <2>2
  <2>3. CASE j \in 1..n
    BY <1>3, <1>4, <2>1, <2>3
  <2> QED BY <2>2, <2>3
<1>7. B \cup {p} = {gs[i].at : i \in 1..(n + 1)}
  <2>1. \A i \in 1..n : i \in 1..(n + 1) /\ gs[i].at = fs[i].at
    BY <1>3
  <2>2. \A i \in 1..(n + 1) : i = n + 1 \/ i \in 1..n
    OBVIOUS
  <2>3. n + 1 \in 1..(n + 1) /\ gs[n + 1].at = p
    BY <1>3
  <2> QED BY <1>4, <2>1, <2>2, <2>3
<1>8. DOMAIN gs = 1..(n + 1)
  BY <1>3
<1>9. Mirrors(gs, B \cup {p}, nodes, p)
  BY <1>5, <1>6, <1>7, <1>8, Zenon DEF Mirrors
<1> QED BY <1>2, <1>9

\* The innermost element of a name and those inside it are closed.
LEMMA MirrorsClose ==
  ASSUME NEW fs \in Seq(Frames), NEW B, NEW nodes, NEW p \in Nat \ {0},
         Mirrors(fs, B, nodes, p - 1), nodes[p].n = "close",
         NEW k \in 1..Len(fs), fs[k].tag = nodes[p].a.s,
         \A j \in 1..Len(fs) : fs[j].tag = nodes[p].a.s => j <= k
  PROVE  Mirrors(SubSeq(fs, 1, k - 1), OpenStep(nodes, p, B), nodes, p)
<1>1. PICK n \in Nat : n = Len(fs) /\ DOMAIN fs = 1..n
  OBVIOUS
<1>2. k \in 1..n /\ \A i \in 1..n : fs[i] \in Frames
  BY <1>1
<1>3. PICK m \in 0..n : m = k - 1
  BY <1>2
<1>4. /\ DOMAIN SubSeq(fs, 1, m) = 1..m
      /\ \A i \in 1..m : SubSeq(fs, 1, m)[i] = fs[i]
  BY <1>1, <1>2
<1>5. PICK gs : gs = SubSeq(fs, 1, k - 1)
  OBVIOUS
<1>6. DOMAIN gs = 1..m /\ \A i \in 1..m : gs[i] = fs[i]
  BY <1>3, <1>4, <1>5
<1>7. /\ \A i \in 1..n : fs[i].at \in 1..(p - 1) /\ nodes[fs[i].at].a.s = fs[i].tag
      /\ \A i, j \in 1..n : i < j => fs[i].at < fs[j].at
      /\ B = {fs[i].at : i \in 1..n}
  BY <1>1 DEF Mirrors
<1> DEFINE same == {x \in B : nodes[x].a.s = nodes[p].a.s}
<1>8. fs[k].at \in same
  BY <1>2, <1>7
<1>9. \A x \in same : \E j \in 1..n : x = fs[j].at /\ j <= k
  <2> SUFFICES ASSUME NEW x \in same PROVE \E j \in 1..n : x = fs[j].at /\ j <= k
    OBVIOUS
  <2>1. PICK j \in 1..n : x = fs[j].at
    BY <1>7
  <2>2. fs[j].tag = nodes[p].a.s
    BY <1>7, <2>1
  <2> QED BY <1>1, <2>1, <2>2
<1>10. OpenStep(nodes, p, B) = {x \in B : \E y \in same : x < y}
  <2>1. same # {}
    BY <1>8
  <2> QED BY <2>1 DEF OpenStep
<1>11. {x \in B : \E y \in same : x < y} = {gs[i].at : i \in 1..m}
  <2>1. ASSUME NEW x \in B, NEW y \in same, x < y PROVE x \in {gs[i].at : i \in 1..m}
    <3>1. PICK i \in 1..n : x = fs[i].at
      BY <1>7
    <3>2. PICK j \in 1..n : y = fs[j].at /\ j <= k
      BY <1>9
    <3>3. i < j
      <4>1. fs[i].at \in Nat /\ fs[j].at \in Nat
        BY <1>7
      <4>2. i # j
        BY <2>1, <3>1, <3>2, <4>1
      <4>3. ~(j < i)
        <5> SUFFICES ASSUME j < i PROVE FALSE
          OBVIOUS
        <5>1. fs[j].at < fs[i].at
          BY <1>7
        <5> QED BY <2>1, <3>1, <3>2, <4>1, <5>1
      <4> QED BY <4>2, <4>3
    <3>4. i \in 1..m
      BY <1>3, <3>2, <3>3
    <3> QED BY <1>6, <3>1, <3>4
  <2>2. ASSUME NEW i \in 1..m
        PROVE  gs[i].at \in B /\ \E y \in same : gs[i].at < y
    <3>1. i \in 1..n /\ i < k /\ gs[i] = fs[i]
      BY <1>2, <1>3, <1>6
    <3>2. fs[i].at < fs[k].at
      BY <1>2, <1>7, <3>1
    <3> QED BY <1>7, <1>8, <3>1, <3>2
  <2> HIDE DEF same
  <2> QED BY <2>1, <2>2
<1>12. \A i \in 1..m : i \in 1..n /\ \A x \in 1..(p - 1) : x \in 1..p
  OBVIOUS
<1>13. /\ \A i \in 1..m : gs[i].at \in 1..p /\ nodes[gs[i].at].a.s = gs[i].tag
       /\ \A i, j \in 1..m : i < j => gs[i].at < gs[j].at
  BY <1>6, <1>7, <1>12
<1>14. Mirrors(gs, OpenStep(nodes, p, B), nodes, p)
  <2> HIDE DEF same
  <2> QED BY <1>6, <1>10, <1>11, <1>13 DEF Mirrors
<1> QED BY <1>5, <1>14

\* What does not touch places and names leaves the stack as it is.
LEMMA MirrorsSame ==
  ASSUME NEW fs, NEW gs, NEW B, NEW nodes, NEW p \in Nat \ {0},
         Mirrors(fs, B, nodes, p - 1), DOMAIN gs = DOMAIN fs,
         \A i \in DOMAIN fs : gs[i].at = fs[i].at /\ gs[i].tag = fs[i].tag
  PROVE  Mirrors(gs, B, nodes, p)
<1>1. \A x \in 1..(p - 1) : x \in 1..p
  OBVIOUS
<1> QED BY <1>1 DEF Mirrors

\* The HTML reader r of the text: its stack is what is open behind the tokens
\* it has read, and it is suppressed while an active element is among them.
Simulates(r, nodes) ==
    /\ r \in Readers /\ r.pos \in 1..(Len(nodes) + 1)
    /\ NumActive(r.frames) <= r.hidden
    /\ Mirrors(r.frames, OpenBehind(nodes)[r.pos - 1], nodes, r.pos - 1)

\* It starts so.
LEMMA SimulatesStart ==
  ASSUME NEW nodes, Len(nodes) \in Nat
  PROVE  Simulates(NewReader, nodes)
<1>1. NewReader.pos = 1 /\ NewReader.frames = <<>> /\ NewReader.hidden = 0
  BY DEF NewReader
<1>2. NewReader \in Readers
  BY NewReaderType
<1>3. NumActive(<<>>) = 0
  <2>1. ActiveIn(<<>>) = {}
    BY DEF ActiveIn
  <2> QED BY <2>1, FS_EmptySet DEF NumActive
<1>4. OpenBehind(nodes)[1 - 1] = {}
  BY OpenBehindSteps
<1>5. Mirrors(<<>>, {}, nodes, 1 - 1)
  <2>1. DOMAIN <<>> = {}
    OBVIOUS
  <2> QED BY <2>1 DEF Mirrors
<1>6. 1 \in 1..(Len(nodes) + 1)
  OBVIOUS
<1> QED BY <1>1, <1>2, <1>3, <1>4, <1>5, <1>6 DEF Simulates

\* A piece of text that is not left out lies in no active element.
LEMMA PieceClean ==
  ASSUME NEW nodes, NEW r, Simulates(r, nodes), r.hidden = 0
  PROVE  Piece(nodes, r.pos) \in CleanPhrases
<1>1. r \in Readers /\ r.frames \in Seq(Frames) /\ NumActive(r.frames) = 0
  BY ReaderFields, ActiveCount DEF Simulates
<1>2. \A i \in DOMAIN r.frames : r.frames[i].tag \notin ActiveTags
  BY <1>1, ActiveCount
<1>3. \A x \in OpenBehind(nodes)[r.pos - 1] : nodes[x].a.s \notin ActiveTags
  BY <1>2 DEF Simulates, Mirrors
<1>4. Piece(nodes, r.pos) = [k |-> "text", c |-> "plain"]
  BY <1>3 DEF Piece, InsideActive
<1> QED BY <1>4 DEF CleanPhrases, Phrases, Words

(***************************************************************************)
(* The steps of the HTML reader.                                           *)
(***************************************************************************)

\* A token that is no opening and no closing tag changes nothing.
LEMMA OtherToken ==
  ASSUME NEW nodes, NEW B, NEW p, nodes[p].n \notin {"open", "close"}
  PROVE  OpenStep(nodes, p, B) = B
BY DEF OpenStep

\* Where the HTML reader stands.
LEMMA HtmlHere ==
  ASSUME text \in Texts, Simulates(rd, text.nodes), HtmlMore
  PROVE  /\ rd \in Readers /\ rd.frames \in Seq(Frames)
         /\ rd.pos \in 1..Len(text.nodes) /\ Len(text.nodes) \in Nat
         /\ rd.pos + 1 \in 1..(Len(text.nodes) + 1)
         /\ rd.hidden \in Nat /\ rd.tags \in Nat /\ rd.chars \in Nat
         /\ Here = text.nodes[rd.pos] /\ Here.id \in Nat /\ Here.a.s \in Words
         /\ NumActive(rd.frames) \in Nat /\ NumActive(rd.frames) <= rd.hidden
         /\ OpenBehind(text.nodes)[(rd.pos + 1) - 1] =
               OpenStep(text.nodes, rd.pos, OpenBehind(text.nodes)[rd.pos - 1])
         /\ Mirrors(rd.frames, OpenBehind(text.nodes)[rd.pos - 1], text.nodes, rd.pos - 1)
<1>1. /\ rd \in Readers /\ rd.pos \in 1..(Len(text.nodes) + 1)
      /\ NumActive(rd.frames) <= rd.hidden
      /\ Mirrors(rd.frames, OpenBehind(text.nodes)[rd.pos - 1], text.nodes, rd.pos - 1)
  BY DEF Simulates
<1>2. Len(text.nodes) \in Nat
  BY TextType
<1>3. /\ rd.frames \in Seq(Frames)
      /\ rd.hidden \in Nat /\ rd.tags \in Nat /\ rd.chars \in Nat /\ NumActive(rd.frames) \in Nat
  BY <1>1, ReaderFields, ActiveCount
<1>4. rd.pos \in 1..Len(text.nodes)
  BY <1>1, <1>2 DEF HtmlMore
<1>5. rd.pos + 1 \in 1..(Len(text.nodes) + 1) /\ (rd.pos + 1) - 1 = rd.pos
  BY <1>2, <1>4
<1>6. Here = text.nodes[rd.pos] /\ Here.id \in Nat /\ Here.a.s \in Words
  BY <1>4, TextType DEF Here
<1>7. OpenBehind(text.nodes)[rd.pos] =
         OpenStep(text.nodes, rd.pos, OpenBehind(text.nodes)[rd.pos - 1])
  BY <1>2, <1>4, OpenBehindSteps
<1> QED BY <1>1, <1>2, <1>3, <1>4, <1>5, <1>6, <1>7

\* A tag that opens an element puts it on the stack; an active tag starts a
\* suppression in any case.
LEMMA OpenTagStep ==
  ASSUME text \in Texts, Simulates(rd, text.nodes), OpenTag
  PROVE  Simulates(rd', text.nodes) /\ text' = text
<1> DEFINE nodes == text.nodes
           p == rd.pos
           B == OpenBehind(nodes)[p - 1]
           frame == [tag |-> Here.a.s, at |-> p, in |-> <<>>, id |-> 0]
<1>1. HtmlMore /\ Here.n \in {"open", "empty", "void"} /\ text' = text
  BY DEF OpenTag, Read
<1>2. /\ rd \in Readers /\ rd.frames \in Seq(Frames) /\ p \in Nat \ {0} /\ Here = nodes[p]
      /\ p + 1 \in 1..(Len(nodes) + 1) /\ (p + 1) - 1 = p
      /\ rd.hidden \in Nat /\ rd.tags \in Nat
      /\ NumActive(rd.frames) \in Nat /\ NumActive(rd.frames) <= rd.hidden
      /\ OpenBehind(nodes)[(p + 1) - 1] = OpenStep(nodes, p, B)
      /\ Mirrors(rd.frames, B, nodes, p - 1)
  BY <1>1, HtmlHere
<1>3. frame \in Frames
  <2>1. <<>> \in Seq(CleanPhrases)
    OBVIOUS
  <2>2. Here.a.s \in Words
    BY <1>1, HtmlHere
  <2> QED BY <1>2, <2>1, <2>2 DEF Frames
<1>4. PICK f \in Frames : f = frame /\ f.at = p /\ f.tag = nodes[p].a.s
  BY <1>2, <1>3
<1>5. Append(rd.frames, f) \in Seq(Frames)
  BY <1>2
<1>6. PICK hidden \in Nat :
         hidden = IF f.tag \in ActiveTags THEN rd.hidden + 1 ELSE rd.hidden
  BY <1>2
<1>7. PICK frames \in Seq(Frames) :
         frames = IF Here.n = "open" THEN Append(rd.frames, f) ELSE rd.frames
  BY <1>2, <1>5
<1>8. rd' = [rd EXCEPT !.pos = p + 1, !.tags = rd.tags + 1, !.hidden = hidden, !.frames = frames]
  <2>1. Here.a.s = f.tag
    BY <1>2, <1>4
  <2>2. rd' = [Counted(rd) EXCEPT
                 !.hidden = IF Here.a.s \in ActiveTags THEN @ + 1 ELSE @,
                 !.frames = IF Here.n = "open" THEN Append(@, frame) ELSE @]
    BY DEF OpenTag, Read
  <2>3. Counted(rd) = [rd EXCEPT !.pos = p + 1, !.tags = rd.tags + 1]
    BY DEF Counted
  <2>4. /\ [rd EXCEPT !.pos = p + 1, !.tags = rd.tags + 1].hidden = rd.hidden
        /\ [rd EXCEPT !.pos = p + 1, !.tags = rd.tags + 1].frames = rd.frames
    BY <1>2 DEF Readers
  <2> HIDE DEF frame
  <2> QED BY <1>4, <1>6, <1>7, <2>1, <2>2, <2>3, <2>4
<1>9. /\ rd' \in Readers /\ rd'.pos = p + 1 /\ rd'.hidden = hidden /\ rd'.frames = frames
  <2>1. PICK pos \in Nat \ {0} : pos = p + 1
    BY <1>2
  <2>2. PICK tags \in Nat : tags = rd.tags + 1
    BY <1>2
  <2>3. rd' = [rd EXCEPT !.pos = pos, !.tags = tags, !.hidden = hidden, !.frames = frames]
    BY <1>8, <2>1, <2>2
  <2>4. rd \in Readers
    BY <1>2
  <2>5. rd' \in Readers /\ rd'.pos = pos /\ rd'.hidden = hidden /\ rd'.frames = frames
    BY <2>3, <2>4 DEF Readers
  <2> QED BY <2>1, <2>5
<1>10. NumActive(frames) <= hidden
  BY <1>2, <1>6, <1>7, ActiveCount
<1>11. Mirrors(frames, OpenStep(nodes, p, B), nodes, p)
  <2>1. CASE Here.n = "open"
    <3>1. OpenStep(nodes, p, B) = B \cup {p}
      BY <1>2, <2>1 DEF OpenStep
    <3>2. frames = Append(rd.frames, f)
      BY <1>7, <2>1
    <3>3. Mirrors(Append(rd.frames, f), B \cup {p}, nodes, p)
      <4> HIDE DEF nodes, B, p, frame
      <4> QED BY <1>2, <1>4, MirrorsOpen
    <3> QED BY <3>1, <3>2, <3>3
  <2>2. CASE Here.n \in {"empty", "void"}
    <3>1. OpenStep(nodes, p, B) = B
      BY <1>2, <2>2, OtherToken
    <3>2. frames = rd.frames
      BY <1>7, <2>2
    <3> HIDE DEF nodes, B, p
    <3> QED BY <1>2, <3>1, <3>2, MirrorsSame
  <2> QED BY <1>1, <2>1, <2>2
<1> QED BY <1>1, <1>2, <1>9, <1>10, <1>11 DEF Simulates

\* A closing tag closes the innermost element of its name and those inside it.
LEMMA CloseTagStep ==
  ASSUME text \in Texts, Simulates(rd, text.nodes), CloseTag
  PROVE  Simulates(rd', text.nodes) /\ text' = text
<1> DEFINE nodes == text.nodes
           p == rd.pos
           B == OpenBehind(nodes)[p - 1]
           same == {i \in DOMAIN rd.frames : rd.frames[i].tag = Here.a.s}
           inner == CHOOSE i \in same : \A j \in same : j <= i
<1>1. HtmlMore /\ Here.n = "close" /\ text' = text
  BY DEF CloseTag, Read
<1>2. /\ rd \in Readers /\ rd.frames \in Seq(Frames) /\ p \in Nat \ {0} /\ Here = nodes[p]
      /\ p + 1 \in 1..(Len(nodes) + 1) /\ (p + 1) - 1 = p
      /\ rd.hidden \in Nat /\ rd.tags \in Nat
      /\ NumActive(rd.frames) \in Nat /\ NumActive(rd.frames) <= rd.hidden
      /\ OpenBehind(nodes)[(p + 1) - 1] = OpenStep(nodes, p, B)
      /\ Mirrors(rd.frames, B, nodes, p - 1)
  BY <1>1, HtmlHere
<1>3. PICK c \in Readers : c = Counted(rd) /\ c.pos = p + 1 /\ c.hidden = rd.hidden
                           /\ c.frames = rd.frames
  <2>1. PICK pos \in Nat \ {0} : pos = p + 1
    BY <1>2
  <2>2. PICK tags \in Nat : tags = rd.tags + 1
    BY <1>2
  <2>3. rd \in Readers
    BY <1>2
  <2>4. PICK c \in Readers : c = [rd EXCEPT !.pos = pos, !.tags = tags]
    BY <2>3 DEF Readers
  <2>5. c.pos = pos /\ c.hidden = rd.hidden /\ c.frames = rd.frames
    BY <2>3, <2>4 DEF Readers
  <2>6. Counted(rd) = c
    BY <2>1, <2>2, <2>4 DEF Counted
  <2> QED BY <2>1, <2>5, <2>6
<1>4. PICK n : n = IF same = {} THEN 0 ELSE Len(rd.frames) + 1 - inner
  <2> HIDE DEF same, inner
  <2> QED OBVIOUS
<1>5. rd' = FinishInner(c, n)
  BY <1>3, <1>4 DEF CloseTag, Read
<1>6. ASSUME n \in 0..Len(rd.frames),
             Mirrors(SubSeq(rd.frames, 1, Len(rd.frames) - n), OpenStep(nodes, p, B), nodes, p)
      PROVE  Simulates(rd', text.nodes) /\ text' = text
  <2>1. rd' \in Closed(c, n)
    BY <1>2, <1>3, <1>5, <1>6, FinishInnerType
  <2>2. /\ rd' \in Readers /\ rd'.pos = p + 1 /\ NumActive(rd'.frames) <= rd'.hidden
        /\ rd'.frames = SubSeq(rd.frames, 1, Len(rd.frames) - n)
    BY <1>3, <2>1 DEF Closed
  <2> QED BY <1>1, <1>2, <1>6, <2>2 DEF Simulates
<1>7. CASE same = {}
  <2>1. n = 0
    BY <1>4, <1>7
  <2>2. SubSeq(rd.frames, 1, Len(rd.frames) - 0) = rd.frames /\ 0 \in 0..Len(rd.frames)
    BY <1>2
  <2>3. OpenStep(nodes, p, B) = B
    <3>1. \A i \in DOMAIN rd.frames : nodes[rd.frames[i].at].a.s # nodes[p].a.s
      BY <1>2, <1>7 DEF Mirrors
    <3>2. {x \in B : nodes[x].a.s = nodes[p].a.s} = {}
      BY <1>2, <3>1 DEF Mirrors
    <3>3. nodes[p].n = "close"
      BY <1>1, <1>2
    <3> QED BY <3>2, <3>3 DEF OpenStep
  <2>4. Mirrors(rd.frames, B, nodes, p)
    <3> HIDE DEF nodes, B, p
    <3> QED BY <1>2, MirrorsSame
  <2> QED BY <1>6, <2>1, <2>2, <2>3, <2>4
<1>8. CASE same # {}
  <2>1. same \subseteq 0..Len(rd.frames) /\ same \subseteq 1..Len(rd.frames)
         /\ Len(rd.frames) \in Nat
    BY <1>2
  <2>2. inner \in same /\ \A j \in same : j <= inner
    <3>1. \E i \in same : \A j \in same : j <= i
      <4> HIDE DEF same
      <4> QED BY <1>8, <2>1, GreatestElement
    <3> HIDE DEF same
    <3> QED BY <3>1
  <2>3. PICK k \in 1..Len(rd.frames) : k = inner
    BY <2>1, <2>2
  <2>4. n = Len(rd.frames) + 1 - k /\ n \in 0..Len(rd.frames) /\ Len(rd.frames) - n = k - 1
    <3> HIDE DEF same, inner
    <3>1. n = Len(rd.frames) + 1 - k
      BY <1>4, <1>8, <2>3
    <3>2. PICK len \in Nat : len = Len(rd.frames)
      BY <2>1
    <3>3. k \in 1..len /\ n = len + 1 - k
      BY <3>1, <3>2
    <3>4. n \in 0..len /\ len - n = k - 1
      BY <3>3
    <3> QED BY <3>1, <3>2, <3>4
  <2>5. /\ nodes[p].n = "close" /\ rd.frames[k].tag = nodes[p].a.s
        /\ \A j \in 1..Len(rd.frames) : rd.frames[j].tag = nodes[p].a.s => j <= k
    <3> HIDE DEF inner
    <3> QED BY <1>1, <1>2, <2>2, <2>3
  <2>6. Mirrors(SubSeq(rd.frames, 1, k - 1), OpenStep(nodes, p, B), nodes, p)
    <3> HIDE DEF nodes, B, p
    <3> QED BY <1>2, <2>5, MirrorsClose
  <2> QED BY <1>6, <2>4, <2>6
<1> QED BY <1>7, <1>8

\* A piece of text goes to every open element, but not while an active one is
\* among them.
LEMMA HtmlTextStep ==
  ASSUME text \in Texts, Simulates(rd, text.nodes), HtmlText
  PROVE  Simulates(rd', text.nodes) /\ text' = text
<1> DEFINE nodes == text.nodes
           p == rd.pos
           B == OpenBehind(nodes)[p - 1]
           piece == Piece(nodes, p)
           grown(i) == [rd.frames[i] EXCEPT !.in = Append(@, piece), !.id = IF @ = 0 THEN Here.id ELSE @]
           given == [i \in DOMAIN rd.frames |-> grown(i)]
<1>1. HtmlMore /\ Here.n = "text" /\ text' = text
  BY DEF HtmlText, Read
<1>2. /\ rd \in Readers /\ rd.frames \in Seq(Frames) /\ p \in Nat \ {0} /\ Here = nodes[p]
      /\ p + 1 \in 1..(Len(nodes) + 1) /\ (p + 1) - 1 = p
      /\ rd.hidden \in Nat /\ rd.chars \in Nat
      /\ NumActive(rd.frames) \in Nat /\ NumActive(rd.frames) <= rd.hidden
      /\ OpenBehind(nodes)[(p + 1) - 1] = OpenStep(nodes, p, B)
      /\ Mirrors(rd.frames, B, nodes, p - 1)
  BY <1>1, HtmlHere
<1>3. OpenStep(nodes, p, B) = B
  <2>1. nodes[p].n \notin {"open", "close"}
    BY <1>1, <1>2
  <2> QED BY <2>1, OtherToken
<1>4. CASE rd.hidden > 0
  <2>1. rd' = [rd EXCEPT !.pos = p + 1]
    BY <1>4 DEF HtmlText, Read
  <2>2. rd' \in Readers /\ rd'.pos = p + 1 /\ rd'.hidden = rd.hidden /\ rd'.frames = rd.frames
    <3>1. PICK pos \in Nat \ {0} : pos = p + 1
      BY <1>2
    <3>2. rd \in Readers /\ rd' = [rd EXCEPT !.pos = pos]
      BY <1>2, <2>1, <3>1
    <3>3. rd' \in Readers /\ rd'.pos = pos /\ rd'.hidden = rd.hidden /\ rd'.frames = rd.frames
      BY <3>2 DEF Readers
    <3> QED BY <3>1, <3>3
  <2>3. Mirrors(rd.frames, B, nodes, p)
    <3> HIDE DEF nodes, B, p
    <3> QED BY <1>2, MirrorsSame
  <2> QED BY <1>1, <1>2, <1>3, <2>2, <2>3 DEF Simulates
<1>5. CASE rd.hidden = 0
  <2>1. piece \in CleanPhrases
    BY <1>5, PieceClean
  <2>2. PICK x \in CleanPhrases : x = piece
    BY <2>1
  <2>3. ASSUME NEW i \in DOMAIN rd.frames
        PROVE  grown(i) \in Frames /\ grown(i).at = rd.frames[i].at
               /\ grown(i).tag = rd.frames[i].tag
    <3>1. PICK f \in Frames : f = rd.frames[i]
      BY <1>2
    <3>2. Append(f.in, x) \in Seq(CleanPhrases)
      BY DEF Frames
    <3>3. PICK in \in Seq(CleanPhrases) : in = Append(f.in, x)
      BY <3>2
    <3>4. PICK id \in Nat : id = IF f.id = 0 THEN Here.id ELSE f.id
      BY <1>1, HtmlHere DEF Frames
    <3>5. grown(i) = [f EXCEPT !.in = in, !.id = id]
      <4> HIDE DEF piece
      <4> QED BY <2>2, <3>1, <3>3, <3>4
    <3> HIDE DEF grown
    <3> QED BY <3>1, <3>5 DEF Frames
  <2> HIDE DEF grown
  <2>4. given \in Seq(Frames)
    <3>1. DOMAIN rd.frames = 1..Len(rd.frames) /\ Len(rd.frames) \in Nat
      BY <1>2
    <3> QED BY <2>3, <3>1
  <2>5. PICK frames \in Seq(Frames) : frames = given
    BY <2>4
  <2>6. /\ DOMAIN frames = DOMAIN rd.frames
        /\ \A i \in DOMAIN rd.frames :
              frames[i].at = rd.frames[i].at /\ frames[i].tag = rd.frames[i].tag
    BY <2>3, <2>5
  <2>7. rd' = [rd EXCEPT !.pos = p + 1, !.chars = rd.chars + 1, !.frames = frames]
    <3>1. rd' = [rd EXCEPT !.pos = @ + 1, !.chars = @ + 1, !.frames = given]
      BY <1>5 DEF HtmlText, Read, grown
    <3> HIDE DEF given
    <3> QED BY <2>5, <3>1
  <2>8. rd' \in Readers /\ rd'.pos = p + 1 /\ rd'.hidden = rd.hidden /\ rd'.frames = frames
    <3>1. PICK pos \in Nat \ {0} : pos = p + 1
      BY <1>2
    <3>2. PICK chars \in Nat : chars = rd.chars + 1
      BY <1>2
    <3>3. rd \in Readers /\ rd' = [rd EXCEPT !.pos = pos, !.chars = chars, !.frames = frames]
      BY <1>2, <2>7, <3>1, <3>2
    <3>4. rd' \in Readers /\ rd'.pos = pos /\ rd'.hidden = rd.hidden /\ rd'.frames = frames
      BY <3>3 DEF Readers
    <3> QED BY <3>1, <3>4
  <2>9. NumActive(frames) = NumActive(rd.frames)
    <3>1. ActiveIn(frames) = ActiveIn(rd.frames)
      BY <2>6 DEF ActiveIn
    <3> QED BY <3>1 DEF NumActive
  <2>10. Mirrors(frames, B, nodes, p)
    <3> HIDE DEF nodes, B, p
    <3> QED BY <1>2, <2>6, MirrorsSame
  <2> QED BY <1>1, <1>2, <1>3, <2>8, <2>9, <2>10 DEF Simulates
<1> QED BY <1>2, <1>4, <1>5

\* Every step of the HTML reader keeps it in step with the text.
LEMMA HtmlStep ==
  ASSUME text \in Texts, text.lang = "html", Simulates(rd, text.nodes), ReadNext
  PROVE  Simulates(rd', text.nodes) /\ text' = text
<1>1. OpenTag \/ CloseTag \/ HtmlText
  BY DEF ReadNext, ReadMarkdown, ReadAsciidocBlock, ReadAsciidocDirective, ReadAsciidocTitle,
         ReadAsciidocUnseen, ReadLatexBlank, ReadLatexComment, ReadLatexRest, ReadLatexWrapper,
         ReadLatexTitle, ReadLatexLine, ReadLatexCommandLine, ReadLatexBlock, LatexLine,
         ReadTypstBreak, ReadTypstSpace, ReadTypstInline, ReadTypstItem, ReadTypstArgument,
         ReadTypstBlock
<1> QED BY <1>1, OpenTagStep, CloseTagStep, HtmlTextStep

(***************************************************************************)
(* The second pass of the HTML reader.                                     *)
(***************************************************************************)

\* Stretches of tokens.
Stretches == Nat \X Nat

\* The opening tags of a search in i..hi, and the least of a set.
OpensFrom(nodes, i, hi, tag) ==
    {j \in i..hi : nodes[j].n \in {"open", "empty", "void"} /\ nodes[j].a.s \in BeginWith[tag]}
LeastOf(S) == CHOOSE j \in S : \A m \in S : j <= m
ClosesFrom(nodes, i, hi, tag) ==
    {j \in (LeastOf(OpensFrom(nodes, i, hi, tag)) + 1)..hi :
        nodes[j].n = "close" /\ nodes[j].a.s = tag}

\* One more element is found, if there is one.
SearchStep(nodes, hi, tag, s) ==
    IF OpensFrom(nodes, s.rest, hi, tag) = {} \/ ClosesFrom(nodes, s.rest, hi, tag) = {} THEN s
    ELSE [rest |-> LeastOf(ClosesFrom(nodes, s.rest, hi, tag)) + 1,
          found |-> Append(s.found, <<LeastOf(OpensFrom(nodes, s.rest, hi, tag)) + 1,
                                      LeastOf(ClosesFrom(nodes, s.rest, hi, tag)) - 1>>)]

\* A set of natural numbers that is not empty has its least number as an element.
LEMMA LeastIn ==
  ASSUME NEW S, S \subseteq Nat, S # {}
  PROVE  LeastOf(S) \in S
BY LeastElement DEF LeastOf

\* A search finds stretches.
Searches == [rest : Nat, found : Seq(Stretches)]

\* A step of a search stays inside the text.
LEMMA SearchType ==
  ASSUME NEW nodes, NEW hi \in Nat, NEW tag, NEW s \in Searches
  PROVE  SearchStep(nodes, hi, tag, s) \in Searches
<1> DEFINE O == OpensFrom(nodes, s.rest, hi, tag)
           C == ClosesFrom(nodes, s.rest, hi, tag)
<1>1. s.rest \in Nat /\ s.found \in Seq(Stretches)
  BY DEF Searches
<1>2. CASE O = {} \/ C = {}
  BY <1>2 DEF SearchStep
<1>3. CASE ~(O = {} \/ C = {})
  <2>1. O \subseteq Nat
    BY <1>1 DEF OpensFrom
  <2>2. PICK o \in Nat : o = LeastOf(O)
    <3> HIDE DEF O, C
    <3>1. LeastOf(O) \in O
      BY <1>3, <2>1, LeastIn
    <3> QED BY <2>1, <3>1
  <2>3. C \subseteq (o + 1)..hi /\ C \subseteq Nat
    BY <2>2 DEF ClosesFrom
  <2>4. PICK c \in (o + 1)..hi : c = LeastOf(C)
    <3> HIDE DEF O, C
    <3>1. LeastOf(C) \in C
      BY <1>3, <2>3, LeastIn
    <3> QED BY <2>3, <3>1
  <2>5. c + 1 \in Nat /\ <<o + 1, c - 1>> \in Stretches
    BY DEF Stretches
  <2>6. Append(s.found, <<o + 1, c - 1>>) \in Seq(Stretches)
    BY <1>1, <2>5
  <2>7. [rest |-> c + 1, found |-> Append(s.found, <<o + 1, c - 1>>)] \in Searches
    BY <2>5, <2>6 DEF Searches
  <2>8. SearchStep(nodes, hi, tag, s) =
           [rest |-> c + 1, found |-> Append(s.found, <<o + 1, c - 1>>)]
    <3>1. ~(O = {} \/ C = {})
      BY <1>3
    <3>2. SearchStep(nodes, hi, tag, s) =
             IF O = {} \/ C = {} THEN s
             ELSE [rest |-> LeastOf(C) + 1, found |-> Append(s.found, <<LeastOf(O) + 1, LeastOf(C) - 1>>)]
      BY DEF SearchStep
    <3> HIDE DEF O, C
    <3> QED BY <2>2, <2>4, <3>1, <3>2
  <2> QED BY <2>7, <2>8
<1> QED BY <1>2, <1>3

\* The elements of a name are stretches of tokens.
LEMMA ElementsType ==
  ASSUME NEW nodes, Len(nodes) \in Nat, NEW lo \in Nat, NEW hi \in Nat, NEW tag
  PROVE  Elements(nodes, lo, hi, tag) \in Seq(Stretches)
<1>1. PICK n \in Nat : n = Len(nodes)
  OBVIOUS
<1>2. [rest |-> lo, found |-> <<>>] \in Searches
  <2>1. <<>> \in Seq(Stretches)
    OBVIOUS
  <2> QED BY <2>1 DEF Searches
<1>3. PICK x \in Searches : x = [rest |-> lo, found |-> <<>>]
  BY <1>2
<1> DEFINE X == [i \in 0..n |-> Searches]
           g == [i \in 1..n |-> [y \in Searches |-> SearchStep(nodes, hi, tag, y)]]
           Finds(h) == h = [i \in 0..n |-> IF i = 0 THEN [rest |-> lo, found |-> <<>>]
                                           ELSE SearchStep(nodes, hi, tag, h[i - 1])]
<1>4. Leads(g, X, n)
  <2> SUFFICES ASSUME NEW i \in 1..n, NEW y \in X[i - 1] PROVE g[i][y] \in X[i]
    BY DEF Leads
  <2>1. i - 1 \in 0..n /\ i \in 0..n
    OBVIOUS
  <2>2. y \in Searches /\ X[i] = Searches
    BY <2>1
  <2>3. g[i][y] = SearchStep(nodes, hi, tag, y)
    BY <2>2
  <2> HIDE DEF X, g
  <2> QED BY <2>2, <2>3, SearchType
<1>5. PICK h : Takes(h, g, x, n) /\ \A i \in 0..n : h[i] \in X[i]
  <2>1. x \in X[0]
    OBVIOUS
  <2> HIDE DEF X, g
  <2> QED BY <1>4, <2>1, Iteration
<1>6. \A i \in 0..n : h[i] \in Searches
  BY <1>5
<1>7. \A i \in 1..n : h[i] = SearchStep(nodes, hi, tag, h[i - 1])
  <2> SUFFICES ASSUME NEW i \in 1..n PROVE g[i][h[i - 1]] = SearchStep(nodes, hi, tag, h[i - 1])
    BY <1>5 DEF Takes
  <2>1. i - 1 \in 0..n
    OBVIOUS
  <2>2. h[i - 1] \in Searches
    BY <1>6, <2>1
  <2> QED BY <2>2
<1>8. Finds(h)
  <2>1. \A i \in 0..n : h[i] = IF i = 0 THEN x ELSE SearchStep(nodes, hi, tag, h[i - 1])
    <3> SUFFICES ASSUME NEW i \in 0..n
                 PROVE  h[i] = IF i = 0 THEN x ELSE SearchStep(nodes, hi, tag, h[i - 1])
      OBVIOUS
    <3>1. i = 0 \/ i \in 1..n
      OBVIOUS
    <3> QED BY <1>5, <1>7, <3>1 DEF Takes
  <2>2. h = [i \in 0..n |-> h[i]]
    BY <1>5 DEF Takes
  <2> QED BY <1>3, <2>1, <2>2, Zenon
<1>9. PICK search : search = CHOOSE f : Finds(f)
  OBVIOUS
<1>10. Finds(search)
  <2> HIDE DEF Finds
  <2> QED BY <1>8, <1>9
<1>11. InStep(search, h, n)
  <2>1. ASSUME NEW f, Finds(f)
        PROVE  f[0] = x /\ \A i \in 1..n : f[i] = SearchStep(nodes, hi, tag, f[i - 1])
    <3>1. 0 \in 0..n /\ \A i \in 1..n : i \in 0..n /\ i # 0
      OBVIOUS
    <3> QED BY <1>3, <2>1, <3>1
  <2> HIDE DEF Finds
  <2> QED BY <1>8, <1>10, <2>1 DEF InStep
<1>12. search[n] = h[n] /\ h[n] \in Searches
  <2>1. n \in 0..n
    OBVIOUS
  <2> QED BY <1>6, <1>11, <2>1, SameIteration
<1>13. Elements(nodes, lo, hi, tag) = search[n].found
  BY <1>1, <1>9 DEF Elements, SearchStep, OpensFrom, ClosesFrom, LeastOf
<1> QED BY <1>12, <1>13 DEF Searches

\* The lists of a text are items a reading may end with.
LEMMA ListsType ==
  ASSUME NEW nodes, Len(nodes) \in Nat, NEW tag \in {"ul", "ol"}
  PROVE  ListsIn(nodes, tag) \in Seq(EndItems)
<1>1. PICK n \in Nat : n = Len(nodes)
  OBVIOUS
<1>2. PICK lists \in Seq(Stretches) : lists = Elements(nodes, 1, n, tag)
  BY <1>1, ElementsType
<1>3. \A i \in 1..Len(lists) : lists[i][1] \in Nat /\ lists[i][2] \in Nat
  BY DEF Stretches
<1> DEFINE item(i) == Elements(nodes, lists[i][1], lists[i][2], "li")
           inlines(i) == [j \in DOMAIN item(i) |->
                            ListItem(nodes, item(i)[j][1], item(i)[j][2])]
           block(i) == [at |-> lists[i][1], blk |-> Block("list", At(0, tag), inlines(i), 0)]
<1>4. \A i \in 1..Len(lists) : inlines(i) \in Seq(Phrases)
  <2> SUFFICES ASSUME NEW i \in 1..Len(lists) PROVE inlines(i) \in Seq(Phrases)
    OBVIOUS
  <2>1. PICK items \in Seq(Stretches) : items = item(i)
    BY <1>1, <1>3, ElementsType
  <2>2. \A lo, hi : ListItem(nodes, lo, hi) \in Phrases
    BY DEF ListItem, Phrases, Words
  <2>3. [j \in DOMAIN items |-> ListItem(nodes, items[j][1], items[j][2])] \in Seq(Phrases)
    BY <2>2
  <2> HIDE DEF item
  <2> QED BY <2>1, <2>3
<1> HIDE DEF inlines
<1>5. \A i \in 1..Len(lists) : block(i) \in EndItems
  <2> SUFFICES ASSUME NEW i \in 1..Len(lists) PROVE block(i) \in EndItems
    OBVIOUS
  <2>1. At(0, tag) \in Attrs /\ "list" \in Words
    BY DEF At, Attrs, Words
  <2>2. Block("list", At(0, tag), inlines(i), 0) \in ReadBlocks
    BY <1>4, <2>1 DEF Block, ReadBlocks, AllBlocks, Spans
  <2> QED BY <1>3, <2>2 DEF EndItems
<1> HIDE DEF block
<1>6. [i \in DOMAIN lists |-> block(i)] \in Seq(EndItems)
  BY <1>5
<1>7. PICK blocks \in Seq(EndItems) : blocks = [i \in DOMAIN lists |-> block(i)]
  BY <1>6
<1>8. PICK S : ListsIn(nodes, tag) = Only(blocks, S)
  <2>1. ListsIn(nodes, tag) = Only(blocks, {e \in Range(blocks) : e.blk.in # <<>>})
    BY <1>1, <1>2, <1>7 DEF ListsIn, block, inlines
  <2> QED BY <2>1
<1>9. Only(blocks, S) \in Seq(EndItems \cap S)
  BY OnlyType
<1> QED BY <1>8, <1>9, EndItems \cap S \subseteq EndItems, SeqMonotonic

\* What the HTML reader ends with.
LEMMA HtmlEnd ==
  ASSUME text \in Texts, NEW r, Simulates(r, text.nodes)
  PROVE  HtmlResult(r).got \in Seq(EndItems)
<1>1. r \in Readers /\ NumActive(r.frames) <= r.hidden /\ Len(text.nodes) \in Nat
  BY TextType DEF Simulates
<1>2. Len(r.frames) \in 0..Len(r.frames)
  BY <1>1, ReaderFields
<1>3. PICK closed \in Readers : closed = FinishInner(r, Len(r.frames))
  BY <1>1, <1>2, FinishInnerType DEF Closed
<1>4. closed.got \in Seq(EndItems)
  BY ReaderFields, ItemsEnd
<1>5. ListsIn(text.nodes, "ul") \in Seq(EndItems) /\ ListsIn(text.nodes, "ol") \in Seq(EndItems)
  BY <1>1, ListsType
<1>6. closed.got \o ListsIn(text.nodes, "ul") \o ListsIn(text.nodes, "ol") \in Seq(EndItems)
  BY <1>4, <1>5
<1>7. HtmlResult(r).got = closed.got \o ListsIn(text.nodes, "ul") \o ListsIn(text.nodes, "ol")
  BY <1>3 DEF HtmlResult, Readers
<1> QED BY <1>6, <1>7

\* The blocks a reading ends with: active content is in lists only.
LEMMA BlocksReadType ==
  ASSUME text \in Texts, rd \in Readers, text.lang = "html" => Simulates(rd, text.nodes)
  PROVE  BlocksRead(EndOf(text.lang, rd)) \in Seq(ReadBlocks)
<1>1. text.lang \in Backends
  BY TextType
<1>2. EndOf(text.lang, rd).got \in Seq(EndItems)
  <2>1. CASE text.lang \in Readable
    BY <2>1, OtherEnd
  <2>2. CASE text.lang = "html"
    BY <2>2, HtmlEnd DEF EndOf
  <2> QED BY <1>1, <2>1, <2>2 DEF Backends
<1>3. PICK got \in Seq(EndItems) : got = EndOf(text.lang, rd).got
  BY <1>2
<1>4. \A x \in EndItems : x.blk \in ReadBlocks
  BY DEF EndItems
<1>5. \A i \in 1..Len(got) : got[i].blk \in ReadBlocks
  BY <1>4
<1> QED BY <1>3, <1>5 DEF BlocksRead

(***************************************************************************)
(* Edits.                                                                  *)
(***************************************************************************)

\* One sequence of length k behind another of length m.
Behind(ab, a, b, m, k) ==
    /\ Len(ab) = m + k
    /\ \A j \in 1..m : ab[j] = a[j]
    /\ \A j \in (m + 1)..(m + k) : ab[j] = b[j - m]

\* A concatenation is one sequence and then the other.
LEMMA JoinType ==
  ASSUME NEW T, NEW a \in Seq(T), NEW b \in Seq(T)
  PROVE  a \o b \in Seq(T) /\ Behind(a \o b, a, b, Len(a), Len(b))
<1>1. Len(a \o b) = Len(a) + Len(b) /\ a \o b \in Seq(T)
  OBVIOUS
<1>2. \A j \in 1..Len(a) : (a \o b)[j] = a[j]
  OBVIOUS
<1>3. \A j \in (Len(a) + 1)..(Len(a) + Len(b)) : (a \o b)[j] = b[j - Len(a)]
  OBVIOUS
<1> QED BY <1>1, <1>2, <1>3, Zenon DEF Behind

\* An element put into a sequence.
LEMMA InsertType ==
  ASSUME NEW T, NEW s \in Seq(T), NEW i \in 1..(Len(s) + 1), NEW x \in T
  PROVE  /\ InsertAt(s, i, x) \in Seq(T) /\ Len(InsertAt(s, i, x)) = Len(s) + 1
         /\ \A j \in 1..(Len(s) + 1) :
               InsertAt(s, i, x)[j] = IF j < i THEN s[j] ELSE IF j = i THEN x ELSE s[j - 1]
<1>1. PICK n \in Nat : n = Len(s)
  OBVIOUS
<1>2. i \in 1..(n + 1) /\ \A j \in 1..n : s[j] \in T
  BY <1>1
<1>3. /\ SubSeq(s, 1, i - 1) \in Seq(T) /\ Len(SubSeq(s, 1, i - 1)) = i - 1
      /\ \A j \in 1..(i - 1) : SubSeq(s, 1, i - 1)[j] = s[j]
  BY <1>1, <1>2
<1>4. /\ SubSeq(s, i, n) \in Seq(T) /\ Len(SubSeq(s, i, n)) = n + 1 - i
      /\ \A j \in 1..(n + 1 - i) : SubSeq(s, i, n)[j] = s[i + j - 1]
  BY <1>1, <1>2
<1>5. PICK a \in Seq(T) : a = SubSeq(s, 1, i - 1)
  BY <1>3
<1>6. PICK c \in Seq(T) : c = SubSeq(s, i, n)
  BY <1>4
<1>7. PICK b \in Seq(T) : b = <<x>> /\ Len(b) = 1 /\ b[1] = x
  <2>1. <<x>> \in Seq(T)
    OBVIOUS
  <2> QED BY <2>1
<1>8. PICK ab \in Seq(T) : ab = a \o b
  BY JoinType
<1>9. PICK all \in Seq(T) : all = ab \o c
  BY JoinType
<1>10. InsertAt(s, i, x) = all
  BY <1>1, <1>5, <1>6, <1>7, <1>8, <1>9 DEF InsertAt
<1>11. Len(a) = i - 1 /\ Len(c) = n + 1 - i
  BY <1>3, <1>4, <1>5, <1>6
<1>12. Len(ab) = i /\ ab[i] = x /\ \A j \in 1..(i - 1) : ab[j] = s[j]
  <2>1. PICK m \in Nat : m = Len(a) /\ m = i - 1
    BY <1>2, <1>11
  <2>2. Len(ab) = m + 1 /\ (\A j \in 1..m : ab[j] = a[j])
        /\ \A j \in (m + 1)..(m + 1) : ab[j] = b[j - m]
    <3>1. Behind(ab, a, b, m, 1)
      BY <1>7, <1>8, <2>1, JoinType
    <3> QED BY <3>1, Zenon DEF Behind
  <2>3. i \in (m + 1)..(m + 1) /\ i - m = 1 /\ m + 1 = i
    BY <1>2, <2>1
  <2> QED BY <1>3, <1>5, <1>7, <2>1, <2>2, <2>3
<1>13. /\ Len(all) = n + 1 /\ \A j \in 1..i : all[j] = ab[j]
       /\ \A j \in (i + 1)..(n + 1) : all[j] = c[j - i]
  <2>1. PICK k \in Nat : k = Len(c) /\ k = n + 1 - i
    BY <1>2, <1>11
  <2>2. Len(all) = i + k /\ (\A j \in 1..i : all[j] = ab[j])
        /\ \A j \in (i + 1)..(i + k) : all[j] = c[j - i]
    <3>1. Behind(all, ab, c, i, k)
      BY <1>9, <1>12, <2>1, JoinType
    <3> QED BY <3>1, Zenon DEF Behind
  <2>3. i + k = n + 1
    BY <1>2, <2>1
  <2> QED BY <2>2, <2>3
<1>14. ASSUME NEW j \in 1..(n + 1)
       PROVE  all[j] = IF j < i THEN s[j] ELSE IF j = i THEN x ELSE s[j - 1]
  <2>1. CASE j \in 1..(i - 1)
    <3>1. j \in 1..i /\ j < i
      BY <1>2, <2>1
    <3> QED BY <1>12, <1>13, <2>1, <3>1
  <2>2. CASE j = i
    <3>1. j \in 1..i /\ ~(j < i)
      BY <1>2, <2>2
    <3> QED BY <1>12, <1>13, <2>2, <3>1
  <2>3. CASE j \in (i + 1)..(n + 1)
    <3>1. j - i \in 1..(n + 1 - i) /\ i + (j - i) - 1 = j - 1 /\ ~(j < i) /\ j # i
      BY <1>2, <2>3
    <3>2. c[j - i] = s[j - 1]
      BY <1>4, <1>6, <3>1
    <3>3. all[j] = c[j - i]
      BY <1>13, <2>3
    <3> QED BY <3>1, <3>2, <3>3
  <2>4. j \in 1..(i - 1) \/ j = i \/ j \in (i + 1)..(n + 1)
    BY <1>2
  <2> QED BY <2>1, <2>2, <2>3, <2>4
<1> QED BY <1>1, <1>10, <1>13, <1>14

\* An element taken out of a sequence.
LEMMA RemoveType ==
  ASSUME NEW T, NEW s \in Seq(T), NEW i \in 1..Len(s)
  PROVE  /\ RemoveAt(s, i) \in Seq(T) /\ Len(RemoveAt(s, i)) = Len(s) - 1
         /\ \A j \in 1..(Len(s) - 1) : RemoveAt(s, i)[j] = IF j < i THEN s[j] ELSE s[j + 1]
<1>1. PICK n \in Nat : n = Len(s)
  OBVIOUS
<1>2. i \in 1..n /\ \A j \in 1..n : s[j] \in T
  BY <1>1
<1>3. /\ SubSeq(s, 1, i - 1) \in Seq(T) /\ Len(SubSeq(s, 1, i - 1)) = i - 1
      /\ \A j \in 1..(i - 1) : SubSeq(s, 1, i - 1)[j] = s[j]
  BY <1>1, <1>2
<1>4. /\ SubSeq(s, i + 1, n) \in Seq(T) /\ Len(SubSeq(s, i + 1, n)) = n - i
      /\ \A j \in 1..(n - i) : SubSeq(s, i + 1, n)[j] = s[i + j]
  BY <1>1, <1>2
<1>5. PICK a \in Seq(T) : a = SubSeq(s, 1, i - 1)
  BY <1>3
<1>6. PICK c \in Seq(T) : c = SubSeq(s, i + 1, n)
  BY <1>4
<1>7. PICK all \in Seq(T) : all = a \o c
  BY JoinType
<1>8. RemoveAt(s, i) = all
  BY <1>1, <1>5, <1>6, <1>7 DEF RemoveAt
<1>9. Len(a) = i - 1 /\ Len(c) = n - i
  BY <1>3, <1>4, <1>5, <1>6
<1>10. /\ Len(all) = n - 1 /\ \A j \in 1..(i - 1) : all[j] = a[j]
       /\ \A j \in i..(n - 1) : all[j] = c[j - (i - 1)]
  <2>1. PICK m \in Nat : m = Len(a) /\ m = i - 1
    BY <1>2, <1>9
  <2>2. PICK k \in Nat : k = Len(c) /\ k = n - i
    BY <1>2, <1>9
  <2>3. Len(all) = m + k /\ (\A j \in 1..m : all[j] = a[j])
        /\ \A j \in (m + 1)..(m + k) : all[j] = c[j - m]
    <3>1. Behind(all, a, c, m, k)
      BY <1>7, <2>1, <2>2, JoinType
    <3> QED BY <3>1, Zenon DEF Behind
  <2>4. m + k = n - 1 /\ m + 1 = i
    BY <1>2, <2>1, <2>2
  <2> QED BY <2>1, <2>3, <2>4
<1>11. ASSUME NEW j \in 1..(n - 1)
       PROVE  all[j] = IF j < i THEN s[j] ELSE s[j + 1]
  <2>1. CASE j \in 1..(i - 1)
    <3>1. j < i
      BY <1>2, <2>1
    <3> QED BY <1>3, <1>5, <1>10, <2>1, <3>1
  <2>2. CASE j \in i..(n - 1)
    <3>1. j - (i - 1) \in 1..(n - i) /\ i + (j - (i - 1)) = j + 1 /\ ~(j < i)
      BY <1>2, <2>2
    <3>2. c[j - (i - 1)] = s[j + 1]
      BY <1>4, <1>6, <3>1
    <3>3. all[j] = c[j - (i - 1)]
      BY <1>10, <2>2
    <3> QED BY <3>1, <3>2, <3>3
  <2>3. j \in 1..(i - 1) \/ j \in i..(n - 1)
    BY <1>2
  <2> QED BY <2>1, <2>2, <2>3
<1> QED BY <1>1, <1>8, <1>10, <1>11

\* A block whose text was replaced, and a block with a dirty span.
Retext(blk, j, c) == [blk EXCEPT !.in[j].c = c]

\* Only texts change, and replacing back restores the block.
LEMMA RetextType ==
  ASSUME NEW blk \in AllBlocks, NEW j \in DOMAIN blk.in, NEW c \in Words
  PROVE  /\ Retext(blk, j, c) \in AllBlocks
         /\ Retext(blk, j, c).k = blk.k /\ Retext(blk, j, c).sp = blk.sp
         /\ DOMAIN Retext(blk, j, c).in = DOMAIN blk.in
         /\ Retext(blk, j, c).in[j].k = blk.in[j].k /\ Retext(blk, j, c).in[j].c = c
         /\ Retext(Retext(blk, j, c), j, blk.in[j].c) = blk
<1>1. blk.in \in Seq(Phrases) /\ blk.in[j] \in Phrases /\ j \in 1..Len(blk.in)
  BY DEF AllBlocks
<1>2. PICK x \in Phrases : x = [blk.in[j] EXCEPT !.c = c]
  BY <1>1 DEF Phrases
<1>3. [blk.in EXCEPT ![j] = x] \in Seq(Phrases)
  BY <1>1, ExceptSeq
<1>4. PICK in \in Seq(Phrases) : in = [blk.in EXCEPT ![j] = x]
  BY <1>3
<1>5. Retext(blk, j, c) = [blk EXCEPT !.in = in]
  BY <1>2, <1>4 DEF Retext
<1>6. PICK new \in AllBlocks : new = [blk EXCEPT !.in = in]
  BY DEF AllBlocks
<1>7. /\ new.k = blk.k /\ new.sp = blk.sp /\ new.in = in /\ new.a = blk.a /\ new.id = blk.id
      /\ blk = [k |-> blk.k, a |-> blk.a, in |-> blk.in, id |-> blk.id, sp |-> blk.sp]
  BY <1>6 DEF AllBlocks
<1>8. DOMAIN in = DOMAIN blk.in /\ in[j] = x
  BY <1>1, <1>4
<1>9. x.c = c /\ x.k = blk.in[j].k /\ [x EXCEPT !.c = blk.in[j].c] = blk.in[j]
  BY <1>1, <1>2 DEF Phrases
<1>10. [in EXCEPT ![j] = blk.in[j]] = blk.in
  BY <1>1, <1>4
<1>11. Retext(new, j, blk.in[j].c) = blk
  <2>1. Retext(new, j, blk.in[j].c) = [new EXCEPT !.in = [in EXCEPT ![j] = [x EXCEPT !.c = blk.in[j].c]]]
    BY <1>7, <1>8 DEF Retext
  <2>2. Retext(new, j, blk.in[j].c) = [new EXCEPT !.in = blk.in]
    BY <2>1, <1>9, <1>10
  <2> QED BY <2>2, <1>6, <1>7 DEF AllBlocks
<1> QED BY <1>5, <1>6, <1>7, <1>8, <1>9, <1>11

\* A block with a dirty span differs in nothing else.
LEMMA DirtyType ==
  ASSUME NEW blk \in AllBlocks
  PROVE  /\ Dirty(blk) \in AllBlocks /\ Dirty(blk).sp # "Preserved"
         /\ Dirty(blk).k = blk.k /\ Dirty(blk).in = blk.in
         /\ Dirty(Dirty(blk)) = Dirty(blk)
         /\ Dirty(blk) # blk => blk.sp = "Preserved"
         /\ \A j \in DOMAIN blk.in : \A c \in Words :
               Dirty(Retext(Dirty(blk), j, c)) = Dirty(Retext(blk, j, c))
<1>1. /\ blk.sp \in Spans
      /\ blk = [k |-> blk.k, a |-> blk.a, in |-> blk.in, id |-> blk.id, sp |-> blk.sp]
  BY DEF AllBlocks
<1>2. PICK sp \in Spans : sp = (IF blk.sp = "none" THEN "none" ELSE "Dirty") /\ sp # "Preserved"
  BY DEF Spans
<1>3. Dirty(blk) = [blk EXCEPT !.sp = sp]
  BY <1>2 DEF Dirty
<1>4. PICK new \in AllBlocks : new = [blk EXCEPT !.sp = sp]
  BY DEF AllBlocks
<1>5. new.k = blk.k /\ new.in = blk.in /\ new.sp = sp /\ new.a = blk.a /\ new.id = blk.id
  BY <1>4 DEF AllBlocks
<1>6. Dirty(new) = new
  <2>1. (IF sp = "none" THEN sp ELSE "Dirty") = sp
    BY <1>2
  <2>2. Dirty(new) = [new EXCEPT !.sp = sp]
    BY <1>5, <2>1 DEF Dirty
  <2> QED BY <2>2, <1>5 DEF AllBlocks
<1>7. new # blk => blk.sp = "Preserved"
  BY <1>1, <1>2, <1>4 DEF Spans
<1>8. ASSUME NEW j \in DOMAIN blk.in, NEW c \in Words
      PROVE  Dirty(Retext(new, j, c)) = Dirty(Retext(blk, j, c))
  <2>1. PICK in : in = [blk.in EXCEPT ![j].c = c]
    OBVIOUS
  <2>2. Retext(new, j, c) = [new EXCEPT !.in = in] /\ Retext(blk, j, c) = [blk EXCEPT !.in = in]
    BY <1>5, <2>1 DEF Retext
  <2>3. Retext(new, j, c) = [k |-> blk.k, a |-> blk.a, in |-> in, id |-> blk.id, sp |-> sp]
    BY <1>1, <1>4, <2>2
  <2>4. Retext(blk, j, c) = [k |-> blk.k, a |-> blk.a, in |-> in, id |-> blk.id, sp |-> blk.sp]
    BY <1>1, <2>2
  <2>5. Dirty(Retext(blk, j, c)) = [k |-> blk.k, a |-> blk.a, in |-> in, id |-> blk.id, sp |-> sp]
    BY <1>2, <2>4 DEF Dirty
  <2>6. Dirty(Retext(new, j, c)) = [k |-> blk.k, a |-> blk.a, in |-> in, id |-> blk.id, sp |-> sp]
    BY <1>2, <2>3 DEF Dirty
  <2> QED BY <2>5, <2>6
<1> QED BY <1>2, <1>3, <1>4, <1>5, <1>6, <1>7, <1>8

\* The edits of documents with blocks in T.
EditOf(e, T) ==
    \/ \E x, y : e = [op |-> "title", old |-> x, new |-> y]
    \/ \E i \in Nat \ {0}, x \in T : e = [op |-> "insert", at |-> i, new |-> x]
    \/ \E i \in Nat \ {0}, x \in T, y \in T : e = [op |-> "replace", at |-> i, old |-> x, new |-> y]
    \/ \E i \in Nat \ {0}, x \in T : e = [op |-> "delete", at |-> i, old |-> x]
    \/ \E i \in Nat \ {0}, j \in Nat, c \in Words, d \in Words :
          e = [op |-> "text", at |-> i, path |-> j, old |-> c, new |-> d]

\* An author's paragraph is a block without a span.
LEMMA FreshType == Fresh \in AllBlocks /\ Fresh.sp = "none"
<1>1. [k |-> "text", c |-> "plain"] \in Phrases
  BY DEF Phrases, Words
<1>2. PICK in \in Seq(Phrases) : in = <<[k |-> "text", c |-> "plain"]>>
  <2>1. <<[k |-> "text", c |-> "plain"]>> \in Seq(Phrases)
    BY <1>1
  <2> QED BY <2>1
<1>3. PICK a \in Attrs : a = At(0, NoWord)
  <2>1. At(0, NoWord) \in Attrs
    BY DEF At, Attrs, Words
  <2> QED BY <2>1
<1>4. Fresh = [k |-> "para", a |-> a, in |-> in, id |-> 90, sp |-> "none"]
  BY <1>2, <1>3 DEF Fresh, Block
<1>5. "para" \in Words /\ "none" \in Spans
  BY DEF Words, Spans
<1> QED BY <1>4, <1>5 DEF AllBlocks

\* What authors prepare are edits of the documents they see.
LEMMA EditsType ==
  ASSUME NEW T, T \subseteq AllBlocks, Fresh \in T, NEW d, d.blocks \in Seq(T), NEW e \in EditsOf(d)
  PROVE  EditOf(e, T)
<1> DEFINE s == d.blocks
<1>1. /\ DOMAIN s = 1..Len(s) /\ Len(s) \in Nat
      /\ \A i \in DOMAIN s : i \in Nat \ {0} /\ s[i] \in T
      /\ Range(s) \subseteq T
  BY DEF Range
<1>2. PICK other : other = [c \in Words |-> CASE c = "plain" -> "caret"
                                             [] c = "target" -> "label"
                                             [] OTHER -> "plain"]
  OBVIOUS
<1>3. \A c \in Words : other[c] \in Words
  BY <1>2 DEF Words
<1>4. \A i \in DOMAIN s : \A j : \A c \in TextOf(s[i], j) : c \in Words
  <2> SUFFICES ASSUME NEW i \in DOMAIN s, NEW j, NEW c \in TextOf(s[i], j) PROVE c \in Words
    OBVIOUS
  <2>1. j \in DOMAIN s[i].in /\ c = s[i].in[j].c
    BY DEF TextOf
  <2>2. s[i].in \in Seq(Phrases)
    BY <1>1 DEF AllBlocks
  <2>3. s[i].in[j] \in Phrases
    BY <2>1, <2>2
  <2> QED BY <2>1, <2>3 DEF Phrases
<1>5. \A i \in DOMAIN s : \A j \in DOMAIN s[i].in : j \in Nat
  <2> SUFFICES ASSUME NEW i \in DOMAIN s PROVE \A j \in DOMAIN s[i].in : j \in Nat
    OBVIOUS
  <2>1. s[i].in \in Seq(Phrases)
    BY <1>1 DEF AllBlocks
  <2> QED BY <2>1
<1>6. CASE e \in {[op |-> "title", old |-> d.title, new |-> 91]}
  BY <1>6 DEF EditOf
<1>7. CASE e \in {[op |-> "insert", at |-> i, new |-> blk] :
                     i \in 1..(Len(s) + 1), blk \in {Fresh} \cup Range(s)}
  <2>1. PICK i \in 1..(Len(s) + 1), blk \in {Fresh} \cup Range(s) :
                e = [op |-> "insert", at |-> i, new |-> blk]
    BY <1>7
  <2>2. i \in Nat \ {0} /\ blk \in T
    BY <1>1
  <2> QED BY <2>1, <2>2 DEF EditOf
<1>8. CASE e \in {[op |-> "replace", at |-> i, old |-> s[i], new |-> Fresh] : i \in DOMAIN s}
  BY <1>1, <1>8 DEF EditOf
<1>9. CASE e \in {[op |-> "delete", at |-> i, old |-> s[i]] : i \in DOMAIN s}
  BY <1>1, <1>9 DEF EditOf
<1>10. CASE \E i \in DOMAIN s : \E j \in DOMAIN s[i].in : \E c \in TextOf(s[i], j) :
               e = [op |-> "text", at |-> i, path |-> j, old |-> c, new |-> other[c]]
  <2>1. PICK i \in DOMAIN s : \E j \in DOMAIN s[i].in : \E c \in TextOf(s[i], j) :
               e = [op |-> "text", at |-> i, path |-> j, old |-> c, new |-> other[c]]
    BY <1>10
  <2>a. PICK j \in DOMAIN s[i].in : \E c \in TextOf(s[i], j) :
               e = [op |-> "text", at |-> i, path |-> j, old |-> c, new |-> other[c]]
    BY <2>1
  <2>b. PICK c \in TextOf(s[i], j) :
               e = [op |-> "text", at |-> i, path |-> j, old |-> c, new |-> other[c]]
    BY <2>a
  <2>2. i \in Nat \ {0} /\ j \in Nat /\ c \in Words /\ other[c] \in Words
    BY <1>1, <1>3, <1>4, <1>5, <2>b
  <2> QED BY <2>b, <2>2 DEF EditOf
<1> HIDE DEF s
<1>11. CASE e \in UNION {UNION {{[op |-> "text", at |-> i, path |-> j, old |-> c,
                                  new |-> CASE c = "plain" -> "caret" [] c = "target" -> "label"
                                            [] OTHER -> "plain"] :
                                   c \in TextOf(s[i], j)} :
                                j \in DOMAIN s[i].in} : i \in DOMAIN s}
  <2>1. PICK i \in DOMAIN s : \E j \in DOMAIN s[i].in : \E c \in TextOf(s[i], j) :
                e = [op |-> "text", at |-> i, path |-> j, old |-> c,
                    new |-> CASE c = "plain" -> "caret" [] c = "target" -> "label"
                              [] OTHER -> "plain"]
    BY <1>11
  <2>a. PICK j \in DOMAIN s[i].in : \E c \in TextOf(s[i], j) :
                e = [op |-> "text", at |-> i, path |-> j, old |-> c,
                    new |-> CASE c = "plain" -> "caret" [] c = "target" -> "label"
                              [] OTHER -> "plain"]
    BY <2>1
  <2>b. PICK c \in TextOf(s[i], j) :
                e = [op |-> "text", at |-> i, path |-> j, old |-> c,
                    new |-> CASE c = "plain" -> "caret" [] c = "target" -> "label"
                              [] OTHER -> "plain"]
    BY <2>a
  <2>2. c \in Words
    BY <1>4, <2>b
  <2>3. e = [op |-> "text", at |-> i, path |-> j, old |-> c, new |-> other[c]]
    BY <1>2, <2>b, <2>2
  <2> QED BY <1>10, <2>3
<1> QED BY <1>6, <1>7, <1>8, <1>9, <1>11 DEF EditsOf, s

\* A document with blocks in T, and what an edit makes of a title and of blocks.
DocOf(d, T) ==
    d = [title |-> d.title, blocks |-> d.blocks, source |-> d.source] /\ d.blocks \in Seq(T)

NewTitle(t, e) == IF e.op = "title" THEN e.new ELSE t

NewBlocks(s, e) ==
    CASE e.op = "insert"  -> InsertAt(s, e.at, e.new)
      [] e.op = "replace" -> [s EXCEPT ![e.at] = e.new]
      [] e.op = "delete"  -> RemoveAt(s, e.at)
      [] e.op = "text"    -> [s EXCEPT ![e.at] = Dirty(Retext(s[e.at], e.path, e.new))]
      [] OTHER -> s

\* The edits one by one.
LEMMA EditKinds ==
  ASSUME NEW e, NEW T, EditOf(e, T)
  PROVE  \/ e.op = "title" /\ e = [op |-> "title", old |-> e.old, new |-> e.new]
         \/ /\ e.op = "insert" /\ e = [op |-> "insert", at |-> e.at, new |-> e.new]
            /\ e.at \in Nat \ {0} /\ e.new \in T
         \/ /\ e.op = "replace" /\ e = [op |-> "replace", at |-> e.at, old |-> e.old, new |-> e.new]
            /\ e.at \in Nat \ {0} /\ e.old \in T /\ e.new \in T
         \/ /\ e.op = "delete" /\ e = [op |-> "delete", at |-> e.at, old |-> e.old]
            /\ e.at \in Nat \ {0} /\ e.old \in T
         \/ /\ e.op = "text"
            /\ e = [op |-> "text", at |-> e.at, path |-> e.path, old |-> e.old, new |-> e.new]
            /\ e.at \in Nat \ {0} /\ e.path \in Nat /\ e.old \in Words /\ e.new \in Words
<1>1. CASE \E x, y : e = [op |-> "title", old |-> x, new |-> y]
  BY <1>1
<1>2. CASE \E i \in Nat \ {0}, x \in T : e = [op |-> "insert", at |-> i, new |-> x]
  BY <1>2
<1>3. CASE \E i \in Nat \ {0}, x \in T, y \in T :
              e = [op |-> "replace", at |-> i, old |-> x, new |-> y]
  BY <1>3
<1>4. CASE \E i \in Nat \ {0}, x \in T : e = [op |-> "delete", at |-> i, old |-> x]
  BY <1>4
<1>5. CASE \E i \in Nat \ {0}, j \in Nat, c \in Words, d \in Words :
              e = [op |-> "text", at |-> i, path |-> j, old |-> c, new |-> d]
  <2> HIDE DEF Words
  <2> QED BY <1>5
<1> QED BY <1>1, <1>2, <1>3, <1>4, <1>5, Zenon DEF EditOf

\* Applying an edit changes title and blocks, and takes the source away.
LEMMA AppliedFields ==
  ASSUME NEW T, NEW d, DocOf(d, T), NEW e, EditOf(e, T)
  PROVE  Applied(d, e) = [title |-> NewTitle(d.title, e), blocks |-> NewBlocks(d.blocks, e),
                          source |-> NoSource]
<1>1. d = [title |-> d.title, blocks |-> d.blocks, source |-> d.source]
  BY DEF DocOf
<1>2. PICK t, s, src : d = [title |-> t, blocks |-> s, source |-> src]
                       /\ t = d.title /\ s = d.blocks
  BY <1>1
<1>3. ASSUME NEW x, NEW y
      PROVE  [[[d EXCEPT !.title = x] EXCEPT !.blocks = y] EXCEPT !.source = NoSource]
                = [title |-> x, blocks |-> y, source |-> NoSource]
  <2>1. d = [title |-> t, blocks |-> s, source |-> src]
    BY <1>2
  <2>2. PICK a : a = [d EXCEPT !.title = x]
    OBVIOUS
  <2>3. a = [title |-> x, blocks |-> s, source |-> src]
    BY <2>1, <2>2
  <2>4. PICK b : b = [a EXCEPT !.blocks = y]
    OBVIOUS
  <2>5. b = [title |-> x, blocks |-> y, source |-> src]
    BY <2>3, <2>4
  <2>6. [b EXCEPT !.source = NoSource] = [title |-> x, blocks |-> y, source |-> NoSource]
    BY <2>5
  <2> QED BY <2>2, <2>4, <2>6
<1>4. CASE e.op = "title"
  <2>1. Applied(d, e) = [[d EXCEPT !.title = e.new] EXCEPT !.source = NoSource]
    BY <1>4 DEF Applied
  <2>2. NewBlocks(s, e) = s /\ NewTitle(t, e) = e.new
    BY <1>4 DEF NewBlocks, NewTitle
  <2> QED BY <1>2, <2>1, <2>2
<1>5. CASE e.op = "insert"
  <2>1. Applied(d, e) = [[d EXCEPT !.blocks = InsertAt(@, e.at, e.new)] EXCEPT !.source = NoSource]
    BY <1>5 DEF Applied
  <2>2. NewBlocks(s, e) = InsertAt(s, e.at, e.new) /\ NewTitle(t, e) = t
    BY <1>5 DEF NewBlocks, NewTitle
  <2>3. PICK y : y = InsertAt(s, e.at, e.new)
    OBVIOUS
  <2> QED BY <1>2, <2>1, <2>2, <2>3
<1>6. CASE e.op = "replace"
  <2>1. Applied(d, e) = [[d EXCEPT !.blocks[e.at] = e.new] EXCEPT !.source = NoSource]
    BY <1>6 DEF Applied
  <2>2. NewBlocks(s, e) = [s EXCEPT ![e.at] = e.new] /\ NewTitle(t, e) = t
    BY <1>6 DEF NewBlocks, NewTitle
  <2> QED BY <1>2, <2>1, <2>2
<1>7. CASE e.op = "delete"
  <2>1. Applied(d, e) = [[d EXCEPT !.blocks = RemoveAt(@, e.at)] EXCEPT !.source = NoSource]
    BY <1>7 DEF Applied
  <2>2. NewBlocks(s, e) = RemoveAt(s, e.at) /\ NewTitle(t, e) = t
    BY <1>7 DEF NewBlocks, NewTitle
  <2>3. PICK y : y = RemoveAt(s, e.at)
    OBVIOUS
  <2> QED BY <1>2, <2>1, <2>2, <2>3
<1>8. CASE e.op = "text"
  <2>1. Applied(d, e) = [[d EXCEPT !.blocks[e.at] = Dirty(Retext(d.blocks[e.at], e.path, e.new))]
                            EXCEPT !.source = NoSource]
    BY <1>8 DEF Applied, Retext
  <2>2. NewBlocks(s, e) = [s EXCEPT ![e.at] = Dirty(Retext(s[e.at], e.path, e.new))]
         /\ NewTitle(t, e) = t
    BY <1>8 DEF NewBlocks, NewTitle
  <2>3. PICK y : y = Dirty(Retext(s[e.at], e.path, e.new))
    OBVIOUS
  <2> QED BY <1>2, <2>1, <2>2, <2>3
<1>9. e.op \in {"title", "insert", "replace", "delete", "text"}
  BY EditKinds, Zenon
<1> QED BY <1>4, <1>5, <1>6, <1>7, <1>8, <1>9

\* What can be edited of a block is one of its inlines.
LEMMA TextOfType ==
  ASSUME NEW blk \in AllBlocks, NEW j, NEW c
  PROVE  c \in TextOf(blk, j) <=>
            /\ blk.k \in EditableBlocks /\ j \in DOMAIN blk.in
            /\ blk.in[j].k \in EditableInlines /\ c = blk.in[j].c
BY DEF TextOf

\* An edit that finds what it expects turns blocks into blocks, those with a
\* preserved span being old ones or its own.
LEMMA NewBlocksType ==
  ASSUME NEW T, T \subseteq AllBlocks, \A x \in AllBlocks : x.sp # "Preserved" => x \in T,
         NEW d, DocOf(d, T), NEW e, EditOf(e, T), Expected(d, e)
  PROVE  NewBlocks(d.blocks, e) \in Seq(T)
<1>1. PICK s \in Seq(T) : s = d.blocks
  BY DEF DocOf
<1>2. CASE e.op = "title"
  BY <1>1, <1>2 DEF NewBlocks
<1>3. CASE e.op = "insert"
  <2>1. e.at \in Nat \ {0} /\ e.new \in T
    BY <1>3, EditKinds, Zenon
  <2>2. e.at \in 1..(Len(s) + 1)
    BY <1>1, <1>3, <2>1 DEF Expected
  <2>3. NewBlocks(s, e) = InsertAt(s, e.at, e.new)
    BY <1>3 DEF NewBlocks
  <2> QED BY <1>1, <2>1, <2>2, <2>3, InsertType
<1>4. CASE e.op = "replace"
  <2>1. e.at \in 1..Len(s) /\ e.new \in T
    <3>1. e.new \in T
      BY <1>4, EditKinds, Zenon
    <3>2. e.at \in DOMAIN s
      BY <1>1, <1>4 DEF Expected
    <3> QED BY <3>1, <3>2
  <2>2. NewBlocks(s, e) = [s EXCEPT ![e.at] = e.new]
    BY <1>4 DEF NewBlocks
  <2> QED BY <1>1, <2>1, <2>2, ExceptSeq
<1>5. CASE e.op = "delete"
  <2>1. e.at \in 1..Len(s)
    BY <1>1, <1>5 DEF Expected
  <2>2. NewBlocks(s, e) = RemoveAt(s, e.at)
    BY <1>5 DEF NewBlocks
  <2> QED BY <1>1, <2>1, <2>2, RemoveType
<1>6. CASE e.op = "text"
  <2>1. e.at \in 1..Len(s) /\ e.old \in TextOf(s[e.at], e.path)
    BY <1>1, <1>6 DEF Expected
  <2>2. s[e.at] \in AllBlocks
    BY <2>1
  <2>3. e.path \in DOMAIN s[e.at].in
    BY <2>1, <2>2, TextOfType
  <2>4. e.new \in Words
    BY <1>6, EditKinds, Zenon
  <2>5. Retext(s[e.at], e.path, e.new) \in AllBlocks
    BY <2>2, <2>3, <2>4, RetextType
  <2>6. Dirty(Retext(s[e.at], e.path, e.new)) \in T
    BY <2>5, DirtyType
  <2>7. NewBlocks(s, e) = [s EXCEPT ![e.at] = Dirty(Retext(s[e.at], e.path, e.new))]
    BY <1>6 DEF NewBlocks
  <2> QED BY <1>1, <2>1, <2>6, <2>7, ExceptSeq
<1>7. e.op \in {"title", "insert", "replace", "delete", "text"}
  BY EditKinds, Zenon
<1> QED BY <1>2, <1>3, <1>4, <1>5, <1>6, <1>7

\* The inverse of an edit is one.
LEMMA InverseType ==
  ASSUME NEW T, NEW e, EditOf(e, T)
  PROVE  /\ EditOf(InverseEdit(e), T)
         /\ e.op = "insert" =>
               InverseEdit(e) = [op |-> "delete", at |-> e.at, old |-> e.new]
         /\ e.op = "delete" =>
               InverseEdit(e) = [op |-> "insert", at |-> e.at, new |-> e.old]
         /\ e.op = "title" =>
               InverseEdit(e) = [op |-> "title", old |-> e.new, new |-> e.old]
         /\ e.op = "replace" =>
               InverseEdit(e) = [op |-> "replace", at |-> e.at, old |-> e.new, new |-> e.old]
         /\ e.op = "text" =>
               InverseEdit(e) =
                  [op |-> "text", at |-> e.at, path |-> e.path, old |-> e.new, new |-> e.old]
<1>1. CASE e.op = "insert"
  <2>1. InverseEdit(e) = [op |-> "delete", at |-> e.at, old |-> e.new]
    BY <1>1 DEF InverseEdit
  <2>2. e.at \in Nat \ {0} /\ e.new \in T
    BY <1>1, EditKinds, Zenon
  <2> QED BY <1>1, <2>1, <2>2 DEF EditOf
<1>2. CASE e.op = "delete"
  <2>1. InverseEdit(e) = [op |-> "insert", at |-> e.at, new |-> e.old]
    BY <1>2 DEF InverseEdit
  <2>2. e.at \in Nat \ {0} /\ e.old \in T
    BY <1>2, EditKinds, Zenon
  <2> QED BY <1>2, <2>1, <2>2 DEF EditOf
<1>3. CASE e.op = "title"
  <2>1. PICK x, y : e = [op |-> "title", old |-> x, new |-> y]
    BY <1>3, EditKinds, Zenon
  <2>2. InverseEdit(e) = [op |-> "title", old |-> y, new |-> x]
    BY <2>1 DEF InverseEdit
  <2> QED BY <1>3, <2>1, <2>2 DEF EditOf
<1>4. CASE e.op = "replace"
  <2>1. /\ e = [op |-> "replace", at |-> e.at, old |-> e.old, new |-> e.new]
        /\ e.at \in Nat \ {0} /\ e.old \in T /\ e.new \in T
    BY <1>4, EditKinds, Zenon
  <2>2. PICK i \in Nat \ {0}, x \in T, y \in T : e = [op |-> "replace", at |-> i, old |-> x, new |-> y]
    BY <2>1
  <2>3. InverseEdit(e) = [op |-> "replace", at |-> i, old |-> y, new |-> x]
    BY <2>2 DEF InverseEdit
  <2> QED BY <1>4, <2>2, <2>3 DEF EditOf
<1>5. CASE e.op = "text"
  <2>1. /\ e = [op |-> "text", at |-> e.at, path |-> e.path, old |-> e.old, new |-> e.new]
        /\ e.at \in Nat \ {0} /\ e.path \in Nat /\ e.old \in Words /\ e.new \in Words
    BY <1>5, EditKinds, Zenon
  <2>2. PICK i \in Nat \ {0}, j \in Nat, x \in Words, y \in Words :
               e = [op |-> "text", at |-> i, path |-> j, old |-> x, new |-> y]
    BY <2>1
  <2>3. InverseEdit(e) = [op |-> "text", at |-> i, path |-> j, old |-> y, new |-> x]
    BY <2>2 DEF InverseEdit
  <2> QED BY <1>5, <2>2, <2>3 DEF EditOf
<1>6. e.op \in {"title", "insert", "replace", "delete", "text"}
  BY EditKinds, Zenon
<1> QED BY <1>1, <1>2, <1>3, <1>4, <1>5, <1>6

(***************************************************************************)
(* Taking an edit back.                                                    *)
(***************************************************************************)

\* The same blocks but for spans that were made dirty.
Same(s, t) ==
    Len(s) = Len(t) /\ \A j \in 1..Len(t) : s[j] = t[j] \/ s[j] = Dirty(t[j])

\* The document c is what the edit e made of b, but for dirty spans.
Linked(b, e, c) ==
    /\ Expected(b, e)
    /\ c.title = NewTitle(b.title, e)
    /\ Same(c.blocks, NewBlocks(b.blocks, e))

\* Dirty spans stay dirty.
LEMMA SameTransitive ==
  ASSUME NEW s, NEW t \in Seq(AllBlocks), NEW u \in Seq(AllBlocks), Same(s, t), Same(t, u)
  PROVE  Same(s, u)
<1>1. Len(s) = Len(u) /\ Len(t) = Len(u)
  BY DEF Same
<1>2. ASSUME NEW j \in 1..Len(u) PROVE s[j] = u[j] \/ s[j] = Dirty(u[j])
  <2>1. (s[j] = t[j] \/ s[j] = Dirty(t[j])) /\ (t[j] = u[j] \/ t[j] = Dirty(u[j]))
    BY <1>1 DEF Same
  <2>2. Dirty(Dirty(u[j])) = Dirty(u[j])
    BY DirtyType
  <2> QED BY <2>1, <2>2
<1> QED BY <1>1, <1>2 DEF Same

\* Without their spans they are the same.
LEMMA SamePlain ==
  ASSUME NEW s \in Seq(AllBlocks), NEW t \in Seq(AllBlocks), Same(s, t)
  PROVE  Plain(s) = Plain(t)
<1> DEFINE bare(x) == [x EXCEPT !.sp = "none", !.in = IF x.k = "code" THEN <<>> ELSE @]
<1>1. ASSUME NEW x \in AllBlocks PROVE bare(Dirty(x)) = bare(x)
  <2>1. PICK sp : sp = IF x.sp = "none" THEN "none" ELSE "Dirty"
    OBVIOUS
  <2>2. x = [k |-> x.k, a |-> x.a, in |-> x.in, id |-> x.id, sp |-> x.sp]
    BY DEF AllBlocks
  <2>3. Dirty(x) = [k |-> x.k, a |-> x.a, in |-> x.in, id |-> x.id, sp |-> sp]
    BY <2>1, <2>2 DEF Dirty
  <2>4. ASSUME NEW k, NEW a, NEW in, NEW id, NEW s1, NEW s2
        PROVE  bare([k |-> k, a |-> a, in |-> in, id |-> id, sp |-> s1])
                  = bare([k |-> k, a |-> a, in |-> in, id |-> id, sp |-> s2])
    <3>1. PICK new : new = IF k = "code" THEN <<>> ELSE in
      OBVIOUS
    <3>2. ASSUME NEW s3
          PROVE  bare([k |-> k, a |-> a, in |-> in, id |-> id, sp |-> s3])
                    = [k |-> k, a |-> a, in |-> new, id |-> id, sp |-> "none"]
      <4>1. PICK y : y = [k |-> k, a |-> a, in |-> in, id |-> id, sp |-> s3]
        OBVIOUS
      <4>2. y.k = k /\ y.in = in
        BY <4>1
      <4>3. bare(y) = [y EXCEPT !.sp = "none", !.in = new]
        BY <3>1, <4>2
      <4>4. [y EXCEPT !.sp = "none", !.in = new]
               = [k |-> k, a |-> a, in |-> new, id |-> id, sp |-> "none"]
        <5>1. PICK none : none = "none"
          OBVIOUS
        <5>2. PICK z : z = [y EXCEPT !.sp = none]
          OBVIOUS
        <5>3. z = [k |-> k, a |-> a, in |-> in, id |-> id, sp |-> none]
          BY <4>1, <5>2
        <5>4. [z EXCEPT !.in = new] = [k |-> k, a |-> a, in |-> new, id |-> id, sp |-> none]
          BY <5>3
        <5>5. [y EXCEPT !.sp = none, !.in = new] = [z EXCEPT !.in = new]
          BY <5>2
        <5> HIDE DEF bare
        <5> QED BY <5>1, <5>4, <5>5
      <4> HIDE DEF bare
      <4> QED BY <4>1, <4>3, <4>4
    <3> HIDE DEF bare
    <3> QED BY <3>2
  <2> HIDE DEF bare
  <2> QED BY <2>2, <2>3, <2>4
<1>2. DOMAIN s = DOMAIN t /\ DOMAIN t = 1..Len(t)
  BY DEF Same
<1>3. \A j \in DOMAIN t : bare(s[j]) = bare(t[j])
  <2> SUFFICES ASSUME NEW j \in DOMAIN t PROVE bare(s[j]) = bare(t[j])
    OBVIOUS
  <2>1. t[j] \in AllBlocks /\ (s[j] = t[j] \/ s[j] = Dirty(t[j]))
    BY <1>2 DEF Same
  <2>2. bare(Dirty(t[j])) = bare(t[j])
    BY <1>1, <2>1
  <2> HIDE DEF bare
  <2> QED BY <2>1, <2>2
<1>4. Plain(s) = [j \in DOMAIN s |-> bare(s[j])] /\ Plain(t) = [j \in DOMAIN t |-> bare(t[j])]
  BY DEF Plain
<1> HIDE DEF bare
<1> QED BY <1>2, <1>3, <1>4

\* An inverse that finds what it expects restores the document as it was
\* before the edit.
LEMMA UndoBlocks ==
  ASSUME NEW b, DocOf(b, AllBlocks), NEW c, DocOf(c, AllBlocks), NEW e, EditOf(e, AllBlocks),
         Linked(b, e, c), Expected(c, InverseEdit(e))
  PROVE  /\ NewTitle(c.title, InverseEdit(e)) = b.title
         /\ Same(NewBlocks(c.blocks, InverseEdit(e)), b.blocks)
<1> DEFINE u == InverseEdit(e)
<1>1. PICK s \in Seq(AllBlocks) : s = b.blocks
  BY DEF DocOf
<1>2. PICK t \in Seq(AllBlocks) : t = c.blocks
  BY DEF DocOf
<1>3. PICK n \in Nat : n = Len(s)
  OBVIOUS
<1>4. /\ Expected(b, e) /\ c.title = NewTitle(b.title, e) /\ Same(t, NewBlocks(s, e))
  BY <1>1, <1>2 DEF Linked
<1>5. \A x : Same(x, x)
  BY DEF Same
<1>6. CASE e.op = "title"
  <2>1. u = [op |-> "title", old |-> e.new, new |-> e.old]
    BY <1>6, InverseType, Zenon
  <2>2. u.op = "title" /\ u.new = e.old
    BY <2>1
  <2>3. NewTitle(c.title, u) = e.old /\ e.old = b.title
    BY <1>4, <1>6, <2>2 DEF NewTitle, Expected
  <2>4. NewBlocks(t, u) = t /\ NewBlocks(s, e) = s
    BY <1>6, <2>2 DEF NewBlocks
  <2> QED BY <1>1, <1>2, <1>4, <2>3, <2>4
<1>7. ASSUME e.op # "title" PROVE NewTitle(c.title, u) = b.title
  <2>1. u.op # "title"
    <3>1. e.op \in {"insert", "replace", "delete", "text"}
      BY <1>7, EditKinds, Zenon
    <3>2. /\ e.op = "insert" => u = [op |-> "delete", at |-> e.at, old |-> e.new]
          /\ e.op = "delete" => u = [op |-> "insert", at |-> e.at, new |-> e.old]
          /\ e.op = "replace" => u = [op |-> "replace", at |-> e.at, old |-> e.new, new |-> e.old]
          /\ e.op = "text" =>
                u = [op |-> "text", at |-> e.at, path |-> e.path, old |-> e.new, new |-> e.old]
      BY InverseType, Zenon
    <3> HIDE DEF u
    <3>3. u.op \in {"insert", "replace", "delete", "text"}
      BY <3>1, <3>2
    <3> QED BY <3>3
  <2> QED BY <1>4, <1>7, <2>1 DEF NewTitle
<1>8. CASE e.op = "insert"
  <2>1. PICK i \in Nat \ {0}, x \in AllBlocks : i = e.at /\ x = e.new
    BY <1>8, EditKinds, Zenon
  <2>2. i \in 1..(n + 1) /\ NewBlocks(s, e) = InsertAt(s, i, x)
    BY <1>1, <1>3, <1>4, <1>8, <2>1 DEF Expected, NewBlocks
  <2>3. u = [op |-> "delete", at |-> i, old |-> x]
    BY <1>8, <2>1, InverseType, Zenon
  <2>4. NewBlocks(t, u) = RemoveAt(t, i)
    BY <2>3 DEF NewBlocks
  <2>5. /\ Len(t) = n + 1
        /\ \A j \in 1..(n + 1) : LET y == IF j < i THEN s[j] ELSE IF j = i THEN x ELSE s[j - 1]
                                 IN t[j] = y \/ t[j] = Dirty(y)
    <3>1. i \in 1..(Len(s) + 1)
      BY <1>3, <2>2
    <3>2. PICK new : new = InsertAt(s, i, x)
      OBVIOUS
    <3>3. /\ Len(new) = n + 1
          /\ \A j \in 1..(n + 1) : new[j] = IF j < i THEN s[j] ELSE IF j = i THEN x ELSE s[j - 1]
      BY <1>3, <3>1, <3>2, InsertType
    <3>4. Same(t, new)
      BY <1>4, <2>2, <3>2
    <3>5. Len(t) = n + 1 /\ \A j \in 1..(n + 1) : t[j] = new[j] \/ t[j] = Dirty(new[j])
      BY <3>3, <3>4 DEF Same
    <3> QED BY <3>3, <3>5
  <2>6. /\ Len(RemoveAt(t, i)) = n
        /\ \A j \in 1..n : RemoveAt(t, i)[j] = IF j < i THEN t[j] ELSE t[j + 1]
    <3>1. i \in 1..Len(t) /\ Len(t) - 1 = n
      BY <2>2, <2>5
    <3> QED BY <3>1, RemoveType
  <2>7. ASSUME NEW j \in 1..n
        PROVE  RemoveAt(t, i)[j] = s[j] \/ RemoveAt(t, i)[j] = Dirty(s[j])
    <3>1. CASE j < i
      <4>1. j \in 1..(n + 1)
        OBVIOUS
      <4>2. t[j] = s[j] \/ t[j] = Dirty(s[j])
        BY <2>5, <3>1, <4>1
      <4> QED BY <2>6, <3>1, <4>2
    <3>2. CASE ~(j < i)
      <4>1. j + 1 \in 1..(n + 1) /\ ~(j + 1 < i) /\ j + 1 # i /\ (j + 1) - 1 = j
        BY <2>2, <3>2
      <4>2. t[j + 1] = s[j] \/ t[j + 1] = Dirty(s[j])
        BY <2>5, <4>1
      <4> QED BY <2>6, <3>2, <4>2
    <3> QED BY <3>1, <3>2
  <2>8. Same(RemoveAt(t, i), s)
    BY <1>3, <2>6, <2>7 DEF Same
  <2> QED BY <1>1, <1>2, <1>7, <1>8, <2>4, <2>8
<1>9. CASE e.op = "delete"
  <2>1. PICK i \in Nat \ {0}, x \in AllBlocks : i = e.at /\ x = e.old
    BY <1>9, EditKinds, Zenon
  <2>2. i \in 1..n /\ s[i] = x /\ NewBlocks(s, e) = RemoveAt(s, i)
    BY <1>1, <1>3, <1>4, <1>9, <2>1 DEF Expected, NewBlocks
  <2>3. u = [op |-> "insert", at |-> i, new |-> x]
    BY <1>9, <2>1, InverseType, Zenon
  <2>4. NewBlocks(t, u) = InsertAt(t, i, x)
    BY <2>3 DEF NewBlocks
  <2>5. /\ Len(t) = n - 1
        /\ \A j \in 1..(n - 1) : LET y == IF j < i THEN s[j] ELSE s[j + 1]
                                 IN t[j] = y \/ t[j] = Dirty(y)
    BY <1>3, <1>4, <2>2, RemoveType DEF Same
  <2>6. /\ Len(InsertAt(t, i, x)) = n
        /\ \A j \in 1..n : InsertAt(t, i, x)[j] = IF j < i THEN t[j] ELSE IF j = i THEN x ELSE t[j - 1]
    <3>1. i \in 1..(Len(t) + 1) /\ Len(t) + 1 = n
      BY <2>2, <2>5
    <3> QED BY <3>1, InsertType
  <2>7. ASSUME NEW j \in 1..n
        PROVE  InsertAt(t, i, x)[j] = s[j] \/ InsertAt(t, i, x)[j] = Dirty(s[j])
    <3>1. CASE j < i
      <4>1. j \in 1..(n - 1)
        BY <2>2, <3>1
      <4>2. t[j] = s[j] \/ t[j] = Dirty(s[j])
        BY <2>5, <3>1, <4>1
      <4> QED BY <2>6, <3>1, <4>2
    <3>2. CASE j = i
      BY <2>2, <2>6, <3>2
    <3>3. CASE j > i
      <4>1. j - 1 \in 1..(n - 1) /\ ~(j - 1 < i) /\ (j - 1) + 1 = j /\ ~(j < i) /\ j # i
        BY <2>2, <3>3
      <4>2. t[j - 1] = s[j] \/ t[j - 1] = Dirty(s[j])
        BY <2>5, <4>1
      <4> QED BY <2>6, <4>1, <4>2
    <3> QED BY <2>2, <3>1, <3>2, <3>3
  <2>8. Same(InsertAt(t, i, x), s)
    BY <1>3, <2>6, <2>7 DEF Same
  <2> QED BY <1>1, <1>2, <1>7, <1>9, <2>4, <2>8
<1>10. CASE e.op = "replace"
  <2>1. PICK i \in Nat \ {0}, x \in AllBlocks, y \in AllBlocks : i = e.at /\ x = e.old /\ y = e.new
    BY <1>10, EditKinds, Zenon
  <2>2. i \in 1..n /\ s[i] = x /\ NewBlocks(s, e) = [s EXCEPT ![i] = y]
    BY <1>1, <1>3, <1>4, <1>10, <2>1 DEF Expected, NewBlocks
  <2>3. u = [op |-> "replace", at |-> i, old |-> y, new |-> x]
    BY <1>10, <2>1, InverseType, Zenon
  <2>4. NewBlocks(t, u) = [t EXCEPT ![i] = x]
    BY <2>3 DEF NewBlocks
  <2>5. /\ Len(t) = n
        /\ \A j \in 1..n : j # i => t[j] = s[j] \/ t[j] = Dirty(s[j])
    BY <1>3, <1>4, <2>2 DEF Same
  <2>6. Same([t EXCEPT ![i] = x], s)
    BY <1>3, <2>2, <2>5 DEF Same
  <2> QED BY <1>1, <1>2, <1>7, <1>10, <2>4, <2>6
<1>11. CASE e.op = "text"
  <2>1. PICK i \in Nat \ {0}, p \in Nat, x \in Words, y \in Words :
               i = e.at /\ p = e.path /\ x = e.old /\ y = e.new
    BY <1>11, EditKinds, Zenon
  <2>2. /\ i \in 1..n /\ x \in TextOf(s[i], p)
        /\ NewBlocks(s, e) = [s EXCEPT ![i] = Dirty(Retext(s[i], p, y))]
    BY <1>1, <1>3, <1>4, <1>11, <2>1 DEF Expected, NewBlocks
  <2>3. u = [op |-> "text", at |-> i, path |-> p, old |-> y, new |-> x]
    BY <1>11, <2>1, InverseType, Zenon
  <2>4. NewBlocks(t, u) = [t EXCEPT ![i] = Dirty(Retext(t[i], p, x))]
    BY <2>3 DEF NewBlocks
  <2>5. PICK blk \in AllBlocks : blk = s[i]
    BY <1>3, <2>2
  <2>6. p \in DOMAIN blk.in /\ x = blk.in[p].c
    BY <2>2, <2>5, TextOfType
  <2>7. PICK new \in AllBlocks : new = Retext(blk, p, y) /\ Retext(new, p, x) = blk
                              /\ p \in DOMAIN new.in
    BY <2>6, RetextType
  <2>8. /\ Len(t) = n
        /\ \A j \in 1..n : j # i => t[j] = s[j] \/ t[j] = Dirty(s[j])
        /\ t[i] = Dirty(new) \/ t[i] = Dirty(Dirty(new))
    BY <1>3, <1>4, <2>2, <2>5, <2>7 DEF Same
  <2>9. Dirty(Retext(t[i], p, x)) = Dirty(blk)
    BY <2>7, <2>8, DirtyType
  <2>10. Same([t EXCEPT ![i] = Dirty(Retext(t[i], p, x))], s)
    <3>1. PICK z : z = Dirty(Retext(t[i], p, x)) /\ z = Dirty(s[i])
      BY <2>5, <2>9
    <3>2. Same([t EXCEPT ![i] = z], s)
      BY <1>3, <2>2, <2>8, <3>1 DEF Same
    <3> QED BY <3>1, <3>2
  <2> QED BY <1>1, <1>2, <1>7, <1>11, <2>4, <2>10
<1>12. e.op \in {"title", "insert", "replace", "delete", "text"}
  BY EditKinds, Zenon
<1> QED BY <1>6, <1>8, <1>9, <1>10, <1>11, <1>12

\* What an edit that cannot be taken back has come upon.
LEMMA UndoRefused ==
  ASSUME NEW b, DocOf(b, AllBlocks), NEW c, DocOf(c, AllBlocks), NEW e, EditOf(e, AllBlocks),
         Linked(b, e, c), ~Expected(c, InverseEdit(e))
  PROVE  /\ e.op \in {"insert", "replace"} /\ e.at \in DOMAIN c.blocks
         /\ c.blocks[e.at] = Dirty(e.new) /\ e.new.sp = "Preserved"
<1> DEFINE u == InverseEdit(e)
<1>1. PICK s \in Seq(AllBlocks) : s = b.blocks
  BY DEF DocOf
<1>2. PICK t \in Seq(AllBlocks) : t = c.blocks
  BY DEF DocOf
<1>3. PICK n \in Nat : n = Len(s)
  OBVIOUS
<1>4. /\ Expected(b, e) /\ c.title = NewTitle(b.title, e) /\ Same(t, NewBlocks(s, e))
  BY <1>1, <1>2 DEF Linked
<1>5. e.op # "title"
  <2> SUFFICES ASSUME e.op = "title" PROVE FALSE
    OBVIOUS
  <2>1. u = [op |-> "title", old |-> e.new, new |-> e.old]
    BY InverseType, Zenon
  <2>2. c.title = e.new
    BY <1>4 DEF NewTitle
  <2>3. Expected(c, u)
    BY <2>1, <2>2 DEF Expected
  <2> QED BY <2>3
<1>6. e.op # "delete"
  <2> SUFFICES ASSUME e.op = "delete" PROVE FALSE
    OBVIOUS
  <2>1. PICK i \in Nat \ {0}, x \in AllBlocks : i = e.at /\ x = e.old
    BY EditKinds, Zenon
  <2>2. i \in 1..n /\ NewBlocks(s, e) = RemoveAt(s, i)
    BY <1>1, <1>3, <1>4, <2>1 DEF Expected, NewBlocks
  <2>3. Len(t) = n - 1
    BY <1>3, <1>4, <2>2, RemoveType DEF Same
  <2>4. u = [op |-> "insert", at |-> i, new |-> x]
    BY <2>1, InverseType, Zenon
  <2>5. i <= Len(t) + 1
    BY <2>2, <2>3
  <2>6. Expected(c, u)
    BY <1>2, <2>4, <2>5 DEF Expected
  <2> QED BY <2>6
<1>7. e.op # "text"
  <2> SUFFICES ASSUME e.op = "text" PROVE FALSE
    OBVIOUS
  <2>1. PICK i \in Nat \ {0}, p \in Nat, x \in Words, y \in Words :
               i = e.at /\ p = e.path /\ x = e.old /\ y = e.new
    BY EditKinds, Zenon
  <2>2. /\ i \in 1..n /\ x \in TextOf(s[i], p)
        /\ NewBlocks(s, e) = [s EXCEPT ![i] = Dirty(Retext(s[i], p, y))]
    BY <1>1, <1>3, <1>4, <2>1 DEF Expected, NewBlocks
  <2>3. PICK blk \in AllBlocks : blk = s[i]
    BY <1>3, <2>2
  <2>4. blk.k \in EditableBlocks /\ p \in DOMAIN blk.in /\ blk.in[p].k \in EditableInlines
    BY <2>2, <2>3, TextOfType
  <2>5. PICK new \in AllBlocks : /\ new = Retext(blk, p, y) /\ new.k = blk.k
                              /\ p \in DOMAIN new.in /\ new.in[p].k = blk.in[p].k
                              /\ new.in[p].c = y
    BY <2>4, RetextType
  <2>6. Len(t) = n /\ (t[i] = Dirty(new) \/ t[i] = Dirty(Dirty(new)))
    BY <1>3, <1>4, <2>2, <2>3, <2>5 DEF Same
  <2>7. t[i] \in AllBlocks /\ t[i].k = new.k /\ t[i].in = new.in
    BY <2>6, DirtyType
  <2>8. y \in TextOf(t[i], p) /\ i \in DOMAIN t
    BY <2>2, <2>4, <2>5, <2>6, <2>7, TextOfType
  <2>9. u = [op |-> "text", at |-> i, path |-> p, old |-> y, new |-> x]
    BY <2>1, InverseType, Zenon
  <2>10. Expected(c, u)
    BY <1>2, <2>8, <2>9 DEF Expected
  <2> QED BY <2>10
<1>8. e.op \in {"insert", "replace"} /\ e.at \in Nat \ {0} /\ e.new \in AllBlocks
  BY <1>5, <1>6, <1>7, EditKinds, Zenon
<1>9. PICK i \in Nat \ {0}, y \in AllBlocks : i = e.at /\ y = e.new
  BY <1>8
<1>10. i \in DOMAIN t /\ (t[i] = y \/ t[i] = Dirty(y))
  <2>1. CASE e.op = "insert"
    <3>1. i \in 1..(n + 1) /\ NewBlocks(s, e) = InsertAt(s, i, y)
      BY <1>1, <1>3, <1>4, <1>9, <2>1 DEF Expected, NewBlocks
    <3>a. i \in 1..(Len(s) + 1) /\ ~(i < i)
      BY <1>3, <3>1
    <3>2. Len(InsertAt(s, i, y)) = n + 1 /\ InsertAt(s, i, y)[i] = y
      BY <1>3, <3>a, InsertType
    <3> QED BY <1>4, <3>1, <3>2 DEF Same
  <2>2. CASE e.op = "replace"
    <3>1. i \in 1..n /\ NewBlocks(s, e) = [s EXCEPT ![i] = y]
      BY <1>1, <1>3, <1>4, <1>9, <2>2 DEF Expected, NewBlocks
    <3>2. Len([s EXCEPT ![i] = y]) = n /\ [s EXCEPT ![i] = y][i] = y
      BY <1>3, <3>1
    <3> QED BY <1>4, <3>1, <3>2 DEF Same
  <2> QED BY <1>8, <2>1, <2>2
<1>11. t[i] # y
  <2> SUFFICES ASSUME t[i] = y PROVE FALSE
    OBVIOUS
  <2>1. /\ e.op = "insert" => u = [op |-> "delete", at |-> i, old |-> y]
        /\ e.op = "replace" => u = [op |-> "replace", at |-> i, old |-> y, new |-> e.old]
    BY <1>9, InverseType, Zenon
  <2>2. Expected(c, u)
    <3> HIDE DEF u
    <3>1. u.op \in {"delete", "replace"} /\ u.at = i /\ u.old = y
      BY <1>8, <2>1
    <3> QED BY <1>2, <1>10, <3>1 DEF Expected
  <2> QED BY <2>2
<1>12. y.sp = "Preserved"
  BY <1>10, <1>11, DirtyType
<1> QED BY <1>2, <1>8, <1>9, <1>10, <1>11, <1>12

(***************************************************************************)
(* The journal.                                                            *)
(***************************************************************************)

\* Every entry of the journal js has led, but for dirty spans, to the document
\* of the next one, the last entry to d.
Chain(js, d, T) ==
    /\ \E S : js \in Seq(S)
    /\ \A i \in 1..Len(js) :
          /\ EditOf(js[i].edit, T) /\ DocOf(js[i].before, T)
          /\ Linked(js[i].before, js[i].edit, IF i = Len(js) THEN d ELSE js[i + 1].before)

\* Why the last entry cannot be taken back.
Stuck(js, d) ==
    LET e == Last(js).edit
    IN /\ e.op \in {"insert", "replace"} /\ e.at \in DOMAIN d.blocks
       /\ d.blocks[e.at] = Dirty(e.new) /\ e.new.sp = "Preserved"

\* Edits and documents with blocks in a smaller set.
LEMMA Widen ==
  ASSUME NEW T, T \subseteq AllBlocks
  PROVE  /\ \A e : EditOf(e, T) => EditOf(e, AllBlocks)
         /\ \A d : DocOf(d, T) => DocOf(d, AllBlocks)
<1>1. \A e : EditOf(e, T) => EditOf(e, AllBlocks)
  <2> HIDE DEF AllBlocks, Words
  <2> QED BY Zenon DEF EditOf
<1>2. Seq(T) \subseteq Seq(AllBlocks)
  BY SeqMonotonic
<1>3. \A d : DocOf(d, T) => DocOf(d, AllBlocks)
  BY <1>2 DEF DocOf
<1> QED BY <1>1, <1>3

\* Only title and blocks matter for what an edit finds and what it made.
LEMMA LinkedFields ==
  ASSUME NEW b, NEW c, NEW e, NEW d, c.title = d.title, c.blocks = d.blocks
  PROVE  /\ Linked(b, e, c) <=> Linked(b, e, d)
         /\ Expected(c, e) <=> Expected(d, e)
<1>1. Linked(b, e, c) <=> Linked(b, e, d)
  BY DEF Linked
<1>2. Expected(c, e) <=> Expected(d, e)
  BY DEF Expected
<1> QED BY <1>1, <1>2

\* An edit that is applied is put behind the journal.
LEMMA ChainEdit ==
  ASSUME NEW T, T \subseteq AllBlocks, NEW js, NEW d, Chain(js, d, T), DocOf(d, T),
         NEW e, EditOf(e, T), Expected(d, e)
  PROVE  Chain(Append(js, [edit |-> e, before |-> [d EXCEPT !.source = NoSource]]), Applied(d, e), T)
<1>1. PICK b : b = [d EXCEPT !.source = NoSource]
  OBVIOUS
<1>2. d = [title |-> d.title, blocks |-> d.blocks, source |-> d.source] /\ d.blocks \in Seq(T)
  BY DEF DocOf
<1>3. b.title = d.title /\ b.blocks = d.blocks /\ DocOf(b, T)
  <2>1. PICK t, s, src : d = [title |-> t, blocks |-> s, source |-> src] /\ t = d.title /\ s = d.blocks
    BY <1>2
  <2>2. PICK none : none = NoSource
    OBVIOUS
  <2>3. b = [title |-> t, blocks |-> s, source |-> none]
    BY <1>1, <2>1, <2>2
  <2> QED BY <1>2, <2>1, <2>3 DEF DocOf
<1>4. PICK x : x = [edit |-> e, before |-> b]
  OBVIOUS
<1>5. PICK S : js \in Seq(S)
  BY DEF Chain
<1>6. js \in Seq(S \cup {x}) /\ x \in S \cup {x}
  BY <1>5, S \subseteq S \cup {x}, SeqMonotonic
<1>7. PICK n \in Nat : n = Len(js)
  BY <1>5
<1>8. PICK ks : ks = Append(js, x)
  OBVIOUS
<1>9. /\ ks \in Seq(S \cup {x}) /\ Len(ks) = n + 1 /\ ks[n + 1] = x
      /\ \A i \in 1..n : ks[i] = js[i]
  BY <1>6, <1>7, <1>8
<1>10. PICK c : c = Applied(d, e) /\ c.title = NewTitle(d.title, e)
                /\ c.blocks = NewBlocks(d.blocks, e)
  BY AppliedFields
<1>11. Linked(b, e, c)
  <2>1. Expected(b, e)
    BY <1>3, LinkedFields
  <2>2. Same(c.blocks, NewBlocks(b.blocks, e))
    BY <1>3, <1>10 DEF Same
  <2> QED BY <1>3, <1>10, <2>1, <2>2 DEF Linked
<1>12. ASSUME NEW i \in 1..(n + 1)
       PROVE  /\ EditOf(ks[i].edit, T) /\ DocOf(ks[i].before, T)
              /\ Linked(ks[i].before, ks[i].edit, IF i = n + 1 THEN c ELSE ks[i + 1].before)
  <2>1. CASE i = n + 1
    BY <1>3, <1>4, <1>9, <1>11, <2>1
  <2>2. CASE i \in 1..n
    <3>1. /\ ks[i] = js[i] /\ i # n + 1
          /\ EditOf(js[i].edit, T) /\ DocOf(js[i].before, T)
          /\ Linked(js[i].before, js[i].edit, IF i = n THEN d ELSE js[i + 1].before)
      BY <1>7, <1>9, <2>2 DEF Chain
    <3>2. CASE i = n
      <4>1. ks[i + 1].before = b
        BY <1>4, <1>9, <3>2
      <4>2. Linked(js[i].before, js[i].edit, b)
        BY <1>3, <3>1, <3>2, LinkedFields
      <4> QED BY <3>1, <4>1, <4>2
    <3>3. CASE i # n
      <4>1. i + 1 \in 1..n
        BY <2>2, <3>3
      <4>2. ks[i + 1] = js[i + 1]
        BY <1>9, <4>1
      <4> QED BY <3>1, <3>3, <4>2
    <3> QED BY <3>2, <3>3
  <2> QED BY <2>1, <2>2
<1>13. Chain(ks, c, T)
  BY <1>9, <1>12 DEF Chain
<1> QED BY <1>1, <1>4, <1>8, <1>10, <1>13

\* What the last entry of a journal says.
LEMMA ChainLast ==
  ASSUME NEW T, T \subseteq AllBlocks, NEW js, NEW d, Chain(js, d, T), DocOf(d, T), js # <<>>
  PROVE  /\ EditOf(Last(js).edit, T) /\ DocOf(Last(js).before, T)
         /\ Linked(Last(js).before, Last(js).edit, d)
         /\ Expected(d, InverseEdit(Last(js).edit)) =>
               LET c == Applied(d, InverseEdit(Last(js).edit))
               IN /\ c.title = Last(js).before.title
                  /\ Same(c.blocks, Last(js).before.blocks)
                  /\ DocOf(c, AllBlocks)
         /\ ~Expected(d, InverseEdit(Last(js).edit)) => Stuck(js, d)
<1>1. PICK S : js \in Seq(S)
  BY DEF Chain
<1>2. PICK n \in Nat : n = Len(js) /\ n \in 1..n /\ Last(js) = js[n]
  <2>1. Len(js) \in Nat /\ Len(js) # 0 /\ Last(js) = js[Len(js)]
    BY <1>1 DEF Last
  <2> QED BY <2>1
<1>3. PICK e, b : e = Last(js).edit /\ b = Last(js).before
  OBVIOUS
<1>4. EditOf(e, T) /\ DocOf(b, T) /\ Linked(b, e, d)
  BY <1>2, <1>3 DEF Chain
<1>5. EditOf(e, AllBlocks) /\ DocOf(b, AllBlocks) /\ DocOf(d, AllBlocks)
  BY <1>4, Widen
<1>6. ASSUME Expected(d, InverseEdit(e))
      PROVE  LET c == Applied(d, InverseEdit(e))
             IN c.title = b.title /\ Same(c.blocks, b.blocks) /\ DocOf(c, AllBlocks)
  <2>1. PICK u : u = InverseEdit(e) /\ EditOf(u, AllBlocks) /\ Expected(d, u)
    BY <1>5, <1>6, InverseType, Zenon
  <2>2. Applied(d, u) = [title |-> NewTitle(d.title, u), blocks |-> NewBlocks(d.blocks, u),
                         source |-> NoSource]
    BY <1>5, <2>1, AppliedFields
  <2>3. NewTitle(d.title, u) = b.title /\ Same(NewBlocks(d.blocks, u), b.blocks)
    BY <1>4, <1>5, <1>6, <2>1, UndoBlocks
  <2>4. NewBlocks(d.blocks, u) \in Seq(AllBlocks)
    BY <1>5, <2>1, NewBlocksType
  <2>5. PICK c : c = Applied(d, u) /\ c.title = b.title /\ c.blocks = NewBlocks(d.blocks, u)
                 /\ c = [title |-> c.title, blocks |-> c.blocks, source |-> c.source]
    BY <2>2, <2>3
  <2>6. DocOf(c, AllBlocks)
    BY <2>4, <2>5 DEF DocOf
  <2> QED BY <2>1, <2>3, <2>5, <2>6
<1>7. ASSUME ~Expected(d, InverseEdit(e)) PROVE Stuck(js, d)
  <2>1. /\ e.op \in {"insert", "replace"} /\ e.at \in DOMAIN d.blocks
        /\ d.blocks[e.at] = Dirty(e.new) /\ e.new.sp = "Preserved"
    BY <1>4, <1>5, <1>7, UndoRefused
  <2> QED BY <1>3, <2>1, Zenon DEF Stuck
<1> QED BY <1>3, <1>4, <1>6, <1>7

\* An edit that is taken back leaves the journal as it was before the edit.
LEMMA ChainUndo ==
  ASSUME NEW T, T \subseteq AllBlocks, NEW js, NEW d, Chain(js, d, T), DocOf(d, T), js # <<>>,
         Expected(d, InverseEdit(Last(js).edit))
  PROVE  Chain(Front(js), Applied(d, InverseEdit(Last(js).edit)), T)
<1>1. PICK S : js \in Seq(S)
  BY DEF Chain
<1>2. PICK n \in Nat : n = Len(js) /\ n \in 1..n /\ Last(js) = js[n]
  <2>1. Len(js) \in Nat /\ Len(js) # 0 /\ Last(js) = js[Len(js)]
    BY <1>1 DEF Last
  <2> QED BY <2>1
<1>3. PICK ks : ks = Front(js)
  OBVIOUS
<1>4. ks \in Seq(S) /\ Len(ks) = n - 1 /\ \A i \in 1..(n - 1) : ks[i] = js[i]
  BY <1>1, <1>2, <1>3, FrontType
<1>5. PICK c, b : /\ c = Applied(d, InverseEdit(Last(js).edit)) /\ b = Last(js).before
                  /\ c.title = b.title /\ Same(c.blocks, b.blocks) /\ DocOf(c, AllBlocks)
  BY ChainLast
<1>6. b = js[n].before /\ DocOf(b, AllBlocks)
  BY <1>2, <1>5, ChainLast, Widen
<1>7. ASSUME NEW i \in 1..(n - 1)
      PROVE  /\ EditOf(ks[i].edit, T) /\ DocOf(ks[i].before, T)
             /\ Linked(ks[i].before, ks[i].edit, IF i = n - 1 THEN c ELSE ks[i + 1].before)
  <2>1. /\ ks[i] = js[i] /\ i \in 1..n /\ i # n
        /\ EditOf(js[i].edit, T) /\ DocOf(js[i].before, T)
        /\ Linked(js[i].before, js[i].edit, js[i + 1].before)
    <3>1. i \in 1..n /\ i # n
      OBVIOUS
    <3> QED BY <1>2, <1>4, <3>1 DEF Chain
  <2>2. CASE i # n - 1
    <3>1. i + 1 \in 1..(n - 1)
      BY <2>2
    <3>2. ks[i + 1] = js[i + 1]
      BY <1>4, <3>1
    <3> QED BY <2>1, <2>2, <3>2
  <2>3. CASE i = n - 1
    <3>1. js[i + 1] = js[n]
      BY <2>3
    <3>2. PICK a, e : a = js[i].before /\ e = js[i].edit
      OBVIOUS
    <3>3. Linked(a, e, b) /\ EditOf(e, T) /\ DocOf(a, T)
      BY <1>6, <2>1, <3>1, <3>2
    <3>4. EditOf(e, AllBlocks) /\ DocOf(a, AllBlocks) /\ Expected(a, e)
      BY <3>3, Widen DEF Linked
    <3>5. NewBlocks(a.blocks, e) \in Seq(AllBlocks)
      BY <3>4, NewBlocksType
    <3>6. b.blocks \in Seq(AllBlocks)
      BY <1>6 DEF DocOf
    <3>7. Same(c.blocks, NewBlocks(a.blocks, e))
      BY <1>5, <3>3, <3>5, <3>6, SameTransitive DEF Linked
    <3>8. Linked(a, e, c)
      BY <1>5, <3>3, <3>7 DEF Linked
    <3> QED BY <2>1, <2>3, <3>2, <3>8
  <2> QED BY <2>2, <2>3
<1>8. Chain(ks, c, T)
  BY <1>4, <1>7 DEF Chain
<1> QED BY <1>3, <1>5, <1>8

(***************************************************************************)
(* The invariant of a session.                                             *)
(***************************************************************************)

\* Blocks whose span, when it is preserved, is that of a block of the document f.
KnownBlocks(f) == {blk \in AllBlocks : blk.sp = "Preserved" => blk \in Range(f.blocks)}

\* While the text is read, the reader is one, keeps pace with an HTML text,
\* and there is no document yet.
ReadingInv ==
    phase = "reading" =>
        /\ text \in Texts /\ rd \in Readers
        /\ text.lang = "html" => Simulates(rd, text.nodes)
        /\ first = NoDoc /\ doc = NoDoc /\ journal = <<>> /\ refused = "none"

\* What was read holds active content in lists only, and a document has known
\* blocks and its source while it is what was read.
DocsInv ==
    /\ DocOf(first, ReadBlocks)
    /\ DocOf(doc, KnownBlocks(first))
    /\ doc.source # NoSource => doc = first

JournalInv ==
    /\ Chain(journal, doc, KnownBlocks(first))
    /\ refused = "undo" => Stuck(journal, doc)

SessionInv == ReadingInv /\ DocsInv /\ JournalInv

\* The blocks that are known.
LEMMA KnownType ==
  ASSUME NEW f, DocOf(f, ReadBlocks)
  PROVE  /\ KnownBlocks(f) \subseteq AllBlocks
         /\ \A x \in AllBlocks : x.sp # "Preserved" => x \in KnownBlocks(f)
         /\ Fresh \in KnownBlocks(f)
         /\ f.blocks \in Seq(KnownBlocks(f))
<1>1. KnownBlocks(f) \subseteq AllBlocks /\ \A x \in AllBlocks : x.sp # "Preserved" => x \in KnownBlocks(f)
  BY DEF KnownBlocks
<1>2. Fresh \in KnownBlocks(f)
  <2>1. Fresh.sp # "Preserved"
    BY FreshType
  <2> QED BY <1>1, <2>1, FreshType
<1>3. PICK s \in Seq(ReadBlocks) : s = f.blocks
  BY DEF DocOf
<1>4. \A i \in 1..Len(s) : s[i] \in KnownBlocks(f)
  <2> SUFFICES ASSUME NEW i \in 1..Len(s) PROVE s[i] \in KnownBlocks(f)
    OBVIOUS
  <2>1. s[i] \in AllBlocks
    BY DEF ReadBlocks
  <2>2. s[i] \in Range(s)
    BY DEF Range
  <2> QED BY <1>3, <2>1, <2>2 DEF KnownBlocks
<1> QED BY <1>1, <1>2, <1>3, <1>4

\* A journal without entries.
LEMMA EmptyChain ==
  ASSUME NEW d, NEW T
  PROVE  Chain(<<>>, d, T)
<1>1. <<>> \in Seq(T) /\ Len(<<>>) = 0
  OBVIOUS
<1> QED BY <1>1 DEF Chain

\* Before anything is read.
LEMMA NothingRead ==
  ASSUME NEW T
  PROVE  DocOf(NoDoc, T) /\ Chain(<<>>, NoDoc, T) /\ NoDoc.source = NoSource
<1>1. PICK t, s, src : NoDoc = [title |-> t, blocks |-> s, source |-> src] /\ s = <<>> /\ src = NoSource
  BY DEF NoDoc
<1>2. <<>> \in Seq(T) /\ Len(<<>>) = 0
  OBVIOUS
<1>3. DocOf(NoDoc, T) /\ NoDoc.source = NoSource
  BY <1>1, <1>2 DEF DocOf
<1>4. Chain(<<>>, NoDoc, T)
  BY <1>2 DEF Chain
<1> QED BY <1>3, <1>4

\* A session starts with a text that is not read yet, the chunking of a plain
\* document without one.
LEMMA SessionStart == Init => SessionInv
<1> SUFFICES ASSUME Init PROVE SessionInv
  OBVIOUS
<1>1. first = NoDoc /\ doc = NoDoc /\ journal = <<>> /\ refused = "none"
  BY DEF Init, StartSession, SessionInit, StartChunking
<1>2. DocsInv /\ JournalInv
  BY <1>1, NothingRead DEF DocsInv, JournalInv
<1>3. ReadingInv
  <2>1. CASE StartSession
    <3>1. text \in Texts /\ rd = NewReader
      BY <2>1 DEF StartSession, SessionInit
    <3>2. Simulates(rd, text.nodes)
      BY <3>1, TextType, SimulatesStart
    <3> QED BY <1>1, <3>1, <3>2, NewReaderType DEF ReadingInv
  <2>2. CASE StartChunking
    BY <2>2 DEF StartChunking, ReadingInv
  <2> QED BY <2>1, <2>2 DEF Init
<1> QED BY <1>2, <1>3 DEF SessionInv

\* A step that leaves the documents, the journal and the last refusal alone,
\* and does not go back to reading.
LEMMA OutsideStep ==
  ASSUME SessionInv, UNCHANGED <<first, doc, journal, refused>>, phase' # "reading"
  PROVE  SessionInv'
<1>1. DocsInv' /\ JournalInv'
  BY DEF SessionInv, DocsInv, JournalInv, KnownBlocks
<1>2. ReadingInv'
  BY DEF ReadingInv
<1> QED BY <1>1, <1>2 DEF SessionInv

\* What a step of a session says of the edit that it takes back, or does not.
Restoring ==
    /\ Len(journal') < Len(journal) =>
          /\ doc'.title = Last(journal).before.title
          /\ Plain(doc'.blocks) = Plain(Last(journal).before.blocks)
    /\ refused' = "undo" => Stuck(journal, doc)

\* The length of the journal.
LEMMA JournalLength ==
  ASSUME NEW js, NEW d, NEW T, Chain(js, d, T)
  PROVE  Len(js) \in Nat
<1>1. PICK S : js \in Seq(S)
  BY DEF Chain
<1> QED BY <1>1

\* A step that leaves the documents, the journal and the last refusal alone
\* takes no edit back.
LEMMA OutsideRestoring ==
  ASSUME SessionInv, UNCHANGED <<doc, journal, refused>>
  PROVE  Restoring
<1>1. Len(journal) \in Nat
  BY JournalLength DEF SessionInv, JournalInv
<1>2. refused' = "undo" => Stuck(journal, doc)
  BY DEF SessionInv, JournalInv
<1> QED BY <1>1, <1>2 DEF Restoring

\* A reader's step: the reader stays one, and in pace with an HTML text.
LEMMA ReadingStep ==
  ASSUME SessionInv, ReadNext
  PROVE  SessionInv' /\ Restoring
<1>1. UNCHANGED <<phase, first, doc, journal, refused>>
  BY DEF ReadNext, sessionVars
<1>2. Restoring
  BY <1>1, OutsideRestoring
<1>3. CASE phase # "reading"
  BY <1>1, <1>2, <1>3, OutsideStep
<1>4. CASE phase = "reading"
  <2>1. /\ text \in Texts /\ rd \in Readers
        /\ text.lang = "html" => Simulates(rd, text.nodes)
        /\ first = NoDoc /\ doc = NoDoc /\ journal = <<>> /\ refused = "none"
    BY <1>4 DEF SessionInv, ReadingInv
  <2>2. /\ text' = text /\ rd' \in Readers
        /\ text.lang = "html" => Simulates(rd', text.nodes)
    <3>1. CASE text.lang = "html"
      <4>1. Simulates(rd', text.nodes) /\ text' = text
        BY <2>1, <3>1, HtmlStep
      <4> QED BY <4>1, <3>1 DEF Simulates
    <3>2. CASE text.lang # "html"
      <4>1. text.lang \in Readable
        BY <2>1, <3>2, TextType DEF Backends
      <4> QED BY <2>1, <3>2, <4>1, ReadStep
    <3> QED BY <3>1, <3>2
  <2>3. ReadingInv'
    BY <1>1, <2>1, <2>2 DEF ReadingInv
  <2>4. DocsInv' /\ JournalInv'
    BY <1>1 DEF SessionInv, DocsInv, JournalInv
  <2> QED BY <1>2, <2>3, <2>4 DEF SessionInv
<1> QED BY <1>3, <1>4

\* The end of the reading: the document is what was read, and all of its
\* blocks are known.
LEMMA FinishStep ==
  ASSUME SessionInv, FinishReading
  PROVE  SessionInv' /\ Restoring
<1>1. UNCHANGED <<text, journal, refused>>
  BY DEF FinishReading
<1>2. CASE phase # "reading"
  <2>1. phase' = "reread" /\ UNCHANGED <<first, doc>>
    BY <1>2 DEF FinishReading
  <2> QED BY <1>1, <2>1, OutsideStep, OutsideRestoring
<1>3. CASE phase = "reading"
  <2>1. /\ text \in Texts /\ rd \in Readers
        /\ text.lang = "html" => Simulates(rd, text.nodes)
        /\ journal = <<>> /\ refused = "none"
    BY <1>3 DEF SessionInv, ReadingInv
  <2>2. PICK t, s, src :
          /\ s = BlocksRead(EndOf(text.lang, rd))
          /\ phase' = "open" /\ first' = [title |-> t, blocks |-> s, source |-> src] /\ doc' = first'
    BY <1>3 DEF FinishReading
  <2>3. s \in Seq(ReadBlocks)
    BY <2>1, <2>2, BlocksReadType
  <2>4. PICK f : f = first' /\ doc' = f /\ f = [title |-> t, blocks |-> s, source |-> src]
    BY <2>2
  <2>5. DocOf(f, ReadBlocks)
    BY <2>3, <2>4 DEF DocOf
  <2>6. f.blocks \in Seq(KnownBlocks(f))
    BY <2>5, KnownType
  <2>7. DocOf(f, KnownBlocks(f))
    BY <2>5, <2>6 DEF DocOf
  <2>8. DocsInv'
    BY <2>4, <2>5, <2>7 DEF DocsInv
  <2>9. Chain(<<>>, f, KnownBlocks(f))
    BY EmptyChain
  <2>10. JournalInv'
    BY <1>1, <2>1, <2>4, <2>9 DEF JournalInv
  <2>11. ReadingInv'
    BY <2>2 DEF ReadingInv
  <2>12. Restoring
    <3>1. Len(journal') = Len(journal) /\ Len(journal) \in Nat
      BY <1>1, <2>1
    <3> QED BY <1>1, <2>1, <3>1 DEF Restoring
  <2> QED BY <2>8, <2>10, <2>11, <2>12 DEF SessionInv
<1> QED BY <1>2, <1>3

\* What an edit, or the inverse of one, makes of a document of known blocks.
LEMMA AppliedType ==
  ASSUME NEW f, DocOf(f, ReadBlocks), NEW d, DocOf(d, KnownBlocks(f)),
         NEW e, EditOf(e, KnownBlocks(f)), Expected(d, e)
  PROVE  DocOf(Applied(d, e), KnownBlocks(f)) /\ Applied(d, e).source = NoSource
<1>1. NewBlocks(d.blocks, e) \in Seq(KnownBlocks(f))
  <2> HIDE DEF KnownBlocks
  <2> QED BY KnownType, NewBlocksType
<1>2. PICK t, s, src : /\ Applied(d, e) = [title |-> t, blocks |-> s, source |-> src]
                       /\ s = NewBlocks(d.blocks, e) /\ src = NoSource
  BY AppliedFields
<1>3. PICK c : c = Applied(d, e) /\ c = [title |-> t, blocks |-> s, source |-> src]
  BY <1>2
<1>4. DocOf(c, KnownBlocks(f)) /\ c.source = NoSource
  BY <1>1, <1>2, <1>3 DEF DocOf
<1> QED BY <1>3, <1>4

\* An edit: applied, it is put into the journal; refused, it changes nothing.
LEMMA EditStep ==
  ASSUME SessionInv, Edit
  PROVE  SessionInv' /\ Restoring
<1> DEFINE T == KnownBlocks(first)
<1>1. /\ phase = "open" /\ UNCHANGED <<text, rd, phase, first>>
      /\ DocOf(first, ReadBlocks) /\ DocOf(doc, T) /\ Chain(journal, doc, T)
      /\ doc.source # NoSource => doc = first
  BY DEF SessionInv, DocsInv, JournalInv, Edit, readerVars
<1>2. PICK e \in EditsOf(doc) \cup EditsOf(first) :
        IF Expected(doc, e)
        THEN /\ doc' = Applied(doc, e) /\ refused' = "none"
             /\ journal' = Append(journal, [edit |-> e, before |-> [doc EXCEPT !.source = NoSource]])
        ELSE refused' = "edit" /\ UNCHANGED <<doc, journal>>
  BY DEF Edit
<1>3. /\ T \subseteq AllBlocks /\ Fresh \in T
      /\ first.blocks \in Seq(T) /\ doc.blocks \in Seq(T)
  BY <1>1, KnownType DEF DocOf
<1> HIDE DEF T
<1>4. EditOf(e, T)
  BY <1>2, <1>3, EditsType
<1>5. ReadingInv'
  BY <1>1 DEF ReadingInv
<1>6. Len(journal) \in Nat
  BY <1>1, JournalLength
<1>7. CASE Expected(doc, e)
  <2>1. DocOf(doc', T) /\ doc'.source = NoSource
    BY <1>1, <1>2, <1>4, <1>7, AppliedType DEF T
  <2>2. Chain(journal', doc', T)
    BY <1>1, <1>2, <1>3, <1>4, <1>7, ChainEdit
  <2>3. DocsInv'
    BY <1>1, <2>1 DEF DocsInv, T
  <2>4. JournalInv'
    BY <1>1, <1>2, <1>7, <2>2 DEF JournalInv, T
  <2>5. Restoring
    <3>1. PICK S : journal \in Seq(S)
      BY <1>1 DEF Chain
    <3>2. PICK x : journal' = Append(journal, x)
      BY <1>2, <1>7
    <3>3. Len(Append(journal, x)) = Len(journal) + 1
      <4>1. journal \in Seq(S \cup {x}) /\ x \in S \cup {x}
        BY <3>1, S \subseteq S \cup {x}, SeqMonotonic
      <4> QED BY <4>1
    <3>4. ~(Len(journal') < Len(journal))
      BY <1>6, <3>2, <3>3
    <3> QED BY <1>2, <1>7, <3>4 DEF Restoring
  <2> QED BY <1>5, <2>3, <2>4, <2>5 DEF SessionInv
<1>8. CASE ~Expected(doc, e)
  <2>1. refused' = "edit" /\ UNCHANGED <<doc, journal>>
    BY <1>2, <1>8
  <2>2. DocsInv'
    BY <1>1, <2>1 DEF DocsInv, T
  <2>3. JournalInv'
    BY <1>1, <2>1 DEF JournalInv, T
  <2>4. Restoring
    BY <1>6, <2>1 DEF Restoring
  <2> QED BY <1>5, <2>2, <2>3, <2>4 DEF SessionInv
<1> QED BY <1>7, <1>8

\* An undo: the last edit is taken back, or its block is dirty.
LEMMA UndoStep ==
  ASSUME SessionInv, Undo
  PROVE  SessionInv' /\ Restoring
<1> DEFINE T == KnownBlocks(first)
<1>1. /\ phase = "open" /\ UNCHANGED <<text, rd, phase, first>> /\ journal # <<>>
      /\ DocOf(first, ReadBlocks) /\ DocOf(doc, T) /\ Chain(journal, doc, T)
      /\ doc.source # NoSource => doc = first
  BY DEF SessionInv, DocsInv, JournalInv, Undo, readerVars
<1>2. PICK e, b, u : e = Last(journal).edit /\ b = Last(journal).before /\ u = InverseEdit(e)
  OBVIOUS
<1>3. IF Expected(doc, u)
      THEN doc' = Applied(doc, u) /\ journal' = Front(journal) /\ refused' = "none"
      ELSE refused' = "undo" /\ UNCHANGED <<doc, journal>>
  BY <1>2 DEF Undo
<1>4. T \subseteq AllBlocks
  BY <1>1, KnownType
<1> HIDE DEF T
<1>5. /\ EditOf(e, T) /\ DocOf(b, T)
      /\ Expected(doc, u) =>
            /\ Applied(doc, u).title = b.title
            /\ Same(Applied(doc, u).blocks, b.blocks)
            /\ DocOf(Applied(doc, u), AllBlocks)
      /\ ~Expected(doc, u) => Stuck(journal, doc)
  BY <1>1, <1>2, <1>4, ChainLast
<1>6. EditOf(u, T)
  BY <1>2, <1>5, InverseType
<1>7. ReadingInv'
  BY <1>1 DEF ReadingInv
<1>8. Len(journal) \in Nat
  BY <1>1, JournalLength
<1>9. CASE Expected(doc, u)
  <2>1. DocOf(doc', T) /\ doc'.source = NoSource
    BY <1>1, <1>3, <1>6, <1>9, AppliedType DEF T
  <2>2. Chain(journal', doc', T)
    BY <1>1, <1>2, <1>3, <1>4, <1>9, ChainUndo
  <2>3. DocsInv'
    BY <1>1, <2>1 DEF DocsInv, T
  <2>4. JournalInv'
    BY <1>1, <1>3, <1>9, <2>2 DEF JournalInv, T
  <2>5. Restoring
    <3>1. PICK c : c = doc' /\ c = Applied(doc, u)
      BY <1>3, <1>9
    <3>2. c.title = b.title /\ Same(c.blocks, b.blocks) /\ DocOf(c, AllBlocks) /\ DocOf(b, AllBlocks)
      BY <1>4, <1>5, <1>9, <3>1, Widen
    <3>3. Plain(c.blocks) = Plain(b.blocks)
      <4>1. c.blocks \in Seq(AllBlocks) /\ b.blocks \in Seq(AllBlocks)
        BY <3>2 DEF DocOf
      <4> QED BY <3>2, <4>1, SamePlain
    <3> QED BY <1>2, <1>3, <1>9, <3>1, <3>2, <3>3 DEF Restoring
  <2> QED BY <1>7, <2>3, <2>4, <2>5 DEF SessionInv
<1>10. CASE ~Expected(doc, u)
  <2>1. refused' = "undo" /\ UNCHANGED <<doc, journal>> /\ Stuck(journal, doc)
    BY <1>3, <1>5, <1>10
  <2>2. DocsInv'
    BY <1>1, <2>1 DEF DocsInv, T
  <2>3. JournalInv'
    BY <1>1, <2>1 DEF JournalInv, T
  <2>4. Restoring
    BY <1>8, <2>1 DEF Restoring
  <2> QED BY <1>7, <2>2, <2>3, <2>4 DEF SessionInv
<1> QED BY <1>9, <1>10

\* A writer works on the document and reopens its text as another one.
LEMMA WriterStep ==
  ASSUME SessionInv,
         GiveUpReading \/ WriteHtml \/ WriteSource
           \/ \E b \in Readable, keep, strict \in BOOLEAN : Write(b, keep, strict)
  PROVE  SessionInv' /\ Restoring
<1>1. UNCHANGED <<first, doc, journal, refused>> /\ phase' \in {"closed", "rereading"}
  <2>1. CASE GiveUpReading
    BY <2>1 DEF GiveUpReading
  <2>2. CASE WriteHtml
    BY <2>2 DEF WriteHtml, Reopen
  <2>3. CASE WriteSource
    BY <2>3 DEF WriteSource, Reopen
  <2>4. ASSUME NEW b \in Readable, NEW keep \in BOOLEAN, NEW strict \in BOOLEAN,
               Write(b, keep, strict)
        PROVE  UNCHANGED <<first, doc, journal, refused>> /\ phase' \in {"closed", "rereading"}
    BY <2>4 DEF Write, Reopen
  <2> QED BY <2>1, <2>2, <2>3, <2>4
<1> QED BY <1>1, OutsideStep, OutsideRestoring

\* The invariant is inductive.
LEMMA SessionStep ==
  ASSUME SessionInv, [Next]_vars
  PROVE  SessionInv' /\ Restoring
<1>1. CASE SessionNext
  BY <1>1, ReadingStep, FinishStep, EditStep, UndoStep, WriterStep DEF SessionNext
<1>2. CASE UNCHANGED <<readerVars, sessionVars>>
  <2>1. UNCHANGED <<text, rd, phase, first, doc, journal, refused>>
    BY <1>2 DEF readerVars, sessionVars
  <2>2. SessionInv'
    BY <2>1 DEF SessionInv, ReadingInv, DocsInv, JournalInv
  <2> QED BY <2>1, <2>2, OutsideRestoring
<1> QED BY <1>1, <1>2 DEF Next, vars

\* The invariant of a session holds at all times.
LEMMA SessionHolds == Spec => []SessionInv
<1>1. SessionInv /\ [Next]_vars => SessionInv'
  BY SessionStep
<1> QED BY SessionStart, <1>1, PTL DEF Spec

\* For all texts, limits and edits: in a document that was read, active
\* content is in lists only, however badly the elements of an HTML text nest.
THEOREM ActiveTheorem == Spec => []NoActiveContent
<1>1. SessionInv => NoActiveContent
  <2> SUFFICES ASSUME SessionInv, NEW i \in DOMAIN first.blocks, first.blocks[i].k # "list",
                      NEW j \in DOMAIN first.blocks[i].in
               PROVE  first.blocks[i].in[j].c # "active"
    BY DEF NoActiveContent
  <2>1. first.blocks \in Seq(ReadBlocks)
    BY DEF SessionInv, DocsInv, DocOf
  <2>2. first.blocks[i] \in ReadBlocks
    BY <2>1
  <2>3. first.blocks[i].in \in Seq(CleanPhrases)
    BY <2>2 DEF ReadBlocks
  <2>4. first.blocks[i].in[j] \in CleanPhrases
    BY <2>3
  <2> QED BY <2>4 DEF CleanPhrases
<1> QED BY SessionHolds, <1>1, PTL

\* For all texts, limits and edits: a document that has its source is what
\* was read from it, and preserved spans are those of blocks that were read.
THEOREM VerbatimTheorem == Spec => []VerbatimIsCurrent
<1>1. SessionInv => VerbatimIsCurrent
  <2> SUFFICES ASSUME SessionInv PROVE VerbatimIsCurrent
    OBVIOUS
  <2>1. /\ doc.source # NoSource => doc = first
        /\ doc.blocks \in Seq(KnownBlocks(first))
    BY DEF SessionInv, DocsInv, DocOf
  <2>2. \A i \in DOMAIN doc.blocks : doc.blocks[i] \in KnownBlocks(first)
    BY <2>1
  <2> QED BY <2>1, <2>2 DEF VerbatimIsCurrent, KnownBlocks
<1> QED BY SessionHolds, <1>1, PTL

\* For all texts, limits and edits: an edit that is taken back leaves title
\* and blocks as they were before it, and one that cannot be taken back put a
\* block with a preserved span where it is dirty now.
THEOREM UndoTheorem == Spec => UndoRestores
<1>1. SessionInv /\ [Next]_vars => Restoring
  BY SessionStep
<1> QED BY SessionHolds, <1>1, PTL DEF Spec, UndoRestores, Restoring, Stuck

(***************************************************************************)
(* What a construct leaves.                                                *)
(***************************************************************************)

\* The tables of block constructs.
LEMMA BlockTable ==
  ASSUME NEW b \in Readable, NEW n \in DOMAIN BlockReading[b]
  PROVE  /\ b = "markdown" /\ n = "figure" => BlockReading[b][n] = "para"
         /\ b = "latex" => (BlockReading[b][n] = "quote" <=> n = "quote")
         /\ n \notin {"line", "inline", "item", "space", "parbreak", "blank", "comment", "wrapper",
                      "title", "doctitle", "rest", "argument", "empty", "delimiter"}
              \/ (b = "asciidoc" /\ n = "comment")
         /\ b = "asciidoc" /\ n = "directive" => BlockReading[b][n] = "raw"
<1>1. b = "markdown" /\ n = "figure" => BlockReading[b][n] = "para"
  BY SMT DEF BlockReading
<1>2. b = "latex" => (BlockReading[b][n] = "quote" <=> n = "quote")
  BY SMT DEF BlockReading
<1>3. n \notin {"line", "inline", "item", "space", "parbreak", "blank", "comment", "wrapper",
                "title", "doctitle", "rest", "argument", "empty", "delimiter"}
         \/ (b = "asciidoc" /\ n = "comment")
  BY SMT DEF BlockReading, Readable
<1>4. b = "asciidoc" /\ n = "directive" => BlockReading[b][n] = "raw"
  BY SMT DEF BlockReading
<1> QED BY <1>1, <1>2, <1>3, <1>4

\* The inlines without a name are those that leave nothing.
LEMMA UnnamedTable ==
  ASSUME NEW b \in Readable, NEW k \in DOMAIN InlineReading[b]
  PROVE  k \notin UnnamedInlines[b] <=> InlineReading[b][k] # "silent"
BY SMT DEF InlineReading, UnnamedInlines, Readable

\* Inlines that are not silent are read or reported, and reported ones are
\* lost unless raw fragments are kept.
LEMMA InlinesAccounted ==
  ASSUME NEW b \in Readable, NEW keep \in BOOLEAN, NEW in \in Seq(PhrasesOf(b))
  PROVE  /\ Voiced(b, in) \in Nat /\ ReportedInlines(b, in) \in Nat
         /\ Len(ReadInlines(b, keep, in)) \in Nat
         /\ Voiced(b, in) = Len(ReadInlines(b, keep, in))
                              + (IF keep THEN 0 ELSE ReportedInlines(b, in))
<1> DEFINE A == {x \in Range(in) : Survives(b, keep, x)}
           B == {x \in Range(in) : InlineReading[b][x.k] \in {"raw", "stub"}}
           C == {x \in Range(in) : InlineReading[b][x.k] # "silent"}
<1>1. \A i \in 1..Len(in) : in[i] \in Range(in)
  BY DEF Range
<1>2. Len(ReadInlines(b, keep, in)) = Len(Only(in, A))
  <2>1. Only(in, A) \in Seq(PhrasesOf(b) \cap A)
    BY OnlyType
  <2>2. PICK s : s = Only(in, A)
    OBVIOUS
  <2>3. s \in Seq(PhrasesOf(b) \cap A)
    BY <2>1, <2>2
  <2>4. ReadInlines(b, keep, in) = [i \in DOMAIN s |-> InlineOf(b, s[i])]
    BY <2>2 DEF ReadInlines
  <2>5. DOMAIN s = 1..Len(s) /\ Len(s) \in Nat
    BY <2>3
  <2>6. Len([i \in 1..Len(s) |-> InlineOf(b, s[i])]) = Len(s)
    BY <2>5
  <2> QED BY <2>2, <2>4, <2>5, <2>6
<1>3. Voiced(b, in) = Len(Only(in, C)) /\ ReportedInlines(b, in) = Len(Only(in, B))
  <2>1. \A x \in Range(in) : x \in PhrasesOf(b)
    BY DEF Range
  <2>2. \A x \in Range(in) : x.k \notin UnnamedInlines[b] <=> InlineReading[b][x.k] # "silent"
    BY <2>1, UnnamedTable DEF PhrasesOf
  <2>3. {x \in Range(in) : x.k \notin UnnamedInlines[b]} = C
    BY <2>2
  <2> HIDE DEF C
  <2> QED BY <2>3 DEF Voiced, ReportedInlines
<1>4. CASE keep
  <2>1. \A x \in Range(in) : x \in A <=> x \in C
    BY <1>4 DEF Survives
  <2>2. A = C
    BY <2>1
  <2>3. Len(Only(in, A)) \in Nat /\ Len(Only(in, B)) \in Nat
    <3>1. Only(in, A) \in Seq(PhrasesOf(b) \cap A)
      BY OnlyType
    <3>2. Only(in, B) \in Seq(PhrasesOf(b) \cap B)
      BY OnlyType
    <3> HIDE DEF A, B
    <3> QED BY <3>1, <3>2, LenProperties
  <2>4. PICK v, rep, l : v = Voiced(b, in) /\ rep = ReportedInlines(b, in)
                        /\ l = Len(ReadInlines(b, keep, in))
    OBVIOUS
  <2>5. v = l /\ l \in Nat /\ rep \in Nat
    <3> HIDE DEF A, B, C
    <3> QED BY <1>2, <1>3, <2>2, <2>3, <2>4
  <2>6. (IF keep THEN 0 ELSE rep) = 0 /\ v \in Nat /\ v = l + 0
    BY <1>4, <2>5
  <2> QED BY <2>4, <2>5, <2>6
<1>5. CASE ~keep
  <2>1. \A x \in Range(in) : (x \in C <=> (x \in A \/ x \in B)) /\ ~(x \in A /\ x \in B)
    BY <1>5 DEF Survives
  <2> HIDE DEF A, B, C
  <2>2. \A i \in 1..Len(in) : (in[i] \in C <=> (in[i] \in A \/ in[i] \in B)) /\ ~(in[i] \in A /\ in[i] \in B)
    BY <1>1, <2>1
  <2>3. /\ Len(Only(in, A)) \in Nat /\ Len(Only(in, B)) \in Nat
        /\ Len(Only(in, C)) = Len(Only(in, A)) + Len(Only(in, B))
    BY <2>2, OnlyParts
  <2> QED BY <1>2, <1>3, <1>5, <2>3
<1> QED BY <1>4, <1>5

\* What a block construct stands for is kept by its block, or reported and
\* lost.
Accounted(b, s, nd, n, lost) ==
    \/ s = <<>> /\ n = lost
    \/ \E blk \in CleanBlocks : /\ s = <<blk>> /\ blk.id = WordingOf(b, nd)
                               /\ Kept(blk) \in Nat /\ n = Kept(blk) + lost

\* Every block construct is accounted for.
LEMMA BlocksAccounted ==
  ASSUME NEW b \in Readable, NEW keep \in BOOLEAN, NEW nd \in Constructed(b),
         nd.n \in DOMAIN BlockReading[b]
  PROVE  /\ Reports(b, nd) \in Nat
         /\ Accounted(b, BlocksOf(b, keep, nd), nd, Constructs(b, nd),
                      IF keep THEN 0 ELSE Reports(b, nd))
<1>1. nd.in \in Seq(PhrasesOf(b))
  <2>1. nd.in \in Seq(Phrases)
    BY DEF Constructed
  <2>2. \A j \in 1..Len(nd.in) : nd.in[j] \in PhrasesOf(b)
    BY <2>1 DEF Constructed, PhrasesOf
  <2> QED BY <2>1, <2>2
<1>2. PICK v : v = Voiced(b, nd.in)
  OBVIOUS
<1>3. PICK k : k = BlockReading[b][nd.n]
  OBVIOUS
<1>4. PICK rep : rep = ReportedInlines(b, nd.in)
  OBVIOUS
<1>5. PICK read : read = ReadInlines(b, keep, nd.in)
  OBVIOUS
<1>6. /\ v \in Nat /\ rep \in Nat /\ Len(read) \in Nat
      /\ v = Len(read) + (IF keep THEN 0 ELSE rep)
  BY <1>1, <1>2, <1>4, <1>5, InlinesAccounted
<1> DEFINE figure == b = "markdown" /\ nd.n = "figure"
           quote == b = "latex" /\ nd.n = "quote" /\ StartsWithCommand(nd.in)
<1>7. /\ figure => k = "para"
      /\ b = "latex" => (k = "quote" <=> nd.n = "quote")
  BY <1>3, BlockTable
<1>8. Constructs(b, nd) = IF k \in {"raw", "stub", "math", "code"} \/ figure \/ quote THEN 1 ELSE v
  <2>1. Constructs(b, nd) = IF \/ k \in {"raw", "stub", "math", "code"} \/ figure
                               \/ b = "latex" /\ nd.n = "quote" /\ StartsWithCommand(nd.in)
                            THEN 1 ELSE v
    <3>1. nd.n \in DOMAIN BlockReading[b] /\ nd.n \notin {"line", "inline", "item"}
      BY BlockTable
    <3> QED BY <1>2, <1>3, <3>1 DEF Constructs, Standing
  <2> QED BY <2>1
<1>9. Reports(b, nd) = IF k \in {"raw", "stub"} \/ figure \/ quote THEN 1
                       ELSE IF k \in {"math", "code"} THEN 0 ELSE rep
  <2>1. Reports(b, nd) = CASE k \in {"raw", "stub"} \/ figure -> 1
                           [] b = "latex" /\ k = "quote" /\ StartsWithCommand(nd.in) -> 1
                           [] k \in {"math", "code"} -> 0
                           [] OTHER -> rep
    BY <1>3, <1>4 DEF Reports
  <2>2. b = "latex" /\ k = "quote" /\ StartsWithCommand(nd.in) <=> quote
    BY <1>7
  <2>3. figure \/ quote => k \notin {"raw", "stub", "math", "code"}
    BY <1>7
  <2> HIDE DEF figure, quote
  <2> QED BY <2>1, <2>2, <2>3
<1> DEFINE raw == [k |-> "raw", c |-> b]
           in == IF k \in {"math", "raw", "stub", "code"} THEN <<>>
                 ELSE IF figure \/ quote THEN IF keep THEN <<raw>> ELSE <<>> ELSE read
<1>10. InlinesOf(b, keep, nd) = in
  BY <1>3, <1>5 DEF InlinesOf
<1> HIDE DEF raw
<1>11. PICK x : x = in
  OBVIOUS
<1>12. PICK a : a = AttributeOf(b, nd)
  OBVIOUS
<1> DEFINE none == (k \in {"raw", "stub"} /\ ~keep) \/ (b = "asciidoc" /\ k = "para" /\ x = <<>>)
           blk == [Block(IF k = "stub" THEN "raw" ELSE k, a, x, WordingOf(b, nd))
                     EXCEPT !.sp = IF Spanless(nd) THEN "none" ELSE @]
<1>13. BlocksOf(b, keep, nd) = IF none THEN <<>> ELSE <<blk>>
  BY <1>3, <1>10, <1>11, <1>12 DEF BlocksOf
<1>14. ~none => blk \in CleanBlocks
  <2>1. BlocksOf(b, keep, nd) \in Seq(CleanBlocks)
    BY BlocksType
  <2> HIDE DEF none, blk
  <2>2. ASSUME ~none PROVE blk \in CleanBlocks
    <3>1. <<blk>> \in Seq(CleanBlocks)
      BY <1>13, <2>1, <2>2
    <3>2. Len(<<blk>>) = 1 /\ <<blk>>[1] = blk
      OBVIOUS
    <3> QED BY <3>1, <3>2, ElementOfSeq
  <2> QED BY <2>2
<1>15. /\ blk.id = WordingOf(b, nd) /\ blk.in = x
       /\ blk.k = IF k = "stub" THEN "raw" ELSE k
  BY DEF Block
<1>16. Kept(blk) = IF k \in {"raw", "stub", "math", "code"} THEN 1 ELSE Len(x)
  <2> HIDE DEF blk
  <2> QED BY <1>15 DEF Kept
<1>17. Len(x) = IF k \in {"math", "raw", "stub", "code"} THEN 0
                ELSE IF figure \/ quote THEN IF keep THEN 1 ELSE 0 ELSE Len(read)
  <2> HIDE DEF figure, quote
  <2>1. Len(<<>>) = 0 /\ Len(<<raw>>) = 1
    OBVIOUS
  <2> QED BY <1>11, <2>1
<1>18. x = <<>> => Len(x) = 0
  OBVIOUS
<1>19. Reports(b, nd) \in Nat
  BY <1>6, <1>9
<1> DEFINE lost == IF keep THEN 0 ELSE Reports(b, nd)
<1>20. CASE none
  <2>1. Constructs(b, nd) = lost
    <3>1. CASE k \in {"raw", "stub"} /\ ~keep
      BY <1>8, <1>9, <3>1
    <3>2. CASE b = "asciidoc" /\ k = "para" /\ x = <<>>
      <4>1. ~figure /\ ~quote
        BY <3>2
      <4>2. Constructs(b, nd) = v /\ Reports(b, nd) = rep /\ Len(read) = 0
        BY <1>8, <1>9, <1>17, <1>18, <3>2, <4>1
      <4> QED BY <1>6, <4>2
    <3> QED BY <1>20, <3>1, <3>2
  <2>2. BlocksOf(b, keep, nd) = <<>>
    BY <1>13, <1>20
  <2> QED BY <1>19, <2>1, <2>2 DEF Accounted
<1>21. CASE ~none
  <2>1. Kept(blk) \in Nat /\ Constructs(b, nd) = Kept(blk) + lost
    <3> HIDE DEF blk
    <3>1. CASE k \in {"raw", "stub"}
      <4>1. keep
        BY <1>21, <3>1
      <4> QED BY <1>8, <1>16, <3>1, <4>1
    <3>2. CASE k \in {"math", "code"}
      <4>1. ~figure /\ ~quote
        BY <1>7, <3>2
      <4>2. Constructs(b, nd) = 1 /\ Reports(b, nd) = 0 /\ Kept(blk) = 1
        BY <1>8, <1>9, <1>16, <3>2, <4>1
      <4> QED BY <4>2
    <3>3. CASE k \notin {"raw", "stub", "math", "code"} /\ (figure \/ quote)
      <4>1. Constructs(b, nd) = 1 /\ Reports(b, nd) = 1 /\ Kept(blk) = (IF keep THEN 1 ELSE 0)
        BY <1>8, <1>9, <1>16, <1>17, <3>3
      <4> QED BY <4>1
    <3>4. CASE k \notin {"raw", "stub", "math", "code"} /\ ~(figure \/ quote)
      <4>1. Constructs(b, nd) = v /\ Reports(b, nd) = rep /\ Kept(blk) = Len(read)
        BY <1>8, <1>9, <1>16, <1>17, <3>4
      <4> QED BY <1>6, <4>1
    <3> QED BY <3>1, <3>2, <3>3, <3>4
  <2>2. BlocksOf(b, keep, nd) = <<blk>>
    BY <1>13, <1>21
  <2>3. PICK y : y = blk
    OBVIOUS
  <2>4. y \in CleanBlocks /\ y.id = WordingOf(b, nd)
    BY <1>14, <1>15, <1>21, <2>3
  <2> HIDE DEF blk, none
  <2> QED BY <1>19, <2>1, <2>2, <2>3, <2>4 DEF Accounted
<1> QED BY <1>19, <1>20, <1>21

(***************************************************************************)
(* What items keep.                                                        *)
(***************************************************************************)

\* How many constructs items keep.
Weigh(s) == Total([i \in DOMAIN s |-> Kept(s[i].blk)])

\* A block keeps a number of constructs.
LEMMA KeptType ==
  ASSUME NEW x \in Items
  PROVE  Kept(x.blk) \in Nat
<1>1. x.blk.in \in Seq(CleanPhrases)
  BY DEF Items, CleanBlocks
<1> QED BY <1>1 DEF Kept

\* Nothing keeps nothing, and an item what its block keeps.
LEMMA WeighType ==
  ASSUME NEW s \in Seq(Items)
  PROVE  /\ [i \in DOMAIN s |-> Kept(s[i].blk)] \in Seq(Nat)
         /\ Len([i \in DOMAIN s |-> Kept(s[i].blk)]) = Len(s)
         /\ Weigh(s) \in Nat
         /\ s = <<>> => Weigh(s) = 0
         /\ \A x : s = <<x>> => Weigh(s) = Kept(x.blk)
<1> DEFINE w == [i \in DOMAIN s |-> Kept(s[i].blk)]
<1>1. DOMAIN s = 1..Len(s) /\ Len(s) \in Nat /\ \A i \in 1..Len(s) : s[i] \in Items
  OBVIOUS
<1>2. \A i \in 1..Len(s) : Kept(s[i].blk) \in Nat
  BY <1>1, KeptType
<1>3. w \in Seq(Nat) /\ Len(w) = Len(s) /\ \A i \in 1..Len(s) : w[i] = Kept(s[i].blk)
  BY <1>1, <1>2
<1> HIDE DEF w
<1>4. Total(w) = Sums(w)[Len(w)] /\ Sums(w)[0] = 0
  BY <1>3, SumsSteps
<1>5. Weigh(s) = Total(w)
  BY DEF Weigh, w
<1>6. Sums(w)[Len(w)] \in Nat
  <2>1. Len(w) \in 0..Len(w)
    BY <1>1, <1>3
  <2> QED BY <1>3, <2>1, SumsSteps
<1>7. s = <<>> => Weigh(s) = 0
  <2>1. s = <<>> => Len(s) = 0
    OBVIOUS
  <2> QED BY <1>3, <1>4, <1>5, <2>1
<1>8. ASSUME NEW x, s = <<x>> PROVE Weigh(s) = Kept(x.blk)
  <2>1. Len(s) = 1 /\ s[1] = x
    BY <1>8
  <2>2. 1 \in 1..Len(w) /\ 1 - 1 = 0 /\ Len(w) = 1
    BY <1>3, <2>1
  <2>3. Sums(w)[1] = Sums(w)[1 - 1] + w[1]
    BY <1>3, <2>2, SumsSteps
  <2>4. w[1] = Kept(x.blk) /\ w[1] \in Nat
    BY <1>2, <1>3, <2>1, <2>2
  <2> QED BY <1>4, <1>5, <2>2, <2>3, <2>4
<1> QED BY <1>3, <1>4, <1>5, <1>6, <1>7, <1>8 DEF w

\* Items behind others keep what both keep.
LEMMA WeighJoin ==
  ASSUME NEW s \in Seq(Items), NEW u \in Seq(Items)
  PROVE  s \o u \in Seq(Items) /\ Weigh(s \o u) = Weigh(s) + Weigh(u)
<1> DEFINE W(v) == [i \in DOMAIN v |-> Kept(v[i].blk)]
<1>1. s \o u \in Seq(Items) /\ Behind(s \o u, s, u, Len(s), Len(u))
  BY JoinType
<1>2. PICK v \in Seq(Items) : v = s \o u
  BY <1>1
<1>3. /\ Len(v) = Len(s) + Len(u)
      /\ \A j \in 1..Len(s) : v[j] = s[j]
      /\ \A j \in (Len(s) + 1)..(Len(s) + Len(u)) : v[j] = u[j - Len(s)]
  BY <1>1, <1>2 DEF Behind
<1>4. ASSUME NEW x \in Seq(Items)
      PROVE  /\ W(x) \in Seq(Nat) /\ Len(W(x)) = Len(x)
             /\ \A i \in 1..Len(x) : W(x)[i] = Kept(x[i].blk)
  <2>1. DOMAIN x = 1..Len(x)
    OBVIOUS
  <2> QED BY <2>1, WeighType
<1> HIDE DEF W
<1>5. PICK a \in Seq(Nat), b \in Seq(Nat), c \in Seq(Nat) : a = W(s) /\ b = W(u) /\ c = W(v)
  BY <1>4
<1>6. /\ Len(a) = Len(s) /\ Len(b) = Len(u) /\ Len(c) = Len(a) + Len(b)
      /\ Len(s) \in Nat /\ Len(u) \in Nat
  BY <1>3, <1>4, <1>5
<1>7. \A j \in 1..Len(a) : c[j] = a[j]
  <2> SUFFICES ASSUME NEW j \in 1..Len(a) PROVE c[j] = a[j]
    OBVIOUS
  <2>1. j \in 1..Len(s) /\ j \in 1..Len(v)
    BY <1>3, <1>6
  <2>2. a[j] = Kept(s[j].blk)
    BY <1>4, <1>5, <2>1
  <2>3. c[j] = Kept(v[j].blk)
    BY <1>4, <1>5, <2>1
  <2> QED BY <1>3, <2>1, <2>2, <2>3
<1>8. \A j \in 1..Len(b) : c[Len(a) + j] = b[j]
  <2> SUFFICES ASSUME NEW j \in 1..Len(b) PROVE c[Len(a) + j] = b[j]
    OBVIOUS
  <2>1. /\ j \in 1..Len(u) /\ Len(a) + j \in 1..Len(v) /\ (Len(a) + j) - Len(s) = j
        /\ Len(a) + j \in (Len(s) + 1)..(Len(s) + Len(u))
    BY <1>3, <1>6
  <2>2. b[j] = Kept(u[j].blk)
    BY <1>4, <1>5, <2>1
  <2>3. c[Len(a) + j] = Kept(v[Len(a) + j].blk)
    BY <1>4, <1>5, <2>1
  <2>4. v[Len(a) + j] = u[j]
    BY <1>3, <2>1
  <2> QED BY <2>2, <2>3, <2>4
<1>9. c = a \o b
  <2>1. a \o b \in Seq(Nat) /\ Behind(a \o b, a, b, Len(a), Len(b))
    BY JoinType
  <2>2. PICK d \in Seq(Nat) : d = a \o b
    BY <2>1
  <2>3. /\ Len(d) = Len(a) + Len(b)
        /\ \A j \in 1..Len(a) : d[j] = a[j]
        /\ \A j \in (Len(a) + 1)..(Len(a) + Len(b)) : d[j] = b[j - Len(a)]
    BY <2>1, <2>2 DEF Behind
  <2>4. ASSUME NEW j \in 1..Len(c) PROVE c[j] = d[j]
    <3>1. CASE j \in 1..Len(a)
      BY <1>7, <2>3, <3>1
    <3>2. CASE j \notin 1..Len(a)
      <4>1. j \in (Len(a) + 1)..(Len(a) + Len(b)) /\ j - Len(a) \in 1..Len(b)
             /\ Len(a) + (j - Len(a)) = j
        BY <1>6, <3>2
      <4>2. d[j] = b[j - Len(a)]
        BY <2>3, <4>1
      <4>3. c[Len(a) + (j - Len(a))] = b[j - Len(a)]
        BY <1>8, <4>1
      <4> QED BY <4>1, <4>2, <4>3
    <3> QED BY <3>1, <3>2
  <2>5. Len(c) = Len(d)
    BY <1>6, <2>3
  <2>6. c = d
    BY <2>4, <2>5, SeqEqual
  <2> QED BY <2>2, <2>6
<1>10. Total(c) = Total(a) + Total(b)
  BY <1>9, TotalJoin
<1> QED BY <1>1, <1>2, <1>5, <1>10 DEF Weigh, W

(***************************************************************************)
(* Items in the order of a text.                                           *)
(***************************************************************************)

\* Items with the wording of constructs from lo on and before hi; d tells
\* AsciiDoc directives from other constructs.
ItemsOf(t, d, lo, hi) ==
    {x \in Items : /\ x.at \in lo..(hi - 1) /\ x.blk.id = WordingOf(t.lang, t.nodes[x.at])
                   /\ t.lang = "asciidoc" => (d <=> t.nodes[x.at].n = "directive")}

InTurn(t, d, lo, hi) ==
    {s \in Seq(ItemsOf(t, d, lo, hi)) : \A i, j \in 1..Len(s) : i < j => s[i].at < s[j].at}

\* A pending paragraph or list.
Waiting(t, lo, hi, k) ==
    {<<>>} \cup {<<x>> : x \in {y \in ItemsOf(t, FALSE, lo, hi) : y.blk.k = k}}

\* No item and one item are in turn.
LEMMA TurnsType ==
  ASSUME NEW t, NEW d, NEW lo \in Nat, NEW hi \in Nat
  PROVE  /\ InTurn(t, d, lo, hi) \subseteq Seq(Items)
         /\ <<>> \in InTurn(t, d, lo, hi)
         /\ \A x \in ItemsOf(t, d, lo, hi) : <<x>> \in InTurn(t, d, lo, hi)
<1>1. ItemsOf(t, d, lo, hi) \subseteq Items
  BY DEF ItemsOf
<1>2. InTurn(t, d, lo, hi) \subseteq Seq(Items)
  <2>1. Seq(ItemsOf(t, d, lo, hi)) \subseteq Seq(Items)
    BY <1>1, SeqMonotonic
  <2> QED BY <2>1 DEF InTurn
<1>3. <<>> \in InTurn(t, d, lo, hi)
  <2>1. <<>> \in Seq(ItemsOf(t, d, lo, hi)) /\ Len(<<>>) = 0
    OBVIOUS
  <2>2. PICK e : e = <<>>
    OBVIOUS
  <2> QED BY <2>1, <2>2 DEF InTurn
<1>4. ASSUME NEW x \in ItemsOf(t, d, lo, hi) PROVE <<x>> \in InTurn(t, d, lo, hi)
  <2>1. <<x>> \in Seq(ItemsOf(t, d, lo, hi)) /\ Len(<<x>>) = 1
    OBVIOUS
  <2>2. PICK e : e = <<x>>
    OBVIOUS
  <2>3. \A i, j \in 1..Len(e) : ~(i < j)
    BY <2>1, <2>2
  <2> QED BY <2>1, <2>2, <2>3 DEF InTurn
<1> QED BY <1>2, <1>3, <1>4

\* Items of a part of a text are items of a wider one.
LEMMA TurnsWiden ==
  ASSUME NEW t, NEW d, NEW lo \in Nat, NEW mid \in Nat, NEW hi \in Nat, mid <= hi
  PROVE  /\ InTurn(t, d, lo, mid) \subseteq InTurn(t, d, lo, hi)
         /\ ItemsOf(t, d, lo, mid) \subseteq ItemsOf(t, d, lo, hi)
         /\ \A k : Waiting(t, lo, mid, k) \subseteq Waiting(t, lo, hi, k)
<1>1. ItemsOf(t, d, lo, mid) \subseteq ItemsOf(t, d, lo, hi)
  BY DEF ItemsOf
<1>2. InTurn(t, d, lo, mid) \subseteq InTurn(t, d, lo, hi)
  <2>1. Seq(ItemsOf(t, d, lo, mid)) \subseteq Seq(ItemsOf(t, d, lo, hi))
    BY <1>1, SeqMonotonic
  <2> QED BY <2>1 DEF InTurn
<1>3. ItemsOf(t, FALSE, lo, mid) \subseteq ItemsOf(t, FALSE, lo, hi)
  BY DEF ItemsOf
<1>4. \A k : Waiting(t, lo, mid, k) \subseteq Waiting(t, lo, hi, k)
  BY <1>3 DEF Waiting
<1> QED BY <1>1, <1>2, <1>4

\* Items behind earlier ones are in turn.
LEMMA TurnsJoin ==
  ASSUME NEW t, NEW d, NEW lo \in Nat, NEW mid \in Nat, NEW hi \in Nat, lo <= mid, mid <= hi,
         NEW s \in InTurn(t, d, lo, mid), NEW u \in InTurn(t, d, mid, hi)
  PROVE  s \o u \in InTurn(t, d, lo, hi)
<1>1. PICK S : S = ItemsOf(t, d, lo, hi)
  OBVIOUS
<1>2. s \in Seq(S) /\ u \in Seq(S)
  <2>1. ItemsOf(t, d, lo, mid) \subseteq S /\ ItemsOf(t, d, mid, hi) \subseteq S
    BY <1>1 DEF ItemsOf
  <2>2. s \in Seq(ItemsOf(t, d, lo, mid)) /\ u \in Seq(ItemsOf(t, d, mid, hi))
    BY DEF InTurn
  <2> QED BY <2>1, <2>2, SeqMonotonic
<1>3. s \o u \in Seq(S) /\ Behind(s \o u, s, u, Len(s), Len(u))
  BY <1>2, JoinType
<1>4. PICK v \in Seq(S) : v = s \o u
  BY <1>3
<1>5. /\ Len(v) = Len(s) + Len(u) /\ Len(s) \in Nat /\ Len(u) \in Nat
      /\ \A j \in 1..Len(s) : v[j] = s[j]
      /\ \A j \in (Len(s) + 1)..(Len(s) + Len(u)) : v[j] = u[j - Len(s)]
  BY <1>2, <1>3, <1>4 DEF Behind
<1>6. /\ \A i, j \in 1..Len(s) : i < j => s[i].at < s[j].at
      /\ \A i, j \in 1..Len(u) : i < j => u[i].at < u[j].at
  BY DEF InTurn
<1>7. \A i \in 1..Len(s) : s[i].at \in lo..(mid - 1)
  <2>1. s \in Seq(ItemsOf(t, d, lo, mid))
    BY DEF InTurn
  <2> QED BY <2>1 DEF ItemsOf
<1>8. \A i \in 1..Len(u) : u[i].at \in mid..(hi - 1)
  <2>1. u \in Seq(ItemsOf(t, d, mid, hi))
    BY DEF InTurn
  <2> QED BY <2>1 DEF ItemsOf
<1>9. ASSUME NEW i \in 1..Len(v), NEW j \in 1..Len(v), i < j PROVE v[i].at < v[j].at
  <2>1. CASE j \in 1..Len(s)
    <3>1. i \in 1..Len(s)
      BY <1>9, <2>1
    <3> QED BY <1>5, <1>6, <1>9, <2>1, <3>1
  <2>2. CASE j \notin 1..Len(s)
    <3>1. j \in (Len(s) + 1)..(Len(s) + Len(u)) /\ j - Len(s) \in 1..Len(u)
      BY <1>5, <2>2
    <3>2. v[j] = u[j - Len(s)]
      BY <1>5, <3>1
    <3>3. CASE i \in 1..Len(s)
      <4>1. v[i] = s[i] /\ s[i].at \in lo..(mid - 1) /\ u[j - Len(s)].at \in mid..(hi - 1)
        BY <1>5, <1>7, <1>8, <3>1, <3>3
      <4> QED BY <3>2, <4>1
    <3>4. CASE i \notin 1..Len(s)
      <4>1. i \in (Len(s) + 1)..(Len(s) + Len(u)) /\ i - Len(s) \in 1..Len(u)
             /\ i - Len(s) < j - Len(s)
        BY <1>5, <1>9, <3>4
      <4>2. v[i] = u[i - Len(s)]
        BY <1>5, <4>1
      <4> QED BY <1>6, <3>1, <3>2, <4>1, <4>2
    <3> QED BY <3>3, <3>4
  <2> QED BY <2>1, <2>2
<1>10. v \in InTurn(t, d, lo, hi)
  BY <1>1, <1>9 DEF InTurn
<1> QED BY <1>4, <1>10

\* One item, of a kind.
Single(s, x, k) == s = <<x>> /\ s[1] = x /\ x.blk.k = k

\* What is pending is in turn, and is nothing or one item.
LEMMA WaitingType ==
  ASSUME NEW t, NEW lo \in Nat, NEW hi \in Nat, NEW k, NEW s \in Waiting(t, lo, hi, k)
  PROVE  /\ s \in InTurn(t, FALSE, lo, hi)
         /\ s = <<>> \/ \E x \in ItemsOf(t, FALSE, lo, hi) : Single(s, x, k)
<1>1. CASE s = <<>>
  BY <1>1, TurnsType
<1>2. CASE s # <<>>
  <2>1. PICK x \in ItemsOf(t, FALSE, lo, hi) : s = <<x>> /\ x.blk.k = k
    BY <1>2 DEF Waiting
  <2>2. <<x>>[1] = x
    OBVIOUS
  <2> QED BY <2>1, <2>2, TurnsType DEF Single
<1> QED BY <1>1, <1>2

\* What is pending and not nothing is one item of its kind.
LEMMA WaitingOne ==
  ASSUME NEW t, NEW lo \in Nat, NEW hi \in Nat, NEW k, NEW s \in Waiting(t, lo, hi, k), s # <<>>
  PROVE  \E x \in ItemsOf(t, FALSE, lo, hi) : Single(s, x, k)
<1>1. PICK x \in ItemsOf(t, FALSE, lo, hi) : s = <<x>> /\ x.blk.k = k
  BY DEF Waiting
<1>2. <<x>>[1] = x
  OBVIOUS
<1>3. Single(s, x, k)
  BY <1>1, <1>2 DEF Single
<1> QED BY <1>1, <1>3

(***************************************************************************)
(* The account of a reader.                                                *)
(***************************************************************************)

\* A reader that has what c constructs of the text t before place hi left:
\* blocks in turn, a paragraph or a list behind them, directives of an
\* AsciiDoc text, and losses, none if raw fragments are kept.
Carried(r) == Weigh(r.got) + Weigh(r.para) + Weigh(r.list) + Weigh(r.dirs) + r.lost

Behaves(t, r, mid, hi) ==
    /\ r.got \in InTurn(t, FALSE, 1, mid)
    /\ r.para \in Waiting(t, mid, hi, "para")
    /\ r.list \in Waiting(t, mid, hi, "list")

Account(t, r, hi, c) ==
    /\ r \in Readers
    /\ \E mid \in 1..hi : Behaves(t, r, mid, hi)
    /\ r.para = <<>> \/ r.list = <<>>
    /\ r.dirs \in InTurn(t, TRUE, 1, hi)
    /\ t.lang = "asciidoc" => r.para = <<>> /\ r.list = <<>>
    /\ t.lang # "asciidoc" => r.dirs = <<>>
    /\ t.lang # "typst" => r.list = <<>>
    /\ t.keep => r.lost = 0
    /\ Carried(r) = c

\* A reader with the same findings has the same account.
LEMMA AccountSame ==
  ASSUME NEW t, NEW r, NEW hi, NEW c, Account(t, r, hi, c), NEW q \in Readers,
         q.got = r.got, q.para = r.para, q.list = r.list, q.dirs = r.dirs, q.lost = r.lost
  PROVE  Account(t, q, hi, c)
BY DEF Account, Behaves, Carried

\* So has one that saw more constructs and found nothing in them.
LEMMA AccountWiden ==
  ASSUME NEW t, NEW r, NEW hi \in Nat \ {0}, NEW c, Account(t, r, hi, c)
  PROVE  Account(t, r, hi + 1, c)
<1>1. PICK mid \in 1..hi : Behaves(t, r, mid, hi)
  BY DEF Account
<1>2. mid \in 1..(hi + 1) /\ mid \in Nat /\ hi <= hi + 1 /\ hi + 1 \in Nat /\ hi \in Nat /\ 1 \in Nat
  OBVIOUS
<1>3. /\ \A k : Waiting(t, mid, hi, k) \subseteq Waiting(t, mid, hi + 1, k)
      /\ InTurn(t, TRUE, 1, hi) \subseteq InTurn(t, TRUE, 1, hi + 1)
  BY <1>2, TurnsWiden
<1>4. Behaves(t, r, mid, hi + 1)
  BY <1>1, <1>3 DEF Behaves
<1> QED BY <1>2, <1>3, <1>4 DEF Account

\* The weights are numbers.
LEMMA AccountWeights ==
  ASSUME NEW r \in Readers
  PROVE  /\ Weigh(r.got) \in Nat /\ Weigh(r.para) \in Nat /\ Weigh(r.list) \in Nat
         /\ Weigh(r.dirs) \in Nat /\ r.lost \in Nat /\ Weigh(<<>>) = 0 /\ Carried(r) \in Nat
<1>1. <<>> \in Seq(Items)
  OBVIOUS
<1>2. Weigh(<<>>) = 0
  BY <1>1, WeighType
<1>3. /\ Weigh(r.got) \in Nat /\ Weigh(r.para) \in Nat /\ Weigh(r.list) \in Nat
      /\ Weigh(r.dirs) \in Nat /\ r.lost \in Nat
  BY ReaderFields, WeighType
<1> QED BY <1>2, <1>3 DEF Carried

\* Nothing is read at first.
LEMMA AccountStart ==
  ASSUME NEW t
  PROVE  Account(t, NewReader, 1, 0)
<1>1. PICK r : r = NewReader
  OBVIOUS
<1>2. PICK e : e = <<>>
  OBVIOUS
<1>3. /\ r \in Readers /\ r.got = e /\ r.para = e /\ r.list = e /\ r.dirs = e /\ r.lost = 0
  BY <1>1, <1>2, NewReaderType DEF NewReader
<1>4. Weigh(e) = 0
  BY <1>2, <1>3, AccountWeights
<1>5. e \in InTurn(t, FALSE, 1, 1) /\ e \in InTurn(t, TRUE, 1, 1)
  BY <1>2, TurnsType
<1>6. \A k : e \in Waiting(t, 1, 1, k)
  BY <1>2 DEF Waiting
<1>7. Behaves(t, r, 1, 1)
  BY <1>3, <1>5, <1>6 DEF Behaves
<1>8. Carried(r) = 0
  BY <1>3, <1>4 DEF Carried
<1>9. 1 \in 1..1
  OBVIOUS
<1> QED BY <1>1, <1>2, <1>3, <1>5, <1>7, <1>8, <1>9 DEF Account

\* A flushed paragraph is among the blocks, unless nothing of it is visible.
LEMMA FlushParaAccount ==
  ASSUME NEW t, NEW r, NEW hi \in Nat \ {0}, NEW c, Account(t, r, hi, c)
  PROVE  /\ Account(t, FlushPara(r), hi, c) /\ FlushPara(r).para = <<>>
         /\ FlushPara(r).list = r.list
<1>1. PICK e : e = <<>>
  OBVIOUS
<1>2. CASE r.para = e
  <2>1. FlushPara(r) = r
    BY <1>1, <1>2 DEF FlushPara
  <2> QED BY <1>1, <1>2, <2>1
<1>3. CASE r.para # e
  <2>1. PICK mid \in 1..hi : Behaves(t, r, mid, hi)
    BY DEF Account
  <2>2. /\ r \in Readers /\ r.list = e /\ t.lang # "asciidoc"
        /\ r.dirs \in InTurn(t, TRUE, 1, hi) /\ t.lang # "asciidoc" => r.dirs = <<>>
        /\ t.keep => r.lost = 0 /\ Carried(r) = c
    BY <1>1, <1>3 DEF Account
  <2>a. (t.keep => r.lost = 0) /\ Carried(r) = c /\ (t.lang # "asciidoc" => r.dirs = <<>>)
    BY DEF Account
  <2>3. PICK x \in ItemsOf(t, FALSE, mid, hi) : r.para = <<x>> /\ r.para[1] = x /\ x.blk.k = "para"
    <3>1. PICK s : s = r.para
      OBVIOUS
    <3>k. PICK k : k = "para"
      OBVIOUS
    <3>2. s \in Waiting(t, mid, hi, k) /\ mid \in Nat /\ hi \in Nat /\ s # <<>>
      BY <1>1, <1>3, <2>1, <3>1, <3>k DEF Behaves
    <3>3. \E x \in ItemsOf(t, FALSE, mid, hi) : Single(s, x, k)
      BY <3>2, WaitingOne
    <3> QED BY <3>1, <3>3, <3>k DEF Single
  <2>4. x \in Items /\ Weigh(r.para) = Kept(x.blk) /\ Kept(x.blk) \in Nat
    <3>1. x \in Items
      BY DEF ItemsOf
    <3>2. Weigh(r.para) = Kept(x.blk)
      BY <2>2, <2>3, ReaderFields, WeighType
    <3> QED BY <3>1, <3>2, KeptType
  <2>5. PICK s : s = IF x.blk.in = <<>> THEN r.got ELSE Append(r.got, x)
    OBVIOUS
  <2>6. mid \in Nat /\ hi \in Nat /\ 1 \in Nat /\ 1 <= mid /\ mid <= hi /\ hi \in 1..hi
    OBVIOUS
  <2>7. r.got \in InTurn(t, FALSE, 1, mid) /\ r.got \in Seq(Items)
    BY <2>1, <2>2, ReaderFields DEF Behaves
  <2>8. s \in InTurn(t, FALSE, 1, hi) /\ Weigh(s) = Weigh(r.got) + Weigh(r.para) /\ s \in Seq(Items)
    <3>1. CASE x.blk.in = <<>>
      <4>1. Kept(x.blk) = 0
        <5>1. Len(x.blk.in) = 0
          BY <3>1
        <5> QED BY <2>3, <5>1 DEF Kept
      <4>2. Weigh(r.got) \in Nat
        BY <2>7, WeighType
      <4>3. r.got \in InTurn(t, FALSE, 1, hi)
        BY <2>6, <2>7, TurnsWiden
      <4>4. s = r.got /\ Weigh(r.para) = 0
        BY <2>4, <2>5, <3>1, <4>1
      <4>5. Weigh(r.got) + Weigh(r.para) = Weigh(r.got)
        BY <4>2, <4>4
      <4> QED BY <2>7, <4>3, <4>4, <4>5
    <3>2. CASE x.blk.in # <<>>
      <4>1. s = r.got \o <<x>>
        <5>1. Append(r.got, x) = r.got \o <<x>>
          BY <2>4, <2>7, AppendIsConcat
        <5> QED BY <2>5, <3>2, <5>1
      <4>2. <<x>> \in InTurn(t, FALSE, mid, hi)
        BY <2>6, TurnsType
      <4>3. PICK u : u = <<x>>
        OBVIOUS
      <4>4. r.got \o u \in InTurn(t, FALSE, 1, hi)
        BY <2>6, <2>7, <4>2, <4>3, TurnsJoin
      <4>5. u \in Seq(Items) /\ u = r.para
        BY <2>3, <2>4, <4>3
      <4>6. Weigh(r.got \o u) = Weigh(r.got) + Weigh(u) /\ r.got \o u \in Seq(Items)
        BY <2>7, <4>5, WeighJoin
      <4> QED BY <4>1, <4>3, <4>4, <4>5, <4>6
    <3> QED BY <3>1, <3>2
  <2>9. PICK q : q = FlushPara(r)
    OBVIOUS
  <2>10. q \in Readers
    BY <2>2, <2>9, FlushType
  <2>11. q = [r EXCEPT !.para = <<>>, !.got = s]
    <3>1. r.para # <<>>
      BY <1>1, <1>3
    <3>2. FlushPara(r) = [r EXCEPT !.para = <<>>,
                                   !.got = IF x.blk.in = <<>> THEN @ ELSE Append(@, x)]
      BY <2>3, <3>1 DEF FlushPara
    <3> QED BY <2>2, <2>5, <2>9, <3>2 DEF Readers
  <2>12. /\ q.got = s /\ q.para = e /\ q.list = e /\ q.dirs = r.dirs /\ q.lost = r.lost
    BY <1>1, <2>2, <2>11 DEF Readers
  <2>13. Behaves(t, q, hi, hi)
    <3>1. \A k : e \in Waiting(t, hi, hi, k)
      BY <1>1 DEF Waiting
    <3> QED BY <2>8, <2>12, <3>1 DEF Behaves
  <2>14. Carried(q) = c
    <3>1. /\ Weigh(r.got) \in Nat /\ Weigh(r.para) \in Nat /\ Weigh(r.list) = 0
          /\ Weigh(r.dirs) \in Nat /\ r.lost \in Nat /\ Weigh(e) = 0
      BY <1>1, <2>2, AccountWeights
    <3>2. c = Weigh(r.got) + Weigh(r.para) + Weigh(r.list) + Weigh(r.dirs) + r.lost
      BY <2>a DEF Carried
    <3>3. Carried(q) = Weigh(s) + Weigh(e) + Weigh(e) + Weigh(r.dirs) + r.lost
      BY <2>12 DEF Carried
    <3> QED BY <2>8, <3>1, <3>2, <3>3
  <2>15. Account(t, q, hi, c)
    BY <1>1, <2>2, <2>6, <2>a, <2>10, <2>12, <2>13, <2>14 DEF Account
  <2> QED BY <1>1, <2>2, <2>9, <2>12, <2>15
<1> QED BY <1>2, <1>3

\* So is a flushed list.
LEMMA FlushListAccount ==
  ASSUME NEW t, NEW r, NEW hi \in Nat \ {0}, NEW c, Account(t, r, hi, c)
  PROVE  /\ Account(t, FlushList(r), hi, c) /\ FlushList(r).list = <<>>
         /\ FlushList(r).para = r.para
<1>1. PICK e : e = <<>>
  OBVIOUS
<1>2. /\ r \in Readers /\ r.dirs \in InTurn(t, TRUE, 1, hi) /\ r.got \in Seq(Items)
      /\ r.list \in Seq(Items)
      /\ (t.keep => r.lost = 0) /\ Carried(r) = c /\ (t.lang # "asciidoc" => r.dirs = e)
      /\ (t.lang = "asciidoc" => r.para = e /\ r.list = e)
      /\ (r.para = e \/ r.list = e)
  BY <1>1, ReaderFields DEF Account
<1>3. PICK q : q = FlushList(r)
  OBVIOUS
<1>4. PICK s : s = r.got \o r.list
  OBVIOUS
<1>5. q \in Readers /\ q = [r EXCEPT !.list = e, !.got = s]
  <2>1. q \in Readers
    BY <1>2, <1>3, FlushType
  <2>2. q = [r EXCEPT !.list = e, !.got = @ \o r.list]
    BY <1>1, <1>3 DEF FlushList
  <2>3. [r EXCEPT !.list = e, !.got = @ \o r.list] = [r EXCEPT !.list = e, !.got = s]
    BY <1>2, <1>4 DEF Readers
  <2> QED BY <2>1, <2>2, <2>3
<1>6. q.got = s /\ q.list = e /\ q.para = r.para /\ q.dirs = r.dirs /\ q.lost = r.lost
  BY <1>2, <1>5 DEF Readers
<1>7. PICK mid \in 1..hi : Behaves(t, r, mid, hi)
  BY DEF Account
<1>8. mid \in Nat /\ hi \in Nat /\ 1 \in Nat /\ 1 <= mid /\ mid <= hi /\ hi \in 1..hi
  OBVIOUS
<1>9. \A k : e \in Waiting(t, mid, hi, k) /\ e \in Waiting(t, hi, hi, k)
  BY <1>1 DEF Waiting
<1>10. \E m \in 1..hi : Behaves(t, q, m, hi)
  <2>1. CASE r.list = e
    <3>1. s = r.got
      BY <1>1, <1>2, <1>4, <2>1, ConcatEmptySeq
    <3>2. Behaves(t, q, mid, hi)
      BY <1>6, <1>7, <1>9, <3>1 DEF Behaves
    <3> QED BY <3>2
  <2>2. CASE r.list # e
    <3>1. r.para = e
      BY <1>2, <2>2
    <3>2. r.list \in InTurn(t, FALSE, mid, hi) /\ r.got \in InTurn(t, FALSE, 1, mid)
      <4>1. r.list \in Waiting(t, mid, hi, "list") /\ r.got \in InTurn(t, FALSE, 1, mid)
        BY <1>7 DEF Behaves
      <4> QED BY <1>8, <4>1, WaitingType
    <3>3. r.got \o r.list \in InTurn(t, FALSE, 1, hi)
      BY <1>8, <3>2, TurnsJoin
    <3>4. Behaves(t, q, hi, hi)
      BY <1>4, <1>6, <1>9, <3>1, <3>3 DEF Behaves
    <3> QED BY <1>8, <3>4
  <2> QED BY <2>1, <2>2
<1>11. Carried(q) = c
  <2>1. Weigh(s) = Weigh(r.got) + Weigh(r.list)
    BY <1>2, <1>4, WeighJoin
  <2>2. /\ Weigh(r.got) \in Nat /\ Weigh(r.para) \in Nat /\ Weigh(r.list) \in Nat
        /\ Weigh(r.dirs) \in Nat /\ r.lost \in Nat /\ Weigh(e) = 0
    BY <1>1, <1>2, AccountWeights
  <2>3. c = Weigh(r.got) + Weigh(r.para) + Weigh(r.list) + Weigh(r.dirs) + r.lost
    BY <1>2 DEF Carried
  <2>4. Carried(q) = Weigh(s) + Weigh(r.para) + Weigh(e) + Weigh(r.dirs) + r.lost
    BY <1>6 DEF Carried
  <2> QED BY <2>1, <2>2, <2>3, <2>4
<1>12. Account(t, q, hi, c)
  BY <1>1, <1>2, <1>5, <1>6, <1>10, <1>11 DEF Account
<1> QED BY <1>1, <1>3, <1>6, <1>12

\* Items found at the place hi are behind the blocks before it.
LEMMA FoundAccount ==
  ASSUME NEW t, NEW r, NEW hi \in Nat \ {0}, NEW c, Account(t, r, hi, c),
         r.para = <<>>, r.list = <<>>, NEW s \in InTurn(t, FALSE, hi, hi + 1)
  PROVE  Account(t, [r EXCEPT !.pos = @ + 1, !.got = @ \o s], hi + 1, c + Weigh(s))
<1>1. PICK e : e = <<>>
  OBVIOUS
<1>2. Account(t, r, hi + 1, c)
  BY AccountWiden
<1>3. /\ r \in Readers /\ r.dirs \in InTurn(t, TRUE, 1, hi + 1) /\ r.got \in Seq(Items)
      /\ (t.keep => r.lost = 0) /\ Carried(r) = c /\ (t.lang # "asciidoc" => r.dirs = e)
      /\ r.para = e /\ r.list = e
  BY <1>1, <1>2, ReaderFields DEF Account
<1>4. PICK mid \in 1..hi : Behaves(t, r, mid, hi)
  BY DEF Account
<1>5. mid \in Nat /\ hi \in Nat /\ 1 \in Nat /\ 1 <= mid /\ mid <= hi /\ hi + 1 \in Nat
       /\ hi <= hi + 1 /\ 1 <= hi /\ hi + 1 \in 1..(hi + 1)
  OBVIOUS
<1>6. r.got \in InTurn(t, FALSE, 1, hi)
  <2>1. InTurn(t, FALSE, 1, mid) \subseteq InTurn(t, FALSE, 1, hi)
    BY <1>5, TurnsWiden
  <2> QED BY <1>4, <2>1 DEF Behaves
<1>7. s \in Seq(Items)
  BY <1>5, TurnsType
<1>8. PICK g : g = r.got \o s
  OBVIOUS
<1>9. g \in InTurn(t, FALSE, 1, hi + 1)
  BY <1>5, <1>6, <1>8, TurnsJoin
<1>10. g \in Seq(Items) /\ Weigh(g) = Weigh(r.got) + Weigh(s)
  BY <1>3, <1>7, <1>8, WeighJoin
<1>11. PICK q : q = [r EXCEPT !.pos = @ + 1, !.got = @ \o s]
  OBVIOUS
<1>12. q \in Readers
  BY <1>3, <1>7, <1>11, MoveType
<1>13. q.got = g /\ q.para = e /\ q.list = e /\ q.dirs = r.dirs /\ q.lost = r.lost
  BY <1>3, <1>8, <1>11 DEF Readers
<1>14. Behaves(t, q, hi + 1, hi + 1)
  <2>1. \A k : e \in Waiting(t, hi + 1, hi + 1, k)
    BY <1>1 DEF Waiting
  <2> QED BY <1>9, <1>13, <2>1 DEF Behaves
<1>15. Carried(q) = c + Weigh(s)
  <2>1. /\ Weigh(r.got) \in Nat /\ Weigh(e) = 0 /\ Weigh(s) \in Nat
        /\ Weigh(r.dirs) \in Nat /\ r.lost \in Nat
    BY <1>1, <1>3, <1>7, AccountWeights, WeighType
  <2>2. c = Weigh(r.got) + Weigh(e) + Weigh(e) + Weigh(r.dirs) + r.lost
    BY <1>3 DEF Carried
  <2>3. Carried(q) = Weigh(g) + Weigh(e) + Weigh(e) + Weigh(r.dirs) + r.lost
    BY <1>13 DEF Carried
  <2> QED BY <1>10, <2>1, <2>2, <2>3
<1>16. Account(t, q, hi + 1, c + Weigh(s))
  BY <1>1, <1>3, <1>5, <1>12, <1>13, <1>14, <1>15 DEF Account
<1> QED BY <1>11, <1>16

\* A directive is put behind the directives before it.
LEMMA DirsAccount ==
  ASSUME NEW t, NEW r, NEW hi \in Nat \ {0}, NEW c, Account(t, r, hi, c),
         t.lang = "asciidoc", NEW s \in InTurn(t, TRUE, hi, hi + 1)
  PROVE  Account(t, [r EXCEPT !.pos = @ + 1, !.dirs = @ \o s], hi + 1, c + Weigh(s))
<1>2. Account(t, r, hi + 1, c)
  BY AccountWiden
<1>3. /\ r \in Readers /\ r.dirs \in InTurn(t, TRUE, 1, hi) /\ r.dirs \in Seq(Items)
      /\ (t.keep => r.lost = 0) /\ Carried(r) = c
      /\ r.para = <<>> /\ r.list = <<>>
  BY ReaderFields DEF Account
<1>4. PICK mid \in 1..(hi + 1) : Behaves(t, r, mid, hi + 1)
  BY <1>2 DEF Account
<1>5. hi \in Nat /\ 1 \in Nat /\ hi + 1 \in Nat /\ hi <= hi + 1 /\ 1 <= hi
  OBVIOUS
<1>7. s \in Seq(Items)
  BY <1>5, TurnsType
<1>8. PICK g : g = r.dirs \o s
  OBVIOUS
<1>9. g \in InTurn(t, TRUE, 1, hi + 1)
  BY <1>3, <1>5, <1>8, TurnsJoin
<1>10. g \in Seq(Items) /\ Weigh(g) = Weigh(r.dirs) + Weigh(s)
  BY <1>3, <1>7, <1>8, WeighJoin
<1>11. PICK q : q = [r EXCEPT !.pos = @ + 1, !.dirs = @ \o s]
  OBVIOUS
<1>12. q \in Readers
  BY <1>3, <1>7, <1>11, MoveType
<1>13. q.got = r.got /\ q.para = r.para /\ q.list = r.list /\ q.dirs = g /\ q.lost = r.lost
  BY <1>3, <1>8, <1>11 DEF Readers
<1>14. Behaves(t, q, mid, hi + 1)
  BY <1>4, <1>13 DEF Behaves
<1>15. Carried(q) = c + Weigh(s)
  <2>1. /\ Weigh(r.got) \in Nat /\ Weigh(r.para) \in Nat /\ Weigh(r.list) \in Nat
        /\ Weigh(s) \in Nat /\ Weigh(r.dirs) \in Nat /\ r.lost \in Nat
    BY <1>3, <1>7, AccountWeights, WeighType
  <2>2. c = Weigh(r.got) + Weigh(r.para) + Weigh(r.list) + Weigh(r.dirs) + r.lost
    BY <1>3 DEF Carried
  <2>3. Carried(q) = Weigh(r.got) + Weigh(r.para) + Weigh(r.list) + Weigh(g) + r.lost
    BY <1>13 DEF Carried
  <2> QED BY <1>10, <2>1, <2>2, <2>3
<1>16. Account(t, q, hi + 1, c + Weigh(s))
  BY <1>3, <1>9, <1>12, <1>13, <1>14, <1>15 DEF Account
<1> QED BY <1>11, <1>16

\* What is reported is lost unless raw fragments are kept.
LEMMA ReportAccount ==
  ASSUME NEW t, NEW r, NEW hi, NEW c, Account(t, r, hi, c), NEW n \in Nat, text = t
  PROVE  Account(t, Report(r, n), hi, c + (IF t.keep THEN 0 ELSE n))
<1>1. r \in Readers /\ Report(r, n) \in Readers
  BY ReportType DEF Account
<1>2. CASE t.keep
  <2>1. PICK q \in Readers : q = Report(r, n)
    BY <1>1
  <2>2. q = [r EXCEPT !.raws = @ + n]
    BY <1>2, <2>1 DEF Report
  <2>3. q.got = r.got /\ q.para = r.para /\ q.list = r.list /\ q.dirs = r.dirs /\ q.lost = r.lost
    BY <1>1, <2>2 DEF Readers
  <2>4. c = c + 0
    BY <1>1, AccountWeights DEF Account
  <2>5. Account(t, q, hi, c)
    BY <2>3, AccountSame
  <2> QED BY <1>2, <2>1, <2>4, <2>5
<1>3. CASE ~t.keep
  <2>1. PICK q \in Readers : q = Report(r, n)
    BY <1>1
  <2>2. q = [r EXCEPT !.lost = @ + n]
    BY <1>3, <2>1 DEF Report
  <2>3. /\ q.got = r.got /\ q.para = r.para /\ q.list = r.list /\ q.dirs = r.dirs
        /\ q.lost = r.lost + n
    BY <1>1, <2>2 DEF Readers
  <2>4. Carried(q) = c + n
    <3>1. c = Weigh(r.got) + Weigh(r.para) + Weigh(r.list) + Weigh(r.dirs) + r.lost
      BY DEF Account, Carried
    <3>2. Carried(q) = Weigh(r.got) + Weigh(r.para) + Weigh(r.list) + Weigh(r.dirs) + (r.lost + n)
      BY <2>3 DEF Carried
    <3>3. /\ Weigh(r.got) \in Nat /\ Weigh(r.para) \in Nat /\ Weigh(r.list) \in Nat
          /\ Weigh(r.dirs) \in Nat /\ r.lost \in Nat
      BY <1>1, AccountWeights
    <3> QED BY <3>1, <3>2, <3>3
  <2>5. Account(t, q, hi, c + n)
    BY <1>3, <2>3, <2>4 DEF Account, Behaves
  <2> QED BY <1>3, <2>1, <2>5
<1> QED BY <1>2, <1>3

\* A pending paragraph that stands for n constructs more.
LEMMA ParaAccount ==
  ASSUME NEW t, NEW r, NEW hi \in Nat \ {0}, NEW c, Account(t, r, hi, c),
         r.list = <<>>, t.lang # "asciidoc",
         NEW y \in Items, y.blk.k = "para", y.blk.id = WordingOf(t.lang, t.nodes[y.at]),
         y.at = hi \/ (r.para # <<>> /\ y.at = r.para[1].at),
         NEW n \in Nat, Kept(y.blk) = Weigh(r.para) + n
  PROVE  Account(t, [r EXCEPT !.para = <<y>>], hi + 1, c + n)
<1>1. PICK e, s : e = <<>> /\ s = <<y>>
  OBVIOUS
<1>2. /\ r \in Readers /\ r.dirs = e /\ r.list = e
      /\ (t.keep => r.lost = 0) /\ Carried(r) = c
  BY <1>1 DEF Account
<1>3. PICK mid \in 1..hi : Behaves(t, r, mid, hi)
  BY DEF Account
<1>4. mid \in Nat /\ mid <= hi /\ mid \in 1..(hi + 1) /\ hi + 1 \in Nat /\ 1 \in Nat
  OBVIOUS
<1>5. y.at \in mid..hi
  <2>1. CASE y.at = hi
    BY <1>4, <2>1
  <2>2. CASE r.para # <<>> /\ y.at = r.para[1].at
    <3>1. PICK p : p = r.para
      OBVIOUS
    <3>k. PICK k : k = "para"
      OBVIOUS
    <3>2. p \in Waiting(t, mid, hi, k) /\ p # <<>>
      BY <1>3, <2>2, <3>1, <3>k DEF Behaves
    <3>a. PICK x \in ItemsOf(t, FALSE, mid, hi) : Single(p, x, k)
      BY <1>4, <3>2, WaitingOne
    <3>3. p[1] = x
      BY <3>a DEF Single
    <3>4. x.at \in mid..(hi - 1)
      BY DEF ItemsOf
    <3> QED BY <2>2, <3>1, <3>3, <3>4
  <2> QED BY <2>1, <2>2
<1>6. y \in ItemsOf(t, FALSE, mid, hi + 1)
  <2>1. y.at \in mid..((hi + 1) - 1)
    BY <1>5
  <2> QED BY <2>1 DEF ItemsOf
<1>7. s \in Waiting(t, mid, hi + 1, "para") /\ e \in Waiting(t, mid, hi + 1, "list")
  BY <1>1, <1>6 DEF Waiting
<1>8. PICK q : q = [r EXCEPT !.para = s]
  OBVIOUS
<1>9. s \in Seq(Items)
  BY <1>1
<1>10. q \in Readers
  BY <1>2, <1>8, <1>9 DEF Readers
<1>11. q.got = r.got /\ q.para = s /\ q.list = e /\ q.dirs = e /\ q.lost = r.lost
  BY <1>2, <1>8 DEF Readers
<1>12. Behaves(t, q, mid, hi + 1)
  BY <1>3, <1>7, <1>11 DEF Behaves
<1>13. Carried(q) = c + n
  <2>1. /\ Weigh(r.got) \in Nat /\ Weigh(r.para) \in Nat /\ Weigh(e) = 0 /\ r.lost \in Nat
    BY <1>1, <1>2, AccountWeights
  <2>2. Weigh(s) = Weigh(r.para) + n
    BY <1>1, <1>9, WeighType
  <2>3. c = Weigh(r.got) + Weigh(r.para) + Weigh(e) + Weigh(e) + r.lost
    BY <1>2 DEF Carried
  <2>4. Carried(q) = Weigh(r.got) + Weigh(s) + Weigh(e) + Weigh(e) + r.lost
    BY <1>11 DEF Carried
  <2> QED BY <2>1, <2>2, <2>3, <2>4
<1>14. e \in InTurn(t, TRUE, 1, hi + 1)
  BY <1>1, <1>4, TurnsType
<1>15. Account(t, q, hi + 1, c + n)
  BY <1>1, <1>2, <1>4, <1>10, <1>11, <1>12, <1>13, <1>14 DEF Account
<1> QED BY <1>1, <1>8, <1>15

\* A paragraph grows by the inlines of a construct.
LEMMA GrowAccount ==
  ASSUME NEW t, NEW r, NEW hi \in Nat \ {0}, NEW c, Account(t, r, hi, c),
         r.list = <<>>, t.lang # "asciidoc", NEW in \in Seq(CleanPhrases),
         NEW id \in Nat, id = WordingOf(t.lang, t.nodes[hi])
  PROVE  Account(t, Grow(r, in, hi, id), hi + 1, c + Len(in))
<1>1. r \in Readers /\ Len(in) \in Nat
  BY DEF Account
<1>2. CASE r.para = <<>> \/ r.para[1].blk.in = <<>>
  <2>1. PICK y : y = [at |-> hi, blk |-> Block("para", At(0, NoWord), in, id)]
    OBVIOUS
  <2>2. y \in Items
    <3>1. At(0, NoWord) \in Attrs /\ "para" \in Words
      BY DEF At, Attrs, Words
    <3> QED BY <2>1, <3>1 DEF Items, Block, CleanBlocks, Spans
  <2>3. y.at = hi /\ y.blk.k = "para" /\ y.blk.id = WordingOf(t.lang, t.nodes[y.at]) /\ y.blk.in = in
    BY <2>1 DEF Block
  <2>4. Weigh(r.para) = 0
    <3>1. CASE r.para = <<>>
      BY <1>1, <3>1, ReaderFields, WeighType
    <3>2. CASE r.para # <<>>
      <4>1. PICK mid \in 1..hi : Behaves(t, r, mid, hi)
        BY DEF Account
      <4>2. PICK p : p = r.para
        OBVIOUS
      <4>k. PICK k : k = "para"
        OBVIOUS
      <4>3. p \in Waiting(t, mid, hi, k) /\ p # <<>> /\ mid \in Nat /\ hi \in Nat /\ p \in Seq(Items)
        BY <1>1, <3>2, <4>1, <4>2, <4>k, ReaderFields DEF Behaves
      <4>e. PICK x \in ItemsOf(t, FALSE, mid, hi) : Single(p, x, k)
        BY <4>3, WaitingOne
      <4>4. p = <<x>> /\ p[1] = x /\ x.blk.k = "para"
        BY <4>e, <4>k DEF Single
      <4>5. Weigh(p) = Kept(x.blk)
        BY <4>3, <4>4, WeighType
      <4>6. Len(x.blk.in) = 0
        BY <1>2, <3>2, <4>2, <4>4
      <4> QED BY <4>2, <4>4, <4>5, <4>6 DEF Kept
    <3> QED BY <3>1, <3>2
  <2>5. Kept(y.blk) = Weigh(r.para) + Len(in)
    BY <1>1, <2>3, <2>4 DEF Kept
  <2>6. Account(t, [r EXCEPT !.para = <<y>>], hi + 1, c + Len(in))
    BY <1>1, <2>2, <2>3, <2>5, ParaAccount
  <2>7. Grow(r, in, hi, id) = [r EXCEPT !.para = <<y>>]
    BY <1>2, <2>1 DEF Grow
  <2> QED BY <2>6, <2>7
<1>3. CASE ~(r.para = <<>> \/ r.para[1].blk.in = <<>>)
  <2>1. PICK mid \in 1..hi : Behaves(t, r, mid, hi)
    BY DEF Account
  <2>2. PICK p : p = r.para
    OBVIOUS
  <2>k. PICK k : k = "para"
    OBVIOUS
  <2>3. p \in Waiting(t, mid, hi, k) /\ p # <<>> /\ mid \in Nat /\ hi \in Nat /\ p \in Seq(Items)
    BY <1>1, <1>3, <2>1, <2>2, <2>k, ReaderFields DEF Behaves
  <2>e. PICK x \in ItemsOf(t, FALSE, mid, hi) : Single(p, x, k)
    BY <2>3, WaitingOne
  <2>4. p = <<x>> /\ p[1] = x /\ x.blk.k = "para"
    BY <2>e, <2>k DEF Single
  <2>5. x \in Items /\ x.blk.id = WordingOf(t.lang, t.nodes[x.at])
    BY DEF ItemsOf
  <2>6. PICK v : v = x.blk.in \o in
    OBVIOUS
  <2>7. v \in Seq(CleanPhrases) /\ Len(v) = Len(x.blk.in) + Len(in) /\ Len(x.blk.in) \in Nat
    <3>1. x.blk.in \in Seq(CleanPhrases)
      BY <2>5 DEF Items, CleanBlocks
    <3> QED BY <2>6, <3>1
  <2>8. PICK y : y = [x EXCEPT !.blk.in = v]
    OBVIOUS
  <2>9. y \in Items /\ y.at = x.at /\ y.blk.k = "para" /\ y.blk.id = x.blk.id /\ y.blk.in = v
    <3>1. PICK blk : blk = [x.blk EXCEPT !.in = v]
      OBVIOUS
    <3>2. blk \in CleanBlocks /\ blk.k = x.blk.k /\ blk.id = x.blk.id /\ blk.in = v
      BY <2>5, <2>7, <3>1 DEF Items, CleanBlocks
    <3>3. y = [x EXCEPT !.blk = blk]
      BY <2>8, <3>1
    <3> QED BY <2>4, <2>5, <3>2, <3>3 DEF Items
  <2>10. Kept(y.blk) = Weigh(r.para) + Len(in)
    <3>1. Weigh(r.para) = Kept(x.blk)
      BY <2>2, <2>3, <2>4, WeighType
    <3>2. Kept(x.blk) = Len(x.blk.in) /\ Kept(y.blk) = Len(v)
      BY <2>4, <2>9 DEF Kept
    <3> QED BY <2>7, <3>1, <3>2
  <2>11. r.para # <<>> /\ y.at = r.para[1].at /\ y.blk.id = WordingOf(t.lang, t.nodes[y.at])
    BY <1>3, <2>2, <2>4, <2>5, <2>9
  <2>12. Account(t, [r EXCEPT !.para = <<y>>], hi + 1, c + Len(in))
    BY <1>1, <2>9, <2>10, <2>11, ParaAccount
  <2>13. Grow(r, in, hi, id) = [r EXCEPT !.para = <<y>>]
    <3>1. Grow(r, in, hi, id) = [r EXCEPT !.para = <<[r.para[1] EXCEPT !.blk.in = @ \o in]>>]
      BY <1>3 DEF Grow
    <3>2. [r.para[1] EXCEPT !.blk.in = @ \o in] = y
      BY <2>2, <2>4, <2>6, <2>8
    <3> QED BY <3>1, <3>2
  <2> QED BY <2>12, <2>13
<1> QED BY <1>2, <1>3

\* A pending list that stands for n constructs more.
LEMMA ListAccount ==
  ASSUME NEW t, NEW r, NEW hi \in Nat \ {0}, NEW c, Account(t, r, hi, c),
         r.para = <<>>, t.lang = "typst",
         NEW y \in Items, y.blk.k = "list", y.blk.id = WordingOf(t.lang, t.nodes[y.at]),
         y.at = hi \/ (r.list # <<>> /\ y.at = r.list[1].at),
         NEW n \in Nat, Kept(y.blk) = Weigh(r.list) + n
  PROVE  Account(t, [r EXCEPT !.list = <<y>>], hi + 1, c + n)
<1>1. PICK e, s : e = <<>> /\ s = <<y>>
  OBVIOUS
<1>2. /\ r \in Readers /\ r.dirs = e /\ r.para = e
      /\ (t.keep => r.lost = 0) /\ Carried(r) = c
  BY <1>1 DEF Account
<1>3. PICK mid \in 1..hi : Behaves(t, r, mid, hi)
  BY DEF Account
<1>4. mid \in Nat /\ mid <= hi /\ mid \in 1..(hi + 1) /\ hi + 1 \in Nat /\ 1 \in Nat
  OBVIOUS
<1>5. y.at \in mid..hi
  <2>1. CASE y.at = hi
    BY <1>4, <2>1
  <2>2. CASE r.list # <<>> /\ y.at = r.list[1].at
    <3>1. PICK p : p = r.list
      OBVIOUS
    <3>k. PICK k : k = "list"
      OBVIOUS
    <3>2. p \in Waiting(t, mid, hi, k) /\ p # <<>>
      BY <1>3, <2>2, <3>1, <3>k DEF Behaves
    <3>a. PICK x \in ItemsOf(t, FALSE, mid, hi) : Single(p, x, k)
      BY <1>4, <3>2, WaitingOne
    <3>3. p[1] = x
      BY <3>a DEF Single
    <3>4. x.at \in mid..(hi - 1)
      BY DEF ItemsOf
    <3> QED BY <2>2, <3>1, <3>3, <3>4
  <2> QED BY <2>1, <2>2
<1>6. y \in ItemsOf(t, FALSE, mid, hi + 1)
  <2>1. y.at \in mid..((hi + 1) - 1)
    BY <1>5
  <2> QED BY <2>1 DEF ItemsOf
<1>7. s \in Waiting(t, mid, hi + 1, "list") /\ e \in Waiting(t, mid, hi + 1, "para")
  BY <1>1, <1>6 DEF Waiting
<1>8. PICK q : q = [r EXCEPT !.list = s]
  OBVIOUS
<1>9. s \in Seq(Items)
  BY <1>1
<1>10. q \in Readers
  BY <1>2, <1>8, <1>9, MoveType
<1>11. q.got = r.got /\ q.para = e /\ q.list = s /\ q.dirs = e /\ q.lost = r.lost
  BY <1>2, <1>8 DEF Readers
<1>12. Behaves(t, q, mid, hi + 1)
  BY <1>3, <1>7, <1>11 DEF Behaves
<1>13. Carried(q) = c + n
  <2>1. /\ Weigh(r.got) \in Nat /\ Weigh(r.list) \in Nat /\ Weigh(e) = 0 /\ r.lost \in Nat
    BY <1>1, <1>2, AccountWeights
  <2>2. Weigh(s) = Weigh(r.list) + n
    BY <1>1, <1>9, WeighType
  <2>3. c = Weigh(r.got) + Weigh(e) + Weigh(r.list) + Weigh(e) + r.lost
    BY <1>2 DEF Carried
  <2>4. Carried(q) = Weigh(r.got) + Weigh(e) + Weigh(s) + Weigh(e) + r.lost
    BY <1>11 DEF Carried
  <2> QED BY <2>1, <2>2, <2>3, <2>4
<1>14. e \in InTurn(t, TRUE, 1, hi + 1)
  BY <1>1, <1>4, TurnsType
<1>15. Account(t, q, hi + 1, c + n)
  BY <1>1, <1>2, <1>4, <1>10, <1>11, <1>12, <1>13, <1>14 DEF Account
<1> QED BY <1>1, <1>8, <1>15

\* An item joins the pending list.
LEMMA JoinAccount ==
  ASSUME NEW t, NEW r, NEW hi \in Nat \ {0}, NEW c, Account(t, r, hi, c),
         r.para = <<>>, t.lang = "typst", NEW in \in Seq(CleanPhrases), r.list # <<>>
  PROVE  Account(t, [r EXCEPT !.list[1].blk.in = @ \o in], hi + 1, c + Len(in))
<1>1. r \in Readers /\ Len(in) \in Nat
  BY DEF Account
<1>p. PICK p : p = r.list
  OBVIOUS
<1>2. PICK mid \in 1..hi : Behaves(t, r, mid, hi)
  BY DEF Account
<1>k. PICK k : k = "list"
  OBVIOUS
<1>3. p \in Waiting(t, mid, hi, k) /\ p # <<>> /\ mid \in Nat /\ hi \in Nat /\ p \in Seq(Items)
  BY <1>1, <1>2, <1>k, <1>p, ReaderFields DEF Behaves
<1>e. PICK x \in ItemsOf(t, FALSE, mid, hi) : Single(p, x, k)
  BY <1>3, WaitingOne
<1>4. p = <<x>> /\ p[1] = x /\ x.blk.k = "list"
  BY <1>e, <1>k DEF Single
<1>5. x \in Items /\ x.blk.id = WordingOf(t.lang, t.nodes[x.at])
  BY DEF ItemsOf
<1>6. PICK v : v = x.blk.in \o in
  OBVIOUS
<1>7. v \in Seq(CleanPhrases) /\ Len(v) = Len(x.blk.in) + Len(in) /\ Len(x.blk.in) \in Nat
  <2>1. x.blk.in \in Seq(CleanPhrases)
    BY <1>5 DEF Items, CleanBlocks
  <2> QED BY <1>6, <2>1
<1>8. PICK blk : blk = [x.blk EXCEPT !.in = v]
  OBVIOUS
<1>9. PICK y : y = [x EXCEPT !.blk = blk]
  OBVIOUS
<1>10. y \in Items /\ y.at = x.at /\ y.blk.k = "list" /\ y.blk.id = x.blk.id /\ y.blk.in = v
  <2>1. blk \in CleanBlocks /\ blk.k = x.blk.k /\ blk.id = x.blk.id /\ blk.in = v
    BY <1>5, <1>7, <1>8 DEF Items, CleanBlocks
  <2> QED BY <1>4, <1>5, <1>9, <2>1 DEF Items
<1>11. Kept(y.blk) = Weigh(r.list) + Len(in)
  <2>1. Weigh(r.list) = Kept(x.blk)
    BY <1>3, <1>4, <1>p, WeighType
  <2>2. Kept(x.blk) = Len(x.blk.in) /\ Kept(y.blk) = Len(v)
    BY <1>4, <1>10 DEF Kept
  <2> QED BY <1>7, <2>1, <2>2
<1>12. r.list # <<>> /\ y.at = r.list[1].at /\ y.blk.id = WordingOf(t.lang, t.nodes[y.at])
  BY <1>3, <1>4, <1>5, <1>10, <1>p
<1>13. Account(t, [r EXCEPT !.list = <<y>>], hi + 1, c + Len(in))
  BY <1>1, <1>10, <1>11, <1>12, ListAccount
<1>14. [r EXCEPT !.list[1].blk.in = @ \o in] = [r EXCEPT !.list = <<y>>]
  <2>1. PICK s : s = [r.list EXCEPT ![1] = y]
    OBVIOUS
  <2>2. [r EXCEPT !.list[1].blk.in = @ \o in] = [r EXCEPT !.list = s]
    BY <1>4, <1>6, <1>8, <1>9, <1>p, <2>1
  <2>3. s = <<y>>
    BY <1>4, <1>p, <2>1
  <2> QED BY <2>2, <2>3
<1> QED BY <1>13, <1>14

\* An item begins another list, behind the pending one.
LEMMA BeginAccount ==
  ASSUME NEW t, NEW r, NEW hi \in Nat \ {0}, NEW c, Account(t, r, hi, c),
         r.para = <<>>, t.lang = "typst", NEW in \in Seq(CleanPhrases), NEW a \in Attrs,
         NEW id \in Nat, id = WordingOf(t.lang, t.nodes[hi])
  PROVE  Account(t, [FlushList(r) EXCEPT !.list = <<[at |-> hi, blk |-> Block("list", a, in, id)]>>],
                 hi + 1, c + Len(in))
<1>1. PICK q : q = FlushList(r)
  OBVIOUS
<1>a. Account(t, FlushList(r), hi, c) /\ FlushList(r).list = <<>> /\ FlushList(r).para = r.para
  BY FlushListAccount
<1>b. Account(t, q, hi, c)
  BY <1>1, <1>a
<1>c. q.list = <<>> /\ q.para = <<>>
  <2>1. PICK e : e = <<>>
    OBVIOUS
  <2>2. FlushList(r).list = e /\ FlushList(r).para = r.para /\ r.para = e
    BY <1>a, <2>1
  <2> QED BY <1>1, <2>1, <2>2
<1>d. q \in Readers
  BY <1>b DEF Account
<1>2. Account(t, q, hi, c) /\ q.list = <<>> /\ q.para = <<>> /\ q \in Readers /\ Len(in) \in Nat
  BY <1>b, <1>c, <1>d
<1>3. PICK y : y = [at |-> hi, blk |-> Block("list", a, in, id)]
  OBVIOUS
<1>4. y \in Items
  <2>1. "list" \in Words
    BY DEF Words
  <2> QED BY <1>3, <2>1 DEF Items, Block, CleanBlocks, Spans
<1>5. y.at = hi /\ y.blk.k = "list" /\ y.blk.id = WordingOf(t.lang, t.nodes[y.at]) /\ y.blk.in = in
  BY <1>3 DEF Block
<1>6. Kept(y.blk) = Weigh(q.list) + Len(in)
  <2>1. Weigh(q.list) = 0
    BY <1>2, ReaderFields, WeighType
  <2> QED BY <1>2, <1>5, <2>1 DEF Kept
<1>7. Account(t, [q EXCEPT !.list = <<y>>], hi + 1, c + Len(in))
  BY <1>2, <1>4, <1>5, <1>6, ListAccount
<1> QED BY <1>1, <1>3, <1>7

(***************************************************************************)
(* The account of a step.                                                  *)
(***************************************************************************)

\* Moving on changes no account.
LEMMA MoveAccount ==
  ASSUME NEW t, NEW r, NEW hi, NEW c, Account(t, r, hi, c)
  PROVE  /\ Account(t, [r EXCEPT !.pos = @ + 1], hi, c)
         /\ \A i \in Nat : Account(t, [r EXCEPT !.pos = @ + 1, !.title = i], hi, c)
<1>1. r \in Readers
  BY DEF Account
<1>2. PICK q \in Readers : q = [r EXCEPT !.pos = @ + 1]
  BY <1>1, MoveType
<1>3. q.got = r.got /\ q.para = r.para /\ q.list = r.list /\ q.dirs = r.dirs /\ q.lost = r.lost
  BY <1>1, <1>2 DEF Readers
<1>4. Account(t, q, hi, c)
  BY <1>3, AccountSame
<1>5. ASSUME NEW i \in Nat
      PROVE  Account(t, [r EXCEPT !.pos = @ + 1, !.title = i], hi, c)
  <2>1. PICK p \in Readers : p = [r EXCEPT !.pos = @ + 1, !.title = i]
    BY <1>1, MoveType
  <2>2. p.got = r.got /\ p.para = r.para /\ p.list = r.list /\ p.dirs = r.dirs /\ p.lost = r.lost
    BY <1>1, <2>1 DEF Readers
  <2>3. Account(t, p, hi, c)
    BY <2>2, AccountSame
  <2> QED BY <2>1, <2>3
<1> QED BY <1>2, <1>4, <1>5

\* Only moving on moves a reader.
LEMMA ReaderPlace ==
  ASSUME NEW r \in Readers
  PROVE  /\ FlushPara(r).pos = r.pos /\ FlushList(r).pos = r.pos
         /\ \A n : Report(r, n).pos = r.pos
         /\ \A in, at, id : Grow(r, in, at, id).pos = r.pos
         /\ [r EXCEPT !.pos = @ + 1].pos = r.pos + 1
         /\ \A i : [r EXCEPT !.pos = @ + 1, !.title = i].pos = r.pos + 1
         /\ \A s : [r EXCEPT !.pos = @ + 1, !.got = @ \o s].pos = r.pos + 1
         /\ \A s : [r EXCEPT !.pos = @ + 1, !.dirs = @ \o s].pos = r.pos + 1
<1>1. FlushPara(r).pos = r.pos
  BY DEF FlushPara, Readers
<1>2. FlushList(r).pos = r.pos
  BY DEF FlushList, Readers
<1>3. \A n : Report(r, n).pos = r.pos
  BY DEF Report, Readers
<1>4. \A in, at, id : Grow(r, in, at, id).pos = r.pos
  BY DEF Grow, Readers
<1>5. /\ [r EXCEPT !.pos = @ + 1].pos = r.pos + 1
      /\ \A i : [r EXCEPT !.pos = @ + 1, !.title = i].pos = r.pos + 1
  BY DEF Readers
<1>6. \A s : [r EXCEPT !.pos = @ + 1, !.got = @ \o s].pos = r.pos + 1
  BY DEF Readers
<1>7. \A s : [r EXCEPT !.pos = @ + 1, !.dirs = @ \o s].pos = r.pos + 1
  BY DEF Readers
<1> QED BY <1>1, <1>2, <1>3, <1>4, <1>5, <1>6, <1>7

\* What was found in a construct is of its place, and stands for it but for
\* what is lost.
LEMMA FoundHere ==
  ASSUME text \in Texts, text.lang \in Readable, rd \in Readers, More,
         Here.n \in DOMAIN BlockReading[text.lang],
         NEW d \in BOOLEAN, text.lang = "asciidoc" => (d <=> Here.n = "directive"),
         NEW hi, hi = rd.pos
  PROVE  LET s == Found(BlocksOf(text.lang, text.keep, Here))
             n == Reports(text.lang, Here)
         IN /\ s \in InTurn(text, d, hi, hi + 1) /\ Weigh(s) \in Nat /\ n \in Nat
            /\ Constructs(text.lang, Here) = Weigh(s) + (IF text.keep THEN 0 ELSE n)
<1>1. PICK b, nd, n, t, m, k : /\ b = text.lang /\ nd = Here /\ n = Reports(text.lang, Here) /\ t = text
                            /\ m = Constructs(text.lang, Here) /\ k = text.keep
  OBVIOUS
<1>2. k \in BOOLEAN /\ nd \in Constructed(b) /\ hi \in Nat
  BY <1>1, HereType, ReaderFields, TextsAssumption
<1>3. n \in Nat /\ Accounted(b, BlocksOf(b, k, nd), nd, m, IF k THEN 0 ELSE n)
  BY <1>1, <1>2, BlocksAccounted
<1>4. PICK blks, l : blks = BlocksOf(b, k, nd) /\ l = IF k THEN 0 ELSE n
  OBVIOUS
<1>5. PICK s : s = Found(blks)
  OBVIOUS
<1>6. nd = t.nodes[hi]
  BY <1>1 DEF Here
<1>7. l \in Nat
  BY <1>3, <1>4
<1>8. s \in InTurn(t, d, hi, hi + 1) /\ Weigh(s) \in Nat /\ m = Weigh(s) + l
  <2>1. CASE blks = <<>> /\ m = l
    <3>1. PICK e : e = <<>>
      OBVIOUS
    <3>2. s = e
      BY <1>5, <2>1, <3>1 DEF Found
    <3>3. e \in InTurn(t, d, hi, hi + 1)
      <4>1. hi + 1 \in Nat
        BY <1>2
      <4> QED BY <1>2, <3>1, <4>1, TurnsType
    <3>4. Weigh(e) = 0
      <4>1. e \in Seq(Items)
        BY <3>1
      <4> QED BY <3>1, <4>1, WeighType
    <3> QED BY <1>7, <2>1, <3>2, <3>3, <3>4
  <2>2. ASSUME NEW blk \in CleanBlocks, blks = <<blk>>, blk.id = WordingOf(b, nd), Kept(blk) \in Nat,
               m = Kept(blk) + l
        PROVE  s \in InTurn(t, d, hi, hi + 1) /\ Weigh(s) \in Nat /\ m = Weigh(s) + l
    <3>1. PICK x : x = [at |-> hi, blk |-> blk]
      OBVIOUS
    <3>2. x \in Items /\ x.at = hi /\ x.blk = blk
      BY <1>2, <3>1 DEF Items
    <3>3. x \in ItemsOf(t, d, hi, hi + 1)
      <4>1. x.at \in hi..((hi + 1) - 1)
        BY <1>2, <3>2
      <4>2. x.blk.id = WordingOf(t.lang, t.nodes[x.at])
        BY <1>1, <1>6, <2>2, <3>2
      <4>3. t.lang = "asciidoc" => (d <=> t.nodes[x.at].n = "directive")
        BY <1>1, <1>6, <3>2
      <4> QED BY <3>2, <4>1, <4>2, <4>3 DEF ItemsOf
    <3>4. s = <<x>>
      <4>1. Found(<<blk>>) = <<[at |-> rd.pos, blk |-> blk]>>
        BY DEF Found
      <4> QED BY <1>5, <2>2, <3>1, <4>1
    <3>5. s \in InTurn(t, d, hi, hi + 1)
      <4>1. hi + 1 \in Nat
        BY <1>2
      <4> QED BY <1>2, <3>3, <3>4, <4>1, TurnsType
    <3>6. Weigh(s) = Kept(blk)
      <4>1. s \in Seq(Items)
        BY <3>2, <3>4
      <4>2. Weigh(s) = Kept(x.blk)
        BY <3>4, <4>1, WeighType
      <4> QED BY <3>2, <4>2
    <3> QED BY <2>2, <3>5, <3>6
  <2> QED BY <1>3, <1>4, <2>1, <2>2 DEF Accounted
<1> QED BY <1>1, <1>3, <1>4, <1>5, <1>8

\* A construct that is a block of its own is accounted for.
LEMMA BlockAccount ==
  ASSUME text \in Texts, text.lang \in Readable, rd \in Readers, More,
         Here.n \in DOMAIN BlockReading[text.lang],
         text.lang = "asciidoc" => Here.n # "directive",
         NEW hi, hi = rd.pos, NEW c, Account(text, rd, hi, c)
  PROVE  /\ Account(text, ReadBlock(rd), hi + 1, c + Constructs(text.lang, Here))
         /\ ReadBlock(rd).pos = hi + 1
<1>0. hi \in Nat \ {0}
  BY ReaderFields
<1>1. PICK s, n, l, m : /\ s = Found(BlocksOf(text.lang, text.keep, Here))
                        /\ n = Reports(text.lang, Here) /\ l = (IF text.keep THEN 0 ELSE n)
                        /\ m = Constructs(text.lang, Here)
  OBVIOUS
<1>2. s \in InTurn(text, FALSE, hi, hi + 1) /\ Weigh(s) \in Nat /\ n \in Nat /\ m = Weigh(s) + l
  <2>1. PICK d \in BOOLEAN : d = FALSE
    OBVIOUS
  <2>2. text.lang = "asciidoc" => (d <=> Here.n = "directive")
    BY <2>1
  <2>3. s \in InTurn(text, d, hi, hi + 1) /\ Weigh(s) \in Nat /\ n \in Nat /\ m = Weigh(s) + l
    BY <1>1, <2>2, FoundHere
  <2> QED BY <2>1, <2>3
<1>3. PICK p : p = FlushPara(rd)
  OBVIOUS
<1>4. PICK e : e = <<>>
  OBVIOUS
<1>5. Account(text, p, hi, c) /\ p.para = e
  BY <1>0, <1>3, <1>4, FlushParaAccount
<1>6. PICK r : r = FlushList(p)
  OBVIOUS
<1>7. Account(text, r, hi, c) /\ r.para = e /\ r.list = e
  BY <1>0, <1>4, <1>5, <1>6, FlushListAccount
<1>8. PICK q : q = [r EXCEPT !.pos = @ + 1, !.got = @ \o s]
  OBVIOUS
<1>9. Account(text, q, hi + 1, c + Weigh(s))
  BY <1>0, <1>2, <1>4, <1>7, <1>8, FoundAccount
<1>10. Account(text, Report(q, n), hi + 1, (c + Weigh(s)) + l)
  <2>1. PICK h, k : h = hi + 1 /\ k = c + Weigh(s)
    OBVIOUS
  <2>2. Account(text, q, h, k)
    BY <1>9, <2>1
  <2>3. Account(text, Report(q, n), h, k + (IF text.keep THEN 0 ELSE n))
    BY <1>2, <2>2, ReportAccount
  <2> QED BY <1>1, <2>1, <2>3
<1>11. ReadBlock(rd) = Report(q, n)
  BY <1>1, <1>3, <1>6, <1>8 DEF ReadBlock
<1>12. c \in Nat /\ l \in Nat
  BY <1>1, <1>2, AccountWeights DEF Account
<1>13. (c + Weigh(s)) + l = c + m
  BY <1>2, <1>12
<1>14. Report(q, n).pos = hi + 1
  <2>1. p \in Readers /\ r \in Readers /\ q \in Readers
    BY <1>5, <1>7, <1>9 DEF Account
  <2>2. r.pos = hi
    BY <1>3, <1>6, <2>1, ReaderPlace
  <2>3. q.pos = hi + 1
    BY <1>8, <2>1, <2>2, ReaderPlace
  <2> QED BY <2>1, <2>3, ReaderPlace
<1> QED BY <1>1, <1>10, <1>11, <1>13, <1>14

\* What a step of a reader ends with: a reader that moved on, and reported
\* some of the inlines it stood at.
LEMMA InlineAccount ==
  ASSUME text \in Texts, text.lang \in Readable, rd \in Readers, More,
         NEW r, NEW h, NEW c \in Nat,
         Account(text, r, h, c + Len(ReadInlines(text.lang, text.keep, Here.in)))
  PROVE  LET q == Report([r EXCEPT !.pos = @ + 1], ReportedInlines(text.lang, Here.in))
         IN Account(text, q, h, c + Voiced(text.lang, Here.in)) /\ q.pos = r.pos + 1
<1>1. PICK in, k, b : in = Here.in /\ k = text.keep /\ b = text.lang
  OBVIOUS
<1>2. in \in Seq(PhrasesOf(b)) /\ k \in BOOLEAN /\ b \in Readable
  BY <1>1, HereType, TextsAssumption
<1>3. PICK v, n, m, l : /\ v = Voiced(b, in) /\ n = ReportedInlines(b, in)
                        /\ m = Len(ReadInlines(b, k, in)) /\ l = (IF k THEN 0 ELSE n)
  OBVIOUS
<1>4. v \in Nat /\ n \in Nat /\ m \in Nat /\ v = m + l
  BY <1>2, <1>3, InlinesAccounted
<1>5. r \in Readers
  BY DEF Account
<1>6. PICK p : p = [r EXCEPT !.pos = @ + 1]
  OBVIOUS
<1>7. PICK w : w = c + m
  OBVIOUS
<1>8. Account(text, r, h, w)
  BY <1>1, <1>3, <1>7
<1>9. Account(text, p, h, w)
  BY <1>6, <1>8, MoveAccount
<1>10. Account(text, Report(p, n), h, w + (IF text.keep THEN 0 ELSE n))
  BY <1>4, <1>9, ReportAccount
<1>11. w + (IF text.keep THEN 0 ELSE n) = c + v
  <2>1. l \in Nat
    BY <1>3, <1>4
  <2>2. w + l = c + v
    BY <1>4, <1>7, <2>1
  <2> QED BY <1>1, <1>3, <2>2
<1>12. Report(p, n).pos = r.pos + 1
  <2>1. p \in Readers
    BY <1>9 DEF Account
  <2> QED BY <1>5, <1>6, <2>1, ReaderPlace
<1> QED BY <1>1, <1>3, <1>6, <1>10, <1>11, <1>12

\* The constructs other than blocks that a step reads.
LEMMA ConstructsHere ==
  ASSUME NEW b \in Readable, NEW nd
  PROVE  /\ b # "asciidoc" /\ nd.n \in {"blank", "comment", "wrapper", "title", "parbreak", "space"}
               => Constructs(b, nd) = 0
         /\ nd.n \in {"doctitle", "rest", "argument", "empty", "delimiter"} => Constructs(b, nd) = 0
         /\ nd.n = "line" => Constructs(b, nd) = IF StartsWithCommand(nd.in) THEN 1
                                                 ELSE Voiced(b, nd.in)
         /\ nd.n \in {"inline", "item"} => Constructs(b, nd) = Voiced(b, nd.in)
<1> DEFINE none == {"doctitle", "rest", "argument", "empty", "delimiter"}
<1>1. PICK n : n = nd.n
  OBVIOUS
<1>2. n \in DOMAIN BlockReading[b] =>
        \/ n \notin {"line", "inline", "item", "space", "parbreak", "blank", "comment", "wrapper",
                     "title", "doctitle", "rest", "argument", "empty", "delimiter"}
        \/ (b = "asciidoc" /\ n = "comment")
  BY BlockTable
<1>3. CASE n \in {"blank", "comment", "wrapper", "title", "parbreak", "space"} /\ b # "asciidoc"
  <2>1. n \notin DOMAIN BlockReading[b] /\ n \notin {"line", "inline", "item"} \cup none
    BY <1>2, <1>3
  <2> QED BY <1>1, <1>3, <2>1 DEF Constructs, Standing
<1>4. CASE n \in {"line", "inline", "item"} \cup none
  <2>1. n \notin DOMAIN BlockReading[b]
    BY <1>2, <1>4
  <2> QED BY <1>1, <1>4, <2>1 DEF Constructs, Standing
<1>5. CASE ~(n \in {"blank", "comment", "wrapper", "title", "parbreak", "space"} /\ b # "asciidoc")
           /\ n \notin {"line", "inline", "item"} \cup none
  BY <1>1, <1>5
<1> QED BY <1>3, <1>4, <1>5

\* A reader that stands behind one construct more and has what it and those
\* before it left.
Onward(t, r, hi, c) == Account(t, r, hi + 1, c) /\ r.pos = hi + 1

\* Every step of the readers that are not the HTML reader accounts for the
\* construct that was read.
LEMMA ReadAccount ==
  ASSUME text \in Texts, text.lang \in Readable, rd \in Readers, ReadNext,
         NEW hi, hi = rd.pos, NEW c, Account(text, rd, hi, c)
  PROVE  More /\ Onward(text, rd', hi, c + Constructs(text.lang, Here)) /\ text' = text
<1> DEFINE read == ReadInlines(text.lang, text.keep, Here.in)
           reported == ReportedInlines(text.lang, Here.in)
           m == Constructs(text.lang, Here)
<1>1. hi \in Nat \ {0} /\ c \in Nat
  BY ReaderFields, AccountWeights DEF Account
<1>2. PICK e : e = <<>>
  OBVIOUS
<1>3. text.lang # "typst" => rd.list = e
  BY <1>2 DEF Account
<1>4. PICK p : p = FlushPara(rd)
  OBVIOUS
<1>5. Account(text, p, hi, c) /\ p.para = e /\ p.list = rd.list /\ p \in Readers /\ p.pos = hi
  <2>1. Account(text, p, hi, c) /\ p.para = e /\ p.list = rd.list
    BY <1>1, <1>2, <1>4, FlushParaAccount
  <2>2. p \in Readers
    BY <2>1 DEF Account
  <2>3. p.pos = hi
    BY <1>4, ReaderPlace
  <2> QED BY <2>1, <2>2, <2>3
<1>6. ASSUME NEW r, Account(text, r, hi, c), r.pos = hi, m = 0
      PROVE  /\ Onward(text, [r EXCEPT !.pos = @ + 1], hi, c + m)
             /\ \A i \in Nat : Onward(text, [r EXCEPT !.pos = @ + 1, !.title = i], hi, c + m)
  <2>1. c + m = c
    BY <1>1, <1>6
  <2>2. PICK h : h = hi + 1
    OBVIOUS
  <2>3. Account(text, r, h, c)
    BY <1>1, <1>6, <2>2, AccountWiden
  <2>4. r \in Readers
    BY <1>6 DEF Account
  <2>5. Account(text, [r EXCEPT !.pos = @ + 1], h, c) /\ [r EXCEPT !.pos = @ + 1].pos = h
    BY <1>6, <2>2, <2>3, <2>4, MoveAccount, ReaderPlace
  <2>6. ASSUME NEW i \in Nat
        PROVE  Onward(text, [r EXCEPT !.pos = @ + 1, !.title = i], hi, c)
    <3>1. PICK q : q = [r EXCEPT !.pos = @ + 1, !.title = i]
      OBVIOUS
    <3>2. Account(text, q, h, c)
      BY <2>3, <3>1, MoveAccount
    <3>3. q.pos = h
      BY <1>6, <2>2, <2>4, <3>1, ReaderPlace
    <3> QED BY <2>2, <3>1, <3>2, <3>3 DEF Onward
  <2>7. PICK q : q = [r EXCEPT !.pos = @ + 1]
    OBVIOUS
  <2>8. Onward(text, q, hi, c)
    BY <2>2, <2>5, <2>7 DEF Onward
  <2>9. PICK k : k = c + m
    OBVIOUS
  <2> HIDE DEF m
  <2> QED BY <2>1, <2>6, <2>7, <2>8, <2>9
<1>7. ASSUME NEW r, More, Account(text, r, hi + 1, c + Len(read)), r.pos = hi,
             m = Voiced(text.lang, Here.in)
      PROVE  Onward(text, Report([r EXCEPT !.pos = @ + 1], reported), hi, c + m)
  <2>1. PICK h : h = hi + 1
    OBVIOUS
  <2>2. Account(text, r, h, c + Len(read))
    BY <1>7, <2>1
  <2>3. PICK q : q = Report([r EXCEPT !.pos = @ + 1], reported)
    OBVIOUS
  <2>4. Account(text, q, h, c + Voiced(text.lang, Here.in)) /\ q.pos = r.pos + 1
    BY <1>1, <1>7, <2>2, <2>3, InlineAccount
  <2> QED BY <1>7, <2>1, <2>3, <2>4 DEF Onward
<1>8. ASSUME More
      PROVE  /\ Here.id \in Nat /\ Here.a \in Attrs /\ Here = text.nodes[hi]
             /\ reported \in Nat /\ read \in Seq(CleanPhrases)
             /\ text.lang # "asciidoc" => Here.id = WordingOf(text.lang, text.nodes[hi])
  <2>1. /\ Here.id \in Nat /\ Here.a \in Attrs /\ Here = text.nodes[hi]
        /\ reported \in Nat /\ read \in Seq(CleanPhrases)
    BY <1>8, HereType, ReadInlinesType DEF Here
  <2>2. text.lang # "asciidoc" => ~Spanless(Here)
    BY <1>8, HereType DEF Constructed, Spanless
  <2> HIDE DEF read, reported
  <2> QED BY <2>1, <2>2 DEF WordingOf
<1>9. ~Html
  BY TablesType DEF Html
<1>10. PICK nd : nd = Here
  OBVIOUS
<1>11. ASSUME Read(ReadBlock(rd)), More, Here.n \in DOMAIN BlockReading[text.lang],
              text.lang = "asciidoc" => Here.n # "directive"
       PROVE  More /\ Onward(text, rd', hi, c + m) /\ text' = text
  <2>1. rd' = ReadBlock(rd) /\ text' = text
    BY <1>11 DEF Read
  <2>2. PICK q : q = ReadBlock(rd)
    OBVIOUS
  <2>3. Account(text, q, hi + 1, c + m) /\ q.pos = hi + 1
    BY <1>11, <2>2, BlockAccount
  <2> QED BY <1>11, <2>1, <2>2, <2>3 DEF Onward
<1> HIDE DEF m
<1>12. CASE ReadMarkdown
  <2>1. text.lang = "markdown"
    BY <1>12 DEF ReadMarkdown
  <2>2. text.lang # "asciidoc"
    BY <2>1
  <2> QED BY <1>11, <1>12, <2>1, <2>2, HereType DEF ReadMarkdown, m
<1>13. CASE ReadAsciidocBlock
  BY <1>11, <1>13 DEF ReadAsciidocBlock, m
<1>14. CASE ReadLatexBlock
  <2>1. text.lang = "latex"
    BY <1>14 DEF ReadLatexBlock
  <2>2. text.lang # "asciidoc"
    BY <2>1
  <2> QED BY <1>11, <1>14, <2>1, <2>2 DEF ReadLatexBlock, m
<1>15. CASE ReadTypstBlock
  <2>1. text.lang = "typst"
    BY <1>15 DEF ReadTypstBlock
  <2>2. text.lang # "asciidoc"
    BY <2>1
  <2> QED BY <1>11, <1>15, <2>1, <2>2 DEF ReadTypstBlock, m
<1>16. CASE ReadAsciidocDirective
  <2>1. More /\ text.lang = "asciidoc" /\ Here.n = "directive" /\ text' = text
    BY <1>16 DEF ReadAsciidocDirective, Read
  <2>2. Here.n \in DOMAIN BlockReading[text.lang]
    BY <2>1 DEF BlockReading
  <2>3. PICK s, n : s = Found(BlocksOf(text.lang, text.keep, Here)) /\ n = Reports(text.lang, Here)
    OBVIOUS
  <2>4. /\ s \in InTurn(text, TRUE, hi, hi + 1) /\ Weigh(s) \in Nat /\ n \in Nat
        /\ m = Weigh(s) + (IF text.keep THEN 0 ELSE n)
    <3>1. PICK d \in BOOLEAN : d = TRUE
      OBVIOUS
    <3>2. text.lang = "asciidoc" => (d <=> Here.n = "directive")
      BY <2>1, <3>1
    <3>3. /\ s \in InTurn(text, d, hi, hi + 1) /\ Weigh(s) \in Nat /\ n \in Nat
          /\ m = Weigh(s) + (IF text.keep THEN 0 ELSE n)
      BY <2>1, <2>2, <2>3, <3>2, FoundHere DEF m
    <3> QED BY <3>1, <3>3
  <2>5. n = 1
    <3>1. BlockReading["asciidoc"]["directive"] = "raw"
      BY <2>1, <2>2, BlockTable
    <3>2. BlockReading[text.lang][Here.n] = "raw"
      BY <2>1, <3>1
    <3> QED BY <2>3, <3>2 DEF Reports
  <2>6. PICK q : q = [rd EXCEPT !.pos = @ + 1, !.dirs = @ \o s]
    OBVIOUS
  <2>7. PICK h, k : h = hi + 1 /\ k = c + Weigh(s)
    OBVIOUS
  <2>8. Account(text, q, h, k)
    BY <1>1, <2>1, <2>4, <2>6, <2>7, DirsAccount
  <2>9. Account(text, Report(q, n), h, k + (IF text.keep THEN 0 ELSE n))
    BY <2>4, <2>8, ReportAccount
  <2>10. k + (IF text.keep THEN 0 ELSE n) = c + m
    BY <1>1, <2>4, <2>7
  <2>11. rd' = Report(q, n)
    BY <1>16, <2>1, <2>3, <2>5, <2>6 DEF ReadAsciidocDirective, Read
  <2>12. Report(q, n).pos = h
    <3>1. q \in Readers
      BY <2>8 DEF Account
    <3>2. q.pos = h
      BY <2>6, <2>7, ReaderPlace
    <3> QED BY <3>1, <3>2, ReaderPlace
  <2>13. PICK u : u = Report(q, n)
    OBVIOUS
  <2>14. Onward(text, u, hi, c + m)
    BY <2>7, <2>9, <2>10, <2>12, <2>13 DEF Onward
  <2> QED BY <2>1, <2>11, <2>13, <2>14 DEF m
<1>17. CASE ReadAsciidocTitle
  <2>1. /\ More /\ Here.n = "doctitle" /\ text' = text
        /\ rd' = [rd EXCEPT !.pos = @ + 1, !.title = Here.id]
    BY <1>17 DEF ReadAsciidocTitle, Read
  <2>2. m = 0
    BY <2>1, ConstructsHere DEF m
  <2>3. Onward(text, [rd EXCEPT !.pos = @ + 1, !.title = Here.id], hi, c + m)
    BY <1>6, <1>8, <2>1, <2>2
  <2> QED BY <2>1, <2>3 DEF m
<1>18. CASE ReadLatexBlank \/ ReadLatexWrapper
  <2>1. /\ More /\ text.lang = "latex" /\ Here.n \in {"blank", "wrapper"} /\ text' = text
        /\ rd' = [p EXCEPT !.pos = @ + 1]
    BY <1>4, <1>18 DEF ReadLatexBlank, ReadLatexWrapper, LatexLine, Read
  <2>a. text.lang # "asciidoc"
    BY <2>1
  <2>2. m = 0
    BY <2>1, <2>a, ConstructsHere DEF m
  <2>3. Onward(text, [p EXCEPT !.pos = @ + 1], hi, c + m)
    BY <1>5, <1>6, <2>2
  <2> QED BY <2>1, <2>3 DEF m
<1>30. CASE ReadAsciidocUnseen \/ ReadLatexRest \/ ReadTypstArgument
  <2>1. /\ More /\ Here.n \in {"empty", "delimiter", "rest", "argument"} /\ text' = text
        /\ rd' = [rd EXCEPT !.pos = @ + 1]
    BY <1>30 DEF ReadAsciidocUnseen, ReadLatexRest, ReadTypstArgument, LatexLine, Read
  <2>2. m = 0
    BY <2>1, ConstructsHere DEF m
  <2>3. Onward(text, [rd EXCEPT !.pos = @ + 1], hi, c + m)
    BY <1>6, <2>2
  <2> QED BY <2>1, <2>3 DEF m
<1>19. CASE ReadLatexComment
  <2>1. /\ More /\ text.lang = "latex" /\ Here.n = "comment" /\ text' = text
        /\ rd' = [rd EXCEPT !.pos = @ + 1]
    BY <1>19 DEF ReadLatexComment, LatexLine, Read
  <2>a. text.lang # "asciidoc"
    BY <2>1
  <2>2. m = 0
    BY <2>1, <2>a, ConstructsHere DEF m
  <2>3. Onward(text, [rd EXCEPT !.pos = @ + 1], hi, c + m)
    BY <1>6, <2>2
  <2> QED BY <2>1, <2>3 DEF m
<1>20. CASE ReadLatexTitle
  <2>1. /\ More /\ text.lang = "latex" /\ Here.n = "title" /\ text' = text
        /\ rd' = [p EXCEPT !.pos = @ + 1, !.title = Here.id]
    BY <1>4, <1>20 DEF ReadLatexTitle, LatexLine, Read
  <2>a. text.lang # "asciidoc"
    BY <2>1
  <2>2. m = 0
    BY <2>1, <2>a, ConstructsHere DEF m
  <2>3. Onward(text, [p EXCEPT !.pos = @ + 1, !.title = Here.id], hi, c + m)
    BY <1>5, <1>6, <1>8, <2>1, <2>2
  <2> QED BY <2>1, <2>3 DEF m
<1>21. CASE ReadLatexLine
  <2>1. More /\ text.lang = "latex" /\ Here.n = "line" /\ ~StartsWithCommand(Here.in) /\ text' = text
    BY <1>21 DEF ReadLatexLine, LatexLine, Read
  <2>2. PICK r : r = Grow(rd, read, rd.pos, Here.id)
    OBVIOUS
  <2>3. rd' = Report([r EXCEPT !.pos = @ + 1], reported)
    BY <1>21, <2>1, <2>2 DEF ReadLatexLine, Read
  <2>4. text.lang # "asciidoc" /\ rd.list = <<>>
    BY <1>2, <1>3, <2>1
  <2>5. PICK in, id : in = read /\ id = Here.id
    OBVIOUS
  <2>6. in \in Seq(CleanPhrases) /\ id \in Nat /\ id = WordingOf(text.lang, text.nodes[hi])
    BY <1>8, <2>1, <2>4, <2>5
  <2>7. Account(text, Grow(rd, in, hi, id), hi + 1, c + Len(in))
    BY <1>1, <2>4, <2>6, GrowAccount
  <2>8. Account(text, r, hi + 1, c + Len(read)) /\ r.pos = hi
    BY <2>2, <2>5, <2>7, ReaderPlace
  <2>9. m = Voiced(text.lang, Here.in)
    BY <2>1, ConstructsHere DEF m
  <2>10. Onward(text, Report([r EXCEPT !.pos = @ + 1], reported), hi, c + m)
    BY <1>7, <2>1, <2>8, <2>9
  <2> QED BY <2>1, <2>3, <2>10 DEF m
<1>22. CASE ReadLatexCommandLine
  <2> DEFINE raw == Block("raw", At(0, "latex"), <<>>, Here.id)
  <2>1. More /\ text.lang = "latex" /\ Here.n = "line" /\ StartsWithCommand(Here.in) /\ text' = text
    BY <1>22 DEF ReadLatexCommandLine, LatexLine, Read
  <2>2. m = 1
    BY <2>1, ConstructsHere DEF m
  <2>3. PICK x : x = [at |-> hi, blk |-> raw]
    OBVIOUS
  <2>4. x \in Items /\ x.at = hi /\ x.blk = raw
    <3>1. <<>> \in Seq(CleanPhrases) /\ "raw" \in Words /\ At(0, "latex") \in Attrs
      BY DEF Words, At, Attrs
    <3> QED BY <1>1, <1>8, <2>1, <2>3, <3>1 DEF Items, Block, CleanBlocks, Spans
  <2>5. x.blk.k = "raw" /\ x.blk.id = WordingOf(text.lang, text.nodes[hi])
    <3>1. text.lang # "asciidoc"
      BY <2>1
    <3> QED BY <1>8, <2>1, <2>4, <3>1 DEF Block
  <2>6. Kept(x.blk) = 1
    BY <2>5 DEF Kept
  <2>7. x \in ItemsOf(text, FALSE, hi, hi + 1)
    <3>1. x.at \in hi..((hi + 1) - 1)
      BY <1>1, <2>4
    <3>2. text.lang # "asciidoc"
      BY <2>1
    <3> QED BY <2>4, <2>5, <3>1, <3>2 DEF ItemsOf
  <2>8. PICK s : s = <<x>>
    OBVIOUS
  <2>9. s \in InTurn(text, FALSE, hi, hi + 1)
    <3>1. hi + 1 \in Nat
      BY <1>1
    <3> QED BY <1>1, <2>7, <2>8, <3>1, TurnsType
  <2>10. Weigh(s) = 1
    <3>1. s \in Seq(Items)
      BY <2>4, <2>8
    <3> QED BY <2>6, <2>8, <3>1, WeighType
  <2>11. Found(<<raw>>) = s
    <3>1. Found(<<raw>>) = <<[at |-> rd.pos, blk |-> raw]>>
      <4> HIDE DEF raw
      <4> QED BY DEF Found
    <3> QED BY <2>3, <2>8, <3>1
  <2> HIDE DEF raw
  <2>12. PICK q : q = [p EXCEPT !.pos = @ + 1, !.got = IF text.keep THEN @ \o s ELSE @]
    OBVIOUS
  <2>13. rd' = Report(q, 1)
    BY <1>4, <1>22, <2>11, <2>12 DEF ReadLatexCommandLine, Read, raw
  <2>14. p.list = <<>> /\ p.para = <<>>
    BY <1>2, <1>3, <1>5, <2>1
  <2>15. PICK h, k : h = hi + 1 /\ k = c + (IF text.keep THEN 1 ELSE 0)
    OBVIOUS
  <2>16. Account(text, q, h, k) /\ q.pos = h
    <3>1. CASE text.keep
      <4>1. q = [p EXCEPT !.pos = @ + 1, !.got = @ \o s]
        BY <2>12, <3>1
      <4>2. Account(text, q, hi + 1, c + Weigh(s))
        BY <1>1, <1>5, <2>9, <2>14, <4>1, FoundAccount
      <4>3. q.pos = h
        BY <1>5, <2>15, <4>1, ReaderPlace
      <4> QED BY <2>10, <2>15, <3>1, <4>2, <4>3
    <3>2. CASE ~text.keep
      <4>1. PICK u : u = [p EXCEPT !.pos = @ + 1]
        OBVIOUS
      <4>2. q = u
        BY <1>5, <2>12, <3>2, <4>1 DEF Readers
      <4>3. Account(text, p, h, c)
        BY <1>1, <1>5, <2>15, AccountWiden
      <4>4. Account(text, u, h, c)
        BY <4>1, <4>3, MoveAccount
      <4>5. u.pos = h
        BY <1>5, <2>15, <4>1, ReaderPlace
      <4>6. k = c
        BY <1>1, <2>15, <3>2
      <4> QED BY <4>2, <4>4, <4>5, <4>6
    <3> QED BY <3>1, <3>2
  <2>17. Account(text, Report(q, 1), h, k + (IF text.keep THEN 0 ELSE 1))
    <3>1. PICK n \in Nat : n = 1
      OBVIOUS
    <3>2. Account(text, Report(q, n), h, k + (IF text.keep THEN 0 ELSE n))
      BY <2>16, ReportAccount
    <3> QED BY <3>1, <3>2
  <2>18. k + (IF text.keep THEN 0 ELSE 1) = c + m
    BY <1>1, <2>2, <2>15
  <2>19. PICK u : u = Report(q, 1)
    OBVIOUS
  <2>20. u.pos = h
    <3>1. q \in Readers
      BY <2>16 DEF Account
    <3> QED BY <2>16, <2>19, <3>1, ReaderPlace
  <2>21. Onward(text, u, hi, c + m)
    BY <2>15, <2>17, <2>18, <2>19, <2>20 DEF Onward
  <2> QED BY <2>1, <2>13, <2>19, <2>21 DEF m
<1>23. CASE ReadTypstBreak
  <2>1. PICK r : r = FlushList(p)
    OBVIOUS
  <2>2. /\ More /\ text.lang = "typst" /\ Here.n = "parbreak" /\ text' = text
        /\ rd' = [r EXCEPT !.pos = @ + 1]
    BY <1>4, <1>23, <2>1 DEF ReadTypstBreak, Read
  <2>3. Account(text, r, hi, c) /\ r.pos = hi
    <3>1. Account(text, r, hi, c)
      BY <1>1, <1>5, <2>1, FlushListAccount
    <3> QED BY <1>5, <2>1, <3>1, ReaderPlace
  <2>a. text.lang # "asciidoc"
    BY <2>2
  <2>4. m = 0
    BY <2>2, <2>a, ConstructsHere DEF m
  <2>5. Onward(text, [r EXCEPT !.pos = @ + 1], hi, c + m)
    BY <1>6, <2>3, <2>4
  <2> QED BY <2>2, <2>5 DEF m
<1>24. PICK f : f = FlushList(rd)
  OBVIOUS
<1>25. Account(text, f, hi, c) /\ f.list = <<>> /\ f \in Readers /\ f.pos = hi
  <2>1. Account(text, f, hi, c) /\ f.list = <<>>
    BY <1>1, <1>24, FlushListAccount
  <2>2. f \in Readers
    BY <2>1 DEF Account
  <2>3. f.pos = hi
    BY <1>24, ReaderPlace
  <2> QED BY <2>1, <2>2, <2>3
<1>26. CASE ReadTypstSpace
  <2>1. PICK r : r = Grow(f, e, hi, Here.id)
    OBVIOUS
  <2>2. /\ More /\ text.lang = "typst" /\ Here.n = "space" /\ text' = text
        /\ rd' = [r EXCEPT !.pos = @ + 1]
    BY <1>2, <1>24, <1>26, <2>1 DEF ReadTypstSpace, Read
  <2>3. text.lang # "asciidoc"
    BY <2>2
  <2>4. e \in Seq(CleanPhrases) /\ Len(e) = 0
    BY <1>2
  <2>5. PICK id : id = Here.id
    OBVIOUS
  <2>6. id \in Nat /\ id = WordingOf(text.lang, text.nodes[hi])
    BY <1>8, <2>2, <2>3, <2>5
  <2>7. Account(text, Grow(f, e, hi, id), hi + 1, c + Len(e))
    BY <1>1, <1>25, <2>3, <2>4, <2>6, GrowAccount
  <2>8. PICK h, k : h = hi + 1 /\ k = c + Len(e)
    OBVIOUS
  <2>9. Account(text, r, h, k) /\ r \in Readers
    <3>1. Account(text, r, h, k)
      BY <2>1, <2>5, <2>7, <2>8
    <3> QED BY <3>1 DEF Account
  <2>10. m = 0
    BY <2>2, <2>3, ConstructsHere DEF m
  <2>11. k = c + m
    BY <2>4, <2>8, <2>10
  <2>12. PICK q : q = [r EXCEPT !.pos = @ + 1]
    OBVIOUS
  <2>13. Account(text, q, h, k)
    BY <2>9, <2>12, MoveAccount
  <2>14. q.pos = h
    BY <1>25, <2>1, <2>8, <2>9, <2>12, ReaderPlace
  <2>15. Onward(text, q, hi, c + m)
    BY <2>8, <2>11, <2>13, <2>14 DEF Onward
  <2> QED BY <2>2, <2>12, <2>15 DEF m
<1>27. CASE ReadTypstInline
  <2>1. More /\ text.lang = "typst" /\ Here.n = "inline" /\ text' = text
    BY <1>27 DEF ReadTypstInline, Read
  <2>2. PICK r : r = Grow(f, read, rd.pos, Here.id)
    OBVIOUS
  <2>3. rd' = Report([r EXCEPT !.pos = @ + 1], reported)
    BY <1>24, <1>27, <2>1, <2>2 DEF ReadTypstInline, Read
  <2>4. text.lang # "asciidoc"
    BY <2>1
  <2>5. PICK in, id : in = read /\ id = Here.id
    OBVIOUS
  <2>6. in \in Seq(CleanPhrases) /\ id \in Nat /\ id = WordingOf(text.lang, text.nodes[hi])
    BY <1>8, <2>1, <2>4, <2>5
  <2>7. Account(text, Grow(f, in, hi, id), hi + 1, c + Len(in))
    BY <1>1, <1>25, <2>4, <2>6, GrowAccount
  <2>8. Account(text, r, hi + 1, c + Len(read)) /\ r.pos = hi
    BY <1>25, <2>2, <2>5, <2>7, ReaderPlace
  <2>9. m = Voiced(text.lang, Here.in)
    BY <2>1, ConstructsHere DEF m
  <2>10. Onward(text, Report([r EXCEPT !.pos = @ + 1], reported), hi, c + m)
    BY <1>7, <2>1, <2>8, <2>9
  <2> QED BY <2>1, <2>3, <2>10 DEF m
<1>28. CASE ReadTypstItem
  <2>1. More /\ text.lang = "typst" /\ Here.n = "item" /\ text' = text
    BY <1>28 DEF ReadTypstItem, Read
  <2>2. PICK in, id, a : in = read /\ id = Here.id /\ a = Here.a
    OBVIOUS
  <2>3. /\ in \in Seq(CleanPhrases) /\ id \in Nat /\ a \in Attrs
        /\ id = WordingOf(text.lang, text.nodes[hi])
    <3>1. text.lang # "asciidoc"
      BY <2>1
    <3> QED BY <1>8, <2>1, <2>2, <3>1
  <2>4. PICK new : new = [at |-> hi, blk |-> Block("list", a, in, id)]
    OBVIOUS
  <2>5. PICK r : r = IF p.list # <<>> /\ p.list[1].blk.a = a
                     THEN [p EXCEPT !.list[1].blk.in = @ \o in]
                     ELSE [FlushList(p) EXCEPT !.list = <<new>>]
    OBVIOUS
  <2>6. rd' = Report([r EXCEPT !.pos = @ + 1], reported)
    BY <1>4, <1>28, <2>1, <2>2, <2>4, <2>5 DEF ReadTypstItem, Read
  <2>7. Account(text, r, hi + 1, c + Len(in)) /\ r.pos = hi
    <3>0. p.para = <<>>
      BY <1>2, <1>5
    <3>1. CASE p.list # <<>> /\ p.list[1].blk.a = a
      <4>1. r = [p EXCEPT !.list[1].blk.in = @ \o in]
        BY <2>5, <3>1
      <4>2. r.pos = hi
        BY <1>5, <4>1 DEF Readers
      <4> QED BY <1>1, <1>5, <2>1, <2>3, <3>0, <3>1, <4>1, <4>2, JoinAccount
    <3>2. CASE ~(p.list # <<>> /\ p.list[1].blk.a = a)
      <4>1. r = [FlushList(p) EXCEPT !.list = <<new>>]
        BY <2>5, <3>2
      <4>2. Account(text, [FlushList(p) EXCEPT !.list = <<[at |-> hi, blk |-> Block("list", a, in, id)]>>],
                    hi + 1, c + Len(in))
        BY <1>1, <1>5, <2>1, <2>3, <3>0, BeginAccount
      <4>3. PICK g \in Readers : g = FlushList(p) /\ g.pos = hi
        BY <1>5, FlushType, ReaderPlace
      <4>4. r.pos = hi
        BY <4>1, <4>3 DEF Readers
      <4> QED BY <2>4, <4>1, <4>2, <4>4
    <3> QED BY <3>1, <3>2
  <2>8. m = Voiced(text.lang, Here.in)
    BY <2>1, ConstructsHere DEF m
  <2>9. Onward(text, Report([r EXCEPT !.pos = @ + 1], reported), hi, c + m)
    BY <1>7, <2>1, <2>2, <2>7, <2>8
  <2> QED BY <2>1, <2>6, <2>9 DEF m
<1>29. CASE OpenTag \/ CloseTag \/ HtmlText
  BY <1>9, <1>29 DEF OpenTag, CloseTag, HtmlText, HtmlMore
<1> QED BY <1>12, <1>13, <1>14, <1>15, <1>16, <1>17, <1>18, <1>19, <1>20, <1>21, <1>22, <1>23,
           <1>26, <1>27, <1>28, <1>29, <1>30 DEF ReadNext, m

(***************************************************************************)
(* The account of a whole text.                                            *)
(***************************************************************************)

\* The items v are those of s, and none of them is in front of one that
\* starts before it, or starts where it does and came before it.
Sorted(s, t, v) ==
    /\ v \in Seq(Items) /\ Len(v) = Len(s) /\ Weigh(v) = Weigh(s)
    /\ \A i \in 1..Len(s) : \E j \in 1..Len(s) : v[i] = s[j]
    /\ \A j \in 1..Len(s) : \E i \in 1..Len(s) : v[i] = s[j]
    /\ \A i, j \in 1..Len(s) : i < j =>
          \E x, y \in 1..Len(s) :
             v[i] = s[x] /\ v[j] = s[y] /\ x # y /\ y \notin Earlier(s, t, x)

\* Items in the order of their starts.
LEMMA InPlaceAccount ==
  ASSUME NEW s \in Seq(Items), NEW t, Len(t) \in Nat
  PROVE  Sorted(s, t, InPlace(s, t))
<1> DEFINE at(p) == CHOOSE i \in DOMAIN s : Cardinality(Earlier(s, t, i)) = p - 1
<1>1. PICK n \in Nat : n = Len(s) /\ DOMAIN s = 1..n
  OBVIOUS
<1>2. \A p \in 1..n : at(p) \in 1..n /\ Cardinality(Earlier(s, t, at(p))) = p - 1
  <2>1. ASSUME NEW p \in 1..n
        PROVE  at(p) \in 1..n /\ Cardinality(Earlier(s, t, at(p))) = p - 1
    <3>1. p \in DOMAIN s
      BY <1>1
    <3>2. \E i \in DOMAIN s : Cardinality(Earlier(s, t, i)) = p - 1
      BY <3>1, RanksTaken
    <3>3. at(p) \in DOMAIN s /\ Cardinality(Earlier(s, t, at(p))) = p - 1
      BY <3>2, Zenon
    <3> QED BY <1>1, <3>3
  <2> QED BY <2>1, Zenon
<1>3. InPlace(s, t) = [p \in 1..n |-> s[at(p)]]
  BY <1>1 DEF InPlace, Earlier, Begin
<1> HIDE DEF at
<1>4. PICK f : f = [p \in 1..n |-> at(p)]
  OBVIOUS
<1>5. /\ f \in [1..n -> 1..n]
      /\ \A p \in 1..n : f[p] \in 1..n /\ Cardinality(Earlier(s, t, f[p])) = p - 1
  BY <1>2, <1>4
<1>6. PICK v : v = InPlace(s, t)
  OBVIOUS
<1>7. v = [p \in 1..n |-> s[f[p]]]
  BY <1>3, <1>4, <1>6
<1>8. \A i \in 1..n : s[i] \in Items
  BY <1>1, ElementOfSeq
<1>9. v \in Seq(Items) /\ Len(v) = n /\ \A p \in 1..n : v[p] = s[f[p]]
  <2>1. \A p \in 1..n : s[f[p]] \in Items
    BY <1>5, <1>8
  <2> QED BY <1>7, <2>1
<1>10. f \in Bijection(1..n, 1..n)
  <2>1. \A p, q \in 1..n : f[p] = f[q] => p = q
    <3> SUFFICES ASSUME NEW p \in 1..n, NEW q \in 1..n, f[p] = f[q] PROVE p = q
      OBVIOUS
    <3>1. p - 1 = q - 1
      BY <1>5
    <3> QED BY <3>1
  <2>2. f \in Injection(1..n, 1..n)
    BY <1>5, <2>1, Zenon DEF Injection, IsInjective
  <2>3. IsFiniteSet(1..n)
    <3>1. 1 \in Int /\ n \in Int
      OBVIOUS
    <3> QED BY <3>1, FS_Interval
  <2>4. f \in Surjection(1..n, 1..n)
    BY <2>2, <2>3, FS_Injection
  <2> QED BY <2>2, <2>4 DEF Bijection
<1>11. Weigh(v) = Weigh(s)
  <2>1. PICK w, u : /\ w = [i \in DOMAIN s |-> Kept(s[i].blk)] /\ u = [i \in DOMAIN v |-> Kept(v[i].blk)]
    OBVIOUS
  <2>2. w \in Seq(Nat) /\ Len(w) = n /\ u \in Seq(Nat) /\ Len(u) = n
    BY <1>1, <1>9, <2>1, WeighType
  <2>3. DOMAIN v = 1..n
    BY <1>9
  <2>4. \A i \in 1..n : u[i] = w[f[i]]
    <3> SUFFICES ASSUME NEW i \in 1..n PROVE u[i] = w[f[i]]
      OBVIOUS
    <3>1. u[i] = Kept(v[i].blk)
      BY <2>1, <2>3
    <3>2. f[i] \in DOMAIN s
      BY <1>1, <1>5
    <3>3. w[f[i]] = Kept(s[f[i]].blk)
      BY <2>1, <3>2
    <3> QED BY <1>9, <3>1, <3>3
  <2>5. Total(u) = Total(w)
    BY <1>10, <2>2, <2>4, TotalReordered
  <2> QED BY <2>1, <2>5 DEF Weigh
<1>12. \A i \in 1..n : \E j \in 1..n : v[i] = s[j]
  BY <1>5, <1>9
<1>13. \A j \in 1..n : \E i \in 1..n : v[i] = s[j]
  <2>1. \A j \in 1..n : \E i \in 1..n : f[i] = j
    BY <1>10 DEF Bijection, Surjection
  <2> QED BY <1>9, <2>1
<1>14. ASSUME NEW i \in 1..n, NEW j \in 1..n, i < j
       PROVE  \E x, y \in 1..n : v[i] = s[x] /\ v[j] = s[y] /\ x # y /\ y \notin Earlier(s, t, x)
  <2>1. PICK x \in 1..n, y \in 1..n : x = f[i] /\ y = f[j]
    BY <1>5
  <2>2. Cardinality(Earlier(s, t, x)) = i - 1 /\ Cardinality(Earlier(s, t, y)) = j - 1
    BY <1>5, <2>1
  <2>3. y \notin Earlier(s, t, x)
    <3>1. y \in Earlier(s, t, x) => Cardinality(Earlier(s, t, y)) < Cardinality(Earlier(s, t, x))
      BY <1>1, EarlierCounts
    <3> QED BY <1>14, <2>2, <3>1
  <2>4. x # y
    BY <1>14, <2>2
  <2> QED BY <1>9, <2>1, <2>3, <2>4
<1>15. \A i, j \in 1..n : i < j =>
         \E x, y \in 1..n : v[i] = s[x] /\ v[j] = s[y] /\ x # y /\ y \notin Earlier(s, t, x)
  BY <1>14
<1>16. Sorted(s, t, v)
  BY <1>1, <1>9, <1>11, <1>12, <1>13, <1>15 DEF Sorted
<1> QED BY <1>6, <1>16

\* Places whose constructs come on the same way, items with a directive
\* among them, and the order a document has its blocks in.
Placed(t, p) == t.nodes[p].st # "none"
Alike(t, p, q) ==
    (t.nodes[p].n = "directive") = (t.nodes[q].n = "directive") /\ Placed(t, p) = Placed(t, q)
Steered(t, s) == \E k \in DOMAIN s : t.nodes[s[k].at].n = "directive"
Ordered(t, s) ==
    \A i, j \in 1..Len(s) :
       i < j => /\ (Placed(t, s[i].at) /\ Placed(t, s[j].at)) \/ Steered(t, s) =>
                      StartOf(t.nodes, s[i].at) <= StartOf(t.nodes, s[j].at)
                /\ Alike(t, s[i].at, s[j].at) \/ ~Steered(t, s) => s[i].at < s[j].at

\* A construct with a span starts at its place or at the one before it, one
\* without a span behind all places.
LEMMA StartPlace ==
  ASSUME NEW t, NEW p \in Nat
  PROVE  /\ Placed(t, p) => StartOf(t.nodes, p) \in {p - 1, p}
         /\ ~Placed(t, p) => StartOf(t.nodes, p) = Len(t.nodes) + 1
BY DEF StartOf, Placed

\* Items of rising places are in order, if there is no directive among them or
\* all have a span.
LEMMA RisingOrdered ==
  ASSUME NEW t, NEW s \in Seq(Items),
         Steered(t, s) => \A i \in 1..Len(s) : Placed(t, s[i].at),
         \A i, j \in 1..Len(s) : i < j => s[i].at < s[j].at
  PROVE  Ordered(t, s)
<1> SUFFICES ASSUME NEW i \in 1..Len(s), NEW j \in 1..Len(s), i < j
             PROVE  (Placed(t, s[i].at) /\ Placed(t, s[j].at)) \/ Steered(t, s) =>
                       StartOf(t.nodes, s[i].at) <= StartOf(t.nodes, s[j].at)
  BY DEF Ordered
<1>1. s[i] \in Items /\ s[j] \in Items
  BY ElementOfSeq
<1>2. PICK p, q : p = s[i].at /\ q = s[j].at
  OBVIOUS
<1>3. p \in Nat /\ q \in Nat /\ p < q
  BY <1>1, <1>2 DEF Items
<1>4. Placed(t, p) /\ Placed(t, q) => StartOf(t.nodes, p) <= StartOf(t.nodes, q)
  BY <1>3, StartPlace
<1> QED BY <1>2, <1>4

\* Put in their places, items of which those on the same way rise and one is
\* a directive are in order.
LEMMA InPlaceOrdered ==
  ASSUME NEW t, Len(t.nodes) \in Nat, NEW s \in Seq(Items), Steered(t, s),
         \A i, j \in 1..Len(s) : i < j /\ Alike(t, s[i].at, s[j].at) => s[i].at < s[j].at
  PROVE  Ordered(t, InPlace(s, t.nodes))
<1>1. PICK ns : ns = t.nodes
  OBVIOUS
<1>2. PICK v : v = InPlace(s, ns)
  OBVIOUS
<1>3. /\ v \in Seq(Items) /\ Len(v) = Len(s)
      /\ \A j \in 1..Len(s) : \E i \in 1..Len(s) : v[i] = s[j]
      /\ \A i, j \in 1..Len(s) : i < j =>
            \E x, y \in 1..Len(s) : v[i] = s[x] /\ v[j] = s[y] /\ x # y /\ y \notin Earlier(s, ns, x)
  <2>1. Len(ns) \in Nat
    BY <1>1
  <2>2. Sorted(s, ns, v)
    BY <1>2, <2>1, InPlaceAccount
  <2> QED BY <2>2, Zenon DEF Sorted
<1>4. DOMAIN v = 1..Len(s) /\ DOMAIN s = 1..Len(s) /\ Len(s) \in Nat
  BY <1>3
<1>5. Steered(t, v)
  <2>1. PICK k \in 1..Len(s) : t.nodes[s[k].at].n = "directive"
    BY <1>4 DEF Steered
  <2>2. PICK i \in 1..Len(s) : v[i] = s[k]
    BY <1>3
  <2> QED BY <1>4, <2>1, <2>2 DEF Steered
<1>6. ASSUME NEW i \in 1..Len(v), NEW j \in 1..Len(v), i < j
      PROVE  /\ StartOf(t.nodes, v[i].at) <= StartOf(t.nodes, v[j].at)
             /\ Alike(t, v[i].at, v[j].at) => v[i].at < v[j].at
  <2>1. PICK x \in 1..Len(s), y \in 1..Len(s) :
               v[i] = s[x] /\ v[j] = s[y] /\ x # y /\ y \notin Earlier(s, ns, x)
    <3>1. i \in 1..Len(s) /\ j \in 1..Len(s)
      BY <1>3
    <3>2. \A k, l \in 1..Len(s) : k < l =>
             \E x, y \in 1..Len(s) : v[k] = s[x] /\ v[l] = s[y] /\ x # y /\ y \notin Earlier(s, ns, x)
      BY <1>3, Zenon
    <3> QED BY <1>6, <3>1, <3>2, Zenon
  <2>2. PICK p, q : p = s[x].at /\ q = s[y].at
    OBVIOUS
  <2>3. p \in Nat /\ q \in Nat
    <3>1. s[x] \in Items /\ s[y] \in Items
      BY ElementOfSeq
    <3> QED BY <2>2, <3>1 DEF Items
  <2>4. PICK a, b : a = StartOf(ns, p) /\ b = StartOf(ns, q)
    OBVIOUS
  <2>5. /\ Placed(t, p) => a \in {p - 1, p}
        /\ ~Placed(t, p) => a = Len(ns) + 1
        /\ Placed(t, q) => b \in {q - 1, q}
        /\ ~Placed(t, q) => b = Len(ns) + 1
    BY <1>1, <2>3, <2>4, StartPlace
  <2>6. a \in Int /\ b \in Int
    <3>1. PICK m : m = Len(ns) + 1
      OBVIOUS
    <3>2. m \in Int /\ p - 1 \in Int /\ p \in Int /\ q - 1 \in Int /\ q \in Int
      BY <1>1, <2>3, <3>1
    <3>3. a = p - 1 \/ a = p \/ a = m
      BY <2>5, <3>1, Zenon
    <3>4. b = q - 1 \/ b = q \/ b = m
      BY <2>5, <3>1, Zenon
    <3>5. a \in Int
      BY <3>2, <3>3, Zenon
    <3>6. b \in Int
      BY <3>2, <3>4, Zenon
    <3> QED BY <3>5, <3>6
  <2>7. ~(b < a \/ (b = a /\ y < x))
    BY <1>4, <2>1, <2>2, <2>4 DEF Earlier, Begin
  <2>8. a <= b /\ (a = b => x < y)
    BY <2>1, <2>6, <2>7
  <2>9. ASSUME Alike(t, p, q) PROVE p < q
    <3>1. CASE x < y
      BY <2>2, <2>9, <3>1
    <3>2. CASE y < x
      <4>1. q < p
        <5>1. Alike(t, q, p)
          BY <2>9 DEF Alike
        <5> QED BY <2>2, <3>2, <5>1
      <4>2. a < b
        BY <2>6, <2>8, <3>2
      <4>3. Placed(t, p) = Placed(t, q)
        BY <2>9 DEF Alike
      <4>4. CASE Placed(t, p) /\ Placed(t, q)
        BY <2>3, <2>5, <4>1, <4>2, <4>4
      <4>5. CASE ~Placed(t, p) /\ ~Placed(t, q)
        BY <2>5, <2>6, <4>2, <4>5
      <4> QED BY <4>3, <4>4, <4>5 DEF Placed
    <3> QED BY <2>1, <3>1, <3>2
  <2> QED BY <1>1, <2>1, <2>2, <2>4, <2>8, <2>9
<1>7. Ordered(t, v)
  BY <1>5, <1>6 DEF Ordered
<1> QED BY <1>1, <1>2, <1>7

\* What a text was read into: each item is that of its place in the text and
\* they are in order, and with what was lost they have what c constructs
\* left.
Complete(t, r, c) ==
    /\ r.got \in Seq(Items)
    /\ c = Weigh(r.got) + r.lost
    /\ t.keep => r.lost = 0
    /\ \A i \in 1..Len(r.got) : r.got[i].blk.id = WordingOf(t.lang, t.nodes[r.got[i].at])
    /\ Ordered(t, r.got)

\* A reader without anything pending.
LEMMA SettledAccount ==
  ASSUME NEW t, NEW r, NEW hi \in Nat \ {0}, NEW c, Account(t, r, hi, c),
         r.para = <<>>, r.list = <<>>, r.dirs = <<>>,
         t.lang # "asciidoc" => \A p \in 1..(hi - 1) : Placed(t, p)
  PROVE  Complete(t, r, c)
<1>1. PICK e : e = <<>>
  OBVIOUS
<1>2. /\ r \in Readers /\ r.got \in Seq(Items) /\ (t.keep => r.lost = 0)
      /\ r.dirs = e /\ r.para = e /\ r.list = e
  BY <1>1, ReaderFields DEF Account
<1>3. c = Weigh(r.got) + Weigh(e) + Weigh(e) + Weigh(e) + r.lost
  BY <1>2 DEF Account, Carried
<1>4. c = Weigh(r.got) + r.lost
  BY <1>1, <1>2, <1>3, AccountWeights
<1>5. PICK mid \in 1..hi : r.got \in InTurn(t, FALSE, 1, mid)
  BY DEF Account, Behaves
<1>6. PICK g : g = r.got
  OBVIOUS
<1>7. /\ g \in Seq(ItemsOf(t, FALSE, 1, mid))
      /\ \A i, j \in 1..Len(g) : i < j => g[i].at < g[j].at
  BY <1>5, <1>6 DEF InTurn
<1>8. \A i \in 1..Len(g) :
        /\ g[i].at \in 1..(mid - 1)
        /\ g[i].blk.id = WordingOf(t.lang, t.nodes[g[i].at])
        /\ t.lang = "asciidoc" => t.nodes[g[i].at].n # "directive"
  <2>1. \A i \in 1..Len(g) : g[i] \in ItemsOf(t, FALSE, 1, mid)
    BY <1>7, ElementOfSeq
  <2> QED BY <2>1 DEF ItemsOf
<1>9. Ordered(t, g)
  <2>1. g \in Seq(Items) /\ DOMAIN g = 1..Len(g)
    BY <1>2, <1>6
  <2>2. Steered(t, g) => \A i \in 1..Len(g) : Placed(t, g[i].at)
    <3>1. CASE t.lang = "asciidoc"
      <4>1. ~Steered(t, g)
        BY <1>8, <2>1, <3>1 DEF Steered
      <4> QED BY <4>1
    <3>2. CASE t.lang # "asciidoc"
      <4>1. \A i \in 1..Len(g) : g[i].at \in 1..(hi - 1)
        BY <1>5, <1>8
      <4> QED BY <3>2, <4>1
    <3> QED BY <3>1, <3>2
  <2> QED BY <1>7, <2>1, <2>2, RisingOrdered
<1> QED BY <1>2, <1>4, <1>6, <1>8, <1>9 DEF Complete

\* Directives take their places.
LEMMA MergedAccount ==
  ASSUME NEW t, text = t, Len(t.nodes) \in Nat,
         NEW r, NEW hi \in Nat \ {0}, NEW c, Account(t, r, hi, c), t.lang = "asciidoc",
         r.dirs # <<>>
  PROVE  Complete(t, MergeDirectives(r), c)
<1>1. PICK e : e = <<>>
  OBVIOUS
<1>2. /\ r \in Readers /\ r.got \in Seq(Items) /\ r.dirs \in Seq(Items) /\ (t.keep => r.lost = 0)
      /\ r.para = e /\ r.list = e /\ r.dirs \in InTurn(t, TRUE, 1, hi)
  BY <1>1, ReaderFields DEF Account
<1>3. c = Weigh(r.got) + Weigh(e) + Weigh(e) + Weigh(r.dirs) + r.lost
  BY <1>2 DEF Account, Carried
<1>4. PICK g, d, s : g = r.got /\ d = r.dirs /\ s = g \o d
  OBVIOUS
<1>5. g \in Seq(Items) /\ d \in Seq(Items) /\ s \in Seq(Items) /\ Weigh(s) = Weigh(g) + Weigh(d)
  BY <1>2, <1>4, WeighJoin
<1>6. c = Weigh(s) + r.lost
  BY <1>1, <1>2, <1>3, <1>4, <1>5, AccountWeights
<1>7. PICK mid \in 1..hi : g \in InTurn(t, FALSE, 1, mid)
  BY <1>4 DEF Account, Behaves
<1>8. /\ \A i \in 1..Len(g) : g[i] \in ItemsOf(t, FALSE, 1, mid)
      /\ \A i \in 1..Len(d) : d[i] \in ItemsOf(t, TRUE, 1, hi)
      /\ \A i, j \in 1..Len(g) : i < j => g[i].at < g[j].at
      /\ \A i, j \in 1..Len(d) : i < j => d[i].at < d[j].at
  <2>1. /\ g \in Seq(ItemsOf(t, FALSE, 1, mid))
        /\ \A i, j \in 1..Len(g) : i < j => g[i].at < g[j].at
    BY <1>7 DEF InTurn
  <2>2. /\ d \in Seq(ItemsOf(t, TRUE, 1, hi))
        /\ \A i, j \in 1..Len(d) : i < j => d[i].at < d[j].at
    BY <1>2, <1>4 DEF InTurn
  <2>3. \A i \in 1..Len(g) : g[i] \in ItemsOf(t, FALSE, 1, mid)
    BY <2>1, ElementOfSeq
  <2>4. \A i \in 1..Len(d) : d[i] \in ItemsOf(t, TRUE, 1, hi)
    BY <2>2, ElementOfSeq
  <2> QED BY <2>1, <2>2, <2>3, <2>4
<1>9. /\ \A i \in 1..Len(g) : /\ g[i].blk.id = WordingOf(t.lang, t.nodes[g[i].at])
                              /\ t.nodes[g[i].at].n # "directive"
      /\ \A i \in 1..Len(d) : /\ d[i].blk.id = WordingOf(t.lang, t.nodes[d[i].at])
                              /\ t.nodes[d[i].at].n = "directive"
  BY <1>8 DEF ItemsOf
<1>10. /\ Len(s) = Len(g) + Len(d) /\ Len(g) \in Nat /\ Len(d) \in Nat
       /\ \A j \in 1..Len(g) : s[j] = g[j]
       /\ \A j \in (Len(g) + 1)..(Len(g) + Len(d)) : s[j] = d[j - Len(g)]
  <2>1. Behind(g \o d, g, d, Len(g), Len(d))
    BY <1>5, JoinType
  <2>2. Behind(s, g, d, Len(g), Len(d))
    BY <1>4, <2>1
  <2> QED BY <1>5, <2>2 DEF Behind
<1>11. ASSUME NEW j \in 1..Len(s), j \notin 1..Len(g)
       PROVE  j - Len(g) \in 1..Len(d) /\ s[j] = d[j - Len(g)]
  <2>1. j - Len(g) \in 1..Len(d) /\ j \in (Len(g) + 1)..(Len(g) + Len(d))
    BY <1>10, <1>11
  <2> QED BY <1>10, <2>1
<1>12. \A i \in 1..Len(s) : s[i].blk.id = WordingOf(t.lang, t.nodes[s[i].at])
  <2>1. ASSUME NEW i \in 1..Len(s)
        PROVE  s[i].blk.id = WordingOf(t.lang, t.nodes[s[i].at])
    <3>1. CASE i \in 1..Len(g)
      <4>1. s[i] = g[i]
        BY <1>10, <3>1
      <4> QED BY <1>9, <3>1, <4>1, Zenon
    <3>2. CASE i \notin 1..Len(g)
      <4>1. PICK y \in 1..Len(d) : s[i] = d[y]
        BY <1>11, <3>2
      <4> QED BY <1>9, <4>1, Zenon
    <3> QED BY <3>1, <3>2
  <2> QED BY <2>1, Zenon
<1>13. ASSUME NEW i \in 1..Len(s), NEW j \in 1..Len(s), i < j, Alike(t, s[i].at, s[j].at)
       PROVE  s[i].at < s[j].at
  <2>1. CASE j \in 1..Len(g)
    <3>1. i \in 1..Len(g)
      BY <1>13, <2>1
    <3> QED BY <1>8, <1>10, <1>13, <2>1, <3>1
  <2>2. CASE j \notin 1..Len(g)
    <3>1. PICK y \in 1..Len(d) : y = j - Len(g) /\ s[j] = d[y]
      BY <1>11, <2>2
    <3>2. i \notin 1..Len(g)
      <4>1. ASSUME i \in 1..Len(g) PROVE FALSE
        <5>1. t.nodes[s[i].at].n # "directive" /\ t.nodes[s[j].at].n = "directive"
          BY <1>9, <1>10, <3>1, <4>1
        <5> QED BY <1>13, <5>1 DEF Alike
      <4> QED BY <4>1
    <3>3. PICK x \in 1..Len(d) : x = i - Len(g) /\ s[i] = d[x]
      BY <1>11, <3>2
    <3>4. x < y
      BY <1>10, <1>13, <3>1, <3>3
    <3> QED BY <1>8, <3>1, <3>3, <3>4
  <2> QED BY <2>1, <2>2
<1>14. Steered(t, s)
  <2>1. 1 \in 1..Len(d)
    BY <1>4, <1>5
  <2>2. PICK k : k = Len(g) + 1
    OBVIOUS
  <2>3. k \in 1..Len(s) /\ k \in (Len(g) + 1)..(Len(g) + Len(d)) /\ k - Len(g) = 1
    BY <1>10, <2>1, <2>2
  <2>4. s[k] = d[1]
    BY <1>10, <2>3
  <2>5. k \in DOMAIN s
    BY <1>5, <2>3
  <2> QED BY <1>9, <2>1, <2>4, <2>5 DEF Steered
<1>15. PICK v : v = InPlace(s, t.nodes)
  OBVIOUS
<1>16. /\ v \in Seq(Items) /\ Len(v) = Len(s) /\ Weigh(v) = Weigh(s)
       /\ \A i \in 1..Len(s) : \E j \in 1..Len(s) : v[i] = s[j]
  <2>1. Sorted(s, t.nodes, v)
    BY <1>5, <1>15, InPlaceAccount
  <2> QED BY <2>1, Zenon DEF Sorted
<1>17. Ordered(t, v)
  BY <1>5, <1>13, <1>14, <1>15, InPlaceOrdered
<1>18. PICK q : q = MergeDirectives(r)
  OBVIOUS
<1>19. q.got = v /\ q.lost = r.lost
  BY <1>2, <1>4, <1>15, <1>18 DEF MergeDirectives, Readers
<1>20. \A i \in 1..Len(v) : v[i].blk.id = WordingOf(t.lang, t.nodes[v[i].at])
  BY <1>12, <1>16
<1>21. Complete(t, q, c)
  BY <1>2, <1>6, <1>16, <1>17, <1>19, <1>20 DEF Complete
<1> QED BY <1>18, <1>21

\* The end of a reading has what all constructs left.
LEMMA EndAccount ==
  ASSUME NEW t, text = t, Len(t.nodes) \in Nat, t.lang \in Readable,
         NEW r, NEW hi \in Nat \ {0}, NEW c, Account(t, r, hi, c),
         t.lang # "asciidoc" => \A p \in 1..(hi - 1) : Placed(t, p)
  PROVE  Complete(t, EndOf(t.lang, r), c)
<1>1. t.lang # "html"
  BY TablesType
<1>2. CASE t.lang = "asciidoc"
  <2>1. EndOf(t.lang, r) = MergeDirectives(r)
    BY <1>1, <1>2 DEF EndOf
  <2>2. CASE r.dirs = <<>>
    <3>1. MergeDirectives(r) = r
      BY <2>2 DEF MergeDirectives
    <3>2. r.para = <<>> /\ r.list = <<>>
      BY <1>2 DEF Account
    <3>3. Complete(t, r, c)
      BY <1>2, <2>2, <3>2, SettledAccount
    <3> QED BY <2>1, <3>1, <3>3
  <2>3. CASE r.dirs # <<>>
    BY <1>2, <2>1, <2>3, MergedAccount
  <2> QED BY <2>2, <2>3
<1>3. CASE t.lang # "asciidoc"
  <2>1. PICK p : p = FlushPara(r)
    OBVIOUS
  <2>2. PICK q : q = FlushList(p)
    OBVIOUS
  <2>3. EndOf(t.lang, r) = q
    BY <1>1, <1>3, <2>1, <2>2 DEF EndOf
  <2>4. PICK e : e = <<>>
    OBVIOUS
  <2>5. Account(t, p, hi, c) /\ p.para = e
    BY <2>1, <2>4, FlushParaAccount
  <2>6. Account(t, q, hi, c) /\ q.list = e /\ q.para = e
    BY <2>2, <2>4, <2>5, FlushListAccount
  <2>7. q.dirs = e
    BY <1>3, <2>4, <2>6 DEF Account
  <2>8. Complete(t, q, c)
    BY <1>3, <2>4, <2>6, <2>7, SettledAccount
  <2> QED BY <2>3, <2>8
<1> QED BY <1>2, <1>3

\* A text's constructs are counted.
LEMMA ConstructsType ==
  ASSUME NEW t \in Texts, t.lang \in Readable
  PROVE  /\ ConstructsOf(t) \in Seq(Nat) /\ Len(ConstructsOf(t)) = Len(t.nodes)
         /\ \A i \in 1..Len(t.nodes) : ConstructsOf(t)[i] = Constructs(t.lang, t.nodes[i])
<1>1. t.lang # "html"
  BY TablesType
<1>2. DOMAIN t.nodes = 1..Len(t.nodes) /\ Len(t.nodes) \in Nat
  BY TextType
<1>3. ASSUME NEW i \in 1..Len(t.nodes) PROVE Constructs(t.lang, t.nodes[i]) \in Nat
  <2>1. PICK nd, b : nd = t.nodes[i] /\ b = t.lang
    OBVIOUS
  <2>2. nd \in Constructed(b)
    BY <1>1, <2>1, TextType
  <2>3. nd.in \in Seq(PhrasesOf(b))
    <3>1. nd.in \in Seq(Phrases)
      BY <2>2 DEF Constructed
    <3>2. \A j \in 1..Len(nd.in) : nd.in[j] \in PhrasesOf(b)
      BY <2>2, <3>1 DEF Constructed, PhrasesOf
    <3> QED BY <3>1, <3>2
  <2>4. Voiced(b, nd.in) \in Nat
    <3>1. PICK k \in BOOLEAN : k = TRUE
      OBVIOUS
    <3> QED BY <2>1, <2>3, InlinesAccounted
  <2>5. Constructs(b, nd) \in {0, 1, Voiced(b, nd.in)}
    BY DEF Constructs, Standing
  <2> QED BY <2>1, <2>4, <2>5
<1>4. PICK w : w = ConstructsOf(t)
  OBVIOUS
<1>5. w = [i \in 1..Len(t.nodes) |-> Constructs(t.lang, t.nodes[i])]
  BY <1>2, <1>4 DEF ConstructsOf
<1>6. w \in Seq(Nat) /\ Len(w) = Len(t.nodes)
       /\ \A i \in 1..Len(t.nodes) : w[i] = Constructs(t.lang, t.nodes[i])
  BY <1>2, <1>3, <1>5
<1> QED BY <1>4, <1>6

\* While a text is read, the reader has what the constructs before its place
\* left; an open document accounts for all of them.
AccountInv ==
    /\ phase = "open" => result = "ok"
    /\ phase = "reading" /\ text.lang # "html" =>
          /\ rd.pos \in 1..(Len(text.nodes) + 1)
          /\ Account(text, rd, rd.pos, Sums(ConstructsOf(text))[rd.pos - 1])
    /\ ReadingAccounts

\* Nothing is read yet.
LEMMA AccountInit == Init => AccountInv
<1> SUFFICES ASSUME Init PROVE AccountInv
  OBVIOUS
<1>1. CASE StartChunking
  BY <1>1 DEF StartChunking, AccountInv, ReadingAccounts
<1>2. CASE StartSession
  <2>1. text \in Texts /\ rd = NewReader /\ phase = "reading"
    BY <1>2 DEF StartSession, SessionInit
  <2>2. ReadingAccounts
    BY <2>1 DEF ReadingAccounts
  <2>3. ASSUME text.lang # "html"
        PROVE  /\ rd.pos \in 1..(Len(text.nodes) + 1)
               /\ Account(text, rd, rd.pos, Sums(ConstructsOf(text))[rd.pos - 1])
    <3>1. text.lang \in Readable
      BY <2>1, <2>3, TextType DEF Backends
    <3>2. PICK w \in Seq(Nat) : w = ConstructsOf(text)
      BY <2>1, <3>1, ConstructsType
    <3>3. Sums(w)[0] = 0
      BY SumsSteps
    <3>4. Len(text.nodes) \in Nat
      BY <2>1, TextType
    <3>5. rd.pos = 1
      BY <2>1 DEF NewReader
    <3>6. Account(text, NewReader, 1, 0)
      BY AccountStart
    <3>7. PICK hi, c : hi = rd.pos /\ c = Sums(ConstructsOf(text))[rd.pos - 1]
      OBVIOUS
    <3>8. hi = 1 /\ c = 0
      BY <3>2, <3>3, <3>5, <3>7
    <3>9. Account(text, rd, hi, c)
      BY <2>1, <3>6, <3>8
    <3>10. hi \in 1..(Len(text.nodes) + 1)
      BY <3>4, <3>8
    <3> QED BY <3>7, <3>9, <3>10
  <2> QED BY <2>1, <2>2, <2>3 DEF AccountInv
<1> QED BY <1>1, <1>2 DEF Init

\* A step that leaves what was read alone.
LEMMA AccountOutside ==
  ASSUME AccountInv,
         \/ phase' \notin {"reading", "open"}
         \/ phase' = phase /\ phase # "reading" /\ UNCHANGED <<text, rd, first, result>>
  PROVE  AccountInv'
<1>1. CASE phase' \notin {"reading", "open"}
  BY <1>1 DEF AccountInv, ReadingAccounts
<1>2. CASE phase' = phase /\ phase # "reading" /\ UNCHANGED <<text, rd, first, result>>
  <2>1. ReadingAccounts'
    BY <1>2 DEF AccountInv, ReadingAccounts, Positioned, Start, SameWay, Merged
  <2> QED BY <1>2, <2>1 DEF AccountInv
<1> QED BY <1>1, <1>2

\* A reader's step accounts for one construct more.
LEMMA AccountRead ==
  ASSUME SessionInv, AccountInv, ReadNext
  PROVE  AccountInv'
<1>1. UNCHANGED <<phase, first>>
  BY DEF ReadNext, sessionVars
<1>2. result = "reading" /\ UNCHANGED <<text, result>>
  <2>1. CASE \/ ReadMarkdown \/ ReadAsciidocBlock \/ ReadAsciidocDirective \/ ReadAsciidocTitle
             \/ ReadAsciidocUnseen
    BY <2>1 DEF ReadMarkdown, ReadAsciidocBlock, ReadAsciidocDirective, ReadAsciidocTitle,
                ReadAsciidocUnseen, More, Read
  <2>7. CASE ReadLatexRest \/ ReadTypstArgument
    BY <2>7 DEF ReadLatexRest, ReadTypstArgument, LatexLine, More, Read
  <2>2. CASE \/ ReadLatexBlank \/ ReadLatexComment \/ ReadLatexWrapper \/ ReadLatexTitle
             \/ ReadLatexLine \/ ReadLatexCommandLine \/ ReadLatexBlock
    BY <2>2 DEF ReadLatexBlank, ReadLatexComment, ReadLatexWrapper, ReadLatexTitle, ReadLatexLine,
                ReadLatexCommandLine, ReadLatexBlock, LatexLine, More, Read
  <2>3. CASE \/ ReadTypstBreak \/ ReadTypstSpace \/ ReadTypstInline \/ ReadTypstItem
             \/ ReadTypstBlock
    BY <2>3 DEF ReadTypstBreak, ReadTypstSpace, ReadTypstInline, ReadTypstItem, ReadTypstBlock,
                More, Read
  <2>4. CASE OpenTag
    BY <2>4 DEF OpenTag, HtmlMore, Html, More, Read
  <2>5. CASE CloseTag
    BY <2>5 DEF CloseTag, HtmlMore, Html, More, Read
  <2>6. CASE HtmlText
    BY <2>6 DEF HtmlText, HtmlMore, Html, More, Read
  <2> QED BY <2>1, <2>2, <2>3, <2>4, <2>5, <2>6, <2>7 DEF ReadNext
<1>3. phase # "open"
  BY <1>2 DEF AccountInv
<1>4. ReadingAccounts'
  BY <1>1, <1>3 DEF ReadingAccounts
<1>5. CASE phase # "reading" \/ text.lang = "html"
  BY <1>1, <1>2, <1>3, <1>4, <1>5 DEF AccountInv
<1>6. CASE phase = "reading" /\ text.lang # "html"
  <2>1. text \in Texts /\ rd \in Readers
    BY <1>6 DEF SessionInv, ReadingInv
  <2>2. text.lang \in Readable
    BY <1>6, <2>1, TextType DEF Backends
  <2>3. PICK w \in Seq(Nat) : w = ConstructsOf(text) /\ Len(w) = Len(text.nodes)
    BY <2>1, <2>2, ConstructsType
  <2>4. PICK hi, c : hi = rd.pos /\ c = Sums(w)[rd.pos - 1]
    OBVIOUS
  <2>5. Account(text, rd, hi, c) /\ hi \in 1..(Len(text.nodes) + 1)
    BY <1>6, <2>3, <2>4 DEF AccountInv
  <2>6. More /\ Onward(text, rd', hi, c + Constructs(text.lang, Here))
    BY <2>1, <2>2, <2>4, <2>5, ReadAccount
  <2>7. hi \in 1..Len(w)
    BY <2>3, <2>4, <2>5, <2>6, TextType, <2>1 DEF More
  <2>8. w[hi] = Constructs(text.lang, Here)
    <3>1. \A i \in 1..Len(text.nodes) : ConstructsOf(text)[i] = Constructs(text.lang, text.nodes[i])
      BY <2>1, <2>2, ConstructsType
    <3> QED BY <2>3, <2>4, <2>7, <3>1 DEF Here
  <2>9. Sums(w)[hi] = c + w[hi]
    BY <2>4, <2>7, SumsSteps
  <2>10. PICK r : r = rd'
    OBVIOUS
  <2>11. PICK d : d = Sums(w)[hi]
    OBVIOUS
  <2>12. Account(text, r, hi + 1, d) /\ r.pos = hi + 1
    BY <2>6, <2>8, <2>9, <2>10, <2>11 DEF Onward
  <2>13. /\ r.pos \in 1..(Len(text.nodes) + 1)
         /\ Account(text, r, r.pos, Sums(w)[r.pos - 1])
    <3>1. hi \in Nat /\ Len(w) \in Nat /\ (hi + 1) - 1 = hi /\ hi + 1 \in 1..(Len(text.nodes) + 1)
      BY <2>3, <2>7
    <3> QED BY <2>11, <2>12, <3>1
  <2>14. /\ rd'.pos \in 1..(Len(text.nodes) + 1)
         /\ Account(text, rd', rd'.pos, Sums(ConstructsOf(text))[rd'.pos - 1])
    BY <2>3, <2>10, <2>13
  <2>15. /\ rd'.pos \in 1..(Len(text'.nodes) + 1)
         /\ Account(text', rd', rd'.pos, Sums(ConstructsOf(text'))[rd'.pos - 1])
    BY <1>2, <2>14
  <2> QED BY <1>1, <1>3, <1>4, <2>15 DEF AccountInv
<1> QED BY <1>5, <1>6

\* The document accounts for the whole text.
LEMMA AccountFinish ==
  ASSUME SessionInv, AccountInv, FinishReading
  PROVE  AccountInv'
<1>1. result = "reading" /\ rd.pos > Len(text.nodes) /\ text' = text /\ result' = "ok"
  BY DEF FinishReading
<1>2. CASE phase # "reading"
  <2>1. phase' = "reread"
    BY <1>2 DEF FinishReading
  <2> QED BY <2>1, AccountOutside
<1>3. CASE phase = "reading"
  <2>1. PICK r, t, s, src :
          /\ r = EndOf(text.lang, rd) /\ s = BlocksRead(r) /\ rd' = r
          /\ phase' = "open" /\ first' = [title |-> t, blocks |-> s, source |-> src]
    BY <1>3 DEF FinishReading
  <2>2. PICK f : f = first' /\ f.blocks = s
    BY <2>1
  <2>3. CASE text.lang = "html"
    <3>1. ReadingAccounts'
      BY <1>1, <2>3 DEF ReadingAccounts
    <3> QED BY <1>1, <2>1, <3>1 DEF AccountInv
  <2>4. CASE text.lang # "html"
    <3>1. text \in Texts /\ rd \in Readers
      BY <1>3 DEF SessionInv, ReadingInv
    <3>2. text.lang \in Readable
      BY <2>4, <3>1, TextType DEF Backends
    <3>3. PICK w \in Seq(Nat) : w = ConstructsOf(text) /\ Len(w) = Len(text.nodes)
      BY <3>1, <3>2, ConstructsType
    <3>4. PICK hi, c : hi = rd.pos /\ c = Sums(w)[rd.pos - 1]
      OBVIOUS
    <3>5. Account(text, rd, hi, c) /\ hi \in 1..(Len(text.nodes) + 1)
      BY <1>3, <2>4, <3>3, <3>4 DEF AccountInv
    <3>6. Len(w) \in Nat /\ hi - 1 = Len(w) /\ hi \in Nat \ {0}
      BY <1>1, <3>3, <3>4, <3>5
    <3>7. c = Total(w)
      <4>1. c = Sums(w)[Len(w)]
        BY <3>4, <3>6
      <4> QED BY <4>1, SumsSteps
    <3>8. Complete(text, r, c)
      <4>1. Len(text.nodes) \in Nat
        BY <3>1, TextType
      <4>2. ASSUME text.lang # "asciidoc", NEW p \in 1..(hi - 1)
            PROVE  Placed(text, p)
        <5>1. p \in 1..Len(text.nodes)
          BY <3>3, <3>6
        <5>2. text.nodes[p] \in Constructed(text.lang)
          BY <2>4, <3>1, <5>1, TextType
        <5> QED BY <4>2, <5>2 DEF Constructed, Placed
      <4> QED BY <2>1, <3>2, <3>5, <3>6, <4>1, <4>2, EndAccount
    <3>9. PICK g \in Seq(Items) : g = r.got
      BY <3>8 DEF Complete
    <3>10. /\ s = [i \in DOMAIN g |-> g[i].blk] /\ DOMAIN s = DOMAIN g /\ DOMAIN g = 1..Len(g)
           /\ \A i \in DOMAIN g : s[i] = g[i].blk
      BY <2>1, <3>9 DEF BlocksRead
    <3>11. Total(KeptBy(s)) = Weigh(g)
      <4>1. KeptBy(s) = [i \in DOMAIN g |-> Kept(g[i].blk)]
        BY <3>10 DEF KeptBy
      <4> QED BY <4>1 DEF Weigh
    <3>12. /\ c = Total(KeptBy(s)) + r.lost
           /\ text.keep => r.lost = 0
           /\ \A i \in DOMAIN s : s[i].id = WordingOf(text.lang, text.nodes[g[i].at])
           /\ Ordered(text, g)
      BY <3>8, <3>9, <3>10, <3>11 DEF Complete
    <3>13. PICK st : st = text
      OBVIOUS
    <3>14. \A i, j \in DOMAIN s :
              i < j => /\ \/ st.nodes[g[i].at].st # "none" /\ st.nodes[g[j].at].st # "none"
                          \/ Steered(st, g)
                          => StartOf(st.nodes, g[i].at) <= StartOf(st.nodes, g[j].at)
                       /\ Alike(st, g[i].at, g[j].at) \/ ~Steered(st, g) => g[i].at < g[j].at
      BY <3>10, <3>12, <3>13 DEF Ordered, Placed
    <3>15. first'.blocks = s /\ rd'.got = g /\ text' = st /\ rd'.lost = r.lost
      BY <1>1, <2>1, <2>2, <3>9, <3>13
    <3>16. Total(ConstructsOf(st)) = Total(KeptBy(s)) + r.lost
      BY <3>3, <3>7, <3>12, <3>13
    <3>17. ReadingAccounts'
      BY <3>12, <3>13, <3>14, <3>15, <3>16
         DEF ReadingAccounts, Positioned, Start, SameWay, Merged, Alike, Placed, Steered
    <3> QED BY <1>1, <2>1, <3>17 DEF AccountInv
  <2> QED BY <2>3, <2>4
<1> QED BY <1>2, <1>3

\* The invariant is inductive.
LEMMA AccountStep ==
  ASSUME SessionInv, AccountInv, [Next]_vars
  PROVE  AccountInv'
<1>1. CASE SessionNext
  <2>1. CASE ReadNext
    BY <2>1, AccountRead
  <2>2. CASE FinishReading
    BY <2>2, AccountFinish
  <2>3. CASE Edit \/ Undo
    <3>1. phase = "open" /\ UNCHANGED <<phase, text, rd, first, result>>
      BY <2>3 DEF Edit, Undo, readerVars
    <3> QED BY <3>1, AccountOutside
  <2>4. CASE GiveUpReading \/ WriteHtml \/ WriteSource
    <3>1. phase' \in {"closed", "rereading"}
      BY <2>4 DEF GiveUpReading, WriteHtml, WriteSource, Reopen
    <3> QED BY <3>1, AccountOutside
  <2>5. ASSUME NEW b \in Readable, NEW keep \in BOOLEAN, NEW strict \in BOOLEAN,
               Write(b, keep, strict)
        PROVE  AccountInv'
    <3>1. phase' \in {"closed", "rereading"}
      BY <2>5 DEF Write, Reopen
    <3> QED BY <3>1, AccountOutside
  <2> QED BY <1>1, <2>1, <2>2, <2>3, <2>4, <2>5 DEF SessionNext
<1>2. CASE UNCHANGED <<readerVars, sessionVars>>
  <2>1. UNCHANGED <<text, rd, result, phase, first>>
    BY <1>2 DEF readerVars, sessionVars
  <2> QED BY <2>1 DEF AccountInv, ReadingAccounts, Positioned, Start, SameWay, Merged
<1> QED BY <1>1, <1>2 DEF Next, vars

\* For all texts that are not HTML: every construct of a text but the unnamed
\* ones is in the document or named as a loss, nothing is lost when raw
\* fragments are kept, each block has the wording of its place, and blocks
\* are in the order of their starts, AsciiDoc directives among them, those
\* without a span behind the others once a directive is, and otherwise in
\* the order of the text.
THEOREM AccountsTheorem == Spec => []ReadingAccounts
<1>1. Init => SessionInv /\ AccountInv
  BY SessionStart, AccountInit
<1>2. SessionInv /\ AccountInv /\ [Next]_vars => (SessionInv /\ AccountInv)'
  BY SessionStep, AccountStep
<1>3. AccountInv => ReadingAccounts
  BY DEF AccountInv
<1> QED BY <1>1, <1>2, <1>3, PTL DEF Spec
=============================================================================
