-------------------------- MODULE DocChunksProofs --------------------------
(***************************************************************************)
(* Proofs about module DocChunks under the specification of MarkupDocs:    *)
(* chunks tile the text or its paragraphs, whatever the text and the size  *)
(* asked for, and the path of a block is the chain of headings above it.   *)
(***************************************************************************)
EXTENDS MarkupDocs, DataLemmas

(***************************************************************************)
(* The inductive invariant.                                                *)
(***************************************************************************)

\* The text is one that DocumentsAssumption speaks of.
LineRecords == [h : Int, w : Seq(Nat \ {0}), e : 0..2]
Lined ==
    /\ lines \in Seq(LineRecords)
    /\ \A i \in 1..Len(lines) : /\ lines[i].h # -1 => lines[i].w # <<>>
                                /\ i < Len(lines) => lines[i].e > 0

Spots == [start : Nat, end : Nat, path : Seq(Nat)]
Passages == [kind : {"heading", "para"}, start : Nat, end : Nat, path : Seq(Nat), line : Nat]

\* A block of the lines up to n, from one character of the text to another.
Placed(b, off, n) ==
    /\ b.start \in Boundaries /\ b.end \in Boundaries
    /\ b.start < b.end /\ b.end <= off
    /\ b.line \in 1..n

\* Blocks in the order of the text that do not touch.
Apart(bs) == \A i, j \in 1..Len(bs) : i < j => bs[i].end < bs[j].start

\* The path of headings at line n, and the one kept while scanning, which
\* has a heading of each rank down to the last one.
Chain(path, n) ==
    NoRankSkipped(n) =>
        /\ Range(path) = HeadingsAbove(n)
        /\ \A k \in 1..(Len(path) - 1) : path[k] < path[k + 1]
Ranked(hs, n) ==
    /\ hs \in Seq(1..n)
    /\ \A k \in 1..(Len(hs) - 1) : hs[k] < hs[k + 1]
    /\ NoRankSkipped(n) => /\ Range(hs) = HeadingsAbove(n)
                           /\ \A k \in 1..Len(hs) : Level(lines[hs[k]]) = k

\* The blocks found in the lines up to n, the next one beginning at off.
Laid(bs, off, n) ==
    /\ bs \in Seq(Passages)
    /\ \A i \in 1..Len(bs) : Placed(bs[i], off, n) /\ Chain(bs[i].path, bs[i].line)
    /\ Apart(bs)
    /\ n < Len(lines) => \A i \in 1..Len(bs) : bs[i].end < off

\* A scan that has come to its line: what it has found, what is open.
Scanning(s) ==
    /\ s \in [pos : Nat, offset : Nat, headings : Seq(Nat), para : Seq(Passages),
              blocks : Seq(Passages)]
    /\ s.pos \in 1..(Len(lines) + 1)
    /\ s.offset = Starts[s.pos - 1]
    /\ Ranked(s.headings, s.pos - 1)
    /\ s.para = <<>> \/ (Len(s.para) = 1 /\ s.para[1].kind = "para")
    /\ Laid(s.blocks \o s.para, s.offset, s.pos - 1)

ChunkInv ==
    /\ Lined
    /\ Scanning(scan)
    /\ chunks.op # "none" => Scanned
    /\ ChunksTile

(***************************************************************************)
(* Offsets.                                                                *)
(***************************************************************************)

\* The width of a line's characters.
LEMMA WidthType ==
  ASSUME Lined, NEW i \in 1..Len(lines)
  PROVE  /\ lines[i].h \in Int /\ lines[i].w \in Seq(Nat) /\ lines[i].e \in 0..2
         /\ Total(lines[i].w) \in Nat
         /\ lines[i].w # <<>> => Total(lines[i].w) > 0
<1>0. lines[i] \in LineRecords
  BY DEF Lined
<1>1. PICK line \in LineRecords : line = lines[i]
  BY <1>0
<1>2. line.h \in Int /\ line.w \in Seq(Nat \ {0}) /\ line.e \in 0..2
  BY <1>1 DEF LineRecords
<1>3. line.w \in Seq(Nat)
  BY <1>2, Nat \ {0} \subseteq Nat, SeqMonotonic
<1>4. Total(line.w) \in Nat
  <2>1. Len(line.w) \in 0..Len(line.w)
    BY <1>3
  <2> QED BY <1>3, <2>1, SumsSteps
<1>5. line.w # <<>> => Total(line.w) \in Nat \ {0}
  BY <1>2, TotalAboveZero
<1> QED BY <1>1, <1>2, <1>3, <1>4, <1>5

\* A line begins where the one before it ends.
LEMMA StartsSteps ==
  ASSUME Lined
  PROVE  /\ Starts[0] = 0
         /\ \A i \in 0..Len(lines) : Starts[i] \in Nat
         /\ \A i \in 1..Len(lines) :
               Starts[i] = Starts[i - 1] + Total(lines[i].w) + lines[i].e
<1> DEFINE n == Len(lines)
           w == [i \in DOMAIN lines |-> Total(lines[i].w) + lines[i].e]
<1>1. n \in Nat /\ DOMAIN lines = 1..n
  BY DEF Lined
<1>2. \A i \in 1..n : Total(lines[i].w) \in Nat /\ lines[i].e \in 0..2
  BY WidthType
<1>3. w \in Seq(Nat) /\ Len(w) = n /\ \A i \in 1..n : w[i] = Total(lines[i].w) + lines[i].e
  <2> HIDE DEF n
  <2>1. \A i \in 1..n : Total(lines[i].w) + lines[i].e \in Nat
    BY <1>2
  <2>2. w \in [1..n -> Nat]
    BY <1>1, <2>1
  <2> QED BY <1>1, <2>2
<1>4. Starts = Sums(w)
  BY DEF Starts
<1> HIDE DEF w, n
<1>5. /\ Starts[0] = 0
      /\ \A i \in 0..n : Starts[i] \in Nat
      /\ \A i \in 1..n : Starts[i] = Starts[i - 1] + w[i]
  BY <1>3, <1>4, SumsSteps
<1>6. \A i \in 1..n : Starts[i] = Starts[i - 1] + Total(lines[i].w) + lines[i].e
  <2> SUFFICES ASSUME NEW i \in 1..n
               PROVE  Starts[i] = Starts[i - 1] + Total(lines[i].w) + lines[i].e
    OBVIOUS
  <2>1. i - 1 \in 0..n
    BY <1>1
  <2>2. PICK p \in Nat : p = Starts[i - 1]
    BY <1>5, <2>1
  <2>3. PICK t \in Nat : t = Total(lines[i].w)
    BY <1>2
  <2>4. PICK e \in 0..2 : e = lines[i].e
    BY <1>2
  <2>5. Starts[i] = p + (t + e)
    BY <1>3, <1>5, <2>2, <2>3, <2>4
  <2> QED BY <2>2, <2>3, <2>4, <2>5
<1> QED BY <1>5, <1>6 DEF n

\* Where a line begins, and where its characters and its end do, is a
\* boundary.
LEMMA LineBoundaries ==
  ASSUME Lined
  PROVE  /\ Boundaries \subseteq Nat /\ 0 \in Boundaries
         /\ \A i \in 0..Len(lines) : Starts[i] \in Boundaries
         /\ \A i \in 1..Len(lines) : Starts[i - 1] + Total(lines[i].w) \in Boundaries
<1> DEFINE n == Len(lines)
           In(i) == {Starts[i - 1] + Sums(lines[i].w)[m] : m \in 0..Len(lines[i].w)}
           End(i) == {Starts[i - 1] + Total(lines[i].w) + m : m \in 0..lines[i].e}
<1>1. n \in Nat /\ DOMAIN lines = 1..n
  BY DEF Lined
<1>2. Boundaries = {0} \cup UNION {In(i) \cup End(i) : i \in 1..n}
  BY <1>1 DEF Boundaries
<1>3. \A i \in 1..n : Starts[i - 1] \in Nat
  <2> SUFFICES ASSUME NEW i \in 1..n PROVE Starts[i - 1] \in Nat
    OBVIOUS
  <2>1. i - 1 \in 0..n
    BY <1>1
  <2> QED BY <2>1, StartsSteps
<1>4. ASSUME NEW i \in 1..n
      PROVE  /\ In(i) \subseteq Nat /\ End(i) \subseteq Nat
             /\ Starts[i - 1] + Total(lines[i].w) \in End(i)
             /\ Starts[i] \in End(i)
  <2>1. lines[i].w \in Seq(Nat) /\ lines[i].e \in 0..2 /\ Total(lines[i].w) \in Nat
    BY WidthType
  <2>2. \A m \in 0..Len(lines[i].w) : Sums(lines[i].w)[m] \in Nat
    BY <2>1, SumsSteps
  <2>3. Starts[i] = Starts[i - 1] + Total(lines[i].w) + lines[i].e
    BY StartsSteps
  <2>4. In(i) \subseteq Nat
    BY <1>3, <2>2
  <2>5. PICK t \in Nat : t = Starts[i - 1] + Total(lines[i].w)
    BY <1>3, <2>1
  <2>6. End(i) = {t + m : m \in 0..lines[i].e}
    BY <2>5
  <2> HIDE DEF End
  <2>7. End(i) \subseteq Nat
    BY <2>1, <2>5, <2>6
  <2>8. t + 0 \in End(i) /\ t + lines[i].e \in End(i)
    BY <2>1, <2>6
  <2> QED BY <2>3, <2>4, <2>5, <2>7, <2>8
<1> HIDE DEF In, End
<1>5. Boundaries \subseteq Nat /\ 0 \in Boundaries
  BY <1>2, <1>4
<1>6. \A i \in 1..n : Starts[i - 1] + Total(lines[i].w) \in Boundaries /\ Starts[i] \in Boundaries
  <2> SUFFICES ASSUME NEW i \in 1..n
               PROVE  /\ Starts[i - 1] + Total(lines[i].w) \in Boundaries
                      /\ Starts[i] \in Boundaries
    OBVIOUS
  <2>1. \A x \in End(i) : x \in Boundaries
    BY <1>2
  <2> QED BY <1>4, <2>1
<1>7. \A i \in 0..n : Starts[i] \in Boundaries
  <2> SUFFICES ASSUME NEW i \in 0..n PROVE Starts[i] \in Boundaries
    OBVIOUS
  <2>1. i = 0 \/ i \in 1..n
    BY <1>1
  <2> QED BY <1>5, <1>6, <2>1, StartsSteps
<1> QED BY <1>5, <1>6, <1>7

(***************************************************************************)
(* Cutting.                                                                *)
(***************************************************************************)

\* A chunk from a to b is as small as asked for, or one character.
Small(a, b, max) == b - a <= max \/ ~ \E x \in Boundaries : a < x /\ x < b

\* The cursor moves on, to a boundary, no further than it may.
LEMMA CutAfterStep ==
  ASSUME Boundaries \subseteq Nat, NEW c \in Boundaries, NEW end \in Boundaries, c < end,
         NEW max \in Nat \ {0}
  PROVE  /\ CutAfter(c, end, max) \in Boundaries
         /\ c < CutAfter(c, end, max) /\ CutAfter(c, end, max) <= end
         /\ Small(c, CutAfter(c, end, max), max)
<1> DEFINE reach == IF c + max < end THEN c + max ELSE end
           within == {x \in Boundaries : c < x /\ x <= reach}
           beyond == {x \in Boundaries : c < x}
<1>1. c \in Nat /\ end \in Nat /\ reach \in Nat /\ reach <= end /\ reach <= c + max
  OBVIOUS
<1>2. CASE within # {}
  <2>1. within \subseteq 0..reach
    <3> HIDE DEF reach
    <3>1. \A x \in Nat : x <= reach => x \in 0..reach
      BY <1>1
    <3> QED BY <3>1
  <2>2. PICK x \in within : \A y \in within : y <= x
    <3> HIDE DEF within, reach
    <3> QED BY <1>1, <1>2, <2>1, GreatestElement
  <2>3. PICK z : z = CHOOSE y \in within : \A u \in within : u <= y
    OBVIOUS
  <2>4. z \in within
    <3> HIDE DEF within
    <3> QED BY <2>2, <2>3
  <2>5. CutAfter(c, end, max) = z
    BY <1>2, <2>3 DEF CutAfter
  <2>6. z \in Boundaries /\ c < z /\ z <= end /\ z - c <= max
    BY <1>1, <2>4
  <2> QED BY <2>5, <2>6 DEF Small
<1>3. CASE within = {}
  <2>1. end \in beyond /\ beyond \subseteq Nat
    OBVIOUS
  <2>2. PICK x \in beyond : \A y \in beyond : x <= y
    <3> HIDE DEF beyond
    <3> QED BY <2>1, LeastElement
  <2>3. PICK z : z = CHOOSE y \in beyond : \A u \in beyond : y <= u
    OBVIOUS
  <2>4. z \in beyond /\ \A u \in beyond : z <= u
    <3> HIDE DEF beyond
    <3> QED BY <2>2, <2>3
  <2>5. z \in Boundaries /\ z \in Nat /\ c < z /\ z <= end
    BY <2>1, <2>4
  <2>6. CutAfter(c, end, max) = z
    <3>1. CutAfter(c, end, max) = IF z < end THEN z ELSE end
      BY <1>3, <2>3 DEF CutAfter
    <3> QED BY <1>1, <2>5, <3>1
  <2>7. ~ \E x1 \in Boundaries : c < x1 /\ x1 < z
    <3> SUFFICES ASSUME NEW x1 \in Boundaries, c < x1, x1 < z PROVE FALSE
      OBVIOUS
    <3>1. x1 \in beyond /\ x1 \in Nat
      OBVIOUS
    <3>2. z <= x1
      BY <2>4, <3>1
    <3> QED BY <2>5, <3>1, <3>2
  <2> QED BY <2>5, <2>6, <2>7 DEF Small
<1> QED BY <1>2, <1>3

\* Chunks that go from a to b under one path.
Segment(list, a, b, path) ==
    /\ list \in Seq(Spots)
    /\ list = <<>> <=> a = b
    /\ list # <<>> => list[1].start = a /\ list[Len(list)].end = b
    /\ \A i \in 1..(Len(list) - 1) : list[i].end = list[i + 1].start
    /\ \A i \in 1..Len(list) : a <= list[i].start /\ list[i].end <= b /\ list[i].path = path

\* What an operation promises of every chunk on its own.
Fine(list, op, max) ==
    \A i \in 1..Len(list) :
        /\ list[i].start \in Boundaries /\ list[i].end \in Boundaries
        /\ list[i].start < list[i].end
        /\ op # "heading" => Small(list[i].start, list[i].end, max)

\* One more chunk.
LEMMA SegmentAppend ==
  ASSUME NEW a \in Nat, NEW b \in Nat, NEW c \in Nat, a <= b, b < c, NEW path \in Seq(Nat),
         NEW list, Segment(list, a, b, path)
  PROVE  Segment(Append(list, Chunk(b, c, path)), a, c, path)
<1> DEFINE x == Chunk(b, c, path)
           more == Append(list, x)
<1>1. x \in Spots /\ x.start = b /\ x.end = c /\ x.path = path
  BY DEF Chunk, Spots
<1>2. list \in Seq(Spots) /\ Len(list) \in Nat
  BY DEF Segment
<1> HIDE DEF x
<1>3. /\ more \in Seq(Spots) /\ more # <<>> /\ Len(more) = Len(list) + 1
      /\ \A i \in 1..Len(list) : more[i] = list[i]
      /\ more[Len(list) + 1] = x
  BY <1>1, <1>2, AppendProperties
<1> HIDE DEF more
<1>4. PICK n \in Nat : n = Len(list)
  BY <1>2
<1>5. n = 0 <=> list = <<>>
  BY <1>2, <1>4, EmptySeq
<1>6. \A i \in 1..n : list[i].start \in Nat /\ list[i].end \in Nat
  <2> SUFFICES ASSUME NEW i \in 1..n PROVE list[i].start \in Nat /\ list[i].end \in Nat
    OBVIOUS
  <2>1. list[i] \in Spots
    BY <1>2, <1>4
  <2> QED BY <2>1 DEF Spots
<1>7. more[1].start = a /\ more[n + 1].end = c
  <2>1. CASE n = 0
    BY <2>1, <1>1, <1>3, <1>4, <1>5 DEF Segment
  <2>2. CASE n # 0
    <3>1. 1 \in 1..n
      BY <2>2
    <3> QED BY <3>1, <1>1, <1>3, <1>4, <1>5 DEF Segment
  <2> QED BY <2>1, <2>2
<1>8. ASSUME NEW i \in 1..(Len(more) - 1) PROVE more[i].end = more[i + 1].start
  <2>1. i \in 1..n /\ Len(list) = n
    BY <1>3, <1>4
  <2>2. CASE i = n
    BY <2>1, <2>2, <1>1, <1>3, <1>4, <1>5 DEF Segment
  <2>3. CASE i # n
    <3>1. i \in 1..(Len(list) - 1) /\ i + 1 \in 1..Len(list)
      BY <2>1, <2>3
    <3>2. list[i].end = list[i + 1].start
      BY <3>1 DEF Segment
    <3> QED BY <2>1, <3>1, <3>2, <1>3
  <2> QED BY <2>2, <2>3
<1>9. ASSUME NEW i \in 1..Len(more)
      PROVE  a <= more[i].start /\ more[i].end <= c /\ more[i].path = path
  <2>1. CASE i = n + 1
    BY <2>1, <1>1, <1>3, <1>4
  <2>2. CASE i # n + 1
    <3>1. i \in 1..Len(list) /\ i \in 1..n
      BY <2>2, <1>3, <1>4
    <3>2. more[i] = list[i] /\ list[i].start \in Nat /\ list[i].end \in Nat
      BY <3>1, <1>3, <1>6
    <3>3. a <= list[i].start /\ list[i].end <= b /\ list[i].path = path
      BY <3>1 DEF Segment
    <3> QED BY <3>2, <3>3
  <2> QED BY <2>1, <2>2
<1>10. Segment(more, a, c, path)
  <2>1. Len(more) = n + 1 /\ a # c
    BY <1>3, <1>4
  <2> QED BY <2>1, <1>3, <1>7, <1>8, <1>9 DEF Segment
<1> QED BY <1>10 DEF more, x

\* What is true of every chunk stays so when a chunk it is true of follows.
LEMMA FineAppend ==
  ASSUME NEW list \in Seq(Spots), NEW op, NEW max, Fine(list, op, max),
         NEW x \in Spots, x.start \in Boundaries, x.end \in Boundaries, x.start < x.end,
         op # "heading" => Small(x.start, x.end, max)
  PROVE  Fine(Append(list, x), op, max)
<1> DEFINE more == Append(list, x)
<1>1. /\ Len(more) = Len(list) + 1
      /\ \A i \in 1..Len(list) : more[i] = list[i]
      /\ more[Len(list) + 1] = x
  BY AppendProperties
<1> HIDE DEF more
<1>2. ASSUME NEW i \in 1..Len(more) PROVE i = Len(list) + 1 \/ i \in 1..Len(list)
  BY <1>1
<1>3. Fine(more, op, max)
  <2> SUFFICES ASSUME NEW i \in 1..Len(more)
               PROVE  /\ more[i].start \in Boundaries /\ more[i].end \in Boundaries
                      /\ more[i].start < more[i].end
                      /\ op # "heading" => Small(more[i].start, more[i].end, max)
    BY DEF Fine
  <2>1. CASE i = Len(list) + 1
    <3>1. more[i] = x
      BY <1>1, <2>1
    <3> QED BY <3>1
  <2>2. CASE i \in 1..Len(list)
    <3>1. more[i] = list[i]
      BY <1>1, <2>2
    <3> QED BY <2>2, <3>1 DEF Fine
  <2> QED BY <1>2, <2>1, <2>2
<1> QED BY <1>3 DEF more

\* Where a cursor that started at start is after n steps.
Cursors(start, end, max, path, op, n) ==
    {w \in [at : Nat, list : Seq(Spots)] :
       /\ w.at \in Boundaries /\ start <= w.at /\ w.at <= end
       /\ w.at = end \/ start + n <= w.at
       /\ Segment(w.list, start, w.at, path)
       /\ Fine(w.list, op, max)}

\* A step of the cursor.
LEMMA AdvanceStep ==
  ASSUME Boundaries \subseteq Nat, NEW start \in Nat, NEW end \in Boundaries,
         NEW max \in Nat \ {0}, NEW path \in Seq(Nat), NEW op, NEW n \in Nat \ {0},
         NEW w \in Cursors(start, end, max, path, op, n - 1)
  PROVE  Advance(w, end, max, path) \in Cursors(start, end, max, path, op, n)
<1>1. /\ w \in [at : Nat, list : Seq(Spots)]
      /\ w.at \in Boundaries /\ start <= w.at /\ w.at <= end
      /\ w.at = end \/ start + (n - 1) <= w.at
      /\ Segment(w.list, start, w.at, path)
      /\ Fine(w.list, op, max)
  BY DEF Cursors
<1>2. end \in Nat /\ w.at \in Nat /\ w.list \in Seq(Spots)
  BY <1>1
<1>3. CASE w.at >= end
  <2>1. Advance(w, end, max, path) = w /\ w.at = end
    BY <1>1, <1>2, <1>3 DEF Advance
  <2> QED BY <1>1, <2>1 DEF Cursors
<1>4. CASE ~(w.at >= end)
  <2>1. PICK c : c = w.at
    OBVIOUS
  <2>2. PICK next : next = CutAfter(c, end, max)
    OBVIOUS
  <2>3. c \in Boundaries /\ c < end /\ c \in Nat
    BY <1>1, <1>2, <1>4, <2>1
  <2>4. next \in Boundaries /\ c < next /\ next <= end /\ Small(c, next, max) /\ next \in Nat
    BY <2>2, <2>3, CutAfterStep
  <2>5. PICK list : list = Append(w.list, Chunk(c, next, path))
    OBVIOUS
  <2>6. Advance(w, end, max, path) = [at |-> next, list |-> list]
    BY <1>4, <2>1, <2>2, <2>5 DEF Advance
  <2>7. Segment(list, start, next, path)
    BY <1>1, <2>1, <2>3, <2>4, <2>5, SegmentAppend
  <2>8. Fine(list, op, max)
    <3>1. PICK x : x = Chunk(c, next, path)
      OBVIOUS
    <3>2. x \in Spots /\ x.start = c /\ x.end = next
      BY <3>1, <2>3, <2>4 DEF Chunk, Spots
    <3>3. Fine(Append(w.list, x), op, max)
      BY <3>2, <1>1, <1>2, <2>3, <2>4, FineAppend
    <3> QED BY <2>5, <3>1, <3>3
  <2>9. PICK v : v = [at |-> next, list |-> list]
    OBVIOUS
  <2>10. v \in [at : Nat, list : Seq(Spots)] /\ v.at = next /\ v.list = list
    BY <2>4, <2>7, <2>9 DEF Segment
  <2>11. start <= next /\ (next = end \/ start + n <= next)
    BY <1>1, <2>1, <2>3, <2>4
  <2>12. v \in Cursors(start, end, max, path, op, n)
    BY <2>4, <2>7, <2>8, <2>10, <2>11 DEF Cursors
  <2> QED BY <2>6, <2>9, <2>12
<1> QED BY <1>3, <1>4

\* The walk of a cursor.
Walks(h, n, start, end, max, path) ==
  h = [i \in 0..n |-> IF i = 0 THEN [at |-> start, list |-> <<>>]
                      ELSE Advance(h[i - 1], end, max, path)]

\* A range is cut into chunks that fill it.
LEMMA FixedRangeFills ==
  ASSUME Boundaries \subseteq Nat, NEW start \in Boundaries, NEW end \in Boundaries, start < end,
         NEW max \in Nat \ {0}, NEW path \in Seq(Nat), NEW op
  PROVE  /\ Segment(FixedRange(start, end, max, path), start, end, path)
         /\ Fine(FixedRange(start, end, max, path), op, max)
<1> DEFINE X == [i \in Nat |-> Cursors(start, end, max, path, op, i)]
           g == [i \in Nat |-> [y \in X[i - 1] |-> Advance(y, end, max, path)]]
<1>1. start \in Nat /\ end \in Nat
  OBVIOUS
<1>2. PICK n \in Nat : n = end - start
  BY <1>1
<1>3. PICK x : x = [at |-> start, list |-> <<>>]
  OBVIOUS
<1>4. x \in Cursors(start, end, max, path, op, 0)
  <2>1. PICK e : e = <<>>
    OBVIOUS
  <2>2. e \in Seq(Spots) /\ Len(e) = 0 /\ e = <<>>
    BY <2>1
  <2>3. x \in [at : Nat, list : Seq(Spots)] /\ x.at = start /\ x.list = e
    BY <1>1, <1>3, <2>1, <2>2
  <2>4. Segment(e, start, start, path) /\ Fine(e, op, max)
    BY <2>2 DEF Segment, Fine
  <2> QED BY <1>1, <2>3, <2>4 DEF Cursors
<1>5. \A i \in Nat : X[i] = Cursors(start, end, max, path, op, i)
  OBVIOUS
<1>6. \A i \in 1..n : \A y \in X[i - 1] : g[i][y] = Advance(y, end, max, path)
  OBVIOUS
<1> HIDE DEF X, g
<1>7. Leads(g, X, n)
  <2> SUFFICES ASSUME NEW i \in 1..n, NEW y \in X[i - 1] PROVE g[i][y] \in X[i]
    BY DEF Leads
  <2>1. i - 1 \in Nat /\ i \in Nat \ {0}
    OBVIOUS
  <2>2. y \in Cursors(start, end, max, path, op, i - 1)
    BY <1>5, <2>1
  <2>3. Advance(y, end, max, path) \in Cursors(start, end, max, path, op, i)
    BY <1>1, <2>1, <2>2, AdvanceStep
  <2>4. g[i][y] = Advance(y, end, max, path)
    BY <1>6
  <2> QED BY <1>5, <2>1, <2>3, <2>4
<1>8. x \in X[0]
  BY <1>4, <1>5
<1>9. PICK h : Takes(h, g, x, n) /\ \A i \in 0..n : h[i] \in X[i]
  BY <1>7, <1>8, Iteration
<1>10. Walks(h, n, start, end, max, path)
  <2>1. ASSUME NEW i \in 0..n PROVE h[i] = IF i = 0 THEN x ELSE Advance(h[i - 1], end, max, path)
    <3>1. CASE i = 0
      BY <1>9, <3>1 DEF Takes
    <3>2. CASE i \in 1..n
      <4>1. i - 1 \in 0..n /\ i # 0
        BY <3>2
      <4>2. h[i - 1] \in X[i - 1] /\ h[i] = g[i][h[i - 1]]
        BY <1>9, <3>2, <4>1 DEF Takes
      <4>3. g[i][h[i - 1]] = Advance(h[i - 1], end, max, path)
        BY <1>6, <3>2, <4>2, Zenon
      <4> QED BY <4>1, <4>2, <4>3, Zenon
    <3> QED BY <3>1, <3>2
  <2>2. h = [i \in 0..n |-> h[i]]
    BY <1>9 DEF Takes
  <2> QED BY <1>3, <2>1, <2>2, Zenon DEF Walks
<1>11. PICK f : f = CHOOSE e : e = [i \in 0..(end - start) |->
                          IF i = 0 THEN [at |-> start, list |-> <<>>]
                          ELSE Advance(e[i - 1], end, max, path)]
  OBVIOUS
<1>12. Walks(f, n, start, end, max, path)
  BY <1>2, <1>10, <1>11 DEF Walks
<1>13. InStep(f, h, n)
  <2>1. f[0] = h[0]
    BY <1>10, <1>12 DEF Walks
  <2>2. ASSUME NEW i \in 1..n, f[i - 1] = h[i - 1] PROVE f[i] = h[i]
    <3>1. i \in 0..n /\ i # 0
      OBVIOUS
    <3>2. f[i] = Advance(f[i - 1], end, max, path)
      BY <1>12, <3>1 DEF Walks
    <3>3. h[i] = Advance(h[i - 1], end, max, path)
      BY <1>10, <3>1 DEF Walks
    <3> QED BY <2>2, <3>2, <3>3
  <2> QED BY <2>1, <2>2 DEF InStep
<1>14. f[n] = h[n]
  BY <1>13, SameIteration
<1>15. PICK w : w = f[n]
  OBVIOUS
<1>16. w \in Cursors(start, end, max, path, op, n)
  BY <1>5, <1>9, <1>14, <1>15
<1>17. w.at = end
  BY <1>1, <1>2, <1>16 DEF Cursors
<1>18. FixedRange(start, end, max, path) = w.list
  BY <1>1, <1>2, <1>11, <1>15 DEF FixedRange
<1> QED BY <1>16, <1>17, <1>18 DEF Cursors

\* Chunks that cover the spans up to n.
CoversTo(list, spans, n) ==
    /\ list = <<>> <=> n = 0
    /\ list # <<>> => list[1].start = spans[1].start /\ list[Len(list)].end = spans[n].end
    /\ \A i \in 1..(Len(list) - 1) :
          \/ list[i].end = list[i + 1].start
          \/ \E k \in 1..(n - 1) :
                list[i].end = spans[k].end /\ list[i + 1].start = spans[k + 1].start
    /\ \A i \in 1..Len(list) : \E k \in 1..n :
          /\ spans[k].start <= list[i].start /\ list[i].end <= spans[k].end
          /\ list[i].path = spans[k].path

\* Chunks that cover all the spans cover them.
LEMMA CoversAll ==
  ASSUME NEW T, NEW spans \in Seq(T), NEW list \in Seq(Spots), CoversTo(list, spans, Len(spans))
  PROVE  Covers(list, spans)
<1>1. Last(list) = list[Len(list)] /\ Last(spans) = spans[Len(spans)]
  BY DEF Last
<1>2. spans = <<>> <=> Len(spans) = 0
  BY EmptySeq
<1> QED BY <1>1, <1>2 DEF Covers, CoversTo

\* A segment covers its span.
LEMMA SegmentCovers ==
  ASSUME NEW list, NEW span \in Spots, span.start < span.end,
         Segment(list, span.start, span.end, span.path)
  PROVE  Covers(list, <<span>>)
<1>1. span.start \in Nat /\ span.end \in Nat
  BY DEF Spots
<1>2. PICK spans : spans = <<span>>
  OBVIOUS
<1>3. spans \in Seq(Spots) /\ Len(spans) = 1 /\ spans[1] = span
  BY <1>2
<1>4. list # <<>> /\ list \in Seq(Spots)
  BY <1>1 DEF Segment
<1>5. CoversTo(list, spans, 1)
  BY <1>1, <1>3, <1>4 DEF Segment, CoversTo
<1> QED BY <1>2, <1>3, <1>4, <1>5, CoversAll

\* A segment behind chunks that cover the spans before its own.
LEMMA CoversConcat ==
  ASSUME NEW spans, NEW i \in Nat \ {0}, NEW list \in Seq(Spots), CoversTo(list, spans, i - 1),
         NEW seg \in Seq(Spots), seg # <<>>,
         Segment(seg, spans[i].start, spans[i].end, spans[i].path)
  PROVE  CoversTo(list \o seg, spans, i)
<1> DEFINE all == list \o seg
<1>1. PICK l \in Nat : l = Len(list)
  OBVIOUS
<1>2. PICK m \in Nat : m = Len(seg)
  OBVIOUS
<1>3. (l = 0 <=> list = <<>>) /\ m > 0
  BY <1>1, <1>2, EmptySeq
<1>4. /\ all \in Seq(Spots) /\ Len(all) = l + m
      /\ \A j \in 1..(l + m) : all[j] = IF j <= l THEN list[j] ELSE seg[j - l]
  BY <1>1, <1>2, ConcatProperties
<1> HIDE DEF all
<1>5. /\ seg[1].start = spans[i].start /\ seg[m].end = spans[i].end
      /\ \A j \in 1..(m - 1) : seg[j].end = seg[j + 1].start
      /\ \A j \in 1..m : /\ spans[i].start <= seg[j].start /\ seg[j].end <= spans[i].end
                         /\ seg[j].path = spans[i].path
  BY <1>2 DEF Segment
<1>6. /\ l = 0 <=> i - 1 = 0
      /\ l # 0 => list[1].start = spans[1].start /\ list[l].end = spans[i - 1].end
      /\ \A j \in 1..(l - 1) :
          \/ list[j].end = list[j + 1].start
          \/ \E k \in 1..(i - 2) :
                list[j].end = spans[k].end /\ list[j + 1].start = spans[k + 1].start
      /\ \A j \in 1..l : \E k \in 1..(i - 1) :
          /\ spans[k].start <= list[j].start /\ list[j].end <= spans[k].end
          /\ list[j].path = spans[k].path
  <2>1. (i - 1) - 1 = i - 2
    OBVIOUS
  <2> QED BY <1>1, <1>3, <2>1 DEF CoversTo
<1>7. all # <<>> /\ i # 0
  BY <1>3, <1>4, EmptySeq
<1>8. all[1].start = spans[1].start
  <2>1. CASE l = 0
    BY <2>1, <1>3, <1>4, <1>5, <1>6
  <2>2. CASE l # 0
    BY <2>2, <1>3, <1>4, <1>6
  <2> QED BY <2>1, <2>2
<1>9. all[l + m].end = spans[i].end
  BY <1>3, <1>4, <1>5
<1>10. ASSUME NEW j \in 1..(l + m - 1)
       PROVE  \/ all[j].end = all[j + 1].start
              \/ \E k \in 1..(i - 1) :
                    all[j].end = spans[k].end /\ all[j + 1].start = spans[k + 1].start
  <2>1. CASE j < l
    <3>1. j \in 1..(l - 1) /\ all[j] = list[j] /\ all[j + 1] = list[j + 1]
      BY <1>4, <2>1
    <3>2. CASE list[j].end = list[j + 1].start
      BY <3>1, <3>2
    <3>3. ASSUME NEW k \in 1..(i - 2),
                 list[j].end = spans[k].end /\ list[j + 1].start = spans[k + 1].start
          PROVE  \E k1 \in 1..(i - 1) :
                    all[j].end = spans[k1].end /\ all[j + 1].start = spans[k1 + 1].start
      <4>1. k \in 1..(i - 1)
        OBVIOUS
      <4> QED BY <3>1, <3>3, <4>1
    <3> QED BY <1>6, <3>1, <3>2, <3>3
  <2>2. CASE j = l
    <3>1. l # 0 /\ j \in 1..(l + m) /\ j + 1 \in 1..(l + m) /\ (j + 1) - l = 1 /\ ~(j + 1 <= l)
      BY <1>3, <2>2
    <3>2. all[j] = list[l] /\ all[j + 1] = seg[1]
      BY <1>4, <2>2, <3>1
    <3>3. i - 1 \in 1..(i - 1) /\ (i - 1) + 1 = i
      BY <1>6, <3>1
    <3>4. all[j].end = spans[i - 1].end /\ all[j + 1].start = spans[(i - 1) + 1].start
      BY <1>5, <1>6, <3>1, <3>2, <3>3
    <3> QED BY <3>3, <3>4
  <2>3. CASE j > l
    <3>1. PICK p \in 1..(m - 1) : p = j - l
      BY <2>3
    <3>2. all[j] = seg[p] /\ all[j + 1] = seg[p + 1]
      <4>1. j \in 1..(l + m) /\ j + 1 \in 1..(l + m) /\ ~(j <= l) /\ ~(j + 1 <= l)
        BY <2>3
      <4>2. (j + 1) - l = p + 1
        BY <3>1
      <4> QED BY <1>4, <3>1, <4>1, <4>2
    <3> QED BY <1>5, <3>1, <3>2
  <2> QED BY <2>1, <2>2, <2>3
<1>11. ASSUME NEW j \in 1..(l + m)
       PROVE  \E k \in 1..i : /\ spans[k].start <= all[j].start /\ all[j].end <= spans[k].end
                              /\ all[j].path = spans[k].path
  <2>1. CASE j <= l
    <3>1. j \in 1..l /\ all[j] = list[j]
      BY <1>4, <2>1
    <3>2. PICK k \in 1..(i - 1) : /\ spans[k].start <= list[j].start
                                  /\ list[j].end <= spans[k].end
                                  /\ list[j].path = spans[k].path
      BY <1>6, <3>1
    <3>3. k \in 1..i
      OBVIOUS
    <3> QED BY <3>1, <3>2, <3>3
  <2>2. CASE ~(j <= l)
    <3>1. PICK p \in 1..m : p = j - l
      BY <2>2
    <3>2. all[j] = seg[p] /\ i \in 1..i
      BY <1>4, <2>2, <3>1
    <3> QED BY <1>5, <3>2
  <2> QED BY <2>1, <2>2
<1>12. CoversTo(all, spans, i)
  <2>1. PICK t \in Nat : t = Len(all)
    BY <1>4
  <2>2. t = l + m
    BY <1>4, <2>1
  <2>3. \A j \in 1..(t - 1) :
              \/ all[j].end = all[j + 1].start
              \/ \E k \in 1..(i - 1) :
                    all[j].end = spans[k].end /\ all[j + 1].start = spans[k + 1].start
    <3>1. 1..(t - 1) = 1..(l + m - 1)
      BY <2>2
    <3> QED BY <1>10, <3>1, Zenon
  <2>4. \A j \in 1..t :
          \E k \in 1..i : /\ spans[k].start <= all[j].start /\ all[j].end <= spans[k].end
                          /\ all[j].path = spans[k].path
    BY <1>11, <2>2, Zenon
  <2>5. all[t].end = spans[i].end
    BY <1>9, <2>2, Zenon
  <2> QED BY <1>7, <1>8, <2>1, <2>3, <2>4, <2>5, Zenon DEF CoversTo
<1> QED BY <1>12 DEF all

\* What is true of every chunk of two lists is true of those of both.
LEMMA FineConcat ==
  ASSUME NEW list \in Seq(Spots), NEW seg \in Seq(Spots), NEW op, NEW max,
         Fine(list, op, max), Fine(seg, op, max)
  PROVE  Fine(list \o seg, op, max)
<1> DEFINE all == list \o seg
<1>1. /\ Len(all) = Len(list) + Len(seg)
      /\ \A j \in 1..(Len(list) + Len(seg)) :
            all[j] = IF j <= Len(list) THEN list[j] ELSE seg[j - Len(list)]
  BY ConcatProperties
<1>2. PICK l \in Nat : l = Len(list)
  OBVIOUS
<1>3. PICK m \in Nat : m = Len(seg)
  OBVIOUS
<1> HIDE DEF all
<1>4. ASSUME NEW j \in 1..Len(all)
      PROVE  (\E k \in 1..Len(list) : all[j] = list[k]) \/ (\E k \in 1..Len(seg) : all[j] = seg[k])
  <2>1. CASE j <= l
    BY <1>1, <1>2, <1>3, <2>1
  <2>2. CASE ~(j <= l)
    <3>1. j - l \in 1..m /\ all[j] = seg[j - l]
      BY <1>1, <1>2, <1>3, <2>2
    <3> QED BY <1>3, <3>1
  <2> QED BY <2>1, <2>2
<1>5. Fine(all, op, max)
  <2> SUFFICES ASSUME NEW j \in 1..Len(all)
               PROVE  /\ all[j].start \in Boundaries /\ all[j].end \in Boundaries
                      /\ all[j].start < all[j].end
                      /\ op # "heading" => Small(all[j].start, all[j].end, max)
    BY DEF Fine
  <2>1. CASE \E k \in 1..Len(list) : all[j] = list[k]
    BY <2>1 DEF Fine
  <2>2. CASE \E k \in 1..Len(seg) : all[j] = seg[k]
    BY <2>2 DEF Fine
  <2> QED BY <1>4, <2>1, <2>2
<1> QED BY <1>5 DEF all

\* The chunks of span after span cover the spans.
LEMMA FlatCovers ==
  ASSUME NEW T, NEW spans \in Seq(T), NEW cuts, Len(cuts) = Len(spans), NEW op, NEW max,
         \A i \in 1..Len(spans) :
            /\ cuts[i] \in Seq(Spots) /\ cuts[i] # <<>>
            /\ Segment(cuts[i], spans[i].start, spans[i].end, spans[i].path)
            /\ Fine(cuts[i], op, max)
  PROVE  Covers(Flat(cuts), spans) /\ Fine(Flat(cuts), op, max)
<1>1. PICK n \in Nat : n = Len(spans)
  OBVIOUS
<1> DEFINE Q == [i \in 0..n |-> {list \in Seq(Spots) :
                                   CoversTo(list, spans, i) /\ Fine(list, op, max)}]
<1>2. \A i \in 0..n : Q[i] = {list \in Seq(Spots) :
                                CoversTo(list, spans, i) /\ Fine(list, op, max)}
  OBVIOUS
<1> HIDE DEF Q
<1>3. <<>> \in Q[0]
  <2>1. PICK e : e = <<>>
    OBVIOUS
  <2>2. e \in Seq(Spots) /\ Len(e) = 0 /\ e = <<>>
    BY <2>1
  <2>3. CoversTo(e, spans, 0) /\ Fine(e, op, max)
    BY <2>2 DEF CoversTo, Fine
  <2>4. 0 \in 0..n
    OBVIOUS
  <2>5. e \in Q[0]
    BY <1>2, <2>2, <2>3, <2>4
  <2> QED BY <2>1, <2>5, Zenon
<1>4. \A i \in 1..n : \A y \in Q[i - 1] : (y \o cuts[i]) \in Q[i]
  <2> SUFFICES ASSUME NEW i \in 1..n, NEW y \in Q[i - 1] PROVE (y \o cuts[i]) \in Q[i]
    OBVIOUS
  <2>1. i - 1 \in 0..n /\ i \in 0..n /\ i \in Nat \ {0} /\ i \in 1..Len(spans)
    BY <1>1
  <2>2. y \in Seq(Spots) /\ CoversTo(y, spans, i - 1) /\ Fine(y, op, max)
    BY <1>2, <2>1
  <2>3. PICK seg : seg = cuts[i]
    OBVIOUS
  <2>4. /\ seg \in Seq(Spots) /\ seg # <<>>
        /\ Segment(seg, spans[i].start, spans[i].end, spans[i].path)
        /\ Fine(seg, op, max)
    BY <2>1, <2>3
  <2>5. CoversTo(y \o seg, spans, i)
    BY <2>1, <2>2, <2>4, CoversConcat
  <2>6. Fine(y \o seg, op, max)
    BY <2>2, <2>4, FineConcat
  <2>7. y \o seg \in Seq(Spots)
    BY <2>2, <2>4, ConcatProperties
  <2> QED BY <1>2, <2>1, <2>3, <2>5, <2>6, <2>7
<1>5. Flat(cuts) \in Q[n]
  BY <1>1, <1>3, <1>4, FlatIn
<1>6. PICK list : list = Flat(cuts)
  OBVIOUS
<1>7. list \in Seq(Spots) /\ CoversTo(list, spans, Len(spans)) /\ Fine(list, op, max)
  <2>1. n \in 0..n
    OBVIOUS
  <2> QED BY <1>1, <1>2, <1>5, <1>6, <2>1
<1>8. Covers(list, spans)
  BY <1>7, CoversAll
<1> QED BY <1>6, <1>7, <1>8

(***************************************************************************)
(* The three operations.                                                   *)
(***************************************************************************)

\* Only leaves passages in their order.
LEMMA OnlyApart ==
  ASSUME NEW s \in Seq(Passages), Apart(s), NEW S
  PROVE  /\ Only(s, S) \in Seq(Passages) /\ Apart(Only(s, S))
         /\ \A a \in 1..Len(Only(s, S)) : \E j \in 1..Len(s) : Only(s, S)[a] = s[j]
<1>1. PICK n \in Nat : n = Len(s)
  OBVIOUS
<1> DEFINE From(bs, i) == \A a \in 1..Len(bs) : \E j \in 1..i : bs[a] = s[j]
           Q == [i \in 0..n |-> {bs \in Seq(Passages) : Apart(bs) /\ From(bs, i)}]
<1>2. \A i \in 0..n : Q[i] = {bs \in Seq(Passages) : Apart(bs) /\ From(bs, i)}
  OBVIOUS
<1> HIDE DEF Q
<1>3. <<>> \in Q[0]
  <2>1. PICK e : e = <<>>
    OBVIOUS
  <2>2. e \in Seq(Passages) /\ Len(e) = 0
    BY <2>1
  <2>3. Apart(e) /\ From(e, 0)
    BY <2>2 DEF Apart
  <2>4. 0 \in 0..n
    OBVIOUS
  <2>5. e \in Q[0]
    BY <1>2, <2>2, <2>3, <2>4
  <2> QED BY <2>1, <2>5, Zenon
<1>4. \A i \in 1..n : \A y \in Q[i - 1] : (IF s[i] \in S THEN Append(y, s[i]) ELSE y) \in Q[i]
  <2> SUFFICES ASSUME NEW i \in 1..n, NEW y \in Q[i - 1]
               PROVE  (IF s[i] \in S THEN Append(y, s[i]) ELSE y) \in Q[i]
    OBVIOUS
  <2>1. i - 1 \in 0..n /\ i \in 0..n /\ i \in 1..Len(s)
    BY <1>1
  <2>2. y \in Seq(Passages) /\ Apart(y) /\ From(y, i - 1)
    BY <1>2, <2>1
  <2>3. From(y, i)
    <3> SUFFICES ASSUME NEW a \in 1..Len(y) PROVE \E j \in 1..i : y[a] = s[j]
      OBVIOUS
    <3>1. PICK j \in 1..(i - 1) : y[a] = s[j]
      BY <2>2
    <3>2. j \in 1..i
      OBVIOUS
    <3> QED BY <3>1, <3>2
  <2>4. CASE s[i] \notin S
    BY <1>2, <2>1, <2>2, <2>3, <2>4
  <2>5. CASE s[i] \in S
    <3>1. PICK x \in Passages : x = s[i]
      <4>1. s[i] \in Passages
        BY <2>1
      <4> QED BY <4>1
    <3>2. PICK m \in Nat : m = Len(y)
      BY <2>2
    <3> DEFINE more == Append(y, x)
    <3>3. /\ more \in Seq(Passages) /\ Len(more) = m + 1
          /\ \A a \in 1..m : more[a] = y[a]
          /\ more[m + 1] = x
      BY <2>2, <3>2, AppendProperties
    <3> HIDE DEF more
    <3>4. From(more, i)
      <4> SUFFICES ASSUME NEW a \in 1..Len(more) PROVE \E j \in 1..i : more[a] = s[j]
        OBVIOUS
      <4>1. CASE a = m + 1
        <5>1. more[a] = s[i] /\ i \in 1..i
          BY <3>1, <3>3, <4>1
        <5> QED BY <5>1
      <4>2. CASE a # m + 1
        <5>1. a \in 1..m /\ more[a] = y[a]
          BY <3>3, <4>2
        <5> QED BY <2>3, <3>2, <5>1
      <4> QED BY <4>1, <4>2
    <3>5. Apart(more)
      <4> SUFFICES ASSUME NEW a \in 1..Len(more), NEW b \in 1..Len(more), a < b
                   PROVE  more[a].end < more[b].start
        BY DEF Apart
      <4>1. a \in 1..m /\ more[a] = y[a]
        BY <3>3
      <4>2. CASE b = m + 1
        <5>1. PICK j \in 1..(i - 1) : y[a] = s[j]
          BY <2>2, <3>2, <4>1
        <5>2. j \in 1..Len(s) /\ j < i
          BY <1>1
        <5>3. s[j].end < s[i].start
          BY <2>1, <5>2 DEF Apart
        <5> QED BY <3>1, <3>3, <4>1, <4>2, <5>1, <5>3
      <4>3. CASE b # m + 1
        <5>1. b \in 1..m /\ more[b] = y[b]
          BY <3>3, <4>3
        <5> QED BY <2>2, <3>2, <4>1, <5>1 DEF Apart
      <4> QED BY <4>2, <4>3
    <3>6. more \in Q[i]
      BY <1>2, <2>1, <3>3, <3>4, <3>5
    <3> QED BY <2>5, <3>1, <3>6 DEF more
  <2> QED BY <2>4, <2>5
<1>5. Only(s, S) \in Q[n]
  BY <1>1, <1>3, <1>4, OnlyIn
<1>6. n \in 0..n
  OBVIOUS
<1> QED BY <1>1, <1>2, <1>5, <1>6

\* The paragraphs of a scanned text.
LEMMA ParagraphsApart ==
  ASSUME NEW off, NEW n, Laid(Blocks, off, n)
  PROVE  /\ Paragraphs \in Seq(Passages) /\ Apart(Paragraphs)
         /\ \A i \in 1..Len(Paragraphs) :
               /\ Paragraphs[i].start \in Boundaries /\ Paragraphs[i].end \in Boundaries
               /\ Paragraphs[i].start < Paragraphs[i].end
<1>1. PICK bs : bs = Blocks
  OBVIOUS
<1>2. bs \in Seq(Passages) /\ Apart(bs) /\ \A i \in 1..Len(bs) : Placed(bs[i], off, n)
  BY <1>1 DEF Laid
<1>3. PICK S : S = {b \in Range(bs) : b.kind = "para"}
  OBVIOUS
<1>4. PICK ps : ps = Only(bs, S)
  OBVIOUS
<1>5. /\ ps \in Seq(Passages) /\ Apart(ps)
      /\ \A a \in 1..Len(ps) : \E j \in 1..Len(bs) : ps[a] = bs[j]
  BY <1>2, <1>4, OnlyApart
<1>6. Paragraphs = ps
  BY <1>1, <1>3, <1>4 DEF Paragraphs
<1>7. ASSUME NEW i \in 1..Len(ps)
      PROVE  ps[i].start \in Boundaries /\ ps[i].end \in Boundaries /\ ps[i].start < ps[i].end
  <2>1. PICK j \in 1..Len(bs) : ps[i] = bs[j]
    BY <1>5
  <2> QED BY <1>2, <2>1 DEF Placed
<1> QED BY <1>5, <1>6, <1>7

\* A passage as one chunk.
LEMMA WholeFills ==
  ASSUME NEW b, b.start \in Nat, b.end \in Nat, b.path \in Seq(Nat),
         b.start \in Boundaries, b.end \in Boundaries, b.start < b.end,
         NEW op, NEW max, op = "heading" \/ b.end - b.start <= max
  PROVE  /\ Segment(Whole(b), b.start, b.end, b.path)
         /\ Fine(Whole(b), op, max)
<1>1. PICK x : x = Chunk(b.start, b.end, b.path)
  OBVIOUS
<1>2. x \in Spots /\ x.start = b.start /\ x.end = b.end /\ x.path = b.path
  BY <1>1 DEF Chunk, Spots
<1>3. PICK list : list = <<x>>
  OBVIOUS
<1>4. list \in Seq(Spots) /\ Len(list) = 1 /\ list[1] = x /\ list # <<>>
  BY <1>2, <1>3
<1>5. Whole(b) = list
  BY <1>1, <1>3 DEF Whole
<1>6. Segment(list, b.start, b.end, b.path)
  BY <1>2, <1>4 DEF Segment
<1>7. Fine(list, op, max)
  BY <1>2, <1>4 DEF Fine, Small
<1> QED BY <1>5, <1>6, <1>7

\* The text as a span, if it has a character.
WholeText == IF TextLength > 0 THEN <<Chunk(0, TextLength, <<>>)>> ELSE <<>>

\* What each operation promises of its chunks.
Promised(list, op, max) ==
    /\ Fine(list, op, max)
    /\ Covers(list, IF op = "fixed" \/ Paragraphs = <<>> THEN WholeText ELSE Paragraphs)

\* An empty list covers no span.
LEMMA NothingCovers ==
  ASSUME NEW op, NEW max
  PROVE  Covers(<<>>, <<>>) /\ Fine(<<>>, op, max)
<1>1. PICK e : e = <<>>
  OBVIOUS
<1>2. Len(e) = 0
  BY <1>1
<1>3. Covers(e, e) /\ Fine(e, op, max)
  BY <1>1, <1>2 DEF Covers, Fine
<1> QED BY <1>1, <1>3

\* The whole text in chunks of a fixed size, or in one.
LEMMA TextFills ==
  ASSUME Lined, TextLength \in Boundaries, NEW op, NEW max \in Nat
  PROVE  /\ max > 0 => /\ Covers(FixedRange(0, TextLength, max, <<>>), WholeText)
                       /\ Fine(FixedRange(0, TextLength, max, <<>>), op, max)
         /\ TextLength > 0 => /\ Covers(<<Chunk(0, TextLength, <<>>)>>, WholeText)
                              /\ Fine(<<Chunk(0, TextLength, <<>>)>>, "heading", max)
<1>1. Boundaries \subseteq Nat /\ 0 \in Boundaries
  BY LineBoundaries
<1>2. PICK t \in Nat : t = TextLength
  BY <1>1
<1>3. PICK p : p = <<>>
  OBVIOUS
<1>4. p \in Seq(Nat)
  BY <1>3
<1>5. CASE t = 0
  <2>1. FixedRange(0, TextLength, max, <<>>) = <<>> /\ WholeText = <<>>
    BY <1>2, <1>5 DEF FixedRange, WholeText
  <2> QED BY <1>2, <1>5, <2>1, NothingCovers
<1>6. CASE t > 0
  <2>1. PICK span : span = Chunk(0, t, p)
    OBVIOUS
  <2>2. span \in Spots /\ span.start = 0 /\ span.end = t /\ span.path = p
    BY <2>1, <1>4 DEF Chunk, Spots
  <2>3. WholeText = <<span>>
    BY <1>2, <1>3, <1>6, <2>1 DEF WholeText
  <2>4. ASSUME max > 0
        PROVE  /\ Covers(FixedRange(0, TextLength, max, <<>>), WholeText)
               /\ Fine(FixedRange(0, TextLength, max, <<>>), op, max)
    <3>1. PICK list : list = FixedRange(0, t, max, p)
      OBVIOUS
    <3>2. Segment(list, 0, t, p) /\ Fine(list, op, max)
      BY <1>1, <1>2, <1>4, <1>6, <2>4, <3>1, FixedRangeFills
    <3>3. Covers(list, <<span>>)
      BY <1>6, <2>2, <3>2, SegmentCovers
    <3> QED BY <1>2, <1>3, <2>3, <3>1, <3>2, <3>3
  <2>5. PICK one : one = Whole(span)
    OBVIOUS
  <2>6. one = <<Chunk(0, TextLength, <<>>)>>
    BY <1>2, <1>3, <2>2, <2>5 DEF Whole
  <2>7. Segment(one, 0, t, p) /\ Fine(one, "heading", max)
    BY <1>1, <1>2, <1>4, <1>6, <2>2, <2>5, WholeFills
  <2>8. Covers(one, <<span>>)
    BY <1>6, <2>2, <2>7, SegmentCovers
  <2> QED BY <2>3, <2>4, <2>6, <2>7, <2>8
<1> QED BY <1>5, <1>6

\* The recursive operation: paragraphs as they are or cut, or the text if it
\* has none.
LEMMA RecursiveFills ==
  ASSUME Lined, TextLength \in Boundaries, NEW off, NEW n, Laid(Blocks, off, n),
         NEW max \in Nat \ {0}
  PROVE  Promised(RecursiveChunks(max), "recursive", max)
<1>1. PICK ps : ps = Paragraphs
  OBVIOUS
<1>2. /\ ps \in Seq(Passages) /\ Apart(ps)
      /\ \A i \in 1..Len(ps) : /\ ps[i].start \in Boundaries /\ ps[i].end \in Boundaries
                               /\ ps[i].start < ps[i].end
  BY <1>1, ParagraphsApart
<1>3. Boundaries \subseteq Nat
  BY LineBoundaries
<1>4. CASE ps = <<>>
  <2>1. RecursiveChunks(max) = FixedRange(0, TextLength, max, <<>>)
    BY <1>1, <1>4 DEF RecursiveChunks
  <2>2. Covers(RecursiveChunks(max), WholeText) /\ Fine(RecursiveChunks(max), "recursive", max)
    BY <2>1, TextFills
  <2> QED BY <1>1, <1>4, <2>2 DEF Promised
<1>5. CASE ps # <<>>
  <2> DEFINE cut(b) == IF b.end - b.start <= max THEN Whole(b)
                       ELSE FixedRange(b.start, b.end, max, b.path)
             cuts == [i \in DOMAIN ps |-> cut(ps[i])]
  <2>1. RecursiveChunks(max) = Flat(cuts)
    BY <1>1, <1>5 DEF RecursiveChunks
  <2>2. ASSUME NEW i \in 1..Len(ps)
        PROVE  /\ cut(ps[i]) \in Seq(Spots) /\ cut(ps[i]) # <<>>
               /\ Segment(cut(ps[i]), ps[i].start, ps[i].end, ps[i].path)
               /\ Fine(cut(ps[i]), "recursive", max)
    <3>1. PICK b \in Passages : b = ps[i]
      <4>1. ps[i] \in Passages
        BY <1>2
      <4> QED BY <4>1
    <3>2. b.start \in Nat /\ b.end \in Nat /\ b.path \in Seq(Nat)
      BY <3>1 DEF Passages
    <3>3. b.start \in Boundaries /\ b.end \in Boundaries /\ b.start < b.end
      BY <1>2, <3>1
    <3>4. Segment(cut(b), b.start, b.end, b.path) /\ Fine(cut(b), "recursive", max)
      <4>1. CASE b.end - b.start <= max
        <5>1. Segment(Whole(b), b.start, b.end, b.path) /\ Fine(Whole(b), "recursive", max)
          BY <3>2, <3>3, <4>1, WholeFills
        <5> QED BY <4>1, <5>1
      <4>2. CASE ~(b.end - b.start <= max)
        <5>1. PICK list : list = FixedRange(b.start, b.end, max, b.path)
          OBVIOUS
        <5>2. Segment(list, b.start, b.end, b.path) /\ Fine(list, "recursive", max)
          BY <1>3, <3>2, <3>3, <5>1, FixedRangeFills
        <5> QED BY <4>2, <5>1, <5>2
      <4> QED BY <4>1, <4>2
    <3> HIDE DEF cut
    <3>5. cut(b) \in Seq(Spots) /\ cut(b) # <<>>
      <4>1. b.start # b.end
        BY <3>2, <3>3
      <4> QED BY <3>4, <4>1 DEF Segment
    <3> QED BY <3>1, <3>4, <3>5
  <2> HIDE DEF cut
  <2>3. DOMAIN ps = 1..Len(ps)
    BY <1>2
  <2>4. cuts \in [1..Len(ps) -> Seq(Spots)] /\ \A i \in 1..Len(ps) : cuts[i] = cut(ps[i])
    BY <2>2, <2>3
  <2> HIDE DEF cuts
  <2>5. Len(cuts) = Len(ps)
    BY <1>2, <2>4
  <2>6. \A i \in 1..Len(ps) :
            /\ cuts[i] \in Seq(Spots) /\ cuts[i] # <<>>
            /\ Segment(cuts[i], ps[i].start, ps[i].end, ps[i].path)
            /\ Fine(cuts[i], "recursive", max)
    BY <2>2, <2>4
  <2>7. Covers(Flat(cuts), ps) /\ Fine(Flat(cuts), "recursive", max)
    BY <1>2, <2>5, <2>6, FlatCovers
  <2> QED BY <1>1, <1>5, <2>1, <2>7 DEF Promised
<1> QED BY <1>4, <1>5

\* The operation by headings: every paragraph as one chunk, or the text.
LEMMA HeadingFills ==
  ASSUME Lined, TextLength \in Boundaries, NEW off, NEW n, Laid(Blocks, off, n), NEW max \in Nat
  PROVE  Promised(HeadingChunks, "heading", max)
<1>1. PICK ps : ps = Paragraphs
  OBVIOUS
<1>2. /\ ps \in Seq(Passages) /\ Apart(ps)
      /\ \A i \in 1..Len(ps) : /\ ps[i].start \in Boundaries /\ ps[i].end \in Boundaries
                               /\ ps[i].start < ps[i].end
  BY <1>1, ParagraphsApart
<1>3. Boundaries \subseteq Nat
  BY LineBoundaries
<1>4. CASE ps = <<>>
  <2>1. CASE TextLength > 0
    <3>1. HeadingChunks = <<Chunk(0, TextLength, <<>>)>>
      BY <1>1, <1>4, <2>1 DEF HeadingChunks
    <3>2. Covers(HeadingChunks, WholeText) /\ Fine(HeadingChunks, "heading", max)
      BY <2>1, <3>1, TextFills
    <3> QED BY <1>1, <1>4, <3>2 DEF Promised
  <2>2. CASE ~(TextLength > 0)
    <3>1. HeadingChunks = <<>> /\ WholeText = <<>>
      BY <1>1, <1>4, <2>2 DEF HeadingChunks, WholeText
    <3>2. Covers(HeadingChunks, WholeText) /\ Fine(HeadingChunks, "heading", max)
      BY <3>1, NothingCovers
    <3> QED BY <1>1, <1>4, <3>2 DEF Promised
  <2> QED BY <2>1, <2>2
<1>5. CASE ps # <<>>
  <2> DEFINE cuts == [i \in DOMAIN ps |-> Whole(ps[i])]
  <2>1. HeadingChunks = Flat(cuts)
    BY <1>1, <1>5 DEF HeadingChunks
  <2>2. ASSUME NEW i \in 1..Len(ps)
        PROVE  /\ Whole(ps[i]) \in Seq(Spots) /\ Whole(ps[i]) # <<>>
               /\ Segment(Whole(ps[i]), ps[i].start, ps[i].end, ps[i].path)
               /\ Fine(Whole(ps[i]), "heading", max)
    <3>1. PICK b \in Passages : b = ps[i]
      <4>1. ps[i] \in Passages
        BY <1>2
      <4> QED BY <4>1
    <3>2. b.start \in Nat /\ b.end \in Nat /\ b.path \in Seq(Nat)
      BY <3>1 DEF Passages
    <3>3. b.start \in Boundaries /\ b.end \in Boundaries /\ b.start < b.end
      BY <1>2, <3>1
    <3>4. Segment(Whole(b), b.start, b.end, b.path) /\ Fine(Whole(b), "heading", max)
      BY <3>2, <3>3, WholeFills
    <3>5. Whole(b) \in Seq(Spots) /\ Whole(b) # <<>>
      <4>1. b.start # b.end
        BY <3>2, <3>3
      <4> QED BY <3>4, <4>1 DEF Segment
    <3> QED BY <3>1, <3>4, <3>5
  <2>3. DOMAIN ps = 1..Len(ps)
    BY <1>2
  <2>4. cuts \in [1..Len(ps) -> Seq(Spots)] /\ \A i \in 1..Len(ps) : cuts[i] = Whole(ps[i])
    BY <2>2, <2>3
  <2> HIDE DEF cuts
  <2>5. Len(cuts) = Len(ps)
    BY <1>2, <2>4
  <2>6. \A i \in 1..Len(ps) :
            /\ cuts[i] \in Seq(Spots) /\ cuts[i] # <<>>
            /\ Segment(cuts[i], ps[i].start, ps[i].end, ps[i].path)
            /\ Fine(cuts[i], "heading", max)
    BY <2>2, <2>4
  <2>7. Covers(Flat(cuts), ps) /\ Fine(Flat(cuts), "heading", max)
    BY <1>2, <2>5, <2>6, FlatCovers
  <2> QED BY <1>1, <1>5, <2>1, <2>7 DEF Promised
<1> QED BY <1>4, <1>5

(***************************************************************************)
(* Headings.                                                               *)
(***************************************************************************)

\* A level is a natural number.
LEMMA LevelType ==
  ASSUME Lined, NEW i \in 1..Len(lines)
  PROVE  Level(lines[i]) \in Nat
<1>1. lines[i].h \in Int
  BY WidthType
<1> QED BY <1>1 DEF Level

\* A line of prose, or a blank one, is under the headings of the line before.
LEMMA ProseAbove ==
  ASSUME Lined, NEW n \in 1..Len(lines), Level(lines[n]) = 0
  PROVE  /\ HeadingsAbove(n) = HeadingsAbove(n - 1)
         /\ NoRankSkipped(n) <=> NoRankSkipped(n - 1)
<1>0. Len(lines) \in Nat
  BY DEF Lined
<1>1. PICK lev : lev = [i \in 1..Len(lines) |-> Level(lines[i])]
  OBVIOUS
<1>2. \A i \in 1..n : lev[i] = Level(lines[i]) /\ lev[i] \in Nat
  BY <1>0, <1>1, LevelType
<1>3. HeadingsAbove(n) = {i \in 1..n :
             lev[i] > 0 /\ \A j \in (i + 1)..n : lev[j] > 0 => lev[j] > lev[i]}
  <2>1. \A i \in 1..n : \A j \in (i + 1)..n : j \in 1..n
    OBVIOUS
  <2> QED BY <1>2, <2>1 DEF HeadingsAbove
<1>4. HeadingsAbove(n - 1) = {i \in 1..(n - 1) :
             lev[i] > 0 /\ \A j \in (i + 1)..(n - 1) : lev[j] > 0 => lev[j] > lev[i]}
  <2>1. \A i \in 1..(n - 1) : i \in 1..n /\ \A j \in (i + 1)..(n - 1) : j \in 1..n
    OBVIOUS
  <2> QED BY <1>2, <2>1 DEF HeadingsAbove
<1>5. lev[n] = 0
  BY <1>2
<1>6. HeadingsAbove(n) = HeadingsAbove(n - 1)
  BY <1>2, <1>3, <1>4, <1>5
<1>7. NoRankSkipped(n) <=> NoRankSkipped(n - 1)
  <2>1. \A i \in 1..n : i = n \/ i \in 1..(n - 1)
    OBVIOUS
  <2>2. \A i \in 1..(n - 1) : i \in 1..n
    OBVIOUS
  <2> QED BY <2>1, <2>2 DEF NoRankSkipped
<1> QED BY <1>6, <1>7

\* A heading closes those of its rank and below.
LEMMA HeadingAbove ==
  ASSUME Lined, NEW n \in 1..Len(lines), Level(lines[n]) > 0
  PROVE  /\ HeadingsAbove(n) = {i \in HeadingsAbove(n - 1) : Level(lines[i]) < Level(lines[n])}
                                 \cup {n}
         /\ NoRankSkipped(n) =>
              /\ NoRankSkipped(n - 1)
              /\ \/ Level(lines[n]) = 1
                 \/ \E j \in HeadingsAbove(n - 1) : Level(lines[j]) = Level(lines[n]) - 1
<1>0. Len(lines) \in Nat
  BY DEF Lined
<1>1. PICK lev : lev = [i \in 1..Len(lines) |-> Level(lines[i])]
  OBVIOUS
<1>2. \A i \in 1..n : lev[i] = Level(lines[i]) /\ lev[i] \in Nat
  BY <1>0, <1>1, LevelType
<1>3. HeadingsAbove(n) = {i \in 1..n :
             lev[i] > 0 /\ \A j \in (i + 1)..n : lev[j] > 0 => lev[j] > lev[i]}
  <2>1. \A i \in 1..n : \A j \in (i + 1)..n : j \in 1..n
    OBVIOUS
  <2> QED BY <1>2, <2>1 DEF HeadingsAbove
<1>4. HeadingsAbove(n - 1) = {i \in 1..(n - 1) :
             lev[i] > 0 /\ \A j \in (i + 1)..(n - 1) : lev[j] > 0 => lev[j] > lev[i]}
  <2>1. \A i \in 1..(n - 1) : i \in 1..n /\ \A j \in (i + 1)..(n - 1) : j \in 1..n
    OBVIOUS
  <2> QED BY <1>2, <2>1 DEF HeadingsAbove
<1>5. lev[n] > 0 /\ lev[n] \in Nat
  BY <1>2
<1>6. HeadingsAbove(n) = {i \in HeadingsAbove(n - 1) : lev[i] < lev[n]} \cup {n}
  <2>1. ASSUME NEW i \in HeadingsAbove(n)
        PROVE  i \in {m \in HeadingsAbove(n - 1) : lev[m] < lev[n]} \cup {n}
    <3>1. CASE i = n
      BY <3>1
    <3>2. CASE i # n
      <4>1. i \in 1..(n - 1) /\ n \in (i + 1)..n
        BY <1>3, <3>2
      <4>2. lev[n] > lev[i] /\ i \in HeadingsAbove(n - 1)
        BY <1>3, <1>4, <1>5, <4>1
      <4>3. lev[i] \in Nat
        BY <1>2, <4>1
      <4> QED BY <1>5, <4>2, <4>3
    <3> QED BY <3>1, <3>2
  <2>2. n \in HeadingsAbove(n)
    BY <1>3, <1>5
  <2>3. ASSUME NEW i \in HeadingsAbove(n - 1), lev[i] < lev[n] PROVE i \in HeadingsAbove(n)
    <3>1. i \in 1..(n - 1) /\ i \in 1..n /\ lev[i] \in Nat
      BY <1>2, <1>4
    <3>2. ASSUME NEW j \in (i + 1)..n, lev[j] > 0 PROVE lev[j] > lev[i]
      <4>1. CASE j = n
        BY <1>5, <2>3, <3>1, <4>1
      <4>2. CASE j # n
        <5>1. j \in (i + 1)..(n - 1)
          BY <3>1, <4>2
        <5> QED BY <1>4, <3>2, <5>1
      <4> QED BY <4>1, <4>2
    <3> QED BY <1>3, <1>4, <3>1, <3>2
  <2> QED BY <2>1, <2>2, <2>3
<1>7. {i \in HeadingsAbove(n - 1) : lev[i] < lev[n]}
        = {i \in HeadingsAbove(n - 1) : Level(lines[i]) < Level(lines[n])}
  <2>1. \A i \in HeadingsAbove(n - 1) : lev[i] = Level(lines[i])
    BY <1>2, <1>4
  <2> QED BY <1>2, <2>1
<1>8. ASSUME NoRankSkipped(n)
      PROVE  /\ NoRankSkipped(n - 1)
             /\ \/ Level(lines[n]) = 1
                \/ \E j \in HeadingsAbove(n - 1) : Level(lines[j]) = Level(lines[n]) - 1
  <2>1. NoRankSkipped(n - 1)
    <3>1. \A i \in 1..(n - 1) : i \in 1..n
      OBVIOUS
    <3> QED BY <1>8, <3>1 DEF NoRankSkipped
  <2>2. CASE \E j \in HeadingsAbove(n) : Level(lines[j]) = Level(lines[n]) - 1
    <3>1. PICK j \in HeadingsAbove(n) : Level(lines[j]) = Level(lines[n]) - 1
      BY <2>2
    <3>2. j # n
      BY <1>2, <1>5, <3>1
    <3> QED BY <1>6, <2>1, <3>1, <3>2
  <2> QED BY <1>8, <2>1, <2>2 DEF NoRankSkipped
<1> QED BY <1>6, <1>7, <1>8

\* The path stays in ranks at a line of prose.
LEMMA RankedProse ==
  ASSUME Lined, NEW n \in 1..Len(lines), Level(lines[n]) = 0, NEW hs, Ranked(hs, n - 1)
  PROVE  Ranked(hs, n)
<1>1. hs \in Seq(1..n)
  <2>1. hs \in Seq(1..(n - 1)) /\ 1..(n - 1) \subseteq 1..n
    BY DEF Ranked
  <2> QED BY <2>1, SeqMonotonic
<1> QED BY <1>1, ProseAbove DEF Ranked

\* The path stays in ranks at a heading.
LEMMA RankedHeading ==
  ASSUME Lined, NEW n \in 1..Len(lines), NEW l \in Nat \ {0}, l = Level(lines[n]),
         NEW hs, Ranked(hs, n - 1)
  PROVE  Ranked(Append(IF Len(hs) > l - 1 THEN SubSeq(hs, 1, l - 1) ELSE hs, n), n)
<1>1. /\ hs \in Seq(1..(n - 1)) /\ n \in Nat
      /\ \A k \in 1..(Len(hs) - 1) : hs[k] < hs[k + 1]
  BY DEF Ranked, Lined
<1>2. PICK m \in Nat : m = Len(hs)
  BY <1>1
<1>3. \A k \in 1..m : hs[k] \in 1..(n - 1)
  BY <1>1, <1>2
<1>4. PICK r \in Nat : r = IF m > l - 1 THEN l - 1 ELSE m
  OBVIOUS
<1>5. PICK kept : kept = IF Len(hs) > l - 1 THEN SubSeq(hs, 1, l - 1) ELSE hs
  OBVIOUS
<1>6. kept \in Seq(1..n) /\ Len(kept) = r /\ \A k \in 1..r : kept[k] = hs[k]
  <2>1. hs \in Seq(1..n)
    BY <1>1, 1..(n - 1) \subseteq 1..n, SeqMonotonic
  <2>2. CASE m > l - 1
    <3>1. kept = SubSeq(hs, 1, l - 1) /\ r = l - 1 /\ l - 1 \in Int /\ 1 \in Int
      BY <1>2, <1>4, <1>5, <2>2
    <3>2. \A k \in 1..(l - 1) : hs[k] \in 1..n
      BY <1>3, <2>2
    <3>3. /\ kept \in Seq(1..n)
          /\ Len(kept) = IF 1 <= l - 1 THEN (l - 1) - 1 + 1 ELSE 0
          /\ \A k \in 1..((l - 1) - 1 + 1) : kept[k] = hs[1 + k - 1]
      BY <3>1, <3>2, SubSeqProperties
    <3>4. Len(kept) = r
      BY <3>1, <3>3
    <3>5. ASSUME NEW k \in 1..r PROVE kept[k] = hs[k]
      <4>1. k \in 1..((l - 1) - 1 + 1) /\ 1 + k - 1 = k
        BY <3>1
      <4> QED BY <3>3, <4>1
    <3> QED BY <3>3, <3>4, <3>5
  <2>3. CASE ~(m > l - 1)
    BY <1>2, <1>4, <1>5, <2>1, <2>3
  <2> QED BY <2>2, <2>3
<1>7. r <= m
  BY <1>4
<1>8. PICK path : path = Append(kept, n)
  OBVIOUS
<1>9. /\ path \in Seq(1..n) /\ Len(path) = r + 1
      /\ \A k \in 1..r : path[k] = hs[k]
      /\ path[r + 1] = n
  <2>1. n \in 1..n
    BY <1>1
  <2> QED BY <1>6, <1>8, <2>1, AppendProperties
<1>10. ASSUME NEW k \in 1..(Len(path) - 1) PROVE path[k] < path[k + 1]
  <2>1. k \in 1..r /\ k \in 1..m /\ path[k] = hs[k]
    BY <1>7, <1>9
  <2>2. CASE k = r
    <3>1. hs[k] \in 1..(n - 1) /\ path[k + 1] = n
      BY <1>3, <1>9, <2>1, <2>2
    <3> QED BY <2>1, <3>1
  <2>3. CASE k # r
    <3>1. k + 1 \in 1..r /\ k \in 1..(Len(hs) - 1)
      BY <1>2, <1>7, <2>1, <2>3
    <3> QED BY <1>1, <1>9, <2>1, <3>1
  <2> QED BY <2>2, <2>3
<1>11. ASSUME NoRankSkipped(n)
       PROVE  /\ Range(path) = HeadingsAbove(n)
              /\ \A k \in 1..Len(path) : Level(lines[path[k]]) = k
  <2>1. NoRankSkipped(n - 1) /\ (l = 1 \/ \E j \in HeadingsAbove(n - 1) : Level(lines[j]) = l - 1)
    BY <1>11, HeadingAbove
  <2>2. /\ Range(hs) = HeadingsAbove(n - 1)
        /\ \A k \in 1..m : Level(lines[hs[k]]) = k
    BY <1>2, <2>1 DEF Ranked
  <2>3. HeadingsAbove(n - 1) = {hs[k] : k \in 1..m}
    BY <1>1, <1>2, <2>2 DEF Range
  <2>4. r = l - 1
    <3>1. CASE l = 1
      BY <1>4, <3>1
    <3>2. CASE l # 1
      <4>1. PICK j \in HeadingsAbove(n - 1) : Level(lines[j]) = l - 1
        BY <2>1, <3>2
      <4>2. PICK k \in 1..m : j = hs[k]
        BY <2>3, <4>1
      <4>3. k = l - 1
        BY <2>2, <4>1, <4>2
      <4> QED BY <1>4, <4>3
    <3> QED BY <3>1, <3>2
  <2>5. HeadingsAbove(n) = {i \in HeadingsAbove(n - 1) : Level(lines[i]) < l} \cup {n}
    BY HeadingAbove
  <2>6. {i \in HeadingsAbove(n - 1) : Level(lines[i]) < l} = {hs[k] : k \in 1..r}
    <3>1. ASSUME NEW i \in HeadingsAbove(n - 1), Level(lines[i]) < l
          PROVE  i \in {hs[k] : k \in 1..r}
      <4>1. PICK k \in 1..m : i = hs[k]
        BY <2>3
      <4>2. k \in 1..r
        BY <2>2, <2>4, <3>1, <4>1
      <4> QED BY <4>1, <4>2
    <3>2. ASSUME NEW k \in 1..r
          PROVE  hs[k] \in HeadingsAbove(n - 1) /\ Level(lines[hs[k]]) < l
      <4>1. k \in 1..m
        BY <1>7
      <4>2. Level(lines[hs[k]]) = k /\ k < l
        BY <2>2, <2>4, <4>1
      <4> QED BY <2>3, <4>1, <4>2
    <3> QED BY <3>1, <3>2
  <2>7. Range(path) = {hs[k] : k \in 1..r} \cup {n}
    <3>1. Range(path) = {path[k] : k \in 1..(r + 1)}
      <4>1. DOMAIN path = 1..Len(path)
        BY <1>9
      <4>2. DOMAIN path = 1..(r + 1)
        BY <1>9, <4>1
      <4> QED BY <4>2, Zenon DEF Range
    <3>2. \A k \in 1..(r + 1) : k = r + 1 \/ k \in 1..r
      OBVIOUS
    <3>3. r + 1 \in 1..(r + 1) /\ \A k \in 1..r : k \in 1..(r + 1)
      OBVIOUS
    <3> QED BY <1>9, <3>1, <3>2, <3>3
  <2>8. ASSUME NEW k \in 1..Len(path) PROVE Level(lines[path[k]]) = k
    <3>1. CASE k = r + 1
      BY <1>9, <2>4, <3>1
    <3>2. CASE k # r + 1
      <4>1. k \in 1..r /\ k \in 1..m
        BY <1>7, <1>9, <3>2
      <4> QED BY <1>9, <2>2, <4>1
    <3> QED BY <3>1, <3>2
  <2> QED BY <2>5, <2>6, <2>7, <2>8
<1>12. Ranked(path, n)
  BY <1>9, <1>10, <1>11 DEF Ranked
<1> QED BY <1>5, <1>8, <1>12

(***************************************************************************)
(* Scanning.                                                               *)
(***************************************************************************)

\* Another line without a block.
LEMMA LaidOn ==
  ASSUME Lined, NEW n \in 1..Len(lines), NEW off \in Nat, NEW next \in Nat, off <= next,
         NEW bs, Laid(bs, off, n - 1)
  PROVE  Laid(bs, next, n)
<1>1. Len(lines) \in Nat /\ n - 1 < Len(lines) /\ Boundaries \subseteq Nat
  BY LineBoundaries DEF Lined
<1>2. /\ bs \in Seq(Passages) /\ Apart(bs)
      /\ \A i \in 1..Len(bs) : /\ Placed(bs[i], off, n - 1) /\ Chain(bs[i].path, bs[i].line)
                               /\ bs[i].end < off
  BY <1>1 DEF Laid
<1>3. ASSUME NEW i \in 1..Len(bs) PROVE Placed(bs[i], next, n) /\ bs[i].end < next
  <2>1. /\ bs[i].start \in Boundaries /\ bs[i].end \in Boundaries /\ bs[i].start < bs[i].end
        /\ bs[i].line \in 1..(n - 1) /\ bs[i].end < off
    BY <1>2 DEF Placed
  <2>2. bs[i].end \in Nat
    BY <1>1, <2>1
  <2>3. PICK x \in Nat : x = bs[i].end
    BY <2>2
  <2>4. x < next /\ x <= next
    BY <2>1, <2>3
  <2>5. bs[i].line \in 1..n
    BY <2>1
  <2> QED BY <2>1, <2>3, <2>4, <2>5 DEF Placed
<1> QED BY <1>2, <1>3 DEF Laid

\* Another line with a block of its own.
LEMMA LaidAppend ==
  ASSUME Lined, NEW n \in 1..Len(lines), NEW off \in Nat, NEW next \in Nat,
         NEW bs, Laid(bs, off, n - 1),
         NEW b \in Passages, b.start = off, b.start \in Boundaries, b.end \in Boundaries,
         b.start < b.end, b.end <= next, n < Len(lines) => b.end < next,
         b.line = n, Chain(b.path, b.line)
  PROVE  Laid(Append(bs, b), next, n)
<1>1. Len(lines) \in Nat /\ n - 1 < Len(lines) /\ n \in 1..n
  BY DEF Lined
<1>2. off <= next
  <2>1. b.end \in Nat
    BY DEF Passages
  <2> QED BY <2>1
<1>3. Laid(bs, next, n)
  BY <1>2, LaidOn
<1>4. /\ bs \in Seq(Passages) /\ Apart(bs)
      /\ \A i \in 1..Len(bs) : /\ Placed(bs[i], next, n) /\ Chain(bs[i].path, bs[i].line)
                               /\ bs[i].end < off
                               /\ n < Len(lines) => bs[i].end < next
  BY <1>1, <1>3 DEF Laid
<1>5. PICK m \in Nat : m = Len(bs)
  BY <1>4
<1>6. PICK more : more = Append(bs, b)
  OBVIOUS
<1>7. /\ more \in Seq(Passages) /\ Len(more) = m + 1
      /\ \A i \in 1..m : more[i] = bs[i]
      /\ more[m + 1] = b
  BY <1>4, <1>5, <1>6, AppendProperties
<1>8. Placed(b, next, n)
  BY <1>1 DEF Placed
<1>9. ASSUME NEW i \in 1..Len(more)
      PROVE  /\ Placed(more[i], next, n) /\ Chain(more[i].path, more[i].line)
             /\ n < Len(lines) => more[i].end < next
  <2>1. CASE i = m + 1
    BY <2>1, <1>7, <1>8
  <2>2. CASE i # m + 1
    <3>1. i \in 1..Len(bs) /\ more[i] = bs[i]
      BY <2>2, <1>5, <1>7
    <3> QED BY <1>4, <3>1
  <2> QED BY <2>1, <2>2
<1>10. Apart(more)
  <2> SUFFICES ASSUME NEW i \in 1..Len(more), NEW j \in 1..Len(more), i < j
               PROVE  more[i].end < more[j].start
    BY DEF Apart
  <2>1. i \in 1..m /\ i \in 1..Len(bs) /\ more[i] = bs[i]
    BY <1>5, <1>7
  <2>2. CASE j = m + 1
    BY <2>1, <2>2, <1>4, <1>7
  <2>3. CASE j # m + 1
    <3>1. j \in 1..Len(bs) /\ more[j] = bs[j]
      BY <2>3, <1>5, <1>7
    <3> QED BY <1>4, <2>1, <3>1 DEF Apart
  <2> QED BY <2>2, <2>3
<1>11. Laid(more, next, n)
  BY <1>7, <1>9, <1>10 DEF Laid
<1> QED BY <1>6, <1>11

\* Another line of the paragraph that is open.
LEMMA LaidExtend ==
  ASSUME Lined, NEW n \in 1..Len(lines), NEW off \in Nat, NEW next \in Nat, NEW end \in Nat,
         end \in Boundaries, off <= end, end <= next, n < Len(lines) => end < next,
         NEW bs \in Seq(Passages), NEW p \in Passages, Laid(Append(bs, p), off, n - 1),
         NEW q \in Passages, q.start = p.start, q.end = end, q.path = p.path, q.line = p.line
  PROVE  Laid(Append(bs, q), next, n)
<1>1. Laid(Append(bs, p), next, n)
  <2>1. off <= next
    OBVIOUS
  <2> QED BY <2>1, LaidOn
<1>2. PICK m \in Nat : m = Len(bs)
  OBVIOUS
<1>3. PICK old : old = Append(bs, p)
  OBVIOUS
<1>4. /\ old \in Seq(Passages) /\ Len(old) = m + 1
      /\ \A i \in 1..m : old[i] = bs[i]
      /\ old[m + 1] = p
  BY <1>2, <1>3, AppendProperties
<1>5. PICK new : new = Append(bs, q)
  OBVIOUS
<1>6. /\ new \in Seq(Passages) /\ Len(new) = m + 1
      /\ \A i \in 1..m : new[i] = bs[i]
      /\ new[m + 1] = q
  BY <1>2, <1>5, AppendProperties
<1>7. /\ Apart(old)
      /\ \A i \in 1..(m + 1) : /\ Placed(old[i], next, n) /\ Chain(old[i].path, old[i].line)
                               /\ n < Len(lines) => old[i].end < next
  BY <1>1, <1>3, <1>4 DEF Laid
<1>8. Placed(q, next, n) /\ Chain(q.path, q.line)
  <2>1. m + 1 \in 1..(m + 1)
    OBVIOUS
  <2>2. Placed(p, next, n) /\ Chain(p.path, p.line)
    BY <1>4, <1>7, <2>1
  <2>3. Placed(p, off, n - 1)
    BY <1>3, <1>4, <2>1 DEF Laid
  <2>4. p.start < p.end /\ p.end <= off /\ p.start \in Nat /\ p.end \in Nat
    BY <2>3 DEF Placed, Passages
  <2>5. q.start < q.end
    BY <2>4
  <2> QED BY <2>2, <2>5 DEF Placed
<1>9. ASSUME NEW i \in 1..Len(new)
      PROVE  /\ Placed(new[i], next, n) /\ Chain(new[i].path, new[i].line)
             /\ n < Len(lines) => new[i].end < next
  <2>1. CASE i = m + 1
    BY <2>1, <1>6, <1>8
  <2>2. CASE i # m + 1
    <3>1. i \in 1..(m + 1) /\ new[i] = old[i]
      BY <2>2, <1>4, <1>6
    <3> QED BY <1>7, <3>1
  <2> QED BY <2>1, <2>2
<1>10. Apart(new)
  <2> SUFFICES ASSUME NEW i \in 1..Len(new), NEW j \in 1..Len(new), i < j
               PROVE  new[i].end < new[j].start
    BY DEF Apart
  <2>1. i \in 1..m /\ i \in 1..Len(old) /\ j \in 1..Len(old) /\ new[i] = old[i]
    BY <1>4, <1>6
  <2>2. old[i].end < old[j].start
    BY <1>7, <2>1 DEF Apart
  <2>3. new[j].start = old[j].start
    <3>1. CASE j = m + 1
      BY <3>1, <1>4, <1>6
    <3>2. CASE j # m + 1
      <4>1. j \in 1..m
        BY <1>6, <3>2
      <4> QED BY <1>4, <1>6, <4>1
    <3> QED BY <3>1, <3>2
  <2> QED BY <2>1, <2>2, <2>3
<1>11. Laid(new, next, n)
  BY <1>6, <1>9, <1>10 DEF Laid
<1> QED BY <1>5, <1>11

\* A scan goes on to the next line.
LEMMA ScanStep ==
  ASSUME Lined, Scanning(scan), ScanLine
  PROVE  Scanning(scan')
<1>1. PICK s : s = scan
  OBVIOUS
<1>2. /\ s \in [pos : Nat, offset : Nat, headings : Seq(Nat), para : Seq(Passages),
               blocks : Seq(Passages)]
      /\ s.offset = Starts[s.pos - 1]
      /\ Ranked(s.headings, s.pos - 1)
      /\ s.para = <<>> \/ (Len(s.para) = 1 /\ s.para[1].kind = "para")
      /\ Laid(s.blocks \o s.para, s.offset, s.pos - 1)
      /\ s.pos \in 1..Len(lines)
  BY <1>1 DEF Scanning, ScanLine, Lined
<1>3. PICK n \in 1..Len(lines) : n = s.pos
  BY <1>2
<1>4. PICK off \in Nat : off = s.offset
  BY <1>2
<1>5. PICK line : line = lines[n]
  OBVIOUS
<1>6. /\ Total(line.w) \in Nat
      /\ line.w # <<>> => Total(line.w) > 0
      /\ line.e \in 0..2 /\ line.h \in Int
      /\ line.h # -1 => line.w # <<>>
      /\ n < Len(lines) => line.e > 0
  BY <1>5, WidthType DEF Lined
<1>7. PICK end \in Nat : end = off + Total(line.w)
  BY <1>6
<1>8. PICK next \in Nat : next = end + line.e
  BY <1>6
<1>9. /\ off \in Boundaries /\ end \in Boundaries /\ next = Starts[n]
      /\ off <= end /\ end <= next
      /\ n < Len(lines) => end < next
      /\ line.h # -1 => off < end
  <2>1. n - 1 \in 0..Len(lines)
    BY DEF Lined
  <2>2. off \in Boundaries /\ end \in Boundaries
    BY <1>2, <1>3, <1>4, <1>5, <1>7, <2>1, LineBoundaries
  <2>3. Starts[n] = off + Total(line.w) + line.e
    BY <1>2, <1>3, <1>4, <1>5, StartsSteps
  <2>4. next = Starts[n]
    BY <1>7, <1>8, <2>3
  <2>5. PICK t \in Nat : t = Total(line.w)
    BY <1>6
  <2>6. PICK e \in 0..2 : e = line.e
    BY <1>6
  <2>7. end = off + t /\ next = end + e
    BY <1>7, <1>8, <2>5, <2>6
  <2>8. (n < Len(lines) => e > 0) /\ (line.h # -1 => t > 0)
    BY <1>6, <2>5, <2>6
  <2>9. off <= end /\ end <= next /\ (e > 0 => end < next) /\ (t > 0 => off < end)
    BY <2>7
  <2> QED BY <2>2, <2>4, <2>8, <2>9
<1>10. PICK all : all = s.blocks \o s.para
  OBVIOUS
<1>11. Laid(all, off, n - 1) /\ all \in Seq(Passages) /\ Len(lines) \in Nat /\ n \in Nat
  BY <1>2, <1>3, <1>4, <1>10 DEF Laid, Lined
<1>12. Ranked(s.headings, n - 1) /\ s.headings \in Seq(Nat) /\ s.blocks \in Seq(Passages)
       /\ s.para \in Seq(Passages)
  BY <1>2, <1>3
<1>13. PICK f : f = FlushParagraph(s)
  OBVIOUS
<1>14. /\ f = [pos |-> n, offset |-> off, headings |-> s.headings, para |-> <<>>, blocks |-> all]
  BY <1>2, <1>3, <1>4, <1>10, <1>13 DEF FlushParagraph
<1>15. \A hs \in Seq(Nat), para \in Seq(Passages), blocks \in Seq(Passages) :
          /\ Ranked(hs, n)
          /\ para = <<>> \/ (Len(para) = 1 /\ para[1].kind = "para")
          /\ Laid(blocks \o para, next, n)
          => Scanning([pos |-> n + 1, offset |-> next, headings |-> hs, para |-> para,
                       blocks |-> blocks])
  <2> SUFFICES ASSUME NEW hs \in Seq(Nat), NEW para \in Seq(Passages), NEW blocks \in Seq(Passages),
                      Ranked(hs, n), para = <<>> \/ (Len(para) = 1 /\ para[1].kind = "para"),
                      Laid(blocks \o para, next, n)
               PROVE  Scanning([pos |-> n + 1, offset |-> next, headings |-> hs, para |-> para,
                                blocks |-> blocks])
    OBVIOUS
  <2>1. PICK m \in Nat : m = n + 1
    BY <1>11
  <2>2. PICK t : t = [pos |-> m, offset |-> next, headings |-> hs, para |-> para, blocks |-> blocks]
    OBVIOUS
  <2>3. /\ t \in [pos : Nat, offset : Nat, headings : Seq(Nat), para : Seq(Passages),
                  blocks : Seq(Passages)]
        /\ t.pos = m /\ t.offset = next /\ t.headings = hs /\ t.para = para /\ t.blocks = blocks
    BY <2>2
  <2>4. m \in 1..(Len(lines) + 1) /\ m - 1 = n
    BY <1>11, <2>1
  <2>5. Scanning(t)
    BY <1>9, <2>3, <2>4 DEF Scanning
  <2> QED BY <2>1, <2>2, <2>5
<1>a. PICK t : t = CASE Level(line) > 0 -> ScanHeading(s, line, off, end)
                     [] Blank(line) -> FlushParagraph(s)
                     [] OTHER -> ScanProse(s, off, end)
  OBVIOUS
<1>b. scan' = [t EXCEPT !.pos = @ + 1, !.offset = end + line.e]
  BY <1>1, <1>3, <1>4, <1>5, <1>7, <1>a DEF ScanLine
<1>16. /\ Level(line) > 0 => t = ScanHeading(s, line, off, end)
       /\ ~(Level(line) > 0) /\ Blank(line) => t = FlushParagraph(s)
       /\ ~(Level(line) > 0) /\ ~Blank(line) => t = ScanProse(s, off, end)
  <2>1. Level(line) > 0 => ~Blank(line)
    BY <1>6 DEF Level, Blank
  <2> QED BY <1>a, <2>1
<1>17. ASSUME NEW hs, NEW para, NEW blocks,
              t = [pos |-> n, offset |-> off, headings |-> hs, para |-> para, blocks |-> blocks]
       PROVE  scan' = [pos |-> n + 1, offset |-> next, headings |-> hs, para |-> para,
                       blocks |-> blocks]
  <2>1. PICK m : m = n + 1
    OBVIOUS
  <2>2. t.pos + 1 = m /\ end + line.e = next
    BY <1>8, <1>17, <2>1
  <2>3. scan' = [t EXCEPT !.pos = m, !.offset = next]
    BY <1>b, <2>2
  <2> QED BY <1>17, <2>1, <2>3
<1>18. PICK none : none = <<>>
  OBVIOUS
<1>19. none \in Seq(Passages) /\ Len(none) = 0
  BY <1>18
<1>20. CASE Level(line) > 0
  <2>1. PICK l \in Nat \ {0} : l = Level(line)
    BY <1>5, <1>20, LevelType
  <2>2. PICK path : path = Append(IF Len(s.headings) > l - 1 THEN SubSeq(s.headings, 1, l - 1)
                                  ELSE s.headings, n)
    OBVIOUS
  <2>3. Ranked(path, n)
    BY <1>5, <1>12, <2>1, <2>2, RankedHeading
  <2>4. path \in Seq(Nat) /\ Chain(path, n)
    <3>1. path \in Seq(1..n) /\ 1..n \subseteq Nat
      BY <2>3 DEF Ranked
    <3> QED BY <2>3, <3>1, SeqMonotonic DEF Ranked, Chain
  <2>5. PICK b : b = [kind |-> "heading", start |-> off, end |-> end, path |-> path, line |-> n]
    OBVIOUS
  <2>6. /\ b \in Passages /\ b.start = off /\ b.end = end /\ b.path = path /\ b.line = n
    BY <1>11, <2>4, <2>5 DEF Passages
  <2>7. off < end
    BY <1>9, <1>20 DEF Level
  <2>8. Laid(Append(all, b), next, n)
    BY <1>9, <1>11, <2>4, <2>6, <2>7, LaidAppend
  <2>9. t = ScanHeading(s, line, off, end)
    BY <1>16, <1>20
  <2>10. PICK more : more = Append(all, b)
    OBVIOUS
  <2>11. t = [f EXCEPT !.headings = path, !.blocks = more]
    <3>1. t = [f EXCEPT !.headings = path, !.blocks = Append(f.blocks, b)]
      BY <1>3, <1>13, <2>1, <2>2, <2>5, <2>9, Zenon DEF ScanHeading
    <3>2. f.blocks = all
      BY <1>14
    <3> QED BY <2>10, <3>1, <3>2
  <2>12. t = [pos |-> n, offset |-> off, headings |-> path, para |-> none, blocks |-> more]
    BY <1>14, <1>18, <2>11
  <2>13. more \in Seq(Passages) /\ more \o none = more
    BY <1>11, <1>18, <2>6, <2>10, AppendProperties, ConcatEmptySeq
  <2>14. Scanning([pos |-> n + 1, offset |-> next, headings |-> path, para |-> none,
                   blocks |-> more])
    BY <1>15, <1>18, <1>19, <2>3, <2>4, <2>8, <2>10, <2>13
  <2> QED BY <1>17, <2>12, <2>14
<1>21. CASE Level(line) = 0 /\ Blank(line)
  <2>1. t = f
    BY <1>13, <1>16, <1>21
  <2>2. Ranked(s.headings, n)
    BY <1>5, <1>12, <1>21, RankedProse
  <2>3. Laid(all, next, n)
    <3>1. off <= next
      BY <1>9
    <3> QED BY <1>11, <3>1, LaidOn
  <2>4. all \o none = all
    BY <1>11, <1>18, ConcatEmptySeq
  <2>5. Scanning([pos |-> n + 1, offset |-> next, headings |-> s.headings, para |-> none,
                  blocks |-> all])
    BY <1>11, <1>12, <1>15, <1>18, <1>19, <2>2, <2>3, <2>4
  <2> QED BY <1>14, <1>17, <1>18, <2>1, <2>5
<1>22. CASE Level(line) = 0 /\ ~Blank(line)
  <2>1. t = ScanProse(s, off, end) /\ off < end
    BY <1>9, <1>16, <1>22 DEF Blank
  <2>2. Ranked(s.headings, n)
    BY <1>5, <1>12, <1>22, RankedProse
  <2>3. CASE s.para = <<>>
    <3>1. all = s.blocks
      BY <1>10, <1>12, <2>3, ConcatEmptySeq
    <3>2. PICK b : b = [kind |-> "para", start |-> off, end |-> end, path |-> s.headings,
                        line |-> n]
      OBVIOUS
    <3>3. /\ b \in Passages /\ b.start = off /\ b.end = end /\ b.path = s.headings
          /\ b.line = n /\ b.kind = "para"
      BY <1>11, <1>12, <3>2 DEF Passages
    <3>4. PICK para : para = <<b>>
      OBVIOUS
    <3>5. para \in Seq(Passages) /\ Len(para) = 1 /\ para[1] = b
      BY <3>3, <3>4
    <3>6. Chain(s.headings, n)
      BY <2>2 DEF Ranked, Chain
    <3>7. Laid(Append(all, b), next, n)
      BY <1>9, <1>11, <2>1, <3>3, <3>6, LaidAppend
    <3>8. all \o para = Append(all, b)
      BY <1>11, <3>3, <3>4, AppendIsConcat
    <3>9. t = [pos |-> n, offset |-> off, headings |-> s.headings, para |-> para, blocks |-> all]
      <4>1. t = [s EXCEPT !.para = para]
        BY <1>3, <2>1, <2>3, <3>2, <3>4 DEF ScanProse
      <4> QED BY <1>2, <1>3, <1>4, <3>1, <4>1
    <3>10. Scanning([pos |-> n + 1, offset |-> next, headings |-> s.headings, para |-> para,
                     blocks |-> all])
      BY <1>11, <1>12, <1>15, <2>2, <3>3, <3>5, <3>7, <3>8
    <3> QED BY <1>17, <3>9, <3>10
  <2>4. CASE s.para # <<>>
    <3>1. PICK p : p = s.para[1]
      OBVIOUS
    <3>2. p \in Passages /\ p.kind = "para" /\ s.para = <<p>> /\ Len(s.para) = 1
      BY <1>2, <1>12, <2>4, <3>1
    <3>3. all = Append(s.blocks, p)
      BY <1>10, <1>12, <3>2, AppendIsConcat
    <3>4. PICK q : q = [p EXCEPT !.end = end]
      OBVIOUS
    <3>5. /\ q \in Passages /\ q.start = p.start /\ q.end = end /\ q.path = p.path
          /\ q.line = p.line /\ q.kind = "para"
      BY <3>2, <3>4 DEF Passages
    <3>6. PICK para : para = <<q>>
      OBVIOUS
    <3>7. para \in Seq(Passages) /\ Len(para) = 1 /\ para[1] = q
      BY <3>5, <3>6
    <3>8. Laid(Append(s.blocks, q), next, n)
      BY <1>9, <1>11, <1>12, <3>2, <3>3, <3>5, LaidExtend
    <3>9. s.blocks \o para = Append(s.blocks, q)
      BY <1>12, <3>5, <3>6, AppendIsConcat
    <3>10. t = [pos |-> n, offset |-> off, headings |-> s.headings, para |-> para,
                blocks |-> s.blocks]
      <4>1. t = [s EXCEPT !.para[1].end = end]
        BY <2>1, <2>4 DEF ScanProse
      <4>2. [s.para EXCEPT ![1] = q] = para
        BY <3>2, <3>6
      <4>3. t = [s EXCEPT !.para = [s.para EXCEPT ![1] = [s.para[1] EXCEPT !.end = end]]]
        BY <4>1
      <4>4. t = [s EXCEPT !.para = para]
        BY <3>1, <3>4, <4>2, <4>3, Zenon
      <4> QED BY <1>2, <1>3, <1>4, <4>4
    <3>11. Scanning([pos |-> n + 1, offset |-> next, headings |-> s.headings, para |-> para,
                     blocks |-> s.blocks])
      BY <1>12, <1>15, <2>2, <3>5, <3>7, <3>8, <3>9
    <3> QED BY <1>17, <3>10, <3>11
  <2> QED BY <2>3, <2>4
<1>23. Level(line) \in Nat
  BY <1>5, LevelType
<1> QED BY <1>20, <1>21, <1>22, <1>23

\* A step of chunking leaves the text as it is.
LEMMA SameText ==
  ASSUME lines' = lines
  PROVE  /\ Lined <=> Lined'
         /\ Boundaries' = Boundaries
         /\ \A s : Scanning(s) <=> Scanning(s)'
<1>1. Starts' = Starts
  BY DEF Starts
<1>2. Boundaries' = Boundaries
  BY <1>1 DEF Boundaries
<1>3. \A n : HeadingsAbove(n)' = HeadingsAbove(n)
  BY DEF HeadingsAbove
<1>4. \A n : NoRankSkipped(n)' <=> NoRankSkipped(n)
  BY <1>3 DEF NoRankSkipped
<1>5. \A hs, n : Ranked(hs, n) <=> Ranked(hs, n)'
  BY <1>3, <1>4 DEF Ranked
<1>6. \A path, n : Chain(path, n) <=> Chain(path, n)'
  BY <1>3, <1>4 DEF Chain
<1>7. \A b, off, n : Placed(b, off, n) <=> Placed(b, off, n)'
  BY <1>2 DEF Placed
<1>8. \A bs, off, n : Laid(bs, off, n) <=> Laid(bs, off, n)'
  BY <1>6, <1>7 DEF Laid
<1>9. \A s : Scanning(s) <=> Scanning(s)'
  BY <1>1, <1>5, <1>8 DEF Scanning
<1>10. Lined <=> Lined'
  BY DEF Lined
<1> QED BY <1>2, <1>9, <1>10

\* What an operation promises of its chunks is what ChunksTile says.
LEMMA ChunkStep ==
  ASSUME ChunkInv, NEW op \in {"fixed", "recursive", "heading"}, NEW max \in Nat,
         ChunkWith(op, max)
  PROVE  ChunkInv'
<1>1. lines' = lines /\ scan' = scan /\ Scanned /\ Lined /\ Scanning(scan)
  BY DEF ChunkWith, ChunkInv
<1>2. PICK list : list = CASE op = "heading" -> HeadingChunks
                           [] op # "heading" /\ max = 0 -> <<>>
                           [] op = "fixed" /\ max > 0 -> FixedRange(0, TextLength, max, <<>>)
                           [] op = "recursive" /\ max > 0 -> RecursiveChunks(max)
  OBVIOUS
<1>3. /\ op = "heading" => list = HeadingChunks
      /\ op = "fixed" /\ max > 0 => list = FixedRange(0, TextLength, max, <<>>)
      /\ op = "recursive" /\ max > 0 => list = RecursiveChunks(max)
  BY <1>2
<1>4. PICK ok : ok <=> (op = "heading" \/ max > 0)
  OBVIOUS
<1>5. PICK c : c = chunks'
  OBVIOUS
<1>6. c.op = op /\ c.max = max /\ (c.ok <=> ok) /\ c.list = list
  BY <1>2, <1>4, <1>5 DEF ChunkWith
<1>7. Laid(Blocks, scan.offset, scan.pos - 1)
  <2>1. PICK bs : bs = scan.blocks \o scan.para
    OBVIOUS
  <2>2. Laid(bs, scan.offset, scan.pos - 1)
    BY <1>1, <2>1 DEF Scanning
  <2>3. Blocks = bs
    BY <1>1, <2>1 DEF Blocks, FlushParagraph, Scanning
  <2> QED BY <2>2, <2>3
<1>8. TextLength \in Boundaries
  <2>1. scan.offset = Starts[scan.pos - 1] /\ scan.pos - 1 \in 0..Len(lines)
    BY <1>1 DEF Scanning, Lined
  <2> QED BY <1>1, <2>1, LineBoundaries DEF TextLength
<1>9. ASSUME c.ok PROVE Promised(list, op, max)
  <2>1. op = "heading" \/ max > 0
    BY <1>4, <1>6, <1>9
  <2>2. CASE op = "heading"
    BY <1>1, <1>3, <1>7, <1>8, <2>2, HeadingFills
  <2>3. CASE op = "recursive" /\ max > 0
    BY <1>1, <1>3, <1>7, <1>8, <2>3, RecursiveFills
  <2>4. CASE op = "fixed" /\ max > 0
    <3>1. Covers(list, WholeText) /\ Fine(list, op, max)
      BY <1>1, <1>3, <1>8, <2>4, TextFills
    <3> QED BY <2>4, <3>1 DEF Promised
  <2> QED BY <2>1, <2>2, <2>3, <2>4
<1>10. \A k \in 1..(Len(Paragraphs) - 1) : Paragraphs[k].end < Paragraphs[k + 1].start
  <2>1. PICK ps : ps = Paragraphs
    OBVIOUS
  <2>2. ps \in Seq(Passages) /\ Apart(ps)
    BY <1>7, <2>1, ParagraphsApart
  <2>3. ASSUME NEW k \in 1..(Len(ps) - 1) PROVE ps[k].end < ps[k + 1].start
    <3>1. k \in 1..Len(ps) /\ k + 1 \in 1..Len(ps) /\ k < k + 1
      BY <2>2
    <3> QED BY <2>2, <3>1 DEF Apart
  <2> QED BY <2>1, <2>3
<1>11. /\ Boundaries' = Boundaries /\ Paragraphs' = Paragraphs /\ TextLength' = TextLength
       /\ Lined' /\ Scanning(scan)'
  <2>1. Boundaries' = Boundaries /\ Lined'
    BY <1>1, SameText
  <2>2. Scanning(scan)'
    <3>1. PICK s : s = scan
      OBVIOUS
    <3>2. Scanning(s)'
      BY <1>1, <3>1, SameText
    <3> QED BY <1>1, <3>1, <3>2 DEF Scanning
  <2>3. TextLength' = TextLength
    BY <1>1 DEF TextLength
  <2>4. Blocks' = Blocks
    BY <1>1 DEF Blocks
  <2>5. Paragraphs' = Paragraphs
    BY <2>4 DEF Paragraphs
  <2> QED BY <2>1, <2>2, <2>3, <2>5
<1>12. Scanned'
  BY <1>1 DEF Scanned
<1>13. ChunksTile'
  <2> SUFFICES ASSUME c.ok
               PROVE  /\ \A i \in 1..Len(list) :
                           /\ list[i].start < list[i].end
                           /\ {list[i].start, list[i].end} \subseteq Boundaries
                           /\ op # "heading" =>
                                \/ list[i].end - list[i].start <= max
                                \/ ~ \E x \in Boundaries : list[i].start < x /\ x < list[i].end
                      /\ Covers(list, IF op = "fixed" \/ Paragraphs = <<>> THEN WholeText
                                      ELSE Paragraphs)
                      /\ \A k \in 1..(Len(Paragraphs) - 1) :
                            Paragraphs[k].end < Paragraphs[k + 1].start
    BY <1>5, <1>6, <1>11 DEF ChunksTile, WholeText
  <2>1. Fine(list, op, max)
        /\ Covers(list, IF op = "fixed" \/ Paragraphs = <<>> THEN WholeText ELSE Paragraphs)
    BY <1>9 DEF Promised
  <2>2. \A i \in 1..Len(list) :
           /\ list[i].start < list[i].end
           /\ {list[i].start, list[i].end} \subseteq Boundaries
           /\ op # "heading" =>
                \/ list[i].end - list[i].start <= max
                \/ ~ \E x \in Boundaries : list[i].start < x /\ x < list[i].end
    BY <2>1 DEF Fine, Small
  <2> QED BY <1>10, <2>1, <2>2
<1> QED BY <1>11, <1>12, <1>13 DEF ChunkInv

\* Chunking starts with nothing scanned.
LEMMA ChunkStart ==
  ASSUME Lined, scan = NewScan, chunks = NoChunks
  PROVE  ChunkInv
<1>1. PICK e : e = <<>>
  OBVIOUS
<1>2. e \in Seq(Passages) /\ e \in Seq(Nat) /\ e \in Seq(1..0) /\ Len(e) = 0
  BY <1>1
<1>3. scan = [pos |-> 1, offset |-> 0, headings |-> e, para |-> e, blocks |-> e]
  BY <1>1 DEF NewScan
<1>4. /\ scan \in [pos : Nat, offset : Nat, headings : Seq(Nat), para : Seq(Passages),
                  blocks : Seq(Passages)]
      /\ scan.pos = 1 /\ scan.offset = 0 /\ scan.headings = e /\ scan.para = e
      /\ scan.blocks = e
  BY <1>2, <1>3
<1>5. Ranked(e, 0)
  <2>1. HeadingsAbove(0) = {}
    BY DEF HeadingsAbove
  <2>2. Range(e) = {}
    <3>1. DOMAIN e = {}
      BY <1>2
    <3> QED BY <3>1 DEF Range
  <2> QED BY <1>2, <2>1, <2>2 DEF Ranked
<1>6. e \o e = e
  BY <1>1, <1>2, ConcatEmptySeq
<1>7. Laid(e, 0, 0)
  BY <1>2 DEF Laid, Apart
<1>8. Scanning(scan)
  <2>1. 1 \in 1..(Len(lines) + 1) /\ 1 - 1 = 0 /\ Starts[0] = 0
    BY StartsSteps DEF Lined
  <2> QED BY <1>1, <1>4, <1>5, <1>6, <1>7, <2>1 DEF Scanning
<1>9. chunks.op = "none"
  BY DEF NoChunks
<1> QED BY <1>8, <1>9 DEF ChunkInv, ChunksTile

\* The invariant of chunking; a session with a markup document does none.
THEOREM ChunkInvariant == Spec => []ChunkInv
<1>1. Init => ChunkInv
  <2>1. ASSUME StartSession PROVE ChunkInv
    <3>1. PICK e : e = <<>>
      OBVIOUS
    <3>2. e \in Seq(LineRecords) /\ Len(e) = 0
      BY <3>1
    <3>3. Lined
      BY <2>1, <3>1, <3>2 DEF StartSession, Lined
    <3> QED BY <2>1, <3>3, ChunkStart DEF StartSession
  <2>2. ASSUME StartChunking PROVE ChunkInv
    <3>1. lines \in Documents /\ scan = NewScan /\ chunks = NoChunks
      BY <2>2 DEF StartChunking, ChunkInit
    <3>2. Lined
      <4>1. lines \in Seq(LineRecords)
        BY <3>1, DocumentsAssumption DEF LineRecords
      <4>2. DOMAIN lines = 1..Len(lines)
        BY <4>1
      <4>3. \A i \in DOMAIN lines : /\ lines[i].h # -1 => lines[i].w # <<>>
                                    /\ i < Len(lines) => lines[i].e > 0
        BY <3>1, DocumentsAssumption
      <4> QED BY <4>1, <4>2, <4>3 DEF Lined
    <3> QED BY <3>1, <3>2, ChunkStart
  <2> QED BY <2>1, <2>2 DEF Init
<1>2. ChunkInv /\ [Next]_vars => ChunkInv'
  <2> SUFFICES ASSUME ChunkInv, [Next]_vars PROVE ChunkInv'
    OBVIOUS
  <2>1. CASE UNCHANGED chunkVars
    <3>1. lines' = lines /\ scan' = scan /\ chunks' = chunks
      BY <2>1 DEF chunkVars
    <3>2. Scanning(scan)' /\ Lined' /\ Boundaries' = Boundaries
      <4>1. PICK s : s = scan
        OBVIOUS
      <4>2. Scanning(s)' /\ Lined' /\ Boundaries' = Boundaries
        BY <3>1, <4>1, SameText DEF ChunkInv
      <4> QED BY <3>1, <4>1, <4>2 DEF Scanning
    <3>3. Blocks' = Blocks /\ TextLength' = TextLength /\ (Scanned' <=> Scanned)
      BY <3>1 DEF Blocks, TextLength, Scanned
    <3>4. Paragraphs' = Paragraphs
      BY <3>3 DEF Paragraphs
    <3>5. ChunksTile' <=> ChunksTile
      BY <3>1, <3>2, <3>3, <3>4 DEF ChunksTile
    <3> QED BY <3>1, <3>2, <3>3, <3>5 DEF ChunkInv
  <2>2. CASE ScanLine
    <3>1. lines' = lines /\ chunks' = chunks /\ ~Scanned
      BY <2>2, SMT DEF ScanLine, Scanned, ChunkInv, Scanning, Lined
    <3>2. chunks.op = "none"
      BY <3>1 DEF ChunkInv
    <3>3. Scanning(scan')
      BY <2>2, ScanStep DEF ChunkInv
    <3>4. Scanning(scan)' /\ Lined'
      <4>1. PICK s : s = scan'
        OBVIOUS
      <4>2. Scanning(s)' /\ Lined'
        BY <3>1, <3>3, <4>1, SameText DEF ChunkInv
      <4> QED BY <4>1, <4>2 DEF Scanning
    <3> QED BY <3>1, <3>2, <3>4 DEF ChunkInv, ChunksTile
  <2>3. ASSUME NEW max \in 0..MaxSize, ChunkWith("fixed", max) PROVE ChunkInv'
    BY <2>3, ChunkStep, DocumentsAssumption
  <2>4. ASSUME NEW max \in 0..MaxSize, ChunkWith("recursive", max) PROVE ChunkInv'
    BY <2>4, ChunkStep, DocumentsAssumption
  <2>5. CASE ChunkWith("heading", 0)
    BY <2>5, ChunkStep
  <2> QED BY <2>1, <2>2, <2>3, <2>4, <2>5 DEF Next, ChunkNext, vars, chunkVars
<1> QED BY <1>1, <1>2, PTL DEF Spec

\* Chunks are cut between characters, are no larger than asked for unless
\* they are a single character, and cover the text or its paragraphs, for
\* every text and every size (fixed_range, recursive_chunks, heading_chunks).
THEOREM TilesTheorem == Spec => []ChunksTile
<1>1. ChunkInv => ChunksTile
  BY DEF ChunkInv
<1> QED BY <1>1, ChunkInvariant, PTL

\* The path of a block is the chain of the headings above it wherever no
\* rank was skipped, for every text (decode_document).
THEOREM PathsTheorem == Spec => []PathsFollowHeadings
<1>1. ASSUME ChunkInv PROVE PathsFollowHeadings
  <2>1. PICK bs : bs = scan.blocks \o scan.para
    OBVIOUS
  <2>2. Laid(bs, scan.offset, scan.pos - 1)
    BY <1>1, <2>1 DEF Scanning, ChunkInv
  <2>3. Blocks = bs
    BY <1>1, <2>1 DEF Blocks, FlushParagraph, Scanning, ChunkInv
  <2>4. \A i \in 1..Len(bs) : Chain(bs[i].path, bs[i].line)
    BY <2>2 DEF Laid
  <2> QED BY <2>3, <2>4 DEF Chain, PathsFollowHeadings
<1> QED BY <1>1, ChunkInvariant, PTL
=============================================================================
