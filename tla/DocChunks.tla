----------------------------- MODULE DocChunks -----------------------------
(***************************************************************************)
(* The plain document reader and the chunking functions: a text is scanned *)
(* line by line into headings and paragraphs, each with the path of        *)
(* headings above it, and then cut into chunks that never split a          *)
(* character.                                                              *)
(*                                                                         *)
(* A line is [h, w, e]: h its number signs (0 for prose, -1 for a blank    *)
(* line), w the widths in bytes of its characters, e those of its end      *)
(* (1 for a line feed, 2 with a carriage return, 0 at the end of a text).  *)
(***************************************************************************)
EXTENDS Integers, Sequences, SequencesExt, Lists

CONSTANTS Documents,   \* sequences of lines
          MaxSize      \* the largest chunk size asked for

\* A character has a width, a line of prose a character, and only the last
\* line may lack an end.
ASSUME DocumentsAssumption ==
    /\ MaxSize \in Nat
    /\ \A d \in Documents :
          /\ d \in Seq([h : Int, w : Seq(Nat \ {0}), e : 0..2])
          /\ \A i \in DOMAIN d :
                /\ d[i].h # -1 => d[i].w # <<>>
                /\ i < Len(d) => d[i].e > 0

VARIABLES lines,   \* the text
          scan,    \* pos, offset, headings, para, blocks
          chunks   \* the chunks last asked for: op, max, list, ok

chunkVars == <<lines, scan, chunks>>

\* A line is a heading when it has one to six number signs.
Level(line) == IF line.h \in 1..6 THEN line.h ELSE 0
Blank(line) == line.h = -1

NewScan == [pos |-> 1, offset |-> 0, headings |-> <<>>, para |-> <<>>, blocks |-> <<>>]
NoChunks == [op |-> "none", max |-> 0, list |-> <<>>, ok |-> TRUE]

ChunkInit == lines \in Documents /\ scan = NewScan /\ chunks = NoChunks

FlushParagraph(s) == [s EXCEPT !.blocks = @ \o s.para, !.para = <<>>]

\* Mutant: a heading of the same rank stays above the next one.
ScanHeadingKeeps(s, line, start, end) ==
    LET path == Append(IF Len(s.headings) > Level(line) THEN SubSeq(s.headings, 1, Level(line))
                       ELSE s.headings, s.pos)
    IN [FlushParagraph(s) EXCEPT
           !.headings = path,
           !.blocks = Append(@, [kind |-> "heading", start |-> start, end |-> end,
                                 path |-> path, line |-> s.pos])]

\* As many headings stay above a heading as its level leaves room for; a
\* heading is known by its line.
ScanHeading(s, line, start, end) ==
    LET room == Level(line) - 1
        path == Append(IF Len(s.headings) > room THEN SubSeq(s.headings, 1, room)
                       ELSE s.headings, s.pos)
    IN [FlushParagraph(s) EXCEPT
           !.headings = path,
           !.blocks = Append(@, [kind |-> "heading", start |-> start, end |-> end,
                                 path |-> path, line |-> s.pos])]

\* A line of prose opens a paragraph or extends the one that is open.
ScanProse(s, start, end) ==
    IF s.para # <<>> THEN [s EXCEPT !.para[1].end = end]
    ELSE [s EXCEPT !.para = <<[kind |-> "para", start |-> start, end |-> end,
                               path |-> s.headings, line |-> s.pos]>>]

ScanLine ==
    /\ scan.pos <= Len(lines)
    /\ LET line == lines[scan.pos]
           end == scan.offset + Total(line.w)
           s == CASE Level(line) > 0 -> ScanHeading(scan, line, scan.offset, end)
                  [] Blank(line) -> FlushParagraph(scan)
                  [] OTHER -> ScanProse(scan, scan.offset, end)
       IN scan' = [s EXCEPT !.pos = @ + 1, !.offset = end + line.e]
    /\ UNCHANGED <<lines, chunks>>

Scanned == scan.pos > Len(lines)
Blocks == FlushParagraph(scan).blocks
Paragraphs == Only(Blocks, {b \in Range(Blocks) : b.kind = "para"})
TextLength == scan.offset

\* Where the lines begin, the end of the text at last.
Starts == Sums([i \in DOMAIN lines |-> Total(lines[i].w) + lines[i].e])

\* The offsets at which a character of the text begins, and its end.
Boundaries ==
    {0} \cup UNION {{Starts[i - 1] + Sums(lines[i].w)[n] : n \in 0..Len(lines[i].w)}
                      \cup {Starts[i - 1] + Total(lines[i].w) + n : n \in 0..lines[i].e} :
                     i \in DOMAIN lines}

Chunk(start, end, path) == [start |-> start, end |-> end, path |-> path]

\* Mutant: a chunk ends after max bytes, wherever that is.
CutAnywhere(c, end, max) == IF c + max < end THEN c + max ELSE end

\* The end of the chunk that starts at c: the last boundary within max
\* bytes, or the end of a character that is wider than that.
CutAfter(c, end, max) ==
    LET reach == IF c + max < end THEN c + max ELSE end
        within == {x \in Boundaries : c < x /\ x <= reach}
        beyond == {x \in Boundaries : c < x}
    IN IF within # {} THEN CHOOSE x \in within : \A y \in within : y <= x
       ELSE LET next == CHOOSE x \in beyond : \A y \in beyond : x <= y
            IN IF next < end THEN next ELSE end

\* A cursor goes from start to end, chunk by chunk; every chunk takes it on.
Advance(w, end, max, path) ==
    IF w.at >= end THEN w
    ELSE LET next == CutAfter(w.at, end, max)
         IN [at |-> next, list |-> Append(w.list, Chunk(w.at, next, path))]

FixedRange(start, end, max, path) ==
    LET walk[n \in 0..(end - start)] ==
            IF n = 0 THEN [at |-> start, list |-> <<>>]
            ELSE Advance(walk[n - 1], end, max, path)
    IN IF start >= end THEN <<>> ELSE walk[end - start].list

Whole(b) == <<Chunk(b.start, b.end, b.path)>>

RecursiveChunks(max) ==
    LET cut(b) == IF b.end - b.start <= max THEN Whole(b)
                  ELSE FixedRange(b.start, b.end, max, b.path)
    IN IF Paragraphs = <<>> THEN FixedRange(0, TextLength, max, <<>>)
       ELSE Flat([i \in DOMAIN Paragraphs |-> cut(Paragraphs[i])])

HeadingChunks ==
    CASE Paragraphs # <<>> -> Flat([i \in DOMAIN Paragraphs |-> Whole(Paragraphs[i])])
      [] Paragraphs = <<>> /\ TextLength > 0 -> <<Chunk(0, TextLength, <<>>)>>
      [] OTHER -> <<>>

\* The three chunking functions; two of them want a size that is not zero.
ChunkWith(op, max) ==
    /\ Scanned
    /\ chunks' = [op |-> op, max |-> max, ok |-> op = "heading" \/ max > 0,
                  list |-> CASE op = "heading" -> HeadingChunks
                             [] op # "heading" /\ max = 0 -> <<>>
                             [] op = "fixed" /\ max > 0 -> FixedRange(0, TextLength, max, <<>>)
                             [] op = "recursive" /\ max > 0 -> RecursiveChunks(max)]
    /\ UNCHANGED <<lines, scan>>

ChunkNext ==
    \/ ScanLine
    \/ \E max \in 0..MaxSize : ChunkWith("fixed", max) \/ ChunkWith("recursive", max)
    \/ ChunkWith("heading", 0)

(***************************************************************************)
(* Properties.                                                             *)
(***************************************************************************)

\* Chunks that cover the spans from end to end, in order, each chunk inside
\* one of them and under the headings it is under.
Covers(list, spans) ==
    /\ list = <<>> <=> spans = <<>>
    /\ list # <<>> => list[1].start = spans[1].start /\ Last(list).end = Last(spans).end
    /\ \A i \in 1..(Len(list) - 1) :
          \/ list[i].end = list[i + 1].start
          \/ \E k \in 1..(Len(spans) - 1) :
                list[i].end = spans[k].end /\ list[i + 1].start = spans[k + 1].start
    /\ \A i \in 1..Len(list) : \E k \in 1..Len(spans) :
          /\ spans[k].start <= list[i].start /\ list[i].end <= spans[k].end
          /\ list[i].path = spans[k].path

\* Chunks are cut between characters, are no larger than asked for unless
\* they are a single character, and lose nothing: fixed ones cover the text,
\* the others the paragraphs, which do not touch.
ChunksTile ==
    LET list == chunks.list
        whole == IF TextLength > 0 THEN <<Chunk(0, TextLength, <<>>)>> ELSE <<>>
    IN chunks.op # "none" /\ chunks.ok =>
         /\ \A i \in 1..Len(list) :
               /\ list[i].start < list[i].end
               /\ {list[i].start, list[i].end} \subseteq Boundaries
               /\ chunks.op # "heading" =>
                    \/ list[i].end - list[i].start <= chunks.max
                    \/ ~ \E x \in Boundaries : list[i].start < x /\ x < list[i].end
         /\ Covers(list, IF chunks.op = "fixed" \/ Paragraphs = <<>> THEN whole ELSE Paragraphs)
         /\ \A k \in 1..(Len(Paragraphs) - 1) : Paragraphs[k].end < Paragraphs[k + 1].start

\* The headings line n is under, and itself if it is one: those that no later
\* heading of the same or a higher rank has closed.
HeadingsAbove(n) ==
    {i \in 1..n : /\ Level(lines[i]) > 0
                  /\ \A j \in (i + 1)..n :
                        Level(lines[j]) > 0 => Level(lines[j]) > Level(lines[i])}

\* No heading up to line n is more than one rank below the one above it.
NoRankSkipped(n) ==
    \A i \in 1..n : Level(lines[i]) > 0 =>
        \/ Level(lines[i]) = 1
        \/ \E j \in HeadingsAbove(i) : Level(lines[j]) = Level(lines[i]) - 1

\* The path of a block is the chain of the headings above it wherever no
\* rank was skipped before it (the chain is cut by its length, not by the
\* ranks of the headings in it).
PathsFollowHeadings ==
    \A i \in 1..Len(Blocks) :
       NoRankSkipped(Blocks[i].line) =>
          /\ Range(Blocks[i].path) = HeadingsAbove(Blocks[i].line)
          /\ \A k \in 1..(Len(Blocks[i].path) - 1) : Blocks[i].path[k] < Blocks[i].path[k + 1]
=============================================================================
