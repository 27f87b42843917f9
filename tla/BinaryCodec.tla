---------------------------- MODULE BinaryCodec ----------------------------
(***************************************************************************)
(* The writer of SLB8 frames, the located trees it writes, and what reader *)
(* and writer promise together: round trips within the limits, and the     *)
(* strict decode that binds a value to one byte sequence.                  *)
(*                                                                         *)
(* A located tree is a Value with an `origin' field, <<>> or <<origin>>.   *)
(* A program writes a tree on a lane; the frame that arrives is the one it *)
(* wrote, or a foreign one; what was read from a foreign frame may be      *)
(* written again and read back.                                            *)
(***************************************************************************)
EXTENDS BinaryReader, SequencesExt, TLC

CONSTANTS
  Trees,      \* the located trees that are written
  Mangled(_)  \* what a broken or hostile peer may make of a frame

VARIABLES
  tree, lane,  \* what the frame was written from
  from         \* "writer", "foreign" or "recoded"

cvars == <<vars, tree, lane, from>>

Lanes == {"Bare", "Located", "LocatedTree"}
LaneFlag(l) == CASE l = "Bare" -> 0 [] l = "Located" -> 1 [] l = "LocatedTree" -> 2

-----------------------------------------------------------------------------
\* Some total order on values, for canonical_key and the BTreeSets.
RECURSIVE Less(_, _)
Less(s, t) ==
  /\ t # <<>>
  /\ s = <<>> \/ Head(s) < Head(t) \/ (Head(s) = Head(t) /\ Less(Tail(s), Tail(t)))

TagByte(tag) == CHOOSE i \in 0..(Len(Tags) - 1) : Tags[i + 1] = tag

RECURSIVE Key(_)
Key(v) ==
  <<IF IsExpr(v) THEN TagByte(v.tag) ELSE Len(Tags), Len(v.text)>>
    \o v.text \o <<Len(v.kids)>> \o FlattenSeq([i \in 1..Len(v.kids) |-> Key(v.kids[i])])

Sorted(S) == SetToSortSeq(S, LAMBDA a, b : Less(Key(a), Key(b)))

\* sort_by_key is stable: equal keys keep their order.
SortedBy(s, key(_)) ==
  LET n == Len(s)
      Before(i, j) == Less(key(s[i]), key(s[j])) \/ (key(s[i]) = key(s[j]) /\ i < j)
      order == SetToSortSeq(1..n, Before)
  IN  [k \in 1..n |-> s[order[k]]]

-----------------------------------------------------------------------------
\* Located trees.
RECURSIVE ExprOf(_)
ExprOf(t) ==
  IF IsExpr(t) THEN Value(t.tag, t.text, [i \in 1..Len(t.kids) |-> ExprOf(t.kids[i])])
  ELSE t

\* A part of an expression that is neither: symbol, text, mode.
Parts(t) == SelectSeq(t.kids, IsExpr)

Pairs(s) == [i \in 1..(Len(s) \div 2) |-> <<s[2 * i - 1], s[2 * i]>>]
PairKey(p) == Key(ExprOf(p[1])) \o Key(ExprOf(p[2]))

\* canonicalize_origin_tree: maps and sets in canonical order, each node
\* with its origin.
RECURSIVE Canonical(_)
Canonical(t) ==
  LET kids == [i \in 1..Len(t.kids) |->
                 IF IsExpr(t.kids[i]) THEN Canonical(t.kids[i]) ELSE t.kids[i]]
  IN  [t EXCEPT !.kids =
         CASE t.tag = "Set" -> SortedBy(kids, LAMBDA k : Key(ExprOf(k)))
           [] t.tag = "Map" -> FlattenSeq(SortedBy(Pairs(kids), PairKey))
           [] OTHER -> kids]

\* The origins of a tree in preorder, as read_origin_tree finds them.
RECURSIVE Origins(_)
Origins(t) ==
  <<IF t.origin = <<>> THEN Nothing ELSE t.origin[1]>>
    \o FlattenSeq([i \in 1..Len(Parts(t)) |-> Origins(Parts(t)[i])])

-----------------------------------------------------------------------------
\* FrameTables::collect.
RECURSIVE Named(_, _)
Named(v, domain) ==
  UNION {IF IsExpr(v.kids[i]) THEN Named(v.kids[i], domain)
         ELSE IF v.kids[i].tag = "name" /\ (v.tag = "Number") = domain
         THEN {v.kids[i]} ELSE {} : i \in 1..Len(v.kids)}

Collect(expr) ==
  LET symbols == Named(expr, FALSE)
      domains == Named(expr, TRUE)
  IN  [libs |-> Sorted(UNION {ToSet(s.kids) : s \in symbols \cup domains}),
       symbols |-> Sorted(symbols), domains |-> Sorted(domains)]

\* The number of entries of a counted expression.
CountedTags == {"List", "Vector", "Set", "Block", "Map", "Call", "Annotated"}
Width(v) ==
  CASE v.tag = "Map" -> Len(v.kids) \div 2
    [] v.tag = "Call" -> Len(v.kids) - 1
    [] v.tag = "Annotated" -> (Len(v.kids) - 1) \div 2
    [] OTHER -> Len(v.kids)

IndexIn(table, v) == CHOOSE i \in 0..(Len(table) - 1) : table[i + 1] = v

-----------------------------------------------------------------------------
\* BinaryWriter: one unit per byte and per integer, in shortest form.
WriteText(v) == <<Len(v.text)>> \o v.text

WriteSymbol(libs, v) ==
  <<IF v.kids = <<>> THEN 0 ELSE IndexIn(libs, v.kids[1]) + 1>> \o WriteText(v)

WriteHeader(flag, tab) ==
  <<Magic, Version, flag>>
    \o <<Len(tab.libs)>>
    \o FlattenSeq([i \in 1..Len(tab.libs) |-> WriteText(tab.libs[i])])
    \o <<Len(tab.symbols)>>
    \o FlattenSeq([i \in 1..Len(tab.symbols) |-> WriteSymbol(tab.libs, tab.symbols[i])])
    \o <<Len(tab.domains)>>
    \o FlattenSeq([i \in 1..Len(tab.domains) |-> WriteSymbol(tab.libs, tab.domains[i])])

\* write_expr, of an expression in the order it is written in.
RECURSIVE WriteExpr(_, _)
WriteExpr(v, tab) ==
  LET kids == [i \in 1..Len(v.kids) |->
        LET k == v.kids[i]
        IN  CASE IsExpr(k) -> WriteExpr(k, tab)
              [] k.tag = "text" -> WriteText(k)
              [] k.tag = "mode" -> k.text
              [] k.tag = "name" ->
                   <<IndexIn(IF v.tag = "Number" THEN tab.domains ELSE tab.symbols, k)>>]
      ahead == IF v.tag \in {"Call", "Annotated"} THEN 1 ELSE 0
  IN  <<TagByte(v.tag)>> \o FlattenSeq(SubSeq(kids, 1, ahead))
        \o (IF v.tag \in CountedTags THEN <<Width(v)>> ELSE <<>>)
        \o FlattenSeq(SubSeq(kids, ahead + 1, Len(kids)))

WriteOrigin(o) ==
  o.kids[1].text \o WriteText(o.kids[2]) \o o.kids[3].text \o o.kids[4].text
    \o <<(Len(o.kids) - 4) \div 2>>
    \o FlattenSeq([i \in 1..(Len(o.kids) - 4) |->
         IF i % 2 = 1 THEN o.kids[i + 4].text ELSE WriteText(o.kids[i + 4])])

WriteOrigins(os) ==
  FlattenSeq([i \in 1..Len(os) |->
    IF os[i] = Nothing THEN <<0>> ELSE <<1>> \o WriteOrigin(os[i])])

\* The frame for tree t, in the order it is in and with the tables given.
FrameOf(t, l, tab) ==
  LET flag == IF l = "Located" /\ t.origin = <<>> THEN 0 ELSE LaneFlag(l)
  IN  WriteHeader(flag, tab) \o WriteExpr(ExprOf(t), tab)
        \o CASE flag = FlagOrigin -> WriteOrigin(t.origin[1])
             [] flag = FlagTreeOrigin -> WriteOrigins(Origins(t))
             [] OTHER -> <<>>

\* Mutants: number domains are entered in the symbol table as well; the body is
\* sorted, the origins keep the order of the source.
EncodeShared(t, l) ==
  LET expr == ExprOf(t)
      own  == Collect(expr)
  IN  FrameOf(Canonical(t), l,
              [own EXCEPT !.symbols = Sorted(Named(expr, FALSE) \cup Named(expr, TRUE))])

EncodeUnmoved(t, l) ==
  LET tab  == Collect(ExprOf(t))
      flag == IF l = "Located" /\ t.origin = <<>> THEN 0 ELSE LaneFlag(l)
  IN  [FrameOf(Canonical(t), "Bare", tab) EXCEPT ![3] = flag]
        \o CASE flag = FlagOrigin -> WriteOrigin(t.origin[1])
             [] flag = FlagTreeOrigin -> WriteOrigins(Origins(t))
             [] OTHER -> <<>>

\* encode_frame, encode_located_frame, encode_located_tree_frame: maps and
\* sets are sorted, the tables hold what is used, in order.
Encode(t, l) == FrameOf(Canonical(t), l, Collect(ExprOf(t)))

\* What another writer may make of the same tree: unsorted, with tables that
\* are reversed, or hold unused or repeated entries.
OtherTables(tab) ==
  {tab, [tab EXCEPT !.symbols = Reverse(@), !.libs = Reverse(@)],
   [tab EXCEPT !.libs = Append(@, Value("text", <<9>>, <<>>))],
   [tab EXCEPT !.symbols = @ \o @, !.domains = @ \o @]}

\* And with both origin flags set, and both payloads there.
BothOrigins(t, tab) ==
  [FrameOf(t, "LocatedTree", tab) EXCEPT ![3] = FlagOrigin + FlagTreeOrigin]
    \o FlattenSeq([i \in 1..Len(t.origin) |-> WriteOrigin(t.origin[i])])

Rewritten(t, l) ==
  UNION {{FrameOf(t, l, tab), BothOrigins(t, tab)} :
           tab \in OtherTables(Collect(ExprOf(t)))}

-----------------------------------------------------------------------------
\* The tree a finished reader returns.
Body == stack[1].kids[1]
Payload == Tail(stack[1].kids)  \* origins: preorder, then the root's own

Max2(m, n) == IF m > n THEN m ELSE n

RECURSIVE Size(_), Located(_, _)
Size(v) == 1 + FoldLeft(+, 0, [i \in 1..Len(Parts(v)) |-> Size(Parts(v)[i])])

\* v with the origins os[1..Size(v)] attached in preorder.
Located(v, os) ==
  LET RECURSIVE Attach(_, _)
      Attach(kids, rest) ==
        IF kids = <<>> THEN <<>>
        ELSE IF ~IsExpr(Head(kids)) THEN <<Head(kids)>> \o Attach(Tail(kids), rest)
        ELSE <<Located(Head(kids), rest)>>
               \o Attach(Tail(kids), SubSeq(rest, Size(Head(kids)) + 1, Len(rest)))
  IN  [tag |-> v.tag, text |-> v.text, kids |-> Attach(v.kids, Tail(os)),
       origin |-> IF os[1] = Nothing THEN <<>> ELSE <<os[1]>>]

Unlocated(v) == Located(v, [i \in 1..Size(v) |-> Nothing])

Decoded ==
  LET n == Size(Body)
      t == IF flags >= FlagTreeOrigin THEN Located(Body, SubSeq(Payload, 1, n))
           ELSE Unlocated(Body)
  IN  IF flags % 2 = 1 THEN [t EXCEPT !.origin = <<Last(Payload)>>] ELSE t

\* Mutant: the bytes are not compared.
StrictAcceptsAny(l) == pc = "done" /\ flags = LaneFlag(l)

\* decode_canonical_located_tree_frame_with_limits for the expected lane l.
StrictAccepts(l) ==
  /\ pc = "done"
  /\ flags = LaneFlag(l)
  /\ Encode(Decoded, l) = frame

-----------------------------------------------------------------------------
CodecInit ==
  /\ tree \in Trees
  /\ lane \in Lanes
  /\ LET own == Encode(tree, lane)
     IN  \/ frame = own /\ from = "writer"
         \/ frame \in (Rewritten(tree, lane) \cup Mangled(own)) \ {own} /\ from = "foreign"
  /\ Idle

\* What was read is written again, with all the origins it has, and read back.
Recode ==
  /\ pc = "done" /\ from = "foreign"
  /\ tree' = Decoded
  /\ lane' = CASE flags = 0 -> "Bare" [] flags = 1 -> "Located" [] OTHER -> "LocatedTree"
  /\ frame' = Encode(tree', lane')
  /\ from' = "recoded"
  /\ index' = 0 /\ nodes' = 0 /\ flags' = 0 /\ tables' = NoTables
  /\ stack' = <<>> /\ pc' = "open"
  /\ UNCHANGED limits

CodecNext == (Next /\ UNCHANGED <<tree, lane, from>>) \/ Recode

\* The reader runs; nobody has to write anything again.
CodecSpec == CodecInit /\ [][CodecNext]_cvars /\ WF_cvars(Step /\ UNCHANGED <<tree, lane, from>>)

-----------------------------------------------------------------------------
\* What the lane keeps of the tree that was written.
Kept(t, l) ==
  LET c == Canonical(t)
  IN  CASE l = "LocatedTree" -> c
        [] l = "Located" -> [Unlocated(ExprOf(c)) EXCEPT !.origin = t.origin]
        [] l = "Bare" -> Unlocated(ExprOf(c))

RECURSIVE Height(_), Within(_)
Height(v) ==
  LET subs == Parts(v)
  IN  IF subs = <<>> THEN 0
      ELSE 1 + FoldLeft(Max2, 0, [i \in 1..Len(subs) |-> Height(subs[i])])

\* v and everything in it.
Within(v) == {v} \cup UNION {Within(v.kids[i]) : i \in 1..Len(v.kids)}

OriginsOn(t, l) ==
  CASE l = "Bare" -> {} [] l = "Located" -> ToSet(t.origin)
    [] l = "LocatedTree" -> ToSet(Origins(t)) \ {Nothing}

\* The value respects every ceiling that DecodeLimits puts on its size.
ValueFits(t) ==
  LET expr == ExprOf(t)
  IN  /\ Size(expr) <= limits.nodes
      /\ Height(expr) <= limits.depth
      /\ \A v \in Within(expr) :
           /\ v.tag \in CountedTags => Width(v) <= limits.entries
           /\ v.tag = "Bytes" => Len(v.kids[1].text) <= limits.blob
           /\ v.tag \in ExprTags \ {"Bytes"} =>
                \A i \in 1..Len(v.kids) : Len(v.kids[i].text) <= limits.text
           /\ v.tag = "name" => \A i \in 1..Len(v.kids) : Len(v.kids[i].text) <= limits.text

OriginFits(o) ==
  /\ (Len(o.kids) - 4) \div 2 <= limits.trivia
  /\ \A i \in 1..Len(o.kids) : o.kids[i].tag = "text" => Len(o.kids[i].text) <= limits.text

Fits(t, l) ==
  /\ Len(frame) <= limits.frame
  /\ ValueFits(t)
  /\ \A part \in TableParts : Len(Collect(ExprOf(t))[part]) <= limits.entries
  /\ \A o \in OriginsOn(t, l) : OriginFits(o)

Ended == pc \in {"done", "error"}

(***************************************************************************)
(* A frame that the codec itself wrote is read back as the value it was    *)
(* written from, with the origins its lane keeps and maps and sets in      *)
(* canonical order; it is refused exactly when it exceeds a ceiling.       *)
(***************************************************************************)
RoundTrip ==
  Ended /\ from # "foreign" =>
    /\ (pc = "done") = Fits(tree, lane)
    /\ pc = "done" => Decoded = Kept(tree, lane)

(***************************************************************************)
(* Identity bound to bytes: the strict decode accepts the codec's own      *)
(* frame on its own lane only, and no other frame that means the same on   *)
(* that lane (other table order, unsorted sets, longer integers, ...).     *)
(***************************************************************************)
StrictBindsIdentity ==
  pc = "done" =>
    \A l \in Lanes :
      LET own == frame = Encode(tree, l)
      IN  /\ from # "foreign" /\ flags = LaneFlag(l) => StrictAccepts(l)
          /\ StrictAccepts(l) /\ Decoded = Kept(tree, l) => own

(***************************************************************************)
(* A value read under some limits, from any frame, can be written again    *)
(* and read back under the same limits: canonical writing never makes a    *)
(* frame that the reader refuses.                                          *)
(***************************************************************************)
RecodeAccepted == from = "recoded" => pc # "error"
=============================================================================
