---------------------------- MODULE BitwiseCodec ----------------------------
(***************************************************************************)
(* The bit-packed frames of crates/sim-codec-bitwise, next to the SLB8     *)
(* frames of module BinaryCodec: what the SLB8 reader accepted, or the     *)
(* program's own tree, is packed through the codec runtime, may be damaged *)
(* on its way, and is unpacked under the same limits.                      *)
(*                                                                         *)
(* A frame is a sequence of bits, whole bytes of them.  The reader and the *)
(* writer run on one thread over data of their own, so each is one step;   *)
(* inside it the reader is threaded through the parts of the frame.        *)
(***************************************************************************)
EXTENDS BinaryCodec

CONSTANTS
  MaxBits,       \* longer integers are all read as 2^MaxBits
  Damaged(_, _)  \* what a broken or hostile peer may make of a packed frame

ASSUME BitsAssumption == MaxBits \in 8..30

VARIABLES
  source,   \* the located tree that is packed
  mode,     \* how it is packed, "none" before that
  wrapped,  \* whether the frame travels as base64 text
  packed,   \* the bits or the text
  arrived,  \* "own" or "damaged"
  opened    \* what was unpacked: <<>> or <<result>>

pvars == <<cvars, source, mode, wrapped, packed, arrived, opened>>

-----------------------------------------------------------------------------
(* Bits: bitio.rs *)

\* The low `width' bits of n, most significant first.
Bits(n, width) == [i \in 1..width |-> (n \div 2^(width - i)) % 2]
BitLength(n) == CHOOSE k \in 0..n : n < 2^k /\ (k > 0 => n >= 2^(k - 1))

\* write_gamma and write_vbits: the size of the size, the size, the number.
Gamma(n) == LET k == BitLength(n + 1) IN Bits(0, k - 1) \o Bits(n + 1, k)
Vbits(n) == Gamma(BitLength(n)) \o Bits(n, BitLength(n))

BytesField(s) == Vbits(Len(s)) \o FlattenSeq([i \in 1..Len(s) |-> Bits(s[i], 8)])

\* BitWriter pushes whole zero bytes and sets bits in them.
Padded(bits) == bits \o Bits(0, (8 - (Len(bits) % 8)) % 8)

-----------------------------------------------------------------------------
(* Numbers: number.rs, over ASCII text *)
Minus == 45
Digit(b) == b \in 48..57
Normalized(s) == s # <<>> /\ (\A i \in 1..Len(s) : Digit(s[i])) /\ (Len(s) > 1 => s[1] # 48)
Magnitude(s) == FoldLeft(LAMBDA n, b : 10 * n + b - 48, 0, s)

Negative(s) == s # <<>> /\ s[1] = Minus
Digits(s) == IF Negative(s) THEN Tail(s) ELSE s
IsInteger(s) == Normalized(Digits(s)) /\ ~(Negative(s) /\ Digits(s) = <<48>>)
IsSmall(s) == Normalized(s) /\ Magnitude(s) < 16

RECURSIVE Decimal(_)
Decimal(n) == IF n < 10 THEN <<48 + n>> ELSE Append(Decimal(n \div 10), 48 + (n % 10))

\* bits_to_integer.
IntegerText(negative, n) == (IF negative /\ n # 0 THEN <<Minus>> ELSE <<>>) \o Decimal(n)

-----------------------------------------------------------------------------
(* The alphabet: types.rs *)
PackedVersion == 1
FlagDense == 4
KnownFlags == 0..7

Structural == <<"Nil", "False", "True", "Number", "Symbol", "Local", "String", "Bytes",
                "List", "Vector", "Map", "Set", "Call", "Infix", "Prefix", "Postfix",
                "Block", "Quote", "Annotated", "Extension">>
FirstStructural == 16  \* below it are the inline integers
RefTag == 36
PackedTag(tag) == Bits(FirstStructural + IndexIn(Structural, tag), 6)

-----------------------------------------------------------------------------
(* FrameWriter.  A writer is the bits so far and, in dense mode, the        *)
(* subtrees that have a number, in the order of their numbers.              *)
Emit(w, bits) == [w EXCEPT !.bits = @ \o bits]

PackName(v, table) == Vbits(IndexIn(table, v))

PackNumber(v, tab) ==
  LET s == v.kids[2].text
      n == Magnitude(Digits(s))
      domain == PackName(v.kids[1], tab.domains)
  IN  IF IsSmall(s) THEN Bits(n, 6) \o domain
      ELSE PackedTag("Number") \o domain \o
        IF IsInteger(s)
        THEN <<1, IF Negative(s) THEN 1 ELSE 0>> \o Vbits(BitLength(n)) \o Bits(n, BitLength(n))
        ELSE <<0>> \o BytesField(s)

\* The parts of an expression in the order they are written.
InOrder(v) ==
  CASE v.tag = "Set" -> SortedBy(v.kids, LAMBDA k : Key(Canonical(k)))
    [] v.tag = "Map" -> FlattenSeq(SortedBy(Pairs(v.kids),
                          LAMBDA p : Key(Canonical(p[1])) \o Key(Canonical(p[2]))))
    [] OTHER -> v.kids

RECURSIVE PackExpr(_, _, _)
PackBody(w, v, tab) ==
  LET kids == InOrder(v)
      ahead == IF v.tag \in {"Call", "Annotated"} THEN 1 ELSE 0
      Put(to, k) ==
        CASE IsExpr(k) -> PackExpr(to, k, tab)
          [] k.tag = "text" -> Emit(to, BytesField(k.text))
          [] k.tag = "mode" -> Emit(to, Bits(k.text[1], 3))
          [] k.tag = "name" -> Emit(to, PackName(k, tab.symbols))
      head == FoldLeft(Put, Emit(w, PackedTag(v.tag)), SubSeq(kids, 1, ahead))
      counted == IF v.tag \in CountedTags THEN Emit(head, Vbits(Width(v))) ELSE head
  IN  FoldLeft(Put, counted, SubSeq(kids, ahead + 1, Len(kids)))

\* Mutant: a subtree is numbered when it is finished.
PackExprLate(w, v, tab) ==
  IF w.dense /\ v \in ToSet(w.seen)
  THEN Emit(w, Bits(RefTag, 6) \o Vbits(IndexIn(w.seen, v)))
  ELSE LET body == IF v.tag = "Number" THEN Emit(w, PackNumber(v, tab)) ELSE PackBody(w, v, tab)
       IN  IF w.dense THEN [body EXCEPT !.seen = Append(@, v)] ELSE body

\* write_expr: a subtree that has a number is written as that number.
PackExpr(w, v, tab) ==
  IF w.dense /\ v \in ToSet(w.seen)
  THEN Emit(w, Bits(RefTag, 6) \o Vbits(IndexIn(w.seen, v)))
  ELSE LET noted == IF w.dense THEN [w EXCEPT !.seen = Append(@, v)] ELSE w
       IN  IF v.tag = "Number" THEN Emit(noted, PackNumber(v, tab))
           ELSE PackBody(noted, v, tab)

PackRecord(libs, v) ==
  Vbits(IF v.kids = <<>> THEN 0 ELSE IndexIn(libs, v.kids[1]) + 1) \o BytesField(v.text)

PackTables(tab) ==
  Vbits(Len(tab.libs)) \o FlattenSeq([i \in 1..Len(tab.libs) |-> BytesField(tab.libs[i].text)])
    \o Vbits(Len(tab.symbols))
    \o FlattenSeq([i \in 1..Len(tab.symbols) |-> PackRecord(tab.libs, tab.symbols[i])])
    \o Vbits(Len(tab.domains))
    \o FlattenSeq([i \in 1..Len(tab.domains) |-> PackRecord(tab.libs, tab.domains[i])])

PackOrigin(o) ==
  Vbits(o.kids[1].text[1]) \o BytesField(o.kids[2].text)
    \o Vbits(o.kids[3].text[1]) \o Vbits(o.kids[4].text[1])
    \o Vbits((Len(o.kids) - 4) \div 2)
    \o FlattenSeq([i \in 1..(Len(o.kids) - 4) |->
         IF i % 2 = 1 THEN Bits(o.kids[i + 4].text[1], 2) ELSE BytesField(o.kids[i + 4].text)])

\* write_origin_tree walks the tree as it is, sorted or not.
PackOrigins(t) ==
  LET os == Origins(t)
  IN  FlattenSeq([i \in 1..Len(os) |->
        IF os[i] = Nothing THEN <<0>> ELSE <<1>> \o PackOrigin(os[i])])

\* encode_frame, encode_located_frame, encode_located_tree_frame, encode_dense.
FlagOf(t, m) ==
  CASE m = "Dense" -> FlagDense
    [] m = "Located" -> IF t.origin = <<>> THEN 0 ELSE FlagOrigin
    [] m = "LocatedTree" -> FlagTreeOrigin
    [] m = "Bare" -> 0

Pack(t, m) ==
  LET expr == ExprOf(t)
      tab == Collect(expr)
      flag == FlagOf(t, m)
      header == Vbits(PackedVersion) \o Vbits(flag) \o PackTables(tab)
      body == PackExpr([bits |-> header, dense |-> m = "Dense", seen |-> <<>>], expr, tab)
  IN  Padded(body.bits \o
        CASE flag = FlagOrigin -> PackOrigin(t.origin[1])
          [] flag = FlagTreeOrigin -> PackOrigins(t)
          [] OTHER -> <<>>)

-----------------------------------------------------------------------------
(* FrameReader.  A reader is its place in the bits, the last number it      *)
(* read, what it has built so far, and the subtrees it has numbered: <<>>   *)
(* while one is being read, <<expr>> after that.                            *)
Reader(bits) ==
  [ok |-> Len(bits) <= 8 * limits.frame, bits |-> bits, at |-> 0, n |-> 0, got |-> <<>>,
   nodes |-> 0, flags |-> 0, slots |-> <<>>, tables |-> NoTables]
Stuck(r) == [r EXCEPT !.ok = FALSE]
Require(r, condition) == IF r.ok /\ ~condition THEN Stuck(r) ELSE r
Got(r, v) == IF r.ok THEN [r EXCEPT !.got = Append(@, v)] ELSE r

\* What is done next, unless something has failed.
Then(r, Go(_)) == IF r.ok THEN Go(r) ELSE r

Left(r) == Len(r.bits) - r.at
NumberIn(bits) == FoldLeft(LAMBDA n, b : 2 * n + b, 0, bits)
HasFlag(r, flag) == (r.flags \div flag) % 2 = 1

\* read_bits; a number that MaxBits bits do not hold is read as 2^MaxBits.
TakeBits(r, width) ==
  IF ~r.ok \/ width > Left(r) THEN Stuck(r)
  ELSE [r EXCEPT !.at = @ + width,
                 !.n = IF width > MaxBits THEN 2^MaxBits
                       ELSE NumberIn(SubSeq(r.bits, r.at + 1, r.at + width))]

\* read_gamma: seven zeros ahead already announce more than 128 bits.
ZerosAhead(r) == CHOOSE z \in 0..8 :
  /\ \A i \in 1..z : i <= Left(r) /\ r.bits[r.at + i] = 0
  /\ z = 8 \/ z >= Left(r) \/ r.bits[r.at + z + 1] = 1

TakeGamma(r) ==
  LET From(zeros) == IF zeros \in {8, Left(r)} THEN Stuck(r)
                     ELSE TakeBits([r EXCEPT !.at = @ + zeros], zeros + 1)
  IN  From(ZerosAhead(r))

\* read_vbits: a number of at most `widest' bits, the first of them a one.
TakeUpTo(r, widest) ==
  Then(Then(r, TakeGamma), LAMBDA size :
    IF size.n - 1 > widest THEN Stuck(size)
    ELSE Require(TakeBits(size, size.n - 1),
                 size.n - 1 \in 1..Left(size) => r.bits[size.at + 1] = 1))

TakeVbits(r) == TakeUpTo(r, 128)

\* read_count_with_limit and read_len.
TakeCount(r, limit) == Then(TakeVbits(r), LAMBDA c : Require(c, c.n <= limit))

\* from_utf8: the lead byte says how many follow, and what the first may be.
Leads == <<0..127, 194..223, 224..239, 240..244>>
Second(lead) ==
  CASE lead = 224 -> 160..191 [] lead = 237 -> 128..159
    [] lead = 240 -> 144..191 [] lead = 244 -> 128..143 [] OTHER -> 128..191

RECURSIVE IsUtf8(_)
IsUtf8(s) ==
  s = <<>> \/ \E n \in 1..4 :
    /\ n <= Len(s) /\ s[1] \in Leads[n]
    /\ \A i \in 2..n : s[i] \in IF i = 2 THEN Second(s[1]) ELSE 128..191
    /\ IsUtf8(SubSeq(s, n + 1, Len(s)))

\* read_string and read_blob.
TakeBytes(r, limit, text) ==
  Then(TakeCount(r, limit), LAMBDA c :
    LET s == [i \in 1..c.n |-> NumberIn(SubSeq(c.bits, c.at + 8 * i - 7, c.at + 8 * i))]
    IN  IF 8 * c.n > Left(c) \/ (text /\ ~IsUtf8(s)) THEN Stuck(c)
        ELSE Got([c EXCEPT !.at = @ + 8 * c.n], Value("text", s, <<>>)))

\* The parts taken last, put together as one value.
LastGot(r) == r.got[Len(r.got)]
Joined(r, before, tag) ==
  IF r.ok THEN [r EXCEPT !.got = Append(before.got, Value(tag, <<>>,
                             SubSeq(@, Len(before.got) + 1, Len(@))))]
  ELSE r

TakeIndex(r, table) ==
  Then(TakeVbits(r), LAMBDA c : IF c.n >= Len(table) THEN Stuck(c) ELSE Got(c, table[c.n + 1]))

\* read_symbol_record.
TakeRecord(r) ==
  Then(TakeVbits(r), LAMBDA slot :
    Then(TakeBytes(slot, limits.text, TRUE), LAMBDA name :
      IF slot.n > Len(name.tables.libs) THEN Stuck(name)
      ELSE Got([name EXCEPT !.got = slot.got],
               Value("name", LastGot(name).text,
                     IF slot.n = 0 THEN <<>> ELSE <<name.tables.libs[slot.n]>>))))

\* The magnitude may have as many bits as the longest string.
TakeInteger(r) ==
  Then(TakeBits(r, 1), LAMBDA sign :
    Then(TakeCount(sign, 8 * limits.text), LAMBDA size :
      Then(TakeBits(size, size.n), LAMBDA digits :
        IF size.n > 0 /\ r.bits[size.at + 1] = 0 THEN Stuck(digits)
        ELSE Got(digits, Value("text", IntegerText(sign.n = 1, digits.n), <<>>)))))

\* read_small_uint and read_number.
TakeNumber(r, tag) ==
  Then(TakeIndex(r, r.tables.domains), LAMBDA domain :
    IF tag < FirstStructural THEN Got(domain, Value("text", Decimal(tag), <<>>))
    ELSE Then(TakeBits(domain, 1), LAMBDA kind :
           IF kind.n = 1 THEN TakeInteger(kind) ELSE TakeBytes(kind, limits.text, TRUE)))

\* One byte-like part of a few bits.
TakeSmall(r, tag, width, top) ==
  Then(TakeBits(r, width), LAMBDA c :
    IF c.n > top THEN Stuck(c) ELSE Got(c, Value(tag, <<c.n>>, <<>>)))

TakeNum(r, widest) ==
  Then(TakeUpTo(r, widest), LAMBDA c : Got(c, Value("num", <<c.n>>, <<>>)))

RECURSIVE TakeExpr(_, _), TakePart(_, _, _)
TakeParts(r, ops, depth) == FoldLeft(LAMBDA q, op : TakePart(q, op, depth), r, ops)

Repeated(ops, n) == [i \in 1..(n * Len(ops)) |-> ops[((i - 1) % Len(ops)) + 1]]

\* One part of an expression or an origin, by the scripts of BinaryReader.
TakePart(r, op, depth) ==
  CASE op = "expr"      -> TakeExpr(r, depth)
    [] op = "symbol"    -> TakeIndex(r, r.tables.symbols)
    [] op = "text"      -> TakeBytes(r, limits.text, TRUE)
    [] op = "blob"      -> TakeBytes(r, limits.blob, FALSE)
    [] op = "codec"     -> TakeNum(r, 32)
    [] op = "position"  -> TakeNum(r, 64)
    [] op = "mode"      -> TakeSmall(r, "mode", 3, 4)
    [] op = "triviatag" -> TakeSmall(r, "trivia", 2, 2)
    [] op \in Counted   -> Then(TakeCount(r, Ceiling(op)), LAMBDA c :
                             TakeParts(c, Repeated(Entry(op), c.n), depth))

\* The subtree with that number, <<>> if it is not finished.
Slot(r, i) == IF i < Len(r.slots) THEN r.slots[i + 1] ELSE <<>>

\* Mutant: a back reference counts as one node.
TakeRefOne(r) ==
  Then(TakeVbits(r), LAMBDA c :
    IF Slot(c, c.n) = <<>> THEN Stuck(c)
    ELSE Require(Got([c EXCEPT !.nodes = @ + 1], Slot(c, c.n)[1]), c.nodes + 1 <= limits.nodes))

\* resolve_ref: only to a finished subtree, charged with all its nodes.
TakeRef(r) ==
  Then(TakeVbits(r), LAMBDA c :
    IF Slot(c, c.n) = <<>> THEN Stuck(c)
    ELSE LET expr == Slot(c, c.n)[1]
         IN  Require(Got([c EXCEPT !.nodes = @ + Size(expr)], expr),
                     c.nodes + Size(expr) <= limits.nodes))

\* The slot is reserved before the subtree is read, and filled after it.
Begun(r) == Require([r EXCEPT !.nodes = @ + 1, !.slots = Append(@, <<>>)],
                    r.nodes < limits.nodes)

\* read_tagged, after the tag.
TakeNode(r, depth) ==
  LET name == IF r.n < FirstStructural THEN "Number"
              ELSE Structural[r.n - FirstStructural + 1]
      parts == IF name = "Number" THEN TakeNumber(Begun(r), r.n)
               ELSE TakeParts(Begun(r), Script(name), depth + 1)
  IN  Then(Joined(parts, r, name), LAMBDA done :
        [done EXCEPT !.slots[Len(r.slots) + 1] = <<LastGot(done)>>])

\* read_expr_with_depth: only a dense frame has back references.
TakeExpr(r, depth) ==
  Then(TakeBits(Require(r, depth <= limits.depth), 6), LAMBDA tag :
    CASE tag.n < RefTag -> TakeNode(tag, depth)
      [] tag.n = RefTag /\ HasFlag(tag, FlagDense) -> TakeRef(tag)
      [] OTHER -> Stuck(tag))

\* read_origin: a codec id of 32 bits, positions of 64.
TakeOrigin(r) ==
  Joined(TakeParts(r, <<"codec", "text", "position", "position", "trivia">>, 0), r, "origin")

\* read_origin_tree: the expression just read is walked in preorder.
RECURSIVE TakeMarks(_, _, _)
TakeMarks(r, v, depth) ==
  Then(TakeBits(Require(r, depth <= limits.depth), 1), LAMBDA mark :
    FoldLeft(LAMBDA q, k : TakeMarks(q, k, depth + 1),
             IF mark.n = 1 THEN TakeOrigin(mark) ELSE Got(mark, Nothing),
             Parts(v)))

\* read_header.
TakeTable(r, part) ==
  LET Row(q, i) == IF part = "libs" THEN TakeBytes(q, limits.text, TRUE) ELSE TakeRecord(q)
      Filled(q) == [q EXCEPT !.tables[part] = q.got, !.got = <<>>]
  IN  Then(TakeCount(r, limits.entries), LAMBDA c :
        Filled(FoldLeft(Row, c, [i \in 1..c.n |-> i])))

TakeVersion(r) == Then(TakeVbits(r), LAMBDA c : Require(c, c.n = PackedVersion))
TakeFlags(r) ==
  Then(TakeVbits(r), LAMBDA c : Require([c EXCEPT !.flags = c.n], c.n \in KnownFlags))
TakeHeader(r) ==
  TakeTable(TakeTable(TakeTable(TakeFlags(TakeVersion(r)), "libs"), "symbols"), "domains")

NodeOrigins(r) == IF HasFlag(r, FlagTreeOrigin) THEN TakeMarks(r, LastGot(r), 0) ELSE r
RootOrigin(r) == IF HasFlag(r, FlagOrigin) THEN TakeOrigin(r) ELSE r

\* require_zero_padding: what is left is less than a byte, and zero.
ZeroPadded(r) == Require(r, Left(r) < 8 /\ \A i \in 1..Left(r) : r.bits[r.at + i] = 0)

\* decode_located_tree_frame_with_limits.
TakeFrame(r) ==
  Then(Then(Then(TakeExpr(TakeHeader(r), 0), NodeOrigins), RootOrigin), ZeroPadded)

TreeOf(r) ==
  LET expr == r.got[1]
      tree0 == IF HasFlag(r, FlagTreeOrigin) THEN Located(expr, SubSeq(r.got, 2, Size(expr) + 1))
               ELSE Unlocated(expr)
  IN  IF HasFlag(r, FlagOrigin) THEN [tree0 EXCEPT !.origin = <<LastGot(r)>>] ELSE tree0

Refused == [ok |-> FALSE, flags |-> 0, tree |-> Nothing]
ReadPacked(bits) ==
  LET Result(r) == IF r.ok THEN [ok |-> TRUE, flags |-> r.flags, tree |-> TreeOf(r)] ELSE Refused
  IN  Result(TakeFrame(Reader(bits)))

-----------------------------------------------------------------------------
(* The text wrapper: base64.rs, on characters by their value, 64 for "="    *)
(* and 65 for white space.                                                  *)
Pad == 64
Blank == 65

ToText(bits) ==
  LET size == (Len(bits) + 5) \div 6
      full == bits \o Bits(0, 6 * size - Len(bits))
  IN  [i \in 1..size |-> NumberIn(SubSeq(full, 6 * i - 5, 6 * i))]
        \o [i \in 1..((4 - (size % 4)) % 4) |-> Pad]

\* decode_clean_base64: padding ends the last quartet, over bits that are 0.
CleanText(s) ==
  LET n == Len(SelectSeq(s, LAMBDA c : c # Pad))
      spare == (6 * n) % 8
  IN  /\ Len(s) % 4 = 0
      /\ Len(s) - n <= 2
      /\ \A i \in 1..n : s[i] < Pad
      /\ n > 0 => s[n] % 2^spare = 0

\* decode_base64_with_limits, then the frame.
ReadText(text) ==
  LET s == SelectSeq(text, LAMBDA c : c # Blank)
      bits == FlattenSeq([i \in 1..Len(s) |-> IF s[i] < Pad THEN Bits(s[i], 6) ELSE <<>>])
  IN  IF Len(text) > limits.frame \/ ~CleanText(s) THEN Refused
      ELSE ReadPacked(SubSeq(bits, 1, Len(bits) - (Len(bits) % 8)))

-----------------------------------------------------------------------------
(* The codec runtime: what a caller asks for and which role answers.        *)
Roles == {"encoder", "located", "tree"}

\* CodecRuntime::encode, encode_located, encode_tree.
ModeFor(form, lossless, roles) ==
  CASE lossless /\ form = "tree" /\ "tree" \in roles -> "LocatedTree"
    [] lossless /\ form # "plain" /\ "located" \in roles -> "Located"
    [] OTHER -> "Bare"

PackedInit ==
  /\ CodecInit
  /\ source = Nothing /\ mode = "none" /\ wrapped = FALSE
  /\ packed = <<>> /\ arrived = "own" /\ opened = <<>>

\* The modes whose frames are damaged: the others are parts of these.
DamagedModes == {"Dense", "LocatedTree"}

Carried(bits, text) == IF text THEN ToText(bits) ELSE bits

Arrive(sent) ==
  \/ packed' = sent /\ arrived' = "own"
  \/ /\ from = "writer" /\ source' = tree /\ mode' \in DamagedModes
     /\ packed' \in Damaged(sent, wrapped') \ {sent}
     /\ arrived' = "damaged"

\* What was read from an SLB8 frame is packed, or the tree itself that is in
\* one with all its origins; only the latter is damaged.
PackIt ==
  /\ pc = "done" /\ from # "recoded"
  /\ source' \in {Decoded} \cup (IF from = "writer" /\ lane = "LocatedTree" THEN {tree} ELSE {})
  /\ wrapped' \in BOOLEAN
  /\ \/ mode' = "Dense" /\ ~wrapped'
     \/ \E form \in {"plain", "located", "tree"}, lossless \in BOOLEAN :
          mode' = ModeFor(form, lossless, Roles)
  /\ Arrive(Carried(Pack(source', mode'), wrapped'))
  /\ pc' = "packed"
  /\ UNCHANGED <<frame, limits, index, nodes, flags, tables, stack, tree, lane, from, opened>>

Unpack ==
  /\ pc = "packed"
  /\ pc' = "opened"
  /\ opened' = <<IF wrapped THEN ReadText(packed) ELSE ReadPacked(packed)>>
  /\ UNCHANGED <<frame, limits, index, nodes, flags, tables, stack, tree, lane, from,
                 source, mode, wrapped, packed, arrived>>

PackedNext ==
  \/ CodecNext /\ UNCHANGED <<source, mode, wrapped, packed, arrived, opened>>
  \/ PackIt
  \/ Unpack
  \/ pc = "opened" /\ UNCHANGED pvars

\* Only the SLB8 reader has to run.
PackedSpec ==
  /\ PackedInit /\ [][PackedNext]_pvars
  /\ WF_pvars(Step /\ UNCHANGED <<tree, lane, from, source, mode, wrapped, packed, arrived, opened>>)

-----------------------------------------------------------------------------
Opened == opened[1]
Agrees == opened # <<>> /\ Opened.ok

\* A frame that nobody touched.
Intact == opened # <<>> /\ arrived = "own"
FitsPacked == Len(packed) <= IF wrapped THEN limits.frame ELSE 8 * limits.frame

(***************************************************************************)
(* What was accepted under some limits is packed into a frame that the     *)
(* reader accepts under the same limits unless it is too long, shared or   *)
(* not, as bytes or as text; the value comes back in canonical order with  *)
(* the origins its mode keeps.  A tree keeps each origin on its node       *)
(* exactly if sorting the maps and sets moves none.                        *)
(***************************************************************************)
PackedRoundTrip ==
  Intact =>
    /\ Opened.ok = FitsPacked
    /\ Opened.ok =>
         CASE mode \in {"Bare", "Dense"} -> Opened.tree = Kept(source, "Bare")
           [] mode = "Located" -> Opened.tree = Kept(source, "Located")
           [] mode = "LocatedTree" ->
                /\ ExprOf(Opened.tree) = ExprOf(Canonical(source))
                /\ Opened.tree = Kept(source, "LocatedTree")
                     <=> Origins(source) = Origins(Canonical(source))

Reads(result, t) == result.ok /\ result.tree = Kept(t, "Bare")
Survives(bits, t) == Len(bits) <= 8 * limits.frame => Reads(ReadPacked(bits), t)

(***************************************************************************)
(* Whatever arrives, damaged or not: what is opened has no more nodes,     *)
(* entries or text than the limits allow, back references expanded, and    *)
(* without sharing no more depth; and it is a value like any other, which  *)
(* packed again is opened as itself.                                       *)
(***************************************************************************)
PackedBounded ==
  Agrees =>
    LET expr == ExprOf(Opened.tree)
    IN  /\ Size(expr) <= limits.nodes
        /\ Opened.flags < FlagDense => Height(expr) <= limits.depth
        /\ \A v \in Within(expr) :
             /\ v.tag \in CountedTags => Width(v) <= limits.entries
             /\ v.tag = "Bytes" => Len(v.kids[1].text) <= limits.blob
             /\ v.tag = "String" => Len(v.kids[1].text) <= limits.text
             /\ v.tag = "name" => \A i \in 1..Len(v.kids) : Len(v.kids[i].text) <= limits.text
        /\ \A o \in OriginsOn(Opened.tree, "LocatedTree") : OriginFits(o)
        /\ Height(expr) <= limits.depth => Survives(Pack(Opened.tree, "Bare"), Opened.tree)

(***************************************************************************)
(* encode_located_tree_frame documents that with origins "the frame        *)
(* carries the per-node origin tree so the full located tree round-trips". *)
(***************************************************************************)
OriginsKept ==
  Intact /\ Opened.ok /\ mode = "LocatedTree" => Opened.tree = Kept(source, "LocatedTree")
=============================================================================
