----------------------------- MODULE ClassBytes -----------------------------
(***************************************************************************)
(* The byte lanes of the class file codec (bytes.rs) and the strict        *)
(* modified UTF-8 of its constants (modified_utf8.rs).  A byte string is a *)
(* sequence of 0..255, a position is the index of the next byte to read.   *)
(* A reading either succeeds with a value and the position after it or it  *)
(* fails; which error it is and where it points is left out.               *)
(***************************************************************************)
EXTENDS Integers, Sequences, SequencesExt

Got(value, at) == [ok |-> TRUE, v |-> value, p |-> at]
Err == [ok |-> FALSE, v |-> <<>>, p |-> 0]

Then(reading, Continue(_)) == IF reading.ok THEN Continue(reading) ELSE Err
Require(condition, reading) == IF condition THEN reading ELSE Err

Remaining(b, p) == Len(b) - p + 1

\* ByteReader::take, and the read_u* on top of it.
Take(b, p, n) == Require(n <= Remaining(b, p), Got(SubSeq(b, p, p + n - 1), p + n))

Number(bytes) == FoldLeft(LAMBDA acc, x : 256 * acc + x, 0, bytes)

\* A u4 of 2^31 or more exceeds every lane; TLC's integers end there.
Huge == 2147483647
Unsigned(bytes) == IF Len(bytes) = 4 /\ bytes[1] > 127 THEN Huge ELSE Number(bytes)

Signed(bytes) ==
  IF bytes[1] < 128 THEN Number(bytes)
  ELSE -Number([i \in DOMAIN bytes |-> 255 - bytes[i]]) - 1

ReadUnsigned(b, p, width) == Then(Take(b, p, width), LAMBDA r : Got(Unsigned(r.v), r.p))
ReadSigned(b, p, width) == Then(Take(b, p, width), LAMBDA r : Got(Signed(r.v), r.p))

\* ByteWriter::write_u*, two's complement for the signed operands.
Digits(n, width) == [i \in 1..width |-> (n \div 256^(width - i)) % 256]
BigEndian(n, width) ==
  IF n >= 0 THEN Digits(n, width)
  ELSE LET m == Digits(-n - 1, width) IN [i \in 1..width |-> 255 - m[i]]

Concat(pieces) == FoldLeft(LAMBDA acc, piece : acc \o piece, <<>>, pieces)

\* n items one after the other.  No item is empty, so that a count above the
\* remaining bytes always ends in Truncated; preflight_allocation refuses the
\* counts above the budget before it comes to that.
Items(b, p, n, budget, Item(_)) ==
  IF n > budget \/ n > Remaining(b, p) THEN Err
  ELSE FoldLeft(LAMBDA acc, i : Then(acc, LAMBDA r :
                  Then(Item(r.p), LAMBDA item : Got(Append(r.v, item.v), item.p))),
                Got(<<>>, p), [i \in 1..n |-> i])

Counted(b, p, width, budget, Item(_)) ==
  Then(ReadUnsigned(b, p, width), LAMBDA n : Items(b, n.p, n.v, budget, Item))
-----------------------------------------------------------------------------
(* Modified UTF-8 *)

Continuation(b, p) == p <= Len(b) /\ b[p] \in 128..191

\* One code unit in its shortest form; zero is written in two bytes.
CodeUnit(b, p) ==
  LET first == b[p]
      two   == 64 * (first % 32) + (b[p + 1] % 64)
      three == 4096 * (first % 16) + 64 * (b[p + 1] % 64) + (b[p + 2] % 64)
  IN  CASE first \in 1..127 -> Got(first, p + 1)
        [] first \in 192..223 /\ Continuation(b, p + 1) ->
             Require(IF two = 0 THEN first = 192 /\ b[p + 1] = 128 ELSE two >= 128, Got(two, p + 2))
        [] first \in 224..239 /\ Continuation(b, p + 1) /\ Continuation(b, p + 2) ->
             Require(three >= 2048, Got(three, p + 3))
        [] OTHER -> Err

High == 55296..56319
Low == 56320..57343

\* Every surrogate is one half of a pair.
WellPaired(units) ==
  \A i \in DOMAIN units :
    /\ units[i] \in High => i < Len(units) /\ units[i + 1] \in Low
    /\ units[i] \in Low  => i > 1 /\ units[i - 1] \in High

RECURSIVE Units(_, _, _)
Units(b, p, units) ==
  IF p > Len(b) THEN Got(units, p)
  ELSE Then(CodeUnit(b, p), LAMBDA r : Units(b, r.p, Append(units, r.v)))

DecodeModifiedUtf8(b, budget) ==
  Then(Units(b, 1, <<>>), LAMBDA r : Require(WellPaired(r.v) /\ Len(r.v) <= budget, r))

UnitBytes(unit) ==
  CASE unit \in 1..127 -> <<unit>>
    [] unit = 0 \/ unit \in 128..2047 -> <<192 + unit \div 64, 128 + (unit % 64)>>
    [] OTHER -> <<224 + unit \div 4096, 128 + ((unit \div 64) % 64), 128 + (unit % 64)>>

EncodeModifiedUtf8(units) == Concat([i \in DOMAIN units |-> UnitBytes(units[i])])
=============================================================================
