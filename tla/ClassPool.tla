------------------------------ MODULE ClassPool ------------------------------
(***************************************************************************)
(* The constant pool of a class file (constant/model.rs and codec.rs).  A  *)
(* pool is a function from the physical indices: index 0 is reserved, and  *)
(* a Long or a Double owns the index after its own.  A constant is its     *)
(* tag, the indices it refers to and its own data: code units of a Utf8,   *)
(* the raw bytes of a number.                                              *)
(***************************************************************************)
EXTENDS ClassBytes, FiniteSets

Constant(tag, refs, data) == [tag |-> tag, refs |-> refs, data |-> data]
Reserved == Constant(0, <<>>, <<>>)
Unusable == Constant(-1, <<>>, <<>>)

Utf8 == 1
Long == 5
Double == 6
Class == 7
Fieldref == 9
Methodref == 10
InterfaceMethodref == 11
NameAndType == 12
MethodHandle == 15
Tags == {1} \cup 3..12 \cup 15..20
TwoSlot(constant) == constant.tag \in {Long, Double}

\* The widths of the fields after the tag, and the bytes of a number.
Fields(tag) ==
  CASE tag \in {7, 8, 16, 19, 20}   -> <<2>>
    [] tag \in 9..12 \cup {17, 18} -> <<2, 2>>
    [] tag = MethodHandle           -> <<1, 2>>
    [] OTHER                        -> <<>>
RawWidth(tag) == IF tag \in {3, 4} THEN 4 ELSE 8

MinimumMajor(tag) ==
  CASE tag \in {15, 16, 18} -> 51
    [] tag \in {19, 20}     -> 53
    [] tag = 17             -> 55
    [] OTHER                -> 0

ReadFields(b, p, widths) ==
  FoldLeft(LAMBDA acc, w : Then(acc, LAMBDA r :
             Then(ReadUnsigned(b, r.p, w), LAMBDA x : Got(Append(r.v, x.v), x.p))),
           Got(<<>>, p), widths)

ReadUtf8(b, p, budget) ==
  Then(ReadUnsigned(b, p, 2), LAMBDA n :
  Then(Take(b, n.p, n.v), LAMBDA text :
  Then(DecodeModifiedUtf8(text.v, budget), LAMBDA units :
    Got(Constant(Utf8, <<>>, units.v), text.p))))

DecodeConstant(b, p, tag, major, budget) ==
  IF tag \notin Tags \/ major < MinimumMajor(tag) THEN Err
  ELSE CASE tag = Utf8    -> ReadUtf8(b, p, budget)
         [] tag \in 3..6 -> Then(Take(b, p, RawWidth(tag)), LAMBDA raw :
                              Got(Constant(tag, <<>>, raw.v), raw.p))
         [] OTHER         -> Then(ReadFields(b, p, Fields(tag)), LAMBDA refs :
                              Got(Constant(tag, refs.v, <<>>), refs.p))

RECURSIVE ReadSlots(_, _, _, _, _, _)
ReadSlots(b, p, count, slots, major, budget) ==
  IF Len(slots) = count THEN Got(slots, p)
  ELSE Then(ReadUnsigned(b, p, 1), LAMBDA tag :
       Then(DecodeConstant(b, tag.p, tag.v, major, budget), LAMBDA c :
         IF ~TwoSlot(c.v) THEN ReadSlots(b, c.p, count, Append(slots, c.v), major, budget)
         ELSE Require(Len(slots) + 1 < count,
                ReadSlots(b, c.p, count, slots \o <<c.v, Unusable>>, major, budget))))
-----------------------------------------------------------------------------
Indices(pool) == DOMAIN pool
Usable(pool, i) == i \in Indices(pool) /\ pool[i].tag > 0

\* ConstantPool::entry followed by a test of the category.
Names(pool, i, tags) == Usable(pool, i) /\ pool[i].tag \in tags

HandleTargets(kind, major) ==
  CASE kind \in 1..4  -> {Fieldref}
    [] kind \in {5, 8} -> {Methodref}
    [] kind \in {6, 7} -> {Methodref} \cup (IF major >= 52 THEN {InterfaceMethodref} ELSE {})
    [] kind = 9        -> {InterfaceMethodref}
    [] OTHER           -> {}

ValidConstant(pool, c, major) ==
  CASE c.tag \in {7, 8, 16, 19, 20} -> Names(pool, c.refs[1], {Utf8})
    [] c.tag = NameAndType          -> \A i \in 1..2 : Names(pool, c.refs[i], {Utf8})
    [] c.tag \in 9..11              -> Names(pool, c.refs[1], {Class}) /\ Names(pool, c.refs[2], {NameAndType})
    [] c.tag \in {17, 18}           -> Names(pool, c.refs[2], {NameAndType})
    [] c.tag = MethodHandle         -> Names(pool, c.refs[2], HandleTargets(c.refs[1], major))
    [] OTHER                        -> TRUE

ValidPool(pool, major) ==
  \A i \in Indices(pool) \ {0} :
    /\ pool[i] # Reserved
    /\ pool[i] = Unusable => TwoSlot(pool[i - 1])
    /\ pool[i].tag > 0 =>
         /\ TwoSlot(pool[i]) <=> i + 1 \in Indices(pool) /\ pool[i + 1] = Unusable
         /\ major >= MinimumMajor(pool[i].tag)
         /\ ValidConstant(pool, pool[i], major)

DecodePool(b, p, major, budget) ==
  Then(ReadUnsigned(b, p, 2), LAMBDA count :
    IF count.v = 0 \/ count.v > budget THEN Err
    ELSE Then(ReadSlots(b, count.p, count.v, <<Reserved>>, major, budget), LAMBDA r :
           LET pool == [i \in 0..count.v - 1 |-> r.v[i + 1]]
           IN  Require(ValidPool(pool, major), Got(pool, r.p))))

EncodeConstant(c) ==
  <<c.tag>> \o
  CASE c.tag = Utf8    -> LET text == EncodeModifiedUtf8(c.data) IN BigEndian(Len(text), 2) \o text
    [] c.tag \in 3..6 -> c.data
    [] OTHER           -> Concat([i \in DOMAIN c.refs |-> BigEndian(c.refs[i], Fields(c.tag)[i])])

\* Mutant: the count of the constants, not of their slots.
EncodePoolDense(pool, major) ==
  LET last == Cardinality(Indices(pool)) - 1
      entries == [i \in 1..last |-> IF Usable(pool, i) THEN EncodeConstant(pool[i]) ELSE <<>>]
  IN  Require(ValidPool(pool, major),
        Got(BigEndian(Cardinality({i \in Indices(pool) : Usable(pool, i)}) + 1, 2) \o Concat(entries), 0))

EncodePool(pool, major) ==
  LET last == Cardinality(Indices(pool)) - 1
      entries == [i \in 1..last |-> IF Usable(pool, i) THEN EncodeConstant(pool[i]) ELSE <<>>]
  IN  Require(ValidPool(pool, major), Got(BigEndian(last + 1, 2) \o Concat(entries), 0))
=============================================================================
