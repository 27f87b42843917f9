------------------------------ MODULE ClassCode ------------------------------
(***************************************************************************)
(* JVM instruction streams (instruction.rs, encode.rs, encode/scalar.rs,   *)
(* the manifest in opcode_generated.rs): decoding with the operand layout  *)
(* of each opcode, and encoding after a caller has inserted, removed or    *)
(* resized instructions, with new offsets, switch padding and branches.    *)
(***************************************************************************)
EXTENDS ClassPool

CONSTANT ShortMax      \* the largest s2, 32767 in the code: what a short branch spans
ASSUME ShortMaxAssumption == ShortMax \in 1..32767

TableSwitch == 170
LookupSwitch == 171
Wide == 196
InvokeDynamic == 186

F(role, width) == [role |-> role, width |-> width]

\* The column `operands' of the manifest: what follows an opcode byte.
Operands(op) ==
  CASE op = 16                                  -> <<F("value", 1)>>
    [] op = 17                                  -> <<F("value", 2)>>
    [] op = 18                                  -> <<F("constant", 1)>>
    [] op \in {19, 20} \cup 178..184 \cup {187, 189, 192, 193} -> <<F("constant", 2)>>
    [] op \in 21..25 \cup 54..58 \cup {169}     -> <<F("local", 1)>>
    [] op = 132                                 -> <<F("local", 1), F("increment", 1)>>
    [] op \in 153..168 \cup {198, 199}          -> <<F("branch", 2)>>
    [] op \in {200, 201}                        -> <<F("branch", 4)>>
    [] op = 185                                 -> <<F("constant", 2), F("count", 1), F("zero", 1)>>
    [] op = InvokeDynamic                       -> <<F("constant", 2), F("zero", 2)>>
    [] op = 188                                 -> <<F("atype", 1)>>
    [] op = 197                                 -> <<F("constant", 2), F("dimensions", 1)>>
    [] OTHER                                    -> <<>>
Widenable(op) == Operands(op) # <<>> /\ Operands(op)[1].role = "local"

\* The columns `width', `since' and `until': an opcode is refused when it is
\* invalid, when its first version is no number, or when it came later.
Admitted(op, major) ==
  op \notin 202..255 /\ major >= IF op = InvokeDynamic THEN 51 ELSE 45

\* The column `constant_pool'.
Loadable == Tags \ {Long, Double}
Category(op) ==
  CASE op \in 18..19        -> Loadable
    [] op = 20              -> {Long, Double}
    [] op \in 178..181      -> {Fieldref}
    [] op = 182             -> {Methodref}
    [] op \in 183..184      -> {Methodref, InterfaceMethodref}
    [] op = 185             -> {InterfaceMethodref}
    [] op = InvokeDynamic   -> {18}
    [] OTHER                -> {Class}

Operand(role, value) == [role |-> role, value |-> value]
Instruction(op, wide, operands) == [op |-> op, wide |-> wide, operands |-> operands]

Signedness == {"value", "increment", "branch", "low", "high", "key"}
FieldWidth(f, wide) == IF wide THEN 2 ELSE f.width
Padding(at) == (4 - (at % 4)) % 4     \* `at' counts from the start of the code
-----------------------------------------------------------------------------
(* decode_instructions.  Positions are one more than code offsets. *)
ReadField(b, p, f, wide) ==
  IF f.role \in Signedness THEN ReadSigned(b, p, FieldWidth(f, wide))
  ELSE ReadUnsigned(b, p, FieldWidth(f, wide))

ReadOperands(b, p, fields, wide) ==
  FoldLeft(LAMBDA acc, f : Then(acc, LAMBDA r :
             Then(ReadField(b, r.p, f, wide), LAMBDA x :
               IF f.role = "zero" THEN Require(x.v = 0, Got(r.v, x.p))
               ELSE Got(Append(r.v, Operand(f.role, x.v)), x.p))),
           Got(<<>>, p), fields)

Repeated(n, fields) == Concat([i \in 1..n |-> fields])

\* read_padding, and the default of a switch.
ReadDefault(b, p) ==
  Then(Take(b, p, Padding(p - 1)), LAMBDA pad :
    Require(\A i \in DOMAIN pad.v : pad.v[i] = 0, ReadOperands(b, pad.p, <<F("branch", 4)>>, FALSE)))

\* ensure_entries_fit is checked before the entries are read.
ReadEntries(b, r, n, fields, width) ==
  IF n < 0 \/ n > Remaining(b, r.p) \div width THEN Err
  ELSE Then(ReadOperands(b, r.p, Repeated(n, fields), FALSE), LAMBDA x : Got(r.v \o x.v, x.p))

ReadTableSwitch(b, p) ==
  Then(ReadDefault(b, p), LAMBDA d :
  Then(ReadOperands(b, d.p, <<F("low", 4), F("high", 4)>>, FALSE), LAMBDA keys :
    LET low == keys.v[1].value
        high == keys.v[2].value
    IN  IF high < low \/ (low <= 0 /\ high > Huge + low - 1) THEN Err
        ELSE ReadEntries(b, Got(d.v \o keys.v, keys.p), high - low + 1, <<F("branch", 4)>>, 4)))

Keys(operands) == SelectSeq(operands, LAMBDA o : o.role = "key")
Increasing(keys) == \A i \in 2..Len(keys) : keys[i - 1].value < keys[i].value

ReadLookupSwitch(b, p) ==
  Then(ReadDefault(b, p), LAMBDA d :
  Then(ReadSigned(b, d.p, 4), LAMBDA n :
  Then(ReadEntries(b, Got(d.v, n.p), n.v, <<F("key", 4), F("branch", 4)>>, 8), LAMBDA r :
    Require(Increasing(Keys(r.v)), r))))

\* Only the first constant operand is checked, no opcode has two.
ConstantsOK(op, operands, pool) ==
  \A i \in DOMAIN operands :
    operands[i].role = "constant" => Names(pool, operands[i].value, Category(op))

ReadInstruction(b, p, major, pool) ==
  LET wide == b[p] = Wide
      at == IF wide THEN p + 1 ELSE p
  IN  IF at > Len(b) \/ ~Admitted(b[p], major) THEN Err
      ELSE LET op == b[at]
           IN  IF ~Admitted(op, major) \/ (wide /\ ~Widenable(op)) THEN Err
               ELSE Then(CASE op = TableSwitch  -> ReadTableSwitch(b, at + 1)
                           [] op = LookupSwitch -> ReadLookupSwitch(b, at + 1)
                           [] OTHER             -> ReadOperands(b, at + 1, Operands(op), wide),
                      LAMBDA r : Require(ConstantsOK(op, r.v, pool), Got(Instruction(op, wide, r.v), r.p)))

Located(id, offset, instruction) == [id |-> id, offset |-> offset, instruction |-> instruction]

RECURSIVE ReadInstructions(_, _, _, _, _)
ReadInstructions(b, p, major, pool, read) ==
  IF p > Len(b) THEN Got(read, p)
  ELSE Then(ReadInstruction(b, p, major, pool), LAMBDA r :
         ReadInstructions(b, r.p, major, pool, Append(read, Located(Len(read), p - 1, r.v))))

\* DecodedCode: the instructions, and the map from first bytes to ids.
Decoded(instructions) ==
  [instructions |-> instructions,
   offsets |-> [o \in {instructions[i].offset : i \in DOMAIN instructions} |->
                  (CHOOSE i \in DOMAIN instructions : instructions[i].offset = o) - 1]]

Branches(located) ==
  {j \in DOMAIN located.instruction.operands : located.instruction.operands[j].role = "branch"}
TargetOffset(located, j) == located.offset + located.instruction.operands[j].value

DecodeInstructions(b, major, pool) ==
  Then(ReadInstructions(b, 1, major, pool, <<>>), LAMBDA r :
    LET code == Decoded(r.v)
    IN  Require(\A i \in DOMAIN r.v : \A j \in Branches(r.v[i]) :
                  TargetOffset(r.v[i], j) \in DOMAIN code.offsets,
                Got(code, r.p)))
-----------------------------------------------------------------------------
(* encode_instructions *)
Ids(code) == {code.instructions[i].id : i \in DOMAIN code.instructions}

\* The id each branch operand means, before anything moves.
Meant(code, located, j) == code.offsets[TargetOffset(located, j)]
TargetsResolve(code) ==
  /\ Cardinality(Ids(code)) = Len(code.instructions)
  /\ \A i \in DOMAIN code.instructions : LET located == code.instructions[i] IN
       \A j \in Branches(located) :
         /\ TargetOffset(located, j) \in DOMAIN code.offsets
         /\ Meant(code, located, j) \in Ids(code)

Roles(operands) == [i \in DOMAIN operands |-> operands[i].role]
Written(fields) == SelectSeq(fields, LAMBDA f : f.role # "zero")

\* validate_shape and the operand patterns of encode_one.
ShapeOK(instruction) ==
  LET roles == Roles(instruction.operands)
      n == Len(roles)
  IN  /\ instruction.wide => Widenable(instruction.op)
      /\ CASE instruction.op = TableSwitch ->
                /\ n >= 3 /\ roles = <<"branch", "low", "high">> \o [i \in 1..n - 3 |-> "branch"]
                /\ instruction.operands[3].value - instruction.operands[2].value + 1 = n - 3
                /\ n > 3
           [] instruction.op = LookupSwitch ->
                /\ n % 2 = 1
                /\ roles = [i \in 1..n |-> IF i % 2 = 0 THEN "key" ELSE "branch"]
                /\ Increasing(Keys(instruction.operands))
           [] OTHER ->
                /\ instruction.op # Wide
                /\ roles = Roles(Written(Operands(instruction.op)))

FixedWidth(instruction) ==
  FoldLeft(LAMBDA acc, f : acc + FieldWidth(f, instruction.wide), 0, Operands(instruction.op))

InstructionEnd(instruction, start) ==
  LET n == Len(instruction.operands)
  IN  start + (IF instruction.wide THEN 2 ELSE 1) +
      CASE instruction.op = TableSwitch  -> Padding(start + 1) + 12 + 4 * (n - 3)
        [] instruction.op = LookupSwitch -> Padding(start + 1) + 8 + 8 * ((n - 1) \div 2)
        [] OTHER                         -> FixedWidth(instruction)

Layout(instructions) ==
  FoldLeft(LAMBDA acc, located :
             [offsets |-> Append(acc.offsets, acc.end),
              end |-> InstructionEnd(located.instruction, acc.end)],
           [offsets |-> <<>>, end |-> 0], instructions)

\* What a signed or unsigned operand may be in its width.
Fits(role, value, width) ==
  CASE role \in Signedness /\ width = 1 -> value \in -128..127
    [] role \in Signedness /\ width = 2 -> value \in -ShortMax - 1..ShortMax
    [] role \in Signedness              -> TRUE
    [] OTHER                            -> value \in 0..256^width - 1

EncodeFields(instruction, fields) ==
  LET wide == instruction.wide
      step(acc, f) ==
        IF f.role = "zero" THEN [acc EXCEPT !.bytes = @ \o BigEndian(0, f.width)]
        ELSE LET value == instruction.operands[acc.next].value
                 w == FieldWidth(f, wide)
             IN  [bytes |-> acc.bytes \o BigEndian(value, w), next |-> acc.next + 1,
                  ok |-> acc.ok /\ Fits(f.role, value, w)]
  IN  FoldLeft(step, [bytes |-> <<>>, next |-> 1, ok |-> TRUE], fields)

EncodeSwitch(instruction, start) ==
  LET word == [i \in DOMAIN instruction.operands |-> BigEndian(instruction.operands[i].value, 4)]
      pairs == (Len(word) - 1) \div 2
      count == IF instruction.op = LookupSwitch THEN BigEndian(pairs, 4) ELSE <<>>
  IN  [i \in 1..Padding(start + 1) |-> 0] \o word[1] \o count \o Concat(Tail(word))

EncodeOne(instruction, start) ==
  LET head == IF instruction.wide THEN <<Wide, instruction.op>> ELSE <<instruction.op>>
      body == EncodeFields(instruction, Operands(instruction.op))
  IN  IF instruction.op \in {TableSwitch, LookupSwitch}
      THEN Got(head \o EncodeSwitch(instruction, start), 0)
      ELSE Require(body.ok, Got(head \o body.bytes, 0))

\* Mutant: the targets are looked up among the new offsets.
RelocatedLate(code, offsets) ==
  LET list == code.instructions
  IN  [i \in DOMAIN list |-> [list[i] EXCEPT !.offset = offsets[i]]]

\* The instructions at their new offsets, every branch to the instruction it
\* meant.  The caller's code changes only when every part could be encoded.
Relocated(code, offsets) ==
  LET list == code.instructions
      at(id) == offsets[CHOOSE i \in DOMAIN list : list[i].id = id]
      moved(i, o, j) ==
        IF o.role = "branch" THEN [o EXCEPT !.value = at(Meant(code, list[i], j)) - offsets[i]] ELSE o
  IN  [i \in DOMAIN list |->
         [id |-> list[i].id, offset |-> offsets[i],
          instruction |-> [list[i].instruction EXCEPT !.operands =
                             [j \in DOMAIN @ |-> moved(i, @[j], j)]]]]

EncodeInstructions(code, major) ==
  LET list == code.instructions
      offsets == Layout(list).offsets
      moved == Relocated(code, offsets)
      pieces == [i \in DOMAIN moved |-> EncodeOne(moved[i].instruction, offsets[i])]
  IN  IF ~TargetsResolve(code) \/ ~\A i \in DOMAIN list :
              Admitted(list[i].instruction.op, major) /\ ShapeOK(list[i].instruction)
         THEN [ok |-> FALSE, bytes |-> <<>>, code |-> code]
      ELSE IF \E i \in DOMAIN pieces : ~pieces[i].ok
         THEN [ok |-> FALSE, bytes |-> <<>>, code |-> code]
      ELSE [ok |-> TRUE, bytes |-> Concat([i \in DOMAIN pieces |-> pieces[i].v]),
            code |-> [instructions |-> moved,
                      offsets |-> [o \in {offsets[i] : i \in DOMAIN moved} |->
                                     moved[CHOOSE i \in DOMAIN moved : offsets[i] = o].id]]]
=============================================================================
