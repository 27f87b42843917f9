---------------------------- MODULE ClassSession ----------------------------
(***************************************************************************)
(* A caller at work on a class file: it reads the file, looks at it as     *)
(* data, opens the code of a method, edits and encodes it, puts it back,   *)
(* changes an index of the shell, and saves.  Files come from a compiler   *)
(* that numbers the constants by itself, or are damaged on the way.        *)
(***************************************************************************)
EXTENDS ClassFile

CONSTANTS
  Legal,       \* classes as a compiler has them, see Assemble
  Irregular,   \* classes that break a rule of the format
  Fragile,     \* those whose file may be damaged
  Composed,    \* a sequence of attribute values a caller makes: layout, value, readable again
  Bound,       \* the cap on the rows of a projection
  Nesting,     \* the annotation nesting the caller allows
  MaxEdits     \* edits of one code array

VARIABLES
  source,      \* the class the file was assembled from, while it is that file
  origin,      \* "compiled", "damaged", "saved"
  file,        \* the bytes of the file
  stage,       \* "new", "open", "refused"
  shell,       \* what was read from the file, and changed since
  dirty,       \* the shell was changed
  code,        \* the instructions of the open method
  method,      \* its index, 0 if none is open
  edits,       \* edits since it was opened
  emitted,     \* the encoded code: at most one
  rows,        \* the projection of the file: at most one
  view         \* a structured view of one attribute: at most one

opened == <<code, method, edits, emitted>>
vars == <<source, origin, file, stage, shell, dirty, opened, rows, view>>
-----------------------------------------------------------------------------
(* The compiler: a constant of its pool refers to others by their position *)
(* in its list; a Long or a Double takes the next index too.               *)
Slots(constant) == IF constant.tag \in {5, 6} THEN 2 ELSE 1
IndexOf(pool, k) == FoldLeft(LAMBDA acc, c : acc + Slots(c), 1, SubSeq(pool, 1, k - 1))
Numbered(pool, c) ==
  [c EXCEPT !.refs = [i \in DOMAIN @ |->
     IF (c.tag = MethodHandle \/ c.tag \in {17, 18}) /\ i = 1 THEN @[i] ELSE IndexOf(pool, @[i])]]

AssembleAttribute(pool, a) ==
  BigEndian(IndexOf(pool, a.name), 2) \o BigEndian(Len(a.bytes), 4) \o a.bytes
AssembleTable(s, Item(_)) == BigEndian(Len(s), 2) \o Concat([i \in DOMAIN s |-> Item(s[i])])
AssembleMember(pool, m) ==
  BigEndian(1, 2) \o BigEndian(IndexOf(pool, m.name), 2) \o BigEndian(IndexOf(pool, m.descriptor), 2)
    \o AssembleTable(m.attributes, LAMBDA a : AssembleAttribute(pool, a))

Assemble(s) ==
  <<202, 254, 186, 190>> \o BigEndian(0, 2) \o BigEndian(s.major, 2)
    \o BigEndian(IndexOf(s.pool, Len(s.pool) + 1), 2)
    \o Concat([k \in DOMAIN s.pool |-> EncodeConstant(Numbered(s.pool, s.pool[k]))])
    \o BigEndian(33, 2) \o BigEndian(IndexOf(s.pool, s.this), 2) \o BigEndian(0, 2)
    \o AssembleTable(s.interfaces, LAMBDA i : BigEndian(IndexOf(s.pool, i), 2))
    \o AssembleTable(s.fields, LAMBDA m : AssembleMember(s.pool, m))
    \o AssembleTable(s.methods, LAMBDA m : AssembleMember(s.pool, m))
    \o AssembleTable(s.attributes, LAMBDA a : AssembleAttribute(s.pool, a))

NoShell == <<>>
NoCode == <<>>
Closed == code = NoCode /\ method = 0 /\ edits = 0 /\ emitted = <<>>

Init ==
  /\ source \in Legal \cup Irregular /\ origin = "compiled" /\ file = Assemble(source)
  /\ stage = "new" /\ shell = NoShell /\ dirty = FALSE
  /\ Closed /\ rows = <<>> /\ view = <<>>

\* The file is cut, grows, or loses a byte to another value.
Damaged(b) ==
  {SubSeq(b, 1, n) : n \in 0..Len(b) - 1} \cup {Append(b, 0)}
    \cup {[b EXCEPT ![i] = x] : i \in DOMAIN b, x \in {0, 1, 5, 255}}

Damage ==
  /\ stage = "new" /\ source \in Fragile
  /\ file' \in Damaged(file) \ {file} /\ source' = <<>> /\ origin' = "damaged"
  /\ UNCHANGED <<stage, shell, dirty, opened, rows, view>>
-----------------------------------------------------------------------------
Read1 ==
  /\ stage = "new"
  /\ LET r == DecodeShell(file, Limits)
     IN  \/ r.ok /\ stage' = "open" /\ shell' = r.v
         \/ ~r.ok /\ stage' = "refused" /\ UNCHANGED shell
  /\ UNCHANGED <<source, origin, file, dirty, opened, rows, view>>

\* Bounds: one projection or view at a time, and instead of an edit.  They
\* read the file and the shell, and change neither.
Idle == rows = <<>> /\ view = <<>>

\* The projection reads the file by itself, with limits of its own.
InspectFile ==
  /\ stage # "new" /\ Idle /\ method = 0 /\ ~dirty
  /\ rows' = <<Inspect(file, Bound)>>
  /\ UNCHANGED <<source, origin, file, stage, shell, dirty, opened, view>>

Open == stage = "open"
CodeOf(s, m) == SelectSeq(s.methods[m].attributes, LAMBDA a : SpellsCode(s.pool, a.name))

\* Bound: one method is edited between reading and saving.
OpenMethod ==
  /\ Open /\ Idle /\ method = 0 /\ ~dirty /\ origin # "saved"
  /\ \E m \in DOMAIN shell.methods :
       /\ CodeOf(shell, m) # <<>>
       /\ LET attribute == DecodeCode(CodeOf(shell, m)[1].bytes, Limits.allocation, MaxCode)
              decoded == DecodeInstructions(CodeBytes(attribute.v), shell.major, shell.pool)
          IN  attribute.ok /\ decoded.ok /\ code' = decoded.v
       /\ method' = m
  /\ UNCHANGED <<source, origin, file, stage, shell, dirty, edits, emitted, rows, view>>

\* Bound: only a compiled file is edited.
Editing == Open /\ method > 0 /\ edits < MaxEdits /\ origin = "compiled"
Edited(list) ==
  /\ code' = [code EXCEPT !.instructions = list]
  /\ edits' = edits + 1 /\ emitted' = <<>>
  /\ UNCHANGED <<source, origin, file, stage, shell, dirty, method, rows, view>>

Size == Len(code.instructions)
KnownIds == Ids(code) \cup {code.offsets[o] : o \in DOMAIN code.offsets}
FreshId == CHOOSE n \in 0..Cardinality(KnownIds) : n \notin KnownIds
OffsetAt(i) == IF i <= Size THEN code.instructions[i].offset ELSE 0
Goto(offset, target) == Instruction(167, FALSE, <<Operand("branch", target - offset)>>)

\* A new instruction sits where the next one was, as far as branches go.
Insert ==
  /\ Editing
  /\ \E i \in 1..Size + 1 :
       \E new \in {Instruction(0, FALSE, <<>>)} \cup {Goto(OffsetAt(i), t) : t \in DOMAIN code.offsets} :
         Edited(SubSeq(code.instructions, 1, i - 1) \o <<Located(FreshId, OffsetAt(i), new)>>
                  \o SubSeq(code.instructions, i, Size))

RemoveInstruction ==
  /\ Editing
  /\ \E i \in 1..Size :
       Edited(SubSeq(code.instructions, 1, i - 1) \o SubSeq(code.instructions, i + 1, Size))

\* The wide form of an instruction, and the long form of a jump.
Lengthened(instruction) ==
  IF instruction.op = 167 THEN [instruction EXCEPT !.op = 200] ELSE [instruction EXCEPT !.wide = TRUE]

Resize ==
  /\ Editing
  /\ \E i \in 1..Size :
       Edited([code.instructions EXCEPT ![i].instruction = Lengthened(@)])

EncodeMethod ==
  /\ Open /\ method > 0 /\ emitted = <<>>
  /\ LET r == EncodeInstructions(code, shell.major)
     IN  code' = r.code /\ emitted' = IF r.ok THEN <<r.bytes>> ELSE <<>>
  /\ UNCHANGED <<source, origin, file, stage, shell, dirty, method, edits, rows, view>>

Install ==
  /\ Open /\ emitted # <<>>
  /\ LET r == ReplaceMethodCode(shell, method, emitted[1])
     IN  shell' = r.shell /\ dirty' = (dirty \/ r.ok)
  /\ code' = NoCode /\ method' = 0 /\ edits' = 0 /\ emitted' = <<>>
  /\ UNCHANGED <<source, origin, file, stage, rows, view>>

\* The fields of the shell are public.
SetThisClass ==
  /\ Open /\ Idle /\ method = 0 /\ ~dirty /\ origin = "compiled"
  /\ \E i \in 0..Cardinality(Indices(shell.pool)) : i # shell.this /\ shell' = [shell EXCEPT !.this = i]
  /\ dirty' = TRUE
  /\ UNCHANGED <<source, origin, file, stage, opened, rows, view>>

\* The file is written, to be read again; a shell that is not valid is not.
Save ==
  /\ Open /\ dirty /\ method = 0
  /\ EncodeShell(shell).ok
  /\ file' = EncodeShell(shell).v /\ stage' = "new" /\ source' = <<>> /\ origin' = "saved" /\ rows' = <<>>
  /\ shell' = NoShell /\ dirty' = FALSE
  /\ UNCHANGED <<opened, view>>
-----------------------------------------------------------------------------
Layouts ==
  [Index |-> IndexAttribute, Marker |-> MarkerAttribute, Bytes |-> ByteAttribute, IndexList |-> IndexList,
   InnerClasses |-> InnerClasses, EnclosingMethod |-> EnclosingMethod, LineNumbers |-> LineNumberTable,
   LocalVariables |-> LocalVariables, MethodParameters |-> MethodParameters,
   BootstrapMethods |-> BootstrapMethods, Record |-> Record, Module |-> Module,
   StackMapTable |-> StackMapTable, Annotations |-> Annotations,
   ParameterAnnotations |-> ParameterAnnotations, TypeAnnotations |-> TypeAnnotations,
   AnnotationDefault |-> AnnotationDefault, Code |-> CodeAttribute]
Decoder(name, b) ==
  IF name = "Code" THEN DecodeCode(b, Limits.allocation, MaxCode)
  ELSE Read(Layouts[name], b, Limits.allocation, Nesting)
Encoder(name, value) ==
  IF name = "Code" THEN EncodeCode(value, Limits.allocation, MaxCode)
  ELSE Write(Layouts[name], value, Limits.allocation)

\* The caller decides which attribute to take for what.  Bound: not in a
\* saved file, whose attributes are those of the file before.
ViewAttribute ==
  /\ Open /\ Idle /\ method = 0 /\ ~dirty /\ origin # "saved"
  /\ \E a \in Range2(AllAttributes(shell)), name \in DOMAIN Layouts :
       view' = <<[name |-> name, payload |-> a.bytes, reading |-> Decoder(name, a.bytes), composed |-> <<>>]>>
  /\ UNCHANGED <<source, origin, file, stage, shell, dirty, opened, rows>>

ComposeAttribute ==
  /\ Open /\ Idle /\ method = 0 /\ ~dirty /\ origin = "compiled"
  /\ \E i \in DOMAIN Composed :
       LET c == Composed[i]
           r == Encoder(c.name, c.value)
       IN  view' = <<[name |-> c.name, payload |-> r.v, composed |-> <<c>>,
                      reading |-> Then(r, LAMBDA x : Decoder(c.name, x.v))]>>
  /\ UNCHANGED <<source, origin, file, stage, shell, dirty, opened, rows>>

Next ==
  \/ Damage \/ Read1 \/ InspectFile
  \/ OpenMethod \/ Insert \/ RemoveInstruction \/ Resize \/ EncodeMethod \/ Install
  \/ SetThisClass \/ Save
  \/ ViewAttribute \/ ComposeAttribute

Spec == Init /\ [][Next]_vars
-----------------------------------------------------------------------------
\* What the bytes say, wherever they were read.
Plain(shell_) ==
  LET bare(list) == [i \in DOMAIN list |-> [list[i] EXCEPT !.start = 0, !.end = 0]]
      member(m) == [m EXCEPT !.attributes = bare(@)]
  IN  [shell_ EXCEPT !.fields = [i \in DOMAIN @ |-> member(@[i])],
                     !.methods = [i \in DOMAIN @ |-> member(@[i])],
                     !.attributes = bare(@)]
Roomy(b) ==
  [interfaces |-> Len(b), fields |-> Len(b), methods |-> Len(b), attributes |-> Len(b),
   bytes |-> Len(b), allocation |-> Len(b)]

\* The shell names what the compiler meant: every constant sits at its own
\* index, a Long or a Double before it or not.
NamesTheSource ==
  LET at(k) == IndexOf(source.pool, k)
  IN  /\ \A k \in DOMAIN source.pool : shell.pool[at(k)] = Numbered(source.pool, source.pool[k])
      /\ shell.this = at(source.this)
      /\ shell.interfaces = [i \in DOMAIN source.interfaces |-> at(source.interfaces[i])]
      /\ \A i \in DOMAIN source.methods : shell.methods[i].name = at(source.methods[i].name)

\* FileFaithful: a file that obeys the format is not refused; what is read
\* from it names what its compiler meant; it is written back byte for byte;
\* and whatever a caller did to the shell, what is written reads as the shell
\* is (ClassShell::decode, validate, encode; ConstantPool::decode, encode).
FileFaithful ==
  /\ stage = "refused" => source \notin Legal
  /\ stage = "open" /\ ~dirty /\ source # <<>> => NamesTheSource
  /\ stage = "open" /\ method = 0 =>
       LET written == EncodeShell(shell)
       IN  written.ok =>
             LET again == DecodeShell(written.v, Roomy(written.v))
             IN  /\ again.ok
                 /\ Plain(again.v) = Plain(shell)
                 /\ ~dirty => written.v = file

\* The instruction every branch of a code means.
MeantBy(c) ==
  [i \in DOMAIN c.instructions |->
     [j \in Branches(c.instructions[i]) |-> Meant(c, c.instructions[i], j)]]
Listed(c) ==
  [i \in DOMAIN c.instructions |-> <<c.instructions[i].offset, c.instructions[i].instruction>>]

EncodingKeeps ==
  emitted = <<>> /\ emitted' # <<>> =>
    LET again == DecodeInstructions(emitted'[1], shell.major, shell.pool)
    IN  /\ MeantBy(code') = MeantBy(code)
        /\ [i \in DOMAIN code'.instructions |-> code'.instructions[i].id]
             = [i \in DOMAIN code.instructions |-> code.instructions[i].id]
        /\ again.ok
        /\ Listed(again.v) = Listed(code')

Body1(attribute) == DecodeCode(attribute.bytes, Limits.allocation, MaxCode).v
InstallingKeeps ==
  emitted # <<>> /\ method' = 0 /\ shell' # shell =>
    \E k \in DOMAIN shell.methods[method].attributes :
      LET old == shell.methods[method].attributes[k]
          new == shell'.methods[method].attributes[k]
      IN  /\ SpellsCode(shell.pool, old.name)
          /\ Body1(new) = [Body1(old) EXCEPT ![3] = emitted[1]]
          /\ [shell' EXCEPT !.methods[method].attributes[k] = old] = shell

\* A step at the open method that is neither an edit nor gave any bytes: the
\* encoding was refused.
RefusalKeeps ==
  emitted = <<>> /\ emitted' = <<>> /\ method' = method /\ edits' = edits => code' = code

\* EditsKeepMeaning: encoding an edited method leaves every branch and every
\* switch arm at the instruction it meant, whatever moved, and gives bytes
\* that read as the instructions at the offsets the caller is told; when one
\* instruction of it cannot be encoded, not one of the others has moved.
\* Putting the bytes back replaces the code array of that method whole and
\* touches nothing else, its table of handlers included, or leaves the shell
\* as it was (encode_instructions, ClassShell::replace_method_code).
EditsKeepMeaning == [][EncodingKeeps /\ RefusalKeeps /\ InstallingKeeps]_vars

\* A handler that protects whole instructions and starts at one.
Starts(c) == {c.instructions[i].offset : i \in DOMAIN c.instructions}
Guards(row, bytes) ==
  LET starts == Starts(DecodeInstructions(bytes, shell.major, shell.pool).v)
  IN  row[1] \in starts /\ row[2] \in starts \cup {Len(bytes)} /\ row[3] \in starts

\* RangesStayValid: no edit that is put back leaves a handler that begins,
\* ends or is entered in the middle of an instruction, when it did not before
\* ("an edit that invalidates exception ranges is rejected",
\* ClassShell::replace_method_code; "the checked Code encoder validates all
\* exception boundaries before committing it", edit_fidelity.rs).
RangesStayValid ==
  [][emitted # <<>> /\ method' = 0 /\ shell' # shell =>
       LET handlers == Body1(CodeOf(shell, method)[1])[4]
           before == CodeBytes(Body1(CodeOf(shell, method)[1]))
       IN  \A k \in DOMAIN handlers : Guards(handlers[k], before) => Guards(handlers[k], emitted[1])]_vars

\* RowsPointAtOpcodes: the byte an instruction row names holds its opcode, or
\* the wide prefix right before it (instruction rows of inspect_classfile).
RowsPointAtOpcodes ==
  \A r \in Range2(rows) : r.ok =>
    \A row \in Range2(r.v) :
      \/ file[row.byte + 1] = row.op
      \/ file[row.byte + 1] = Wide /\ file[row.byte + 2] = row.op

\* ViewsExact: what a structured decoder accepts its encoder writes back byte
\* for byte, with nothing left over and nothing made up; and a value a caller
\* made reads back as itself unless its constant tag or its nesting is one
\* that only the decoder refuses (the codecs of attribute/*.rs).
ViewsExact ==
  \A seen \in Range2(view) :
    /\ seen.reading.ok /\ Len(seen.payload) <= Limits.allocation =>
         Encoder(seen.name, seen.reading.v) = Got(seen.payload, 0)
    /\ \A c \in Range2(seen.composed) :
         IF c.readable THEN seen.reading.ok /\ seen.reading.v = c.value ELSE ~seen.reading.ok
=============================================================================
