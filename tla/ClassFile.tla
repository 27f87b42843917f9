------------------------------ MODULE ClassFile ------------------------------
(***************************************************************************)
(* The class shell (shell/model.rs, shell/codec.rs) and the projection of  *)
(* a class file as data (runtime.rs): what is read structurally, what is   *)
(* checked on top of it, what is written, and the replacement of the code  *)
(* of one method.                                                          *)
(***************************************************************************)
EXTENDS ClassCode, ClassAttributes

CONSTANTS
  Limits,       \* the caller's ShellBudget and its allocation budget
  MaxCode       \* 65535 in the code: the longest code array

ASSUME LimitsAssumption ==
  /\ Limits \in [interfaces : Nat, fields : Nat, methods : Nat, attributes : Nat, bytes : Nat,
                 allocation : Nat]
  /\ MaxCode \in Nat

Magic == <<202, 254, 186, 190>>

\* An attribute keeps its bytes and the span it was read from.
Attribute(name, length, bytes, start, end) ==
  [name |-> name, length |-> length, bytes |-> bytes, start |-> start, end |-> end]

ReadAttribute(b, p) ==
  Then(ReadUnsigned(b, p, 2), LAMBDA name :
  Then(ReadUnsigned(b, name.p, 4), LAMBDA length :
  Then(Take(b, length.p, length.v), LAMBDA body :
    Got(Attribute(name.v, length.v, body.v, p - 1, body.p - 1), body.p))))

\* check_count
Within(limit, limits) == IF limit < limits.allocation THEN limit ELSE limits.allocation

ReadAttributes(b, p, limits) ==
  Counted(b, p, 2, Within(limits.attributes, limits), LAMBDA q : ReadAttribute(b, q))

ReadMember(b, p, limits) ==
  Then(ReadFields(b, p, <<2, 2, 2>>), LAMBDA head :
  Then(ReadAttributes(b, head.p, limits), LAMBDA attributes :
    Got([flags |-> head.v[1], name |-> head.v[2], descriptor |-> head.v[3],
         attributes |-> attributes.v], attributes.p)))

ReadMembers(b, p, limit, limits) ==
  Counted(b, p, 2, Within(limit, limits), LAMBDA q : ReadMember(b, q, limits))

AttributeLists(shell) ==
  [i \in DOMAIN shell.fields |-> shell.fields[i].attributes]
    \o [i \in DOMAIN shell.methods |-> shell.methods[i].attributes] \o <<shell.attributes>>
AllAttributes(shell) == Concat(AttributeLists(shell))

\* DecodeState adds up the attributes and their bytes over the whole class;
\* the sums only grow, so the last one decides.
WithinBudget(shell, limits) ==
  /\ Len(AllAttributes(shell)) <= Within(limits.attributes, limits)
  /\ FoldLeft(LAMBDA acc, a : acc + a.length, 0, AllAttributes(shell)) <= Within(limits.bytes, limits)

DecodeShell(b, limits) ==
  Then(Take(b, 1, 4), LAMBDA magic : IF magic.v # Magic THEN Err ELSE
  Then(ReadFields(b, magic.p, <<2, 2>>), LAMBDA version :
  Then(DecodePool(b, version.p, version.v[2], limits.allocation), LAMBDA pool :
  Then(ReadFields(b, pool.p, <<2, 2, 2>>), LAMBDA names :
  Then(Counted(b, names.p, 2, Within(limits.interfaces, limits), LAMBDA q : ReadUnsigned(b, q, 2)), LAMBDA interfaces :
  Then(ReadMembers(b, interfaces.p, limits.fields, limits), LAMBDA fields :
  Then(ReadMembers(b, fields.p, limits.methods, limits), LAMBDA methods :
  Then(ReadAttributes(b, methods.p, limits), LAMBDA attributes :
    LET shell == [minor |-> version.v[1], major |-> version.v[2], pool |-> pool.v,
                  flags |-> names.v[1], this |-> names.v[2], super |-> names.v[3],
                  interfaces |-> interfaces.v, fields |-> fields.v, methods |-> methods.v,
                  attributes |-> attributes.v]
    IN  Require(attributes.p = Len(b) + 1 /\ WithinBudget(shell, limits), Got(shell, attributes.p))))))))))

\* ClassShell::validate
IsClass(shell, i) == Names(shell.pool, i, {Class})
IsUtf8(shell, i) == Names(shell.pool, i, {Utf8})
Range2(s) == {s[i] : i \in DOMAIN s}
Valid(shell) ==
  /\ IsClass(shell, shell.this)
  /\ shell.super = 0 \/ IsClass(shell, shell.super)
  /\ \A i \in Range2(shell.interfaces) : IsClass(shell, i)
  /\ \A m \in Range2(shell.fields) \cup Range2(shell.methods) :
       IsUtf8(shell, m.name) /\ IsUtf8(shell, m.descriptor)
  /\ \A a \in Range2(AllAttributes(shell)) : IsUtf8(shell, a.name)
-----------------------------------------------------------------------------
WriteTable(s, Item(_)) == BigEndian(Len(s), 2) \o Concat([i \in DOMAIN s |-> Item(s[i])])
WriteAttribute(a) == BigEndian(a.name, 2) \o BigEndian(a.length, 4) \o a.bytes
WriteMember(m) ==
  BigEndian(m.flags, 2) \o BigEndian(m.name, 2) \o BigEndian(m.descriptor, 2)
    \o WriteTable(m.attributes, WriteAttribute)

EncodeShell(shell) ==
  LET pool == EncodePool(shell.pool, shell.major)
      bytes == Magic \o BigEndian(shell.minor, 2) \o BigEndian(shell.major, 2) \o pool.v
                 \o BigEndian(shell.flags, 2) \o BigEndian(shell.this, 2) \o BigEndian(shell.super, 2)
                 \o WriteTable(shell.interfaces, LAMBDA i : BigEndian(i, 2))
                 \o WriteTable(shell.fields, WriteMember) \o WriteTable(shell.methods, WriteMember)
                 \o WriteTable(shell.attributes, WriteAttribute)
  IN  IF ~Valid(shell) \/ ~pool.ok THEN Err
      ELSE Require((\A a \in Range2(AllAttributes(shell)) : a.length = Len(a.bytes)) /\ Len(bytes) <= Limits.allocation,
                   Got(bytes, 0))
-----------------------------------------------------------------------------
(* replace_method_code *)
CodeText == <<67, 111, 100, 101>>
SpellsCode(pool, i) == Names(pool, i, {Utf8}) /\ pool[i].data = CodeText

\* The editor looks for the first entry that says Code and for the first
\* attribute that has this very index.
CodeNames(shell) == {i \in Indices(shell.pool) : SpellsCode(shell.pool, i)}
FirstOf(S) == CHOOSE i \in S : \A j \in S : i <= j
CodeAttributes(shell, m) ==
  {k \in DOMAIN shell.methods[m].attributes :
     shell.methods[m].attributes[k].name = FirstOf(CodeNames(shell))}

Refuse(shell) == [ok |-> FALSE, shell |-> shell, shifts |-> FALSE]

ReplaceMethodCode(shell, m, code) ==
  IF CodeNames(shell) = {} \/ m \notin DOMAIN shell.methods THEN Refuse(shell)
  ELSE IF CodeAttributes(shell, m) = {} THEN Refuse(shell)
  ELSE LET k == FirstOf(CodeAttributes(shell, m))
           old == shell.methods[m].attributes[k]
           structured == DecodeCode(old.bytes, Limits.allocation, MaxCode)
           encoded == EncodeCode([structured.v EXCEPT ![3] = code], Limits.allocation, MaxCode)
           new == [old EXCEPT !.bytes = encoded.v, !.length = Len(encoded.v)]
       IN  IF ~structured.ok THEN Refuse(shell)
           ELSE IF ~encoded.ok THEN Refuse(shell)
           ELSE [ok |-> TRUE, shifts |-> Len(old.bytes) # Len(new.bytes),
                 shell |-> [shell EXCEPT !.methods[m].attributes[k] = new]]
-----------------------------------------------------------------------------
(* inspect_classfile *)
AtLeast(n, m) == IF n < m THEN m ELSE n
InspectLimits(b, bound) ==
  [interfaces |-> bound, fields |-> bound, methods |-> bound, attributes |-> bound,
   bytes |-> Len(b), allocation |-> AtLeast(4 * Len(b), 1024)]

\* The code array starts after the attribute's header of six bytes and after
\* the stack and local limits and the length of the code.
CodeStartBare(attribute) == attribute.start + 8     \* mutant: the header is forgotten
CodeStart(attribute) == attribute.start + 14

InstructionRow(m, attribute, located) ==
  [method |-> m, code |-> located.offset, byte |-> CodeStart(attribute) + located.offset,
   op |-> located.instruction.op]

InstructionRows(b, shell, m, attribute) ==
  Then(DecodeCode(attribute.bytes, AtLeast(Len(b), 1024), MaxCode), LAMBDA c :
  Then(DecodeInstructions(CodeBytes(c.v), shell.major, shell.pool), LAMBDA d :
    Got([i \in DOMAIN d.v.instructions |-> InstructionRow(m, attribute, d.v.instructions[i])], 0)))

MethodRows(b, shell, m) ==
  LET coded == SelectSeq(shell.methods[m].attributes, LAMBDA a : SpellsCode(shell.pool, a.name))
  IN  Join([i \in DOMAIN coded |-> InstructionRows(b, shell, m, coded[i])])

FirstN(s, n) == IF Len(s) <= n THEN s ELSE SubSeq(s, 1, n)

\* One failing method fails the whole projection; `bound' caps the rows.
Inspect(b, bound) ==
  Then(DecodeShell(b, InspectLimits(b, bound)), LAMBDA r : IF ~Valid(r.v) THEN Err ELSE
  Then(Join([m \in DOMAIN r.v.methods |-> MethodRows(b, r.v, m)]), LAMBDA rows :
    Got(FirstN(rows.v, bound), 0)))
=============================================================================
