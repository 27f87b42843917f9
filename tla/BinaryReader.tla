---------------------------- MODULE BinaryReader ----------------------------
(***************************************************************************)
(* The reader of SLB8 binary frames (crates/sim-codec-binary): header,     *)
(* side tables, expression body, origin payloads, trailing-byte check.     *)
(*                                                                         *)
(* A frame is a sequence of units.  A unit is a byte or a whole variable-  *)
(* length integer: u below NonMinimal is that number in its shortest form, *)
(* NonMinimal + n is a longer encoding of n, which reads as the number n   *)
(* but is no tag and no text.  The four magic bytes are one unit.          *)
(*                                                                         *)
(* The reader recurses over the body.  Each activation is an entry of      *)
(* `stack': what it is building, what it has read, and what it still has   *)
(* to read, in order, as a list of instructions.                           *)
(***************************************************************************)
EXTENDS Naturals, Sequences, Lists

CONSTANTS
  NonMinimal,   \* see above
  Magic,        \* the unit that stands for b"SLB8"
  Inputs,       \* the frames the reader may be given
  LimitChoices  \* the DecodeLimits a caller may pass

Limits == [frame : Nat, text : Nat, blob : Nat, entries : Nat, nodes : Nat,
           depth : Nat, trivia : Nat]

ASSUME BinaryAssumption ==
  /\ NonMinimal \in Nat /\ Magic \in Nat
  /\ Inputs \subseteq Seq(Nat)
  /\ LimitChoices \subseteq Limits

VARIABLES
  frame,    \* BinaryReader.bytes
  limits,   \* BinaryReader.limits
  index,    \* BinaryReader.index
  nodes,    \* BinaryReader.expr_nodes
  flags,    \* BinaryReader.flags
  tables,   \* BinaryReader.tables, filled in while the header is read
  stack,    \* activations, outermost first
  pc

vars == <<frame, limits, index, nodes, flags, tables, stack, pc>>

-----------------------------------------------------------------------------
Version == 1
FlagOrigin == 1
FlagTreeOrigin == 2

\* BinaryTag, by wire byte: unit n is Tags[n + 1].
Tags == <<"Nil", "False", "True", "Number", "Symbol", "String", "Bytes", "List",
          "Vector", "Map", "Set", "Call", "Infix", "Prefix", "Postfix", "Block",
          "Quote", "Annotated", "Extension", "Local">>

\* What read_expr_with_depth reads after each tag.
Script(tag) ==
  CASE tag \in {"Nil", "False", "True"} -> <<>>
    [] tag = "Number" -> <<"domain", "text">>
    [] tag \in {"Symbol", "Local"} -> <<"symbol">>
    [] tag = "String" -> <<"text">>
    [] tag = "Bytes" -> <<"blob">>
    [] tag \in {"List", "Vector", "Set", "Block"} -> <<"exprs">>
    [] tag = "Map" -> <<"pairs">>
    [] tag = "Call" -> <<"expr", "exprs">>
    [] tag = "Infix" -> <<"symbol", "expr", "expr">>
    [] tag \in {"Prefix", "Postfix", "Extension"} -> <<"symbol", "expr">>
    [] tag = "Quote" -> <<"mode", "expr">>
    [] tag = "Annotated" -> <<"expr", "notes">>

\* What one entry of a counted part consists of.
Entry(part) ==
  CASE part = "exprs"   -> <<"expr">>
    [] part = "pairs"   -> <<"expr", "expr">>
    [] part = "notes"   -> <<"symbol", "expr">>
    [] part = "trivia"  -> <<"triviatag", "text">>
    [] part = "libs"    -> <<"text">>
    [] part \in {"symbols", "domains"} -> <<"record">>

OriginScript == <<"num", "text", "num", "num", "trivia">>

Counted == {"exprs", "pairs", "notes", "trivia"}
TableParts == {"libs", "symbols", "domains"}
Operands == {"symbol", "domain", "mode", "text", "blob", "num", "triviatag", "record"}

\* Whatever the reader builds: expressions, symbols, texts, origins, tables.
Value(tag, text, kids) == [tag |-> tag, text |-> text, kids |-> kids]
Nothing == Value("nothing", <<>>, <<>>)

ExprTags == {Tags[i] : i \in 1..Len(Tags)}
IsExpr(v) == v.tag \in ExprTags

-----------------------------------------------------------------------------
\* Instructions, and activations that follow a list of them.  `inner' is the
\* depth at which an activation reads its children.
Instr(op) == [do |-> op, expr |-> Nothing, depth |-> 0]
MarkInstr(expr, depth) == [do |-> "mark", expr |-> expr, depth |-> depth]
Instrs(ops) == [i \in 1..Len(ops) |-> Instr(ops[i])]

Repeat(ops, n) ==
  [i \in 1..(n * Len(ops)) |-> Instr(ops[((i - 1) % Len(ops)) + 1])]

Activation(tag, todo, inner) ==
  [tag |-> tag, kids |-> <<>>, todo |-> todo, inner |-> inner]

Top == TopOf(stack)
Do == Head(Top.todo).do
Running(ops) == pc = "read" /\ Top.todo # <<>> /\ Do \in ops

\* The activation on top has taken its first instruction.
Advance(kids, more) ==
  [tag |-> Top.tag, kids |-> kids, todo |-> more \o Tail(Top.todo),
   inner |-> Top.inner]

Fail ==
  /\ pc' = "error"
  /\ UNCHANGED <<frame, limits, index, nodes, flags, tables, stack>>

-----------------------------------------------------------------------------
Has(n) == index + n <= Len(frame)
Unit(i) == frame[index + i]
Number(u) == IF u >= NonMinimal THEN u - NonMinimal ELSE u
IsText(s) == \A i \in 1..Len(s) : s[i] < NonMinimal

Unread == [ok |-> FALSE, size |-> 0, value |-> Nothing]
ReadAs(size, value) == [ok |-> TRUE, size |-> size, value |-> value]

\* read_blob_with_limit and read_string, starting at the i-th unread unit.
Blob(i, limit, text) ==
  IF ~Has(i) THEN Unread
  ELSE LET n == Number(Unit(i))
           s == SubSeq(frame, index + i + 1, index + i + n)
       IN  IF n > limit \/ ~Has(i + n) \/ (text /\ ~IsText(s)) THEN Unread
           ELSE ReadAs(i + n, Value("text", s, <<>>))

\* read_symbol and read_number_domain.
Lookup(table) ==
  IF ~Has(1) \/ Number(Unit(1)) >= Len(table) THEN Unread
  ELSE ReadAs(1, table[Number(Unit(1)) + 1])

\* read_symbol_record: a namespace slot, 0 for none, then the name.
Record ==
  LET slot == Number(Unit(1))
      name == Blob(2, limits.text, TRUE)
      libs == tables.libs
  IN  IF ~Has(1) \/ ~name.ok THEN Unread
      ELSE IF slot > Len(libs) THEN Unread
      ELSE ReadAs(name.size,
             Value("name", name.value.text, IF slot = 0 THEN <<>> ELSE <<libs[slot]>>))

\* One byte in 0..top: read_quote_mode, the trivia tag.
Byte(tag, top) ==
  IF Has(1) /\ Unit(1) <= top THEN ReadAs(1, Value(tag, <<Unit(1)>>, <<>>))
  ELSE Unread

Operand(op) ==
  CASE op = "symbol"    -> Lookup(tables.symbols)
    [] op = "domain"    -> Lookup(tables.domains)
    [] op = "mode"      -> Byte("mode", 4)
    [] op = "triviatag" -> Byte("trivia", 2)
    [] op = "text"      -> Blob(1, limits.text, TRUE)
    [] op = "blob"      -> Blob(1, limits.blob, FALSE)
    [] op = "record"    -> Record
    [] op = "num"       ->
         IF Has(1) THEN ReadAs(1, Value("num", <<Number(Unit(1))>>, <<>>))
         ELSE Unread

-----------------------------------------------------------------------------
NoTables == [libs |-> <<>>, symbols |-> <<>>, domains |-> <<>>]

Idle ==
  /\ limits \in LimitChoices
  /\ index = 0 /\ nodes = 0 /\ flags = 0
  /\ tables = NoTables
  /\ stack = <<>> /\ pc = "open"

Init == frame \in Inputs /\ Idle

\* The frame-size ceiling, magic, version and flags; then the plan for the
\* rest of the frame.
Has3 == Len(frame) >= 3
Preamble ==
  /\ Len(frame) <= limits.frame
  /\ Has3 /\ frame[1] = Magic /\ Number(frame[2]) = Version
  /\ Number(frame[3]) \in 0..(FlagOrigin + FlagTreeOrigin)

Plan(f) ==
  Instrs(<<"libs", "symbols", "domains", "expr">>
    \o (IF f \in {FlagTreeOrigin, FlagOrigin + FlagTreeOrigin}
        THEN <<"origintree">> ELSE <<>>)
    \o (IF f \in {FlagOrigin, FlagOrigin + FlagTreeOrigin}
        THEN <<"origin">> ELSE <<>>))

Open ==
  /\ pc = "open"
  /\ Preamble
  /\ index' = 3 /\ flags' = Number(frame[3])
  /\ stack' = <<Activation("frame", Plan(flags'), 0)>>
  /\ pc' = "read"
  /\ UNCHANGED <<frame, limits, nodes, tables>>

OpenFail == pc = "open" /\ ~Preamble /\ Fail

\* A table index, a string, a mode, a number.
ReadOperand ==
  /\ Running(Operands)
  /\ LET r == Operand(Do)
     IN  /\ r.ok
         /\ index' = index + r.size
         /\ stack' = ReplaceTop(stack, Advance(Append(Top.kids, r.value), <<>>))
  /\ UNCHANGED <<frame, limits, nodes, flags, tables, pc>>

OperandFail == Running(Operands) /\ ~Operand(Do).ok /\ Fail

\* read_count_with_limit.
Ceiling(op) == IF op = "trivia" THEN limits.trivia ELSE limits.entries
CountOK(op) == Has(1) /\ Number(Unit(1)) <= Ceiling(op)

ReadCount ==
  /\ Running(Counted)
  /\ CountOK(Do)
  /\ index' = index + 1
  /\ stack' = ReplaceTop(stack,
                Advance(Top.kids, Repeat(Entry(Do), Number(Unit(1)))))
  /\ UNCHANGED <<frame, limits, nodes, flags, tables, pc>>

\* A side table is read by an activation of its own.
ReadTable ==
  /\ Running(TableParts)
  /\ CountOK(Do)
  /\ index' = index + 1
  /\ stack' = Push(ReplaceTop(stack, Advance(Top.kids, <<>>)),
                   Activation(Do, Repeat(Entry(Do), Number(Unit(1))), 0))
  /\ UNCHANGED <<frame, limits, nodes, flags, tables, pc>>

\* Mutant: a count that is cut off waits for more input.
CountFailWaits ==
  /\ Running(Counted \cup TableParts) /\ ~CountOK(Do)
  /\ \/ Has(1) /\ Fail
     \/ ~Has(1) /\ UNCHANGED vars

CountFail == Running(Counted \cup TableParts) /\ ~CountOK(Do) /\ Fail

\* read_expr_with_depth: depth, then the node counter, then the tag.
TagOK == Has(1) /\ Unit(1) < Len(Tags)

\* Mutants: children at the depth of their parent; the ceiling is compared
\* with the nodes before this one.
ReadExprFlat ==
  /\ Running({"expr"})
  /\ Top.inner <= limits.depth
  /\ nodes' = nodes + 1
  /\ nodes' <= limits.nodes
  /\ TagOK
  /\ index' = index + 1
  /\ LET tag == Tags[Unit(1) + 1]
     IN  stack' = Push(ReplaceTop(stack, Advance(Top.kids, <<>>)),
                       Activation(tag, Instrs(Script(tag)), Top.inner))
  /\ UNCHANGED <<frame, limits, flags, tables, pc>>

ReadExpr ==
  /\ Running({"expr"})
  /\ Top.inner <= limits.depth
  /\ nodes' = nodes + 1
  /\ nodes' <= limits.nodes
  /\ TagOK
  /\ index' = index + 1
  /\ LET tag == Tags[Unit(1) + 1]
     IN  stack' = Push(ReplaceTop(stack, Advance(Top.kids, <<>>)),
                       Activation(tag, Instrs(Script(tag)), Top.inner + 1))
  /\ UNCHANGED <<frame, limits, flags, tables, pc>>

ExprFail ==
  /\ Running({"expr"})
  /\ Top.inner > limits.depth \/ nodes + 1 > limits.nodes \/ ~TagOK
  /\ Fail

\* read_origin.
ReadOrigin ==
  /\ Running({"origin"})
  /\ stack' = Push(ReplaceTop(stack, Advance(Top.kids, <<>>)),
                   Activation("origin", Instrs(OriginScript), 0))
  /\ UNCHANGED <<frame, limits, index, nodes, flags, tables, pc>>

\* read_origin_tree: the body just read is walked in preorder, one presence
\* byte per node.
WalkOrigins ==
  /\ Running({"origintree"})
  /\ stack' = ReplaceTop(stack,
                Advance(Top.kids, <<MarkInstr(Top.kids[Len(Top.kids)], 0)>>))
  /\ UNCHANGED <<frame, limits, index, nodes, flags, tables, pc>>

Marks(expr, depth) == [i \in 1..Len(expr.kids) |-> MarkInstr(expr.kids[i], depth)]

MarkOK == Head(Top.todo).depth <= limits.depth /\ Has(1) /\ Unit(1) \in {0, 1}

Marked == Head(Top.todo).expr
ReadMark ==
  /\ Running({"mark"}) /\ IsExpr(Marked)
  /\ MarkOK
  /\ index' = index + 1
  /\ LET h     == Head(Top.todo)
         marks == Marks(Marked, h.depth + 1)
     IN  stack' = IF Unit(1) = 0
                  THEN ReplaceTop(stack, Advance(Append(Top.kids, Nothing), marks))
                  ELSE Push(ReplaceTop(stack, Advance(Top.kids, marks)),
                            Activation("origin", Instrs(OriginScript), 0))
  /\ UNCHANGED <<frame, limits, nodes, flags, tables, pc>>

MarkFail == Running({"mark"}) /\ IsExpr(Marked) /\ ~MarkOK /\ Fail

\* Names, texts and modes are no part of the walk.
SkipMark ==
  /\ Running({"mark"}) /\ ~IsExpr(Marked)
  /\ stack' = ReplaceTop(stack, Advance(Top.kids, <<>>))
  /\ UNCHANGED <<frame, limits, index, nodes, flags, tables, pc>>

\* An activation that has read everything hands its value down the stack.
Completed == pc = "read" /\ Top.todo = <<>>

ReturnTable ==
  /\ Completed /\ Len(stack) > 1 /\ Top.tag \in TableParts
  /\ tables' = [tables EXCEPT ![Top.tag] = Top.kids]
  /\ stack' = Pop(stack)
  /\ UNCHANGED <<frame, limits, index, nodes, flags, pc>>

ReturnValue ==
  /\ Completed /\ Len(stack) > 1 /\ Top.tag \notin TableParts
  /\ LET below == Pop(stack)
         b     == TopOf(below)
     IN  stack' = ReplaceTop(below,
                    [tag |-> b.tag, todo |-> b.todo, inner |-> b.inner,
                     kids |-> Append(b.kids, Value(Top.tag, <<>>, Top.kids))])
  /\ UNCHANGED <<frame, limits, index, nodes, flags, tables, pc>>

\* Everything is read: bytes left over are an error.
Finish ==
  /\ Completed /\ Len(stack) = 1
  /\ pc' = IF index = Len(frame) THEN "done" ELSE "error"
  /\ UNCHANGED <<frame, limits, index, nodes, flags, tables, stack>>

Halted == pc \in {"done", "error"} /\ UNCHANGED vars

Step ==
  \/ Open \/ OpenFail
  \/ ReadOperand \/ OperandFail
  \/ ReadCount \/ ReadTable \/ CountFail
  \/ ReadExpr \/ ExprFail
  \/ ReadOrigin \/ WalkOrigins \/ ReadMark \/ MarkFail \/ SkipMark
  \/ ReturnTable \/ ReturnValue \/ Finish

Next == Step \/ Halted

\* The reader runs on one thread and never waits.
Spec == Init /\ [][Next]_vars /\ WF_vars(Step)

-----------------------------------------------------------------------------
(* Type invariant of the reader's scalar state. *)
TypeOK ==
  /\ frame \in Seq(Nat) /\ limits \in Limits
  /\ index \in 0..Len(frame)
  /\ nodes \in Nat /\ flags \in 0..3
  /\ pc \in {"open", "read", "done", "error"}
  /\ pc = "read" => Len(stack) >= 1

(***************************************************************************)
(* The reader never recurses deeper than the limits allow: the depth it    *)
(* passes down counts the expression activations that are really there, at *)
(* most max_depth + 1 of them on top of the one for the frame.             *)
(***************************************************************************)
RecursionBounded ==
  /\ Len(stack) <= limits.depth + 2
  /\ \A i \in 1..Len(stack) :
       stack[i].tag \in ExprTags => i = stack[i].inner + 1

(***************************************************************************)
(* Node counter: never over the ceiling, and never over the bytes read,    *)
(* so even an unlimited node ceiling leaves the frame size as the bound.   *)
(***************************************************************************)
NodesBounded == nodes <= limits.nodes /\ nodes <= index

(***************************************************************************)
(* Every frame is decided: the reader accepts it or fails.                 *)
(***************************************************************************)
Terminates == <>(pc \in {"done", "error"})
=============================================================================
