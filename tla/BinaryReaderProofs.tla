------------------------- MODULE BinaryReaderProofs -------------------------
(***************************************************************************)
(* The invariants of module BinaryReader hold for every frame and every    *)
(* choice of limits.                                                       *)
(*                                                                         *)
(* The inductive invariant says where each kind of activation can stand:   *)
(* the one for the frame at the bottom, a table or an origin directly on   *)
(* it, expressions anywhere above it, each at the depth of its place.      *)
(* What an activation still has to read decides what can be pushed on it,  *)
(* so its list is part of the invariant.  The walk over the origin tree    *)
(* puts the children of a value on such a list: the values built so far    *)
(* are a set `V' that is closed under taking children, and the frame has   *)
(* its expression before the walk begins.                                  *)
(***************************************************************************)
EXTENDS BinaryReader, DataLemmas

LeafTags == TableParts \cup {"origin"}
FrameOps == TableParts \cup {"expr", "origintree", "origin", "mark"}
ExprOps == Operands \cup {"exprs", "pairs", "notes", "expr"}
LeafOps == Operands \cup {"trivia"}

OpsOf(tag) ==
  IF tag = "frame" THEN FrameOps ELSE IF tag \in LeafTags THEN LeafOps ELSE ExprOps

Instruction(ops, V) == [do : ops, expr : V, depth : Nat]

Closed(V) == Nothing \in V /\ \A v \in V : v.kids \in Seq(V)

\* Activation a may stand at place i of the stack.
Place(a, i, V) ==
  /\ a \in [tag : {"frame"} \cup LeafTags \cup ExprTags, kids : Seq(V),
            todo : Seq(Instruction(OpsOf(a.tag), V)), inner : Nat]
  /\ i = 1 <=> a.tag = "frame"
  /\ a.tag \in LeafTags => i = 2
  /\ a.tag \notin LeafTags => a.inner = i - 1

StackIn(V) == IsSeq(stack) /\ \A i \in 1..Len(stack) : Place(stack[i], i, V)
TablesIn(V) == tables \in [libs : Seq(V), symbols : Seq(V), domains : Seq(V)]
Built(V) == Closed(V) /\ StackIn(V) /\ TablesIn(V)

\* The frame still has its expression to read, with nothing but tables before.
Ahead(todo) ==
  \E m \in 1..Len(todo) :
    todo[m].do = "expr" /\ \A j \in 1..(m - 1) : todo[j].do \in TableParts

\* The frame has its expression, is about to get it, or has it ahead.
Fed ==
  stack # <<>> => \/ stack[1].kids # <<>>
                  \/ Len(stack) >= 2 /\ stack[2].tag \in ExprTags
                  \/ Ahead(stack[1].todo)

NodesOK == NodesBounded /\ (pc = "open" => nodes = 0)

IInv ==
  /\ TypeOK /\ NodesOK
  /\ Len(stack) <= limits.depth + 2
  /\ Fed
  /\ \E V : Built(V)

-----------------------------------------------------------------------------
(* Sequences and sets of values. *)

\* A sequence over V is one over any larger set.
LEMMA SeqMono ==
  ASSUME NEW V, NEW W, V \subseteq W, NEW s \in Seq(V)
  PROVE  s \in Seq(W)
<1>1. Len(s) \in Nat /\ \A i \in 1..Len(s) : s[i] \in W
  BY ElementOfSeq, LenProperties
<1>2. s = [i \in 1..Len(s) |-> s[i]]
  BY LenProperties
<1> QED BY <1>1, <1>2

\* A place does not depend on values nobody built.
LEMMA PlaceMono ==
  ASSUME NEW V, NEW W, V \subseteq W, NEW a, NEW i, Place(a, i, V)
  PROVE  Place(a, i, W)
<1>1. Instruction(OpsOf(a.tag), V) \subseteq Instruction(OpsOf(a.tag), W)
  BY DEF Instruction
<1>2. a.kids \in Seq(W) /\ a.todo \in Seq(Instruction(OpsOf(a.tag), W))
  BY <1>1, SeqMono DEF Place
<1> QED BY <1>2 DEF Place

\* A new value is built from those that are there.
LEMMA GrowLemma ==
  ASSUME NEW V, Closed(V), NEW v, v.kids \in Seq(V)
  PROVE  Closed(V \cup {v})
  BY SeqMono DEF Closed

\* Words the script language is made of.
LEMMA TagsLemma ==
  /\ "frame" \notin ExprTags /\ "frame" \notin LeafTags
  /\ LeafTags \cap ExprTags = {}
  BY DEF ExprTags, Tags, LeafTags, TableParts

\* Short sequences.
LEMMA TupleLemma ==
  ASSUME NEW S
  PROVE  /\ <<>> \in Seq(S)
         /\ \A x \in S : <<x>> \in Seq(S) /\ Len(<<x>>) = 1
         /\ \A x, y \in S : <<x, y>> \in Seq(S) /\ Len(<<x, y>>) = 2
         /\ \A x, y, z \in S : <<x, y, z>> \in Seq(S)
  BY SMT

\* What is read after a tag.
LEMMA ScriptLemma ==
  ASSUME NEW t \in ExprTags
  PROVE  Script(t) \in Seq(ExprOps)
<1>1. t \in {"Nil", "False", "True", "Number", "Symbol", "String", "Bytes", "List",
             "Vector", "Map", "Set", "Call", "Infix", "Prefix", "Postfix", "Block",
             "Quote", "Annotated", "Extension", "Local"}
  BY DEF ExprTags, Tags
<1>2. /\ <<>> \in Seq(ExprOps)
      /\ \A x \in ExprOps : <<x>> \in Seq(ExprOps)
      /\ \A x, y \in ExprOps : <<x, y>> \in Seq(ExprOps)
      /\ \A x, y, z \in ExprOps : <<x, y, z>> \in Seq(ExprOps)
  BY TupleLemma
<1>3. {"domain", "text", "symbol", "blob", "mode", "exprs", "pairs", "notes", "expr"}
        \subseteq ExprOps
  BY DEF ExprOps, Operands
<1>4. CASE t \in {"Nil", "False", "True", "Number", "Symbol", "String", "Bytes", "List",
                 "Vector", "Map"}
  BY <1>2, <1>3, <1>4, SMT DEF Script
<1>5. CASE t \in {"Set", "Call", "Infix", "Prefix", "Postfix", "Block", "Quote",
                 "Annotated", "Extension", "Local"}
  BY <1>2, <1>3, <1>5, SMT DEF Script
<1> QED BY <1>1, <1>4, <1>5

\* A script as a list of instructions.
LEMMA InstrsLemma ==
  ASSUME NEW Ops, NEW ops \in Seq(Ops), NEW V, Nothing \in V
  PROVE  Instrs(ops) \in Seq(Instruction(Ops, V))
<1>1. Len(ops) \in Nat /\ \A i \in 1..Len(ops) : ops[i] \in Ops
  BY ElementOfSeq, LenProperties
<1>2. \A i \in 1..Len(ops) : Instr(ops[i]) \in Instruction(Ops, V)
  BY <1>1 DEF Instr, Instruction
<1> QED BY <1>1, <1>2 DEF Instrs

\* The entries of a counted part, as instructions.
LEMMA RepeatLemma ==
  ASSUME NEW Ops, NEW ops \in Seq(Ops), Len(ops) \in {1, 2},
         NEW n \in Nat, NEW V, Nothing \in V
  PROVE  Repeat(ops, n) \in Seq(Instruction(Ops, V))
<1>1. \A i \in 1..Len(ops) : ops[i] \in Ops
  BY ElementOfSeq
<1>2. n * Len(ops) \in Nat
  BY SMT
<1>3. \A i \in 1..(n * Len(ops)) : ((i - 1) % Len(ops)) + 1 \in 1..Len(ops)
  <2>1. CASE Len(ops) = 1
    BY <2>1, SMT
  <2>2. CASE Len(ops) = 2
    BY <2>2, SMT
  <2> QED BY <2>1, <2>2
<1>4. \A i \in 1..(n * Len(ops)) :
        Instr(ops[((i - 1) % Len(ops)) + 1]) \in Instruction(Ops, V)
  BY <1>1, <1>3 DEF Instr, Instruction
<1> QED BY <1>2, <1>4 DEF Repeat

-----------------------------------------------------------------------------
(* What one step does to the stack. *)

\* The entry of a counted part, as instructions for the activation that has it.
LEMMA EntryLemma ==
  ASSUME NEW op \in Counted \cup TableParts
  PROVE  /\ Len(Entry(op)) \in {1, 2}
         /\ op = "trivia" \/ op \in TableParts => Entry(op) \in Seq(LeafOps)
         /\ op \in Counted \ {"trivia"} => Entry(op) \in Seq(ExprOps)
<1>1. /\ {"record", "text", "triviatag"} \subseteq LeafOps
      /\ {"symbol", "expr"} \subseteq ExprOps
  BY DEF LeafOps, ExprOps, Operands
<1>2. CASE op \in TableParts \cup {"trivia"}
  <2>1. /\ Entry(op) \in {<<"text">>, <<"record">>, <<"triviatag", "text">>}
        /\ op \notin Counted \ {"trivia"}
    BY <1>2 DEF Entry, TableParts, Counted
  <2>2. /\ <<"text">> \in Seq(LeafOps) /\ Len(<<"text">>) = 1
        /\ <<"record">> \in Seq(LeafOps) /\ Len(<<"record">>) = 1
        /\ <<"triviatag", "text">> \in Seq(LeafOps) /\ Len(<<"triviatag", "text">>) = 2
    BY <1>1, TupleLemma
  <2> QED BY <2>1, <2>2, Zenon
<1>3. CASE op \in {"exprs", "pairs", "notes"}
  <2>1. /\ Entry(op) \in {<<"expr">>, <<"expr", "expr">>, <<"symbol", "expr">>}
        /\ op \notin TableParts /\ op # "trivia"
    BY <1>3 DEF Entry, TableParts
  <2>2. /\ <<"expr">> \in Seq(ExprOps) /\ Len(<<"expr">>) = 1
        /\ <<"expr", "expr">> \in Seq(ExprOps) /\ Len(<<"expr", "expr">>) = 2
        /\ <<"symbol", "expr">> \in Seq(ExprOps) /\ Len(<<"symbol", "expr">>) = 2
    BY <1>1, TupleLemma
  <2> QED BY <2>1, <2>2, Zenon
<1> QED BY <1>2, <1>3 DEF Counted

\* A running activation, its place, and its first instruction.
LEMMA RunningLemma ==
  ASSUME IInv, NEW V, Built(V), NEW ops, Running(ops)
  PROVE  /\ Len(stack) \in Nat \ {0} /\ stack # <<>>
         /\ Place(Top, Len(stack), V)
         /\ Do \in ops /\ Do \in OpsOf(Top.tag)
         /\ Head(Top.todo) \in Instruction(OpsOf(Top.tag), V)
         /\ Tail(Top.todo) \in Seq(Instruction(OpsOf(Top.tag), V))
<1>1. IsSeq(stack) /\ Len(stack) \in Nat /\ Len(stack) >= 1 /\ stack # <<>>
  BY StackBasics DEF IInv, TypeOK, Running, Built, StackIn
<1>2. Place(Top, Len(stack), V)
  BY <1>1, SMT DEF Built, StackIn, Top, TopOf
<1>3. Top.todo \in Seq(Instruction(OpsOf(Top.tag), V)) /\ Top.todo # <<>>
  BY <1>2 DEF Place, Running
<1>4. /\ Head(Top.todo) \in Instruction(OpsOf(Top.tag), V)
      /\ Tail(Top.todo) \in Seq(Instruction(OpsOf(Top.tag), V))
  BY <1>3, HeadTailProperties
<1> QED BY <1>1, <1>2, <1>4 DEF Running, Do, Instruction

\* Advancing keeps the place.
LEMMA AdvanceLemma ==
  ASSUME IInv, NEW V, Built(V), NEW ops, Running(ops),
         NEW W, V \subseteq W, NEW kids \in Seq(W),
         NEW more \in Seq(Instruction(OpsOf(Top.tag), W))
  PROVE  Place(Advance(kids, more), Len(stack), W)
<1> DEFINE a == Advance(kids, more)
           I == Instruction(OpsOf(Top.tag), W)
<1>1. /\ Place(Top, Len(stack), W)
      /\ Tail(Top.todo) \in Seq(Instruction(OpsOf(Top.tag), V))
  BY RunningLemma, PlaceMono
<1>2. Instruction(OpsOf(Top.tag), V) \subseteq I
  BY DEF Instruction
<1>3. Tail(Top.todo) \in Seq(I)
  BY <1>1, <1>2, SeqMono
<1>4. more \o Tail(Top.todo) \in Seq(I)
  BY <1>3, ConcatProperties
<1>5. /\ a = [tag |-> a.tag, kids |-> a.kids, todo |-> a.todo, inner |-> a.inner]
      /\ a.tag = Top.tag /\ a.kids = kids /\ a.inner = Top.inner
      /\ a.todo = more \o Tail(Top.todo)
  BY DEF Advance
<1>6. /\ a.tag \in {"frame"} \cup LeafTags \cup ExprTags /\ a.kids \in Seq(W)
      /\ a.todo \in Seq(Instruction(OpsOf(a.tag), W)) /\ a.inner \in Nat
      /\ Len(stack) = 1 <=> a.tag = "frame"
      /\ a.tag \in LeafTags => Len(stack) = 2
      /\ a.tag \notin LeafTags => a.inner = Len(stack) - 1
  <2> HIDE DEF a
  <2> QED BY <1>1, <1>4, <1>5 DEF Place
<1>7. a \in [tag : {"frame"} \cup LeafTags \cup ExprTags, kids : Seq(W),
             todo : Seq(Instruction(OpsOf(a.tag), W)), inner : Nat]
  <2> HIDE DEF a
  <2> QED BY <1>5, <1>6
<1> QED BY <1>6, <1>7 DEF Place

\* The rest of the stack keeps its places when the top is replaced.
LEMMA ReplaceLemma ==
  ASSUME NEW V, StackIn(V), NEW W, V \subseteq W, stack # <<>>,
         NEW a, Place(a, Len(stack), W), stack' = ReplaceTop(stack, a)
  PROVE  StackIn(W)' /\ Len(stack') = Len(stack)
<1>1. /\ IsSeq(stack') /\ Len(stack') = Len(stack)
      /\ \A i \in 1..(Len(stack) - 1) : stack'[i] = stack[i]
      /\ stack'[Len(stack)] = a /\ Len(stack) \in Nat
  BY ReplaceTopLemma, StackBasics DEF StackIn
<1>2. ASSUME NEW i \in 1..Len(stack') PROVE Place(stack'[i], i, W)
  <2>1. CASE i = Len(stack)
    BY <1>1, <2>1
  <2>2. CASE i \in 1..(Len(stack) - 1)
    <3>1. i \in 1..Len(stack)
      BY <1>1, <2>2, SMT
    <3> QED BY <1>1, <2>2, <3>1, PlaceMono DEF StackIn
  <2> QED BY <1>1, <2>1, <2>2, SMT
<1> QED BY <1>1, <1>2 DEF StackIn

\* The running activation suspends itself and reads a part b by another one.
LEMMA CallLemma ==
  ASSUME NEW V, StackIn(V), stack # <<>>,
         NEW a, Place(a, Len(stack), V), NEW b, Place(b, Len(stack) + 1, V),
         stack' = Push(ReplaceTop(stack, a), b)
  PROVE  /\ StackIn(V)' /\ Len(stack') = Len(stack) + 1
         /\ stack'[Len(stack)] = a /\ stack'[Len(stack) + 1] = b
         /\ \A i \in 1..(Len(stack) - 1) : stack'[i] = stack[i]
<1> DEFINE s == ReplaceTop(stack, a)
<1>1. /\ IsSeq(s) /\ Len(s) = Len(stack) /\ Len(stack) \in Nat
      /\ \A i \in 1..(Len(stack) - 1) : s[i] = stack[i]
      /\ s[Len(stack)] = a
  BY ReplaceTopLemma, StackBasics DEF StackIn
<1> HIDE DEF s
<1>2. /\ IsSeq(stack') /\ Len(stack') = Len(stack) + 1
      /\ \A i \in 1..Len(stack) : stack'[i] = s[i]
      /\ stack'[Len(stack) + 1] = b
  BY <1>1, PushLemma DEF s
<1>3. \A i \in 1..(Len(stack) - 1) : i \in 1..Len(stack) /\ stack'[i] = stack[i]
  BY <1>1, <1>2, SMT
<1>4. Len(stack) \in 1..Len(stack) /\ stack'[Len(stack)] = a
  <2>1. Len(stack) \in 1..Len(stack)
    BY StackBasics DEF StackIn
  <2> QED BY <1>1, <1>2, <2>1
<1>5. ASSUME NEW i \in 1..Len(stack') PROVE Place(stack'[i], i, V)
  <2>1. CASE i \in 1..(Len(stack) - 1)
    BY <1>3, <2>1 DEF StackIn
  <2>2. CASE i \in {Len(stack), Len(stack) + 1}
    BY <1>2, <1>4, <2>2
  <2> QED BY <1>1, <1>2, <2>1, <2>2, SMT
<1> QED BY <1>2, <1>3, <1>4, <1>5 DEF StackIn

-----------------------------------------------------------------------------
(* What is read. *)

\* A unit that is there.
LEMMA UnitLemma ==
  ASSUME TypeOK, NEW i \in Nat \ {0}, Has(i)
  PROVE  /\ Unit(i) \in Nat /\ Number(Unit(i)) \in Nat
         /\ index + i \in 0..Len(frame)
<1>1. frame \in Seq(Nat) /\ Len(frame) \in Nat /\ index \in Nat
  BY LenProperties, SMT DEF TypeOK
<1>2. index + i \in 1..Len(frame)
  BY <1>1, SMT DEF Has
<1>3. Unit(i) \in Nat
  BY <1>1, <1>2, ElementOfSeq DEF Unit
<1> QED BY <1>2, <1>3, BinaryAssumption, SMT DEF Number

\* A text or a blob ends inside the frame.
LEMMA BlobLemma ==
  ASSUME TypeOK, NEW i \in Nat \ {0}, NEW limit, NEW text, Blob(i, limit, text).ok
  PROVE  /\ Blob(i, limit, text).size \in Nat
         /\ index + Blob(i, limit, text).size \in 0..Len(frame)
         /\ Blob(i, limit, text).value.kids = <<>>
<1> DEFINE n == Number(Unit(i))
           s == SubSeq(frame, index + i + 1, index + i + n)
           b == Blob(i, limit, text)
<1>1. Has(i) /\ Has(i + n) /\ b = ReadAs(i + n, Value("text", s, <<>>))
  BY Zenon DEF Blob, Unread
<1>2. n \in Nat
  BY <1>1, UnitLemma
<1>3. i + n \in Nat \ {0} /\ index + (i + n) \in 0..Len(frame)
  <2> HIDE DEF n
  <2>1. i + n \in Nat \ {0}
    BY <1>2, SMT
  <2> QED BY <1>1, <2>1, UnitLemma
<1>4. b.size = i + n /\ b.value.kids = <<>>
  <2> HIDE DEF n, s, b
  <2> QED BY <1>1 DEF ReadAs, Value
<1> HIDE DEF n, s
<1> QED BY <1>3, <1>4

\* A primitive read ends inside the frame, and its value is built of old ones.
LEMMA OperandLemma ==
  ASSUME IInv, NEW V, Built(V), NEW op \in Operands, Operand(op).ok
  PROVE  /\ index + Operand(op).size \in 0..Len(frame)
         /\ Operand(op).size \in Nat
         /\ Operand(op).value.kids \in Seq(V)
<1> DEFINE r == Operand(op)
<1>1. TypeOK /\ <<>> \in Seq(V) /\ 1 \in Nat \ {0} /\ 2 \in Nat \ {0}
  BY TupleLemma, SMT DEF IInv
<1>2. CASE op \in {"symbol", "domain"}
  <2>1. PICK table \in Seq(V) : r = Lookup(table)
    BY <1>2 DEF Operand, Built, TablesIn
  <2>2. /\ Has(1) /\ ~(Number(Unit(1)) >= Len(table))
        /\ r = ReadAs(1, table[Number(Unit(1)) + 1])
    <3>1. Lookup(table).ok
      BY <2>1
    <3> QED BY <2>1, <3>1, Zenon DEF Lookup, Unread
  <2>3. Number(Unit(1)) + 1 \in 1..Len(table)
    BY <1>1, <2>2, UnitLemma, LenProperties, SMT
  <2>4. table[Number(Unit(1)) + 1] \in V
    BY <2>3, ElementOfSeq
  <2>5. r.size = 1 /\ r.value \in V
    BY <2>2, <2>4 DEF ReadAs
  <2> QED BY <1>1, <2>2, <2>5, UnitLemma DEF Built, Closed
<1>3. CASE op \in {"mode", "triviatag", "num"}
  <2>1. Has(1) /\ r.size = 1 /\ r.value.kids = <<>>
    BY <1>3 DEF Operand, Byte, Unread, ReadAs, Value
  <2> QED BY <1>1, <2>1, UnitLemma
<1>4. CASE op = "text"
  <2>1. r = Blob(1, limits.text, TRUE)
    BY <1>4 DEF Operand
  <2>2. Blob(1, limits.text, TRUE).ok
    BY <2>1
  <2> QED BY <1>1, <2>1, <2>2, BlobLemma
<1>5. CASE op = "blob"
  <2>1. r = Blob(1, limits.blob, FALSE)
    BY <1>5 DEF Operand
  <2>2. Blob(1, limits.blob, FALSE).ok
    BY <2>1
  <2> QED BY <1>1, <2>1, <2>2, BlobLemma
<1>6. CASE op = "record"
  <2> DEFINE slot == Number(Unit(1))
             name == Blob(2, limits.text, TRUE)
             kids == IF slot = 0 THEN <<>> ELSE <<tables.libs[slot]>>
  <2>1. r = Record
    BY <1>6 DEF Operand
  <2>2. /\ Has(1) /\ name.ok /\ ~(slot > Len(tables.libs))
        /\ r = ReadAs(name.size, Value("name", name.value.text, kids))
    <3>1. Record.ok
      BY <2>1
    <3> QED BY <2>1, <3>1, Zenon DEF Record, Unread
  <2>3. tables.libs \in Seq(V)
    BY DEF Built, TablesIn
  <2>4. slot \in Nat
    BY <1>1, <2>2, UnitLemma
  <2>5. kids \in Seq(V)
    <3>1. CASE slot = 0
      BY <1>1, <3>1
    <3>2. CASE slot # 0
      <4>1. slot \in 1..Len(tables.libs)
        BY <2>2, <2>3, <2>4, <3>2, LenProperties, SMT
      <4>2. tables.libs[slot] \in V
        BY <2>3, <4>1, ElementOfSeq
      <4> QED BY <3>2, <4>2, TupleLemma
    <3> QED BY <3>1, <3>2
  <2>6. r.size = name.size /\ r.value.kids = kids
    BY <2>2 DEF ReadAs, Value
  <2>7. name.size \in Nat /\ index + name.size \in 0..Len(frame)
    BY <1>1, <2>2, BlobLemma
  <2> QED BY <2>5, <2>6, <2>7
<1> QED BY <1>2, <1>3, <1>4, <1>5, <1>6 DEF Operands

-----------------------------------------------------------------------------
(* The steps. *)

\* The empty reader satisfies the invariant.
LEMMA InitIInv == Init => IInv
<1> SUFFICES ASSUME Init PROVE IInv
  OBVIOUS
<1>1. frame \in Seq(Nat) /\ limits \in Limits
  BY BinaryAssumption DEF Init, Idle
<1>2. Len(frame) \in Nat
  BY <1>1, LenProperties
<1>3. TypeOK /\ NodesOK /\ Len(stack) <= limits.depth + 2 /\ Fed
  BY <1>1, <1>2, EmptyStack, SMT
  DEF Init, Idle, TypeOK, NodesOK, NodesBounded, Fed, Limits
<1>4. Built({Nothing})
  <2>1. Nothing.kids = <<>>
    BY DEF Nothing, Value
  <2>2. Closed({Nothing})
    BY <2>1, TupleLemma DEF Closed
  <2>3. StackIn({Nothing})
    BY EmptyStack, SMT DEF Init, Idle, StackIn
  <2>4. TablesIn({Nothing})
    BY TupleLemma DEF Init, Idle, TablesIn, NoTables
  <2> QED BY <2>2, <2>3, <2>4 DEF Built
<1> QED BY <1>3, <1>4 DEF IInv

\* IInv implies what the runs check.
LEMMA IInvImplies == IInv => TypeOK /\ RecursionBounded /\ NodesBounded
<1> SUFFICES ASSUME IInv, NEW V, Built(V) PROVE RecursionBounded
  BY DEF IInv, NodesOK
<1>1. ASSUME NEW i \in 1..Len(stack), stack[i].tag \in ExprTags
      PROVE  i = stack[i].inner + 1
  <2>1. Place(stack[i], i, V)
    BY DEF Built, StackIn
  <2>2. stack[i].tag \notin LeafTags
    BY <1>1, TagsLemma
  <2>3. stack[i].inner = i - 1
    BY <2>1, <2>2 DEF Place
  <2>4. i \in Nat
    BY StackBasics, SMT DEF Built, StackIn
  <2> QED BY <2>3, <2>4, SMT
<1> QED BY <1>1 DEF IInv, NodesOK, RecursionBounded

\* A step that leaves the stack and the tables alone.
LEMMA StayLemma ==
  ASSUME IInv, UNCHANGED <<frame, limits, index, nodes, flags, tables, stack>>,
         pc' \in {"done", "error"}
  PROVE  IInv'
<1>1. TypeOK' /\ NodesOK' /\ Len(stack') <= limits'.depth + 2 /\ Fed'
  BY DEF IInv, TypeOK, NodesOK, NodesBounded, Fed
<1>2. PICK V : Built(V)
  BY DEF IInv
<1>3. Built(V)'
  BY <1>2 DEF Built, StackIn, TablesIn
<1> QED BY <1>1, <1>3 DEF IInv

\* Counters a step may move.
LEMMA CursorLemma ==
  ASSUME IInv, UNCHANGED <<frame, limits, flags>>, pc = "read", pc' = "read",
         index' \in 0..Len(frame), index' >= index,
         \/ nodes' = nodes
         \/ nodes' = nodes + 1 /\ nodes' <= limits.nodes /\ index' = index + 1,
         Len(stack') >= 1
  PROVE  TypeOK' /\ NodesOK'
<1>1. index \in Nat /\ Len(frame) \in Nat /\ nodes \in Nat /\ limits.nodes \in Nat
  BY LenProperties, SMT DEF IInv, TypeOK, Limits
<1> QED BY <1>1, SMT DEF IInv, TypeOK, NodesOK, NodesBounded

\* Above the frame and its part nothing matters to the frame.
LEMMA FedAbove ==
  ASSUME IInv, Len(stack) >= 2, Len(stack') >= 2,
         stack'[1] = stack[1], stack'[2].tag = stack[2].tag
  PROVE  Fed'
<1>1. stack # <<>>
  BY EmptyStack, SMT
<1> QED BY <1>1 DEF IInv, Fed

\* Only the activation for the frame reads tables and origins.
LEMMA FrameLemma ==
  ASSUME IInv, NEW V, Built(V), NEW ops, Running(ops),
         Do \in TableParts \cup {"origintree", "origin", "mark"}
  PROVE  Top.tag = "frame" /\ Len(stack) = 1 /\ OpsOf(Top.tag) = FrameOps
<1>1. Place(Top, Len(stack), V) /\ Do \in OpsOf(Top.tag)
  BY RunningLemma
<1>2. Do \notin ExprOps /\ Do \notin LeafOps
  BY DEF TableParts, ExprOps, LeafOps, Operands
<1>3. Top.tag = "frame"
  BY <1>1, <1>2 DEF OpsOf
<1> QED BY <1>1, <1>3 DEF Place, OpsOf

\* When it reads origins, it has its expression.
LEMMA OriginsLemma ==
  ASSUME IInv, NEW V, Built(V), NEW ops, Running(ops),
         Do \in {"origintree", "origin", "mark"}
  PROVE  Top.kids # <<>>
<1>1. /\ Len(stack) = 1 /\ stack # <<>> /\ Place(Top, 1, V) /\ Top = stack[1]
      /\ Top.tag = "frame"
  BY FrameLemma, RunningLemma DEF Top, TopOf
<1>2. ~Ahead(Top.todo)
  <2> SUFFICES ASSUME Ahead(Top.todo) PROVE FALSE
    OBVIOUS
  <2>1. PICK m \in 1..Len(Top.todo) :
          Top.todo[m].do = "expr" /\ \A j \in 1..(m - 1) : Top.todo[j].do \in TableParts
    BY DEF Ahead
  <2>2. Do = Top.todo[1].do
    <3>1. Top.todo \in Seq(Instruction(OpsOf(Top.tag), V)) /\ Top.todo # <<>>
      BY <1>1 DEF Place, Running
    <3> QED BY <3>1, HeadTailProperties DEF Do
  <2>3. m = 1 \/ 1 \in 1..(m - 1)
    BY <2>1, SMT
  <2> QED BY <2>1, <2>2, <2>3 DEF TableParts
<1> QED BY <1>1, <1>2 DEF IInv, Fed

\* The running activation goes on, with new values in W.
LEMMA ReplaceStep ==
  ASSUME IInv, NEW V, Built(V), NEW ops, Running(ops),
         NEW W, V \subseteq W, Closed(W), NEW kids \in Seq(W),
         NEW more \in Seq(Instruction(OpsOf(Top.tag), W)),
         stack' = ReplaceTop(stack, Advance(kids, more)),
         UNCHANGED <<frame, limits, nodes, flags, tables, pc>>,
         index' \in 0..Len(frame), index' >= index,
         Top.tag = "frame" => kids # <<>>
  PROVE  IInv'
<1> DEFINE a == Advance(kids, more)
<1>1. /\ Place(Top, Len(stack), V) /\ Len(stack) \in Nat \ {0} /\ stack # <<>>
      /\ pc = "read"
  BY RunningLemma DEF Running
<1>2. Place(a, Len(stack), W) /\ a.kids = kids /\ a.tag = Top.tag
  <2>1. a.kids = kids /\ a.tag = Top.tag
    BY DEF Advance
  <2> QED BY <2>1, AdvanceLemma
<1> HIDE DEF a
<1>3. StackIn(W)' /\ Len(stack') = Len(stack)
  BY <1>1, <1>2, ReplaceLemma DEF Built, a
<1>4. /\ stack' # <<>> /\ stack'[Len(stack)] = a
      /\ \A i \in 1..(Len(stack) - 1) : stack'[i] = stack[i]
  BY <1>1, ReplaceTopLemma DEF Built, StackIn, a
<1>5. TablesIn(W)'
  BY SeqMono DEF Built, TablesIn
<1>6. TypeOK' /\ NodesOK'
  <2>1. Len(stack') >= 1
    BY <1>1, <1>3, SMT
  <2> QED BY <1>1, <2>1, CursorLemma
<1>7. CASE Len(stack) = 1
  <2>1. Top.tag = "frame" /\ stack'[1].kids = kids
    BY <1>1, <1>2, <1>4, <1>7 DEF Place
  <2> QED BY <1>3, <1>5, <1>6, <2>1 DEF IInv, Built, Fed
<1>8. CASE Len(stack) # 1
  <2> DEFINE n == Len(stack)
  <2>1. n \in Nat /\ n >= 2 /\ 1 \in 1..(n - 1) /\ (n = 2 \/ 2 \in 1..(n - 1))
    <3>1. n \in Nat \ {0} /\ n # 1
      BY <1>1, <1>8
    <3> HIDE DEF n
    <3> QED BY <3>1, SMT
  <2>2. stack'[2].tag = stack[2].tag
    BY <1>2, <1>4, <2>1 DEF Top, TopOf
  <2>3. Fed'
    BY <1>3, <1>4, <2>1, <2>2, FedAbove
  <2> QED BY <1>3, <1>5, <1>6, <2>3 DEF IInv, Built
<1> QED BY <1>7, <1>8

\* The running activation has b read the next part.
LEMMA CallStep ==
  ASSUME IInv, NEW V, Built(V), NEW ops, Running(ops),
         NEW more \in Seq(Instruction(OpsOf(Top.tag), V)),
         NEW b, Place(b, Len(stack) + 1, V),
         stack' = Push(ReplaceTop(stack, Advance(Top.kids, more)), b),
         UNCHANGED <<frame, limits, flags, tables, pc>>,
         index' \in 0..Len(frame), index' >= index,
         \/ nodes' = nodes
         \/ nodes' = nodes + 1 /\ nodes' <= limits.nodes /\ index' = index + 1,
         Len(stack) + 1 <= limits.depth + 2,
         Top.tag = "frame" => \/ Top.kids # <<>>
                              \/ b.tag \in ExprTags
                              \/ Ahead(more \o Tail(Top.todo))
  PROVE  IInv'
<1> DEFINE a == Advance(Top.kids, more)
<1>1. /\ Place(Top, Len(stack), V) /\ Len(stack) \in Nat \ {0} /\ stack # <<>>
      /\ pc = "read"
  BY RunningLemma DEF Running
<1>2. /\ a.kids = Top.kids /\ a.tag = Top.tag /\ a.todo = more \o Tail(Top.todo)
      /\ Place(a, Len(stack), V)
  <2>1. a.kids = Top.kids /\ a.tag = Top.tag /\ a.todo = more \o Tail(Top.todo)
    BY DEF Advance
  <2>2. Top.kids \in Seq(V)
    BY <1>1 DEF Place
  <2> QED BY <2>1, <2>2, AdvanceLemma
<1> HIDE DEF a
<1>3. /\ StackIn(V)' /\ Len(stack') = Len(stack) + 1
      /\ stack'[Len(stack)] = a /\ stack'[Len(stack) + 1] = b
      /\ \A i \in 1..(Len(stack) - 1) : stack'[i] = stack[i]
  BY <1>1, <1>2, CallLemma DEF Built, a
<1>4. TablesIn(V)'
  BY DEF Built, TablesIn
<1>5. TypeOK' /\ NodesOK'
  <2>1. Len(stack') >= 1
    BY <1>1, <1>3, SMT
  <2> QED BY <1>1, <2>1, CursorLemma
<1>6. Len(stack') <= limits'.depth + 2
  BY <1>3
<1>7. CASE Len(stack) = 1
  <2>1. /\ Top.tag = "frame" /\ stack'[1] = a /\ stack'[2] = b /\ Len(stack') >= 2
    BY <1>1, <1>3, <1>7 DEF Place
  <2>2. Fed'
    BY <1>2, <2>1 DEF Fed
  <2> QED BY <1>3, <1>4, <1>5, <1>6, <2>2 DEF IInv, Built
<1>8. CASE Len(stack) # 1
  <2> DEFINE n == Len(stack)
  <2>1. /\ n \in Nat /\ n >= 2 /\ n + 1 >= 2 /\ 1 \in 1..(n - 1)
        /\ n = 2 \/ 2 \in 1..(n - 1)
    <3>1. n \in Nat \ {0} /\ n # 1
      BY <1>1, <1>8
    <3> HIDE DEF n
    <3> QED BY <3>1, SMT
  <2>2. stack'[2].tag = stack[2].tag
    BY <1>2, <1>3, <2>1 DEF Top, TopOf
  <2>3. Fed'
    BY <1>3, <2>1, <2>2, FedAbove
  <2> QED BY <1>3, <1>4, <1>5, <1>6, <2>3 DEF IInv, Built
<1> QED BY <1>7, <1>8

\* A primitive read adds its value to what the activation has.
LEMMA ReadOperandStep == ASSUME IInv, ReadOperand PROVE IInv'
<1>1. PICK V : Built(V)
  BY DEF IInv
<1>2. PICK r : r = Operand(Do)
  OBVIOUS
<1>3. /\ Running(Operands) /\ Operand(Do).ok /\ index' = index + r.size
      /\ stack' = ReplaceTop(stack, Advance(Append(Top.kids, r.value), <<>>))
      /\ UNCHANGED <<frame, limits, nodes, flags, tables, pc>>
  BY <1>2 DEF ReadOperand
<1>4. Place(Top, Len(stack), V) /\ Do \in Operands /\ Do \in OpsOf(Top.tag)
  BY <1>1, <1>3, RunningLemma
<1>5. r.size \in Nat /\ index + r.size \in 0..Len(frame) /\ r.value.kids \in Seq(V)
  BY <1>1, <1>2, <1>3, <1>4, OperandLemma
<1>6. PICK W : W = V \cup {r.value}
  OBVIOUS
<1>7. V \subseteq W /\ Closed(W) /\ Append(Top.kids, r.value) \in Seq(W)
  <2>1. Top.kids \in Seq(W)
    BY <1>4, <1>6, SeqMono DEF Place
  <2> QED BY <1>1, <1>5, <1>6, <2>1, GrowLemma, AppendProperties DEF Built
<1>8. index' \in 0..Len(frame) /\ index' >= index
  BY <1>3, <1>5, SMT DEF IInv, TypeOK
<1>9. Top.tag # "frame" /\ <<>> \in Seq(Instruction(OpsOf(Top.tag), W))
  BY <1>4, TupleLemma DEF OpsOf, FrameOps, TableParts, Operands
<1> QED BY <1>1, <1>3, <1>7, <1>8, <1>9, ReplaceStep

\* A counted part becomes as many instructions.
LEMMA ReadCountStep == ASSUME IInv, ReadCount PROVE IInv'
<1>1. PICK V : Built(V)
  BY DEF IInv
<1> DEFINE more == Repeat(Entry(Do), Number(Unit(1)))
<1>2. /\ Running(Counted) /\ Has(1) /\ index' = index + 1
      /\ stack' = ReplaceTop(stack, Advance(Top.kids, more))
      /\ UNCHANGED <<frame, limits, nodes, flags, tables, pc>>
  BY DEF ReadCount, CountOK
<1>3. Place(Top, Len(stack), V) /\ Do \in Counted /\ Do \in OpsOf(Top.tag)
  BY <1>1, <1>2, RunningLemma
<1>4. Number(Unit(1)) \in Nat /\ index + 1 \in 0..Len(frame)
  BY <1>2, UnitLemma DEF IInv
<1>5. Top.tag # "frame" /\ Entry(Do) \in Seq(OpsOf(Top.tag))
  <2>1. /\ Do \notin FrameOps
        /\ Do \in LeafOps => Do = "trivia"
        /\ Do \in ExprOps => Do # "trivia"
    BY <1>3 DEF Counted, FrameOps, LeafOps, ExprOps, TableParts, Operands
  <2> QED BY <1>3, <2>1, EntryLemma DEF OpsOf
<1>6. more \in Seq(Instruction(OpsOf(Top.tag), V))
  <2>1. Len(Entry(Do)) \in {1, 2} /\ Nothing \in V
    BY <1>1, <1>3, EntryLemma DEF Built, Closed
  <2> QED BY <1>4, <1>5, <2>1, RepeatLemma
<1>7. index' \in 0..Len(frame) /\ index' >= index
  BY <1>2, <1>4, SMT DEF IInv, TypeOK
<1>8. Top.kids \in Seq(V) /\ Closed(V)
  BY <1>1, <1>3 DEF Place, Built
<1> HIDE DEF more
<1> QED BY <1>1, <1>2, <1>5, <1>6, <1>7, <1>8, ReplaceStep

\* An activation that starts.
LEMMA ActivationLemma ==
  ASSUME NEW V, NEW tag \in {"frame"} \cup LeafTags \cup ExprTags,
         NEW todo \in Seq(Instruction(OpsOf(tag), V)), NEW inner \in Nat,
         NEW i \in Nat, i = 1 <=> tag = "frame",
         tag \in LeafTags => i = 2, tag \notin LeafTags => inner = i - 1
  PROVE  Place(Activation(tag, todo, inner), i, V)
  BY TupleLemma DEF Activation, Place

\* A table is read directly on the frame, before its expression.
LEMMA ReadTableStep == ASSUME IInv, ReadTable PROVE IInv'
<1>1. PICK V : Built(V)
  BY DEF IInv
<1> DEFINE todo == Repeat(Entry(Do), Number(Unit(1)))
<1>2. /\ Running(TableParts) /\ Has(1) /\ index' = index + 1
      /\ stack' = Push(ReplaceTop(stack, Advance(Top.kids, <<>>)), Activation(Do, todo, 0))
      /\ UNCHANGED <<frame, limits, nodes, flags, tables, pc>>
  BY DEF ReadTable, CountOK
<1>3. Do \in TableParts /\ Place(Top, Len(stack), V)
  BY <1>1, <1>2, RunningLemma
<1>4. Top.tag = "frame" /\ Len(stack) = 1
  BY <1>1, <1>2, <1>3, FrameLemma
<1>5. Number(Unit(1)) \in Nat /\ index + 1 \in 0..Len(frame)
  BY <1>2, UnitLemma DEF IInv
<1>6. todo \in Seq(Instruction(OpsOf(Do), V))
  <2>1. Len(Entry(Do)) \in {1, 2} /\ Entry(Do) \in Seq(LeafOps) /\ Nothing \in V
    BY <1>1, <1>3, EntryLemma DEF Built, Closed
  <2>2. OpsOf(Do) = LeafOps
    BY <1>3 DEF OpsOf, LeafTags, TableParts
  <2> QED BY <1>5, <2>1, <2>2, RepeatLemma
<1>7. Place(Activation(Do, todo, 0), Len(stack) + 1, V)
  <2>1. Do \in LeafTags /\ Do # "frame"
    BY <1>3, TagsLemma DEF LeafTags
  <2>2. Len(stack) + 1 = 2 /\ 2 \in Nat /\ 2 # 1 /\ 0 \in Nat
    BY <1>4, SMT
  <2> HIDE DEF todo
  <2>3. Place(Activation(Do, todo, 0), 2, V)
    BY <1>6, <2>1, <2>2, ActivationLemma
  <2> QED BY <2>2, <2>3
<1>8. Top.kids # <<>> \/ Ahead(<<>> \o Tail(Top.todo))
  <2>1. stack # <<>> /\ Top = stack[1]
    BY <1>1, <1>2, <1>4, RunningLemma DEF Top, TopOf
  <2>2. SUFFICES ASSUME Ahead(Top.todo) PROVE Ahead(<<>> \o Tail(Top.todo))
    BY <1>4, <2>1 DEF IInv, Fed
  <2>3. PICK m \in 1..Len(Top.todo) :
          Top.todo[m].do = "expr" /\ \A j \in 1..(m - 1) : Top.todo[j].do \in TableParts
    BY <2>2 DEF Ahead
  <2> DEFINE rest == Tail(Top.todo)
  <2>4. /\ Top.todo \in Seq(Instruction(OpsOf(Top.tag), V)) /\ Top.todo # <<>>
        /\ Len(Top.todo) \in Nat
    BY <1>2, <1>3, LenProperties DEF Place, Running
  <2>5. /\ rest \in Seq(Instruction(OpsOf(Top.tag), V))
        /\ Len(rest) = Len(Top.todo) - 1 /\ Do = Top.todo[1].do
        /\ \A j \in 1..Len(rest) : rest[j] = Top.todo[j + 1]
    <3>1. Do = Top.todo[1].do
      BY <2>4, HeadTailProperties DEF Do
    <3> QED BY <2>4, <3>1, HeadTailProperties, Zenon
  <2>6. m # 1
    BY <1>3, <2>3, <2>5 DEF TableParts
  <2>7. /\ m - 1 \in 1..Len(rest) /\ (m - 1) + 1 = m
        /\ \A j \in 1..((m - 1) - 1) : j + 1 \in 1..(m - 1) /\ j \in 1..Len(rest)
    BY <2>3, <2>4, <2>5, <2>6, SMT
  <2>8. rest[m - 1].do = "expr" /\ \A j \in 1..((m - 1) - 1) : rest[j].do \in TableParts
    BY <2>3, <2>5, <2>7
  <2>9. <<>> \o rest = rest
    <3> HIDE DEF rest
    <3> QED BY <2>5, ConcatEmptySeq
  <2> HIDE DEF rest
  <2>10. Ahead(rest)
    BY <2>7, <2>8 DEF Ahead
  <2> QED BY <2>9, <2>10 DEF rest
<1>9. /\ index' \in 0..Len(frame) /\ index' >= index
      /\ Len(stack) + 1 <= limits.depth + 2
  BY <1>2, <1>4, <1>5, SMT DEF IInv, TypeOK, Limits
<1>10. <<>> \in Seq(Instruction(OpsOf(Top.tag), V))
  BY TupleLemma
<1> HIDE DEF todo
<1> QED BY <1>1, <1>2, <1>7, <1>8, <1>9, <1>10, CallStep

\* An expression is read one place higher and one level deeper.
LEMMA ReadExprStep == ASSUME IInv, ReadExpr PROVE IInv'
<1>1. PICK V : Built(V)
  BY DEF IInv
<1>2. PICK tag : tag = Tags[Unit(1) + 1]
  OBVIOUS
<1> DEFINE b == Activation(tag, Instrs(Script(tag)), Top.inner + 1)
<1>3. /\ Running({"expr"}) /\ Top.inner <= limits.depth
      /\ nodes' = nodes + 1 /\ nodes' <= limits.nodes
      /\ Has(1) /\ Unit(1) < Len(Tags) /\ index' = index + 1
      /\ stack' = Push(ReplaceTop(stack, Advance(Top.kids, <<>>)), b)
      /\ UNCHANGED <<frame, limits, flags, tables, pc>>
  BY <1>2 DEF ReadExpr, TagOK
<1>4. /\ Place(Top, Len(stack), V) /\ Len(stack) \in Nat \ {0}
      /\ Do \in {"expr"} /\ Do \in OpsOf(Top.tag)
  BY <1>1, <1>3, RunningLemma
<1>5. Unit(1) \in Nat /\ index + 1 \in 0..Len(frame)
  BY <1>3, UnitLemma DEF IInv
<1>6. tag \in ExprTags
  <2>1. Len(Tags) \in Nat
    BY DEF Tags
  <2>2. Unit(1) + 1 \in 1..Len(Tags)
    BY <1>3, <1>5, <2>1, SMT
  <2> QED BY <1>2, <2>2 DEF ExprTags
<1>7. Top.inner = Len(stack) - 1 /\ Top.inner \in Nat
  <2>1. Top.tag \notin LeafTags
    <3>1. Do \notin LeafOps
      BY <1>4 DEF LeafOps, Operands
    <3>2. Top.tag \in LeafTags => Top.tag # "frame"
      BY TagsLemma
    <3> QED BY <1>4, <3>1, <3>2 DEF OpsOf
  <2> QED BY <1>4, <2>1 DEF Place
<1>8. Place(b, Len(stack) + 1, V) /\ b.tag = tag
  <2> DEFINE i == Len(stack) + 1
             todo == Instrs(Script(tag))
  <2>1. tag \notin LeafTags /\ tag # "frame" /\ OpsOf(tag) = ExprOps
    BY <1>6, TagsLemma DEF OpsOf
  <2>2. todo \in Seq(Instruction(OpsOf(tag), V))
    BY <1>1, <1>6, <2>1, ScriptLemma, InstrsLemma DEF Built, Closed
  <2>3. i \in Nat /\ i # 1 /\ Top.inner + 1 = i - 1 /\ Top.inner + 1 \in Nat
    BY <1>4, <1>7, SMT
  <2> HIDE DEF i, todo
  <2>4. Place(Activation(tag, todo, Top.inner + 1), i, V)
    BY <1>6, <2>1, <2>2, <2>3, ActivationLemma
  <2> QED BY <2>4 DEF i, todo, Activation
<1>9. /\ index' \in 0..Len(frame) /\ index' >= index
      /\ Len(stack) + 1 <= limits.depth + 2
  BY <1>3, <1>4, <1>5, <1>7, SMT DEF IInv, TypeOK, Limits
<1>10. <<>> \in Seq(Instruction(OpsOf(Top.tag), V))
  BY TupleLemma
<1> HIDE DEF b
<1> QED BY <1>1, <1>3, <1>6, <1>8, <1>9, <1>10, CallStep

\* An origin stands directly on the frame.
LEMMA OriginPlace ==
  ASSUME NEW V, Closed(V)
  PROVE  Place(Activation("origin", Instrs(OriginScript), 0), 2, V)
<1> DEFINE todo == Instrs(OriginScript)
<1>1. OriginScript \in Seq(LeafOps)
  BY SMT DEF OriginScript, LeafOps, Operands
<1>2. "origin" \in LeafTags /\ "origin" # "frame" /\ OpsOf("origin") = LeafOps
  BY DEF LeafTags, OpsOf
<1>3. todo \in Seq(Instruction(OpsOf("origin"), V))
  BY <1>1, <1>2, InstrsLemma DEF Closed
<1>4. 2 \in Nat /\ 2 # 1 /\ 0 \in Nat
  BY SMT
<1> HIDE DEF todo
<1>5. Place(Activation("origin", todo, 0), 2, V)
  BY <1>2, <1>3, <1>4, ActivationLemma
<1> QED BY <1>5 DEF todo

\* The origin of the whole frame.
LEMMA ReadOriginStep == ASSUME IInv, ReadOrigin PROVE IInv'
<1>1. PICK V : Built(V)
  BY DEF IInv
<1> DEFINE b == Activation("origin", Instrs(OriginScript), 0)
<1>2. /\ Running({"origin"})
      /\ stack' = Push(ReplaceTop(stack, Advance(Top.kids, <<>>)), b)
      /\ UNCHANGED <<frame, limits, index, nodes, flags, tables, pc>>
  BY DEF ReadOrigin
<1>3. Do = "origin" /\ Top.kids # <<>> /\ Len(stack) = 1
  BY <1>1, <1>2, RunningLemma, FrameLemma, OriginsLemma
<1>4. Place(b, Len(stack) + 1, V)
  <2>1. Len(stack) + 1 = 2
    BY <1>3, SMT
  <2> QED BY <1>1, <2>1, OriginPlace DEF Built
<1>5. /\ index' \in 0..Len(frame) /\ index' >= index
      /\ Len(stack) + 1 <= limits.depth + 2
  BY <1>2, <1>3, SMT DEF IInv, TypeOK, Limits
<1>6. <<>> \in Seq(Instruction(OpsOf(Top.tag), V))
  BY TupleLemma
<1> HIDE DEF b
<1> QED BY <1>1, <1>2, <1>3, <1>4, <1>5, <1>6, CallStep

\* The walk over the origin tree begins at the expression of the frame.
LEMMA WalkOriginsStep == ASSUME IInv, WalkOrigins PROVE IInv'
<1>1. PICK V : Built(V)
  BY DEF IInv
<1>2. PICK e : e = Top.kids[Len(Top.kids)]
  OBVIOUS
<1>3. /\ Running({"origintree"})
      /\ stack' = ReplaceTop(stack, Advance(Top.kids, <<MarkInstr(e, 0)>>))
      /\ UNCHANGED <<frame, limits, index, nodes, flags, tables, pc>>
  BY <1>2 DEF WalkOrigins
<1>4. /\ Place(Top, Len(stack), V) /\ Do = "origintree" /\ Top.kids # <<>>
      /\ OpsOf(Top.tag) = FrameOps
  BY <1>1, <1>3, RunningLemma, FrameLemma, OriginsLemma
<1>5. Top.kids \in Seq(V) /\ Closed(V)
  BY <1>1, <1>4 DEF Place, Built
<1>6. e \in V
  <2>1. Len(Top.kids) \in 1..Len(Top.kids)
    BY <1>4, <1>5, EmptySeq, LenProperties, SMT
  <2> QED BY <1>2, <1>5, <2>1, ElementOfSeq
<1>7. <<MarkInstr(e, 0)>> \in Seq(Instruction(OpsOf(Top.tag), V))
  <2>1. MarkInstr(e, 0) \in Instruction(FrameOps, V)
    BY <1>6 DEF MarkInstr, Instruction, FrameOps
  <2> QED BY <1>4, <2>1, TupleLemma
<1>8. index' \in 0..Len(frame) /\ index' >= index
  BY <1>3, SMT DEF IInv, TypeOK
<1> QED BY <1>1, <1>3, <1>4, <1>5, <1>7, <1>8, ReplaceStep

\* A node of the walk puts its children before what is left of it.
LEMMA MarkStep == ASSUME IInv, ReadMark \/ SkipMark PROVE IInv'
<1>1. PICK V : Built(V)
  BY DEF IInv
<1> DEFINE h == Head(Top.todo)
           marks == Marks(h.expr, h.depth + 1)
           I == Instruction(OpsOf(Top.tag), V)
<1>2. Running({"mark"}) /\ UNCHANGED <<frame, limits, nodes, flags, tables, pc>>
  BY DEF ReadMark, SkipMark
<1>3. /\ Place(Top, Len(stack), V) /\ Do = "mark" /\ Top.kids # <<>>
      /\ OpsOf(Top.tag) = FrameOps /\ Len(stack) = 1 /\ h \in I
  BY <1>1, <1>2, RunningLemma, FrameLemma, OriginsLemma
<1>4. /\ Top.kids \in Seq(V) /\ Closed(V) /\ V \subseteq V
      /\ Append(Top.kids, Nothing) \in Seq(V) /\ Append(Top.kids, Nothing) # <<>>
  <2>1. Top.kids \in Seq(V) /\ Nothing \in V /\ Closed(V)
    BY <1>1, <1>3 DEF Place, Built, Closed
  <2> QED BY <2>1, AppendProperties
<1>5. marks \in Seq(I) /\ <<>> \in Seq(I)
  <2>1. h.expr \in V /\ h.depth \in Nat
    BY <1>3 DEF Instruction
  <2>2. h.expr.kids \in Seq(V)
    BY <1>4, <2>1 DEF Closed
  <2>3. /\ Len(h.expr.kids) \in Nat
        /\ \A i \in 1..Len(h.expr.kids) : h.expr.kids[i] \in V
    BY <2>2, ElementOfSeq, LenProperties
  <2>4. h.depth + 1 \in Nat
    BY <2>1, SMT
  <2>5. \A i \in 1..Len(h.expr.kids) : MarkInstr(h.expr.kids[i], h.depth + 1) \in I
    BY <1>3, <2>3, <2>4 DEF MarkInstr, Instruction, FrameOps
  <2> HIDE DEF h, I
  <2> QED BY <2>3, <2>5, TupleLemma DEF Marks
<1>6. CASE SkipMark
  <2>1. /\ stack' = ReplaceTop(stack, Advance(Top.kids, <<>>))
        /\ index' \in 0..Len(frame) /\ index' >= index
    BY <1>6, SMT DEF SkipMark, IInv, TypeOK
  <2> HIDE DEF h, marks
  <2> QED BY <1>1, <1>2, <1>3, <1>4, <1>5, <2>1, ReplaceStep
<1>7. CASE ReadMark
  <2>1. /\ Has(1) /\ index' = index + 1
        /\ stack' = IF Unit(1) = 0
                    THEN ReplaceTop(stack, Advance(Append(Top.kids, Nothing), marks))
                    ELSE Push(ReplaceTop(stack, Advance(Top.kids, marks)),
                              Activation("origin", Instrs(OriginScript), 0))
    BY <1>7 DEF ReadMark, MarkOK, Marked
  <2>2. index + 1 \in 0..Len(frame)
    BY <2>1, UnitLemma DEF IInv
  <2>3. /\ index' \in 0..Len(frame) /\ index' >= index
        /\ Len(stack) + 1 <= limits.depth + 2 /\ Len(stack) + 1 = 2
    BY <1>3, <2>1, <2>2, SMT DEF IInv, TypeOK, Limits
  <2> HIDE DEF h, marks
  <2>4. CASE Unit(1) = 0
    <3>1. stack' = ReplaceTop(stack, Advance(Append(Top.kids, Nothing), marks))
      BY <2>1, <2>4
    <3> QED BY <1>1, <1>2, <1>4, <1>5, <2>3, <3>1, ReplaceStep
  <2>5. CASE Unit(1) # 0
    <3> DEFINE b == Activation("origin", Instrs(OriginScript), 0)
    <3>1. stack' = Push(ReplaceTop(stack, Advance(Top.kids, marks)), b)
      BY <2>1, <2>5
    <3>2. Place(b, Len(stack) + 1, V)
      BY <1>4, <2>3, OriginPlace
    <3> HIDE DEF b
    <3> QED BY <1>1, <1>2, <1>3, <1>5, <2>3, <3>1, <3>2, CallStep
  <2> QED BY <2>4, <2>5
<1> QED BY <1>6, <1>7

\* What is below an activation that is done.
LEMMA DoneLemma ==
  ASSUME IInv, NEW V, Built(V), Completed, Len(stack) > 1
  PROVE  /\ Len(stack) \in Nat /\ Place(Top, Len(stack), V)
         /\ Len(stack) - 1 \in 1..Len(stack)
         /\ Place(stack[Len(stack) - 1], Len(stack) - 1, V)
         /\ IsSeq(Pop(stack)) /\ Len(Pop(stack)) = Len(stack) - 1 /\ Pop(stack) # <<>>
         /\ \A i \in 1..(Len(stack) - 1) : i \in 1..Len(stack) /\ Pop(stack)[i] = stack[i]
<1>1. IsSeq(stack) /\ Len(stack) \in Nat /\ stack # <<>>
  <2>1. IsSeq(stack)
    BY DEF Built, StackIn
  <2> QED BY <2>1, StackBasics, EmptyStack, SMT
<1>2. /\ Len(stack) \in 1..Len(stack) /\ Len(stack) - 1 \in 1..Len(stack)
      /\ \A i \in 1..(Len(stack) - 1) : i \in 1..Len(stack)
  BY <1>1, SMT
<1>3. /\ IsSeq(Pop(stack)) /\ Len(Pop(stack)) = Len(stack) - 1
      /\ \A i \in 1..(Len(stack) - 1) : Pop(stack)[i] = stack[i]
  BY <1>1, PopLemma
<1>4. Pop(stack) # <<>>
  BY <1>2, <1>3, EmptyStack, SMT
<1> QED BY <1>1, <1>2, <1>3, <1>4 DEF Built, StackIn, Top, TopOf

\* A finished table moves from the stack to the tables.
LEMMA ReturnTableStep == ASSUME IInv, ReturnTable PROVE IInv'
<1>1. PICK V : Built(V)
  BY DEF IInv
<1>2. /\ Completed /\ pc = "read" /\ Len(stack) > 1 /\ Top.tag \in TableParts
      /\ tables' = [tables EXCEPT ![Top.tag] = Top.kids] /\ stack' = Pop(stack)
      /\ UNCHANGED <<frame, limits, index, nodes, flags, pc>>
  BY DEF ReturnTable, Completed
<1>3. /\ Len(stack) \in Nat /\ Place(Top, Len(stack), V)
      /\ IsSeq(stack') /\ Len(stack') = Len(stack) - 1 /\ stack' # <<>>
      /\ \A i \in 1..(Len(stack) - 1) : i \in 1..Len(stack) /\ stack'[i] = stack[i]
  BY <1>1, <1>2, DoneLemma
<1>4. Len(stack) = 2
  BY <1>2, <1>3 DEF Place, LeafTags
<1>5. stack'[1] = stack[1] /\ Len(stack') = 1
  BY <1>3, <1>4, SMT
<1>6. TablesIn(V)'
  <2>1. Top.kids \in Seq(V)
    BY <1>3 DEF Place
  <2> QED BY <1>1, <1>2, <2>1 DEF Built, TablesIn, TableParts
<1>7. StackIn(V)'
  BY <1>1, <1>3 DEF Built, StackIn
<1>8. Len(stack') <= limits'.depth + 2
  BY <1>2, <1>5, SMT DEF IInv, TypeOK, Limits
<1>9. Fed'
  <2>1. stack[2].tag \notin ExprTags
    BY <1>2, <1>4, TagsLemma DEF LeafTags, Top, TopOf
  <2>2. stack # <<>>
    BY <1>4, EmptyStack, SMT
  <2> QED BY <1>5, <2>1, <2>2 DEF IInv, Fed
<1>10. TypeOK' /\ NodesOK'
  <2>1. index' \in 0..Len(frame) /\ index' >= index /\ Len(stack') >= 1 /\ nodes' = nodes
    BY <1>2, <1>5, SMT DEF IInv, TypeOK
  <2> QED BY <1>2, <2>1, CursorLemma
<1> QED BY <1>1, <1>6, <1>7, <1>8, <1>9, <1>10 DEF IInv, Built

\* A finished value is given to the activation below.
LEMMA ReturnValueStep == ASSUME IInv, ReturnValue PROVE IInv'
<1>1. PICK V : Built(V)
  BY DEF IInv
<1>2. PICK v : v = Value(Top.tag, <<>>, Top.kids)
  OBVIOUS
<1>3. PICK W : W = V \cup {v}
  OBVIOUS
<1>4. PICK b : b = TopOf(Pop(stack))
  OBVIOUS
<1>5. PICK a : a = [tag |-> b.tag, todo |-> b.todo, inner |-> b.inner,
                    kids |-> Append(b.kids, v)]
  OBVIOUS
<1>6. /\ Completed /\ pc = "read" /\ Len(stack) > 1
      /\ stack' = ReplaceTop(Pop(stack), a)
      /\ UNCHANGED <<frame, limits, index, nodes, flags, tables, pc>>
  BY <1>2, <1>4, <1>5 DEF ReturnValue, Completed
<1> DEFINE n == Len(stack) - 1
<1>7. /\ Len(stack) \in Nat /\ Place(Top, Len(stack), V)
      /\ n \in 1..Len(stack) /\ Place(stack[n], n, V)
      /\ IsSeq(Pop(stack)) /\ Len(Pop(stack)) = n /\ Pop(stack) # <<>>
      /\ \A i \in 1..n : i \in 1..Len(stack) /\ Pop(stack)[i] = stack[i]
  BY <1>1, <1>6, DoneLemma
<1>8. n \in Nat /\ n >= 1 /\ n \in 1..n
  BY <1>6, <1>7, SMT
<1> HIDE DEF n
<1>9. b = stack[n] /\ Place(b, n, V)
  BY <1>4, <1>7, <1>8 DEF TopOf
<1>10. /\ IsSeq(stack') /\ stack' # <<>> /\ Len(stack') = n /\ stack'[n] = a
       /\ \A i \in 1..(n - 1) : stack'[i] = Pop(stack)[i]
  BY <1>6, <1>7, ReplaceTopLemma
<1>11. Closed(W) /\ V \subseteq W
  <2>1. v.kids \in Seq(V)
    BY <1>2, <1>7 DEF Value, Place
  <2> QED BY <1>1, <1>3, <2>1, GrowLemma DEF Built
<1>12. a.kids \in Seq(W) /\ a.kids # <<>>
  <2>1. b.kids \in Seq(W) /\ v \in W
    BY <1>3, <1>9, <1>11, SeqMono DEF Place
  <2> QED BY <1>5, <2>1, AppendProperties
<1>13. Place(a, n, W)
  <2>1. Place(b, n, W)
    BY <1>9, <1>11, PlaceMono
  <2>2. /\ a = [tag |-> a.tag, todo |-> a.todo, inner |-> a.inner, kids |-> a.kids]
        /\ a.tag = b.tag /\ a.todo = b.todo /\ a.inner = b.inner
    BY <1>5
  <2> QED BY <1>12, <2>1, <2>2 DEF Place
<1>14. StackIn(W)'
  <2>1. ASSUME NEW i \in 1..Len(stack') PROVE Place(stack'[i], i, W)
    <3>1. CASE i = n
      BY <1>10, <1>13, <3>1
    <3>2. CASE i # n
      <4>1. i \in 1..(n - 1) /\ i \in 1..n
        BY <1>8, <1>10, <3>2, SMT
      <4>2. stack'[i] = stack[i] /\ i \in 1..Len(stack)
        BY <1>7, <1>10, <4>1
      <4> QED BY <1>1, <1>11, <4>2, PlaceMono DEF Built, StackIn
    <3> QED BY <3>1, <3>2
  <2> QED BY <1>10, <2>1 DEF StackIn
<1>15. TablesIn(W)'
  BY <1>1, <1>6, <1>11, SeqMono DEF Built, TablesIn
<1>16. Len(stack') <= limits'.depth + 2
  BY <1>6, <1>7, <1>8, <1>10, SMT DEF IInv, TypeOK, Limits, n
<1>17. Fed'
  <2>1. CASE n = 1
    BY <1>10, <1>12, <2>1 DEF Fed
  <2>2. CASE n # 1
    <3>1. /\ 1 \in 1..(n - 1) /\ 1 \in 1..n /\ n >= 2 /\ Len(stack) >= 2
          /\ 2 \in 1..n /\ (n = 2 \/ 2 \in 1..(n - 1))
      <4>1. n >= 2
        BY <1>8, <2>2, SMT
      <4> QED BY <1>6, <1>7, <1>8, <4>1, SMT DEF n
    <3>2. stack'[1] = stack[1]
      BY <1>7, <1>10, <3>1
    <3>3. stack'[2].tag = stack[2].tag
      BY <1>5, <1>7, <1>9, <1>10, <3>1
    <3> QED BY <1>10, <3>1, <3>2, <3>3, FedAbove
  <2> QED BY <2>1, <2>2
<1>18. TypeOK' /\ NodesOK'
  <2>1. index' \in 0..Len(frame) /\ index' >= index /\ Len(stack') >= 1 /\ nodes' = nodes
    BY <1>6, <1>8, <1>10, SMT DEF IInv, TypeOK
  <2> QED BY <1>6, <2>1, CursorLemma
<1> QED BY <1>11, <1>14, <1>15, <1>16, <1>17, <1>18 DEF IInv, Built

\* The preamble is there: the frame begins.
LEMMA OpenStep == ASSUME IInv, Open PROVE IInv'
<1>1. PICK V : Built(V)
  BY DEF IInv
<1> DEFINE ops == <<"libs", "symbols", "domains", "expr">>
           tree == IF flags' \in {FlagTreeOrigin, FlagOrigin + FlagTreeOrigin}
                   THEN <<"origintree">> ELSE <<>>
           origin == IF flags' \in {FlagOrigin, FlagOrigin + FlagTreeOrigin}
                     THEN <<"origin">> ELSE <<>>
           todo == Plan(flags')
           a == Activation("frame", todo, 0)
<1>2. /\ pc = "open" /\ Preamble /\ index' = 3 /\ flags' = Number(frame[3])
      /\ stack' = <<a>> /\ pc' = "read"
      /\ UNCHANGED <<frame, limits, nodes, tables>>
  BY DEF Open
<1>3. /\ flags' \in 0..3 /\ index' \in 0..Len(frame) /\ index \in 0..Len(frame)
      /\ Len(frame) \in Nat
  BY <1>2, LenProperties, SMT
  DEF IInv, TypeOK, Preamble, Has3, FlagOrigin, FlagTreeOrigin
<1>4. /\ (ops \o tree) \o origin \in Seq(FrameOps)
      /\ Len((ops \o tree) \o origin) \in Nat /\ Len((ops \o tree) \o origin) >= 4
      /\ \A i \in 1..4 : ((ops \o tree) \o origin)[i] = ops[i]
  <2>1. ops \in Seq(FrameOps) /\ Len(ops) = 4
    BY SMT DEF FrameOps, TableParts
  <2>2. tree \in Seq(FrameOps) /\ origin \in Seq(FrameOps)
    BY TupleLemma DEF FrameOps
  <2> HIDE DEF ops, tree, origin
  <2>3. /\ ops \o tree \in Seq(FrameOps) /\ Len(ops \o tree) = 4 + Len(tree)
        /\ Len(tree) \in Nat /\ Len(origin) \in Nat
        /\ \A i \in 1..4 : (ops \o tree)[i] = ops[i]
    <3>1. Len(tree) \in Nat /\ Len(origin) \in Nat
      BY <2>2, LenProperties
    <3>2. /\ ops \o tree \in Seq(FrameOps) /\ Len(ops \o tree) = Len(ops) + Len(tree)
          /\ \A i \in 1..(Len(ops) + Len(tree)) :
               (ops \o tree)[i] = IF i <= Len(ops) THEN ops[i] ELSE tree[i - Len(ops)]
      BY <2>1, <2>2, ConcatProperties, Zenon
    <3>3. \A i \in 1..4 : i \in 1..(4 + Len(tree)) /\ i <= 4
      BY <3>1, SMT
    <3> QED BY <2>1, <3>1, <3>2, <3>3
  <2> DEFINE s == ops \o tree
  <2>4. s \in Seq(FrameOps) /\ Len(s) \in Nat /\ Len(s) >= 4
    BY <2>3, SMT
  <2> HIDE DEF s
  <2>5. /\ s \o origin \in Seq(FrameOps) /\ Len(s \o origin) = Len(s) + Len(origin)
        /\ \A i \in 1..Len(s) : (s \o origin)[i] = s[i]
    BY <2>2, <2>4, ConcatProperties, SMT
  <2>6. /\ Len(s \o origin) \in Nat /\ Len(s \o origin) >= 4
        /\ \A i \in 1..4 : (s \o origin)[i] = s[i]
    BY <2>3, <2>4, <2>5, SMT
  <2> QED BY <2>3, <2>5, <2>6 DEF s
<1>5. PICK all : all = (ops \o tree) \o origin
  OBVIOUS
<1>6. todo = Instrs(all)
  BY <1>5 DEF Plan
<1>7. todo \in Seq(Instruction(FrameOps, V))
  BY <1>1, <1>4, <1>5, <1>6, InstrsLemma DEF Built, Closed
<1>8. Ahead(todo)
  <2>1. /\ ops[4] = "expr"
        /\ \A i \in 1..3 : ops[i] \in TableParts
    BY SMT DEF TableParts
  <2> HIDE DEF ops, tree, origin, todo
  <2>2. /\ \A i \in 1..4 : all[i] = ops[i]
        /\ Len(all) \in Nat /\ Len(all) >= 4
    BY <1>4, <1>5
  <2>3. Len(todo) = Len(all) /\ \A i \in 1..Len(all) : todo[i].do = all[i]
    BY <1>6, <2>2, SMT DEF Instrs, Instr
  <2>4. /\ 4 \in 1..Len(todo) /\ 4 \in 1..4
        /\ \A i \in 1..(4 - 1) : i \in 1..3 /\ i \in 1..4 /\ i \in 1..Len(all)
    BY <2>2, <2>3, SMT
  <2>5. todo[4].do = "expr" /\ \A i \in 1..(4 - 1) : todo[i].do \in TableParts
    BY <2>1, <2>2, <2>3, <2>4
  <2> QED BY <2>4, <2>5 DEF Ahead
<1>9. Place(a, 1, V) /\ a.todo = todo
  <2>1. OpsOf("frame") = FrameOps /\ 1 \in Nat /\ 0 \in Nat /\ 0 = 1 - 1
    BY SMT DEF OpsOf
  <2> HIDE DEF todo
  <2>2. Place(Activation("frame", todo, 0), 1, V)
    BY <1>7, <2>1, TagsLemma, ActivationLemma
  <2>3. a.todo = todo
    BY DEF Activation
  <2> QED BY <2>2, <2>3
<1> HIDE DEF a, todo
<1>10. IsSeq(stack') /\ Len(stack') = 1 /\ stack'[1] = a
  BY <1>2, SMT DEF IsSeq
<1>11. Built(V)'
  BY <1>1, <1>2, <1>9, <1>10, SMT DEF Built, StackIn, TablesIn
<1>12. Fed'
  BY <1>8, <1>9, <1>10 DEF Fed
<1>13. TypeOK' /\ NodesOK' /\ Len(stack') <= limits'.depth + 2
  <2>1. nodes = 0
    BY <1>2 DEF IInv, NodesOK
  <2> QED BY <1>2, <1>3, <1>10, <2>1, SMT DEF IInv, TypeOK, NodesOK, NodesBounded, Limits
<1> QED BY <1>11, <1>12, <1>13 DEF IInv

-----------------------------------------------------------------------------
\* Every step keeps the invariant.
LEMMA NextIInv == IInv /\ [Next]_vars => IInv'
<1> SUFFICES ASSUME IInv, [Next]_vars PROVE IInv'
  OBVIOUS
<1>1. CASE OpenFail \/ OperandFail \/ CountFail \/ ExprFail \/ MarkFail
  BY <1>1, StayLemma
  DEF OpenFail, OperandFail, CountFail, ExprFail, MarkFail, Fail
<1>2. CASE Finish
  BY <1>2, StayLemma DEF Finish
<1>3. CASE UNCHANGED vars
  <2>1. PICK V : Built(V)
    BY DEF IInv
  <2>2. Built(V)'
    BY <1>3, <2>1 DEF Built, StackIn, TablesIn, vars
  <2> QED
    BY <1>3, <2>2 DEF IInv, TypeOK, NodesOK, NodesBounded, Fed, vars
<1>4. CASE Open \/ ReturnTable \/ ReturnValue
  BY <1>4, OpenStep, ReturnTableStep, ReturnValueStep
<1>5. CASE ReadOperand \/ ReadCount \/ ReadTable \/ ReadExpr
  BY <1>5, ReadOperandStep, ReadCountStep, ReadTableStep, ReadExprStep
<1>6. CASE ReadOrigin \/ WalkOrigins \/ ReadMark \/ SkipMark
  BY <1>6, ReadOriginStep, WalkOriginsStep, MarkStep
<1> QED
  BY <1>1, <1>2, <1>3, <1>4, <1>5, <1>6, Zenon DEF Next, Step, Halted

\* The inductive invariant of the reader, for every frame and every limit.
THEOREM Inductive == Spec => []IInv
<1> QED BY InitIInv, NextIInv, PTL DEF Spec

(***************************************************************************)
(* The cursor of the reader (BinaryReader.index) never leaves the frame,   *)
(* whatever counts, lengths and table indices the frame holds, and the     *)
(* reader runs only while it has an activation to run.                     *)
(***************************************************************************)
THEOREM TypeCorrect == Spec => []TypeOK
<1> QED BY Inductive, IInvImplies, PTL

(***************************************************************************)
(* check_depth is enough: no frame makes read_expr_with_depth recurse      *)
(* deeper than max_depth + 1, and the depth it is passed is the number of  *)
(* expressions that are really open.                                       *)
(***************************************************************************)
THEOREM RecursionIsBounded == Spec => []RecursionBounded
<1> QED BY Inductive, IInvImplies, PTL

(***************************************************************************)
(* bump_expr_nodes is enough: the reader counts at most max_nodes          *)
(* expressions, and never more than the units it has read.                 *)
(***************************************************************************)
THEOREM NodesAreBounded == Spec => []NodesBounded
<1> QED BY Inductive, IInvImplies, PTL
=============================================================================
