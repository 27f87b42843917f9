------------------------------- MODULE Pratt -------------------------------
(***************************************************************************)
(* The shared Pratt expression parser (crates/sim-codec-pratt), the driver *)
(* behind the Algol and Lua surfaces.                                      *)
(*                                                                         *)
(* parse_expr_tree, parse_nud_tree, parse_led_tree and parse_call_tree     *)
(* recurse into one another.  Here the recursion is unfolded: `stack'      *)
(* holds one continuation per suspended parse_expr_tree activation (what   *)
(* it was building when it called itself), and min, depth, left are the    *)
(* locals of the activation that runs.  `nodes' is the node counter of the *)
(* DecodeBudget the caller lends to the parse.                             *)
(*                                                                         *)
(* Token i stands between the offsets i - 1 and i, so a span is a pair of  *)
(* token positions; the leading trivia of token i is the single item i.    *)
(* Operator results that only rename the built node (ExprInfix, Call,      *)
(* Custom) are one node kind; a result that does not fit the fixity is     *)
(* `builds = FALSE'.                                                       *)
(***************************************************************************)
EXTENDS Naturals, Sequences, Lists

CONSTANTS
  Token,        \* token values; "(", ")" and "," are the delimiters
  Atoms,        \* identifiers, numbers and strings
  Strings,      \* the atoms that are string literals ...
  LongStrings,  \* ... and those of them longer than max_string_bytes
  Nud, Led,     \* the kernel's PrattTable: token -> operator record
  Inputs,       \* the token sequences the token source may return
  LimitChoices  \* the DecodeLimits a caller may pass

Operator == [fixity : {"prefix", "infix", "postfix"}, left : Nat, right : Nat,
             builds : BOOLEAN]

Limits == [tokens : Nat, nodes : Nat, depth : Nat, args : Nat]

ASSUME PrattAssumption ==
  /\ {"(", ")", ","} \subseteq Token
  /\ LongStrings \subseteq Strings /\ Strings \subseteq Atoms
  /\ Atoms \subseteq Token \ {"(", ")", ","}
  /\ DOMAIN Nud \subseteq Token \ (Atoms \cup {"(", ")", ","})
  /\ DOMAIN Led \subseteq Token \ (Atoms \cup {"(", ")", ","})
  /\ \A t \in DOMAIN Nud : Nud[t] \in Operator /\ Nud[t].fixity = "prefix"
  /\ \A t \in DOMAIN Led : Led[t] \in Operator /\ Led[t].fixity # "prefix"
  /\ Inputs \subseteq Seq(Token)
  /\ LimitChoices \subseteq Limits

VARIABLES
  tokens,  \* ParseCx.tokens
  index,   \* ParseCx.index: how many tokens are consumed
  limits,  \* the limits of the DecodeBudget
  nodes,   \* its running node count
  stack,   \* suspended activations of parse_expr_tree, outermost first
  min,     \* min_bp of the running activation
  depth,   \* depth of the running activation
  left,    \* the tree built so far by the running activation
  pc       \* where the running activation is

vars == <<tokens, index, limits, nodes, stack, min, depth, left, pc>>

-----------------------------------------------------------------------------
\* Binding power of the call parenthesis, fixed in the driver.
CallPower == 110

NoTree == [kind |-> "none", op |-> "", kids |-> <<>>, start |-> 0, end |-> 0,
           trivia |-> <<>>]

Peek == tokens[index + 1]
AtEnd == index >= Len(tokens)
Sees(t) == ~AtEnd /\ Peek = t
Top == TopOf(stack)

Node(kind, op, kids, start, end, trivia) ==
  [kind |-> kind, op |-> op, kids |-> kids, start |-> start, end |-> end,
   trivia |-> trivia]

\* The leading trivia of the token at offset i.
TriviaAt(i) == <<i + 1>>

WithTrivia(tree, extra) ==
  Node(tree.kind, tree.op, tree.kids, tree.start, tree.end, tree.trivia \o extra)

Leaf(tok, at) == Node("atom", tok, <<>>, at, at + 1, TriviaAt(at))

PrefixTree(op, start, arg) ==
  Node("prefix", op, <<arg>>, start, arg.end, arg.trivia)

InfixTree(op, lhs, rhs) ==
  Node("infix", op, <<lhs, rhs>>, lhs.start, rhs.end, rhs.trivia)

PostfixTree(op, arg, end) ==
  Node("postfix", op, <<arg>>, arg.start, end, arg.trivia)

\* The closing parenthesis at offset `at' gives its trivia to the operator
\* and to the call.
EmptyCallTree(operator, at) ==
  Node("call", "call", <<WithTrivia(operator, TriviaAt(at))>>,
       operator.start, at + 1, TriviaAt(at))

CallTree(operator, args, end) ==
  Node("call", "call", <<operator>> \o args, operator.start, end,
       args[Len(args)].trivia)

\* Mutant: the closing parenthesis is left out of the span.
GroupTreeOpen(inner, open, close) ==
  Node(inner.kind, inner.op, inner.kids, open, close, TriviaAt(open) \o TriviaAt(close))

\* Parentheses keep the inner node and replace its origin.
GroupTree(inner, open, close) ==
  Node(inner.kind, inner.op, inner.kids, open, close + 1,
       TriviaAt(open) \o TriviaAt(close))

-----------------------------------------------------------------------------
Fail == pc' = "error"

\* DecodeBudget::enter_node: charge first, then check both ceilings.
Charge == nodes' = nodes + 1
Admits(d) == nodes + 1 <= limits.nodes /\ d <= limits.depth

\* Mutant: a builder that charges twice.
SettleTwice(tree, d, ok) ==
  /\ nodes' = nodes + 2
  /\ \/ Admits(d) /\ ok /\ left' = tree /\ pc' = "loop"
     \/ ~(Admits(d) /\ ok) /\ left' = NoTree /\ Fail

\* A builder charges the node, then hands the tree to the loop.
Settle(tree, d, ok) ==
  /\ Charge
  /\ \/ Admits(d) /\ ok /\ left' = tree /\ pc' = "loop"
     \/ ~(Admits(d) /\ ok) /\ left' = NoTree /\ Fail

\* A suspended activation: the call it waits for, what it holds meanwhile
\* (operator, start of the construct, left tree, arguments) and its min_bp
\* and depth.
Continuation(wait, op, start, lhs, args, m, d) ==
  [wait |-> wait, op |-> op, start |-> start, left |-> lhs, args |-> args,
   min |-> m, depth |-> d]

WithArg(k, arg) ==
  Continuation(k.wait, k.op, k.start, k.left, Push(k.args, arg), k.min, k.depth)

\* Suspend the running activation with continuation k and recurse with bp.
Suspended(wait, op, start, lhs) ==
  Continuation(wait, op, start, lhs, <<>>, min, depth)

\* Mutant: the callee gets the caller's depth.
RecurseFlat(k, bp) ==
  /\ stack' = Push(stack, k)
  /\ min' = bp
  /\ depth' = depth
  /\ left' = NoTree
  /\ pc' = "enter"

Recurse(k, bp) ==
  /\ stack' = Push(stack, k)
  /\ min' = bp
  /\ depth' = depth + 1
  /\ left' = NoTree
  /\ pc' = "enter"

\* Return into the activation that is on top of the stack.
Resume ==
  /\ stack' = Pop(stack)
  /\ min' = Top.min
  /\ depth' = Top.depth

-----------------------------------------------------------------------------
Idle ==
  /\ limits \in LimitChoices
  /\ index = 0 /\ nodes = 0
  /\ stack = <<>> /\ min = 0 /\ depth = 0
  /\ left = NoTree /\ pc = "start"

Init == tokens \in Inputs /\ Idle

\* parse_tree_with_source_and_budget: the token ceiling, then the first call.
Start ==
  /\ pc = "start"
  /\ pc' = IF Len(tokens) <= limits.tokens THEN "enter" ELSE "error"
  /\ UNCHANGED <<tokens, index, limits, nodes, stack, min, depth, left>>

Enter ==
  /\ pc = "enter"
  /\ Charge
  /\ pc' = IF Admits(depth) THEN "nud" ELSE "error"
  /\ UNCHANGED <<tokens, index, limits, stack, min, depth, left>>

\* parse_nud_tree, by the token it consumes.
NudPrefix ==
  /\ pc = "nud" /\ ~AtEnd
  /\ Peek \in DOMAIN Nud
  /\ index' = index + 1
  /\ Recurse(Suspended("prefix", Peek, index, NoTree), Nud[Peek].right)
  /\ UNCHANGED <<tokens, limits, nodes>>

NudAtom ==
  /\ pc = "nud" /\ ~AtEnd
  /\ Peek \in Atoms
  /\ index' = index + 1
  /\ Settle(Leaf(Peek, index), depth, Peek \notin LongStrings)
  /\ UNCHANGED <<tokens, limits, stack, min, depth>>

NudGroup ==
  /\ pc = "nud" /\ Sees("(")
  /\ index' = index + 1
  /\ Recurse(Suspended("group", "(", index, NoTree), 0)
  /\ UNCHANGED <<tokens, limits, nodes>>

NudFail ==
  /\ pc = "nud"
  /\ \/ AtEnd /\ UNCHANGED index
     \/ /\ ~AtEnd
        /\ Peek \notin DOMAIN Nud \cup Atoms \cup {"("}
        /\ index' = index + 1
  /\ Fail
  /\ UNCHANGED <<tokens, limits, nodes, stack, min, depth, left>>

-----------------------------------------------------------------------------
\* The loop of parse_expr_tree.
Binds(t) ==
  \/ t = "(" /\ ~(CallPower < min)
  \/ t \in DOMAIN Led /\ ~(Led[t].left < min)

NextBinds == ~AtEnd /\ Binds(Peek)

LoopBreak ==
  /\ pc = "loop"
  /\ ~NextBinds
  /\ pc' = "return"
  /\ UNCHANGED <<tokens, index, limits, nodes, stack, min, depth, left>>

LoopPostfix ==
  /\ pc = "loop" /\ NextBinds
  /\ Peek \in DOMAIN Led /\ Led[Peek].fixity = "postfix"
  /\ index' = index + 1
  /\ Settle(PostfixTree(Peek, left, index + 1), depth, Led[Peek].builds)
  /\ UNCHANGED <<tokens, limits, stack, min, depth>>

\* Mutant: the right operand is read with the left binding power.
LoopInfixLeft ==
  /\ pc = "loop" /\ NextBinds
  /\ Peek \in DOMAIN Led /\ Led[Peek].fixity = "infix"
  /\ index' = index + 1
  /\ Recurse(Suspended("led", Peek, index, left), Led[Peek].left)
  /\ UNCHANGED <<tokens, limits, nodes>>

LoopInfix ==
  /\ pc = "loop" /\ NextBinds
  /\ Peek \in DOMAIN Led /\ Led[Peek].fixity = "infix"
  /\ index' = index + 1
  /\ Recurse(Suspended("led", Peek, index, left), Led[Peek].right)
  /\ UNCHANGED <<tokens, limits, nodes>>

\* parse_call_tree on `()': no argument and no charge.
LoopEmptyCall ==
  /\ pc = "loop" /\ Sees("(") /\ NextBinds
  /\ index + 1 < Len(tokens) /\ tokens[index + 2] = ")"
  /\ index' = index + 2
  /\ left' = EmptyCallTree(left, index + 1)
  /\ UNCHANGED <<tokens, limits, nodes, stack, min, depth, pc>>

\* parse_call_tree before its first argument.
LoopCall ==
  /\ pc = "loop" /\ Sees("(") /\ NextBinds
  /\ ~(index + 1 < Len(tokens) /\ tokens[index + 2] = ")")
  /\ index' = index + 1
  /\ \/ /\ 1 <= limits.args
        /\ Recurse(Suspended("arg", "call", index, left), 0)
     \/ /\ 1 > limits.args
        /\ Fail /\ UNCHANGED <<stack, min, depth, left>>
  /\ UNCHANGED <<tokens, limits, nodes>>

-----------------------------------------------------------------------------
\* An activation returns `left' to the continuation that waits for it.
Returns(wait) == pc = "return" /\ stack # <<>> /\ Top.wait = wait

ReturnPrefix ==
  /\ Returns("prefix")
  /\ Settle(PrefixTree(Top.op, Top.start, left), Top.depth, Nud[Top.op].builds)
  /\ Resume
  /\ UNCHANGED <<tokens, index, limits>>

ReturnInfix ==
  /\ Returns("led")
  /\ Settle(InfixTree(Top.op, Top.left, left), Top.depth, Led[Top.op].builds)
  /\ Resume
  /\ UNCHANGED <<tokens, index, limits>>

ReturnGroup ==
  /\ Returns("group")
  /\ Sees(")")
  /\ index' = index + 1
  /\ left' = GroupTree(left, Top.start, index)
  /\ pc' = "loop"
  /\ Resume
  /\ UNCHANGED <<tokens, limits, nodes>>

\* The delimiter after an argument gives its trivia to that argument.
ReturnNextArg ==
  /\ Returns("arg")
  /\ Sees(",")
  /\ index' = index + 1
  /\ LET k == WithArg(Top, WithTrivia(left, TriviaAt(index)))
     IN  /\ stack' = ReplaceTop(stack, k)
         /\ pc' = IF Len(k.args) + 1 <= limits.args THEN "enter" ELSE "error"
  /\ min' = 0
  /\ left' = NoTree
  /\ UNCHANGED <<tokens, limits, nodes, depth>>

ReturnLastArg ==
  /\ Returns("arg")
  /\ Sees(")")
  /\ index' = index + 1
  /\ LET k == WithArg(Top, WithTrivia(left, TriviaAt(index)))
     IN  Settle(CallTree(k.left, k.args, index + 1), k.depth, TRUE)
  /\ Resume
  /\ UNCHANGED <<tokens, limits>>

\* A group or an argument is not followed by what must follow it.
ReturnFail ==
  /\ \/ Returns("group") /\ ~Sees(")")
     \/ Returns("arg") /\ ~Sees(")") /\ ~Sees(",")
  /\ index' = IF AtEnd THEN index ELSE index + 1
  /\ Fail
  /\ UNCHANGED <<tokens, limits, nodes, stack, min, depth, left>>

\* Mutant: leftover tokens send the driver back to its loop.
FinishAgain ==
  /\ pc = "return" /\ stack = <<>>
  /\ pc' = IF AtEnd THEN "done" ELSE "loop"
  /\ UNCHANGED <<tokens, index, limits, nodes, stack, min, depth, left>>

\* The outermost activation returns: leftover tokens are an error.
Finish ==
  /\ pc = "return" /\ stack = <<>>
  /\ pc' = IF AtEnd THEN "done" ELSE "error"
  /\ UNCHANGED <<tokens, index, limits, nodes, stack, min, depth, left>>

Halted == pc \in {"done", "error"} /\ UNCHANGED vars

Loop == LoopBreak \/ LoopPostfix \/ LoopInfix \/ LoopEmptyCall \/ LoopCall
NudStep == NudPrefix \/ NudAtom \/ NudGroup \/ NudFail
Return == ReturnPrefix \/ ReturnInfix \/ ReturnGroup \/ ReturnNextArg
            \/ ReturnLastArg \/ ReturnFail

Step == Start \/ Enter \/ NudStep \/ Loop \/ Return \/ Finish

Next == Step \/ Halted

\* The parser runs on one thread and never waits: it takes its next step.
Fairness == WF_vars(Step)

Spec == Init /\ [][Next]_vars /\ Fairness

-----------------------------------------------------------------------------
HasSpan(t) == t.start \in Nat /\ t.end \in Nat /\ t.start < t.end

IsContinuation(k) ==
  /\ k.wait \in {"prefix", "group", "led", "arg"}
  /\ k.min \in Nat /\ k.depth \in Nat /\ k.start \in Nat
  /\ k.wait = "prefix" => k.op \in DOMAIN Nud
  /\ k.wait = "led" => k.op \in DOMAIN Led
  /\ k.wait \in {"led", "arg"} => HasSpan(k.left)
  /\ IsSeq(k.args)
  /\ \A j \in 1..Len(k.args) :
       HasSpan(k.args[j]) /\ k.left.end < k.args[j].start

\* Where the activation behind continuation k began to consume tokens, and
\* where the activation it called began.
Begin(k) == IF k.wait \in {"prefix", "group"} THEN k.start ELSE k.left.start

CalleeBegin(k) ==
  CASE k.wait \in {"prefix", "group"} -> k.start + 1
    [] k.wait = "led" -> k.left.end + 1
    [] k.wait = "arg" ->
         1 + IF k.args = <<>> THEN k.left.end ELSE TopOf(k.args).end

\* ... and where the running activation did.
RunningBegin == IF pc \in {"loop", "return"} THEN left.start ELSE index

Live == pc \notin {"start", "done", "error"}

(* Type invariant of the machine's scalar state. *)
TypeOK ==
  /\ tokens \in Seq(Token)
  /\ limits \in Limits
  /\ index \in 0..Len(tokens)
  /\ nodes \in Nat /\ min \in Nat /\ depth \in Nat
  /\ pc \in {"start", "enter", "nud", "loop", "return", "done", "error"}
  /\ pc \in {"loop", "return", "done"} => HasSpan(left)
  /\ IsSeq(stack)
  /\ \A i \in 1..Len(stack) : IsContinuation(stack[i])

(***************************************************************************)
(* The native recursion is bounded: the `depth' argument threaded through  *)
(* the four functions is the number of activations really suspended, and   *)
(* none is ever suspended beyond max_depth, whatever the input nests.      *)
(***************************************************************************)
RecursionBounded ==
  /\ Live => depth = Len(stack)
  /\ \A i \in 1..Len(stack) : stack[i].depth = i - 1
  /\ Len(stack) <= limits.depth + 1
  /\ pc \in {"nud", "loop", "return"} => depth <= limits.depth

(***************************************************************************)
(* Spans tile the input: at every moment the suspended activations and the *)
(* running one account for the consumed prefix of the tokens without gap   *)
(* or overlap, and a finished parse returns a tree whose span is the whole *)
(* input.                                                                  *)
(***************************************************************************)
SpansTile ==
  /\ Live =>
       /\ \A i \in 1..Len(stack) :
            IF i = Len(stack) THEN CalleeBegin(stack[i]) = RunningBegin
                              ELSE CalleeBegin(stack[i]) = Begin(stack[i + 1])
       /\ (IF stack = <<>> THEN RunningBegin ELSE Begin(stack[1])) = 0
       /\ pc \in {"loop", "return"} => left.end = index
  /\ pc = "done" => left.start = 0 /\ left.end = Len(tokens)

(***************************************************************************)
(* The budget charges at most two nodes per consumed token, plus one for   *)
(* the activation about to read, the nodes that the suspended activations  *)
(* still owe included: max_tokens alone bounds the work of a parse.        *)
(***************************************************************************)
ChargesBoundedByTokens == pc # "error" => nodes + Len(stack) <= 2 * index + 1

(* Every parse ends, in a tree or in an error: parse_expr_tree has no input *)
(* on which its loop or its recursion goes on.                             *)
Terminates == <>(pc \in {"done", "error"})
=============================================================================
