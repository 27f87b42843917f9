---------------------------- MODULE PrattReading ----------------------------
(***************************************************************************)
(* What the finished trees of module Pratt mean: a declarative account of  *)
(* operator precedence, read off the spans of a tree, against which the    *)
(* parser's result is compared.                                            *)
(***************************************************************************)
EXTENDS Pratt

\* A tree was written in parentheses when its span is wider than its parts.
Grouped(t) ==
  CASE t.kind = "atom"   -> t.end - t.start > 1
    [] t.kind = "prefix" -> t.kids[1].end # t.end
    [] OTHER             -> t.kids[1].start # t.start

\* An operator standing directly before (after) t also touches its first
\* (last) operand.
OpenLeft(t)  == t.kind \in {"infix", "postfix", "call"} /\ ~Grouped(t)
OpenRight(t) == t.kind \in {"prefix", "infix"} /\ ~Grouped(t)

LastKid(t) == t.kids[Len(t.kids)]

\* One step down from t: to all its parts, or along its left or right edge.
Further(t, way) ==
  {t.kids[i] : i \in {j \in 1..Len(t.kids) :
                        \/ way = "parts"
                        \/ way = "left" /\ j = 1 /\ OpenLeft(t)
                        \/ way = "right" /\ j = Len(t.kids) /\ OpenRight(t)}}

\* Every part of a tree has a narrower span than the tree, so that no way
\* down is longer than the span.
Reached(t, way) ==
  LET upTo[n \in 0..(t.end - t.start)] ==
        IF n = 0 THEN {t}
        ELSE LET before == upTo[n - 1]
             IN  before \cup UNION {Further(x, way) : x \in before}
  IN  upTo[t.end - t.start]

Nodes(t) == Reached(t, "parts")
Size(t)  == Cardinality(Nodes(t))

\* The nodes of t that an operator standing directly before (after) t touches.
LeftSpine(t)  == {x \in Reached(t, "left") : OpenLeft(x)}
RightSpine(t) == {x \in Reached(t, "right") : OpenRight(x)}

\* Pull of a node on the operand to its left, and on the operand to its right.
LeftPower(t)  == IF t.kind = "call" THEN CallPower ELSE Led[t.op].left
RightPower(t) == IF t.kind = "prefix" THEN Nud[t.op].right ELSE Led[t.op].right

\* The operand left of n ended before n: everything open there binds tighter.
LeftOperandOK(n) ==
  n.kind \in {"infix", "postfix", "call"} =>
    \A t \in RightSpine(n.kids[1]) : LeftPower(n) < RightPower(t)

\* The operand right of n swallowed only operators that bind at least as much.
RightOperandOK(n) ==
  n.kind \in {"prefix", "infix"} =>
    \A t \in LeftSpine(LastKid(n)) : LeftPower(t) >= RightPower(n)

(***************************************************************************)
(* A parse that succeeds returns the reading the operator table gives: at  *)
(* every node, no operand written without parentheses holds an operator    *)
(* that the table binds less (to the right) or as little (to the left).    *)
(* parse_expr_tree only ever compares one operator with one number; this   *)
(* is what those comparisons add up to, across recursion and regrouping.   *)
(***************************************************************************)
PrecedenceRespected ==
  pc = "done" => \A n \in Nodes(left) : LeftOperandOK(n) /\ RightOperandOK(n)

(***************************************************************************)
(* DecodeLimits::max_expr_nodes is documented as the "Maximum number of    *)
(* `Expr` nodes in the decoded result".                                    *)
(***************************************************************************)
ResultWithinNodeLimit == pc = "done" => Size(left) <= limits.nodes
=============================================================================
