----------------------------- MODULE AlgolCodec -----------------------------
(***************************************************************************)
(* The Algol surface: an expression is rendered by encode_algol, scanned   *)
(* again by tokenize_algol_spanned and parsed by the shared Pratt driver.  *)
(*                                                                         *)
(* Text is a sequence of lexemes with blanks in between.  Only adjacent    *)
(* operator characters matter to the scanner: it takes the longest run of  *)
(* them as one token, and the table knows no operator of two characters.   *)
(***************************************************************************)
EXTENDS PrattReading, AlgolTable, SequencesExt

CONSTANT Exprs  \* the expressions to encode

VARIABLE expr   \* the expression that was encoded

avars == <<vars, expr>>

Atom(t)           == [kind |-> "atom", op |-> t, kids |-> <<>>]
PrefixOf(op, e)   == [kind |-> "prefix", op |-> op, kids |-> <<e>>]
InfixOf(op, l, r) == [kind |-> "infix", op |-> op, kids |-> <<l, r>>]
PostfixOf(op, e)  == [kind |-> "postfix", op |-> op, kids |-> <<e>>]
CallOf(e, args)   == [kind |-> "call", op |-> "call", kids |-> <<e>> \o args]

-----------------------------------------------------------------------------
Blank == " "

Parens(text) == <<"(">> \o text \o <<")">>

\* encode_algol: only an infix operator is ever put in parentheses.
RECURSIVE Encode(_, _)
\* Mutant: an operator that binds as tightly as its parent is wrapped too.
EncodeEager(e, parentBp) ==
  CASE e.kind = "atom" -> <<e.op>>
    [] e.kind = "infix" ->
         LET op   == Led[e.op]
             text == Encode(e.kids[1], op.left) \o <<Blank, e.op, Blank>>
                       \o Encode(e.kids[2], op.right)
         IN  IF op.left <= parentBp THEN Parens(text) ELSE text
    [] e.kind = "prefix" -> <<e.op>> \o Encode(e.kids[1], Nud[e.op].right)
    [] e.kind = "postfix" -> Encode(e.kids[1], Led[e.op].left) \o <<e.op>>
    [] e.kind = "call" ->
         LET args == [i \in 1..(Len(e.kids) - 1) |-> Encode(e.kids[i + 1], 0)]
         IN  Encode(e.kids[1], CallPower) \o
               Parens(FlattenSeq([i \in 1..Len(args) |->
                        IF i = 1 THEN args[i] ELSE <<",", Blank>> \o args[i]]))

Encode(e, parentBp) ==
  CASE e.kind = "atom" -> <<e.op>>
    [] e.kind = "infix" ->
         LET op   == Led[e.op]
             text == Encode(e.kids[1], op.left) \o <<Blank, e.op, Blank>>
                       \o Encode(e.kids[2], op.right)
         IN  IF op.left < parentBp THEN Parens(text) ELSE text
    [] e.kind = "prefix" -> <<e.op>> \o Encode(e.kids[1], Nud[e.op].right)
    [] e.kind = "postfix" -> Encode(e.kids[1], Led[e.op].left) \o <<e.op>>
    [] e.kind = "call" ->
         LET args == [i \in 1..(Len(e.kids) - 1) |-> Encode(e.kids[i + 1], 0)]
         IN  Encode(e.kids[1], CallPower) \o
               Parens(FlattenSeq([i \in 1..Len(args) |->
                        IF i = 1 THEN args[i] ELSE <<",", Blank>> \o args[i]]))

-----------------------------------------------------------------------------
OperatorChars == DOMAIN AlgolNud \cup DOMAIN AlgolLed
Run == "run"    \* an operator token of several characters

\* tokenize_algol_spanned: maximal munch over operator characters; blanks
\* separate and vanish.
Tokenize(text) ==
  LET IsOp(i) == i \in 1..Len(text) /\ text[i] \in OperatorChars
      \* the token that starts at position i, if one does
      TokenAt(i) ==
        CASE text[i] = Blank -> <<>>
          [] ~IsOp(i) -> <<text[i]>>
          [] IsOp(i) /\ IsOp(i - 1) -> <<>>
          [] OTHER -> IF IsOp(i + 1) THEN <<Run>> ELSE <<text[i]>>
  IN  FlattenSeq([i \in 1..Len(text) |-> TokenAt(i)])

-----------------------------------------------------------------------------
\* The expression of a located tree, without its origins.
RECURSIVE ExprOf(_)
ExprOf(t) == [kind |-> t.kind, op |-> t.op,
              kids |-> [i \in 1..Len(t.kids) |-> ExprOf(t.kids[i])]]

\* The text is the encoder's, or somebody else's.
Foreign == Atom("foreign")
Written == expr # Foreign

AlgolInit ==
  /\ \/ expr \in Exprs /\ tokens = Tokenize(Encode(expr, 0))
     \/ expr = Foreign /\ tokens \in Inputs
  /\ Idle

AlgolNext == Next /\ UNCHANGED expr

\* The parser runs on one thread and never waits.
AlgolSpec == AlgolInit /\ [][AlgolNext]_avars /\ WF_avars(Step /\ UNCHANGED expr)

-----------------------------------------------------------------------------
(***************************************************************************)
(* The fragment the surface round-trips.  encode_algol compares an infix   *)
(* operator with the power above it and parenthesises nothing else, so an  *)
(* expression survives when, at every node, the operands it writes bare    *)
(* are operands the parser would also have read bare, and no operator is   *)
(* written against another.                                                *)
(***************************************************************************)
Bare(e, parentBp) == ~(e.kind = "infix" /\ Led[e.op].left < parentBp)

\* The operators exposed at the right and left edge of e's rendering.
RECURSIVE RightEdge(_, _), LeftEdge(_, _)
RightEdge(e, bp) ==
  IF e.kind \in {"prefix", "infix"} /\ Bare(e, bp)
  THEN {e} \cup RightEdge(Last(e.kids), RightPower(e)) ELSE {}
LeftEdge(e, bp) ==
  IF e.kind \in {"infix", "postfix", "call"} /\ Bare(e, bp)
  THEN {e} \cup LeftEdge(e.kids[1], LeftPower(e)) ELSE {}

ReadsBack(e) ==
  /\ e.kind \in {"infix", "postfix", "call"} =>
       \A t \in RightEdge(e.kids[1], LeftPower(e)) : LeftPower(e) < RightPower(t)
  /\ e.kind \in {"prefix", "infix"} =>
       \A t \in LeftEdge(Last(e.kids), RightPower(e)) : LeftPower(t) >= RightPower(e)

\* `--a' and `a!!' scan as one unknown operator.
Munched(e) ==
  \/ e.kind = "prefix" /\ Encode(e.kids[1], RightPower(e))[1] \in OperatorChars
  \/ e.kind = "postfix" /\ Last(Encode(e.kids[1], LeftPower(e))) \in OperatorChars

\* e and the expressions in it.
RECURSIVE Within(_)
Within(e) == {e} \cup UNION {Within(e.kids[i]) : i \in DOMAIN e.kids}

Faithful(e) == \A n \in Within(e) : ReadsBack(n) /\ ~Munched(n)

Ended == pc \in {"done", "error"}

\* Limits that no text of this length can reach.
Ample ==
  LET n == Len(tokens)
  IN  /\ limits.tokens >= n /\ limits.depth >= n /\ limits.args >= n
      /\ limits.nodes >= 2 * n + 1

DecodesTo(e) == pc = "done" /\ ExprOf(left) = e

(***************************************************************************)
(* The round trip holds exactly on that fragment: within ample limits an   *)
(* expression in it is decoded from its own rendering, one outside it is   *)
(* not.                                                                    *)
(***************************************************************************)
RoundTripsExactlyFragment ==
  Ended /\ Written /\ Ample => (DecodesTo(expr) <=> Faithful(expr))
=============================================================================
