---------------------------- MODULE MCAlgolCodec ----------------------------
(***************************************************************************)
(* Module Pratt under the operator table of the Algol surface, on every    *)
(* short token sequence and on longer chains of operators, and module      *)
(* AlgolCodec on every expression of height two and on the taller ones     *)
(* that put such an expression next to an atom.                            *)
(***************************************************************************)
EXTENDS AlgolCodec

\* "?" is registered with a result that does not fit its fixity, "$" is an
\* operator the table does not know.
MCNud == AlgolNud @@ [t \in {"?"} |-> Prefix(90, FALSE)]
MCLed == AlgolLed @@ [t \in {"%"} |-> Infix(50, 51, FALSE)]
               @@ [t \in {"~"} |-> Postfix(100, FALSE)]

MCStrings == {"s", "S"}
MCLongStrings == {"S"}
MCAtoms == {"a"} \cup MCStrings
MCToken == MCAtoms \cup DOMAIN MCNud \cup DOMAIN MCLed \cup {"(", ")", ",", "$"}

SeqsUpTo(S, n) == UNION {[1..k -> S] : k \in 0..n}

\* Every sequence of at most five common tokens, every one of at most three.
Short == SeqsUpTo({"a", "+", "-", "!", "(", ")", ","}, 5) \cup SeqsUpTo(MCToken, 3)

\* Four operands, each alone, negated, suffixed or in parentheses, under
\* three infix operators.
Operands == {<<"a">>, <<"-", "a">>, <<"a", "!">>, <<"a", "(", "a", ")">>}
Chains ==
  {p \o <<o1>> \o q \o <<o2>> \o r :
     p \in Operands, q \in Operands \cup {<<"(", "a", "^", "a", ")">>}, r \in Operands,
     o1 \in {"+", "*", "^"}, o2 \in {"+", "*", "^"}}
Nested ==
  {<<"(">> \o p \o <<o1>> \o q \o <<")", o2>> \o r :
     p \in Operands, q \in Operands, r \in Operands,
     o1 \in {"+", "^"}, o2 \in {"*", "^"}}

MCInputs == Short \cup Chains \cup Nested

\* A limit that never bites, one where each ceiling does, and a token ceiling.
MCLimitChoices == {
  [tokens |-> 40, nodes |-> 100, depth |-> 40, args |-> 40],
  [tokens |-> 20, nodes |-> 6, depth |-> 1, args |-> 1],
  [tokens |-> 4, nodes |-> 40, depth |-> 10, args |-> 0]}

\* Calls of calls, and a node ceiling they pass.
MCCallChains == {<<"a">> \o [i \in 1..(2 * n) |-> IF i % 2 = 1 THEN "(" ELSE ")"] : n \in 0..4}
MCNodeCeiling == {[tokens |-> 20, nodes |-> 4, depth |-> 10, args |-> 10]}

MCTokenAndRun == MCToken \cup OperatorChars \cup {Run}

a == Atom("a")

Over(S) == \* one operator on top of operands from S
  {PrefixOf("-", e) : e \in S} \cup {PostfixOf("!", e) : e \in S}
    \cup {CallOf(e, <<>>) : e \in S}
    \cup {CallOf(a, <<e>>) : e \in S} \cup {CallOf(e, <<a, a>>) : e \in S}
    \cup {InfixOf(o, l, a) : o \in {"+", "*", "^"}, l \in S}
    \cup {InfixOf(o, a, r) : o \in {"-", "*", "^"}, r \in S}

Low == {a} \cup Over({a})
Both == {InfixOf(o, l, r) : o \in {"+", "*", "^"}, l \in Low, r \in Low}
MCExprs == Low \cup Over(Low) \cup Both \cup Over(Over(Low) \cup Both)
MCNoExprs == {}
=============================================================================
