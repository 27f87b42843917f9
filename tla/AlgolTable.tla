----------------------------- MODULE AlgolTable -----------------------------
(***************************************************************************)
(* default_pratt_table of the Algol surface.  "/" stands for every other   *)
(* operator with the powers of "*".                                        *)
(***************************************************************************)
EXTENDS Naturals, TLC

Prefix(right, builds) ==
  [fixity |-> "prefix", left |-> 0, right |-> right, builds |-> builds]
Infix(left, right, builds) ==
  [fixity |-> "infix", left |-> left, right |-> right, builds |-> builds]
Postfix(left, builds) ==
  [fixity |-> "postfix", left |-> left, right |-> 0, builds |-> builds]

AlgolNud == [t \in {"-"} |-> Prefix(90, TRUE)]

AlgolLed ==
  [t \in {"+", "-"} |-> Infix(50, 51, TRUE)]
    @@ [t \in {"*", "/"} |-> Infix(60, 61, TRUE)]
    @@ [t \in {"^"} |-> Infix(80, 80, TRUE)]
    @@ [t \in {"!"} |-> Postfix(100, TRUE)]
=============================================================================
