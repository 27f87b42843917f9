------------------------------- MODULE Lists -------------------------------
(***************************************************************************)
(* Sequences as call stacks, last activation on top, and parts of          *)
(* sequences, by recursion on a place in them.                             *)
(***************************************************************************)
EXTENDS Naturals, Sequences, FiniteSets

\* A sequence of whatever it holds.
IsSeq(s) == s \in Seq({s[i] : i \in 1..Len(s)})

TopOf(s) == s[Len(s)]
Push(s, x) == Append(s, x)
Pop(s) == SubSeq(s, 1, Len(s) - 1)
ReplaceTop(s, x) == [s EXCEPT ![Len(s)] = x]

\* The elements of a sequence that are in the set S, in their order.
Only(s, S) ==
    LET kept[i \in 0..Len(s)] ==
            IF i = 0 THEN <<>>
            ELSE IF s[i] \in S THEN Append(kept[i - 1], s[i]) ELSE kept[i - 1]
    IN kept[Len(s)]

\* The elements of sequences, one sequence behind the other.
Flat(ss) ==
    LET upTo[i \in 0..Len(ss)] == IF i = 0 THEN <<>> ELSE upTo[i - 1] \o ss[i]
    IN upTo[Len(ss)]

\* The numbers of a finite set in their order.
Ascending(S) ==
    LET least[n \in 0..Cardinality(S)] ==
            IF n = 0 THEN <<>>
            ELSE LET before == least[n - 1]
                     rest == {x \in S : n = 1 \/ x > TopOf(before)}
                 IN Append(before, CHOOSE x \in rest : \A y \in rest : x <= y)
    IN least[Cardinality(S)]

\* The sums of the first elements of a sequence of numbers, and of all.
Sums(w) ==
    LET sum[i \in 0..Len(w)] == IF i = 0 THEN 0 ELSE sum[i - 1] + w[i]
    IN sum
Total(w) == Sums(w)[Len(w)]
=============================================================================
