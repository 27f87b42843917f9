---------------------------- MODULE PrattProofs ----------------------------
(***************************************************************************)
(* The invariants of module Pratt hold for every operator table, every set *)
(* of inputs and every choice of limits.                                   *)
(*                                                                         *)
(* The inductive invariant is the conjunction of the type invariant, the   *)
(* recursion bound, the tiling of the spans and a charge bound one node    *)
(* sharper than the one the runs check.  Every action does one of four     *)
(* things to the stack of activations: it leaves it alone, pushes a        *)
(* continuation, pops one, or fails; a lemma for each carries the          *)
(* invariant over, and the proof of an action only computes the tree, the  *)
(* cursor and the counter it hands on.                                     *)
(*                                                                         *)
(* On top of it stands MeaningInv: what the activations know of the trees  *)
(* they hold, from which the precedence of a finished tree follows.        *)
(***************************************************************************)
EXTENDS PrattReading, DataLemmas

StackOK ==
  /\ IsSeq(stack)
  /\ \A i \in 1..Len(stack) : IsContinuation(stack[i])
  /\ \A i \in 1..Len(stack) : stack[i].depth = i - 1
  /\ Len(stack) <= limits.depth + 1

ScalarsOK ==
  /\ tokens \in Seq(Token)
  /\ limits \in Limits
  /\ index \in 0..Len(tokens)
  /\ nodes \in Nat /\ min \in Nat /\ depth \in Nat
  /\ pc \in {"start", "enter", "nud", "loop", "return", "done", "error"}

ChargeInv ==
  pc # "error" => nodes + Len(stack) <= 2 * index + (IF pc = "nud" THEN 1 ELSE 0)

IInv ==
  /\ ScalarsOK
  /\ StackOK
  /\ pc \in {"loop", "return", "done"} => HasSpan(left)
  /\ Live => depth = Len(stack)
  /\ pc \in {"nud", "loop", "return"} => depth <= limits.depth
  /\ SpansTile
  /\ ChargeInv
  /\ pc = "start" => stack = <<>> /\ depth = 0 /\ index = 0

\* IInv implies what the runs check.
LEMMA IInvImplies ==
  IInv => /\ TypeOK /\ RecursionBounded /\ SpansTile /\ ChargesBoundedByTokens
<1> SUFFICES ASSUME IInv
             PROVE  /\ TypeOK /\ RecursionBounded /\ SpansTile
                    /\ ChargesBoundedByTokens
  OBVIOUS
<1>1. TypeOK /\ RecursionBounded /\ SpansTile
  BY DEF IInv, ScalarsOK, StackOK, TypeOK, RecursionBounded
<1>2. Len(stack) \in Nat
  BY StackBasics DEF IInv, StackOK
<1>3. ChargesBoundedByTokens
  BY <1>2, SMT DEF IInv, ScalarsOK, ChargeInv, ChargesBoundedByTokens
<1> QED BY <1>1, <1>3

\* The first state is in order.
LEMMA InitIInv == Init => IInv
<1> SUFFICES ASSUME Init PROVE IInv
  OBVIOUS
<1>1. tokens \in Seq(Token) /\ limits \in Limits
  BY PrattAssumption DEF Init, Idle
<1>2. Len(tokens) \in Nat
  BY <1>1, LenProperties
<1> QED
  BY <1>1, <1>2, EmptyStack, SMT
  DEF Init, Idle, IInv, ScalarsOK, StackOK, SpansTile, ChargeInv, Live, Limits

\* The cursor and the token it stands on.
LEMMA CursorLemma ==
  ASSUME ScalarsOK
  PROVE  /\ Len(tokens) \in Nat /\ index \in Nat
         /\ limits.depth \in Nat /\ limits.nodes \in Nat
         /\ ~AtEnd => index + 1 \in 0..Len(tokens) /\ Peek \in Token
<1>1. tokens \in Seq(Token)
  BY DEF ScalarsOK
<1>2. Len(tokens) \in Nat
  BY <1>1, LenProperties
<1>3. ~AtEnd => index + 1 \in 1..Len(tokens)
  BY <1>2, SMT DEF ScalarsOK, AtEnd
<1> QED BY <1>1, <1>2, <1>3, ElementOfSeq, SMT DEF ScalarsOK, Limits, Peek

\* A step that fails keeps what a halted machine has to satisfy.
LEMMA FailLemma ==
  ASSUME IInv, ScalarsOK', pc' = "error", StackOK'
  PROVE  IInv'
  BY DEF IInv, ChargeInv, SpansTile, Live

\* A step of the running activation that leaves the stack alone.
LEMMA StayLemma ==
  ASSUME IInv, pc \in {"nud", "loop"},
         UNCHANGED <<tokens, limits, stack, min, depth>>,
         index' \in 0..Len(tokens), nodes' \in Nat,
         \/ pc' = "error"
         \/ /\ pc' \in {"loop", "return"}
            /\ HasSpan(left') /\ left'.start = RunningBegin /\ left'.end = index'
            /\ nodes' + Len(stack) <= 2 * index'
  PROVE  IInv'
<1>1. ScalarsOK' /\ StackOK'
  BY DEF IInv, ScalarsOK, StackOK
<1>2. CASE pc' = "error"
  BY <1>1, <1>2, FailLemma
<1>3. CASE pc' \in {"loop", "return"}
  <2>1. RunningBegin' = RunningBegin /\ left'.end = index' /\ HasSpan(left')
    BY <1>3 DEF RunningBegin
  <2>2. SpansTile'
    BY <1>3, <2>1 DEF IInv, SpansTile, Live
  <2>3. ChargeInv'
    BY <1>3 DEF ChargeInv
  <2> QED BY <1>1, <1>3, <2>1, <2>2, <2>3 DEF IInv, Live
<1> QED BY <1>2, <1>3

\* The running activation suspends itself and calls parse_expr_tree.
LEMMA RecurseLemma ==
  ASSUME IInv, pc \in {"nud", "loop"},
         UNCHANGED <<tokens, limits, nodes>>,
         index' = index + 1, index' \in 0..Len(tokens),
         NEW k, NEW bp \in Nat, Recurse(k, bp),
         IsContinuation(k), k.depth = depth,
         Begin(k) = RunningBegin, CalleeBegin(k) = index'
  PROVE  IInv'
<1>1. /\ IsSeq(stack) /\ Len(stack) \in Nat /\ depth = Len(stack)
      /\ depth <= limits.depth /\ limits.depth \in Nat
      /\ (stack = <<>> <=> Len(stack) = 0)
  BY StackBasics, CursorLemma DEF IInv, StackOK, Live
<1>2. /\ IsSeq(stack') /\ stack' # <<>> /\ Len(stack') = Len(stack) + 1
      /\ \A i \in 1..Len(stack) : stack'[i] = stack[i]
      /\ stack'[Len(stack) + 1] = k
  BY <1>1, PushLemma DEF Recurse
<1>3. pc' = "enter" /\ min' = bp /\ depth' = depth + 1
  BY DEF Recurse
<1>4. ScalarsOK'
  BY <1>3, SMT DEF IInv, ScalarsOK
<1>5. StackOK'
  <2>1. ASSUME NEW i \in 1..Len(stack')
        PROVE  IsContinuation(stack'[i]) /\ stack'[i].depth = i - 1
    <3>1. CASE i \in 1..Len(stack)
      BY <1>2, <3>1 DEF IInv, StackOK
    <3>2. CASE i = Len(stack) + 1
      BY <1>1, <1>2, <3>2
    <3> QED BY <1>1, <1>2, <3>1, <3>2, SMT
  <2>2. Len(stack') <= limits'.depth + 1
    BY <1>1, <1>2, SMT
  <2> QED BY <1>2, <2>1, <2>2 DEF StackOK
<1>6. SpansTile'
  <2>1. RunningBegin' = index'
    BY <1>3 DEF RunningBegin
  <2>2. ASSUME NEW i \in 1..Len(stack')
        PROVE  IF i = Len(stack') THEN CalleeBegin(stack'[i]) = RunningBegin'
               ELSE CalleeBegin(stack'[i]) = Begin(stack'[i + 1])
    <3>1. CASE i = Len(stack')
      BY <1>2, <2>1, <3>1
    <3>2. CASE i = Len(stack) /\ i # Len(stack')
      <4>1. CalleeBegin(stack[i]) = RunningBegin
        BY <1>1, <1>2, <3>2, SMT DEF IInv, SpansTile, Live
      <4> QED BY <1>1, <1>2, <3>2, <4>1
    <3>3. CASE i \in 1..(Len(stack) - 1)
      <4>1. /\ i \in 1..Len(stack) /\ i + 1 \in 1..Len(stack)
            /\ i # Len(stack) /\ i # Len(stack')
        BY <1>1, <1>2, <3>3, SMT
      <4>2. CalleeBegin(stack[i]) = Begin(stack[i + 1])
        BY <4>1 DEF IInv, SpansTile, Live
      <4> QED BY <1>2, <4>1, <4>2
    <3> QED BY <1>1, <1>2, <3>1, <3>2, <3>3, SMT
  <2>3. Begin(stack'[1]) = 0
    <3>1. CASE stack = <<>>
      BY <1>1, <1>2, <3>1, SMT DEF IInv, SpansTile, Live
    <3>2. CASE stack # <<>>
      <4>1. 1 \in 1..Len(stack)
        BY <1>1, <3>2, SMT
      <4> QED BY <1>2, <3>2, <4>1 DEF IInv, SpansTile, Live
    <3> QED BY <3>1, <3>2
  <2> QED BY <1>2, <1>3, <2>2, <2>3 DEF SpansTile, Live
<1>7. ChargeInv'
  BY <1>1, <1>2, <1>3, SMT DEF IInv, ScalarsOK, ChargeInv
<1> QED
  BY <1>1, <1>2, <1>3, <1>4, <1>5, <1>6, <1>7, SMT DEF IInv, Live, ScalarsOK

\* The stack below its top.
LEMMA BelowTop ==
  ASSUME IInv, stack # <<>>
  PROVE  /\ Len(stack) \in Nat \ {0} /\ Len(stack) \in 1..Len(stack)
         /\ IsContinuation(Top) /\ Top.depth = Len(stack) - 1
         /\ Top.depth <= limits.depth
<1>1. Len(stack) \in Nat \ {0} /\ Len(stack) \in 1..Len(stack)
  BY StackBasics, PopLemma DEF IInv, StackOK
<1>2. Len(stack) <= limits.depth + 1 /\ limits.depth \in Nat
  BY CursorLemma DEF IInv, StackOK
<1>3. IsContinuation(Top) /\ Top.depth = Len(stack) - 1
  BY <1>1 DEF IInv, StackOK, Top, TopOf
<1> QED BY <1>1, <1>2, <1>3, SMT

\* The running activation returns into the one on top of the stack.
LEMMA ResumeLemma ==
  ASSUME IInv, pc = "return", stack # <<>>,
         UNCHANGED <<tokens, limits>>, Resume,
         index' \in 0..Len(tokens), nodes' \in Nat,
         \/ pc' = "error"
         \/ /\ pc' = "loop"
            /\ HasSpan(left') /\ left'.start = Begin(Top) /\ left'.end = index'
            /\ nodes' + Len(stack) - 1 <= 2 * index'
  PROVE  IInv'
<1>1. /\ Len(stack) \in Nat \ {0}
      /\ IsContinuation(Top) /\ Top.depth = Len(stack) - 1
      /\ Top.depth <= limits.depth /\ limits.depth \in Nat
  BY BelowTop, CursorLemma DEF IInv
<1>2. /\ IsSeq(stack') /\ Len(stack') = Len(stack) - 1
      /\ \A i \in 1..(Len(stack) - 1) : stack'[i] = stack[i]
  BY PopLemma DEF IInv, StackOK, Resume
<1>3. min' = Top.min /\ depth' = Top.depth /\ min' \in Nat /\ depth' \in Nat
  BY <1>1 DEF Resume, IsContinuation
<1>4. ScalarsOK'
  BY <1>3 DEF IInv, ScalarsOK
<1>5. StackOK'
  <2>1. \A i \in 1..Len(stack') : i \in 1..Len(stack) /\ stack'[i] = stack[i]
    BY <1>1, <1>2, SMT
  <2>2. Len(stack') <= limits'.depth + 1
    BY <1>1, <1>2, SMT DEF IInv, StackOK
  <2> QED BY <1>2, <2>1, <2>2 DEF IInv, StackOK
<1>6. CASE pc' = "error"
  BY <1>4, <1>5, <1>6, FailLemma
<1>7. CASE pc' = "loop"
  <2>1. RunningBegin' = Begin(Top) /\ HasSpan(left') /\ left'.end = index'
    BY <1>7 DEF RunningBegin
  <2>2. ASSUME NEW i \in 1..Len(stack')
        PROVE  IF i = Len(stack') THEN CalleeBegin(stack'[i]) = RunningBegin'
               ELSE CalleeBegin(stack'[i]) = Begin(stack'[i + 1])
    <3>1. /\ i \in 1..Len(stack) /\ i # Len(stack) /\ i + 1 \in 1..Len(stack)
          /\ i \in 1..(Len(stack) - 1)
          /\ i = Len(stack') => i + 1 = Len(stack)
          /\ i # Len(stack') => i + 1 \in 1..(Len(stack) - 1)
      BY <1>1, <1>2, SMT
    <3>2. CalleeBegin(stack[i]) = Begin(stack[i + 1])
      BY <1>7, <3>1 DEF IInv, SpansTile, Live
    <3> QED BY <1>2, <2>1, <3>1, <3>2 DEF Top, TopOf
  <2>3. (IF stack' = <<>> THEN RunningBegin' ELSE Begin(stack'[1])) = 0
    <3>1. Begin(stack[1]) = 0
      BY DEF IInv, SpansTile, Live
    <3>2. CASE stack' = <<>>
      <4>1. Len(stack) = 1
        BY <1>1, <1>2, <3>2, EmptyStack, SMT
      <4> QED BY <2>1, <3>1, <3>2, <4>1 DEF Top, TopOf
    <3>3. CASE stack' # <<>>
      <4>1. 1 \in 1..(Len(stack) - 1)
        BY <1>1, <1>2, <3>3, StackBasics, SMT
      <4> QED BY <1>2, <3>1, <3>3, <4>1
    <3> QED BY <3>2, <3>3
  <2>4. SpansTile'
    BY <1>7, <2>1, <2>2, <2>3 DEF SpansTile, Live
  <2>5. ChargeInv'
    BY <1>1, <1>2, <1>7, SMT DEF ChargeInv
  <2> QED
    BY <1>1, <1>2, <1>3, <1>4, <1>5, <1>7, <2>1, <2>4, <2>5 DEF IInv, Live
<1> QED BY <1>6, <1>7

\* What the activation that waits for a returned tree knows about it.
LEMMA ReturnedLemma ==
  ASSUME IInv, pc = "return", stack # <<>>
  PROVE  /\ HasSpan(left) /\ left.end = index
         /\ CalleeBegin(Top) = left.start
         /\ IsContinuation(Top)
         /\ nodes + Len(stack) <= 2 * index
         /\ nodes \in Nat /\ index \in Nat /\ Len(stack) \in Nat \ {0}
<1>1. Len(stack) \in 1..Len(stack) /\ Len(stack) \in Nat \ {0} /\ IsContinuation(Top)
  BY BelowTop
<1>2. CalleeBegin(Top) = left.start
  BY <1>1 DEF IInv, SpansTile, Live, RunningBegin, Top, TopOf
<1>3. nodes + Len(stack) <= 2 * index
  BY <1>1, SMT DEF IInv, ScalarsOK, ChargeInv
<1> QED
  BY <1>1, <1>2, <1>3, CursorLemma DEF IInv, SpansTile, Live, ScalarsOK

-----------------------------------------------------------------------------
\* Nodes charged through Settle land in the loop or in an error.
LEMMA SettleLemma ==
  ASSUME NEW tree, NEW d, NEW ok, Settle(tree, d, ok)
  PROVE  /\ nodes' = nodes + 1
         /\ \/ pc' = "loop" /\ left' = tree
            \/ pc' = "error"
  BY DEF Settle, Charge, Fail

\* Start opens the parse, Enter charges an activation and checks its depth.
LEMMA StartEnterStep == ASSUME IInv, Start \/ Enter PROVE IInv'
<1>1. Len(stack) \in Nat /\ (stack = <<>> => Len(stack) = 0)
  BY StackBasics DEF IInv, StackOK
<1>2. CASE Start
  <2>1. /\ UNCHANGED <<tokens, index, limits, nodes, stack, min, depth, left>>
        /\ pc = "start" /\ pc' \in {"enter", "error"}
    BY <1>2 DEF Start
  <2>2. ScalarsOK' /\ StackOK'
    BY <2>1 DEF IInv, ScalarsOK, StackOK
  <2>3. pc' = "enter" => SpansTile'
    BY <1>1, <2>1, SMT DEF IInv, SpansTile, Live, RunningBegin
  <2>4. ChargeInv'
    BY <2>1 DEF IInv, ChargeInv
  <2> QED BY <1>1, <2>1, <2>2, <2>3, <2>4, FailLemma DEF IInv, Live
<1>3. CASE Enter
  <2>1. /\ UNCHANGED <<tokens, index, limits, stack, min, depth, left>>
        /\ nodes' = nodes + 1
        /\ pc = "enter" /\ pc' = IF Admits(depth) THEN "nud" ELSE "error"
    BY <1>3 DEF Enter, Charge
  <2>2. ScalarsOK' /\ StackOK'
    BY <2>1, SMT DEF IInv, ScalarsOK, StackOK
  <2>3. pc' = "nud" => SpansTile' /\ depth' <= limits'.depth
    BY <2>1 DEF IInv, SpansTile, Live, RunningBegin, Admits
  <2>4. ChargeInv'
    BY <1>1, <2>1, SMT DEF IInv, ScalarsOK, ChargeInv
  <2> QED BY <2>1, <2>2, <2>3, <2>4, FailLemma DEF IInv, Live
<1> QED BY <1>2, <1>3

\* A prefix is read.
LEMMA NudStepLemma == ASSUME IInv, NudStep PROVE IInv'
<1>1. /\ pc = "nud" /\ RunningBegin = index
      /\ index \in Nat /\ nodes \in Nat /\ Len(stack) \in Nat
      /\ min \in Nat /\ depth \in Nat
      /\ nodes + Len(stack) <= 2 * index + 1
      /\ ~AtEnd => index + 1 \in 0..Len(tokens)
  BY StackBasics, CursorLemma
  DEF NudStep, NudPrefix, NudAtom, NudGroup, NudFail, RunningBegin, IInv, StackOK,
      ScalarsOK, ChargeInv
<1>2. CASE NudPrefix
  <2> DEFINE k == Suspended("prefix", Peek, index, NoTree)
  <2>1. /\ ~AtEnd /\ Peek \in DOMAIN Nud /\ index' = index + 1
        /\ Recurse(k, Nud[Peek].right)
        /\ UNCHANGED <<tokens, limits, nodes>>
    BY <1>2 DEF NudPrefix
  <2>2. Nud[Peek].right \in Nat
    BY <2>1, PrattAssumption DEF Operator
  <2>3. /\ IsContinuation(k) /\ k.depth = depth
        /\ Begin(k) = index /\ CalleeBegin(k) = index + 1
    BY <1>1, <2>1, EmptyStack
    DEF Suspended, Continuation, IsContinuation, Begin, CalleeBegin
  <2> HIDE DEF k
  <2> QED BY <1>1, <2>1, <2>2, <2>3, RecurseLemma
<1>3. CASE NudAtom
  <2>1. /\ ~AtEnd /\ index' = index + 1
        /\ Settle(Leaf(Peek, index), depth, Peek \notin LongStrings)
        /\ UNCHANGED <<tokens, limits, stack, min, depth>>
    BY <1>3 DEF NudAtom
  <2>2. HasSpan(Leaf(Peek, index)) /\ Leaf(Peek, index).start = index
        /\ Leaf(Peek, index).end = index + 1
    BY <1>1, SMT DEF HasSpan, Leaf, Node
  <2>3. nodes' \in Nat /\ nodes' + Len(stack) <= 2 * index'
    BY <1>1, <2>1, SettleLemma, SMT
  <2> QED BY <1>1, <2>1, <2>2, <2>3, SettleLemma, StayLemma
<1>4. CASE NudGroup
  <2> DEFINE k == Suspended("group", "(", index, NoTree)
  <2>1. /\ ~AtEnd /\ index' = index + 1 /\ Recurse(k, 0)
        /\ UNCHANGED <<tokens, limits, nodes>>
    BY <1>4 DEF NudGroup, Sees
  <2>2. /\ IsContinuation(k) /\ k.depth = depth
        /\ Begin(k) = index /\ CalleeBegin(k) = index + 1
    BY <1>1, EmptyStack
    DEF Suspended, Continuation, IsContinuation, Begin, CalleeBegin
  <2> HIDE DEF k
  <2> QED BY <1>1, <2>1, <2>2, RecurseLemma
<1>5. CASE NudFail
  <2>1. index' \in 0..Len(tokens)
    BY <1>1, <1>5 DEF NudFail, IInv, ScalarsOK
  <2> QED BY <1>1, <1>5, <2>1, StayLemma DEF NudFail, Fail
<1> QED BY <1>2, <1>3, <1>4, <1>5 DEF NudStep

\* The loop of an activation goes on or ends.
LEMMA LoopLemma == ASSUME IInv, Loop PROVE IInv'
<1>1. /\ pc = "loop" /\ RunningBegin = left.start
      /\ HasSpan(left) /\ left.end = index
      /\ index \in Nat /\ nodes \in Nat /\ Len(stack) \in Nat
      /\ Len(tokens) \in Nat
      /\ min \in Nat /\ depth \in Nat
      /\ nodes + Len(stack) <= 2 * index
      /\ ~AtEnd => index + 1 \in 0..Len(tokens)
  BY StackBasics, CursorLemma, SMT
  DEF Loop, LoopBreak, LoopPostfix, LoopInfix, LoopEmptyCall, LoopCall,
      RunningBegin, IInv, StackOK, ScalarsOK, ChargeInv, SpansTile, Live
<1>2. CASE LoopBreak
  <2>1. index' \in 0..Len(tokens) /\ nodes' \in Nat /\ pc' = "return"
        /\ UNCHANGED <<tokens, index, limits, nodes, stack, min, depth, left>>
    BY <1>1, <1>2 DEF LoopBreak, IInv, ScalarsOK
  <2> QED BY <1>1, <2>1, StayLemma
<1>3. CASE LoopPostfix
  <2> DEFINE t == PostfixTree(Peek, left, index + 1)
  <2>1. /\ ~AtEnd /\ index' = index + 1
        /\ Settle(t, depth, Led[Peek].builds)
        /\ UNCHANGED <<tokens, limits, stack, min, depth>>
    BY <1>3 DEF LoopPostfix, NextBinds
  <2>2. HasSpan(t) /\ t.start = left.start /\ t.end = index + 1
    BY <1>1, SMT DEF HasSpan, PostfixTree, Node
  <2>3. nodes' \in Nat /\ nodes' + Len(stack) <= 2 * index'
    BY <1>1, <2>1, SettleLemma, SMT
  <2> HIDE DEF t
  <2> QED BY <1>1, <2>1, <2>2, <2>3, SettleLemma, StayLemma
<1>4. CASE LoopInfix
  <2> DEFINE k == Suspended("led", Peek, index, left)
  <2>1. /\ ~AtEnd /\ Peek \in DOMAIN Led /\ index' = index + 1
        /\ Recurse(k, Led[Peek].right)
        /\ UNCHANGED <<tokens, limits, nodes>>
    BY <1>4 DEF LoopInfix, NextBinds
  <2>2. Led[Peek].right \in Nat
    BY <2>1, PrattAssumption DEF Operator
  <2>3. /\ IsContinuation(k) /\ k.depth = depth
        /\ Begin(k) = left.start /\ CalleeBegin(k) = index + 1
    BY <1>1, <2>1, EmptyStack
    DEF Suspended, Continuation, IsContinuation, Begin, CalleeBegin
  <2> HIDE DEF k
  <2> QED BY <1>1, <2>1, <2>2, <2>3, RecurseLemma
<1>5. CASE LoopEmptyCall
  <2> DEFINE t == EmptyCallTree(left, index + 1)
  <2>1. /\ index + 1 < Len(tokens) /\ index' = index + 2
        /\ left' = t /\ pc' = "loop" /\ nodes' = nodes
        /\ UNCHANGED <<tokens, limits, stack, min, depth>>
    BY <1>5 DEF LoopEmptyCall
  <2>2. HasSpan(t) /\ t.start = left.start /\ t.end = index + 2
    BY <1>1, SMT DEF HasSpan, EmptyCallTree, Node
  <2>3. index' \in 0..Len(tokens) /\ nodes' + Len(stack) <= 2 * index'
    BY <1>1, <2>1, SMT
  <2> HIDE DEF t
  <2> QED BY <1>1, <2>1, <2>2, <2>3, StayLemma
<1>6. CASE LoopCall
  <2> DEFINE k == Suspended("arg", "call", index, left)
  <2>1. /\ ~AtEnd /\ index' = index + 1
        /\ UNCHANGED <<tokens, limits, nodes>>
        /\ \/ Recurse(k, 0)
           \/ pc' = "error" /\ UNCHANGED <<stack, min, depth, left>>
    BY <1>6 DEF LoopCall, NextBinds, Fail
  <2>2. /\ IsContinuation(k) /\ k.depth = depth
        /\ Begin(k) = left.start /\ CalleeBegin(k) = index + 1
    BY <1>1, EmptyStack, SMT
    DEF Suspended, Continuation, IsContinuation, Begin, CalleeBegin
  <2> HIDE DEF k
  <2> QED BY <1>1, <2>1, <2>2, RecurseLemma, StayLemma
<1> QED BY <1>2, <1>3, <1>4, <1>5, <1>6 DEF Loop

\* A call takes one more argument: the continuation on top gets it.
LEMMA WithArgLemma ==
  ASSUME IInv, Returns("arg"), ~AtEnd,
         NEW k, k = WithArg(Top, WithTrivia(left, TriviaAt(index)))
  PROVE  /\ IsContinuation(k) /\ k.wait = "arg" /\ k.depth = Top.depth
         /\ Begin(k) = Begin(Top) /\ CalleeBegin(k) = index + 1
         /\ k.left = Top.left /\ HasSpan(k.left) /\ k.left.end < index
         /\ Len(k.args) \in Nat
  <1> DEFINE arg == WithTrivia(left, TriviaAt(index))
  <1>1. /\ pc = "return" /\ stack # <<>> /\ Top.wait = "arg"
        /\ HasSpan(left) /\ left.end = index /\ CalleeBegin(Top) = left.start
        /\ IsContinuation(Top) /\ index \in Nat
    BY ReturnedLemma DEF Returns
  <1>2. HasSpan(arg) /\ arg.start = left.start /\ arg.end = index
    BY <1>1 DEF WithTrivia, Node, HasSpan
  <1>3. /\ IsSeq(Top.args) /\ HasSpan(Top.left)
        /\ \A j \in 1..Len(Top.args) :
             HasSpan(Top.args[j]) /\ Top.left.end < Top.args[j].start
    BY <1>1 DEF IsContinuation
  <1> HIDE DEF arg
  <1>4. /\ IsSeq(k.args) /\ k.args # <<>>
        /\ Len(k.args) = Len(Top.args) + 1
        /\ \A j \in 1..Len(Top.args) : k.args[j] = Top.args[j]
        /\ k.args[Len(Top.args) + 1] = arg
    BY <1>3, PushLemma DEF WithArg, Continuation, arg
  <1>5. Len(Top.args) \in Nat
    BY <1>3, StackBasics
  <1>7. /\ k.wait = "arg" /\ k.op = Top.op /\ k.start = Top.start
        /\ k.left = Top.left /\ k.min = Top.min /\ k.depth = Top.depth
    BY <1>1 DEF WithArg, Continuation
  <1>6. Top.left.end < left.start
    <2>1. CASE Top.args = <<>>
      <3>1. left.start = 1 + Top.left.end
        BY <1>1, <2>1 DEF CalleeBegin
      <3> QED BY <1>3, <3>1, SMT DEF HasSpan
    <2>2. CASE Top.args # <<>>
      <3> DEFINE last == TopOf(Top.args)
      <3>1. left.start = 1 + last.end
        BY <1>1, <2>2 DEF CalleeBegin
      <3>2. HasSpan(last) /\ Top.left.end < last.start
        BY <1>3, <2>2, StackBasics DEF TopOf
      <3> HIDE DEF last
      <3> QED BY <1>3, <3>1, <3>2, SMT DEF HasSpan
    <2> QED BY <2>1, <2>2
  <1>8. IsContinuation(k)
    <2>1. ASSUME NEW j \in 1..Len(k.args)
          PROVE  HasSpan(k.args[j]) /\ k.left.end < k.args[j].start
      <3>1. j \in 1..Len(Top.args) \/ j = Len(Top.args) + 1
        BY <1>4, <1>5, SMT
      <3> QED BY <1>2, <1>3, <1>4, <1>6, <1>7, <3>1
    <2> QED BY <1>1, <1>4, <1>7, <2>1 DEF IsContinuation
  <1>9. TopOf(k.args).end = index
    BY <1>2, <1>4 DEF TopOf
  <1>10. Begin(k) = Begin(Top) /\ CalleeBegin(k) = index + 1
    BY <1>1, <1>4, <1>7, <1>9, SMT DEF Begin, CalleeBegin
  <1>11. k.left.end < index
    BY <1>1, <1>3, <1>6, <1>7, SMT DEF HasSpan
  <1> QED BY <1>3, <1>4, <1>5, <1>7, <1>8, <1>10, <1>11, SMT

\* The argument is followed by a comma: the callee is called once more.
LEMMA NextArgLemma == ASSUME IInv, ReturnNextArg PROVE IInv'
<1> DEFINE k == WithArg(Top, WithTrivia(left, TriviaAt(index)))
<1>1. /\ Returns("arg") /\ ~AtEnd /\ pc = "return" /\ stack # <<>>
      /\ index' = index + 1 /\ stack' = ReplaceTop(stack, k)
      /\ pc' \in {"enter", "error"} /\ min' = 0
      /\ UNCHANGED <<tokens, limits, nodes, depth>>
  BY DEF ReturnNextArg, Returns, Sees
<1>2. /\ IsContinuation(k) /\ k.depth = Top.depth
      /\ Begin(k) = Begin(Top) /\ CalleeBegin(k) = index + 1
  BY <1>1, WithArgLemma
<1> HIDE DEF k
<1>3. /\ Len(stack) \in Nat \ {0} /\ Len(stack) \in 1..Len(stack)
      /\ Top.depth = Len(stack) - 1
      /\ nodes + Len(stack) <= 2 * index /\ nodes \in Nat /\ index \in Nat
  BY <1>1, BelowTop, ReturnedLemma
<1>4. /\ IsSeq(stack') /\ stack' # <<>> /\ Len(stack') = Len(stack)
      /\ \A i \in 1..(Len(stack) - 1) : stack'[i] = stack[i]
      /\ stack'[Len(stack)] = k
  BY <1>1, ReplaceTopLemma DEF IInv, StackOK
<1>5. ScalarsOK'
  BY <1>1, CursorLemma, SMT DEF IInv, ScalarsOK
<1>6. \A i \in 1..Len(stack) : i \in 1..(Len(stack) - 1) \/ i = Len(stack)
  BY <1>3, SMT
<1>7. StackOK'
  <2>1. ASSUME NEW i \in 1..Len(stack')
        PROVE  IsContinuation(stack'[i]) /\ stack'[i].depth = i - 1
    BY <1>2, <1>3, <1>4, <1>6 DEF IInv, StackOK
  <2> QED BY <1>1, <1>4, <2>1 DEF IInv, StackOK
<1>8. pc' = "enter" => SpansTile'
  <2> SUFFICES ASSUME pc' = "enter" PROVE SpansTile'
    OBVIOUS
  <2>1. RunningBegin' = index + 1
    BY <1>1 DEF RunningBegin
  <2>2. \A i \in 1..Len(stack) : Begin(stack'[i]) = Begin(stack[i])
    BY <1>2, <1>4, <1>6 DEF Top, TopOf
  <2>3. ASSUME NEW i \in 1..Len(stack')
        PROVE  IF i = Len(stack') THEN CalleeBegin(stack'[i]) = RunningBegin'
               ELSE CalleeBegin(stack'[i]) = Begin(stack'[i + 1])
    <3>1. CASE i = Len(stack)
      BY <1>2, <1>4, <2>1, <3>1
    <3>2. CASE i \in 1..(Len(stack) - 1)
      <4>1. i \in 1..Len(stack) /\ i # Len(stack) /\ i + 1 \in 1..Len(stack)
        BY <1>3, <3>2, SMT
      <4>2. CalleeBegin(stack[i]) = Begin(stack[i + 1])
        BY <1>1, <4>1 DEF IInv, SpansTile, Live
      <4> QED BY <1>4, <2>2, <3>2, <4>1, <4>2
    <3> QED BY <1>4, <1>6, <3>1, <3>2
  <2>4. Begin(stack'[1]) = 0
    <3>1. 1 \in 1..Len(stack)
      BY <1>3, SMT
    <3> QED BY <1>1, <2>2, <3>1 DEF IInv, SpansTile, Live
  <2> QED BY <1>4, <2>3, <2>4 DEF SpansTile, Live
<1>9. ChargeInv'
  BY <1>1, <1>3, <1>4, SMT DEF ChargeInv
<1> QED BY <1>1, <1>3, <1>4, <1>5, <1>7, <1>8, <1>9, FailLemma DEF IInv, Live

\* An activation returns to the one below.
LEMMA ReturnLemma == ASSUME IInv, Return PROVE IInv'
<1>1. CASE ReturnNextArg
  BY <1>1, NextArgLemma
<1>2. CASE ReturnFail
  <2>1. /\ pc' = "error"
        /\ index' = (IF AtEnd THEN index ELSE index + 1)
        /\ UNCHANGED <<tokens, limits, nodes, stack, min, depth, left>>
    BY <1>2 DEF ReturnFail, Fail
  <2>2. ScalarsOK' /\ StackOK'
    BY <2>1, CursorLemma DEF IInv, ScalarsOK, StackOK
  <2> QED BY <2>1, <2>2, FailLemma
<1>3. ASSUME ReturnPrefix \/ ReturnInfix \/ ReturnGroup \/ ReturnLastArg
      PROVE  IInv'
  <2>1. /\ pc = "return" /\ stack # <<>> /\ Resume
        /\ UNCHANGED <<tokens, limits>>
    BY <1>3 DEF ReturnPrefix, ReturnInfix, ReturnGroup, ReturnLastArg, Returns
  <2>2. /\ HasSpan(left) /\ left.end = index /\ CalleeBegin(Top) = left.start
        /\ IsContinuation(Top)
        /\ nodes + Len(stack) <= 2 * index
        /\ nodes \in Nat /\ index \in 0..Len(tokens) /\ index \in Nat
        /\ Len(stack) \in Nat \ {0}
        /\ ~AtEnd => index + 1 \in 0..Len(tokens)
    BY <2>1, ReturnedLemma, CursorLemma DEF IInv, ScalarsOK
  <2>3. CASE ReturnPrefix
    <3> DEFINE t == PrefixTree(Top.op, Top.start, left)
    <3>1. /\ Top.wait = "prefix" /\ index' = index
          /\ Settle(t, Top.depth, Nud[Top.op].builds)
      BY <2>3 DEF ReturnPrefix, Returns
    <3>2. HasSpan(t) /\ t.start = Begin(Top) /\ t.end = index
      BY <2>2, <3>1, SMT
      DEF HasSpan, PrefixTree, Node, Begin, CalleeBegin, IsContinuation
    <3>3. nodes' \in Nat /\ nodes' + Len(stack) - 1 <= 2 * index'
      BY <2>2, <3>1, SettleLemma, SMT
    <3> HIDE DEF t
    <3> QED BY <2>1, <2>2, <3>1, <3>2, <3>3, SettleLemma, ResumeLemma
  <2>4. CASE ReturnInfix
    <3> DEFINE t == InfixTree(Top.op, Top.left, left)
    <3>1. /\ Top.wait = "led" /\ index' = index
          /\ Settle(t, Top.depth, Led[Top.op].builds)
      BY <2>4 DEF ReturnInfix, Returns
    <3>2. HasSpan(t) /\ t.start = Begin(Top) /\ t.end = index
      BY <2>2, <3>1, SMT
      DEF HasSpan, InfixTree, Node, Begin, CalleeBegin, IsContinuation
    <3>3. nodes' \in Nat /\ nodes' + Len(stack) - 1 <= 2 * index'
      BY <2>2, <3>1, SettleLemma, SMT
    <3> HIDE DEF t
    <3> QED BY <2>1, <2>2, <3>1, <3>2, <3>3, SettleLemma, ResumeLemma
  <2>5. CASE ReturnGroup
    <3> DEFINE t == GroupTree(left, Top.start, index)
    <3>1. /\ Top.wait = "group" /\ ~AtEnd /\ index' = index + 1
          /\ left' = t /\ pc' = "loop" /\ nodes' = nodes
      BY <2>5 DEF ReturnGroup, Returns, Sees
    <3>2. HasSpan(t) /\ t.start = Begin(Top) /\ t.end = index + 1
      BY <2>2, <3>1, SMT
      DEF HasSpan, GroupTree, Node, Begin, CalleeBegin, IsContinuation
    <3>3. nodes' + Len(stack) - 1 <= 2 * index'
      BY <2>2, <3>1, SMT
    <3> HIDE DEF t
    <3> QED BY <2>1, <2>2, <3>1, <3>2, <3>3, ResumeLemma
  <2>6. CASE ReturnLastArg
    <3> DEFINE k == WithArg(Top, WithTrivia(left, TriviaAt(index)))
               t == CallTree(k.left, k.args, index + 1)
    <3>1. /\ Returns("arg") /\ ~AtEnd /\ index' = index + 1
          /\ Settle(t, k.depth, TRUE)
      BY <2>6 DEF ReturnLastArg, Sees
    <3>2. /\ HasSpan(k.left) /\ k.left.end < index /\ k.wait = "arg"
          /\ Begin(k) = Begin(Top)
      BY <3>1, WithArgLemma
    <3>3. HasSpan(t) /\ t.start = Begin(Top) /\ t.end = index + 1
      <4> HIDE DEF k
      <4>1. t.start = k.left.start /\ t.end = index + 1
        BY DEF CallTree, Node
      <4> HIDE DEF t
      <4> QED BY <2>2, <3>2, <4>1, SMT DEF HasSpan, Begin
    <3>4. nodes' \in Nat /\ nodes' + Len(stack) - 1 <= 2 * index'
      <4> HIDE DEF t, k
      <4>1. nodes' = nodes + 1
        BY <3>1 DEF Settle, Charge
      <4> QED BY <2>2, <3>1, <4>1, SMT
    <3> HIDE DEF t, k
    <3> QED BY <2>1, <2>2, <3>1, <3>3, <3>4, SettleLemma, ResumeLemma
  <2> QED BY <1>3, <2>3, <2>4, <2>5, <2>6
<1> QED BY <1>1, <1>2, <1>3 DEF Return

\* The last activation ends the parse.
LEMMA FinishLemma == ASSUME IInv, Finish PROVE IInv'
<1>1. /\ pc = "return" /\ stack = <<>> /\ Len(stack) = 0
      /\ pc' = (IF AtEnd THEN "done" ELSE "error")
      /\ UNCHANGED <<tokens, index, limits, nodes, stack, min, depth, left>>
  BY EmptyStack DEF Finish
<1>2. ScalarsOK' /\ StackOK'
  BY <1>1 DEF IInv, ScalarsOK, StackOK
<1>3. HasSpan(left) /\ left.start = 0 /\ left.end = index
  BY <1>1 DEF IInv, SpansTile, Live, RunningBegin
<1>4. AtEnd => index = Len(tokens)
  BY CursorLemma, SMT DEF IInv, ScalarsOK, AtEnd
<1>5. pc' = "done" => SpansTile' /\ HasSpan(left')
  BY <1>1, <1>3, <1>4 DEF SpansTile, Live
<1>6. ChargeInv'
  BY <1>1 DEF IInv, ChargeInv
<1> QED BY <1>1, <1>2, <1>5, <1>6, FailLemma DEF IInv, Live

\* Every step of the parser, and every stutter, preserves IInv.
LEMMA NextIInv == IInv /\ [Next]_vars => IInv'
<1> SUFFICES ASSUME IInv, [Next]_vars PROVE IInv'
  OBVIOUS
<1>1. CASE Start \/ Enter
  BY <1>1, StartEnterStep
<1>2. CASE NudStep
  BY <1>2, NudStepLemma
<1>3. CASE Loop
  BY <1>3, LoopLemma
<1>4. CASE Return
  BY <1>4, ReturnLemma
<1>5. CASE Finish
  BY <1>5, FinishLemma
<1>6. CASE UNCHANGED vars
  BY <1>6
  DEF vars, IInv, ScalarsOK, StackOK, SpansTile, ChargeInv, Live, RunningBegin
<1> QED
  BY <1>1, <1>2, <1>3, <1>4, <1>5, <1>6 DEF Next, Step, Halted

-----------------------------------------------------------------------------
(***************************************************************************)
(* Trees.  The properties of a finished tree speak of every node of it and *)
(* of every node on its edges; the invariant speaks of sets of trees that  *)
(* are closed under the way down and in which every tree is right.         *)
(***************************************************************************)
Onward(S, way) == S \cup UNION {Further(x, way) : x \in S}

Descends(h, n, t, way) ==
  h = [i \in 0..n |-> IF i = 0 THEN {t} ELSE Onward(h[i - 1], way)]

\* A set that is closed under the way down has all that is reached.
LEMMA ReachedIn ==
  ASSUME NEW t, HasSpan(t), NEW way, NEW K, t \in K,
         \A x \in K : Further(x, way) \subseteq K
  PROVE  Reached(t, way) \subseteq K
<1>1. t.end - t.start \in Nat
  BY SMT DEF HasSpan
<1>2. PICK n \in Nat : n = t.end - t.start
  BY <1>1
<1> DEFINE X == [i \in 0..n |-> SUBSET K]
           g == [i \in 1..n |-> [y \in SUBSET K |-> Onward(y, way)]]
<1>3. /\ \A i \in 0..n : X[i] = SUBSET K
      /\ \A i \in 1..n : \A y \in SUBSET K : g[i][y] = Onward(y, way)
  OBVIOUS
<1> HIDE DEF g, X
<1>4. \A y \in SUBSET K : Onward(y, way) \in SUBSET K
  BY DEF Onward
<1>5. PICK x : x = {t}
  OBVIOUS
<1>6. x \in X[0]
  BY <1>3, <1>5
<1>7. Leads(g, X, n)
  <2> SUFFICES ASSUME NEW i \in 1..n, NEW y \in X[i - 1] PROVE g[i][y] \in X[i]
    BY DEF Leads
  <2>1. i - 1 \in 0..n /\ i \in 0..n
    OBVIOUS
  <2>2. y \in SUBSET K
    BY <1>3, <2>1
  <2> QED BY <1>3, <1>4, <2>1, <2>2
<1>8. PICK h : Takes(h, g, x, n) /\ \A i \in 0..n : h[i] \in X[i]
  BY <1>6, <1>7, Iteration
<1>9. \A i \in 0..n : h[i] \in SUBSET K
  BY <1>3, <1>8
<1>10. Descends(h, n, t, way)
  <2>1. ASSUME NEW i \in 0..n PROVE h[i] = IF i = 0 THEN {t} ELSE Onward(h[i - 1], way)
    <3>1. CASE i = 0
      BY <1>5, <1>8, <3>1 DEF Takes
    <3>2. CASE i \in 1..n
      <4>1. i - 1 \in 0..n /\ i # 0
        BY <3>2
      <4>2. h[i - 1] \in SUBSET K /\ h[i] = g[i][h[i - 1]]
        BY <1>8, <1>9, <3>2, <4>1 DEF Takes
      <4>3. g[i][h[i - 1]] = Onward(h[i - 1], way)
        BY <1>3, <3>2, <4>2, Zenon
      <4> QED BY <4>1, <4>2, <4>3, Zenon
    <3> QED BY <3>1, <3>2
  <2>2. h = [i \in 0..n |-> h[i]]
    BY <1>8 DEF Takes
  <2> QED BY <2>1, <2>2, Zenon DEF Descends
<1>11. PICK f : f = CHOOSE e : e = [i \in 0..n |->
                      IF i = 0 THEN {t}
                      ELSE e[i - 1] \cup UNION {Further(y, way) : y \in e[i - 1]}]
  OBVIOUS
<1>12. Descends(f, n, t, way)
  BY <1>10, <1>11 DEF Descends, Onward
<1>13. InStep(f, h, n)
  <2>1. f[0] = h[0]
    BY <1>10, <1>12 DEF Descends
  <2>2. ASSUME NEW i \in 1..n, f[i - 1] = h[i - 1] PROVE f[i] = h[i]
    <3>1. i \in 0..n /\ i # 0
      OBVIOUS
    <3>2. f[i] = Onward(f[i - 1], way)
      BY <1>12, <3>1 DEF Descends
    <3>3. h[i] = Onward(h[i - 1], way)
      BY <1>10, <3>1 DEF Descends
    <3> QED BY <2>2, <3>2, <3>3
  <2> QED BY <2>1, <2>2 DEF InStep
<1>14. f[n] = h[n] /\ n \in 0..n
  BY <1>13, SameIteration
<1>15. Reached(t, way) = f[n]
  BY <1>2, <1>11 DEF Reached
<1> QED BY <1>9, <1>14, <1>15

\* All that an operator before (after) t touches pulls on it with at least m
\* (with more than p).
AboveLeft(t, m) ==
  \E K : /\ t \in K
         /\ \A x \in K : /\ Further(x, "left") \subseteq K
                         /\ OpenLeft(x) => LeftPower(x) >= m

BelowRight(t, p) ==
  \E K : /\ t \in K
         /\ \A x \in K : /\ Further(x, "right") \subseteq K
                         /\ OpenRight(x) => p < RightPower(x)

\* The operands of one node are those that its operator may have.
OperandsOK(t) ==
  /\ t.kind # "atom" => 1 \in 1..Len(t.kids) /\ Len(t.kids) \in 1..Len(t.kids)
  /\ t.kind \in {"infix", "postfix", "call"} => BelowRight(t.kids[1], LeftPower(t))
  /\ t.kind \in {"prefix", "infix"} => AboveLeft(LastKid(t), RightPower(t))

\* K is a set of trees with their parts, all of which are in order.
InOrder(K) ==
  \A x \in K : HasSpan(x) /\ Further(x, "parts") \subseteq K /\ OperandsOK(x)

ReadWell(t) == \E K : t \in K /\ InOrder(K)

\* The parts that a step down leads to.
LEMMA Parts ==
  ASSUME NEW t
  PROVE  /\ Further(t, "parts") = {t.kids[i] : i \in 1..Len(t.kids)}
         /\ OpenLeft(t) /\ 1 \in 1..Len(t.kids) => Further(t, "left") = {t.kids[1]}
         /\ ~OpenLeft(t) => Further(t, "left") = {}
         /\ OpenRight(t) /\ Len(t.kids) \in 1..Len(t.kids) =>
              Further(t, "right") = {LastKid(t)}
         /\ ~OpenRight(t) => Further(t, "right") = {}
<1>1. Further(t, "parts") = {t.kids[i] : i \in 1..Len(t.kids)}
  BY DEF Further
<1>2. OpenLeft(t) /\ 1 \in 1..Len(t.kids) => Further(t, "left") = {t.kids[1]}
  BY DEF Further
<1>3. ~OpenLeft(t) => Further(t, "left") = {}
  BY DEF Further
<1>4. OpenRight(t) /\ Len(t.kids) \in 1..Len(t.kids) => Further(t, "right") = {LastKid(t)}
  BY DEF Further, LastKid
<1>5. ~OpenRight(t) => Further(t, "right") = {}
  BY DEF Further
<1> QED BY <1>1, <1>2, <1>3, <1>4, <1>5

\* What the edges of a tree have is what the spines list.
LEMMA SpinesAre ==
  ASSUME NEW t, HasSpan(t)
  PROVE  /\ \A m : AboveLeft(t, m) => \A x \in LeftSpine(t) : LeftPower(x) >= m
         /\ \A p : BelowRight(t, p) => \A x \in RightSpine(t) : p < RightPower(x)
<1>1. ASSUME NEW m, AboveLeft(t, m) PROVE \A x \in LeftSpine(t) : LeftPower(x) >= m
  <2>1. PICK K : /\ t \in K
                 /\ \A x \in K : /\ Further(x, "left") \subseteq K
                                 /\ OpenLeft(x) => LeftPower(x) >= m
    BY <1>1 DEF AboveLeft
  <2>2. Reached(t, "left") \subseteq K
    BY <2>1, ReachedIn
  <2> QED BY <2>1, <2>2 DEF LeftSpine
<1>2. ASSUME NEW p, BelowRight(t, p) PROVE \A x \in RightSpine(t) : p < RightPower(x)
  <2>1. PICK K : /\ t \in K
                 /\ \A x \in K : /\ Further(x, "right") \subseteq K
                                 /\ OpenRight(x) => p < RightPower(x)
    BY <1>2 DEF BelowRight
  <2>2. Reached(t, "right") \subseteq K
    BY <2>1, ReachedIn
  <2> QED BY <2>1, <2>2 DEF RightSpine
<1> QED BY <1>1, <1>2

\* A tree that was read well respects precedence at every node.
LEMMA ReadWellMeans ==
  ASSUME NEW t, ReadWell(t)
  PROVE  \A n \in Nodes(t) : LeftOperandOK(n) /\ RightOperandOK(n)
<1>1. PICK K : t \in K /\ InOrder(K)
  BY DEF ReadWell
<1>2. Nodes(t) \subseteq K
  BY <1>1, ReachedIn DEF InOrder, Nodes
<1> SUFFICES ASSUME NEW n \in K PROVE LeftOperandOK(n) /\ RightOperandOK(n)
  BY <1>2
<1>3. OperandsOK(n) /\ \A i \in 1..Len(n.kids) : HasSpan(n.kids[i])
  BY <1>1, Parts DEF InOrder
<1>4. LeftOperandOK(n)
  <2> SUFFICES ASSUME n.kind \in {"infix", "postfix", "call"}
               PROVE  \A x \in RightSpine(n.kids[1]) : LeftPower(n) < RightPower(x)
    BY DEF LeftOperandOK
  <2>1. HasSpan(n.kids[1]) /\ BelowRight(n.kids[1], LeftPower(n))
    BY <1>3 DEF OperandsOK
  <2> QED BY <2>1, SpinesAre
<1>5. RightOperandOK(n)
  <2> SUFFICES ASSUME n.kind \in {"prefix", "infix"}
               PROVE  \A x \in LeftSpine(LastKid(n)) : LeftPower(x) >= RightPower(n)
    BY DEF RightOperandOK
  <2>1. HasSpan(LastKid(n)) /\ AboveLeft(LastKid(n), RightPower(n))
    BY <1>3 DEF OperandsOK, LastKid
  <2> QED BY <2>1, SpinesAre
<1> QED BY <1>4, <1>5

\* The edges of a node are the node and the edges of its operand there.
LEMMA EdgeStep ==
  ASSUME NEW t, t.kind # "atom" => 1 \in 1..Len(t.kids) /\ Len(t.kids) \in 1..Len(t.kids)
  PROVE  /\ \A m : AboveLeft(t, m) <=>
                     (OpenLeft(t) => LeftPower(t) >= m /\ AboveLeft(t.kids[1], m))
         /\ \A p : BelowRight(t, p) <=>
                     (OpenRight(t) => p < RightPower(t) /\ BelowRight(LastKid(t), p))
<1>1. /\ OpenLeft(t) => Further(t, "left") = {t.kids[1]}
      /\ ~OpenLeft(t) => Further(t, "left") = {}
      /\ OpenRight(t) => Further(t, "right") = {LastKid(t)}
      /\ ~OpenRight(t) => Further(t, "right") = {}
  BY Parts DEF OpenLeft, OpenRight
<1>2. ASSUME NEW m, AboveLeft(t, m), OpenLeft(t)
      PROVE  LeftPower(t) >= m /\ AboveLeft(t.kids[1], m)
  BY <1>1, <1>2 DEF AboveLeft
<1>3. ASSUME NEW m, OpenLeft(t) => LeftPower(t) >= m /\ AboveLeft(t.kids[1], m)
      PROVE  AboveLeft(t, m)
  <2>1. CASE ~OpenLeft(t)
    <3>1. \A x \in {t} : Further(x, "left") \subseteq {t} /\ ~OpenLeft(x)
      BY <1>1, <2>1
    <3> QED BY <3>1 DEF AboveLeft
  <2>2. CASE OpenLeft(t)
    <3>1. PICK K : /\ t.kids[1] \in K
                   /\ \A x \in K : /\ Further(x, "left") \subseteq K
                                   /\ OpenLeft(x) => LeftPower(x) >= m
      BY <1>3, <2>2 DEF AboveLeft
    <3>2. \A x \in K \cup {t} : /\ Further(x, "left") \subseteq K \cup {t}
                                /\ OpenLeft(x) => LeftPower(x) >= m
      BY <1>1, <1>3, <2>2, <3>1
    <3>3. t \in K \cup {t}
      OBVIOUS
    <3> QED BY <3>2, <3>3 DEF AboveLeft
  <2> QED BY <2>1, <2>2
<1>4. ASSUME NEW p, BelowRight(t, p), OpenRight(t)
      PROVE  p < RightPower(t) /\ BelowRight(LastKid(t), p)
  BY <1>1, <1>4 DEF BelowRight
<1>5. ASSUME NEW p, OpenRight(t) => p < RightPower(t) /\ BelowRight(LastKid(t), p)
      PROVE  BelowRight(t, p)
  <2>1. CASE ~OpenRight(t)
    <3>1. \A x \in {t} : Further(x, "right") \subseteq {t} /\ ~OpenRight(x)
      BY <1>1, <2>1
    <3> QED BY <3>1 DEF BelowRight
  <2>2. CASE OpenRight(t)
    <3>1. PICK K : /\ LastKid(t) \in K
                   /\ \A x \in K : /\ Further(x, "right") \subseteq K
                                   /\ OpenRight(x) => p < RightPower(x)
      BY <1>5, <2>2 DEF BelowRight
    <3>2. \A x \in K \cup {t} : /\ Further(x, "right") \subseteq K \cup {t}
                                /\ OpenRight(x) => p < RightPower(x)
      BY <1>1, <1>5, <2>2, <3>1
    <3>3. t \in K \cup {t}
      OBVIOUS
    <3> QED BY <3>2, <3>3 DEF BelowRight
  <2> QED BY <2>1, <2>2
<1> QED BY <1>2, <1>3, <1>4, <1>5

\* A node is read well when its operands are and may stand where they do.
LEMMA ReadWellStep ==
  ASSUME NEW t, HasSpan(t), OperandsOK(t),
         \A i \in 1..Len(t.kids) : ReadWell(t.kids[i])
  PROVE  ReadWell(t)
<1> DEFINE Below(i) == CHOOSE K : t.kids[i] \in K /\ InOrder(K)
           All == {t} \cup UNION {Below(i) : i \in 1..Len(t.kids)}
<1>1. \A i \in 1..Len(t.kids) : t.kids[i] \in Below(i) /\ InOrder(Below(i))
  BY DEF ReadWell
<1> HIDE DEF Below
<1>2. Further(t, "parts") \subseteq All
  BY <1>1, Parts
<1>3. ASSUME NEW i \in 1..Len(t.kids), NEW x \in Below(i)
      PROVE  HasSpan(x) /\ Further(x, "parts") \subseteq All /\ OperandsOK(x)
  <2>1. HasSpan(x) /\ Further(x, "parts") \subseteq Below(i) /\ OperandsOK(x)
    BY <1>1 DEF InOrder
  <2> QED BY <2>1
<1>4. InOrder(All)
  BY <1>2, <1>3 DEF InOrder
<1> QED BY <1>4 DEF ReadWell

\* ... and only then.
LEMMA ReadWellParts ==
  ASSUME NEW t, ReadWell(t)
  PROVE  HasSpan(t) /\ OperandsOK(t) /\ \A i \in 1..Len(t.kids) : ReadWell(t.kids[i])
<1>1. PICK K : t \in K /\ InOrder(K)
  BY DEF ReadWell
<1>2. HasSpan(t) /\ OperandsOK(t) /\ Further(t, "parts") \subseteq K
  BY <1>1 DEF InOrder
<1>3. \A i \in 1..Len(t.kids) : t.kids[i] \in K
  BY <1>2, Parts
<1> QED BY <1>1, <1>2, <1>3 DEF ReadWell

\* Another origin with a span leaves a tree well read.
LEMMA ReadWellSame ==
  ASSUME NEW t, ReadWell(t), NEW u, HasSpan(u),
         u.kind = t.kind, u.op = t.op, u.kids = t.kids
  PROVE  ReadWell(u)
<1>1. OperandsOK(t) /\ \A i \in 1..Len(u.kids) : ReadWell(u.kids[i])
  BY ReadWellParts
<1>2. LeftPower(u) = LeftPower(t) /\ RightPower(u) = RightPower(t) /\ LastKid(u) = LastKid(t)
  BY DEF LeftPower, RightPower, LastKid
<1>3. OperandsOK(u)
  BY <1>1, <1>2 DEF OperandsOK
<1> QED BY <1>1, <1>3, ReadWellStep

\* Other trivia change nothing at all.
LEMMA TriviaSame ==
  ASSUME NEW t, ReadWell(t), NEW extra, NEW u, u = WithTrivia(t, extra)
  PROVE  /\ u.start = t.start /\ u.end = t.end
         /\ HasSpan(u) /\ ReadWell(u)
         /\ \A m : AboveLeft(t, m) => AboveLeft(u, m)
         /\ \A p : BelowRight(t, p) => BelowRight(u, p)
<1>1. /\ u.kind = t.kind /\ u.op = t.op /\ u.kids = t.kids
      /\ u.start = t.start /\ u.end = t.end
  BY DEF WithTrivia, Node
<1>2. HasSpan(t) /\ OperandsOK(t)
  BY ReadWellParts
<1>3. HasSpan(u)
  BY <1>1, <1>2 DEF HasSpan
<1>4. /\ OpenLeft(u) <=> OpenLeft(t)
      /\ OpenRight(u) <=> OpenRight(t)
      /\ LeftPower(u) = LeftPower(t) /\ RightPower(u) = RightPower(t)
      /\ LastKid(u) = LastKid(t)
  BY <1>1 DEF OpenLeft, OpenRight, Grouped, LeftPower, RightPower, LastKid
<1>5. /\ t.kind # "atom" => 1 \in 1..Len(t.kids) /\ Len(t.kids) \in 1..Len(t.kids)
      /\ u.kind # "atom" => 1 \in 1..Len(u.kids) /\ Len(u.kids) \in 1..Len(u.kids)
  BY <1>1, <1>2 DEF OperandsOK
<1>6. ReadWell(u)
  BY <1>1, <1>3, ReadWellSame
<1>7. \A m : AboveLeft(t, m) => AboveLeft(u, m)
  BY <1>1, <1>4, <1>5, EdgeStep
<1>8. \A p : BelowRight(t, p) => BelowRight(u, p)
  BY <1>1, <1>4, <1>5, EdgeStep
<1> QED BY <1>1, <1>3, <1>6, <1>7, <1>8

-----------------------------------------------------------------------------
\* What the parser knows of the trees it holds.  PowerOf is the pull of an
\* operator token to its left, Pull that of a suspended construct.
PowerOf(tok) == IF tok = "(" THEN CallPower ELSE Led[tok].left
Pull(k)      == IF k.wait = "led" THEN Led[k.op].left ELSE CallPower

\* An operator at i finds everything open in t binding tighter than itself.
Yields(t, i) ==
  i < Len(tokens) /\ tokens[i + 1] \in DOMAIN Led \cup {"("} =>
    BelowRight(t, PowerOf(tokens[i + 1]))

\* The parts of a tree lie within its span.
Shaped(t) ==
  /\ t.kind \in {"atom", "prefix", "infix", "postfix", "call"}
  /\ t.kind = "prefix" => t.kids[1].end \in Nat /\ t.kids[1].end <= t.end
  /\ t.kind \in {"infix", "postfix", "call"} =>
       t.kids[1].start \in Nat /\ t.start <= t.kids[1].start

\* The min_bp that a suspended activation passed to its callee.
CalleeMin(k) ==
  CASE k.wait = "prefix" -> Nud[k.op].right
    [] k.wait = "led" -> Led[k.op].right
    [] OTHER -> 0

FrameReads(k) ==
  /\ k.wait \in {"led", "arg"} =>
       /\ ReadWell(k.left) /\ AboveLeft(k.left, k.min)
       /\ BelowRight(k.left, Pull(k)) /\ Pull(k) >= k.min
  /\ \A j \in 1..Len(k.args) : ReadWell(k.args[j])

Calls(k, m) == FrameReads(k) /\ CalleeMin(k) = m

MeaningInv ==
  /\ pc \in {"loop", "return", "done"} => ReadWell(left)
  /\ pc \in {"loop", "return"} =>
       Shaped(left) /\ AboveLeft(left, min) /\ Yields(left, index)
  /\ pc = "return" => ~NextBinds
  /\ Live => \A i \in 1..Len(stack) :
               Calls(stack[i], IF i = Len(stack) THEN min ELSE stack[i + 1].min)

\* A leaf is open on neither side.
LEMMA LeafMade ==
  ASSUME NEW tok, NEW at, NEW t, t = Leaf(tok, at), HasSpan(t)
  PROVE  /\ ReadWell(t) /\ Shaped(t)
         /\ \A m : AboveLeft(t, m)
         /\ \A p : BelowRight(t, p)
<1>1. t.kind = "atom" /\ t.kids = <<>>
  BY DEF Leaf, Node
<1>2. OperandsOK(t) /\ Shaped(t) /\ ~OpenLeft(t) /\ ~OpenRight(t)
  BY <1>1 DEF OperandsOK, Shaped, OpenLeft, OpenRight
<1>3. \A i \in 1..Len(t.kids) : ReadWell(t.kids[i])
  BY <1>1
<1>4. ReadWell(t)
  BY <1>2, <1>3, ReadWellStep
<1> QED BY <1>1, <1>2, <1>4, EdgeStep

\* A prefix operator on an operand that was read with its right power.
LEMMA PrefixMade ==
  ASSUME NEW op, NEW start, NEW arg, NEW t, t = PrefixTree(op, start, arg), HasSpan(t),
         ReadWell(arg), AboveLeft(arg, Nud[op].right)
  PROVE  /\ ReadWell(t) /\ Shaped(t)
         /\ \A m : AboveLeft(t, m)
         /\ \A p : p < Nud[op].right /\ BelowRight(arg, p) => BelowRight(t, p)
<1>1. /\ t.kind = "prefix" /\ t.op = op /\ t.kids = <<arg>> /\ t.end = arg.end
  BY DEF PrefixTree, Node
<1>2. Len(t.kids) = 1 /\ t.kids[1] = arg /\ LastKid(t) = arg
  BY <1>1 DEF LastKid
<1>3. RightPower(t) = Nud[op].right
  BY <1>1 DEF RightPower
<1>4. OperandsOK(t)
  BY <1>1, <1>2, <1>3 DEF OperandsOK
<1>5. ReadWell(t)
  BY <1>2, <1>4, ReadWellStep
<1>6. Shaped(t)
  BY <1>1, <1>2 DEF Shaped, HasSpan
<1>7. ~OpenLeft(t)
  BY <1>1 DEF OpenLeft
<1> QED BY <1>2, <1>3, <1>5, <1>6, <1>7, EdgeStep

\* An infix operator between the left operand and the right one that was read
\* with its right power.
LEMMA InfixMade ==
  ASSUME NEW op, NEW lhs, NEW rhs, NEW t, t = InfixTree(op, lhs, rhs), HasSpan(t),
         ReadWell(lhs), BelowRight(lhs, Led[op].left),
         ReadWell(rhs), AboveLeft(rhs, Led[op].right)
  PROVE  /\ ReadWell(t) /\ Shaped(t)
         /\ \A m : Led[op].left >= m /\ AboveLeft(lhs, m) => AboveLeft(t, m)
         /\ \A p : p < Led[op].right /\ BelowRight(rhs, p) => BelowRight(t, p)
<1>1. t.kind = "infix" /\ t.op = op /\ t.kids = <<lhs, rhs>> /\ t.start = lhs.start
  BY DEF InfixTree, Node
<1>2. Len(t.kids) = 2 /\ t.kids[1] = lhs /\ t.kids[2] = rhs /\ LastKid(t) = rhs
  BY <1>1 DEF LastKid
<1>3. LeftPower(t) = Led[op].left /\ RightPower(t) = Led[op].right
  BY <1>1 DEF LeftPower, RightPower
<1>4. OperandsOK(t)
  BY <1>1, <1>2, <1>3 DEF OperandsOK
<1>5. \A i \in 1..Len(t.kids) : ReadWell(t.kids[i])
  <2>1. \A i \in 1..2 : i = 1 \/ i = 2
    OBVIOUS
  <2> QED BY <1>2, <2>1
<1>6. ReadWell(t)
  BY <1>4, <1>5, ReadWellStep
<1>7. Shaped(t)
  BY <1>1, <1>2 DEF Shaped, HasSpan
<1> QED BY <1>2, <1>3, <1>6, <1>7, EdgeStep

\* A postfix operator behind its operand.
LEMMA PostfixMade ==
  ASSUME NEW op, NEW arg, NEW end, NEW t, t = PostfixTree(op, arg, end), HasSpan(t),
         ReadWell(arg), BelowRight(arg, Led[op].left)
  PROVE  /\ ReadWell(t) /\ Shaped(t)
         /\ \A m : Led[op].left >= m /\ AboveLeft(arg, m) => AboveLeft(t, m)
         /\ \A p : BelowRight(t, p)
<1>1. t.kind = "postfix" /\ t.op = op /\ t.kids = <<arg>> /\ t.start = arg.start
  BY DEF PostfixTree, Node
<1>2. Len(t.kids) = 1 /\ t.kids[1] = arg
  BY <1>1
<1>3. LeftPower(t) = Led[op].left
  BY <1>1 DEF LeftPower
<1>4. OperandsOK(t)
  BY <1>1, <1>2, <1>3 DEF OperandsOK
<1>5. ReadWell(t)
  BY <1>2, <1>4, ReadWellStep
<1>6. Shaped(t)
  BY <1>1, <1>2 DEF Shaped, HasSpan
<1>7. ~OpenRight(t)
  BY <1>1 DEF OpenRight
<1> QED BY <1>2, <1>3, <1>5, <1>6, <1>7, EdgeStep

\* A call: its operator is the left operand of the parenthesis.
LEMMA CallMade ==
  ASSUME NEW f, NEW t, t.kind = "call", HasSpan(t), t.start = f.start, HasSpan(f),
         Len(t.kids) \in Nat \ {0}, t.kids[1] = f,
         \A i \in 1..Len(t.kids) : ReadWell(t.kids[i]),
         BelowRight(f, CallPower)
  PROVE  /\ ReadWell(t) /\ Shaped(t)
         /\ \A m : CallPower >= m /\ AboveLeft(f, m) => AboveLeft(t, m)
         /\ \A p : BelowRight(t, p)
<1>1. LeftPower(t) = CallPower
  BY DEF LeftPower
<1>2. 1 \in 1..Len(t.kids) /\ Len(t.kids) \in 1..Len(t.kids)
  BY SMT
<1>3. OperandsOK(t)
  BY <1>1, <1>2 DEF OperandsOK
<1>4. ReadWell(t)
  BY <1>3, ReadWellStep
<1>5. Shaped(t)
  BY DEF Shaped, HasSpan
<1>6. ~OpenRight(t)
  BY DEF OpenRight
<1> QED BY <1>1, <1>2, <1>4, <1>5, <1>6, EdgeStep

\* Parentheses close a tree on both sides.
LEMMA GroupMade ==
  ASSUME NEW inner, NEW open \in Nat, NEW close \in Nat, NEW t,
         t = GroupTree(inner, open, close), HasSpan(t),
         ReadWell(inner), Shaped(inner), open + 1 = inner.start, inner.end = close
  PROVE  /\ ReadWell(t) /\ Shaped(t)
         /\ \A m : AboveLeft(t, m)
         /\ \A p : BelowRight(t, p)
<1>1. /\ t.kind = inner.kind /\ t.op = inner.op /\ t.kids = inner.kids
      /\ t.start = open /\ t.end = close + 1
  BY DEF GroupTree, Node
<1>2. HasSpan(inner) /\ OperandsOK(inner)
  BY ReadWellParts
<1>3. ReadWell(t)
  BY <1>1, ReadWellSame
<1>4. Shaped(t)
  BY <1>1, <1>2, SMT DEF Shaped, HasSpan
<1>5. Grouped(t)
  <2>1. CASE t.kind = "atom"
    BY <1>1, <1>2, <2>1, SMT DEF Grouped, HasSpan
  <2>2. CASE t.kind = "prefix"
    BY <1>1, <1>2, <2>2, SMT DEF Grouped, HasSpan, Shaped
  <2>3. CASE t.kind \in {"infix", "postfix", "call"}
    BY <1>1, <1>2, <2>3, SMT DEF Grouped, HasSpan, Shaped
  <2> QED BY <1>1, <2>1, <2>2, <2>3 DEF Shaped
<1>6. ~OpenLeft(t) /\ ~OpenRight(t)
  BY <1>5 DEF OpenLeft, OpenRight
<1>7. t.kind # "atom" => 1 \in 1..Len(t.kids) /\ Len(t.kids) \in 1..Len(t.kids)
  BY <1>1, <1>2 DEF OperandsOK
<1> QED BY <1>3, <1>4, <1>6, <1>7, EdgeStep

-----------------------------------------------------------------------------
\* What a step of the running activation has to hand on when the stack stays.
LEMMA StayReads ==
  ASSUME IInv, MeaningInv, pc \in {"start", "enter", "nud", "loop"},
         UNCHANGED <<tokens, stack, min>>,
         \/ pc' \in {"error", "enter", "nud"}
         \/ /\ pc' = "loop"
            /\ ReadWell(left') /\ Shaped(left') /\ AboveLeft(left', min)
            /\ Yields(left', index')
  PROVE  MeaningInv'
<1>1. Yields(left', index') => Yields(left, index)'
  BY DEF Yields
<1>2. pc = "start" => \A i \in 1..Len(stack) : FALSE
  BY EmptyStack, SMT DEF IInv
<1>3. Live' => \A i \in 1..Len(stack) :
                 Calls(stack[i], IF i = Len(stack) THEN min ELSE stack[i + 1].min)
  BY <1>2 DEF MeaningInv, Live
<1>4. pc' \in {"loop", "return", "done"} => ReadWell(left')
  OBVIOUS
<1>5. pc' \in {"loop", "return"} =>
        Shaped(left') /\ AboveLeft(left', min') /\ Yields(left, index)'
  BY <1>1
<1> QED BY <1>3, <1>4, <1>5 DEF MeaningInv

\* A new frame on top, with what it handed to its callee.
LEMMA RecurseReads ==
  ASSUME IInv, MeaningInv, pc \in {"nud", "loop"},
         NEW k, NEW bp, Recurse(k, bp), Calls(k, bp), k.min = min
  PROVE  MeaningInv'
<1>1. IsSeq(stack) /\ Len(stack) \in Nat
  BY StackBasics DEF IInv, StackOK
<1>2. /\ Len(stack') = Len(stack) + 1
      /\ \A i \in 1..Len(stack) : stack'[i] = stack[i]
      /\ stack'[Len(stack) + 1] = k
      /\ pc' = "enter" /\ min' = bp
  BY <1>1, PushLemma DEF Recurse
<1>3. \A i \in 1..Len(stack) :
        Calls(stack[i], IF i = Len(stack) THEN min ELSE stack[i + 1].min)
  BY DEF MeaningInv, Live
<1>4. ASSUME NEW i \in 1..Len(stack')
      PROVE  Calls(stack'[i], IF i = Len(stack') THEN min' ELSE stack'[i + 1].min)
  <2>1. CASE i = Len(stack) + 1
    BY <1>2, <2>1
  <2>2. CASE i = Len(stack) /\ i \in 1..Len(stack)
    <3>1. Calls(stack[i], min)
      BY <1>3, <2>2
    <3>2. i # Len(stack') /\ stack'[i] = stack[i] /\ stack'[i + 1] = k
      BY <1>1, <1>2, <2>2
    <3> QED BY <3>1, <3>2
  <2>3. CASE i \in 1..(Len(stack) - 1)
    <3>1. i \in 1..Len(stack) /\ i + 1 \in 1..Len(stack) /\ i # Len(stack) /\ i # Len(stack')
      BY <1>1, <1>2, <2>3
    <3>2. Calls(stack[i], stack[i + 1].min)
      BY <1>3, <3>1
    <3> QED BY <1>2, <3>1, <3>2
  <2> QED BY <1>1, <1>2, <2>1, <2>2, <2>3
<1> QED BY <1>2, <1>4 DEF MeaningInv

\* The frame on top takes the callee's tree and goes on.
LEMMA ResumeReads ==
  ASSUME IInv, MeaningInv, pc = "return", stack # <<>>, UNCHANGED tokens, Resume,
         \/ pc' = "error"
         \/ /\ pc' = "loop"
            /\ ReadWell(left') /\ Shaped(left') /\ AboveLeft(left', Top.min)
            /\ Yields(left', index')
  PROVE  MeaningInv'
<1>1. IsSeq(stack) /\ Len(stack) \in Nat \ {0}
  BY BelowTop DEF IInv, StackOK
<1>2. /\ Len(stack') = Len(stack) - 1 /\ min' = stack[Len(stack)].min
      /\ \A i \in 1..(Len(stack) - 1) : stack'[i] = stack[i]
  BY <1>1, PopLemma DEF Resume, Top, TopOf
<1>3. \A i \in 1..Len(stack) :
        Calls(stack[i], IF i = Len(stack) THEN min ELSE stack[i + 1].min)
  BY DEF MeaningInv, Live
<1>4. ASSUME NEW i \in 1..Len(stack')
      PROVE  Calls(stack'[i], IF i = Len(stack') THEN min' ELSE stack'[i + 1].min)
  <2>1. /\ i \in 1..Len(stack) /\ i # Len(stack) /\ i \in 1..(Len(stack) - 1)
        /\ i = Len(stack') => i + 1 = Len(stack)
        /\ i # Len(stack') => i + 1 \in 1..(Len(stack) - 1)
    BY <1>1, <1>2
  <2>2. Calls(stack[i], stack[i + 1].min)
    BY <1>3, <2>1
  <2>3. CASE i = Len(stack')
    BY <1>2, <2>1, <2>2, <2>3
  <2>4. CASE i # Len(stack')
    BY <1>2, <2>1, <2>2, <2>4
  <2> QED BY <2>3, <2>4
<1>5. Yields(left', index') => Yields(left, index)'
  BY DEF Yields
<1>6. min' = Top.min
  BY DEF Resume
<1> QED BY <1>4, <1>5, <1>6 DEF MeaningInv

\* What the frame on top and the returned tree are to each other.
LEMMA TopReads ==
  ASSUME IInv, MeaningInv, pc = "return", stack # <<>>
  PROVE  /\ FrameReads(Top) /\ min = CalleeMin(Top)
         /\ ReadWell(left) /\ Shaped(left) /\ AboveLeft(left, min) /\ Yields(left, index)
         /\ ~NextBinds
<1>1. Len(stack) \in 1..Len(stack)
  BY BelowTop
<1>2. Calls(stack[Len(stack)], min)
  BY <1>1 DEF MeaningInv, Live
<1> QED BY <1>2 DEF MeaningInv, Calls, Top, TopOf

\* A tree that yields where the loop broke also yields with an operator in
\* front that has the power with which the loop broke.
LEMMA BrokenBelow ==
  ASSUME IInv, ~NextBinds, index < Len(tokens), tokens[index + 1] \in DOMAIN Led \cup {"("}
  PROVE  PowerOf(tokens[index + 1]) < min
<1>1. PICK tok : tok = tokens[index + 1]
  OBVIOUS
<1>2. ~AtEnd /\ ~Binds(tok)
  BY <1>1, CursorLemma, SMT DEF IInv, ScalarsOK, AtEnd, NextBinds, Peek
<1>3. tok \in DOMAIN Led => tok # "("
  BY PrattAssumption
<1> QED BY <1>1, <1>2, <1>3 DEF Binds, PowerOf

\* The reading of a prefix.
LEMMA NudReads == ASSUME IInv, MeaningInv, NudStep PROVE MeaningInv'
<1>1. pc = "nud"
  BY DEF NudStep, NudPrefix, NudAtom, NudGroup, NudFail
<1>2. CASE NudPrefix
  <2>1. PICK k : k = Suspended("prefix", Peek, index, NoTree)
    OBVIOUS
  <2>2. Recurse(k, Nud[Peek].right)
    BY <1>2, <2>1 DEF NudPrefix
  <2>3. k.wait = "prefix" /\ k.op = Peek /\ k.min = min /\ k.args = <<>>
    BY <2>1 DEF Suspended, Continuation
  <2>4. Calls(k, Nud[Peek].right)
    BY <2>3, EmptyStack DEF Calls, FrameReads, CalleeMin
  <2> QED BY <1>1, <2>2, <2>3, <2>4, RecurseReads
<1>3. CASE NudAtom
  <2>1. PICK t : t = Leaf(Peek, index)
    OBVIOUS
  <2>2. /\ Settle(t, depth, Peek \notin LongStrings)
        /\ UNCHANGED <<tokens, stack, min>>
    BY <1>3, <2>1 DEF NudAtom
  <2>3. HasSpan(t)
    BY <2>1, CursorLemma, SMT DEF HasSpan, Leaf, Node, IInv
  <2>4. ReadWell(t) /\ Shaped(t) /\ AboveLeft(t, min) /\ Yields(t, index')
    BY <2>1, <2>3, LeafMade DEF Yields
  <2> QED BY <1>1, <2>2, <2>4, SettleLemma, StayReads
<1>4. CASE NudGroup
  <2>1. PICK k : k = Suspended("group", "(", index, NoTree)
    OBVIOUS
  <2>2. Recurse(k, 0)
    BY <1>4, <2>1 DEF NudGroup
  <2>3. k.wait = "group" /\ k.min = min /\ k.args = <<>>
    BY <2>1 DEF Suspended, Continuation
  <2>4. Calls(k, 0)
    BY <2>3, EmptyStack DEF Calls, FrameReads, CalleeMin
  <2> QED BY <1>1, <2>2, <2>3, <2>4, RecurseReads
<1>5. CASE NudFail
  BY <1>1, <1>5, StayReads DEF NudFail, Fail
<1> QED BY <1>2, <1>3, <1>4, <1>5 DEF NudStep

\* The operator that binds in the loop.
LEMMA BindsReads ==
  ASSUME IInv, MeaningInv, pc = "loop", NextBinds, Peek \in DOMAIN Led \cup {"("}
  PROVE  /\ ReadWell(left) /\ AboveLeft(left, min)
         /\ BelowRight(left, PowerOf(Peek)) /\ PowerOf(Peek) >= min
<1>1. PICK tok : tok = Peek
  OBVIOUS
<1>2. ReadWell(left) /\ AboveLeft(left, min) /\ Yields(left, index)
  BY DEF MeaningInv
<1>3. index < Len(tokens) /\ tokens[index + 1] = tok
  BY <1>1, CursorLemma, SMT DEF IInv, ScalarsOK, AtEnd, NextBinds, Peek
<1>4. BelowRight(left, PowerOf(tok))
  BY <1>1, <1>2, <1>3 DEF Yields
<1>5. Binds(tok)
  BY <1>1 DEF NextBinds
<1>6. min \in Nat /\ CallPower \in Nat /\ \A x \in DOMAIN Led : Led[x].left \in Nat /\ x # "("
  BY PrattAssumption DEF IInv, ScalarsOK, CallPower, Operator
<1>7. PowerOf(tok) >= min
  <2>1. CASE tok = "("
    <3>1. ~(CallPower < min)
      BY <1>5, <1>6, <2>1 DEF Binds
    <3> QED BY <1>6, <2>1, <3>1, SMT DEF PowerOf
  <2>2. CASE tok \in DOMAIN Led
    <3>1. ~(Led[tok].left < min) /\ tok # "("
      BY <1>5, <1>6, <2>2 DEF Binds
    <3>2. Led[tok].left \in Nat
      BY <1>6, <2>2
    <3> QED BY <1>6, <3>1, <3>2, SMT DEF PowerOf
  <2> QED BY <1>1, <2>1, <2>2
<1> QED BY <1>1, <1>2, <1>4, <1>7

\* The loop of an activation.
LEMMA LoopReads == ASSUME IInv, MeaningInv, Loop, IInv' PROVE MeaningInv'
<1>1. pc = "loop" /\ HasSpan(left) /\ index \in Nat /\ left.end = index
  BY CursorLemma
  DEF Loop, LoopBreak, LoopPostfix, LoopInfix, LoopEmptyCall, LoopCall, IInv, SpansTile, Live
<1>2. CASE LoopBreak
  <2>1. /\ UNCHANGED <<tokens, index, stack, min, left>> /\ pc' = "return" /\ ~NextBinds
    BY <1>2 DEF LoopBreak
  <2>2. ReadWell(left) /\ Shaped(left) /\ AboveLeft(left, min) /\ Yields(left, index)
    BY <1>1 DEF MeaningInv
  <2>3. \A i \in 1..Len(stack) :
          Calls(stack[i], IF i = Len(stack) THEN min ELSE stack[i + 1].min)
    BY <1>1 DEF MeaningInv, Live
  <2>4. (~NextBinds)'
    BY <2>1 DEF NextBinds, AtEnd, Binds, Peek
  <2>5. Yields(left, index)'
    BY <2>1, <2>2 DEF Yields
  <2> QED BY <2>1, <2>2, <2>3, <2>4, <2>5 DEF MeaningInv
<1>3. CASE LoopPostfix
  <2>1. PICK t : t = PostfixTree(Peek, left, index + 1)
    OBVIOUS
  <2>2. /\ Settle(t, depth, Led[Peek].builds) /\ NextBinds /\ Peek \in DOMAIN Led
        /\ UNCHANGED <<tokens, stack, min>>
    BY <1>3, <2>1 DEF LoopPostfix
  <2>3. HasSpan(t)
    BY <1>1, <2>1, SMT DEF HasSpan, PostfixTree, Node
  <2>4. PowerOf(Peek) = Led[Peek].left
    BY <2>2, PrattAssumption DEF PowerOf
  <2>5. /\ ReadWell(left) /\ AboveLeft(left, min)
        /\ BelowRight(left, Led[Peek].left) /\ Led[Peek].left >= min
    BY <1>1, <2>2, <2>4, BindsReads
  <2>6. ReadWell(t) /\ Shaped(t) /\ AboveLeft(t, min) /\ \A p : BelowRight(t, p)
    BY <2>1, <2>3, <2>5, PostfixMade
  <2>7. Yields(t, index')
    BY <2>6 DEF Yields
  <2> QED BY <1>1, <2>2, <2>6, <2>7, SettleLemma, StayReads
<1>4. CASE LoopInfix
  <2>1. PICK k : k = Suspended("led", Peek, index, left)
    OBVIOUS
  <2>2. Recurse(k, Led[Peek].right) /\ NextBinds /\ Peek \in DOMAIN Led
    BY <1>4, <2>1 DEF LoopInfix
  <2>3. k.wait = "led" /\ k.op = Peek /\ k.min = min /\ k.args = <<>> /\ k.left = left
    BY <2>1 DEF Suspended, Continuation
  <2>4. PowerOf(Peek) = Led[Peek].left
    BY <2>2, PrattAssumption DEF PowerOf
  <2>5. /\ ReadWell(left) /\ AboveLeft(left, min)
        /\ BelowRight(left, Led[Peek].left) /\ Led[Peek].left >= min
    BY <1>1, <2>2, <2>4, BindsReads
  <2>6. Pull(k) = Led[Peek].left /\ CalleeMin(k) = Led[Peek].right
    BY <2>3 DEF Pull, CalleeMin
  <2>7. Calls(k, Led[Peek].right)
    BY <2>3, <2>5, <2>6, EmptyStack DEF Calls, FrameReads
  <2> QED BY <1>1, <2>2, <2>3, <2>7, RecurseReads
<1>5. CASE LoopEmptyCall
  <2>1. PICK f : f = WithTrivia(left, TriviaAt(index + 1))
    OBVIOUS
  <2>2. PICK t : t = EmptyCallTree(left, index + 1)
    OBVIOUS
  <2>3. /\ left' = t /\ pc' = "loop" /\ NextBinds /\ Peek = "("
        /\ UNCHANGED <<tokens, stack, min>>
    BY <1>5, <2>2 DEF LoopEmptyCall, Sees
  <2>4. PowerOf(Peek) = CallPower
    BY <2>3 DEF PowerOf
  <2>5. /\ ReadWell(left) /\ AboveLeft(left, min)
        /\ BelowRight(left, CallPower) /\ CallPower >= min
    BY <1>1, <2>3, <2>4, BindsReads
  <2>6. /\ f.start = left.start /\ HasSpan(f) /\ ReadWell(f)
        /\ AboveLeft(f, min) /\ BelowRight(f, CallPower)
    BY <2>1, <2>5, TriviaSame
  <2>7. t.kind = "call" /\ t.kids = <<f>> /\ t.start = left.start
    BY <2>1, <2>2 DEF EmptyCallTree, Node
  <2>8. HasSpan(t)
    BY <1>1, <2>2, SMT DEF HasSpan, EmptyCallTree, Node
  <2>9. Len(t.kids) = 1 /\ t.kids[1] = f
    BY <2>7
  <2>10. \A i \in 1..Len(t.kids) : ReadWell(t.kids[i])
    BY <2>6, <2>9
  <2>11. Len(t.kids) \in Nat \ {0} /\ t.start = f.start
    BY <2>6, <2>7, <2>9
  <2>12. ReadWell(t) /\ Shaped(t) /\ AboveLeft(t, min) /\ \A p : BelowRight(t, p)
    BY <2>5, <2>6, <2>7, <2>8, <2>9, <2>10, <2>11, CallMade
  <2>13. Yields(t, index')
    BY <2>12 DEF Yields
  <2> QED BY <1>1, <2>3, <2>12, <2>13, StayReads
<1>6. CASE LoopCall
  <2>1. PICK k : k = Suspended("arg", "call", index, left)
    OBVIOUS
  <2>2. /\ NextBinds /\ Peek = "(" /\ UNCHANGED tokens
        /\ \/ Recurse(k, 0)
           \/ pc' = "error" /\ UNCHANGED <<stack, min>>
    BY <1>6, <2>1 DEF LoopCall, Sees, Fail
  <2>3. k.wait = "arg" /\ k.min = min /\ k.args = <<>> /\ k.left = left
    BY <2>1 DEF Suspended, Continuation
  <2>4. PowerOf(Peek) = CallPower
    BY <2>2 DEF PowerOf
  <2>5. /\ ReadWell(left) /\ AboveLeft(left, min)
        /\ BelowRight(left, CallPower) /\ CallPower >= min
    BY <1>1, <2>2, <2>4, BindsReads
  <2>6. Pull(k) = CallPower /\ CalleeMin(k) = 0
    BY <2>3 DEF Pull, CalleeMin
  <2>7. Calls(k, 0)
    BY <2>3, <2>5, <2>6, EmptyStack DEF Calls, FrameReads
  <2> QED BY <1>1, <2>2, <2>3, <2>7, RecurseReads, StayReads
<1> QED BY <1>2, <1>3, <1>4, <1>5, <1>6 DEF Loop

\* The frame of a call with one more argument.
LEMMA ArgReads ==
  ASSUME IInv, MeaningInv, Returns("arg"),
         NEW k, k = WithArg(Top, WithTrivia(left, TriviaAt(index)))
  PROVE  /\ FrameReads(k) /\ k.wait = "arg" /\ k.min = Top.min /\ k.left = Top.left
         /\ IsSeq(k.args)
<1>1. PICK arg : arg = WithTrivia(left, TriviaAt(index))
  OBVIOUS
<1>2. pc = "return" /\ stack # <<>> /\ Top.wait = "arg"
  BY DEF Returns
<1>3. FrameReads(Top) /\ ReadWell(left)
  BY <1>2, TopReads
<1>4. ReadWell(arg)
  BY <1>1, <1>3, TriviaSame
<1>5. IsSeq(Top.args)
  BY <1>2, BelowTop DEF IsContinuation
<1>6. /\ k.args = Push(Top.args, arg) /\ k.wait = "arg"
      /\ k.min = Top.min /\ k.left = Top.left
  BY <1>1, <1>2 DEF WithArg, Continuation
<1>7. /\ IsSeq(k.args) /\ Len(k.args) = Len(Top.args) + 1
      /\ \A j \in 1..Len(Top.args) : k.args[j] = Top.args[j]
      /\ k.args[Len(Top.args) + 1] = arg /\ Len(Top.args) \in Nat
  BY <1>5, <1>6, PushLemma, StackBasics
<1>8. \A j \in 1..Len(Top.args) : ReadWell(Top.args[j])
  BY <1>3 DEF FrameReads
<1>9. ASSUME NEW j \in 1..Len(k.args) PROVE ReadWell(k.args[j])
  <2>1. j \in 1..Len(Top.args) \/ j = Len(Top.args) + 1
    BY <1>7, SMT
  <2> QED BY <1>4, <1>7, <1>8, <2>1
<1>10. Pull(k) = Pull(Top)
  BY <1>2, <1>6 DEF Pull
<1> QED BY <1>2, <1>3, <1>6, <1>7, <1>9, <1>10 DEF FrameReads

\* An element in front of a sequence.
LEMMA InFront ==
  ASSUME NEW x, NEW s, IsSeq(s)
  PROVE  /\ Len(<<x>> \o s) = Len(s) + 1 /\ (<<x>> \o s)[1] = x
         /\ \A i \in 1..Len(s) : (<<x>> \o s)[i + 1] = s[i]
<1> DEFINE S == {s[i] : i \in 1..Len(s)} \cup {x}
<1>1. s \in Seq({s[i] : i \in 1..Len(s)})
  BY DEF IsSeq
<1>2. s \in Seq(S) /\ <<x>> \in Seq(S) /\ Len(<<x>>) = 1 /\ <<x>>[1] = x
  BY <1>1, SeqMonotonic
<1> HIDE DEF S
<1> QED BY <1>2, ConcatProperties, SMT

\* The return into a suspended activation.
LEMMA ReturnReads == ASSUME IInv, MeaningInv, Return, IInv' PROVE MeaningInv'
<1>1. /\ pc = "return" /\ (stack # <<>> \/ pc' = "error") /\ UNCHANGED tokens
  BY DEF Return, ReturnPrefix, ReturnInfix, ReturnGroup, ReturnNextArg, ReturnLastArg,
         ReturnFail, Returns, Fail
<1>2. CASE pc' = "error"
  BY <1>2 DEF MeaningInv, Live
<1>3. CASE ReturnPrefix /\ pc' # "error"
  <2>1. PICK t : t = PrefixTree(Top.op, Top.start, left)
    OBVIOUS
  <2>2. /\ Settle(t, Top.depth, Nud[Top.op].builds) /\ Resume /\ index' = index
        /\ Top.wait = "prefix" /\ stack # <<>>
    BY <1>3, <2>1 DEF ReturnPrefix, Returns
  <2>3. pc' = "loop" /\ left' = t
    BY <1>3, <2>2, SettleLemma
  <2>4. HasSpan(t)
    BY <2>3 DEF IInv
  <2>5. /\ min = Nud[Top.op].right
        /\ ReadWell(left) /\ AboveLeft(left, min) /\ Yields(left, index) /\ ~NextBinds
    BY <1>1, <2>2, TopReads DEF CalleeMin
  <2>6. /\ ReadWell(t) /\ Shaped(t) /\ AboveLeft(t, Top.min)
        /\ \A p : p < min /\ BelowRight(left, p) => BelowRight(t, p)
    BY <2>1, <2>4, <2>5, PrefixMade
  <2>7. Yields(t, index)
    BY <2>5, <2>6, BrokenBelow DEF Yields
  <2> QED BY <1>1, <2>2, <2>3, <2>6, <2>7, ResumeReads
<1>4. CASE ReturnInfix /\ pc' # "error"
  <2>1. PICK t : t = InfixTree(Top.op, Top.left, left)
    OBVIOUS
  <2>2. /\ Settle(t, Top.depth, Led[Top.op].builds) /\ Resume /\ index' = index
        /\ Top.wait = "led" /\ stack # <<>>
    BY <1>4, <2>1 DEF ReturnInfix, Returns
  <2>3. pc' = "loop" /\ left' = t
    BY <1>4, <2>2, SettleLemma
  <2>4. HasSpan(t)
    BY <2>3 DEF IInv
  <2>5. /\ min = Led[Top.op].right
        /\ ReadWell(left) /\ AboveLeft(left, min) /\ Yields(left, index) /\ ~NextBinds
    BY <1>1, <2>2, TopReads DEF CalleeMin
  <2>6. /\ ReadWell(Top.left) /\ AboveLeft(Top.left, Top.min)
        /\ BelowRight(Top.left, Led[Top.op].left) /\ Led[Top.op].left >= Top.min
    BY <1>1, <2>2, TopReads DEF FrameReads, Pull
  <2>7. /\ ReadWell(t) /\ Shaped(t) /\ AboveLeft(t, Top.min)
        /\ \A p : p < min /\ BelowRight(left, p) => BelowRight(t, p)
    BY <2>1, <2>4, <2>5, <2>6, InfixMade
  <2>8. Yields(t, index)
    BY <2>5, <2>7, BrokenBelow DEF Yields
  <2> QED BY <1>1, <2>2, <2>3, <2>7, <2>8, ResumeReads
<1>5. CASE ReturnGroup
  <2>1. PICK t : t = GroupTree(left, Top.start, index)
    OBVIOUS
  <2>2. /\ left' = t /\ pc' = "loop" /\ Resume /\ Top.wait = "group" /\ stack # <<>>
    BY <1>5, <2>1 DEF ReturnGroup, Returns
  <2>3. HasSpan(t)
    BY <2>2 DEF IInv
  <2>4. /\ CalleeBegin(Top) = left.start /\ left.end = index /\ index \in Nat
        /\ Top.start \in Nat /\ Top.start + 1 = left.start
    BY <1>1, <2>2, ReturnedLemma DEF IsContinuation, CalleeBegin
  <2>5. ReadWell(left) /\ Shaped(left)
    BY <1>1, <2>2, TopReads
  <2>6. ReadWell(t) /\ Shaped(t) /\ AboveLeft(t, Top.min) /\ \A p : BelowRight(t, p)
    BY <2>1, <2>3, <2>4, <2>5, GroupMade
  <2>7. Yields(t, index')
    BY <2>6 DEF Yields
  <2> QED BY <1>1, <2>2, <2>6, <2>7, ResumeReads
<1>6. CASE ReturnNextArg
  <2>1. PICK k : k = WithArg(Top, WithTrivia(left, TriviaAt(index)))
    OBVIOUS
  <2>2. /\ Returns("arg") /\ stack' = ReplaceTop(stack, k) /\ stack # <<>>
        /\ pc' \in {"enter", "error"} /\ min' = 0
    BY <1>6, <2>1 DEF ReturnNextArg, Returns
  <2>3. FrameReads(k) /\ k.wait = "arg" /\ k.min = Top.min
    BY <2>1, <2>2, ArgReads
  <2>4. IsSeq(stack) /\ Len(stack) \in Nat \ {0}
    BY <2>2, BelowTop DEF IInv, StackOK
  <2>5. /\ Len(stack') = Len(stack)
        /\ \A i \in 1..(Len(stack) - 1) : stack'[i] = stack[i]
        /\ stack'[Len(stack)] = k
    BY <2>2, <2>4, ReplaceTopLemma
  <2>6. \A i \in 1..Len(stack) :
          Calls(stack[i], IF i = Len(stack) THEN min ELSE stack[i + 1].min)
    BY <1>1 DEF MeaningInv, Live
  <2>7. Calls(k, 0)
    BY <2>3 DEF Calls, CalleeMin
  <2>8. ASSUME NEW i \in 1..Len(stack')
        PROVE  Calls(stack'[i], IF i = Len(stack') THEN min' ELSE stack'[i + 1].min)
    <3>1. CASE i = Len(stack)
      BY <2>2, <2>5, <2>7, <3>1
    <3>2. CASE i \in 1..(Len(stack) - 1)
      <4>1. /\ i \in 1..Len(stack) /\ i # Len(stack) /\ i # Len(stack')
            /\ i + 1 \in 1..(Len(stack) - 1) \/ i + 1 = Len(stack)
        BY <2>4, <2>5, <3>2
      <4>2. Calls(stack[i], stack[i + 1].min)
        BY <2>6, <4>1
      <4>3. stack'[i + 1].min = stack[i + 1].min
        BY <2>3, <2>5, <4>1 DEF Top, TopOf
      <4> QED BY <2>5, <3>2, <4>1, <4>2, <4>3
    <3> QED BY <2>4, <2>5, <3>1, <3>2
  <2> QED BY <2>2, <2>8 DEF MeaningInv, Live
<1>7. CASE ReturnLastArg /\ pc' # "error"
  <2>1. PICK k : k = WithArg(Top, WithTrivia(left, TriviaAt(index)))
    OBVIOUS
  <2>2. PICK t : t = CallTree(k.left, k.args, index + 1)
    OBVIOUS
  <2>3. /\ Settle(t, k.depth, TRUE) /\ Resume /\ Returns("arg") /\ stack # <<>> /\ ~AtEnd
    BY <1>7, <2>1, <2>2 DEF ReturnLastArg, Returns, Sees
  <2>4. pc' = "loop" /\ left' = t
    BY <1>7, <2>3, SettleLemma
  <2>5. HasSpan(t)
    BY <2>4 DEF IInv
  <2>6. FrameReads(k) /\ k.wait = "arg" /\ k.min = Top.min /\ IsSeq(k.args)
    BY <2>1, <2>3, ArgReads
  <2>7. HasSpan(k.left)
    BY <2>1, <2>3, WithArgLemma
  <2>8. /\ ReadWell(k.left) /\ AboveLeft(k.left, Top.min)
        /\ BelowRight(k.left, CallPower) /\ CallPower >= Top.min
        /\ \A j \in 1..Len(k.args) : ReadWell(k.args[j])
    BY <2>6 DEF FrameReads, Pull
  <2>9. t.kind = "call" /\ t.kids = <<k.left>> \o k.args /\ t.start = k.left.start
    BY <2>2 DEF CallTree, Node
  <2>10. /\ Len(t.kids) = Len(k.args) + 1 /\ t.kids[1] = k.left /\ Len(k.args) \in Nat
         /\ \A i \in 1..Len(k.args) : t.kids[i + 1] = k.args[i]
    BY <2>6, <2>9, InFront, StackBasics
  <2>11. ASSUME NEW i \in 1..Len(t.kids) PROVE ReadWell(t.kids[i])
    <3>1. CASE i = 1
      BY <2>8, <2>10, <3>1
    <3>2. CASE i # 1
      <4>1. PICK j \in 1..Len(k.args) : i = j + 1
        <5>1. i - 1 \in 1..Len(k.args) /\ i = (i - 1) + 1
          BY <2>10, <3>2
        <5> QED BY <5>1
      <4> QED BY <2>8, <2>10, <4>1
    <3> QED BY <3>1, <3>2
  <2>12. Len(t.kids) \in Nat \ {0}
    BY <2>10
  <2>13. ReadWell(t) /\ Shaped(t) /\ AboveLeft(t, Top.min) /\ \A p : BelowRight(t, p)
    BY <2>5, <2>7, <2>8, <2>9, <2>10, <2>11, <2>12, CallMade
  <2>14. Yields(t, index')
    BY <2>13 DEF Yields
  <2> QED BY <1>1, <2>3, <2>4, <2>13, <2>14, ResumeReads
<1>8. CASE ReturnFail
  BY <1>2, <1>8 DEF ReturnFail, Fail
<1> QED BY <1>2, <1>3, <1>4, <1>5, <1>6, <1>7, <1>8 DEF Return

\* Every step keeps the meaning of the trees.
LEMMA NextMeaning == IInv /\ MeaningInv /\ [Next]_vars /\ IInv' => MeaningInv'
<1> SUFFICES ASSUME IInv, MeaningInv, [Next]_vars, IInv' PROVE MeaningInv'
  OBVIOUS
<1>1. CASE Start
  <2>1. /\ pc = "start" /\ pc' \in {"enter", "error"} /\ UNCHANGED <<tokens, stack, min>>
    BY <1>1 DEF Start
  <2> QED BY <2>1, StayReads
<1>2. CASE Enter
  <2>1. /\ pc = "enter" /\ pc' \in {"nud", "error"} /\ UNCHANGED <<tokens, stack, min>>
    BY <1>2 DEF Enter
  <2> QED BY <2>1, StayReads
<1>3. CASE NudStep
  BY <1>3, NudReads
<1>4. CASE Loop
  BY <1>4, LoopReads
<1>5. CASE Return
  BY <1>5, ReturnReads
<1>6. CASE Finish
  <2>1. pc = "return" /\ pc' \in {"done", "error"} /\ left' = left
    BY <1>6 DEF Finish
  <2> QED BY <2>1 DEF MeaningInv, Live
<1>7. CASE UNCHANGED vars
  <2>1. UNCHANGED <<tokens, index, stack, min, left, pc>>
    BY <1>7 DEF vars
  <2>2. /\ Live' <=> Live
        /\ NextBinds' <=> NextBinds
        /\ Yields(left, index)' <=> Yields(left, index)
    BY <2>1 DEF Live, NextBinds, AtEnd, Binds, Peek, Yields
  <2> QED BY <2>1, <2>2 DEF MeaningInv
<1> QED
  BY <1>1, <1>2, <1>3, <1>4, <1>5, <1>6, <1>7 DEF Next, Step, Halted

-----------------------------------------------------------------------------
\* The inductive invariant holds in every reachable state.
THEOREM Inductive == Spec => []IInv
<1>1. Init => IInv
  BY InitIInv
<1>2. IInv /\ [Next]_vars => IInv'
  BY NextIInv
<1> QED BY <1>1, <1>2, PTL DEF Spec

\* The parser's cursor, budget counter, frames and trees are well formed.
THEOREM TypeCorrect == Spec => []TypeOK
  BY Inductive, IInvImplies, PTL

\* parse_expr_tree never nests deeper than max_depth allows, for any table,
\* input and limits.
THEOREM RecursionIsBounded == Spec => []RecursionBounded
  BY Inductive, IInvImplies, PTL

\* The suspended and the running activations always tile the consumed input,
\* and a successful parse spans all of it.
THEOREM SpansAlwaysTile == Spec => []SpansTile
  BY Inductive, IInvImplies, PTL

\* The nodes charged to the budget are bounded by the tokens consumed.
THEOREM ChargesAreBounded == Spec => []ChargesBoundedByTokens
  BY Inductive, IInvImplies, PTL

\* The tree of a successful parse respects the precedence and associativity of
\* the operator table at every node, for any table, input and limits: what the
\* loop of parse_expr_tree compares adds up to the reading the table gives.
THEOREM PrecedenceTheorem == Spec => []PrecedenceRespected
<1>1. Init => MeaningInv
  <2> SUFFICES ASSUME Init PROVE MeaningInv
    OBVIOUS
  <2>1. pc = "start"
    BY DEF Init, Idle
  <2> QED BY <2>1 DEF MeaningInv, Live
<1>2. IInv /\ MeaningInv => PrecedenceRespected
  <2> SUFFICES ASSUME IInv, MeaningInv, pc = "done"
               PROVE  \A n \in Nodes(left) : LeftOperandOK(n) /\ RightOperandOK(n)
    BY DEF PrecedenceRespected
  <2>1. ReadWell(left)
    BY DEF MeaningInv
  <2> QED BY <2>1, ReadWellMeans
<1>3. Spec => []IInv
  BY Inductive
<1> QED BY <1>1, <1>2, <1>3, NextMeaning, PTL DEF Spec
=============================================================================
