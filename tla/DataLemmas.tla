----------------------------- MODULE DataLemmas -----------------------------
(***************************************************************************)
(* What Push, Pop and ReplaceTop do to a stack, what a function that is    *)
(* defined by recursion along 0..n computes, what the operators of module  *)
(* Lists build by such recursion, how they count and add up what sequences *)
(* hold, and which sets have a least element.                              *)
(***************************************************************************)
EXTENDS Lists, TLAPS, SequenceTheorems, FiniteSetTheorems, WellFoundedInduction

\* A stack holds its elements; the empty one has length 0, any other a top.
LEMMA StackBasics ==
  ASSUME NEW s, IsSeq(s)
  PROVE  /\ Len(s) \in Nat
         /\ s = <<>> <=> Len(s) = 0
         /\ s # <<>> => Len(s) \in 1..Len(s)
<1>1. s \in Seq({s[i] : i \in 1..Len(s)})
  BY DEF IsSeq
<1> QED BY <1>1, EmptySeq, LenProperties, SMT

\* The empty stack.
LEMMA EmptyStack == IsSeq(<<>>) /\ Len(<<>>) = 0
  BY SMT DEF IsSeq

\* Push keeps what is below and puts x on top.
LEMMA PushLemma ==
  ASSUME NEW s, IsSeq(s), NEW x
  PROVE  /\ IsSeq(Push(s, x))
         /\ Push(s, x) # <<>>
         /\ Len(Push(s, x)) = Len(s) + 1
         /\ \A i \in 1..Len(s) : Push(s, x)[i] = s[i]
         /\ Push(s, x)[Len(s) + 1] = x
<1> DEFINE S == {s[i] : i \in 1..Len(s)} \cup {x}
           t == Append(s, x)
<1>1. s \in Seq(S)
  BY SMT DEF IsSeq
<1>2. /\ t \in Seq(S) /\ t # <<>>
      /\ Len(t) = Len(s) + 1
      /\ \A i \in 1..Len(s) : t[i] = s[i]
      /\ t[Len(s) + 1] = x
  <2> HIDE DEF S, t
  <2>1. x \in S
    BY DEF S
  <2> QED BY <1>1, <2>1, AppendProperties DEF t
<1>3. t \in Seq({t[i] : i \in 1..Len(t)})
  <2> HIDE DEF S, t
  <2> QED BY <1>2, SMT
<1> QED BY <1>2, <1>3 DEF IsSeq, Push

\* Pop drops the top and keeps what is below.
LEMMA PopLemma ==
  ASSUME NEW s, IsSeq(s), s # <<>>
  PROVE  /\ IsSeq(Pop(s))
         /\ Len(s) \in Nat \ {0}
         /\ Len(Pop(s)) = Len(s) - 1
         /\ \A i \in 1..(Len(s) - 1) : Pop(s)[i] = s[i]
<1> DEFINE S == {s[i] : i \in 1..Len(s)}
           t == SubSeq(s, 1, Len(s) - 1)
<1>1. s \in Seq(S) /\ Len(s) \in Nat \ {0}
  BY EmptySeq DEF IsSeq
<1>2. \A i \in 1..(Len(s) - 1) : s[i] \in S
  BY <1>1, SMT
<1>3. /\ t \in Seq(S)
      /\ Len(t) = Len(s) - 1
      /\ \A i \in 1..(Len(s) - 1) : t[i] = s[i]
  <2> HIDE DEF S, t
  <2>1. 1 \in Int /\ Len(s) - 1 \in Int
    BY <1>1, SMT
  <2>2. /\ t \in Seq(S)
        /\ Len(t) = IF 1 <= Len(s) - 1 THEN Len(s) - 1 - 1 + 1 ELSE 0
        /\ \A i \in 1..(Len(s) - 1 - 1 + 1) : t[i] = s[1 + i - 1]
    BY <1>2, <2>1, SubSeqProperties DEF t
  <2>3. Len(t) = Len(s) - 1
    <3>1. \A n \in Nat \ {0} : (IF 1 <= n - 1 THEN n - 1 - 1 + 1 ELSE 0) = n - 1
      BY SMT
    <3> QED BY <1>1, <2>2, <3>1, Zenon
  <2>4. ASSUME NEW i \in 1..(Len(s) - 1) PROVE t[i] = s[i]
    <3>1. i \in 1..(Len(s) - 1 - 1 + 1) /\ 1 + i - 1 = i
      BY <1>1, SMT
    <3> QED BY <2>2, <3>1
  <2> QED BY <2>2, <2>3, <2>4
<1>4. t \in Seq({t[i] : i \in 1..Len(t)})
  <2> HIDE DEF S, t
  <2> QED BY <1>3, SMT
<1> QED BY <1>1, <1>3, <1>4 DEF IsSeq, Pop

\* ReplaceTop changes the top only.
LEMMA ReplaceTopLemma ==
  ASSUME NEW s, IsSeq(s), s # <<>>, NEW x
  PROVE  /\ IsSeq(ReplaceTop(s, x))
         /\ ReplaceTop(s, x) # <<>>
         /\ Len(ReplaceTop(s, x)) = Len(s)
         /\ \A i \in 1..(Len(s) - 1) : ReplaceTop(s, x)[i] = s[i]
         /\ ReplaceTop(s, x)[Len(s)] = x
<1> DEFINE S == {s[i] : i \in 1..Len(s)} \cup {x}
           t == [s EXCEPT ![Len(s)] = x]
<1>1. s \in Seq(S) /\ Len(s) \in Nat \ {0}
  BY EmptySeq, SMT DEF IsSeq
<1>2. t \in Seq(S) /\ Len(t) = Len(s)
      /\ (\A i \in 1..(Len(s) - 1) : t[i] = s[i]) /\ t[Len(s)] = x
  <2> HIDE DEF S, t
  <2>1. x \in S /\ Len(s) \in 1..Len(s)
    BY <1>1, SMT DEF S
  <2>2. /\ t \in Seq(S) /\ Len(t) = Len(s)
        /\ \A j \in 1..Len(s) : t[j] = IF j = Len(s) THEN x ELSE s[j]
    BY <1>1, <2>1, ExceptSeq DEF t
  <2> QED BY <1>1, <2>1, <2>2, SMT
<1>3. t \in Seq({t[i] : i \in 1..Len(t)})
  <2> HIDE DEF S, t
  <2> QED BY <1>2, SMT
<1>4. t # <<>>
  <2> HIDE DEF S, t
  <2> QED BY <1>1, <1>2, EmptySeq, SMT
<1> QED BY <1>2, <1>3, <1>4 DEF IsSeq, ReplaceTop

(***************************************************************************)
(* Recursion.                                                              *)
(***************************************************************************)

\* A set with 0 and the successor of each of its members holds every natural
\* number.
LEMMA SetInduction ==
  ASSUME NEW S, 0 \in S, \A n \in Nat : n \in S => n + 1 \in S
  PROVE  \A n \in Nat : n \in S
<1> DEFINE R == {ss \in Nat \X Nat : ss[1] < ss[2]}
           T == Nat \ S
<1>1. SUFFICES ASSUME T # {} PROVE FALSE
  OBVIOUS
<1>2. \A x, y \in Nat : y < x => <<y, x>> \in R
  OBVIOUS
<1>3. IsWellFoundedOn(R, Nat)
  BY NatLessThanWellFounded DEF OpToRel
<1>4. PICK x \in T : \A y \in T : ~ (<<y, x>> \in R)
  <2> HIDE DEF R
  <2>1. T \subseteq Nat
    OBVIOUS
  <2> HIDE DEF T
  <2> QED BY <1>1, <1>3, <2>1, WFMin, Zenon
<1>5. x # 0 /\ x - 1 \in Nat /\ x - 1 < x
  BY <1>4, SMT
<1>6. x - 1 \in S
  BY <1>2, <1>4, <1>5
<1> HIDE DEF R
<1> QED BY <1>4, <1>5, <1>6, SMT

\* The steps g[i] lead from X[i - 1] to X[i].
Leads(g, X, n) == \A i \in 1..n : \A y \in X[i - 1] : g[i][y] \in X[i]

\* h starts at x and takes the step g[i] at i.
Takes(h, g, x, n) ==
    /\ h = [i \in 0..n |-> h[i]]
    /\ h[0] = x
    /\ \A i \in 1..n : h[i] = g[i][h[i - 1]]

\* f and h take the same steps from the same places.
InStep(f, h, n) ==
    /\ f[0] = h[0]
    /\ \A i \in 1..n : f[i - 1] = h[i - 1] => f[i] = h[i]

\* There is a function that starts in X[0] and takes the steps g, and it stays
\* in X if the steps do.
LEMMA Iteration ==
  ASSUME NEW n \in Nat, NEW X, NEW x, x \in X[0], NEW g, Leads(g, X, n)
  PROVE  \E h : Takes(h, g, x, n) /\ \A i \in 0..n : h[i] \in X[i]
<1> DEFINE Fits(m, h) == /\ h = [i \in 0..m |-> h[i]]
                         /\ \A i \in 0..m : h[i] \in X[i]
                         /\ h[0] = x
                         /\ \A i \in 1..m : h[i] = g[i][h[i - 1]]
           S == {m \in Nat : m <= n => \E h : Fits(m, h)}
<1>1. 0 \in S
  <2> DEFINE k == [i \in 0..0 |-> x]
  <2>1. Fits(0, k)
    BY SMT
  <2> HIDE DEF k
  <2> QED BY <2>1
<1>2. ASSUME NEW m \in Nat, m \in S PROVE m + 1 \in S
  <2> SUFFICES ASSUME m + 1 <= n PROVE \E h : Fits(m + 1, h)
    OBVIOUS
  <2>1. PICK h : Fits(m, h)
    BY <1>2
  <2> DEFINE k == [i \in 0..(m + 1) |-> IF i <= m THEN h[i] ELSE g[i][h[m]]]
  <2>2. \A i \in 0..m : k[i] = h[i]
    OBVIOUS
  <2>3. k[m + 1] = g[m + 1][h[m]]
    OBVIOUS
  <2>4. k = [i \in 0..(m + 1) |-> k[i]]
    OBVIOUS
  <2> HIDE DEF k
  <2>5. g[m + 1][h[m]] \in X[m + 1]
    <3>1. m + 1 \in 1..n /\ (m + 1) - 1 = m /\ h[m] \in X[m]
      BY <2>1
    <3> QED BY <3>1 DEF Leads
  <2>6. \A i \in 0..(m + 1) : k[i] \in X[i]
    <3> SUFFICES ASSUME NEW i \in 0..(m + 1) PROVE k[i] \in X[i]
      OBVIOUS
    <3>1. CASE i = m + 1
      BY <3>1, <2>3, <2>5
    <3>2. CASE i \in 0..m
      BY <3>2, <2>1, <2>2
    <3> QED BY <3>1, <3>2
  <2>7. \A i \in 1..(m + 1) : k[i] = g[i][k[i - 1]]
    <3> SUFFICES ASSUME NEW i \in 1..(m + 1) PROVE k[i] = g[i][k[i - 1]]
      OBVIOUS
    <3>1. i - 1 \in 0..m /\ k[i - 1] = h[i - 1]
      BY <2>2
    <3>2. CASE i = m + 1
      BY <3>1, <3>2, <2>3
    <3>3. CASE i \in 1..m
      <4>1. i \in 0..m
        BY <3>3
      <4>2. h[i] = g[i][h[i - 1]]
        BY <3>3, <2>1
      <4> QED BY <3>1, <4>1, <4>2, <2>2
    <3> QED BY <3>2, <3>3
  <2>8. k[0] = x
    BY <2>1, <2>2
  <2>9. Fits(m + 1, k)
    BY <2>4, <2>6, <2>7, <2>8
  <2> QED BY <2>9
<1>3. n \in S
  <2> HIDE DEF S
  <2> QED BY <1>1, <1>2, SetInduction
<1> QED BY <1>3 DEF Takes

\* Two functions that are in step are the same.
LEMMA SameIteration ==
  ASSUME NEW n \in Nat, NEW f, NEW h, InStep(f, h, n)
  PROVE  \A i \in 0..n : f[i] = h[i]
<1> DEFINE S == {m \in Nat : m <= n => f[m] = h[m]}
<1>1. 0 \in S
  BY DEF InStep
<1>2. ASSUME NEW m \in Nat, m \in S PROVE m + 1 \in S
  <2> SUFFICES ASSUME m + 1 <= n PROVE f[m + 1] = h[m + 1]
    OBVIOUS
  <2>1. m + 1 \in 1..n /\ (m + 1) - 1 = m /\ f[m] = h[m]
    BY <1>2
  <2> QED BY <2>1 DEF InStep
<1>3. \A m \in Nat : m \in S
  <2> HIDE DEF S
  <2> QED BY <1>1, <1>2, SetInduction
<1> QED BY <1>3

(***************************************************************************)
(* What Only, Flat and Sums build.                                         *)
(***************************************************************************)

\* The recursion of Only.
Keeps(h, n, s, S) ==
  h = [i \in 0..n |-> IF i = 0 THEN <<>>
                      ELSE IF s[i] \in S THEN Append(h[i - 1], s[i]) ELSE h[i - 1]]

\* Only(s, S) is the last of what is built along s, and that is in Q[i] for the
\* first i elements if each step leads from Q[i - 1] to Q[i].
LEMMA OnlySteps ==
  ASSUME NEW s, NEW S, NEW n \in Nat, n = Len(s),
         NEW Q, <<>> \in Q[0],
         \A i \in 1..n : \A y \in Q[i - 1] : (IF s[i] \in S THEN Append(y, s[i]) ELSE y) \in Q[i]
  PROVE  \E f : Keeps(f, n, s, S) /\ Only(s, S) = f[n] /\ \A i \in 0..n : f[i] \in Q[i]
<1> DEFINE g == [i \in 1..n |-> [y \in Q[i - 1] |-> IF s[i] \in S THEN Append(y, s[i]) ELSE y]]
<1>1. PICK x : x = <<>>
  OBVIOUS
<1>2. \A i \in 1..n : \A y \in Q[i - 1] : g[i][y] = IF s[i] \in S THEN Append(y, s[i]) ELSE y
  OBVIOUS
<1> HIDE DEF g
<1>3. Leads(g, Q, n)
  BY <1>2 DEF Leads
<1>4. x \in Q[0]
  BY <1>1
<1>5. PICK h : Takes(h, g, x, n) /\ \A i \in 0..n : h[i] \in Q[i]
  BY <1>3, <1>4, Iteration
<1>6. Keeps(h, n, s, S)
  <2>1. ASSUME NEW i \in 0..n
         PROVE h[i] = IF i = 0 THEN x
                      ELSE IF s[i] \in S THEN Append(h[i - 1], s[i]) ELSE h[i - 1]
    <3>1. CASE i = 0
      BY <1>5, <3>1 DEF Takes
    <3>2. CASE i \in 1..n
      <4>1. i - 1 \in 0..n /\ i # 0
        BY <3>2
      <4>2. h[i - 1] \in Q[i - 1] /\ h[i] = g[i][h[i - 1]]
        BY <1>5, <3>2, <4>1 DEF Takes
      <4>3. g[i][h[i - 1]] = IF s[i] \in S THEN Append(h[i - 1], s[i]) ELSE h[i - 1]
        BY <1>2, <3>2, <4>2, Zenon
      <4> QED BY <4>1, <4>2, <4>3, Zenon
    <3> QED BY <3>1, <3>2
  <2>2. h = [i \in 0..n |-> h[i]]
    BY <1>5 DEF Takes
  <2> QED BY <1>1, <2>1, <2>2, Zenon DEF Keeps
<1>7. PICK f : f = CHOOSE e : e = [i \in 0..n |-> IF i = 0 THEN <<>>
                            ELSE IF s[i] \in S THEN Append(e[i - 1], s[i])
                            ELSE e[i - 1]]
  OBVIOUS
<1>8. Keeps(f, n, s, S)
  BY <1>6, <1>7 DEF Keeps
<1>9. InStep(f, h, n)
  <2>1. f[0] = h[0]
    BY <1>6, <1>8 DEF Keeps
  <2>2. ASSUME NEW i \in 1..n, f[i - 1] = h[i - 1] PROVE f[i] = h[i]
    <3>1. i \in 0..n /\ i # 0
      OBVIOUS
    <3>2. f[i] = IF s[i] \in S THEN Append(f[i - 1], s[i]) ELSE f[i - 1]
      BY <1>8, <3>1 DEF Keeps
    <3>3. h[i] = IF s[i] \in S THEN Append(h[i - 1], s[i]) ELSE h[i - 1]
      BY <1>6, <3>1 DEF Keeps
    <3> QED BY <2>2, <3>2, <3>3
  <2> QED BY <2>1, <2>2 DEF InStep
<1>10. \A i \in 0..n : f[i] = h[i]
  BY <1>9, SameIteration
<1>11. Only(s, S) = f[n]
  BY <1>7 DEF Only
<1> QED BY <1>5, <1>8, <1>10, <1>11

\* So it is in Q[Len(s)].
LEMMA OnlyIn ==
  ASSUME NEW s, NEW S, NEW n \in Nat, n = Len(s),
         NEW Q, <<>> \in Q[0],
         \A i \in 1..n : \A y \in Q[i - 1] : (IF s[i] \in S THEN Append(y, s[i]) ELSE y) \in Q[i]
  PROVE  Only(s, S) \in Q[n]
<1>1. n \in 0..n
  OBVIOUS
<1>2. \E f : Only(s, S) = f[n] /\ \A i \in 0..n : f[i] \in Q[i]
  BY OnlySteps
<1> QED BY <1>1, <1>2

\* The recursion of Flat.
Joins(h, n, ss) ==
  h = [i \in 0..n |-> IF i = 0 THEN <<>> ELSE h[i - 1] \o ss[i]]

\* Flat(ss) is the last of what is joined along ss, and that is in Q[i] for the
\* first i sequences if each step leads from Q[i - 1] to Q[i].
LEMMA FlatSteps ==
  ASSUME NEW ss, NEW n \in Nat, n = Len(ss),
         NEW Q, <<>> \in Q[0],
         \A i \in 1..n : \A y \in Q[i - 1] : (y \o ss[i]) \in Q[i]
  PROVE  \E f : Joins(f, n, ss) /\ Flat(ss) = f[n] /\ \A i \in 0..n : f[i] \in Q[i]
<1> DEFINE g == [i \in 1..n |-> [y \in Q[i - 1] |-> y \o ss[i]]]
<1>1. PICK x : x = <<>>
  OBVIOUS
<1>2. \A i \in 1..n : \A y \in Q[i - 1] : g[i][y] = y \o ss[i]
  OBVIOUS
<1> HIDE DEF g
<1>3. Leads(g, Q, n)
  BY <1>2 DEF Leads
<1>4. x \in Q[0]
  BY <1>1
<1>5. PICK h : Takes(h, g, x, n) /\ \A i \in 0..n : h[i] \in Q[i]
  BY <1>3, <1>4, Iteration
<1>6. Joins(h, n, ss)
  <2>1. ASSUME NEW i \in 0..n PROVE h[i] = IF i = 0 THEN x ELSE h[i - 1] \o ss[i]
    <3>1. CASE i = 0
      BY <1>5, <3>1 DEF Takes
    <3>2. CASE i \in 1..n
      <4>1. i - 1 \in 0..n /\ i # 0
        BY <3>2
      <4>2. h[i - 1] \in Q[i - 1] /\ h[i] = g[i][h[i - 1]]
        BY <1>5, <3>2, <4>1 DEF Takes
      <4>3. g[i][h[i - 1]] = h[i - 1] \o ss[i]
        BY <1>2, <3>2, <4>2, Zenon
      <4> QED BY <4>1, <4>2, <4>3, Zenon
    <3> QED BY <3>1, <3>2
  <2>2. h = [i \in 0..n |-> h[i]]
    BY <1>5 DEF Takes
  <2> QED BY <1>1, <2>1, <2>2, Zenon DEF Joins
<1>7. PICK f : f = CHOOSE e : e = [i \in 0..n |-> IF i = 0 THEN <<>> ELSE e[i - 1] \o ss[i]]
  OBVIOUS
<1>8. Joins(f, n, ss)
  BY <1>6, <1>7 DEF Joins
<1>9. InStep(f, h, n)
  <2>1. f[0] = h[0]
    BY <1>6, <1>8 DEF Joins
  <2>2. ASSUME NEW i \in 1..n, f[i - 1] = h[i - 1] PROVE f[i] = h[i]
    <3>1. i \in 0..n /\ i # 0
      OBVIOUS
    <3>2. f[i] = f[i - 1] \o ss[i]
      BY <1>8, <3>1 DEF Joins
    <3>3. h[i] = h[i - 1] \o ss[i]
      BY <1>6, <3>1 DEF Joins
    <3> QED BY <2>2, <3>2, <3>3
  <2> QED BY <2>1, <2>2 DEF InStep
<1>10. \A i \in 0..n : f[i] = h[i]
  BY <1>9, SameIteration
<1>11. Flat(ss) = f[n]
  BY <1>7 DEF Flat
<1> QED BY <1>5, <1>8, <1>10, <1>11

\* So it is in Q[Len(ss)].
LEMMA FlatIn ==
  ASSUME NEW ss, NEW n \in Nat, n = Len(ss),
         NEW Q, <<>> \in Q[0],
         \A i \in 1..n : \A y \in Q[i - 1] : (y \o ss[i]) \in Q[i]
  PROVE  Flat(ss) \in Q[n]
<1>1. n \in 0..n
  OBVIOUS
<1>2. \E f : Flat(ss) = f[n] /\ \A i \in 0..n : f[i] \in Q[i]
  BY FlatSteps
<1> QED BY <1>1, <1>2

\* The sums of natural numbers: each adds the next number to the one before.
LEMMA SumsSteps ==
  ASSUME NEW w \in Seq(Nat)
  PROVE  /\ Sums(w)[0] = 0 /\ Total(w) = Sums(w)[Len(w)]
         /\ \A i \in 0..Len(w) : Sums(w)[i] \in Nat
         /\ \A i \in 1..Len(w) : Sums(w)[i] = Sums(w)[i - 1] + w[i]
<1> DEFINE n == Len(w)
           Q == [i \in 0..n |-> Nat]
           g == [i \in 1..n |-> [y \in Nat |-> y + w[i]]]
<1>1. n \in Nat /\ \A i \in 1..n : w[i] \in Nat
  OBVIOUS
<1>2. \A i \in 1..n : \A y \in Nat : g[i][y] = y + w[i] /\ y + w[i] \in Nat
  BY <1>1
<1>3. \A i \in 0..n : Q[i] = Nat
  OBVIOUS
<1> HIDE DEF n, Q, g
<1>4. Leads(g, Q, n)
  <2> SUFFICES ASSUME NEW i \in 1..n, NEW y \in Q[i - 1] PROVE g[i][y] \in Q[i]
    BY DEF Leads
  <2>1. i - 1 \in 0..n /\ i \in 0..n
    BY <1>1
  <2>2. y \in Nat /\ Q[i] = Nat
    BY <1>3, <2>1, Zenon
  <2>3. g[i][y] \in Nat
    BY <1>2, <2>2
  <2> QED BY <2>2, <2>3
<1>5. 0 \in Q[0]
  BY <1>1, <1>3
<1>6. PICK h : Takes(h, g, 0, n) /\ \A i \in 0..n : h[i] \in Q[i]
  BY <1>1, <1>4, <1>5, Iteration
<1>7. h = [i \in 0..n |-> IF i = 0 THEN 0 ELSE h[i - 1] + w[i]]
  <2>1. ASSUME NEW i \in 0..n PROVE h[i] = IF i = 0 THEN 0 ELSE h[i - 1] + w[i]
    <3>1. CASE i = 0
      BY <1>6, <3>1 DEF Takes
    <3>2. CASE i \in 1..n
      <4>1. i - 1 \in 0..n /\ i # 0
        BY <1>1, <3>2
      <4>2. h[i - 1] \in Nat /\ h[i] = g[i][h[i - 1]]
        BY <1>3, <1>6, <3>2, <4>1 DEF Takes
      <4>3. g[i][h[i - 1]] = h[i - 1] + w[i]
        BY <1>2, <3>2, <4>2, Zenon
      <4> QED BY <4>1, <4>2, <4>3, Zenon
    <3> QED BY <1>1, <3>1, <3>2
  <2>2. h = [i \in 0..n |-> h[i]]
    BY <1>6 DEF Takes
  <2> QED BY <2>1, <2>2, Zenon
<1>8. PICK f : f = CHOOSE e : e = [i \in 0..n |-> IF i = 0 THEN 0 ELSE e[i - 1] + w[i]]
  OBVIOUS
<1>9. f = [i \in 0..n |-> IF i = 0 THEN 0 ELSE f[i - 1] + w[i]]
  BY <1>7, <1>8
<1>10. InStep(f, h, n)
  <2>1. f[0] = h[0]
    BY <1>1, <1>7, <1>9
  <2>2. ASSUME NEW i \in 1..n, f[i - 1] = h[i - 1] PROVE f[i] = h[i]
    <3>1. i \in 0..n /\ i # 0
      BY <1>1
    <3>2. f[i] = f[i - 1] + w[i]
      BY <1>9, <3>1
    <3>3. h[i] = h[i - 1] + w[i]
      BY <1>7, <3>1
    <3> QED BY <2>2, <3>2, <3>3
  <2> QED BY <2>1, <2>2 DEF InStep
<1>11. \A i \in 0..n : f[i] = h[i]
  BY <1>1, <1>10, SameIteration
<1>12. Sums(w) = f
  BY <1>8 DEF Sums, n
<1>13. f[0] = 0 /\ \A i \in 1..n : f[i] = f[i - 1] + w[i]
  BY <1>1, <1>9
<1>14. \A i \in 0..n : f[i] \in Nat
  BY <1>3, <1>6, <1>11
<1>15. Total(w) = f[n]
  BY <1>12 DEF Total, n
<1> QED BY <1>12, <1>13, <1>14, <1>15 DEF n

\* A sequence of numbers above 0 has a sum above 0 if it has an element.
LEMMA TotalAboveZero ==
  ASSUME NEW w \in Seq(Nat \ {0}), w # <<>>
  PROVE  Total(w) \in Nat \ {0}
<1>1. w \in Seq(Nat)
  BY Nat \ {0} \subseteq Nat, SeqMonotonic
<1>2. Len(w) \in 1..Len(w)
  BY EmptySeq
<1>3. PICK n \in 1..Len(w) : n = Len(w)
  BY <1>2
<1>4. w[n] \in Nat \ {0} /\ n - 1 \in 0..Len(w)
  OBVIOUS
<1>5. Total(w) = Sums(w)[n - 1] + w[n] /\ Sums(w)[n - 1] \in Nat
  BY <1>1, <1>3, <1>4, SumsSteps
<1> QED BY <1>4, <1>5

\* Only keeps elements of the sequence, those of the set.
LEMMA OnlyType ==
  ASSUME NEW T, NEW s \in Seq(T), NEW S
  PROVE  Only(s, S) \in Seq(T \cap S)
<1>1. PICK n \in Nat : n = Len(s)
  OBVIOUS
<1> DEFINE Q == [i \in 0..n |-> Seq(T \cap S)]
<1>2. <<>> \in Q[0]
  BY <1>1
<1>3. \A i \in 1..n : \A y \in Q[i - 1] :
        (IF s[i] \in S THEN Append(y, s[i]) ELSE y) \in Q[i]
  <2> SUFFICES ASSUME NEW i \in 1..n, NEW y \in Q[i - 1]
               PROVE  (IF s[i] \in S THEN Append(y, s[i]) ELSE y) \in Q[i]
    OBVIOUS
  <2>1. i - 1 \in 0..n /\ i \in 0..n
    BY <1>1
  <2>2. y \in Seq(T \cap S) /\ Q[i] = Seq(T \cap S)
    BY <2>1
  <2>3. s[i] \in T
    BY <1>1
  <2> HIDE DEF Q
  <2>4. CASE s[i] \in S
    <3>1. Append(y, s[i]) \in Seq(T \cap S)
      BY <2>2, <2>3, <2>4
    <3> QED BY <3>1, <2>2, <2>4
  <2> QED BY <2>2, <2>4
<1>4. n \in 0..n
  BY <1>1
<1>5. Q[n] = Seq(T \cap S)
  BY <1>4
<1> HIDE DEF Q
<1>6. Only(s, S) \in Q[n]
  BY <1>1, <1>2, <1>3, OnlyIn
<1> QED BY <1>5, <1>6

(***************************************************************************)
(* Least and greatest elements.                                            *)
(***************************************************************************)

\* A set of natural numbers with an element has a least one.
LEMMA LeastElement ==
  ASSUME NEW S, S \subseteq Nat, S # {}
  PROVE  \E j \in S : \A m \in S : j <= m
<1> DEFINE R == {ss \in Nat \X Nat : ss[1] < ss[2]}
<1>1. \A x, y \in Nat : y < x => <<y, x>> \in R
  OBVIOUS
<1>2. IsWellFoundedOn(R, Nat)
  BY NatLessThanWellFounded DEF OpToRel
<1>3. PICK x \in S : \A y \in S : ~ (<<y, x>> \in R)
  <2> HIDE DEF R
  <2> QED BY <1>2, WFMin, Zenon
<1> HIDE DEF R
<1>4. \A m \in S : x <= m
  <2> SUFFICES ASSUME NEW m \in S PROVE x <= m
    OBVIOUS
  <2>1. ~(m < x)
    BY <1>1, <1>3
  <2> QED BY <2>1
<1> QED BY <1>4

\* A set of natural numbers up to n with an element has a greatest one.
LEMMA GreatestElement ==
  ASSUME NEW n \in Nat, NEW S, S \subseteq 0..n, S # {}
  PROVE  \E i \in S : \A j \in S : j <= i
<1> DEFINE T == {k \in 0..n : n - k \in S}
<1>1. \A i \in S : i \in 0..n /\ n - i \in 0..n /\ n - (n - i) = i /\ n - i \in T
  OBVIOUS
<1>2. T \subseteq Nat /\ T # {}
  <2>1. T \subseteq Nat
    OBVIOUS
  <2> HIDE DEF T
  <2> QED BY <1>1, <2>1
<1>3. PICK k \in T : \A m \in T : k <= m
  <2> HIDE DEF T
  <2> QED BY <1>2, LeastElement
<1>4. n - k \in S /\ k \in 0..n
  OBVIOUS
<1>5. \A j \in S : j <= n - k
  BY <1>1, <1>3, <1>4
<1> QED BY <1>4, <1>5

(***************************************************************************)
(* Numbers in their order.                                                 *)
(***************************************************************************)

\* The numbers of a finite set that come behind x, if there is an x.
Above(S, i, q) == {x \in S : i = 0 \/ x > q[i]}

\* The first i numbers of S in their order.
Smallest(S, i) ==
  {q \in Seq(S) : /\ Len(q) = i
                  /\ \A j, k \in 1..i : j < k => q[j] < q[k]
                  /\ Cardinality(Above(S, i, q)) = Cardinality(S) - i}

\* The least of what is above them is the next.
LEMMA NextSmallest ==
  ASSUME NEW S, S \subseteq Nat, IsFiniteSet(S), NEW i \in 1..Cardinality(S),
         NEW q \in Smallest(S, i - 1),
         NEW x, x = CHOOSE y \in Above(S, i - 1, q) : \A z \in Above(S, i - 1, q) : y <= z
  PROVE  Append(q, x) \in Smallest(S, i)
<1> DEFINE rest == Above(S, i - 1, q)
           n == Cardinality(S)
           r == Append(q, x)
<1>1. n \in Nat /\ i \in Nat /\ i - 1 \in Nat /\ i # 0
  BY FS_CardinalityType
<1>2. /\ q \in Seq(S) /\ Len(q) = i - 1
      /\ \A j, k \in 1..(i - 1) : j < k => q[j] < q[k]
      /\ Cardinality(rest) = n - (i - 1)
  BY DEF Smallest
<1>3. rest \subseteq S /\ \A y \in S : y \in rest <=> i - 1 = 0 \/ y > q[i - 1]
  BY DEF Above
<1>4. x = CHOOSE y \in rest : \A z \in rest : y <= z
  OBVIOUS
<1>5. IsFiniteSet(rest)
  BY <1>3, FS_Subset
<1> HIDE DEF rest, n
<1>6. rest # {}
  <2>1. n - (i - 1) # 0
    BY <1>1 DEF n
  <2> QED BY <1>2, <2>1, FS_EmptySet
<1>7. \E y \in rest : \A z \in rest : y <= z
  <2>1. rest \subseteq Nat
    BY <1>3
  <2> QED BY <1>6, <2>1, LeastElement
<1>8. x \in rest /\ \A z \in rest : x <= z
  BY <1>4, <1>7
<1>9. /\ r \in Seq(S) /\ Len(r) = i
      /\ \A j \in 1..(i - 1) : r[j] = q[j]
      /\ r[i] = x
  <2>1. x \in S
    BY <1>3, <1>8
  <2> HIDE DEF r
  <2>2. /\ r \in Seq(S) /\ Len(r) = Len(q) + 1
        /\ \A j \in 1..Len(q) : r[j] = q[j]
        /\ r[Len(q) + 1] = x
    BY <1>2, <2>1, AppendProperties DEF r
  <2>3. Len(q) + 1 = i
    BY <1>1, <1>2
  <2> QED BY <1>2, <2>2, <2>3
<1> HIDE DEF r
<1>10. \A j \in 1..(i - 1) : r[j] < x
  <2> SUFFICES ASSUME NEW j \in 1..(i - 1) PROVE q[j] < x
    BY <1>9
  <2>1. i - 1 \in 1..(i - 1) /\ i - 1 # 0
    BY <1>1
  <2>2. q[i - 1] < x
    BY <1>3, <1>8, <2>1
  <2>3. q[j] \in S /\ q[i - 1] \in S
    BY <1>2, <2>1, ElementOfSeq
  <2>4. j = i - 1 \/ q[j] < q[i - 1]
    BY <1>1, <1>2, <2>1
  <2>5. q[j] \in Nat /\ q[i - 1] \in Nat /\ x \in Nat
    BY <1>3, <1>8, <2>3
  <2> QED BY <2>2, <2>4, <2>5
<1>11. \A j, k \in 1..i : j < k => r[j] < r[k]
  <2> SUFFICES ASSUME NEW j \in 1..i, NEW k \in 1..i, j < k PROVE r[j] < r[k]
    OBVIOUS
  <2>1. j \in 1..(i - 1)
    BY <1>1
  <2>2. k = i \/ k \in 1..(i - 1)
    BY <1>1
  <2> QED BY <1>2, <1>9, <1>10, <2>1, <2>2
<1>12. Above(S, i, r) = rest \ {x}
  <2>1. \A y \in S : y \in Above(S, i, r) <=> y > x
    BY <1>1, <1>9 DEF Above
  <2>2. Above(S, i, r) \subseteq S
    BY DEF Above
  <2>3. ASSUME NEW y \in S PROVE y > x <=> y \in rest /\ y # x
    <3>1. y \in Nat /\ x \in Nat
      BY <1>3, <1>8
    <3>2. ASSUME y > x PROVE y \in rest
      <4>1. CASE i - 1 = 0
        BY <1>3, <4>1
      <4>2. CASE i - 1 # 0
        <5>1. q[i - 1] \in S /\ x > q[i - 1]
          <6>1. i - 1 \in 1..(i - 1)
            BY <1>1, <4>2
          <6> QED BY <1>2, <1>3, <1>8, <4>2, <6>1, ElementOfSeq
        <5>2. q[i - 1] \in Nat
          BY <5>1
        <5>3. y > q[i - 1]
          BY <3>1, <3>2, <5>1, <5>2
        <5> QED BY <1>3, <5>3
      <4> QED BY <4>1, <4>2
    <3>3. ASSUME y \in rest, y # x PROVE y > x
      <4>1. x <= y
        BY <1>8, <3>3
      <4> QED BY <3>1, <3>3, <4>1
    <3>4. y > x => y # x
      <4>1. \A a \in Nat : ~(a > a)
        OBVIOUS
      <4> QED BY <3>1, <4>1
    <3> QED BY <3>2, <3>3, <3>4
  <2> QED BY <1>3, <1>8, <2>1, <2>2, <2>3
<1>13. Cardinality(Above(S, i, r)) = n - i
  <2>1. Cardinality(rest \ {x}) = Cardinality(rest) - 1
    BY <1>5, <1>8, FS_RemoveElement
  <2> QED BY <1>1, <1>2, <1>12, <2>1
<1> QED BY <1>9, <1>11, <1>13 DEF Smallest, r, n

\* Ascending(S) is the numbers of S, each once, in their order.
LEMMA AscendingHolds ==
  ASSUME NEW S, S \subseteq Nat, IsFiniteSet(S)
  PROVE  /\ Ascending(S) \in Seq(S) /\ Len(Ascending(S)) = Cardinality(S)
         /\ \A j, k \in 1..Len(Ascending(S)) : j < k => Ascending(S)[j] < Ascending(S)[k]
         /\ \A x \in S : \E j \in 1..Len(Ascending(S)) : Ascending(S)[j] = x
<1>1. PICK n : n = Cardinality(S) /\ n \in Nat
  BY FS_CardinalityType
<1> DEFINE Rest(i, q) == {x \in S : i = 1 \/ x > TopOf(q)}
           Next1(i, q) == Append(q, CHOOSE x \in Rest(i, q) : \A y \in Rest(i, q) : x <= y)
           Q == [i \in 0..n |-> Smallest(S, i)]
           g == [i \in 1..n |-> [q \in Smallest(S, i - 1) |-> Next1(i, q)]]
<1>2. \A i \in 0..n : Q[i] = Smallest(S, i)
  OBVIOUS
<1>3. \A i \in 1..n : \A q \in Smallest(S, i - 1) : g[i][q] = Next1(i, q)
  OBVIOUS
<1>4. ASSUME NEW i \in 1..n, NEW q \in Smallest(S, i - 1) PROVE Next1(i, q) \in Smallest(S, i)
  <2>1. Rest(i, q) = Above(S, i - 1, q)
    <3>1. Len(q) = i - 1 /\ (i = 1 <=> i - 1 = 0)
      BY DEF Smallest
    <3> QED BY <3>1 DEF Above, TopOf
  <2>2. PICK x : x = CHOOSE y \in Above(S, i - 1, q) : \A z \in Above(S, i - 1, q) : y <= z
    OBVIOUS
  <2>3. Append(q, x) \in Smallest(S, i)
    BY <1>1, <2>2, NextSmallest
  <2>4. Next1(i, q) = Append(q, x)
    BY <2>1, <2>2
  <2> QED BY <2>3, <2>4
<1>5. <<>> \in Smallest(S, 0)
  <2>1. Above(S, 0, <<>>) = S
    BY DEF Above
  <2>2. Cardinality(S) - 0 = Cardinality(S)
    BY <1>1
  <2> QED BY <2>1, <2>2, EmptySeq DEF Smallest
<1>6. PICK f : f = CHOOSE e : e = [i \in 0..n |-> IF i = 0 THEN <<>> ELSE Next1(i, e[i - 1])]
  OBVIOUS
<1>7. Ascending(S) = f[n]
  BY <1>1, <1>6 DEF Ascending
<1> HIDE DEF g, Q, Next1
<1>8. Leads(g, Q, n)
  <2> SUFFICES ASSUME NEW i \in 1..n, NEW q \in Q[i - 1] PROVE g[i][q] \in Q[i]
    BY DEF Leads
  <2>1. i \in 0..n /\ i - 1 \in 0..n
    BY <1>1
  <2> QED BY <1>2, <1>3, <1>4, <2>1
<1>9. PICK x : x = <<>>
  OBVIOUS
<1>10. x \in Q[0]
  <2>1. 0 \in 0..n
    BY <1>1
  <2> QED BY <1>2, <1>5, <1>9, <2>1
<1>11. PICK h : Takes(h, g, x, n) /\ \A i \in 0..n : h[i] \in Q[i]
  BY <1>1, <1>8, <1>10, Iteration
<1>12. \A i \in 0..n : h[i] = IF i = 0 THEN <<>> ELSE Next1(i, h[i - 1])
  <2> SUFFICES ASSUME NEW i \in 0..n PROVE h[i] = IF i = 0 THEN x ELSE Next1(i, h[i - 1])
    BY <1>9
  <2>1. CASE i = 0
    BY <1>11, <2>1 DEF Takes
  <2>2. CASE i \in 1..n
    <3>1. i - 1 \in 0..n /\ i # 0
      BY <1>1, <2>2
    <3>2. h[i - 1] \in Smallest(S, i - 1) /\ h[i] = g[i][h[i - 1]]
      BY <1>2, <1>11, <2>2, <3>1 DEF Takes
    <3>3. g[i][h[i - 1]] = Next1(i, h[i - 1])
      BY <1>3, <2>2, <3>2
    <3> QED BY <3>1, <3>2, <3>3
  <2> QED BY <1>1, <2>1, <2>2
<1>13. h = [i \in 0..n |-> IF i = 0 THEN <<>> ELSE Next1(i, h[i - 1])]
  <2>1. h = [i \in 0..n |-> h[i]]
    BY <1>11 DEF Takes
  <2> QED BY <1>12, <2>1
<1>14. f = [i \in 0..n |-> IF i = 0 THEN <<>> ELSE Next1(i, f[i - 1])]
  BY <1>6, <1>13
<1>15. InStep(f, h, n)
  <2>1. 0 \in 0..n /\ \A i \in 1..n : i \in 0..n /\ i # 0
    BY <1>1
  <2>2. \A i \in 0..n : f[i] = IF i = 0 THEN <<>> ELSE Next1(i, f[i - 1])
    BY <1>14
  <2>3. f[0] = h[0]
    BY <1>12, <2>1, <2>2
  <2>4. ASSUME NEW i \in 1..n, f[i - 1] = h[i - 1] PROVE f[i] = h[i]
    <3>1. f[i] = Next1(i, f[i - 1]) /\ h[i] = Next1(i, h[i - 1])
      BY <1>12, <2>1, <2>2
    <3> QED BY <2>4, <3>1
  <2> QED BY <2>3, <2>4 DEF InStep
<1>16. f[n] \in Smallest(S, n)
  <2>1. n \in 0..n
    BY <1>1
  <2>2. f[n] = h[n]
    BY <1>1, <1>15, <2>1, SameIteration
  <2> QED BY <1>2, <1>11, <2>1, <2>2
<1> DEFINE a == Ascending(S)
<1>17. a \in Seq(S) /\ Len(a) = n /\ \A j, k \in 1..n : j < k => a[j] < a[k]
  BY <1>7, <1>16 DEF Smallest
<1> HIDE DEF a
<1>18. \A y \in S : \E j \in 1..n : a[j] = y
  <2>1. a \in [1..n -> S]
    BY <1>17, LenProperties
  <2>2. \A j, k \in 1..n : a[j] = a[k] => j = k
    <3> SUFFICES ASSUME NEW j \in 1..n, NEW k \in 1..n, a[j] = a[k], j # k PROVE FALSE
      OBVIOUS
    <3>1. a[j] \in Nat /\ a[k] \in Nat
      BY <2>1
    <3>2. j < k \/ k < j
      OBVIOUS
    <3> QED BY <1>17, <3>1, <3>2
  <2>3. a \in Injection(1..n, S)
    BY <2>1, <2>2 DEF Injection, IsInjective
  <2>4. IsFiniteSet(1..n) /\ Cardinality(1..n) = n
    BY <1>1, FS_Interval
  <2>5. a \in Surjection(1..n, S)
    BY <1>1, <2>3, <2>4, FS_Injection
  <2> QED BY <2>5 DEF Surjection
<1> QED BY <1>1, <1>17, <1>18 DEF a

(***************************************************************************)
(* Sequences that are built alike.                                         *)
(***************************************************************************)

\* A sequence over a set is a sequence of its own elements.
LEMMA SeqIsSeq ==
  ASSUME NEW S, NEW s \in Seq(S)
  PROVE  IsSeq(s)
<1> DEFINE T == {s[i] : i \in 1..Len(s)}
<1>1. DOMAIN s = 1..Len(s) /\ Len(s) \in Nat
  BY LenProperties
<1>2. \A i \in 1..Len(s) : s[i] \in T
  OBVIOUS
<1>3. IsSeq(s) <=> s \in Seq(T)
  BY DEF IsSeq
<1> HIDE DEF T
<1> QED BY <1>1, <1>2, <1>3

\* A function on 1..n is a sequence.
LEMMA FunSeq ==
  ASSUME NEW n \in Nat, NEW f, f = [i \in 1..n |-> f[i]]
  PROVE  IsSeq(f) /\ Len(f) = n /\ DOMAIN f = 1..n
<1> DEFINE S == {f[i] : i \in 1..n}
<1>1. \A i \in 1..n : f[i] \in S
  OBVIOUS
<1> HIDE DEF S
<1>2. f \in [1..n -> S]
  BY <1>1
<1>3. f \in Seq(S)
  BY <1>2
<1>4. DOMAIN f = 1..n
  BY <1>2
<1>5. Len(f) = n
  BY <1>3, <1>4, LenProperties
<1> QED BY <1>3, <1>4, <1>5, SeqIsSeq

\* Sequences that hold the same where they hold anything to be kept.
LEMMA OnlySame ==
  ASSUME NEW S, NEW T, NEW U, NEW s \in Seq(U), NEW t \in Seq(U), Len(s) = Len(t),
         \A i \in 1..Len(s) : (s[i] \in S <=> t[i] \in T) /\ (s[i] \in S => s[i] = t[i])
  PROVE  Only(s, S) = Only(t, T)
<1>1. PICK n \in Nat : n = Len(s) /\ n = Len(t)
  OBVIOUS
<1> DEFINE Q == [i \in 0..n |-> Seq(U)]
<1>2. \A i \in 0..n : Q[i] = Seq(U)
  OBVIOUS
<1>3. \A i \in 1..n : i \in 0..n /\ i - 1 \in 0..n /\ i # 0 /\ s[i] \in U /\ t[i] \in U
  BY <1>1, ElementOfSeq
<1> HIDE DEF Q
<1>4. <<>> \in Q[0]
  BY <1>2, EmptySeq, 0 \in 0..n
<1>5. \A i \in 1..n : \A y \in Q[i - 1] : (IF s[i] \in S THEN Append(y, s[i]) ELSE y) \in Q[i]
  <2> SUFFICES ASSUME NEW i \in 1..n, NEW y \in Seq(U) PROVE Append(y, s[i]) \in Seq(U)
    BY <1>2, <1>3
  <2> QED BY <1>3, AppendProperties
<1>6. \A i \in 1..n : \A y \in Q[i - 1] : (IF t[i] \in T THEN Append(y, t[i]) ELSE y) \in Q[i]
  <2> SUFFICES ASSUME NEW i \in 1..n, NEW y \in Seq(U) PROVE Append(y, t[i]) \in Seq(U)
    BY <1>2, <1>3
  <2> QED BY <1>3, AppendProperties
<1>7. PICK f : Keeps(f, n, s, S) /\ Only(s, S) = f[n]
  BY <1>1, <1>4, <1>5, OnlySteps
<1>8. PICK h : Keeps(h, n, t, T) /\ Only(t, T) = h[n]
  BY <1>1, <1>4, <1>6, OnlySteps
<1>9. InStep(f, h, n)
  <2>1. f[0] = h[0]
    BY <1>7, <1>8 DEF Keeps
  <2>2. ASSUME NEW i \in 1..n, f[i - 1] = h[i - 1] PROVE f[i] = h[i]
    <3>1. f[i] = IF s[i] \in S THEN Append(f[i - 1], s[i]) ELSE f[i - 1]
      BY <1>3, <1>7 DEF Keeps
    <3>2. h[i] = IF t[i] \in T THEN Append(h[i - 1], t[i]) ELSE h[i - 1]
      BY <1>3, <1>8 DEF Keeps
    <3> QED BY <1>1, <2>2, <3>1, <3>2
  <2> QED BY <2>1, <2>2 DEF InStep
<1> QED BY <1>7, <1>8, <1>9, SameIteration

\* One sequence behind another.
Followed(s, t) == s \o t

\* Three sequences, one behind the other.
LEMMA FollowedLemma ==
  ASSUME NEW S, NEW s \in Seq(S), NEW t \in Seq(S), NEW u \in Seq(S)
  PROVE  Followed(s, t) \in Seq(S) /\ Followed(Followed(s, t), u) = Followed(s, Followed(t, u))
BY ConcatAssociative, ConcatProperties DEF Followed

\* Lists of n sequences over S that are the same before place i, where the
\* second goes on with t, and of which the first has nothing behind i.
Overtakes(tt, ss, S, n, i, t) ==
    /\ Len(ss) = n /\ Len(tt) = n
    /\ \A j \in 1..n : ss[j] \in Seq(S) /\ tt[j] \in Seq(S)
    /\ tt[i] = ss[i] \o t
    /\ \A j \in 1..n : (j < i => ss[j] = tt[j]) /\ (j > i => ss[j] = <<>>)

\* What the two join begins alike, and if the second has nothing behind i
\* either, t is the rest.
GoesOn(tt, ss, S, n, i, t) ==
    \E u \in Seq(S) : /\ Flat(tt) = Flat(ss) \o u
                      /\ (\A j \in 1..n : j > i => tt[j] = <<>>) => u = t

\* A sequence of which one element grew, all behind it empty, is joined to more.
LEMMA FlatFollows ==
  ASSUME NEW S, NEW n \in Nat, NEW ss, NEW tt, NEW i \in 1..n, NEW t \in Seq(S),
         Overtakes(tt, ss, S, n, i, t)
  PROVE  GoesOn(tt, ss, S, n, i, t)
<1> DEFINE Q == [j \in 0..n |-> Seq(S)]
<1>1. \A j \in 0..n : Q[j] = Seq(S)
  OBVIOUS
<1> HIDE DEF Q
<1>2. <<>> \in Q[0]
  BY <1>1, EmptySeq, 0 \in 0..n
<1>3. \A j \in 1..n : j \in 0..n /\ j - 1 \in 0..n /\ j # 0
  OBVIOUS
<1>4. \A j \in 1..n : \A y \in Q[j - 1] : (y \o ss[j]) \in Q[j] /\ (y \o tt[j]) \in Q[j]
  <2> SUFFICES ASSUME NEW j \in 1..n, NEW y \in Seq(S)
               PROVE  (y \o ss[j]) \in Seq(S) /\ (y \o tt[j]) \in Seq(S)
    BY <1>1, <1>3
  <2>1. ss[j] \in Seq(S) /\ tt[j] \in Seq(S)
    BY DEF Overtakes
  <2> QED BY <2>1, ConcatProperties
<1>a. n = Len(ss) /\ n = Len(tt)
  BY DEF Overtakes
<1>5. PICK f : Joins(f, n, ss) /\ Flat(ss) = f[n] /\ \A j \in 0..n : f[j] \in Q[j]
  BY <1>2, <1>4, <1>a, FlatSteps
<1>6. PICK h : Joins(h, n, tt) /\ Flat(tt) = h[n] /\ \A j \in 0..n : h[j] \in Q[j]
  BY <1>2, <1>4, <1>a, FlatSteps
<1>7. \A j \in 1..n : f[j] = f[j - 1] \o ss[j] /\ h[j] = h[j - 1] \o tt[j]
  BY <1>3, <1>5, <1>6 DEF Joins
<1>8. \A j \in 0..n : f[j] \in Seq(S) /\ h[j] \in Seq(S)
  BY <1>1, <1>5, <1>6
<1>9. f[i - 1] = h[i - 1]
  <2>1. InStep(f, h, i - 1)
    <3>1. f[0] = h[0]
      BY <1>5, <1>6 DEF Joins
    <3>2. \A j \in 1..(i - 1) : j \in 1..n /\ j < i
      OBVIOUS
    <3>3. \A j \in 1..(i - 1) : f[j - 1] = h[j - 1] => f[j] = h[j]
      BY <1>7, <3>2 DEF Overtakes
    <3> QED BY <3>1, <3>3 DEF InStep
  <2>2. i - 1 \in Nat /\ i - 1 \in 0..(i - 1)
    OBVIOUS
  <2> QED BY <2>1, <2>2, SameIteration
<1> DEFINE Bare(m) == \A j \in 1..n : j > i /\ j <= m => tt[j] = <<>>
           Follows(m, u) == h[m] = f[m] \o u /\ (Bare(m) => u = t)
           R == {m \in Nat : i <= m /\ m <= n => \E u \in Seq(S) : Follows(m, u)}
<1>10. ASSUME NEW m \in Nat, i <= m + 1, m + 1 <= n,
              i <= m /\ m <= n => \E u \in Seq(S) : Follows(m, u)
       PROVE  \E u \in Seq(S) : Follows(m + 1, u)
  <2> HIDE DEF Bare, Follows
  <2>1. m + 1 \in 1..n /\ (m + 1) - 1 = m /\ m \in 0..n
    BY <1>10
  <2>2. f[m + 1] = f[m] \o ss[m + 1] /\ h[m + 1] = h[m] \o tt[m + 1]
    BY <1>7, <2>1
  <2>t. f[m] \in Seq(S) /\ h[m] \in Seq(S) /\ ss[m + 1] \in Seq(S) /\ tt[m + 1] \in Seq(S)
    BY <1>8, <2>1 DEF Overtakes
  <2>3. CASE m + 1 = i
    <3>1. f[m] = h[m] /\ tt[m + 1] = ss[m + 1] \o t
      BY <1>9, <2>1, <2>3 DEF Overtakes
    <3>a. Followed(Followed(f[m], ss[m + 1]), t) = Followed(f[m], Followed(ss[m + 1], t))
      <4>1. PICK x, y : x = f[m] /\ y = ss[m + 1]
        OBVIOUS
      <4>2. x \in Seq(S) /\ y \in Seq(S)
        BY <2>t, <4>1, Zenon
      <4>3. Followed(Followed(x, y), t) = Followed(x, Followed(y, t))
        BY <4>2, FollowedLemma
      <4> QED BY <4>1, <4>3, Zenon
    <3>2. h[m + 1] = f[m + 1] \o t
      BY <2>2, <3>1, <3>a, Zenon DEF Followed
    <3> QED BY <3>2 DEF Follows
  <2>4. CASE i <= m
    <3>1. PICK u \in Seq(S) : Follows(m, u)
      BY <1>10, <2>1, <2>4
    <3>2. ss[m + 1] = <<>>
      BY <2>1, <2>4 DEF Overtakes
    <3>3. f[m + 1] = f[m]
      BY <2>2, <2>t, <3>2, ConcatEmptySeq
    <3>a. h[m] = f[m] \o u /\ (Bare(m) => u = t)
      BY <3>1 DEF Follows
    <3>b. /\ Followed(Followed(f[m], u), tt[m + 1]) = Followed(f[m], Followed(u, tt[m + 1]))
          /\ Followed(u, tt[m + 1]) \in Seq(S)
      <4>1. PICK x, y : x = f[m] /\ y = tt[m + 1]
        OBVIOUS
      <4>2. x \in Seq(S) /\ y \in Seq(S)
        BY <2>t, <4>1, Zenon
      <4>3. Followed(Followed(x, u), y) = Followed(x, Followed(u, y)) /\ Followed(u, y) \in Seq(S)
        BY <4>2, FollowedLemma
      <4> QED BY <4>1, <4>3, Zenon
    <3>4. h[m + 1] = f[m] \o (u \o tt[m + 1]) /\ (u \o tt[m + 1]) \in Seq(S)
      BY <2>2, <3>a, <3>b, Zenon DEF Followed
    <3>5. Bare(m + 1) => Bare(m) /\ tt[m + 1] = <<>>
      BY <2>1, <2>4 DEF Bare
    <3>6. Bare(m + 1) => u \o tt[m + 1] = t
      BY <3>a, <3>5, ConcatEmptySeq
    <3>7. Follows(m + 1, u \o tt[m + 1])
      BY <3>3, <3>4, <3>6 DEF Follows
    <3> QED BY <3>4, <3>7
  <2> QED BY <1>10, <2>3, <2>4
<1>11. \E u \in Seq(S) : Follows(n, u)
  <2> HIDE DEF Follows
  <2>1. 0 \in R
    OBVIOUS
  <2>2. \A m \in Nat : m \in R => m + 1 \in R
    BY <1>10
  <2>3. n \in R
    <3> HIDE DEF R
    <3> QED BY <2>1, <2>2, SetInduction
  <2> QED BY <2>3
<1>12. (\A j \in 1..n : j > i => tt[j] = <<>>) => Bare(n)
  OBVIOUS
<1> HIDE DEF Bare
<1> QED BY <1>5, <1>6, <1>11, <1>12 DEF GoesOn

\* The numbers from 1 to n in their order.
LEMMA AscendingCounts ==
  ASSUME NEW n \in Nat
  PROVE  Len(Ascending(1..n)) = n /\ \A j \in 1..n : Ascending(1..n)[j] = j
<1>1. IsFiniteSet(1..n) /\ Cardinality(1..n) = n
  BY FS_Interval
<1>2. PICK S : S = 1..n
  OBVIOUS
<1>a. S \subseteq Nat /\ IsFiniteSet(S) /\ Cardinality(S) = n
  BY <1>1, <1>2
<1>3. PICK a : a = Ascending(S)
  OBVIOUS
<1>4. /\ a \in Seq(S) /\ Len(a) = n
      /\ \A j, k \in 1..n : j < k => a[j] < a[k]
      /\ \A x \in S : \E j \in 1..n : a[j] = x
  BY <1>a, <1>3, AscendingHolds
<1>5. \A j \in 1..n : a[j] \in 1..n
  BY <1>2, <1>4, ElementOfSeq
<1> DEFINE R == {m \in Nat : \A k \in 1..n : k <= m => a[k] = k}
<1>6. 0 \in R
  OBVIOUS
<1>7. ASSUME NEW m \in Nat, m \in R PROVE m + 1 \in R
  <2> SUFFICES ASSUME m + 1 \in 1..n PROVE a[m + 1] = m + 1
    BY <1>7
  <2>1. PICK j \in 1..n : a[j] = m + 1
    BY <1>2, <1>4
  <2>2. ~(j <= m)
    BY <1>7, <2>1
  <2>3. CASE j > m + 1
    <3>1. a[m + 1] < m + 1
      BY <1>4, <2>1, <2>3
    <3>2. PICK k \in 1..m : k = a[m + 1]
      BY <1>5, <3>1
    <3>3. k \in 1..n /\ a[k] = k /\ k < m + 1
      BY <1>7, <3>2
    <3>4. a[k] < a[m + 1]
      BY <1>4, <3>3
    <3> QED BY <3>2, <3>3, <3>4
  <2> QED BY <2>1, <2>2, <2>3
<1>8. n \in R
  <2> HIDE DEF R
  <2> QED BY <1>6, <1>7, SetInduction
<1> QED BY <1>2, <1>3, <1>4, <1>8

\* A sequence is divided into the elements in A and those in B.
LEMMA OnlyParts ==
  ASSUME NEW T, NEW s \in Seq(T), NEW A, NEW B, NEW C,
         \A i \in 1..Len(s) : (s[i] \in C <=> (s[i] \in A \/ s[i] \in B)) /\ ~(s[i] \in A /\ s[i] \in B)
  PROVE  /\ Len(Only(s, A)) \in Nat /\ Len(Only(s, B)) \in Nat
         /\ Len(Only(s, C)) = Len(Only(s, A)) + Len(Only(s, B))
<1>1. PICK n \in Nat : n = Len(s)
  OBVIOUS
<1> DEFINE Q == [i \in 0..n |-> Seq(T)]
           Counts(l, S) == /\ l[0] = 0
                           /\ \A i \in 1..n : l[i] = IF s[i] \in S THEN l[i - 1] + 1 ELSE l[i - 1]
                           /\ \A i \in 0..n : l[i] \in Nat
<1>2. \A i \in 0..n : Q[i] = Seq(T)
  OBVIOUS
<1>3. \A i \in 1..n : i \in 0..n /\ i - 1 \in 0..n /\ i # 0 /\ s[i] \in T
  BY <1>1, ElementOfSeq
<1> HIDE DEF Q
<1>4. <<>> \in Q[0]
  BY <1>2, EmptySeq, 0 \in 0..n
<1>5. ASSUME NEW S
      PROVE  \E l : Counts(l, S) /\ Len(Only(s, S)) = l[n]
  <2>1. \A i \in 1..n : \A y \in Q[i - 1] : (IF s[i] \in S THEN Append(y, s[i]) ELSE y) \in Q[i]
    <3> SUFFICES ASSUME NEW i \in 1..n, NEW y \in Q[i - 1]
                 PROVE  (IF s[i] \in S THEN Append(y, s[i]) ELSE y) \in Q[i]
      OBVIOUS
    <3>1. y \in Seq(T) /\ s[i] \in T /\ Q[i] = Seq(T)
      BY <1>2, <1>3
    <3>2. Append(y, s[i]) \in Seq(T)
      BY <3>1
    <3> QED BY <3>1, <3>2
  <2>2. PICK f : Keeps(f, n, s, S) /\ Only(s, S) = f[n] /\ \A i \in 0..n : f[i] \in Q[i]
    BY <1>1, <1>4, <2>1, OnlySteps
  <2>3. \A i \in 0..n : f[i] = IF i = 0 THEN <<>>
                               ELSE IF s[i] \in S THEN Append(f[i - 1], s[i]) ELSE f[i - 1]
    BY <2>2 DEF Keeps
  <2> DEFINE l == [i \in 0..n |-> Len(f[i])]
  <2>4. l[0] = 0
    <3>1. f[0] = <<>>
      BY <2>3, 0 \in 0..n
    <3>2. l[0] = Len(f[0])
      BY 0 \in 0..n
    <3> HIDE DEF l
    <3> QED BY <3>1, <3>2
  <2>5. \A i \in 1..n : l[i] = IF s[i] \in S THEN l[i - 1] + 1 ELSE l[i - 1]
    <3> SUFFICES ASSUME NEW i \in 1..n
                 PROVE  l[i] = IF s[i] \in S THEN l[i - 1] + 1 ELSE l[i - 1]
      OBVIOUS
    <3>1. l[i] = Len(f[i]) /\ l[i - 1] = Len(f[i - 1]) /\ f[i - 1] \in Seq(T) /\ s[i] \in T
      BY <1>2, <1>3, <2>2
    <3>2. f[i] = IF s[i] \in S THEN Append(f[i - 1], s[i]) ELSE f[i - 1]
      BY <1>3, <2>3
    <3>3. PICK y, x : y = f[i - 1] /\ x = s[i]
      OBVIOUS
    <3>4. Len(Append(y, x)) = Len(y) + 1
      BY <3>1, <3>3
    <3> HIDE DEF l
    <3> QED BY <3>1, <3>2, <3>3, <3>4
  <2>6. \A i \in 0..n : l[i] \in Nat
    <3>1. \A i \in 0..n : l[i] = Len(f[i]) /\ f[i] \in Seq(T)
      BY <1>2, <2>2
    <3> HIDE DEF l
    <3> QED BY <3>1
  <2>7. Len(Only(s, S)) = l[n]
    BY <2>2, n \in 0..n
  <2> HIDE DEF l
  <2> QED BY <2>4, <2>5, <2>6, <2>7
<1>6. PICK a : Counts(a, A) /\ Len(Only(s, A)) = a[n]
  BY <1>5
<1>7. PICK b : Counts(b, B) /\ Len(Only(s, B)) = b[n]
  BY <1>5
<1>8. PICK c : Counts(c, C) /\ Len(Only(s, C)) = c[n]
  BY <1>5
<1> DEFINE S == {m \in Nat : m <= n => c[m] = a[m] + b[m]}
<1>9. 0 \in S
  BY <1>6, <1>7, <1>8
<1>10. ASSUME NEW m \in Nat, m \in S PROVE m + 1 \in S
  <2>1. ASSUME m + 1 <= n PROVE c[m + 1] = a[m + 1] + b[m + 1]
    <3>1. m + 1 \in 1..n /\ (m + 1) - 1 = m /\ m \in 0..n
      BY <2>1
    <3>2. c[m] = a[m] + b[m] /\ a[m] \in Nat /\ b[m] \in Nat
      BY <1>6, <1>7, <1>10, <3>1
    <3>3. /\ a[m + 1] = IF s[m + 1] \in A THEN a[m] + 1 ELSE a[m]
          /\ b[m + 1] = IF s[m + 1] \in B THEN b[m] + 1 ELSE b[m]
          /\ c[m + 1] = IF s[m + 1] \in C THEN c[m] + 1 ELSE c[m]
      BY <1>6, <1>7, <1>8, <3>1
    <3>4. /\ s[m + 1] \in C <=> (s[m + 1] \in A \/ s[m + 1] \in B)
          /\ ~(s[m + 1] \in A /\ s[m + 1] \in B)
      BY <1>1, <3>1
    <3> QED BY <3>2, <3>3, <3>4
  <2> QED BY <2>1
<1>11. \A m \in Nat : m \in S
  <2> HIDE DEF S
  <2> QED BY <1>9, <1>10, SetInduction
<1>12. c[n] = a[n] + b[n] /\ a[n] \in Nat /\ b[n] \in Nat
  BY <1>6, <1>7, <1>11, n \in 0..n
<1> QED BY <1>6, <1>7, <1>8, <1>12

\* Sums are the same as far as the numbers are.
LEMMA SumsPrefix ==
  ASSUME NEW w \in Seq(Nat), NEW v \in Seq(Nat), NEW n \in Nat, n <= Len(w), n <= Len(v),
         \A i \in 1..n : w[i] = v[i]
  PROVE  Sums(w)[n] = Sums(v)[n]
<1> DEFINE S == {m \in Nat : m <= n => Sums(w)[m] = Sums(v)[m]}
<1>1. 0 \in S
  BY SumsSteps
<1>2. ASSUME NEW m \in Nat, m \in S PROVE m + 1 \in S
  <2> SUFFICES ASSUME m + 1 <= n PROVE Sums(w)[m + 1] = Sums(v)[m + 1]
    OBVIOUS
  <2>1. m + 1 \in 1..n /\ m + 1 \in 1..Len(w) /\ m + 1 \in 1..Len(v) /\ (m + 1) - 1 = m
    OBVIOUS
  <2>2. Sums(w)[m] = Sums(v)[m] /\ w[m + 1] = v[m + 1]
    BY <1>2, <2>1
  <2>3. Sums(w)[m + 1] = Sums(w)[m] + w[m + 1]
    BY <2>1, SumsSteps
  <2>4. Sums(v)[m + 1] = Sums(v)[m] + v[m + 1]
    BY <2>1, SumsSteps
  <2> QED BY <2>2, <2>3, <2>4
<1>3. \A m \in Nat : m \in S
  <2> HIDE DEF S
  <2> QED BY <1>1, <1>2, SetInduction
<1> QED BY <1>3

\* The total of two sequences of numbers, one behind the other.
LEMMA TotalJoin ==
  ASSUME NEW w \in Seq(Nat), NEW v \in Seq(Nat)
  PROVE  Total(w \o v) = Total(w) + Total(v)
<1>1. PICK m \in Nat, k \in Nat : m = Len(w) /\ k = Len(v)
  OBVIOUS
<1>2. w \o v \in Seq(Nat)
  OBVIOUS
<1>3. PICK u \in Seq(Nat) : u = w \o v
  BY <1>2
<1>4. Len(u) = m + k
  BY <1>1, <1>3
<1>5. \A i \in 1..m : u[i] = w[i]
  BY <1>1, <1>3
<1>6. \A i \in 1..k : u[m + i] = v[i]
  BY <1>1, <1>3
<1>7. Sums(u)[m] = Total(w) /\ Total(w) \in Nat
  <2>1. m <= Len(u) /\ m <= Len(w)
    BY <1>1, <1>4
  <2>a. Sums(u)[m] = Sums(w)[m]
    BY <1>5, <2>1, SumsPrefix
  <2>2. Total(w) = Sums(w)[m] /\ Sums(w)[m] \in Nat
    BY <1>1, SumsSteps
  <2> QED BY <2>a, <2>2
<1> DEFINE S == {i \in Nat : i <= k => Sums(u)[m + i] = Total(w) + Sums(v)[i]}
<1>8. 0 \in S
  <2>1. Sums(v)[0] = 0
    BY SumsSteps
  <2>2. m + 0 = m
    OBVIOUS
  <2> QED BY <1>7, <2>1, <2>2
<1>9. ASSUME NEW i \in Nat, i \in S PROVE i + 1 \in S
  <2> SUFFICES ASSUME i + 1 <= k PROVE Sums(u)[m + (i + 1)] = Total(w) + Sums(v)[i + 1]
    OBVIOUS
  <2>1. /\ m + (i + 1) \in 1..Len(u) /\ (m + (i + 1)) - 1 = m + i
        /\ i + 1 \in 1..k /\ (i + 1) - 1 = i /\ i \in 0..k
    BY <1>4
  <2>2. Sums(u)[m + i] = Total(w) + Sums(v)[i] /\ u[m + (i + 1)] = v[i + 1]
    BY <1>6, <1>9, <2>1
  <2>3. Sums(u)[m + (i + 1)] = Sums(u)[m + i] + u[m + (i + 1)]
    BY <2>1, SumsSteps
  <2>a. i + 1 \in 1..Len(v) /\ i \in 0..Len(v) /\ v[i + 1] \in Nat
    BY <1>1, <2>1
  <2>b. Sums(v)[i] \in Nat
    BY <2>a, SumsSteps
  <2>c. Sums(v)[i + 1] = Sums(v)[(i + 1) - 1] + v[i + 1]
    BY <2>a, SumsSteps
  <2>4. Sums(v)[i + 1] = Sums(v)[i] + v[i + 1] /\ Sums(v)[i] \in Nat /\ v[i + 1] \in Nat
    BY <2>1, <2>a, <2>b, <2>c
  <2> QED BY <1>7, <2>2, <2>3, <2>4
<1>10. \A i \in Nat : i \in S
  <2> HIDE DEF S
  <2> QED BY <1>8, <1>9, SetInduction
<1>11. Sums(u)[m + k] = Total(w) + Sums(v)[k]
  BY <1>10
<1>12. Total(u) = Sums(u)[m + k] /\ Total(v) = Sums(v)[k]
  BY <1>1, <1>4, SumsSteps
<1> QED BY <1>3, <1>11, <1>12

\* The units that the first n numbers of a sequence count.
Units(w, n) == {c \in (1..n) \X Nat : c[2] \in 1..w[c[1]]}

\* Their sum is how many units they count.
LEMMA UnitsCount ==
  ASSUME NEW w \in Seq(Nat)
  PROVE  IsFiniteSet(Units(w, Len(w))) /\ Cardinality(Units(w, Len(w))) = Total(w)
<1>1. PICK n \in Nat : n = Len(w)
  OBVIOUS
<1> DEFINE S == {m \in Nat : m <= n => /\ IsFiniteSet(Units(w, m))
                                      /\ Cardinality(Units(w, m)) = Sums(w)[m]}
<1>2. 0 \in S
  <2>1. Units(w, 0) = {}
    BY DEF Units
  <2>2. Sums(w)[0] = 0
    BY SumsSteps
  <2>3. IsFiniteSet({}) /\ Cardinality({}) = 0
    BY FS_EmptySet
  <2> QED BY <2>1, <2>2, <2>3
<1>3. ASSUME NEW m \in Nat, m \in S PROVE m + 1 \in S
  <2> SUFFICES ASSUME m + 1 <= n
               PROVE  IsFiniteSet(Units(w, m + 1)) /\ Cardinality(Units(w, m + 1)) = Sums(w)[m + 1]
    OBVIOUS
  <2>1. m + 1 \in 1..n /\ (m + 1) - 1 = m /\ m \in 0..n
    OBVIOUS
  <2>2. IsFiniteSet(Units(w, m)) /\ Cardinality(Units(w, m)) = Sums(w)[m] /\ Sums(w)[m] \in Nat
    BY <1>1, <1>3, <2>1, SumsSteps
  <2>3. PICK k \in Nat : k = w[m + 1]
    BY <1>1, <2>1
  <2> DEFINE Row == {<<m + 1, j>> : j \in 1..k}
             f == [j \in 1..k |-> <<m + 1, j>>]
  <2>4. Units(w, m + 1) = Units(w, m) \cup Row
    <3>1. \A i, j \in Nat : <<i, j>> \in Units(w, m + 1) <=> i \in 1..(m + 1) /\ j \in 1..w[i]
      BY DEF Units
    <3>2. \A i, j \in Nat : <<i, j>> \in Units(w, m) <=> i \in 1..m /\ j \in 1..w[i]
      BY DEF Units
    <3>3. \A i, j \in Nat : <<i, j>> \in Row <=> i = m + 1 /\ j \in 1..k
      OBVIOUS
    <3>4. \A c \in Units(w, m + 1) \cup Units(w, m) \cup Row : \E i, j \in Nat : c = <<i, j>>
      BY DEF Units
    <3>5. \A i \in Nat : i \in 1..(m + 1) <=> i \in 1..m \/ i = m + 1
      OBVIOUS
    <3>6. m + 1 \notin 1..m
      OBVIOUS
    <3> HIDE DEF Row
    <3>7. \A i, j \in Nat : <<i, j>> \in Units(w, m + 1) <=> (<<i, j>> \in Units(w, m) \/ <<i, j>> \in Row)
      BY <2>3, <3>1, <3>2, <3>3, <3>5, <3>6
    <3>8. ASSUME NEW c PROVE c \in Units(w, m + 1) <=> (c \in Units(w, m) \/ c \in Row)
      BY <3>4, <3>7
    <3> QED BY <3>8
  <2>5. Units(w, m) \cap Row = {}
    <3>1. \A c \in Units(w, m) : c[1] \in 1..m
      BY DEF Units
    <3>2. \A c \in Row : c[1] = m + 1
      OBVIOUS
    <3>3. m + 1 \notin 1..m
      OBVIOUS
    <3> HIDE DEF Row
    <3> QED BY <3>1, <3>2, <3>3
  <2>6. IsFiniteSet(Row) /\ Cardinality(Row) = k
    <3>1. IsFiniteSet(1..k) /\ Cardinality(1..k) = k
      BY FS_Interval
    <3>2. f \in [1..k -> Row]
      OBVIOUS
    <3>3. \A i, j \in 1..k : f[i] = f[j] => i = j
      OBVIOUS
    <3>4. \A c \in Row : \E j \in 1..k : f[j] = c
      OBVIOUS
    <3> HIDE DEF f, Row
    <3>5. f \in Bijection(1..k, Row)
      BY <3>2, <3>3, <3>4, Zenon DEF Bijection, Injection, Surjection, IsInjective
    <3>6. ExistsBijection(1..k, Row)
      BY <3>5 DEF ExistsBijection
    <3> QED BY <3>1, <3>6, FS_Bijection
  <2> HIDE DEF Row
  <2>7. /\ IsFiniteSet(Units(w, m) \cup Row)
        /\ Cardinality(Units(w, m) \cup Row) = Sums(w)[m] + k - Cardinality({})
    BY <2>2, <2>5, <2>6, FS_Union
  <2>8. Cardinality({}) = 0
    BY FS_EmptySet
  <2>9. Sums(w)[m + 1] = Sums(w)[m] + k
    BY <1>1, <2>1, <2>3, SumsSteps
  <2>10. Cardinality(Units(w, m) \cup Row) = Sums(w)[m] + k
    BY <2>2, <2>7, <2>8
  <2> HIDE DEF S
  <2> QED BY <2>4, <2>7, <2>9, <2>10
<1>4. \A m \in Nat : m \in S
  <2> HIDE DEF S
  <2> QED BY <1>2, <1>3, SetInduction
<1>5. IsFiniteSet(Units(w, n)) /\ Cardinality(Units(w, n)) = Sums(w)[n]
  BY <1>4
<1> QED BY <1>1, <1>5, SumsSteps

\* Numbers in another order have the same total.
LEMMA TotalReordered ==
  ASSUME NEW w \in Seq(Nat), NEW v \in Seq(Nat), NEW n \in Nat, n = Len(w), n = Len(v),
         NEW p \in Bijection(1..n, 1..n), \A i \in 1..n : v[i] = w[p[i]]
  PROVE  Total(v) = Total(w)
<1> DEFINE f == [c \in Units(v, n) |-> <<p[c[1]], c[2]>>]
<1>1. /\ p \in [1..n -> 1..n]
      /\ \A i, j \in 1..n : p[i] = p[j] => i = j
      /\ \A j \in 1..n : \E i \in 1..n : p[i] = j
  BY DEF Bijection, Injection, Surjection, IsInjective
<1>2. \A c \in Units(v, n) : c = <<c[1], c[2]>> /\ c[1] \in 1..n /\ c[2] \in Nat /\ c[2] \in 1..v[c[1]]
  BY DEF Units
<1>3. \A i \in 1..n, j \in Nat : j \in 1..w[i] => <<i, j>> \in Units(w, n)
  BY DEF Units
<1>4. \A i \in 1..n, j \in Nat : j \in 1..v[i] => <<i, j>> \in Units(v, n)
  BY DEF Units
<1>5. \A c \in Units(w, n) : c = <<c[1], c[2]>> /\ c[1] \in 1..n /\ c[2] \in Nat /\ c[2] \in 1..w[c[1]]
  BY DEF Units
<1>6. f \in [Units(v, n) -> Units(w, n)]
  <2>1. \A c \in Units(v, n) : <<p[c[1]], c[2]>> \in Units(w, n)
    <3> SUFFICES ASSUME NEW c \in Units(v, n) PROVE <<p[c[1]], c[2]>> \in Units(w, n)
      OBVIOUS
    <3>1. PICK i, j : i = c[1] /\ j = c[2]
      OBVIOUS
    <3>2. i \in 1..n /\ j \in Nat /\ j \in 1..v[i] /\ p[i] \in 1..n /\ v[i] = w[p[i]]
      BY <1>1, <1>2, <3>1
    <3>3. <<p[i], j>> \in Units(w, n)
      BY <1>3, <3>2
    <3> QED BY <3>1, <3>3
  <2> QED BY <2>1
<1>7. \A c, d \in Units(v, n) : f[c] = f[d] => c = d
  <2> SUFFICES ASSUME NEW c \in Units(v, n), NEW d \in Units(v, n), f[c] = f[d] PROVE c = d
    OBVIOUS
  <2>1. p[c[1]] = p[d[1]] /\ c[2] = d[2]
    OBVIOUS
  <2>2. c[1] = d[1]
    BY <1>1, <1>2, <2>1
  <2> QED BY <1>2, <2>1, <2>2
<1>8. \A d \in Units(w, n) : \E c \in Units(v, n) : f[c] = d
  <2> SUFFICES ASSUME NEW d \in Units(w, n) PROVE \E c \in Units(v, n) : f[c] = d
    OBVIOUS
  <2>1. d = <<d[1], d[2]>> /\ d[1] \in 1..n /\ d[2] \in Nat /\ d[2] \in 1..w[d[1]]
    BY <1>5
  <2>2. PICK i \in 1..n : p[i] = d[1]
    BY <1>1, <2>1
  <2>3. PICK c : c = <<i, d[2]>>
    OBVIOUS
  <2>4. c \in Units(v, n)
    <3>1. d[2] \in 1..v[i]
      BY <2>1, <2>2
    <3> QED BY <1>4, <2>1, <2>3, <3>1
  <2>5. f[c] = <<p[i], d[2]>>
    BY <2>3, <2>4
  <2> HIDE DEF f
  <2> QED BY <2>1, <2>2, <2>4, <2>5
<1>9. ExistsBijection(Units(v, n), Units(w, n))
  <2> HIDE DEF f
  <2>1. f \in Bijection(Units(v, n), Units(w, n))
    BY <1>6, <1>7, <1>8, Zenon DEF Bijection, Injection, Surjection, IsInjective
  <2> QED BY <2>1 DEF ExistsBijection
<1>10. IsFiniteSet(Units(v, n)) /\ Cardinality(Units(v, n)) = Total(v)
  BY UnitsCount
<1>11. Cardinality(Units(w, n)) = Total(w)
  BY UnitsCount
<1> QED BY <1>9, <1>10, <1>11, FS_Bijection
=============================================================================
