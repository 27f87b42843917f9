---------------------------- MODULE MCClassFile ----------------------------
(***************************************************************************)
(* Small classes and small attributes for ClassSession: constants of two   *)
(* slots before, between and after others, every kind of branch, switches  *)
(* whose padding depends on what is before them, and attribute values on   *)
(* both sides of what can be written and of what can be read.              *)
(***************************************************************************)
EXTENDS ClassSession

U(units) == Constant(Utf8, <<>>, units)
ClassOf(k) == Constant(Class, <<k>>, <<>>)
LongOf(n) == Constant(Long, <<>>, <<0, 0, 0, 0, 0, 0, 0, n>>)
DoubleOf(n) == Constant(Double, <<>>, <<64, n, 0, 0, 0, 0, 0, 0>>)
MCLimits == [interfaces |-> 1, fields |-> 1, methods |-> 2, attributes |-> 3, bytes |-> 120, allocation |-> 400]

At(name, bytes) == [name |-> name, bytes |-> bytes]
Member(name, descriptor, attributes) == [name |-> name, descriptor |-> descriptor, attributes |-> attributes]
CodeOfMethod(bytes, handlers, nested) == EncodeCode(<<1, 1, bytes, handlers, nested>>, 400, 400).v
Coded(name, bytes) == Member(1, 4, <<At(name, bytes)>>)

\* A name, a class, a Long, a descriptor with a surrogate pair and a zero,
\* "Code", a Double.
Pool(last) == <<U(<<65>>), ClassOf(1), LongOf(7), U(<<40, 0, 55357, 56832>>), U(CodeText), last>>
Source(major, pool, interfaces, methods) ==
  [major |-> major, pool |-> pool, this |-> 2, interfaces |-> interfaces, fields |-> <<>>,
   methods |-> methods, attributes |-> <<>>]

\* iload_0, a table switch, return, and a jump back to the start.
Switching ==
  <<26, 170, 0, 0,  0, 0, 0, 24,  0, 0, 0, 3,  0, 0, 0, 4,  0, 0, 0, 23,  255, 255, 255, 255,
    177, 167, 255, 231>>
\* A lookup switch to itself and to the end, a long load, a wide increment.
Looking ==
  <<171, 0, 0, 0,  0, 0, 0, 30,  0, 0, 0, 1,  255, 255, 255, 254,  0, 0, 0, 0,
    20, 0, 3, 196, 132, 0, 1, 255, 255, 0, 177>>
\* Two jumps over each other, near the reach of a short branch.
Crossing == <<167, 0, 7, 0, 167, 255, 252, 177, 200, 0, 0, 0, 0>>

MCLegal ==
  {Source(52, Pool(DoubleOf(1)), <<2>>, <<Coded(5, CodeOfMethod(Switching, <<<<0, 24, 25, 0>>>>, <<>>))>>),
   Source(50, Pool(LongOf(2)), <<>>,
          <<Coded(5, CodeOfMethod(Looking, <<<<0, 1, 20, 2>>>>, <<<<1, <<0, 0>>>>>>)), Member(4, 1, <<>>)>>),
   Source(52, Pool(ClassOf(4)) \o
              <<Constant(NameAndType, <<1, 4>>, <<>>), Constant(InterfaceMethodref, <<2, 7>>, <<>>),
                Constant(MethodHandle, <<6, 8>>, <<>>), Constant(18, <<0, 7>>, <<>>), DoubleOf(3)>>,
          <<6>>, <<Coded(5, CodeOfMethod(Crossing, <<>>, <<>>))>>)}

\* A lone surrogate, a reference to the wrong kind, a handle before its time,
\* a class name that is none, too many attributes, and a second "Code".
MCIrregular ==
  {Source(52, Pool(U(<<55357>>)), <<>>, <<>>),
   Source(52, Pool(ClassOf(2)), <<>>, <<>>),
   Source(51, Pool(Constant(NameAndType, <<1, 4>>, <<>>)) \o
              <<Constant(InterfaceMethodref, <<2, 6>>, <<>>), Constant(MethodHandle, <<6, 7>>, <<>>)>>, <<>>, <<>>),
   Source(52, Pool(LongOf(2)), <<1>>, <<>>),
   Source(52, Pool(LongOf(2)), <<>>, <<Member(1, 1, <<At(1, <<>>), At(1, <<>>), At(1, <<>>), At(1, <<>>)>>)>>),
   Source(52, Pool(U(CodeText)), <<>>, <<Coded(6, CodeOfMethod(<<0, 177>>, <<>>, <<>>))>>),
   Source(50, Pool(LongOf(2)), <<>>, <<Coded(5, CodeOfMethod(<<186, 0, 1, 0, 0>>, <<>>, <<>>))>>)}

\* The smallest class with a constant of two slots and a jump.
Small ==
  [major |-> 51, pool |-> <<U(CodeText), ClassOf(1), LongOf(7)>>, this |-> 2, interfaces |-> <<>>,
   fields |-> <<>>, methods |-> <<Member(1, 1, <<At(1, CodeOfMethod(<<18, 1, 153, 0, 3, 177>>, <<<<0, 1, 0, 0>>>>, <<>>))>>)>>,
   attributes |-> <<At(1, <<0, 1>>)>>]
MCFragile == {Small}
MCLegalAll == MCLegal \cup MCFragile

V(tag, v) == [tag |-> tag, v |-> v]
Value(name, value, readable) == [name |-> name, value |-> value, readable |-> readable]
Deep(n) == LET wrap[i \in 0..n] == IF i = 0 THEN V(91, <<>>) ELSE V(91, <<wrap[i - 1]>>) IN wrap[n]
Marked(value) == <<<<1, <<<<2, value>>>>>>>>
Typed(target, path) == <<<<target, path, <<1, <<>>>>>>>>

MCComposed == <<
  Value("StackMapTable", <<V(0, <<>>), V(64, V(7, 3)), V(247, <<300, V(1, <<>>)>>), V(248, 1), V(251, 9)>>, TRUE),
  Value("StackMapTable", <<V(254, <<2, V(8, 5), V(0, <<>>), V(4, <<>>)>>), V(255, <<1, <<V(2, <<>>)>>, <<>>>>)>>, TRUE),
  Value("StackMapTable", <<V(200, <<>>)>>, FALSE),
  Value("StackMapTable", <<V(252, <<2, V(3, <<>>), V(3, <<>>)>>)>>, FALSE),
  Value("StackMapTable", <<V(64, V(9, <<>>))>>, FALSE),
  Value("Annotations", Marked(V(66, 3)), TRUE),
  Value("Annotations", Marked(V(101, <<3, 4>>)), TRUE),
  Value("Annotations", Marked(V(88, 3)), FALSE),
  Value("Annotations", Marked(V(64, <<1, <<<<2, V(64, <<1, <<>>>>)>>>>>>)), TRUE),
  Value("ParameterAnnotations", <<<<>>, Marked(V(99, 1))>>, TRUE),
  Value("ParameterAnnotations", [i \in 1..256 |-> <<>>], FALSE),
  Value("AnnotationDefault", Deep(1), TRUE),
  Value("AnnotationDefault", Deep(2), FALSE),
  Value("TypeAnnotations", Typed(V(17, <<1, 2>>), <<<<0, 0>>, <<3, 7>>>>), TRUE),
  Value("TypeAnnotations", Typed(V(64, <<<<1, 2, 3>>>>), <<>>), TRUE),
  Value("TypeAnnotations", Typed(V(71, <<300, 2>>), <<>>), TRUE),
  Value("TypeAnnotations", Typed(V(19, <<>>), <<<<0, 1>>>>), FALSE),
  Value("TypeAnnotations", Typed(V(76, 1), <<>>), FALSE),
  Value("Module", <<1, 2, 3, <<<<1, 2, 3>>>>, <<<<1, 0, <<4>>>>>>, <<>>, <<6>>, <<<<7, <<8, 9>>>>>>>>, TRUE),
  Value("Record", <<<<1, 4, <<<<1, <<9, 9>>>>>>>>>>, TRUE),
  Value("BootstrapMethods", <<<<9, <<1, 2>>>>, <<9, <<>>>>>>, TRUE),
  Value("Code", <<1, 1, <<177>>, <<<<0, 1, 0, 0>>>>, <<>>>>, TRUE),
  Value("Code", <<1, 1, <<>>, <<>>, <<>>>>, FALSE),
  Value("Code", <<1, 1, <<0, 177>>, <<<<0, 1, 2, 0>>>>, <<>>>>, FALSE),
  Value("Bytes", [i \in 1..401 |-> 0], FALSE)
>>
=============================================================================
