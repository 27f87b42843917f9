--------------------------- MODULE ClassAttributes ---------------------------
(***************************************************************************)
(* The structured attributes of a class file (attribute/*.rs).  Every one  *)
(* of them is a decoder and an encoder of a layout made of fixed fields,   *)
(* counted tables, tagged unions and length-prefixed bodies.  Here each    *)
(* attribute is its layout; Read and Write walk a layout as the decoders   *)
(* and the encoders do, with the checks that only one of the two makes:    *)
(* the allocation budget and the annotation nesting are checked by the     *)
(* decoders, the width of a count and the shape of a value by the encoders.*)
(***************************************************************************)
EXTENDS ClassBytes

CONSTANT MaxNesting    \* MAX_ANNOTATION_NESTING, 256 in the code
ASSUME MaxNestingAssumption == MaxNesting \in Nat

Field(width) == [kind |-> "field", width |-> width]
Row(parts) == [kind |-> "row", parts |-> parts]
Table(width, item) == [kind |-> "table", width |-> width, item |-> item]
Union(of, otherwise) == [kind |-> "union", of |-> of, otherwise |-> otherwise]
Among(item, values) == [kind |-> "among", item |-> item, values |-> values]
Nest(name) == [kind |-> "nest", name |-> name]
Body(preflight) == [kind |-> "body", preflight |-> preflight]
Rest == [kind |-> "rest"]

Empty == Row(<<>>)
Indexes(n) == Row([i \in 1..n |-> Field(2)])
-----------------------------------------------------------------------------
(* attribute/basic.rs *)
IndexAttribute == Field(2)
MarkerAttribute == Empty
ByteAttribute == Rest
IndexList == Table(2, Field(2))
InnerClasses == Table(2, Indexes(4))
EnclosingMethod == Indexes(2)
LineNumberTable == Table(2, Indexes(2))
LocalVariables == Table(2, Indexes(5))
MethodParameters == Table(1, Indexes(2))

(* attribute/class.rs *)
BootstrapMethods == Table(2, Row(<<Field(2), IndexList>>))
Record == Table(2, Row(<<Field(2), Field(2), Table(2, Row(<<Field(2), Body(FALSE)>>))>>))
ModuleExports == Table(2, Row(<<Field(2), Field(2), IndexList>>))
Module == Row(<<Field(2), Field(2), Field(2), Table(2, Indexes(3)), ModuleExports, ModuleExports,
                IndexList, Table(2, Row(<<Field(2), IndexList>>))>>)

(* attribute/code.rs *)
CodeAttribute ==
  Row(<<Field(2), Field(2), Body(TRUE), Table(2, Indexes(4)),
        Table(2, Row(<<Field(2), Body(TRUE)>>))>>)

Refused == [kind |-> "refused"]
VerificationType == Union([t \in 0..8 |-> IF t \in {7, 8} THEN Field(2) ELSE Empty], Refused)

\* 128..246 are reserved.
FrameTags == 0..127 \cup 247..255
StackMapFrame ==
  Union([t \in FrameTags |->
    CASE t <= 63        -> Empty
      [] t \in 64..127  -> VerificationType
      [] t = 247        -> Row(<<Field(2), VerificationType>>)
      [] t \in 248..251 -> Field(2)
      [] t \in 252..254 -> Row(<<Field(2)>> \o [i \in 1..t - 251 |-> VerificationType])
      [] t = 255        -> Row(<<Field(2), Table(2, VerificationType), Table(2, VerificationType)>>)],
    Refused)
StackMapTable == Table(2, StackMapFrame)

(* attribute/annotations.rs.  The tags are the characters of the JVM.  *)
Letters == {66, 67, 68, 70, 73, 74, 83, 90, 115}     \* B C D F I J S Z s
EnumTag == 101
ClassTag == 99
AnnotationTag == 64
ArrayTag == 91
ElementTags == Letters \cup {EnumTag, ClassTag, AnnotationTag, ArrayTag}

\* encode_element_value writes a constant under whatever tag it carries.
ElementValue ==
  Union([t \in ElementTags |->
    CASE t \in Letters \cup {ClassTag} -> Field(2)
      [] t = EnumTag                   -> Indexes(2)
      [] t = AnnotationTag             -> Nest("annotation")
      [] t = ArrayTag                  -> Nest("array")],
    Field(2))
Annotation == Row(<<Field(2), Table(2, Row(<<Field(2), ElementValue>>))>>)
Named(name) == IF name = "annotation" THEN Annotation ELSE Table(2, ElementValue)

Annotations == Table(2, Annotation)
ParameterAnnotations == Table(1, Annotations)
AnnotationDefault == ElementValue

TargetTags == {0, 1} \cup 16..23 \cup 64..75
Target ==
  Union([t \in TargetTags |->
    CASE t \in {0, 1, 22}       -> Field(1)
      [] t \in {16, 23}         -> Field(2)
      [] t \in {17, 18}         -> Row(<<Field(1), Field(1)>>)
      [] t \in 19..21           -> Empty
      [] t \in {64, 65}         -> Table(2, Indexes(3))
      [] t \in 66..70           -> Field(2)
      [] t \in 71..75           -> Row(<<Field(2), Field(1)>>)],
    Refused)
PathEntry ==
  Among(Row(<<Field(1), Field(1)>>), {<<k, 0>> : k \in 0..3} \cup {<<3, i>> : i \in 0..255})
TypeAnnotation == Row(<<Target, Table(1, PathEntry), Annotation>>)
TypeAnnotations == Table(2, TypeAnnotation)
-----------------------------------------------------------------------------
(* The decoders *)
RECURSIVE ReadAs(_, _, _, _, _)
ReadParts(parts, b, p, budget, nesting) ==
  FoldLeft(LAMBDA acc, part : Then(acc, LAMBDA r :
             Then(ReadAs(part, b, r.p, budget, nesting), LAMBDA x : Got(Append(r.v, x.v), x.p))),
           Got(<<>>, p), parts)

ReadAs(layout, b, p, budget, nesting) ==
  CASE layout.kind = "field" -> ReadUnsigned(b, p, layout.width)
    [] layout.kind = "row"   -> ReadParts(layout.parts, b, p, budget, nesting)
    [] layout.kind = "table" ->
         Counted(b, p, layout.width, budget, LAMBDA q : ReadAs(layout.item, b, q, budget, nesting))
    [] layout.kind = "among" ->
         Then(ReadAs(layout.item, b, p, budget, nesting), LAMBDA r : Require(r.v \in layout.values, r))
    [] layout.kind = "union" ->
         Then(ReadUnsigned(b, p, 1), LAMBDA tag :
           IF tag.v \notin DOMAIN layout.of THEN Err
           ELSE Then(ReadAs(layout.of[tag.v], b, tag.p, budget, nesting), LAMBDA r :
                  Got([tag |-> tag.v, v |-> r.v], r.p)))
    [] layout.kind = "nest"  ->
         IF nesting = 0 THEN Err ELSE ReadAs(Named(layout.name), b, p, budget, nesting - 1)
    [] layout.kind = "body"  ->
         Then(ReadUnsigned(b, p, 4), LAMBDA n :
           Require(layout.preflight => n.v <= budget, Take(b, n.p, n.v)))
    [] OTHER                 -> Take(b, p, Remaining(b, p))

\* Mutant: what is left over is ignored.
ReadLoose(layout, b, budget, nesting) ==
  ReadAs(layout, b, 1, budget, IF nesting < MaxNesting THEN nesting ELSE MaxNesting)

\* A payload has to be used up: finish.
Read(layout, b, budget, nesting) ==
  Then(ReadAs(layout, b, 1, budget, IF nesting < MaxNesting THEN nesting ELSE MaxNesting),
       LAMBDA r : Require(r.p = Len(b) + 1, r))
-----------------------------------------------------------------------------
(* The encoders *)
Join(readings) ==
  FoldLeft(LAMBDA acc, r : Then(acc, LAMBDA a : Require(r.ok, Got(a.v \o r.v, 0))), Got(<<>>, 0), readings)

RECURSIVE WriteAs(_, _)
WriteAs(layout, value) ==
  CASE layout.kind = "field" -> Got(BigEndian(value, layout.width), 0)
    [] layout.kind = "row"   ->
         Require(Len(value) = Len(layout.parts),
                 Join([i \in DOMAIN layout.parts |-> WriteAs(layout.parts[i], value[i])]))
    [] layout.kind = "table" ->
         Require(Len(value) < 256^layout.width,
                 Join(<<Got(BigEndian(Len(value), layout.width), 0)>>
                        \o [i \in DOMAIN value |-> WriteAs(layout.item, value[i])]))
    [] layout.kind = "among" -> Require(value \in layout.values, WriteAs(layout.item, value))
    [] layout.kind = "union" ->
         LET variant == IF value.tag \in DOMAIN layout.of THEN layout.of[value.tag] ELSE layout.otherwise
         IN  IF variant = Refused THEN Err
             ELSE Join(<<Got(<<value.tag>>, 0), WriteAs(variant, value.v)>>)
    [] layout.kind = "nest"  -> WriteAs(Named(layout.name), value)
    [] layout.kind = "body"  -> Got(BigEndian(Len(value), 4) \o value, 0)
    [] OTHER                 -> Got(value, 0)

Write(layout, value, budget) ==
  Then(WriteAs(layout, value), LAMBDA r : Require(Len(r.v) <= budget, r))
-----------------------------------------------------------------------------
(* The Code attribute *)
CodeBytes(code) == code[3]
Handlers(code) == code[4]

\* validate_code_shape: the ranges lie inside the code, wherever they point.
CodeShape(code, maxCode) ==
  /\ Len(CodeBytes(code)) \in 1..maxCode
  /\ \A i \in DOMAIN Handlers(code) :
       LET row == Handlers(code)[i]
       IN  row[1] < row[2] /\ row[2] <= Len(CodeBytes(code)) /\ row[3] < Len(CodeBytes(code))

DecodeCode(b, budget, maxCode) ==
  Then(Read(CodeAttribute, b, budget, 0), LAMBDA r : Require(CodeShape(r.v, maxCode), r))
EncodeCode(code, budget, maxCode) ==
  Require(CodeShape(code, maxCode), Write(CodeAttribute, code, budget))
=============================================================================
