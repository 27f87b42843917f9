---------------------------- MODULE ExprRecords ----------------------------
(***************************************************************************)
(* The expressions that BRIDGE packets carry: how the record readers of    *)
(* the bridge crate take an expression map apart (packet.rs, call.rs,      *)
(* collab.rs, weave.rs, frame_book.rs) and what the canonical JSON         *)
(* projection (expr_json.rs) does to an expression on its way through a    *)
(* text.                                                                   *)
(*                                                                         *)
(* A text is a sequence of tokens.  A token is a word, a delimiter, a      *)
(* content id [hash |-> x] or a JSON value [json |-> x]: the finest pieces *)
(* that any reader tells apart.                                            *)
(***************************************************************************)
EXTENDS Integers, Sequences, SequencesExt, FiniteSetsExt, TLC, Lists

CONSTANTS
  Tokens,          \* what the text in an expression consists of
  Levels,          \* bound: how deep expressions nest
  Canonical,       \* the expressions used as keys or twice, in the order of canonical_key
  IntegerTexts,    \* the number texts that parse as i64
  DecodeLimits     \* what the receiver's DecodeBudget allows

ASSUME LimitsAssumption ==
  /\ DecodeLimits \in [nodes : Nat, depth : Nat, collection : Nat, string : Nat]
  /\ Levels \in Nat

Word(x) == <<[word |-> x]>>
Space == [word |-> " "]
Newline == [word |-> "\n"]
Marker(name) == [marker |-> name]

\* One shape for every kind of expression; what a kind has no use for is empty.
Node(t, ns, a, items, entries) == [t |-> t, ns |-> ns, a |-> a, items |-> items, entries |-> entries]
Nil == Node("nil", <<>>, <<>>, <<>>, <<>>)
Text(a) == Node("string", <<>>, a, <<>>, <<>>)
NumberOf(a) == Node("number", Word("i64"), a, <<>>, <<>>)
SymbolExpr(s) == Node("symbol", s.ns, s.name, <<>>, <<>>)
Vector(items) == Node("vector", <<>>, <<>>, items, <<>>)
MapOf(entries) == Node("map", <<>>, <<>>, <<>>, entries)

\* Every expression, up to the bound on their depth.
ExprsOver(items, entries) ==
  [t : STRING, ns : Seq(Tokens), a : Seq(Tokens), items : items, entries : entries]
Exprs ==
  LET upTo[n \in 0..Levels] ==
        IF n = 0 THEN ExprsOver({<<>>}, {<<>>})
        ELSE ExprsOver(Seq(upTo[n - 1]), Seq(upTo[n - 1] \X upTo[n - 1]))
  IN  upTo[Levels]

Symbol(ns, name) == [ns |-> ns, name |-> name]
Plain(name) == Symbol(<<>>, Word(name))
ToSymbol(e) == Symbol(e.ns, e.a)
-----------------------------------------------------------------------------
(* Expr <-> JSON *)

Rank(e) == IF \E i \in DOMAIN Canonical : Canonical[i] = e
           THEN CHOOSE i \in DOMAIN Canonical : Canonical[i] = e ELSE 0

EntryBefore(x, y) ==
  \/ Rank(x[1]) < Rank(y[1])
  \/ Rank(x[1]) = Rank(y[1]) /\ Rank(x[2]) < Rank(y[2])

\* The tags keep every kind of expression apart; the one thing the text does
\* not keep is the order of map entries and set items.
ExprToJson(expr) ==
  LET json[e \in Exprs] ==
        LET items == [i \in DOMAIN e.items |-> json[e.items[i]]]
            entries == IF e.t = "map" THEN SortSeq(e.entries, EntryBefore) ELSE e.entries
        IN  [e EXCEPT
              !.items = IF e.t = "set" THEN SortSeq(items, LAMBDA x, y : Rank(x) < Rank(y)) ELSE items,
              !.entries = [i \in DOMAIN entries |-> <<json[entries[i][1]], json[entries[i][2]]>>]]
  IN  json[expr]

\* Every order of entries is the same expression to the kernel's equality.
SameExpr(x, y) == ExprToJson(x) = ExprToJson(y)

Tags == {"nil", "bool", "number", "symbol", "local", "string", "bytes", "list", "vector", "map", "set",
         "call", "infix", "prefix", "postfix", "block", "quote", "annotated", "extension"}

Children(j) == j.items \o FlattenSeq(j.entries)

Nodes(expr) ==
  LET nodes[j \in Exprs] == 1 + FoldLeft(LAMBDA acc, c : acc + nodes[c], 0, Children(j))
  IN  nodes[expr]

Depth(expr) ==
  LET depth[j \in Exprs] ==
        FoldLeft(LAMBDA acc, c : IF acc > depth[c] THEN acc ELSE depth[c] + 1, 0, Children(j))
  IN  depth[expr]

Readable(expr) ==
  LET readable[j \in Exprs] ==
        /\ j.t \in Tags
        /\ j.t = "string" => Len(j.a) <= DecodeLimits.string
        /\ Len(j.items) <= DecodeLimits.collection /\ Len(j.entries) <= DecodeLimits.collection
        /\ \A i \in DOMAIN Children(j) : readable[Children(j)[i]]
  IN  readable[expr]

\* json_to_expr; the nodes of all the payloads of a packet share one budget.
JsonToExpr(j) ==
  [ok |-> IF j \notin Exprs THEN FALSE ELSE Readable(j) /\ Depth(j) <= DecodeLimits.depth, v |-> j]
-----------------------------------------------------------------------------
(* Record readers *)

\* Which keys name a field: the packet reader wants a symbol without namespace
\* or a string, the payload readers ignore the namespace, the frame reader
\* takes symbols only.
Names(k, style) ==
  \/ k.t = "symbol" /\ (style = "packet" => k.ns = <<>>)
  \/ k.t = "string" /\ style # "frame"

Holding(e, name) == {i \in DOMAIN e.entries : e.entries[i][1].a = Word(name)}
Has(e, name) == Holding(e, name) # {}

\* The first of several fields of one name wins.
Field(e, name) == e.entries[Min(Holding(e, name))][2]

\* reject_unknown; only the packet reader rejects a field given twice.
Closed(e, names, style) ==
  /\ e.t = "map"
  /\ \A i \in DOMAIN e.entries :
       Names(e.entries[i][1], style) /\ \E n \in names : e.entries[i][1].a = Word(n)
  /\ style = "packet" => \A n \in names : Cardinality(Holding(e, n)) <= 1

IsVector(e) == e.t \in {"vector", "list"}
Typed(e, type) ==
  CASE type = "any" -> TRUE
    [] type = "vector" -> IsVector(e)
    [] type = "strings" -> IsVector(e) /\ \A i \in DOMAIN e.items : e.items[i].t = "string"
    [] type = "symbols" -> IsVector(e) /\ \A i \in DOMAIN e.items : e.items[i].t = "symbol"
    [] type = "keyed" -> e.t = "map" /\ \A i \in DOMAIN e.entries : e.entries[i][1].t = "symbol"
    [] type = "optional" -> e.t \in {"nil", "string"}
    [] type = "integer" -> e.t = "number" /\ e.a \in IntegerTexts
    [] OTHER -> e.t = type

\* A record of required and optional fields, each of its type.
Reads(e, style, required, optional) ==
  /\ Closed(e, DOMAIN required \cup DOMAIN optional, style)
  /\ \A f \in DOMAIN required : Has(e, f) /\ Typed(Field(e, f), required[f])
  /\ \A f \in DOMAIN optional : Has(e, f) => Typed(Field(e, f), optional[f])

None == [x \in {} |-> ""]
Record(fields) == MapOf([i \in DOMAIN fields |-> <<SymbolExpr(Plain(fields[i][1])), fields[i][2]>>])
Items(e, Good(_)) == \A i \in DOMAIN e.items : Good(e.items[i])
=============================================================================
