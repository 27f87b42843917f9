--------------------------- MODULE MCBinaryCodec ---------------------------
(***************************************************************************)
(* Modules BinaryCodec and BitwiseCodec on trees with every kind of        *)
(* expression, and on the frames one edit away from those the writers      *)
(* make: cut short, extended, with one unit replaced or in a longer        *)
(* encoding, with one bit or one character changed.                        *)
(***************************************************************************)
EXTENDS BitwiseCodec

MCNonMinimal == 100
MCMagic == 83
MCInputs == {}  \* the frames come from the writer

Text(s) == Value("text", s, <<>>)
Name(s) == Value("name", s, <<>>)
Scoped(lib, s) == Value("name", s, <<Text(lib)>>)
Num(n) == Value("num", <<n>>, <<>>)

At(start, end, notes) ==
  Value("origin", <<>>, <<Num(1), Text(<<7>>), Num(start), Num(end)>> \o notes)
Note == <<Value("trivia", <<1>>, <<>>), Text(<<2, 3>>)>>

Plain(tag, kids) == [tag |-> tag, text |-> <<>>, kids |-> kids, origin |-> <<>>]
Placed(tag, kids, o) == [Plain(tag, kids) EXCEPT !.origin = <<o>>]

f == Name(<<4>>)
g == Scoped(<<5>>, <<4>>)

nil == Plain("Nil", <<>>)
sym == Placed("Symbol", <<f>>, At(0, 1, <<>>))
loc == Plain("Local", <<g>>)
one == Placed("Number", <<Scoped(<<6>>, <<3>>), Text(<<1>>)>>, At(2, 3, Note))
str == Plain("String", <<Text(<<8, 8>>)>>)
Figure(digits) == Plain("Number", <<f, Text(digits)>>)

MCTrees ==
  {nil, one,
   Plain("Bytes", <<Text([i \in 1..14 |-> i])>>),
   Placed("Set", <<sym, nil, [sym EXCEPT !.origin = <<>>]>>, At(0, 9, Note)),
   Plain("Map", <<loc, nil, sym, str>>),
   Plain("Call", <<sym, Plain("List", <<>>), loc>>),
   Placed("Infix", <<f, one, Plain("Vector", <<str>>)>>, At(0, 3, <<>>)),
   Plain("Quote", <<Value("mode", <<2>>, <<>>), Plain("Prefix", <<g, nil>>)>>),
   Placed("Annotated", <<Plain("Postfix", <<f, nil>>), g, nil>>, At(1, 2, <<>>)),
   Plain("Extension", <<g, Plain("Block", <<nil, Plain("Set", <<str, nil>>)>>)>>),
   Plain("Block", <<Figure(<<55>>), Figure(<<50, 53, 53>>), Figure(<<45, 51>>), Figure(<<48, 48>>)>>),
   Plain("Infix", <<f, Plain("Prefix", <<f, Plain("Postfix", <<f, nil>>)>>), nil>>),
   Plain("List", <<nil, Plain("Vector", <<str>>), Plain("Block", <<Plain("List", <<str>>)>>)>>)}

Generous == [frame |-> 60, text |-> 4, blob |-> 14, entries |-> 4, nodes |-> 8,
             depth |-> 3, trivia |-> 2]
MCLimitChoices ==
  {Generous,
   [Generous EXCEPT !.nodes = 5, !.entries = 1],
   [Generous EXCEPT !.depth = 1, !.blob = 1, !.trivia = 0],
   [Generous EXCEPT !.frame = 22, !.text = 1]}

MCMangled(s) ==
  {SubSeq(s, 1, n) : n \in 0..(Len(s) - 1)}
    \cup {Append(s, 0)}
    \cup {[s EXCEPT ![i] = u] : i \in 1..Len(s), u \in {0, 1, 3, 7}}
    \cup {[s EXCEPT ![i] = @ + 1] : i \in 1..Len(s)}
    \cup {[s EXCEPT ![i] = @ + NonMinimal] : i \in 1..Len(s)}

MCMaxBits == 30

\* A byte too few or too many, a bit, a character, a blank.
MCDamaged(s, text) ==
  IF text
  THEN {SubSeq(s, 1, Len(s) - 1), <<Blank>> \o s}
         \cup {[s EXCEPT ![i] = c] : i \in {1, Len(s) - 2, Len(s) - 1, Len(s)}, c \in {0, 1, Pad, Blank}}
  ELSE {SubSeq(s, 1, Len(s) - 8), s \o Bits(0, 8)}
         \cup {[s EXCEPT ![i] = 1 - @] : i \in 1..Len(s)}
=============================================================================
