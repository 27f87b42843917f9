--------------------------- MODULE BridgeExchange ---------------------------
(***************************************************************************)
(* Peers that exchange BRIDGE packets.  Each has its own books; it posts   *)
(* drafts that answer what it has received, forwards received packets      *)
(* through the runtime codec (canonical.rs), and reads any text in flight. *)
(* A text may arrive late, out of order, more than once, at several peers, *)
(* or never; a text may also arrive with one line dropped, repeated, moved *)
(* or taken from another text.  Books change between sending and reading.  *)
(***************************************************************************)
EXTENDS BridgeLine

CONSTANTS
  Peers,
  Books,         \* the sequence of books a peer may load
  FirstBooks,    \* the sets of books the peers may start with
  Drafts,        \* peer -> what its host composes: a packet, and whether to warrant and to stamp it
  Claims,        \* the moves a peer may claim for a packet that made another
  MaxFaces,      \* bound: texts written
  MaxInbox,      \* bound: packets a peer accepts
  MaxLines,      \* bound: which line of a text is damaged
  MaxUpgrades    \* bound: books loaded after the start

ASSUME ExchangeAssumption ==
  /\ "codec" \notin Peers
  /\ MaxFaces \in Nat /\ MaxInbox \in Nat /\ MaxLines \in Nat /\ MaxUpgrades \in Nat
  /\ \A i \in DOMAIN Books :
       /\ Books[i].parts \in DOMAIN PartBooks /\ Books[i].moves \in DOMAIN MoveBooks
       /\ Books[i].frames \in DOMAIN FrameBooks /\ Books[i].profiles \in DOMAIN ProfileBooks
  /\ FirstBooks \subseteq [Peers -> {Books[i] : i \in DOMAIN Books}]

\* A host composes without the content ids of packets and without a warrant:
\* it asks for a warrant, and cites what it has seen.
PacketFields == {"cid", "move", "from", "to", "role", "parents", "task", "output", "ceiling", "context", "author",
                 "card", "body", "warrant"}
IsPacketDatum(x) == DOMAIN x = PacketFields
IsText(text) ==
  IsSeq(text) /\ \A i \in DOMAIN text : "hash" \in DOMAIN text[i] => ~IsPacketDatum(text[i].hash)
IsName(symbol) == IsText(symbol.ns) /\ IsText(symbol.name)
AreNames(symbols) == IsSeq(symbols) /\ \A i \in DOMAIN symbols : IsName(symbols[i])

ASSUME DraftsAssumption ==
  /\ \A p \in Peers : \A i \in DOMAIN Drafts[p] :
       LET d == Drafts[p][i].packet
       IN  /\ DOMAIN d = PacketFields
           /\ d.warrant = NoWarrant /\ IsText(d.cid) /\ IsText(d.card)
           /\ IsName(d.move) /\ IsName(d.role) /\ IsName(d.task) /\ IsName(d.output) /\ IsName(d.author)
           /\ AreNames(d.ceiling) /\ AreNames(d.context)
           /\ IsSeq(d.to) /\ \A j \in DOMAIN d.to : IsText(d.to[j])
           /\ IsSeq(d.body) /\ \A j \in DOMAIN d.body :
                DOMAIN d.body[j] = {"id", "kind", "payload"} /\ IsName(d.body[j].id) /\ IsName(d.body[j].kind)
  /\ \A move \in Claims : IsName(move)

VARIABLES
  books,       \* what every peer reads and writes with
  inbox,       \* what every peer accepted: the packet, the book that accepted it, and whether its cid verifies
  faces,       \* history of the texts written: the packet, the book, who wrote it
  upgrades

vars == <<books, inbox, faces, upgrades>>

\* BridgeBook::standard, the only book the runtime codec knows.
StandardBook ==
  [parts |-> "standard", moves |-> "standard", frames |-> "standard", profiles |-> "standard",
   policy |-> "SharedTrust"]

\* A citation is a cid and the move the citing peer says it made.
Citation(packet, move) == packet.cid \o <<Evidence>> \o SymbolText(move)
Seen(p) == {a.packet : a \in inbox[p]} \cup {f.packet : f \in {g \in faces : g.author = p}}
Citations(p) ==
  UNION {{Citation(q, m) : m \in {q.move} \cup Claims} : q \in {r \in Seen(p) : r.cid # <<>>}}

Addressed(draft, p, parents) == [draft EXCEPT !.from = Word(p), !.parents = parents]

Warranted(packet, book, asked) ==
  IF asked /\ Kinds(packet.body) \subseteq DOMAIN PartBooks[book.parts]
  THEN [packet EXCEPT !.warrant = WarrantFor(book, packet.body)] ELSE packet

Face(packet, book, text, author) == [packet |-> packet, book |-> book, text |-> text, author |-> author]

Init ==
  /\ books \in FirstBooks
  /\ inbox = [p \in Peers |-> {}]
  /\ faces = {}
  /\ upgrades = 0

\* Compose, warrant, stamp and encode; a draft that does not validate writes nothing.
Post(p, draft, parents) ==
  LET bare == Warranted(Addressed(draft.packet, p, parents), books[p], draft.warranted)
      packet == IF draft.stamped THEN Stamp(bare) ELSE bare
      text == EncodeText(packet, books[p])
  IN  /\ Cardinality(faces) < MaxFaces
      /\ text.ok
      /\ faces' = faces \cup {Face(packet, books[p], text.v, p)}
      /\ UNCHANGED <<books, inbox, upgrades>>

\* The runtime hands the packet on as an expression; the codec writes it again.
Forward(p, a) ==
  LET packet == PacketFromExpr(PacketToExpr(a.packet))
      text == IF packet.ok THEN EncodeText(packet.v, StandardBook) ELSE Err
  IN  /\ Cardinality(faces) < MaxFaces
      /\ text.ok
      /\ faces' = faces \cup {Face(a.packet, StandardBook, text.v, "codec")}
      /\ UNCHANGED <<books, inbox, upgrades>>

\* The host checks the cid of what it accepts.
Accept(packet, book) == [packet |-> packet, book |-> book, verified |-> VerifyCid(packet)]

Receive(p, text) ==
  LET packet == DecodeText(text, books[p])
  IN  /\ Cardinality(inbox[p]) < MaxInbox
      /\ packet.ok
      /\ inbox' = [inbox EXCEPT ![p] = @ \cup {Accept(packet.v, books[p])}]
      /\ UNCHANGED <<books, faces, upgrades>>

\* One line is lost, repeated, swapped with the next or taken from another text.
Rewrites(lines, others, i) ==
  {SubSeq(lines, 1, i - 1) \o SubSeq(lines, i + 1, Len(lines)), SubSeq(lines, 1, i) \o SubSeq(lines, i, Len(lines))}
    \cup {[lines EXCEPT ![i] = lines[k], ![k] = lines[i]] : k \in {i + 1} \cap DOMAIN lines}
    \cup {[lines EXCEPT ![i] = other[i]] : other \in {o \in others : i \in DOMAIN o}}

\* Bound: only the first text that a peer reads arrives damaged, when all are
\* written and no books have changed.
ReceiveDamaged(p, lines, i) ==
  /\ inbox[p] = {} /\ Cardinality(faces) = MaxFaces /\ upgrades = 0
  /\ i \in DOMAIN lines
  /\ \E rewritten \in Rewrites(lines, {Lines(f.text) : f \in faces}, i) :
       Receive(p, Joined(rewritten, Newline) \o <<Newline>>)

\* Bound: books change while texts are in flight, not before.
Upgrade(p, i) ==
  /\ upgrades < MaxUpgrades
  /\ faces # {}
  /\ books[p] # Books[i]
  /\ books' = [books EXCEPT ![p] = Books[i]]
  /\ upgrades' = upgrades + 1
  /\ UNCHANGED <<inbox, faces>>

Next ==
  \/ \E p \in Peers : \E i \in DOMAIN Drafts[p], S \in {T \in SUBSET Citations(p) : IsFiniteSet(T) /\ Cardinality(T) <= 2} :
       Post(p, Drafts[p][i], SetToSeq(S))
  \/ \E p \in Peers : \E a \in inbox[p] : Forward(p, a)
  \/ \E p \in Peers : \E f \in {g \in faces : g.author # p} : Receive(p, f.text)
  \/ \E p \in Peers, i \in 1..MaxLines : \E f \in {g \in faces : g.author # p} : ReceiveDamaged(p, Lines(f.text), i)
  \/ \E p \in Peers, i \in DOMAIN Books : Upgrade(p, i)

Spec == Init /\ [][Next]_vars
-----------------------------------------------------------------------------
Accepted == UNION {inbox[p] : p \in Peers}
Verified == {a \in Accepted : a.verified}
Authored == {f \in faces : f.author \in Peers}

\* Values that the line face writes without looking at them have to be tokens,
\* only bridge kinds of regular spelling survive their keyword, and the payloads
\* have to be within the limits of the reader.
Writable(packet) ==
  /\ WithinNodes(packet.body)
  /\ \A i \in DOMAIN packet.body : JsonToExpr(ExprToJson(packet.body[i].payload)).ok
  /\ \A t \in {packet.cid, packet.card} : t = <<>> \/ (CheckedToken(t) /\ t # Word("nil"))
  /\ \A i \in DOMAIN packet.body : packet.body[i].kind = KindOf(Keyword(packet.body[i].kind))

\* The line face is faithful: whatever a peer writes, posted or handed on, is
\* read back with the same books as the packet that was written, with its
\* payloads equal as expressions, so that a stamped cid still verifies
\* (assert_roundtrip, encode_bridge_text and decode_bridge_text).
FaceFaithful ==
  [][\A f \in faces' \ faces :
       LET read == DecodeText(f.text, f.book)
       IN  Writable(f.packet) => read.ok /\ SamePacket(read.v, f.packet)]_vars

\* A cid binds the whole packet: a received packet whose cid verifies is one
\* that a peer posted, header, body and warrant, whatever happened to texts on
\* the way (stamp_packet_cid, verify_packet_cid).
CidBindsContent == \A a \in Verified : \E f \in Authored : SamePacket(a.packet, f.packet)

\* What a peer's books say of a packet's parts and moves.
Rules(book, packet) ==
  [moves |-> MoveBooks[book.moves], frames |-> FrameBooks[book.frames],
   specs |-> [k \in Kinds(packet.body) |-> PartBooks[book.parts][k]]]

\* Under the verify policy a packet with a valid cid was accepted by the very
\* move rules, frame rules and part specs its author had when it was written,
\* however often either side changed its books (validate_warrant).
VerifiedBooksAgree ==
  \A a \in Verified : a.book.policy = "Verify" =>
    \A f \in Authored :
      SamePacket(a.packet, f.packet) => Rules(a.book, a.packet) = Rules(f.book, f.packet)

\* Who may answer whom, as the documentation of the moves reads.
Answers ==
  [offer |-> {"request"}, reply |-> {"request"}, review |-> {"offer", "reply", "patch"}, vote |-> {"offer", "reply"},
   patch |-> {"receipt", "review", "reply"}, attest |-> {"reply", "receipt"}]

\* Books that keep to it: requests alone open threads, and moves that the
\* documentation does not name leave receipts alone.
Documented(moves) ==
  \A m \in DOMAIN moves :
    LET word == m.name[1].word
        spec == moves[m]
    IN  /\ m = Plain(word)
        /\ spec.rule = "Opens" <=> word = "request"
        /\ word \in DOMAIN Answers => spec.rule = "Only" /\ spec.only \subseteq {Plain(x) : x \in Answers[word]}
        /\ spec.rule \in {"Opens", "AnyNonReceipt"} \/ (spec.rule = "Only" /\ Plain("receipt") \notin spec.only)
             \/ word \in {"patch", "attest", "error"}

Cites(packet, parent) ==
  IsContentId(parent.cid) /\ \E i \in DOMAIN packet.parents : packet.parents[i] = Citation(parent, parent.move)

\* A thread: everything that can be reached through citations of known packets
\* by their content ids.
ParentsOf(packet) == {f.packet : f \in {g \in Authored : Cites(packet, g.packet)}}
Honest(packet) == \A i \in DOMAIN packet.parents :
                    \E q \in ParentsOf(packet) : packet.parents[i] = Citation(q, q.move)

\* Going back along the citations of honest packets ends in requests.
Rooted(packet) ==
  LET back[n \in 0..Cardinality(Authored)] ==
        IF n = 0 THEN {packet}
        ELSE back[n - 1] \cup UNION {ParentsOf(q) : q \in {r \in back[n - 1] : Honest(r)}}
  IN  \A q \in back[Cardinality(Authored)] :
        Honest(q) /\ q.parents = <<>> => q.move = Plain("request")

\* A thread whose citations are true is a dialogue: it descends from requests,
\* a request answers nothing, and every move answers only what it may
\* (check_move against the claims of parent_move_evidence).
ThreadsAreDialogues ==
  \A a \in Verified :
    /\ Rooted(a.packet)
    /\ \A q \in ParentsOf(a.packet) :
         LET move == a.packet.move.name[1].word
             answered == q.move.name[1].word
         IN  /\ move # "request"
             /\ move \in DOMAIN Answers => answered \in Answers[move]
             /\ answered = "receipt" => move \in {"patch", "attest", "error"}

\* A frame that can be rendered: each hole has a marker of its own and the
\* template has them all.  Nobody checks it when a frame is registered.
WellMade(frame) ==
  /\ IsSeq(frame.holes) /\ IsSeq(frame.template)
  /\ \A i \in DOMAIN frame.holes : MarkerOf(frame.holes[i]) \in ToSet(frame.template)
  /\ \A i, j \in DOMAIN frame.holes : MarkerOf(frame.holes[i]) = MarkerOf(frame.holes[j]) => i = j

\* The sentence is complete, and a marker that is left in it came with the value
\* of its own hole or of one that is filled later.
RendersWhole(frame, e) ==
  LET sentence == RenderFrame(frame, e)
      Brings(hole, marker) == marker \in ToSet(HoleText(hole.kind, Slot(e, hole.name)))
  IN  /\ sentence.ok
      /\ \A i \in DOMAIN frame.holes :
           MarkerOf(frame.holes[i]) \in ToSet(sentence.v) =>
             \E j \in i..Len(frame.holes) : Brings(frame.holes[j], MarkerOf(frame.holes[i]))

\* Validation is enough for rendering: every Frame part that a peer accepted is
\* rendered by the books it was accepted with, every hole filled
\* (validate_hole against the unreachable arms of render_hole).
AcceptedFramesRender ==
  \A a \in Accepted : \A i \in DOMAIN a.packet.body :
    LET payload == a.packet.body[i].payload
        frame == FrameBooks[a.book.frames][FrameId(payload)]
    IN  a.packet.body[i].kind = Bridge("Frame") =>
          FrameId(payload) \in DOMAIN FrameBooks[a.book.frames] /\ (WellMade(frame) => RendersWhole(frame, payload))
=============================================================================
