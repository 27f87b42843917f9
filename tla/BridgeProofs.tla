---------------------------- MODULE BridgeProofs ----------------------------
(***************************************************************************)
(* Proofs about peers that exchange BRIDGE packets: what was accepted had  *)
(* been validated, so that a warrant ties the books of the reader to those *)
(* of the author, a cid to one packet, every accepted frame is rendered    *)
(* and threads are dialogues, for every set of books, every draft and      *)
(* every text.                                                             *)
(***************************************************************************)
EXTENDS BridgeExchange, DataLemmas, FiniteSetTheorems

(***************************************************************************)
(* Sets as sequences.                                                      *)
(***************************************************************************)

\* A sequence of the elements of a finite set has each of them.
LEMMA SetToSeqLemma ==
  ASSUME NEW S, IsFiniteSet(S)
  PROVE  /\ SetToSeq(S) \in Seq(S)
         /\ DOMAIN SetToSeq(S) = 1..Cardinality(S)
         /\ \A x \in S : \E i \in DOMAIN SetToSeq(S) : SetToSeq(S)[i] = x
<1> DEFINE n == Cardinality(S)
<1>1. n \in Nat /\ ExistsBijection(1..n, S)
  BY FS_CardinalityType
<1>2. \E f \in [1..n -> S] : IsInjective(f)
  BY <1>1 DEF ExistsBijection, Bijection, Injection
<1>3. SetToSeq(S) \in [1..n -> S] /\ IsInjective(SetToSeq(S))
  BY <1>2 DEF SetToSeq
<1> DEFINE s == SetToSeq(S)
<1> HIDE DEF s, n
<1>4. s \in [1..n -> S] /\ s \in Injection(1..n, S)
  BY <1>3 DEF s, n, Injection
<1>5. s \in Seq(S) /\ DOMAIN s = 1..n
  BY <1>1, <1>4
<1>6. Cardinality(1..n) = n /\ IsFiniteSet(1..n)
  BY <1>1, FS_Interval
<1>7. s \in Surjection(1..n, S)
  BY <1>4, <1>6, FS_Injection DEF n
<1>8. \A x \in S : \E i \in 1..n : s[i] = x
  BY <1>7 DEF Surjection
<1> QED BY <1>5, <1>8 DEF s, n

(***************************************************************************)
(* Books.                                                                  *)
(***************************************************************************)

\* What validation says of the warrant and of the kinds of the parts.
Validated(book, packet) ==
  /\ Kinds(packet.body) \subseteq DOMAIN PartBooks[book.parts]
  /\ book.policy = "Verify" => packet.warrant = WarrantFor(book, packet.body)

\* A valid packet was validated.
LEMMA ValidPacketFacts ==
  ASSUME NEW book, NEW packet, ValidPacket(book, packet)
  PROVE  Validated(book, packet)
<1>1. \A i \in DOMAIN packet.body :
         ValidPart(PartBooks[book.parts], FrameBooks[book.frames], packet.body[i])
  BY DEF ValidPacket
<1>2. ValidWarrant(book, packet)
  BY DEF ValidPacket
<1>3. \A i \in DOMAIN packet.body : packet.body[i].kind \in DOMAIN PartBooks[book.parts]
  BY <1>1 DEF ValidPart
<1>4. Kinds(packet.body) \subseteq DOMAIN PartBooks[book.parts]
  BY <1>3 DEF Kinds
<1>5. book.policy = "Verify" => packet.warrant = WarrantFor(book, packet.body)
  BY <1>2 DEF ValidWarrant
<1> QED BY <1>4, <1>5 DEF Validated

\* What is decoded was validated, and what is encoded.
LEMMA DecodedIsValid ==
  ASSUME NEW text, NEW book, DecodeText(text, book).ok
  PROVE  ValidPacket(book, DecodeText(text, book).v)
<1> DEFINE lines == Lines(text)
           end == Min({i \in 2..Len(lines) : lines[i] = Word("END")})
           start == Min({i \in 2..(end - 1) : lines[i] = Word("BODY")})
           headers == ParseHeaders(SubSeq(lines, 2, start - 1))
           packet == ParsePacket(headers.v, SubSeq(lines, start + 1, end - 1), book)
<1>1. \/ DecodeText(text, book) = Err
      \/ DecodeText(text, book) = Got(packet.v) /\ ValidPacket(book, packet.v)
  <2> HIDE DEF headers, packet, ParseHeaders, ParsePacket, ValidPacket, WithinNodes, Err, Got
  <2> QED BY Zenon DEF DecodeText, Then, headers, packet
<1>2. Err.ok = FALSE /\ Got(packet.v).v = packet.v
  BY DEF Err, Got
<1> QED BY <1>1, <1>2

\* What was encoded was valid, and its text is that of its lines.
LEMMA EncodedIsValid ==
  ASSUME NEW packet, NEW book, EncodeText(packet, book).ok
  PROVE  /\ ValidPacket(book, packet)
         /\ EncodeText(packet, book).v = Joined(PacketLines(packet), Newline) \o <<Newline>>
<1>1. \/ EncodeText(packet, book) = Err
      \/ /\ ValidPacket(book, packet)
         /\ EncodeText(packet, book) = Got(Joined(PacketLines(packet), Newline) \o <<Newline>>)
  <2> HIDE DEF ValidPacket, Err, Got, PacketLines, Joined
  <2> QED BY DEF EncodeText
<1>2. Err.ok = FALSE /\ \A v : Got(v).v = v
  BY DEF Err, Got
<1> QED BY <1>1, <1>2

\* The same packet has the same kinds and warrant, and the fields of a packet
\* are those of one that is the same.
LEMMA SameKinds ==
  ASSUME NEW p, NEW q, SamePacket(p, q), DOMAIN q = PacketFields,
         \A i \in DOMAIN q.body : DOMAIN q.body[i] = {"id", "kind", "payload"}
  PROVE  Kinds(p.body) = Kinds(q.body) /\ p.warrant = q.warrant
<1>1. CASE p = q
  BY <1>1
<1>2. CASE Settled(p) = Settled(q)
  <2> DEFINE B(r) == [i \in DOMAIN r.body |-> [r.body[i] EXCEPT !.payload = ExprToJson(@)]]
  <2>1. /\ Settled(p) = [p EXCEPT !.body = B(p)]
        /\ Settled(q) = [q EXCEPT !.body = B(q)]
    BY DEF Settled
  <2> HIDE DEF B
  <2>2. DOMAIN p = PacketFields
    BY <1>2, <2>1
  <2>3. p.warrant = q.warrant
    BY <1>2, <2>1, <2>2 DEF PacketFields
  <2>4. B(p) = B(q)
    BY <1>2, <2>1, <2>2 DEF PacketFields
  <2>5. DOMAIN p.body = DOMAIN q.body
    BY <2>4 DEF B
  <2>6. ASSUME NEW i \in DOMAIN q.body PROVE p.body[i].kind = q.body[i].kind
    <3>1. [p.body[i] EXCEPT !.payload = ExprToJson(@)] = [q.body[i] EXCEPT !.payload = ExprToJson(@)]
      BY <2>4, <2>5 DEF B
    <3>2. DOMAIN p.body[i] = {"id", "kind", "payload"}
      BY <3>1
    <3> QED BY <3>1, <3>2
  <2> QED BY <2>3, <2>5, <2>6 DEF Kinds
<1> QED BY <1>1, <1>2 DEF SamePacket

\* A body has finitely many kinds of parts.
LEMMA FiniteKinds ==
  ASSUME NEW body, IsSeq(body) PROVE IsFiniteSet(Kinds(body))
<1>1. PICK n \in Nat : DOMAIN body = 1..n
  BY DEF IsSeq
<1> DEFINE F == [i \in 1..n |-> body[i].kind]
<1>2. IsFiniteSet(1..n)
  BY FS_Interval
<1>3. F \in Surjection(1..n, Kinds(body))
  BY <1>1 DEF Surjection, Kinds
<1> HIDE DEF F
<1> QED BY <1>2, <1>3, FS_Surjection

\* Two warrants that agree name the same rules.
LEMMA WarrantsBind ==
  ASSUME NEW b, NEW c, NEW body, NEW other, IsFiniteSet(Kinds(body)), Kinds(body) = Kinds(other),
         WarrantFor(b, body) = WarrantFor(c, other)
  PROVE  /\ b.moves = c.moves /\ b.frames = c.frames
         /\ \A k \in Kinds(body) : PartBooks[b.parts][k] = PartBooks[c.parts][k]
<1> DEFINE kinds == SetToSeq(Kinds(body))
           Id(book, i) == <<kinds[i], ContentId([kind |-> kinds[i], spec |-> PartBooks[book.parts][kinds[i]]])>>
           W(book) == [moves |-> ContentId([moves |-> book.moves]), frames |-> ContentId([frames |-> book.frames]),
                       parts |-> [i \in DOMAIN kinds |-> Id(book, i)]]
<1>1. W(b) = WarrantFor(b, body) /\ W(c) = WarrantFor(c, other)
  BY DEF WarrantFor
<1>2. \A k \in Kinds(body) : \E i \in DOMAIN kinds : kinds[i] = k
  BY SetToSeqLemma
<1> HIDE DEF kinds
<1>3. /\ ContentId([moves |-> b.moves]) = ContentId([moves |-> c.moves])
      /\ ContentId([frames |-> b.frames]) = ContentId([frames |-> c.frames])
      /\ \A i \in DOMAIN kinds : Id(b, i) = Id(c, i)
  <2> HIDE DEF Id, ContentId
  <2> QED BY <1>1
<1>4. ASSUME NEW i \in DOMAIN kinds
      PROVE  PartBooks[b.parts][kinds[i]] = PartBooks[c.parts][kinds[i]]
  <2>1. ContentId([kind |-> kinds[i], spec |-> PartBooks[b.parts][kinds[i]]])
          = ContentId([kind |-> kinds[i], spec |-> PartBooks[c.parts][kinds[i]]])
    BY <1>3
  <2> QED BY <2>1 DEF ContentId
<1>5. b.moves = c.moves /\ b.frames = c.frames
  BY <1>3 DEF ContentId
<1> QED BY <1>2, <1>4, <1>5

\* A packet that its author's books let through, with the warrant they give.
Composed(f) ==
  /\ DOMAIN f.packet = PacketFields
  /\ IsSeq(f.packet.body)
  /\ \A i \in DOMAIN f.packet.body : DOMAIN f.packet.body[i] = {"id", "kind", "payload"}
  /\ f.packet.warrant \in {NoWarrant, WarrantFor(f.book, f.packet.body)}

BooksInv ==
  /\ DOMAIN inbox = Peers
  /\ \A p \in Peers : \A a \in inbox[p] : Validated(a.book, a.packet)
  /\ \A f \in Authored : Composed(f)

\* What a peer posts.
Posted(p, draft, parents) ==
  LET bare == Warranted(Addressed(draft.packet, p, parents), books[p], draft.warranted)
  IN  IF draft.stamped THEN Stamp(bare) ELSE bare

\* A peer that posts writes the text of what it posts.
LEMMA PostsFace ==
  ASSUME NEW p, NEW draft, NEW parents, Post(p, draft, parents)
  PROVE  /\ EncodeText(Posted(p, draft, parents), books[p]).ok
         /\ faces' = faces \cup {Face(Posted(p, draft, parents), books[p],
                                      EncodeText(Posted(p, draft, parents), books[p]).v, p)}
         /\ UNCHANGED <<books, inbox, upgrades>>
BY DEF Post, Posted

\* A draft is a packet without a warrant.
LEMMA DraftFields ==
  ASSUME NEW p \in Peers, NEW i \in DOMAIN Drafts[p]
  PROVE  /\ DOMAIN Drafts[p][i].packet = PacketFields
         /\ Drafts[p][i].packet.warrant = NoWarrant
         /\ IsSeq(Drafts[p][i].packet.body)
         /\ \A j \in DOMAIN Drafts[p][i].packet.body :
               DOMAIN Drafts[p][i].packet.body[j] = {"id", "kind", "payload"}
<1> HIDE DEF PacketFields, NoWarrant, IsText, IsName, AreNames, IsSeq
<1> QED BY DraftsAssumption

\* The fields of what is posted: the sender, the citations, the warrant and
\* the content id are new, the rest is the draft's.
PostedOf(packet, d, p, parents) ==
  /\ DOMAIN packet = PacketFields
  /\ packet.body = d.body
  /\ packet.from = Word(p) /\ packet.parents = parents
  /\ \A field \in PacketFields \ {"cid", "from", "parents", "warrant"} : packet[field] = d[field]
  /\ packet.warrant \in {NoWarrant, WarrantFor(books[p], packet.body)}
  /\ packet.cid = d.cid \/ packet.cid = PacketId(packet)

\* A posted packet is its draft with author, parents, warrant and stamp.
LEMMA PostedFields ==
  ASSUME NEW p \in Peers, NEW i \in DOMAIN Drafts[p], NEW parents
  PROVE  PostedOf(Posted(p, Drafts[p][i], parents), Drafts[p][i].packet, p, parents)
<1> DEFINE d == Drafts[p][i].packet
           addressed == Addressed(d, p, parents)
           bare == Warranted(addressed, books[p], Drafts[p][i].warranted)
           packet == Posted(p, Drafts[p][i], parents)
<1>1. DOMAIN d = PacketFields /\ d.warrant = NoWarrant
  BY DraftFields
<1> HIDE DEF d
<1>2. /\ DOMAIN addressed = PacketFields
      /\ addressed.from = Word(p) /\ addressed.parents = parents
      /\ \A field \in PacketFields \ {"from", "parents"} : addressed[field] = d[field]
  BY <1>1 DEF Addressed, PacketFields
<1>3. addressed.warrant = NoWarrant /\ addressed.body = d.body
  BY <1>1, <1>2 DEF PacketFields
<1> HIDE DEF addressed
<1>4. /\ DOMAIN bare = PacketFields
      /\ \A field \in PacketFields \ {"warrant"} : bare[field] = addressed[field]
      /\ bare.warrant \in {NoWarrant, WarrantFor(books[p], addressed.body)}
  BY <1>2, <1>3 DEF Warranted, PacketFields
<1> HIDE DEF bare
<1>5. packet = bare \/ packet = Stamp(bare)
  BY DEF Posted, bare, addressed, d
<1> HIDE DEF packet
<1>6. ASSUME packet = bare PROVE PostedOf(packet, d, p, parents)
  <2>1. packet.body = d.body /\ packet.cid = d.cid
    BY <1>1, <1>2, <1>4, <1>6 DEF PacketFields
  <2> QED BY <1>2, <1>3, <1>4, <1>6, <2>1 DEF PostedOf, PacketFields
<1>7. ASSUME packet = Stamp(bare) PROVE PostedOf(packet, d, p, parents)
  <2>1. packet = [bare EXCEPT !.cid = PacketId(bare)]
    BY <1>7 DEF Stamp
  <2>2. /\ DOMAIN packet = PacketFields
        /\ \A field \in PacketFields \ {"cid"} : packet[field] = bare[field]
        /\ packet.cid = PacketId(bare)
    BY <1>4, <2>1 DEF PacketFields
  <2>3. PacketId(packet) = PacketId(bare)
    <3> DEFINE B == [j \in DOMAIN bare.body |-> [bare.body[j] EXCEPT !.payload = ExprToJson(@)]]
    <3>1. packet.body = bare.body
      BY <2>2 DEF PacketFields
    <3>2. Settled(bare) = [bare EXCEPT !.body = B] /\ Settled(packet) = [packet EXCEPT !.body = B]
      BY <3>1 DEF Settled
    <3> HIDE DEF B
    <3>3. [Settled(packet) EXCEPT !.cid = <<>>] = [Settled(bare) EXCEPT !.cid = <<>>]
      <4> DEFINE L == [[packet EXCEPT !.body = B] EXCEPT !.cid = <<>>]
                 R == [[bare EXCEPT !.body = B] EXCEPT !.cid = <<>>]
      <4>1. L = [x \in PacketFields |-> L[x]] /\ R = [x \in PacketFields |-> R[x]]
        BY <1>4, <2>2
      <4>2. \A x \in PacketFields : L[x] = R[x]
        <5> SUFFICES ASSUME NEW x \in PacketFields PROVE L[x] = R[x]
          OBVIOUS
        <5>1. CASE x = "cid"
          BY <1>4, <2>2, <5>1
        <5>2. CASE x = "body"
          BY <1>4, <2>2, <5>2
        <5>3. CASE x \notin {"cid", "body"}
          BY <1>4, <2>2, <5>3
        <5> QED BY <5>1, <5>2, <5>3
      <4> HIDE DEF L, R
      <4>3. L = R
        BY <4>1, <4>2
      <4> QED BY <3>2, <4>3 DEF L, R
    <3> QED BY <3>3 DEF PacketId, CanonicalDatum
  <2>4. packet.body = d.body
    BY <1>2, <1>4, <2>2 DEF PacketFields
  <2> QED BY <1>2, <1>3, <1>4, <2>2, <2>3, <2>4 DEF PostedOf, PacketFields
<1>8. PostedOf(packet, d, p, parents)
  BY <1>5, <1>6, <1>7
<1> QED BY <1>8 DEF packet, d

\* What is received was read by the books of its reader.
LEMMA ReceivesValidated ==
  ASSUME NEW p \in Peers, NEW text, BooksInv, Receive(p, text) PROVE BooksInv'
<1> DEFINE packet == DecodeText(text, books[p])
           a == Accept(packet.v, books[p])
<1>1. /\ packet.ok
      /\ inbox' = [inbox EXCEPT ![p] = @ \cup {a}]
      /\ UNCHANGED <<books, faces, upgrades>>
  BY DEF Receive
<1>2. Validated(a.book, a.packet)
  <2>1. Validated(books[p], packet.v)
    BY <1>1, DecodedIsValid, ValidPacketFacts
  <2>2. a.book = books[p] /\ a.packet = packet.v
    BY DEF Accept
  <2> QED BY <2>1, <2>2
<1> HIDE DEF a
<1>3. DOMAIN inbox' = Peers
  BY <1>1 DEF BooksInv
<1>4. \A q \in Peers : inbox'[q] \subseteq inbox[q] \cup {a}
  BY <1>1 DEF BooksInv
<1>5. \A q \in Peers : \A b \in inbox'[q] : Validated(b.book, b.packet)
  BY <1>2, <1>4 DEF BooksInv
<1>6. Authored' = Authored
  BY <1>1 DEF Authored
<1> QED BY <1>3, <1>5, <1>6 DEF BooksInv

\* What is posted was composed, and what the codec forwards has no author.
LEMMA PostsComposed ==
  ASSUME NEW p \in Peers, NEW i \in DOMAIN Drafts[p], NEW parents, BooksInv,
         Post(p, Drafts[p][i], parents)
  PROVE  BooksInv'
<1> DEFINE packet == Posted(p, Drafts[p][i], parents)
           f == Face(packet, books[p], EncodeText(packet, books[p]).v, p)
<1>1. faces' = faces \cup {f} /\ UNCHANGED <<books, inbox, upgrades>>
  BY PostsFace
<1>2. f.packet = packet /\ f.book = books[p]
  BY DEF Face
<1>3. Composed(f)
  <2> DEFINE d == Drafts[p][i].packet
  <2>a. PostedOf(packet, d, p, parents)
    BY PostedFields
  <2>1. DOMAIN packet = PacketFields /\ packet.body = d.body
        /\ packet.warrant \in {NoWarrant, WarrantFor(books[p], packet.body)}
    <3> HIDE DEF packet, d
    <3> QED BY <2>a DEF PostedOf
  <2>2. /\ IsSeq(Drafts[p][i].packet.body)
        /\ \A j \in DOMAIN Drafts[p][i].packet.body :
               DOMAIN Drafts[p][i].packet.body[j] = {"id", "kind", "payload"}
    BY DraftFields
  <2> HIDE DEF packet, f
  <2> QED BY <1>2, <2>1, <2>2 DEF Composed
<1> HIDE DEF f
<1>4. Authored' \subseteq Authored \cup {f}
  BY <1>1 DEF Authored
<1> QED BY <1>1, <1>3, <1>4 DEF BooksInv

\* What the codec hands on is no peer's.
LEMMA ForwardsComposed ==
  ASSUME NEW p \in Peers, NEW a, BooksInv, Forward(p, a) PROVE BooksInv'
<1>1. PICK f : faces' = faces \cup {f} /\ f.author = "codec" /\ UNCHANGED <<books, inbox, upgrades>>
  BY DEF Forward, Face
<1>2. "codec" \notin Peers
  BY ExchangeAssumption
<1>3. Authored' = Authored
  BY <1>1, <1>2 DEF Authored
<1> QED BY <1>1, <1>3 DEF BooksInv

\* The invariant of books, step by step.
LEMMA BooksStep == BooksInv /\ [Next]_vars => BooksInv'
<1> SUFFICES ASSUME BooksInv, [Next]_vars PROVE BooksInv'
  OBVIOUS
<1>1. ASSUME NEW p \in Peers, NEW i \in DOMAIN Drafts[p], NEW S, Post(p, Drafts[p][i], SetToSeq(S))
      PROVE  BooksInv'
  BY <1>1, PostsComposed
<1>2. ASSUME NEW p \in Peers, NEW a, Forward(p, a) PROVE BooksInv'
  BY <1>2, ForwardsComposed
<1>3. ASSUME NEW p \in Peers, NEW text, Receive(p, text) PROVE BooksInv'
  BY <1>3, ReceivesValidated
<1>4. ASSUME NEW p \in Peers, NEW lines, NEW i, ReceiveDamaged(p, lines, i) PROVE BooksInv'
  BY <1>3, <1>4 DEF ReceiveDamaged
<1>5. ASSUME NEW p \in Peers, NEW i, Upgrade(p, i) PROVE BooksInv'
  BY <1>5 DEF Upgrade, BooksInv, Authored
<1>6. CASE UNCHANGED vars
  BY <1>6 DEF vars, BooksInv, Authored
<1> QED BY <1>1, <1>2, <1>3, <1>4, <1>5, <1>6 DEF Next

\* It holds at the start, and therefore always.
LEMMA BooksStart == Init => BooksInv
BY DEF Init, BooksInv, Authored

\* The invariant of books holds in every state.
LEMMA BooksHold == Spec => []BooksInv
BY BooksStart, BooksStep, PTL DEF Spec

\* Whoever checks warrants reads a packet with a valid cid under the move and
\* frame rules and the part specs that its author wrote it under, for all
\* books, drafts and texts and however often books change (validate_warrant).
THEOREM BooksTheorem == Spec => []VerifiedBooksAgree
<1>1. BooksInv => VerifiedBooksAgree
  <2> SUFFICES ASSUME BooksInv, NEW a \in Verified, a.book.policy = "Verify",
                      NEW f \in Authored, SamePacket(a.packet, f.packet)
               PROVE  Rules(a.book, a.packet) = Rules(f.book, f.packet)
    BY DEF VerifiedBooksAgree
  <2>1. Validated(a.book, a.packet)
    BY DEF Verified, Accepted, BooksInv
  <2>2. Composed(f)
    BY DEF BooksInv
  <2>3. Kinds(a.packet.body) = Kinds(f.packet.body) /\ a.packet.warrant = f.packet.warrant
    BY <2>2, SameKinds DEF Composed
  <2>4. IsFiniteSet(Kinds(a.packet.body))
    BY <2>2, <2>3, FiniteKinds DEF Composed
  <2>5. WarrantFor(a.book, a.packet.body) = WarrantFor(f.book, f.packet.body)
    <3>1. WarrantFor(a.book, a.packet.body) # NoWarrant
      BY DEF WarrantFor, NoWarrant
    <3> QED BY <2>1, <2>2, <2>3, <3>1 DEF Validated, Composed
  <2>6. /\ a.book.moves = f.book.moves /\ a.book.frames = f.book.frames
        /\ \A k \in Kinds(a.packet.body) : PartBooks[a.book.parts][k] = PartBooks[f.book.parts][k]
    BY <2>3, <2>4, <2>5, WarrantsBind
  <2> QED BY <2>3, <2>6 DEF Rules
<1> QED BY <1>1, BooksHold, PTL

(***************************************************************************)
(* Sequences of whatever they hold.                                        *)
(***************************************************************************)

\* A sequence over a set is a sequence of its own elements.
LEMMA AnySeq ==
  ASSUME NEW S, NEW s \in Seq(S)
  PROVE  IsSeq(s) /\ ToSet(s) \subseteq S
<1>1. DOMAIN s = 1..Len(s) /\ Len(s) \in Nat
  BY LenProperties
<1>2. \A i \in 1..Len(s) : s[i] \in S
  BY ElementOfSeq
<1>3. s \in Seq({s[i] : i \in 1..Len(s)})
  <2> DEFINE T == {s[i] : i \in 1..Len(s)}
  <2>1. \A i \in 1..Len(s) : s[i] \in T
    OBVIOUS
  <2> HIDE DEF T
  <2>2. s \in Seq(T)
    BY <1>1, <2>1
  <2> QED BY <2>2 DEF T
<1> QED BY <1>1, <1>2, <1>3 DEF IsSeq, ToSet

\* What a sequence holds, and where.
LEMMA SeqHolds ==
  ASSUME NEW s, IsSeq(s)
  PROVE  /\ s \in Seq(ToSet(s)) /\ Len(s) \in Nat /\ DOMAIN s = 1..Len(s)
         /\ \A i \in DOMAIN s : s[i] \in ToSet(s)
         /\ \A x \in ToSet(s) : \E i \in DOMAIN s : x = s[i]
<1>1. s \in Seq({s[i] : i \in 1..Len(s)})
  BY DEF IsSeq
<1>2. DOMAIN s = 1..Len(s) /\ Len(s) \in Nat
  BY <1>1, LenProperties
<1> QED BY <1>1, <1>2 DEF ToSet

\* Sequences of no element and of one.
LEMMA ShortSeqs ==
  /\ IsSeq(<<>>) /\ ToSet(<<>>) = {}
  /\ \A x : IsSeq(<<x>>) /\ ToSet(<<x>>) = {x}
<1>1. IsSeq(<<>>) /\ ToSet(<<>>) = {}
  BY EmptyStack DEF ToSet
<1>2. ASSUME NEW x PROVE IsSeq(<<x>>) /\ ToSet(<<x>>) = {x}
  <2>1. <<x>> \in Seq({x}) /\ DOMAIN <<x>> = {1} /\ <<x>>[1] = x
    OBVIOUS
  <2>2. IsSeq(<<x>>)
    BY <2>1, AnySeq
  <2> QED BY <2>1, <2>2 DEF ToSet
<1> QED BY <1>1, <1>2

\* Joining two sequences joins what they hold.
LEMMA ConcatHolds ==
  ASSUME NEW s, NEW t, IsSeq(s), IsSeq(t)
  PROVE  IsSeq(s \o t) /\ ToSet(s \o t) \subseteq ToSet(s) \cup ToSet(t)
<1> DEFINE S == ToSet(s) \cup ToSet(t)
<1>1. s \in Seq(S) /\ t \in Seq(S)
  BY SeqHolds, SeqMonotonic
<1> HIDE DEF S
<1>2. (s \o t) \in Seq(S)
  BY <1>1, ConcatProperties
<1> QED BY <1>2, AnySeq DEF S

\* A part of a sequence holds nothing else.
LEMMA PartHolds ==
  ASSUME NEW s, IsSeq(s), NEW m \in Nat \ {0}, NEW n \in Int, n <= Len(s)
  PROVE  IsSeq(SubSeq(s, m, n)) /\ ToSet(SubSeq(s, m, n)) \subseteq ToSet(s)
<1>1. DOMAIN s = 1..Len(s) /\ Len(s) \in Nat /\ \A i \in DOMAIN s : s[i] \in ToSet(s)
  BY SeqHolds
<1>2. \A i \in m..n : s[i] \in ToSet(s)
  BY <1>1
<1>3. SubSeq(s, m, n) \in Seq(ToSet(s))
  BY <1>2, SubSeqProperties
<1> QED BY <1>3, AnySeq

\* Sequences that are joined hold together what each of them holds.
LEMMA FlattenHolds ==
  ASSUME NEW ss, IsSeq(ss), NEW S, \A s \in ToSet(ss) : IsSeq(s) /\ ToSet(s) \subseteq S
  PROVE  IsSeq(FlattenSeq(ss)) /\ ToSet(FlattenSeq(ss)) \subseteq S
<1> DEFINE n == Len(ss)
<1>1. n \in Nat /\ DOMAIN ss = 1..n /\ \A i \in 1..n : ss[i] \in Seq(S)
  <2>1. n \in Nat /\ DOMAIN ss = 1..n
    BY SeqHolds
  <2>2. ASSUME NEW i \in 1..n PROVE ss[i] \in Seq(S)
    <3>1. ss[i] \in ToSet(ss)
      BY <2>1 DEF ToSet
    <3>2. IsSeq(ss[i]) /\ ToSet(ss[i]) \subseteq S
      BY <3>1
    <3>3. ss[i] \in Seq(ToSet(ss[i]))
      BY <3>2, SeqHolds
    <3> QED BY <3>2, <3>3, SeqMonotonic
  <2> QED BY <2>1, <2>2
<1>2. CASE n = 0
  <2>1. FlattenSeq(ss) = ss /\ ToSet(ss) = {}
    BY <1>1, <1>2 DEF FlattenSeq, ToSet
  <2> QED BY <2>1
<1>3. CASE n # 0
  <2> DEFINE Q == [i \in 0..n |-> Seq(S)]
             g == [i \in 1..n |-> [y \in Seq(S) |-> IF i = 1 THEN ss[1] ELSE y \o ss[i]]]
  <2>1. \A i \in 1..n : \A y \in Seq(S) : g[i][y] = IF i = 1 THEN ss[1] ELSE y \o ss[i]
    OBVIOUS
  <2>2. \A y, z \in Seq(S) : (y \o z) \in Seq(S)
    BY ConcatProperties
  <2>3. \A i \in 0..n : Q[i] = Seq(S)
    OBVIOUS
  <2> HIDE DEF g, Q, n
  <2>4. Leads(g, Q, n)
    <3> SUFFICES ASSUME NEW i \in 1..n, NEW y \in Q[i - 1] PROVE g[i][y] \in Q[i]
      BY DEF Leads
    <3>1. i \in 0..n /\ i - 1 \in 0..n
      BY <1>1
    <3>2. y \in Seq(S)
      BY <2>3, <3>1
    <3>3. 1 \in 1..n
      BY <1>1, <1>3
    <3>4. g[i][y] \in Seq(S)
      BY <1>1, <2>1, <2>2, <3>2, <3>3
    <3> QED BY <2>3, <3>1, <3>4
  <2>5. PICK x : x = <<>>
    OBVIOUS
  <2>6. x \in Q[0]
    <3>1. 0 \in 0..n
      BY <1>1
    <3>2. x \in Seq(S)
      BY <2>5, EmptySeq
    <3> QED BY <2>3, <3>1, <3>2
  <2>7. PICK h : Takes(h, g, x, n) /\ \A i \in 0..n : h[i] \in Q[i]
    BY <1>1, <2>4, <2>6, Iteration
  <2>8. \A i \in 1..n : h[i] = IF i = 1 THEN ss[i] ELSE h[i - 1] \o ss[i]
    <3> SUFFICES ASSUME NEW i \in 1..n PROVE h[i] = IF i = 1 THEN ss[i] ELSE h[i - 1] \o ss[i]
      OBVIOUS
    <3>1. i - 1 \in 0..n
      BY <1>1
    <3>2. h[i - 1] \in Seq(S) /\ h[i] = g[i][h[i - 1]]
      BY <2>3, <2>7, <3>1 DEF Takes
    <3>3. g[i][h[i - 1]] = IF i = 1 THEN ss[1] ELSE h[i - 1] \o ss[i]
      BY <2>1, <3>2, Zenon
    <3> QED BY <3>2, <3>3
  <2>9. PICK f : f = CHOOSE e : e = [i \in 1..n |-> IF i = 1 THEN ss[i] ELSE e[i - 1] \o ss[i]]
    OBVIOUS
  <2>10. f = [i \in 1..n |-> IF i = 1 THEN ss[i] ELSE f[i - 1] \o ss[i]]
    <3> DEFINE e == [i \in 1..n |-> h[i]]
    <3>1. e = [i \in 1..n |-> IF i = 1 THEN ss[i] ELSE e[i - 1] \o ss[i]]
      <4>1. ASSUME NEW i \in 1..n PROVE e[i] = IF i = 1 THEN ss[i] ELSE e[i - 1] \o ss[i]
        <5>1. i = 1 \/ i - 1 \in 1..n
          BY <1>1
        <5>2. e[i] = h[i] /\ (i # 1 => e[i - 1] = h[i - 1])
          BY <5>1
        <5> HIDE DEF e
        <5> QED BY <2>8, <5>2, Zenon
      <4> QED BY <4>1
    <3> HIDE DEF e
    <3> QED BY <2>9, <3>1
  <2>11. \A i \in 1..n : f[i] = h[i]
    <3> DEFINE A == {k \in Nat : k \in 1..n => f[k] = h[k]}
    <3>1. 0 \in A
      OBVIOUS
    <3>2. ASSUME NEW k \in Nat, k \in A PROVE k + 1 \in A
      <4> SUFFICES ASSUME k + 1 \in 1..n PROVE f[k + 1] = h[k + 1]
        OBVIOUS
      <4>1. PICK i \in 1..n : i = k + 1 /\ i - 1 = k
        OBVIOUS
      <4>2. i = 1 \/ f[i - 1] = h[i - 1]
        BY <1>1, <3>2, <4>1
      <4>3. f[i] = IF i = 1 THEN ss[i] ELSE f[i - 1] \o ss[i]
        BY <2>10
      <4>4. h[i] = IF i = 1 THEN ss[i] ELSE h[i - 1] \o ss[i]
        BY <2>8
      <4>5. f[i] = h[i]
        BY <4>2, <4>3, <4>4, Zenon
      <4> QED BY <4>1, <4>5
    <3> HIDE DEF A
    <3>3. \A k \in Nat : k \in A
      BY <3>1, <3>2, SetInduction
    <3> QED BY <1>1, <3>3 DEF A
  <2>12. FlattenSeq(ss) = f[n]
    BY <1>3, <2>9 DEF FlattenSeq, n
  <2>13. FlattenSeq(ss) \in Seq(S)
    <3>1. n \in 1..n /\ n \in 0..n
      BY <1>1, <1>3
    <3> QED BY <2>3, <2>7, <2>11, <2>12, <3>1
  <2> QED BY <2>13, AnySeq
<1> QED BY <1>2, <1>3

(***************************************************************************)
(* Clean texts: the content ids of packets in them are in a set I.         *)
(***************************************************************************)

Vouched(t, I) == "hash" \in DOMAIN t /\ IsPacketDatum(t.hash) => t.hash \in I
Clean(s, I) == IsSeq(s) /\ \A t \in ToSet(s) : Vouched(t, I)
CleanAll(ss, I) == IsSeq(ss) /\ \A i \in DOMAIN ss : Clean(ss[i], I)
CleanName(n, I) == Clean(n.ns, I) /\ Clean(n.name, I)
CleanNames(ns, I) == IsSeq(ns) /\ \A i \in DOMAIN ns : CleanName(ns[i], I)

\* Words and values are no content ids.
LEMMA CleanTokens ==
  ASSUME NEW I
  PROVE  /\ Clean(<<>>, I)
         /\ \A t : Vouched(t, I) => Clean(<<t>>, I)
         /\ \A x : Vouched([word |-> x], I) /\ Vouched([json |-> x], I) /\ Clean(Word(x), I)
         /\ \A t \in {Space, Newline, Comma, Open, Close, Equals, Slash, Evidence} : Vouched(t, I)
<1>1. Clean(<<>>, I)
  BY ShortSeqs DEF Clean
<1>2. \A t : Vouched(t, I) => Clean(<<t>>, I)
  BY ShortSeqs DEF Clean
<1>3. ASSUME NEW x PROVE Vouched([word |-> x], I) /\ Vouched([json |-> x], I)
  <2>1. DOMAIN [word |-> x] = {"word"} /\ DOMAIN [json |-> x] = {"json"}
    OBVIOUS
  <2>2. "hash" \notin {"word"} /\ "hash" \notin {"json"}
    OBVIOUS
  <2> QED BY <2>1, <2>2, Zenon DEF Vouched
<1>4. \A x : Clean(Word(x), I)
  BY <1>2, <1>3, Zenon DEF Word
<1>5. \A t \in {Space, Newline, Comma, Open, Close, Equals, Slash, Evidence} : \E x : t = [word |-> x]
  BY DEF Space, Newline, Comma, Open, Close, Equals, Slash, Evidence
<1> QED BY <1>1, <1>2, <1>3, <1>4, <1>5, Zenon

\* What is joined of clean texts is clean, and so is a part of a clean text.
LEMMA CleanConcat ==
  ASSUME NEW I, NEW s, NEW t, Clean(s, I), Clean(t, I)
  PROVE  Clean(s \o t, I)
<1>1. IsSeq(s \o t) /\ ToSet(s \o t) \subseteq ToSet(s) \cup ToSet(t)
  BY ConcatHolds DEF Clean
<1> QED BY <1>1 DEF Clean

\* A part of a clean text is clean.
LEMMA CleanPart ==
  ASSUME NEW I, NEW s, Clean(s, I), NEW m \in Nat \ {0}, NEW n \in Int, n <= Len(s)
  PROVE  Clean(SubSeq(s, m, n), I)
<1>1. IsSeq(SubSeq(s, m, n)) /\ ToSet(SubSeq(s, m, n)) \subseteq ToSet(s)
  BY PartHolds DEF Clean
<1> QED BY <1>1 DEF Clean

\* Clean texts are joined to a clean text.
LEMMA CleanJoined ==
  ASSUME NEW I, NEW ss, CleanAll(ss, I), NEW token, Vouched(token, I)
  PROVE  Clean(Joined(ss, token), I)
<1> DEFINE e == [i \in DOMAIN ss |-> (IF i = 1 THEN <<>> ELSE <<token>>) \o ss[i]]
           S == UNION {ToSet(e[i]) : i \in DOMAIN ss}
<1>1. IsSeq(ss) /\ Len(ss) \in Nat /\ DOMAIN ss = 1..Len(ss)
  BY SeqHolds DEF CleanAll
<1>2. ASSUME NEW i \in DOMAIN ss PROVE Clean(e[i], I)
  <2>1. Clean(IF i = 1 THEN <<>> ELSE <<token>>, I) /\ Clean(ss[i], I)
    BY CleanTokens DEF CleanAll
  <2> QED BY <2>1, CleanConcat
<1>3. IsSeq(e) /\ DOMAIN e = DOMAIN ss
  <2>1. e = [i \in 1..Len(ss) |-> e[i]]
    BY <1>1
  <2> HIDE DEF e
  <2> QED BY <1>1, <2>1, FunSeq
<1>4. Joined(ss, token) = FlattenSeq(e)
  BY DEF Joined
<1> HIDE DEF e
<1>5. \A s \in ToSet(e) : IsSeq(s) /\ ToSet(s) \subseteq S
  BY <1>2, <1>3 DEF ToSet, Clean
<1>6. \A t \in S : Vouched(t, I)
  BY <1>2 DEF Clean
<1> HIDE DEF S
<1>7. IsSeq(FlattenSeq(e)) /\ ToSet(FlattenSeq(e)) \subseteq S
  BY <1>3, <1>5, FlattenHolds
<1> QED BY <1>4, <1>6, <1>7 DEF Clean

(***************************************************************************)
(* Reading.                                                                *)
(***************************************************************************)

\* What was read, and what was not.
LEMMA Readings == Err.ok = FALSE /\ \A v : Got(v).ok = TRUE /\ Got(v).v = v
BY DEF Err, Got

\* A list is read when all of it is.
LEMMA AllRead ==
  ASSUME NEW readings, All(readings).ok
  PROVE  /\ \A i \in DOMAIN readings : readings[i].ok
         /\ All(readings).v = [i \in DOMAIN readings |-> readings[i].v]
<1>1. All(readings) = IF \A i \in DOMAIN readings : readings[i].ok
                      THEN Got([i \in DOMAIN readings |-> readings[i].v]) ELSE Err
  BY DEF All
<1> QED BY <1>1, Readings, Zenon

\* The places of a token lie inside the text.
LEMMA PlacesInText ==
  ASSUME NEW text, IsSeq(text), NEW token
  PROVE  /\ IsSeq(Positions(text, token))
         /\ \A i \in DOMAIN Positions(text, token) : Positions(text, token)[i] \in 1..Len(text)
<1> DEFINE S == {i \in DOMAIN text : text[i] = token}
<1>1. Len(text) \in Nat /\ DOMAIN text = 1..Len(text)
  BY SeqHolds
<1>2. S \subseteq 1..Len(text)
  BY <1>1
<1>3. IsFiniteSet(S) /\ S \subseteq Nat
  <2>1. IsFiniteSet(1..Len(text)) /\ 1..Len(text) \subseteq Nat
    BY <1>1, FS_Interval
  <2> HIDE DEF S
  <2> QED BY <1>2, <2>1, FS_Subset
<1>4. Positions(text, token) = Ascending(S)
  BY DEF Positions
<1> HIDE DEF S
<1>5. Ascending(S) \in Seq(S)
  BY <1>3, AscendingHolds
<1>6. IsSeq(Ascending(S)) /\ ToSet(Ascending(S)) \subseteq S
  BY <1>5, AnySeq
<1> QED BY <1>2, <1>4, <1>6 DEF ToSet

\* Both halves of a clean text are clean.
LEMMA CleanSplitOnce ==
  ASSUME NEW I, NEW text, Clean(text, I), NEW token, SplitOnce(text, token).ok
  PROVE  LET v == SplitOnce(text, token).v
         IN  Clean(v[1], I) /\ Clean(v[2], I)
<1> DEFINE at == Positions(text, token)
           k == at[1]
           v == <<SubSeq(text, 1, k - 1), SubSeq(text, k + 1, Len(text))>>
<1>1. at # <<>> /\ SplitOnce(text, token) = Got(v)
  <2>1. SplitOnce(text, token) = IF at = <<>> THEN Err ELSE Got(v)
    BY DEF SplitOnce
  <2> QED BY <2>1, Readings, Zenon
<1>2. IsSeq(text) /\ Len(text) \in Nat
  BY SeqHolds DEF Clean
<1>3. k \in 1..Len(text)
  <2>1. IsSeq(at) /\ \A i \in DOMAIN at : at[i] \in 1..Len(text)
    BY <1>2, PlacesInText
  <2> HIDE DEF at
  <2>2. 1 \in DOMAIN at
    <3>1. Len(at) \in Nat /\ DOMAIN at = 1..Len(at)
      BY <2>1, SeqHolds
    <3>2. Len(at) # 0
      BY <1>1, <2>1, StackBasics
    <3> QED BY <3>1, <3>2
  <2> QED BY <2>1, <2>2
<1> HIDE DEF k
<1>4. Clean(SubSeq(text, 1, k - 1), I) /\ Clean(SubSeq(text, k + 1, Len(text)), I)
  <2>1. /\ k - 1 \in Int /\ k - 1 <= Len(text) /\ 1 \in Nat \ {0}
        /\ k + 1 \in Nat \ {0} /\ Len(text) \in Int /\ Len(text) <= Len(text)
    BY <1>2, <1>3
  <2> QED BY <2>1, CleanPart
<1>5. SplitOnce(text, token).v = v /\ v[1] = SubSeq(text, 1, k - 1) /\ v[2] = SubSeq(text, k + 1, Len(text))
  BY <1>1, Readings
<1> QED BY <1>4, <1>5

\* A clean text is split into clean pieces.
LEMMA CleanSplitAll ==
  ASSUME NEW I, NEW text, Clean(text, I), NEW token
  PROVE  CleanAll(SplitAll(text, token), I) /\ Len(SplitAll(text, token)) # 0
<1> DEFINE at == Positions(text, token)
           cuts == <<0>> \o at \o <<Len(text) + 1>>
           n == Len(cuts) - 1
           r == [k \in 1..n |-> SubSeq(text, cuts[k] + 1, cuts[k + 1] - 1)]
           C == 0..(Len(text) + 1)
<1>1. IsSeq(text) /\ Len(text) \in Nat
  BY SeqHolds DEF Clean
<1>2. at \in Seq(C)
  <2>1. IsSeq(at) /\ \A i \in DOMAIN at : at[i] \in 1..Len(text)
    BY <1>1, PlacesInText
  <2> HIDE DEF at
  <2>2. at \in Seq(ToSet(at)) /\ ToSet(at) \subseteq C
    BY <1>1, <2>1, SeqHolds DEF ToSet
  <2> HIDE DEF C
  <2> QED BY <2>2, SeqMonotonic
<1>3. cuts \in Seq(C) /\ Len(cuts) = Len(at) + 2
  <2>1. 0 \in C /\ Len(text) + 1 \in C
    BY <1>1
  <2> HIDE DEF at, C
  <2>2. PICK x, y : x = <<0>> /\ y = <<Len(text) + 1>>
    OBVIOUS
  <2>3. x \in Seq(C) /\ y \in Seq(C) /\ Len(x) = 1 /\ Len(y) = 1
    BY <2>1, <2>2
  <2>4. (x \o at) \in Seq(C) /\ Len(x \o at) = 1 + Len(at)
    BY <1>2, <2>3, ConcatProperties
  <2>5. (x \o at \o y) \in Seq(C) /\ Len(x \o at \o y) = 1 + Len(at) + 1
    BY <2>3, <2>4, ConcatProperties
  <2>6. Len(at) \in Nat
    BY <1>2, LenProperties
  <2> QED BY <2>2, <2>5, <2>6
<1> HIDE DEF cuts
<1>4. n \in Nat \ {0} /\ n = Len(at) + 1
  <2>1. Len(at) \in Nat
    BY <1>2, LenProperties
  <2> HIDE DEF at
  <2> QED BY <1>3, <2>1
<1>5. ASSUME NEW k \in 1..n PROVE Clean(r[k], I)
  <2>1. k \in 1..Len(cuts) /\ k + 1 \in 1..Len(cuts)
    BY <1>4
  <2>2. cuts[k] \in C /\ cuts[k + 1] \in C
    BY <1>3, <2>1, ElementOfSeq
  <2>3. cuts[k] + 1 \in Nat \ {0} /\ cuts[k + 1] - 1 \in Int /\ cuts[k + 1] - 1 <= Len(text)
    BY <1>1, <2>2
  <2> QED BY <2>3, CleanPart
<1>6. IsSeq(r) /\ Len(r) = n /\ DOMAIN r = 1..n
  <2> HIDE DEF n
  <2>1. r = [i \in 1..n |-> r[i]]
    OBVIOUS
  <2> HIDE DEF r
  <2> QED BY <1>4, <2>1, FunSeq
<1>7. SplitAll(text, token) = r
  BY DEF SplitAll, cuts
<1> HIDE DEF r
<1> QED BY <1>4, <1>5, <1>6, <1>7 DEF CleanAll

\* Names as texts and back.
LEMMA CleanSymbols ==
  ASSUME NEW I
  PROVE  /\ \A s : CleanName(s, I) => Clean(SymbolText(s), I)
         /\ \A text : Clean(text, I) => CleanName(ParseSymbol(text), I)
         /\ \A ns, name : Clean(ns, I) /\ Clean(name, I) => CleanName(Symbol(ns, name), I)
<1>1. ASSUME NEW s, CleanName(s, I) PROVE Clean(SymbolText(s), I)
  <2>1. Clean(s.ns, I) /\ Clean(s.name, I) /\ Clean(<<Slash>>, I)
    BY <1>1, CleanTokens DEF CleanName
  <2>2. Clean(s.ns \o <<Slash>> \o s.name, I)
    BY <2>1, CleanConcat
  <2> QED BY <2>1, <2>2 DEF SymbolText
<1>2. ASSUME NEW ns, NEW name, Clean(ns, I), Clean(name, I) PROVE CleanName(Symbol(ns, name), I)
  <2>1. Symbol(ns, name).ns = ns /\ Symbol(ns, name).name = name
    BY DEF Symbol
  <2> QED BY <1>2, <2>1 DEF CleanName
<1>3. ASSUME NEW text, Clean(text, I) PROVE CleanName(ParseSymbol(text), I)
  <2>1. Clean(<<>>, I)
    BY CleanTokens
  <2>2. \/ ParseSymbol(text) = Symbol(<<>>, text)
        \/ /\ SplitOnce(text, Slash).ok
           /\ ParseSymbol(text) = Symbol(SplitOnce(text, Slash).v[1], SplitOnce(text, Slash).v[2])
    BY Zenon DEF ParseSymbol
  <2>3. SplitOnce(text, Slash).ok => Clean(SplitOnce(text, Slash).v[1], I) /\ Clean(SplitOnce(text, Slash).v[2], I)
    BY <1>3, CleanSplitOnce
  <2> QED BY <1>2, <1>3, <2>1, <2>2, <2>3
<1> QED BY <1>1, <1>2, <1>3

\* A list of texts made from a list.
LEMMA Mapped ==
  ASSUME NEW ss, IsSeq(ss), NEW f, f = [i \in DOMAIN ss |-> f[i]]
  PROVE  IsSeq(f) /\ DOMAIN f = DOMAIN ss
<1>1. Len(ss) \in Nat /\ DOMAIN ss = 1..Len(ss)
  BY SeqHolds
<1> QED BY <1>1, FunSeq

\* A list of clean texts in brackets is clean.
LEMMA CleanBracketed ==
  ASSUME NEW I, NEW items, CleanAll(items, I)
  PROVE  Clean(Bracketed(items), I)
<1>1. Clean(Joined(items, Comma), I) /\ Clean(<<Open>>, I) /\ Clean(<<Close>>, I)
  BY CleanJoined, CleanTokens
<1> QED BY <1>1, CleanConcat DEF Bracketed

\* So is a list of clean names.
LEMMA CleanSymbolList ==
  ASSUME NEW I, NEW symbols, CleanNames(symbols, I)
  PROVE  Clean(SymbolList(symbols), I)
<1> DEFINE f == [i \in DOMAIN symbols |-> SymbolText(symbols[i])]
<1>1. IsSeq(symbols) /\ \A i \in DOMAIN symbols : Clean(f[i], I)
  BY CleanSymbols DEF CleanNames
<1>2. f = [i \in DOMAIN symbols |-> f[i]] /\ SymbolList(symbols) = Bracketed(f)
  BY DEF SymbolList
<1> HIDE DEF f
<1>3. IsSeq(f) /\ DOMAIN f = DOMAIN symbols
  BY <1>1, <1>2, Mapped
<1> QED BY <1>1, <1>2, <1>3, CleanBracketed DEF CleanAll

\* A list that is read from a clean text has clean items.
LEMMA CleanList ==
  ASSUME NEW I, NEW text, Clean(text, I), ParseList(text).ok
  PROVE  CleanAll(ParseList(text).v, I)
<1> DEFINE inner == SubSeq(text, 2, Len(text) - 1)
           items == IF inner = <<>> THEN <<>> ELSE SplitAll(inner, Comma)
<1>1. ParseList(text) = Got(items)
  <2>1. ParseList(text) = Err \/ ParseList(text) = Got(items)
    BY Zenon DEF ParseList
  <2> QED BY <2>1, Readings, Zenon
<1>2. Clean(inner, I)
  <2>1. Len(text) \in Nat
    BY SeqHolds DEF Clean
  <2>2. 2 \in Nat \ {0} /\ Len(text) - 1 \in Int /\ Len(text) - 1 <= Len(text)
    BY <2>1
  <2> QED BY <2>2, CleanPart
<1> HIDE DEF inner
<1>3. CleanAll(SplitAll(inner, Comma), I)
  BY <1>2, CleanSplitAll
<1>4. CleanAll(<<>>, I)
  BY ShortSeqs, SMT DEF CleanAll
<1> QED BY <1>1, <1>3, <1>4, Readings

\* A list of names that is read from a clean text has clean names.
LEMMA CleanNameList ==
  ASSUME NEW I, NEW text, Clean(text, I), ParseSymbolList(text).ok
  PROVE  CleanNames(ParseSymbolList(text).v, I)
<1> DEFINE items == ParseList(text).v
           f == [i \in DOMAIN items |-> ParseSymbol(items[i])]
<1>1. ParseList(text).ok /\ ParseSymbolList(text) = Got(f)
  <2>1. ParseSymbolList(text) = IF ParseList(text).ok THEN Got(f) ELSE Err
    BY Zenon DEF ParseSymbolList, Then
  <2> QED BY <2>1, Readings, Zenon
<1>2. CleanAll(items, I)
  BY <1>1, CleanList
<1> HIDE DEF items
<1>3. IsSeq(items) /\ \A i \in DOMAIN items : CleanName(f[i], I)
  BY <1>2, CleanSymbols DEF CleanAll
<1>4. f = [i \in DOMAIN items |-> f[i]]
  OBVIOUS
<1> HIDE DEF f
<1>5. IsSeq(f) /\ DOMAIN f = DOMAIN items
  BY <1>3, <1>4, Mapped
<1> QED BY <1>1, <1>3, <1>5, Readings DEF CleanNames

\* The lines of a text.
LEMMA CleanLines ==
  ASSUME NEW I, NEW text, Clean(text, I)
  PROVE  CleanAll(Lines(text), I)
<1> DEFINE pieces == SplitAll(text, Newline)
<1>1. CleanAll(pieces, I)
  BY CleanSplitAll
<1>2. Lines(text) = IF Last(pieces) = <<>> THEN Front(pieces) ELSE pieces
  BY DEF Lines
<1> HIDE DEF pieces
<1>3. CleanAll(Front(pieces), I)
  <2>1. IsSeq(pieces) /\ Len(pieces) \in Nat
    BY <1>1, SeqHolds DEF CleanAll
  <2>2. Len(pieces) - 1 \in Int /\ Len(pieces) - 1 <= Len(pieces) /\ 1 \in Nat \ {0}
    BY <2>1
  <2>3. IsSeq(Front(pieces)) /\ ToSet(Front(pieces)) \subseteq ToSet(pieces)
    BY <2>1, <2>2, PartHolds DEF Front
  <2> QED BY <1>1, <2>3 DEF CleanAll, ToSet
<1> QED BY <1>1, <1>2, <1>3

(***************************************************************************)
(* Clean packets are written as clean texts.                               *)
(***************************************************************************)

CleanBody(body, I) ==
  IsSeq(body) /\ \A i \in DOMAIN body : CleanName(body[i].id, I) /\ CleanName(body[i].kind, I)

CleanEntry(entry, I) == CleanName(entry[1], I) /\ Clean(entry[2], I)
CleanWarrant(w, I) ==
  w # NoWarrant => /\ Clean(w.moves, I) /\ Clean(w.frames, I) /\ IsSeq(w.parts)
                   /\ \A i \in DOMAIN w.parts : CleanEntry(w.parts[i], I)

CleanPacket(p, I) ==
  /\ DOMAIN p = PacketFields
  /\ Clean(p.cid, I) /\ Clean(p.from, I) /\ Clean(p.card, I)
  /\ CleanName(p.move, I) /\ CleanName(p.role, I) /\ CleanName(p.task, I) /\ CleanName(p.output, I)
  /\ CleanName(p.author, I)
  /\ CleanAll(p.to, I) /\ CleanAll(p.parents, I) /\ CleanNames(p.ceiling, I) /\ CleanNames(p.context, I)
  /\ CleanBody(p.body, I) /\ CleanWarrant(p.warrant, I)

\* Lists of clean texts.
LEMMA CleanLists ==
  ASSUME NEW I
  PROVE  /\ CleanAll(<<>>, I)
         /\ \A s : Clean(s, I) => CleanAll(<<s>>, I)
         /\ \A ss, tt : CleanAll(ss, I) /\ CleanAll(tt, I) => CleanAll(ss \o tt, I)
<1>1. CleanAll(<<>>, I)
  BY ShortSeqs, SMT DEF CleanAll
<1>2. ASSUME NEW s, Clean(s, I) PROVE CleanAll(<<s>>, I)
  <2>1. IsSeq(<<s>>) /\ DOMAIN <<s>> = {1} /\ <<s>>[1] = s
    BY ShortSeqs
  <2> QED BY <1>2, <2>1 DEF CleanAll
<1>3. ASSUME NEW ss, NEW tt, CleanAll(ss, I), CleanAll(tt, I) PROVE CleanAll(ss \o tt, I)
  <2>1. IsSeq(ss \o tt) /\ ToSet(ss \o tt) \subseteq ToSet(ss) \cup ToSet(tt)
    BY <1>3, ConcatHolds DEF CleanAll
  <2>2. \A s \in ToSet(ss) \cup ToSet(tt) : Clean(s, I)
    BY <1>3 DEF CleanAll, ToSet
  <2>3. ASSUME NEW i \in DOMAIN (ss \o tt) PROVE (ss \o tt)[i] \in ToSet(ss \o tt)
    BY DEF ToSet
  <2> QED BY <2>1, <2>2, <2>3 DEF CleanAll
<1> QED BY <1>1, <1>2, <1>3

\* Two clean texts, or three, are a clean list.
LEMMA FewLines ==
  ASSUME NEW I, NEW a, NEW b, NEW c, Clean(a, I), Clean(b, I), Clean(c, I)
  PROVE  CleanAll(<<a, b>>, I) /\ CleanAll(<<a, b, c>>, I)
<1> DEFINE s == <<a, b>>
           t == <<a, b, c>>
<1>1. s = [i \in 1..2 |-> s[i]] /\ t = [i \in 1..3 |-> t[i]]
  OBVIOUS
<1>2. s[1] = a /\ s[2] = b /\ t[1] = a /\ t[2] = b /\ t[3] = c
  OBVIOUS
<1> HIDE DEF s, t
<1>3. IsSeq(s) /\ DOMAIN s = 1..2 /\ IsSeq(t) /\ DOMAIN t = 1..3
  BY <1>1, FunSeq
<1>4. (\A i \in 1..2 : Clean(s[i], I)) /\ \A i \in 1..3 : Clean(t[i], I)
  <2>1. 1..2 = {1, 2} /\ 1..3 = {1, 2, 3}
    OBVIOUS
  <2> QED BY <1>2, <2>1
<1> QED BY <1>3, <1>4 DEF CleanAll, s, t

\* So are the twelve lines above the parts.
LEMMA TwelveLines ==
  ASSUME NEW I, NEW a, NEW b, NEW c, NEW d, NEW e, NEW f, NEW g, NEW h, NEW j, NEW k, NEW l, NEW m,
         Clean(a, I), Clean(b, I), Clean(c, I), Clean(d, I), Clean(e, I), Clean(f, I),
         Clean(g, I), Clean(h, I), Clean(j, I), Clean(k, I), Clean(l, I), Clean(m, I)
  PROVE  CleanAll(<<a, b, c, d, e, f, g, h, j, k, l, m>>, I)
<1> DEFINE s == <<a, b, c, d, e, f, g, h, j, k, l, m>>
<1>1. s = [i \in 1..12 |-> s[i]]
  OBVIOUS
<1>2. /\ s[1] = a /\ s[2] = b /\ s[3] = c /\ s[4] = d /\ s[5] = e /\ s[6] = f
      /\ s[7] = g /\ s[8] = h /\ s[9] = j /\ s[10] = k /\ s[11] = l /\ s[12] = m
  OBVIOUS
<1> HIDE DEF s
<1>3. IsSeq(s) /\ DOMAIN s = 1..12
  BY <1>1, FunSeq
<1>4. \A i \in 1..12 : i \in {1, 2, 3, 4, 5, 6, 7, 8, 9, 10, 11, 12}
  OBVIOUS
<1>5. \A i \in 1..12 : Clean(s[i], I)
  BY <1>2, <1>4
<1> QED BY <1>3, <1>5 DEF CleanAll, s

\* Keys and values.
LEMMA CleanKeyed ==
  ASSUME NEW I, NEW value, Clean(value, I)
  PROVE  \A key : Clean(Line(key, value), I) /\ Clean(Pair(key, value), I) /\ Clean(OrNil(value), I)
<1> SUFFICES ASSUME NEW key
             PROVE  Clean(Line(key, value), I) /\ Clean(Pair(key, value), I) /\ Clean(OrNil(value), I)
  OBVIOUS
<1>1. Clean(Word(key), I) /\ Clean(<<Space>>, I) /\ Clean(<<Equals>>, I) /\ Clean(Word("nil"), I)
  BY CleanTokens
<1> QED BY <1>1, CleanConcat DEF Line, Pair, OrNil

\* The line of a part with clean names is clean, whatever its payload.
LEMMA CleanPartLine ==
  ASSUME NEW I, NEW part, CleanName(part.id, I), CleanName(part.kind, I)
  PROVE  Clean(PartLine(part), I)
<1> DEFINE name == part.kind.name
           key == [i \in DOMAIN name |-> IF name[i].word \in DOMAIN Upper THEN [word |-> Upper[name[i].word]] ELSE name[i]]
<1>1. Keyword(part.kind) = key
  BY DEF Keyword
<1>2. IsSeq(name) /\ \A i \in DOMAIN name : Vouched(name[i], I)
  BY DEF CleanName, Clean, ToSet
<1>3. \A i \in DOMAIN name : Vouched(key[i], I)
  <2>1. \A x : Vouched([word |-> x], I)
    BY CleanTokens
  <2> QED BY <1>2, <2>1, Zenon
<1>4. key = [i \in DOMAIN name |-> key[i]]
  OBVIOUS
<1> HIDE DEF key, name
<1>5. IsSeq(key) /\ DOMAIN key = DOMAIN name
  BY <1>2, <1>4, Mapped
<1>6. Clean(key, I)
  BY <1>3, <1>5 DEF Clean, ToSet
<1>7. Clean(SymbolText(part.id), I)
  BY CleanSymbols
<1>8. PICK j : j = [json |-> ExprToJson(part.payload)]
  OBVIOUS
<1>9. Clean(<<j>>, I) /\ Clean(Word("payload="), I) /\ Clean(<<Space>>, I)
  BY <1>8, CleanTokens, Zenon
<1>10. PartLine(part) = key \o <<Space>> \o SymbolText(part.id) \o <<Space>> \o Word("payload=") \o <<j>>
  BY <1>1, <1>8 DEF PartLine
<1> QED BY <1>6, <1>7, <1>9, <1>10, CleanConcat

\* A clean warrant is written as a clean text.
LEMMA CleanWarrantText ==
  ASSUME NEW I, NEW w, CleanWarrant(w, I), w # NoWarrant
  PROVE  Clean(WarrantText(w), I)
<1> DEFINE f == [i \in DOMAIN w.parts |-> SymbolText(w.parts[i][1]) \o <<Equals>> \o w.parts[i][2]]
<1>1. /\ Clean(w.moves, I) /\ Clean(w.frames, I) /\ IsSeq(w.parts)
      /\ \A i \in DOMAIN w.parts : CleanName(w.parts[i][1], I) /\ Clean(w.parts[i][2], I)
  BY DEF CleanWarrant, CleanEntry
<1>2. ASSUME NEW i \in DOMAIN w.parts PROVE Clean(f[i], I)
  <2>1. Clean(SymbolText(w.parts[i][1]), I) /\ Clean(<<Equals>>, I) /\ Clean(w.parts[i][2], I)
    BY <1>1, CleanSymbols, CleanTokens
  <2> QED BY <2>1, CleanConcat
<1>3. f = [i \in DOMAIN w.parts |-> f[i]]
  OBVIOUS
<1> HIDE DEF f
<1>4. CleanAll(f, I)
  BY <1>1, <1>2, <1>3, Mapped DEF CleanAll
<1> DEFINE a == Pair("moves", w.moves)
           b == Pair("frames", w.frames)
           c == Pair("parts", Bracketed(f))
<1>5. Clean(a, I) /\ Clean(b, I) /\ Clean(c, I)
  BY <1>1, <1>4, CleanKeyed, CleanBracketed
<1>6. WarrantText(w) = Joined(<<a, b, c>>, Space)
  BY DEF WarrantText, f
<1> HIDE DEF a, b, c
<1>7. CleanAll(<<a, b, c>>, I)
  BY <1>5, FewLines
<1> QED BY <1>6, <1>7, CleanJoined, CleanTokens

\* A clean packet has clean lines.
LEMMA CleanPacketLines ==
  ASSUME NEW I, NEW p, CleanPacket(p, I)
  PROVE  CleanAll(PacketLines(p), I)
<1> DEFINE prov == <<Pair("author", SymbolText(p.author)), Pair("card", OrNil(p.card))>>
           head == <<Word("BRIDGE/1"), Line("CID", OrNil(p.cid)), Line("MOVE", SymbolText(p.move)), Line("FROM", p.from),
    Line("TO", Bracketed(p.to)), Line("ROLE", SymbolText(p.role)), Line("PARENTS", Bracketed(p.parents)),
    Line("TASK", SymbolText(p.task)), Line("OUTPUT", SymbolText(p.output)), Line("CEIL", SymbolList(p.ceiling)),
    Line("CONTEXT", SymbolList(p.context)), Line("PROV", Joined(prov, Space))>>
           warrant == IF p.warrant = NoWarrant THEN <<>> ELSE <<Line("WARRANT", WarrantText(p.warrant))>>
           body == [i \in DOMAIN p.body |-> PartLine(p.body[i])]
<1>1. PacketLines(p) = head \o warrant \o <<Word("BODY")>> \o body \o <<Word("END")>>
  BY DEF PacketLines
<1>2. CleanAll(prov, I)
  <2>1. Clean(Pair("author", SymbolText(p.author)), I) /\ Clean(Pair("card", OrNil(p.card)), I)
    BY CleanSymbols, CleanKeyed DEF CleanPacket
  <2> QED BY <2>1, FewLines
<1>3. CleanAll(head, I)
  <2> HIDE DEF prov
  <2>1. Clean(Word("BRIDGE/1"), I) /\ Clean(Joined(prov, Space), I)
    BY <1>2, CleanJoined, CleanTokens
  <2>2. /\ Clean(SymbolText(p.move), I) /\ Clean(SymbolText(p.role), I)
        /\ Clean(SymbolText(p.task), I) /\ Clean(SymbolText(p.output), I)
    BY CleanSymbols DEF CleanPacket
  <2>3. /\ Clean(Bracketed(p.to), I) /\ Clean(Bracketed(p.parents), I)
        /\ Clean(SymbolList(p.ceiling), I) /\ Clean(SymbolList(p.context), I)
    BY CleanBracketed, CleanSymbolList DEF CleanPacket
  <2>4. Clean(OrNil(p.cid), I) /\ Clean(p.from, I)
    BY CleanKeyed DEF CleanPacket
  <2> HIDE DEF CleanPacket
  <2>5. \A key, value : Clean(value, I) => Clean(Line(key, value), I)
    BY CleanKeyed
  <2> QED BY <2>1, <2>2, <2>3, <2>4, <2>5, TwelveLines
<1>4. CleanAll(warrant, I)
  BY CleanWarrantText, CleanKeyed, CleanLists DEF CleanPacket
<1>5. CleanAll(body, I)
  <2>1. IsSeq(p.body) /\ \A i \in DOMAIN p.body : Clean(body[i], I)
    BY CleanPartLine DEF CleanPacket, CleanBody
  <2>2. body = [i \in DOMAIN p.body |-> body[i]]
    OBVIOUS
  <2> HIDE DEF body
  <2> QED BY <2>1, <2>2, Mapped DEF CleanAll
<1> HIDE DEF head, warrant, body
<1>6. CleanAll(<<Word("BODY")>>, I) /\ CleanAll(<<Word("END")>>, I)
  BY CleanTokens, CleanLists
<1>7. \A ss, tt : CleanAll(ss, I) /\ CleanAll(tt, I) => CleanAll(ss \o tt, I)
  BY CleanLists
<1>8. CleanAll(head \o warrant \o <<Word("BODY")>> \o body \o <<Word("END")>>, I)
  BY <1>3, <1>4, <1>5, <1>6, <1>7, Zenon
<1> QED BY <1>1, <1>8

\* A clean packet is written as a clean text.
LEMMA CleanEncoded ==
  ASSUME NEW I, NEW p, CleanPacket(p, I), NEW book, EncodeText(p, book).ok
  PROVE  Clean(EncodeText(p, book).v, I)
<1>1. EncodeText(p, book).v = Joined(PacketLines(p), Newline) \o <<Newline>>
  BY EncodedIsValid
<1>2. Clean(Joined(PacketLines(p), Newline), I) /\ Clean(<<Newline>>, I)
  BY CleanPacketLines, CleanJoined, CleanTokens
<1> QED BY <1>1, <1>2, CleanConcat

(***************************************************************************)
(* Clean texts are read as clean packets.                                  *)
(***************************************************************************)

\* The first and the last place of several.
LEMMA FirstLast ==
  ASSUME NEW n \in Nat, NEW S, S \subseteq 1..n, S # {}
  PROVE  Min(S) \in S /\ Max(S) \in S
<1>1. S \subseteq Nat /\ S \subseteq 0..n
  OBVIOUS
<1>2. \E x \in S : \A y \in S : x <= y
  BY <1>1, LeastElement
<1>3. \E x \in S : \A y \in S : x >= y
  <2>1. PICK x \in S : \A y \in S : y <= x
    BY <1>1, GreatestElement
  <2>2. \A y \in S : x >= y
    BY <1>1, <2>1
  <2> QED BY <2>2
<1> QED BY <1>2, <1>3, Zenon DEF Min, Max

\* The values of keys in a clean text are clean.
LEMMA CleanItems ==
  ASSUME NEW I, NEW text, Clean(text, I), NEW keys, ParseItems(text, keys).ok
  PROVE  \A k \in keys : Clean(ParseItems(text, keys).v[k], I)
<1> DEFINE items == SplitAll(text, Space)
           halves == [i \in DOMAIN items |-> SplitOnce(items[i], Equals)]
           At(k) == {i \in DOMAIN halves : halves[i].v[1] = Word(k)}
           r == [k \in keys |-> halves[Max(At(k))].v[2]]
<1>1. /\ \A i \in DOMAIN halves : halves[i].ok
      /\ {halves[i].v[1] : i \in DOMAIN halves} = {Word(k) : k \in keys}
      /\ ParseItems(text, keys) = Got(r)
  <2>1. ParseItems(text, keys) =
          IF ~\A i \in DOMAIN halves : halves[i].ok THEN Err
          ELSE IF {halves[i].v[1] : i \in DOMAIN halves} # {Word(k) : k \in keys} THEN Err ELSE Got(r)
    BY DEF ParseItems
  <2> HIDE DEF r, halves
  <2> QED BY <2>1, Readings, Zenon
<1>2. CleanAll(items, I)
  BY CleanSplitAll
<1> HIDE DEF items
<1>3. DOMAIN halves = DOMAIN items /\ Len(items) \in Nat /\ DOMAIN items = 1..Len(items)
  BY <1>2, SeqHolds DEF CleanAll
<1>4. ASSUME NEW i \in DOMAIN halves PROVE Clean(halves[i].v[2], I)
  <2>1. halves[i].ok /\ halves[i] = SplitOnce(items[i], Equals) /\ Clean(items[i], I)
    BY <1>1, <1>2, <1>3 DEF CleanAll
  <2> QED BY <2>1, CleanSplitOnce
<1> HIDE DEF halves
<1>5. ASSUME NEW k \in keys PROVE Max(At(k)) \in DOMAIN halves
  <2>1. Word(k) \in {halves[i].v[1] : i \in DOMAIN halves}
    BY <1>1
  <2>2. At(k) # {} /\ At(k) \subseteq 1..Len(items)
    BY <1>3, <2>1
  <2>3. At(k) \subseteq DOMAIN halves
    OBVIOUS
  <2> HIDE DEF At
  <2>4. Max(At(k)) \in At(k)
    BY <1>3, <2>2, FirstLast
  <2> QED BY <2>3, <2>4
<1> HIDE DEF At
<1>6. \A k \in keys : r[k] = halves[Max(At(k))].v[2]
  OBVIOUS
<1> HIDE DEF r
<1>7. ParseItems(text, keys).v = r
  BY <1>1, Readings
<1> QED BY <1>4, <1>5, <1>6, <1>7

\* A content id is taken as it is.
LEMMA CleanContentId ==
  ASSUME NEW text, ParseContentId(text).ok
  PROVE  ParseContentId(text).v = text
BY Readings, Zenon DEF ParseContentId

\* A part of a warrant that is read from a clean text is clean.
LEMMA CleanWarrantPart ==
  ASSUME NEW I, NEW item, Clean(item, I), ParseWarrantPart(item).ok
  PROVE  CleanEntry(ParseWarrantPart(item).v, I)
<1> DEFINE halves == SplitOnce(item, Equals)
           id == ParseContentId(halves.v[2])
           entry == <<ParseSymbol(halves.v[1]), id.v>>
<1>1. halves.ok /\ id.ok /\ ParseWarrantPart(item) = Got(entry)
  <2> HIDE DEF halves, id, entry
  <2>1. ParseWarrantPart(item) = IF halves.ok THEN IF id.ok THEN Got(entry) ELSE Err ELSE Err
    BY Zenon DEF ParseWarrantPart, Then, halves, id, entry
  <2> QED BY <2>1, Readings, Zenon
<1>2. Clean(halves.v[1], I) /\ Clean(halves.v[2], I)
  BY <1>1, CleanSplitOnce
<1>3. CleanName(ParseSymbol(halves.v[1]), I) /\ id.v = halves.v[2]
  BY <1>1, <1>2, CleanSymbols, CleanContentId
<1> HIDE DEF halves, id
<1>4. entry[1] = ParseSymbol(halves.v[1]) /\ entry[2] = id.v
  OBVIOUS
<1> HIDE DEF entry
<1> QED BY <1>1, <1>2, <1>3, <1>4, Readings DEF CleanEntry

\* A warrant that is read from a clean text is clean.
LEMMA CleanParsedWarrant ==
  ASSUME NEW I, NEW text, Clean(text, I), ParseWarrant(text).ok
  PROVE  CleanWarrant(ParseWarrant(text).v, I)
<1> DEFINE keys == {"moves", "frames", "parts"}
           w == ParseItems(text, keys)
           moves == ParseContentId(w.v["moves"])
           frames == ParseContentId(w.v["frames"])
           items == ParseList(w.v["parts"])
           each == [i \in DOMAIN items.v |-> ParseWarrantPart(items.v[i])]
           parts == All(each)
           r == [moves |-> moves.v, frames |-> frames.v, parts |-> parts.v]
<1>1. w.ok /\ moves.ok /\ frames.ok /\ items.ok /\ parts.ok /\ ParseWarrant(text) = Got(r)
  <2> HIDE DEF w, moves, frames, items, parts, r
  <2>1. ParseWarrant(text) =
          IF w.ok THEN IF moves.ok THEN IF frames.ok THEN IF items.ok THEN IF parts.ok THEN Got(r)
          ELSE Err ELSE Err ELSE Err ELSE Err ELSE Err
    BY Zenon DEF ParseWarrant, Then, w, moves, frames, items, parts, r
  <2> QED BY <2>1, Readings, Zenon
<1>2. Clean(w.v["moves"], I) /\ Clean(w.v["frames"], I) /\ Clean(w.v["parts"], I)
  <2> HIDE DEF keys
  <2>1. \A k \in keys : Clean(w.v[k], I)
    BY <1>1, CleanItems
  <2> QED BY <2>1 DEF keys
<1>3. Clean(moves.v, I) /\ Clean(frames.v, I)
  BY <1>1, <1>2, CleanContentId
<1>4. CleanAll(items.v, I)
  BY <1>1, <1>2, CleanList
<1> HIDE DEF w, moves, frames, items
<1>5. (\A i \in DOMAIN each : each[i].ok) /\ parts.v = [i \in DOMAIN each |-> each[i].v]
  <2> HIDE DEF each
  <2> QED BY <1>1, AllRead
<1> HIDE DEF parts
<1>6. IsSeq(parts.v) /\ \A i \in DOMAIN parts.v : CleanEntry(parts.v[i], I)
  <2>1. IsSeq(items.v) /\ DOMAIN each = DOMAIN items.v
    BY <1>4 DEF CleanAll
  <2>2. \A i \in DOMAIN items.v : CleanEntry(each[i].v, I)
    BY <1>4, <1>5, CleanWarrantPart DEF CleanAll
  <2> HIDE DEF each
  <2>3. parts.v = [i \in DOMAIN items.v |-> parts.v[i]] /\ \A i \in DOMAIN items.v : parts.v[i] = each[i].v
    BY <1>5, <2>1
  <2>4. IsSeq(parts.v) /\ DOMAIN parts.v = DOMAIN items.v
    BY <2>1, <2>3, Mapped
  <2> QED BY <2>2, <2>3, <2>4
<1>7. r.moves = moves.v /\ r.frames = frames.v /\ r.parts = parts.v
  OBVIOUS
<1> HIDE DEF r
<1> QED BY <1>1, <1>3, <1>6, <1>7, Readings DEF CleanWarrant

\* The kind of a clean keyword is clean.
LEMMA CleanKind ==
  ASSUME NEW I, NEW keyword, Clean(keyword, I)
  PROVE  CleanName(KindOf(keyword), I)
<1> DEFINE name == [i \in DOMAIN keyword |->
              IF keyword[i].word \in DOMAIN Proper THEN [word |-> Proper[keyword[i].word]] ELSE keyword[i]]
<1>1. IsSeq(keyword) /\ \A i \in DOMAIN keyword : Vouched(keyword[i], I)
  BY DEF Clean, ToSet
<1>2. \A i \in DOMAIN keyword : Vouched(name[i], I)
  <2>1. \A x : Vouched([word |-> x], I)
    BY CleanTokens
  <2> QED BY <1>1, <2>1, Zenon
<1>3. name = [i \in DOMAIN keyword |-> name[i]]
  OBVIOUS
<1>4. KindOf(keyword) = Symbol(Word("bridge"), name)
  BY DEF KindOf
<1> HIDE DEF name
<1>5. IsSeq(name) /\ DOMAIN name = DOMAIN keyword
  BY <1>1, <1>3, Mapped
<1>6. Clean(name, I) /\ Clean(Word("bridge"), I)
  BY <1>2, <1>5, CleanTokens DEF Clean, ToSet
<1> QED BY <1>4, <1>6, CleanSymbols

\* A part that is read from a clean line has clean names.
LEMMA CleanParsedPart ==
  ASSUME NEW I, NEW line, Clean(line, I), NEW book, ParsePart(line, book).ok
  PROVE  CleanName(ParsePart(line, book).v.id, I) /\ CleanName(ParsePart(line, book).v.kind, I)
<1> DEFINE first == SplitOnce(line, Space)
           second == SplitOnce(first.v[2], Space)
           kind == KindOf(first.v[1])
           rest == second.v[2]
           payload == JsonToExpr(rest[2].json)
           part == Part(ParseSymbol(second.v[1]), kind, payload.v)
<1>1. first.ok /\ second.ok /\ ParsePart(line, book) = Got(part)
  <2> HIDE DEF first, second, kind, rest, payload, part
  <2>1. ParsePart(line, book) =
          IF first.ok
          THEN IF second.ok
               THEN IF kind \notin DOMAIN PartBooks[book.parts] \/ Len(rest) # 2 THEN Err
                    ELSE IF rest[1] # Word("payload=")[1] \/ "json" \notin DOMAIN rest[2] THEN Err
                    ELSE IF payload.ok THEN Got(part) ELSE Err
               ELSE Err
          ELSE Err
    BY Zenon DEF ParsePart, Then, first, second, kind, rest, payload, part
  <2> QED BY <2>1, Readings, Zenon
<1>2. Clean(first.v[1], I) /\ Clean(first.v[2], I)
  BY <1>1, CleanSplitOnce
<1>3. Clean(second.v[1], I)
  <2> HIDE DEF first
  <2> QED BY <1>1, <1>2, CleanSplitOnce
<1>4. CleanName(kind, I) /\ CleanName(ParseSymbol(second.v[1]), I)
  BY <1>2, <1>3, CleanKind, CleanSymbols
<1>5. part.id = ParseSymbol(second.v[1]) /\ part.kind = kind
  BY DEF Part
<1> HIDE DEF part, kind, second
<1> QED BY <1>1, <1>4, <1>5, Readings

\* Every header line is known and comes once, so that the headers hold the
\* values of the lines.
LEMMA CleanHeaders ==
  ASSUME NEW I, NEW lines, CleanAll(lines, I), ParseHeaders(lines).ok
  PROVE  LET h == ParseHeaders(lines).v
         IN  HeaderKeys \subseteq DOMAIN h /\ \A k \in DOMAIN h : Clean(h[k], I)
<1> DEFINE halves == [i \in DOMAIN lines |-> SplitOnce(lines[i], Space)]
           all == All(halves)
           H(x) == [k \in {x[i][1][1].word : i \in DOMAIN x} |-> x[CHOOSE i \in DOMAIN x : x[i][1] = Word(k)][2]]
           x == all.v
<1>1. /\ all.ok /\ ParseHeaders(lines) = Got(H(x))
      /\ \A i \in DOMAIN x : Known(x[i][1])
      /\ \A k \in HeaderKeys : \E i \in DOMAIN x : x[i][1] = Word(k)
  <2> DEFINE Bad(y) == \/ \E i \in DOMAIN y : ~Known(y[i][1])
                       \/ \E i, j \in DOMAIN y : i < j /\ y[i][1] = y[j][1]
                       \/ \E k \in HeaderKeys : ~\E i \in DOMAIN y : y[i][1] = Word(k)
  <2> HIDE DEF all, H, Bad
  <2>1. ParseHeaders(lines) = IF all.ok THEN IF Bad(x) THEN Err ELSE Got(H(x)) ELSE Err
    BY Zenon DEF ParseHeaders, Then, all, H, Bad
  <2>2. all.ok /\ ~Bad(x) /\ ParseHeaders(lines) = Got(H(x))
    BY <2>1, Readings, Zenon
  <2> QED BY <2>2 DEF Bad
<1>2. (\A i \in DOMAIN halves : halves[i].ok) /\ x = [i \in DOMAIN halves |-> halves[i].v]
  <2> HIDE DEF halves
  <2> QED BY <1>1, AllRead
<1>3. DOMAIN x = DOMAIN lines /\ \A i \in DOMAIN lines : Clean(x[i][1], I) /\ Clean(x[i][2], I)
  <2>1. \A i \in DOMAIN lines : x[i] = SplitOnce(lines[i], Space).v /\ SplitOnce(lines[i], Space).ok
    BY <1>2
  <2>2. \A i \in DOMAIN lines : Clean(lines[i], I)
    BY DEF CleanAll
  <2>3. DOMAIN x = DOMAIN lines
    BY <1>2
  <2> HIDE DEF x
  <2> QED BY <2>1, <2>2, <2>3, CleanSplitOnce
<1> HIDE DEF all, x
<1>4. \A i \in DOMAIN x : x[i][1] = Word(x[i][1][1].word)
  <2> SUFFICES ASSUME NEW i \in DOMAIN x PROVE x[i][1] = Word(x[i][1][1].word)
    OBVIOUS
  <2>1. PICK k : x[i][1] = Word(k)
    BY <1>1 DEF Known
  <2>2. Word(k)[1].word = k
    BY DEF Word
  <2> QED BY <2>1, <2>2
<1>5. HeaderKeys \subseteq DOMAIN H(x)
  <2> SUFFICES ASSUME NEW k \in HeaderKeys PROVE k \in {x[i][1][1].word : i \in DOMAIN x}
    OBVIOUS
  <2>1. PICK i \in DOMAIN x : x[i][1] = Word(k)
    BY <1>1
  <2>2. Word(k)[1].word = k
    BY DEF Word
  <2> QED BY <2>1, <2>2
<1>6. ASSUME NEW k \in DOMAIN H(x) PROVE Clean(H(x)[k], I)
  <2>1. \E i \in DOMAIN x : x[i][1] = Word(k)
    BY <1>4
  <2>2. PICK i \in DOMAIN x : i = CHOOSE j \in DOMAIN x : x[j][1] = Word(k)
    BY <2>1
  <2>3. H(x)[k] = x[i][2]
    BY <2>2
  <2> HIDE DEF H
  <2> QED BY <1>3, <2>3
<1> HIDE DEF H
<1> QED BY <1>1, <1>5, <1>6, Readings

\* The fields of what is read from header lines and part lines.
LEMMA CleanParsed ==
  ASSUME NEW I, NEW h, HeaderKeys \subseteq DOMAIN h, \A k \in DOMAIN h : Clean(h[k], I),
         NEW lines, CleanAll(lines, I), NEW book, ParsePacket(h, lines, book).ok
  PROVE  CleanPacket(ParsePacket(h, lines, book).v, I)
<1> DEFINE each == [i \in DOMAIN lines |-> ParsePart(lines[i], book)]
           body == All(each)
           to == ParseList(h["TO"])
           parents == ParseList(h["PARENTS"])
           ceiling == ParseSymbolList(h["CEIL"])
           context == ParseSymbolList(h["CONTEXT"])
           keys == {"author", "card"}
           prov == ParseItems(h["PROV"], keys)
           warrant == IF "WARRANT" \in DOMAIN h THEN ParseWarrant(h["WARRANT"]) ELSE Got(NoWarrant)
           cid == ParseCid(h["CID"])
           card == IF prov.v["card"] = Word("nil") THEN <<>> ELSE prov.v["card"]
           r == [cid |-> cid, move |-> ParseSymbol(h["MOVE"]), from |-> h["FROM"], to |-> to.v,
                 role |-> ParseSymbol(h["ROLE"]), parents |-> parents.v, task |-> ParseSymbol(h["TASK"]),
                 output |-> ParseSymbol(h["OUTPUT"]), ceiling |-> ceiling.v, context |-> context.v,
                 author |-> ParseSymbol(prov.v["author"]), card |-> card, body |-> body.v, warrant |-> warrant.v]
<1>1. /\ body.ok /\ to.ok /\ parents.ok /\ ceiling.ok /\ context.ok /\ prov.ok /\ warrant.ok
      /\ ParsePacket(h, lines, book) = Got(r)
  <2> HIDE DEF body, to, parents, ceiling, context, prov, warrant, r
  <2>1. ParsePacket(h, lines, book) =
          IF body.ok THEN IF to.ok THEN IF parents.ok THEN IF ceiling.ok THEN IF context.ok THEN IF prov.ok
          THEN IF warrant.ok THEN Got(r) ELSE Err ELSE Err ELSE Err ELSE Err ELSE Err ELSE Err ELSE Err
    BY Zenon DEF ParsePacket, Then, body, to, parents, ceiling, context, prov, warrant, r, cid, card
  <2> QED BY <2>1, Readings, Zenon
<1>2. \A k \in HeaderKeys : Clean(h[k], I)
  OBVIOUS
<1>3. /\ Clean(h["CID"], I) /\ Clean(h["MOVE"], I) /\ Clean(h["FROM"], I) /\ Clean(h["TO"], I)
      /\ Clean(h["ROLE"], I) /\ Clean(h["PARENTS"], I) /\ Clean(h["TASK"], I) /\ Clean(h["OUTPUT"], I)
      /\ Clean(h["CEIL"], I) /\ Clean(h["CONTEXT"], I) /\ Clean(h["PROV"], I)
  BY <1>2 DEF HeaderKeys
<1>4. Clean(cid, I)
  BY <1>3, CleanTokens DEF ParseCid
<1>5. /\ CleanName(ParseSymbol(h["MOVE"]), I) /\ CleanName(ParseSymbol(h["ROLE"]), I)
      /\ CleanName(ParseSymbol(h["TASK"]), I) /\ CleanName(ParseSymbol(h["OUTPUT"]), I)
  BY <1>3, CleanSymbols
<1>6. CleanAll(to.v, I) /\ CleanAll(parents.v, I)
  BY <1>1, <1>3, CleanList
<1>7. CleanNames(ceiling.v, I) /\ CleanNames(context.v, I)
  BY <1>1, <1>3, CleanNameList
<1>8. Clean(prov.v["author"], I) /\ Clean(prov.v["card"], I)
  <2> HIDE DEF keys
  <2>1. \A k \in keys : Clean(prov.v[k], I)
    BY <1>1, <1>3, CleanItems
  <2> QED BY <2>1 DEF keys
<1>9. CleanName(ParseSymbol(prov.v["author"]), I) /\ Clean(card, I)
  BY <1>8, CleanSymbols, CleanTokens
<1>10. CleanWarrant(warrant.v, I)
  BY <1>1, CleanParsedWarrant, Readings DEF CleanWarrant
<1>11. CleanBody(body.v, I)
  <2>1. (\A i \in DOMAIN each : each[i].ok) /\ body.v = [i \in DOMAIN each |-> each[i].v]
    <3> HIDE DEF each
    <3> QED BY <1>1, AllRead
  <2>2. IsSeq(lines) /\ DOMAIN each = DOMAIN lines
    BY DEF CleanAll
  <2>3. \A i \in DOMAIN lines : CleanName(each[i].v.id, I) /\ CleanName(each[i].v.kind, I)
    BY <2>1, CleanParsedPart DEF CleanAll
  <2> HIDE DEF each, body
  <2>4. body.v = [i \in DOMAIN lines |-> body.v[i]] /\ \A i \in DOMAIN lines : body.v[i] = each[i].v
    BY <2>1, <2>2
  <2>5. IsSeq(body.v) /\ DOMAIN body.v = DOMAIN lines
    BY <2>2, <2>4, Mapped
  <2> QED BY <2>3, <2>4, <2>5 DEF CleanBody
<1> HIDE DEF each, body, to, parents, ceiling, context, prov, warrant, cid, card
<1>12. CleanPacket(r, I)
  <2>1. DOMAIN r = PacketFields
    BY DEF PacketFields
  <2>2. /\ r.cid = cid /\ r.move = ParseSymbol(h["MOVE"]) /\ r.from = h["FROM"] /\ r.to = to.v
        /\ r.role = ParseSymbol(h["ROLE"]) /\ r.parents = parents.v /\ r.task = ParseSymbol(h["TASK"])
        /\ r.output = ParseSymbol(h["OUTPUT"]) /\ r.ceiling = ceiling.v /\ r.context = context.v
        /\ r.author = ParseSymbol(prov.v["author"]) /\ r.card = card /\ r.body = body.v /\ r.warrant = warrant.v
    OBVIOUS
  <2> HIDE DEF r
  <2> QED BY <1>3, <1>4, <1>5, <1>6, <1>7, <1>9, <1>10, <1>11, <2>1, <2>2 DEF CleanPacket
<1> HIDE DEF r
<1> QED BY <1>1, <1>12, Readings

\* Lines that follow one another.
LEMMA CleanSomeLines ==
  ASSUME NEW I, NEW lines, CleanAll(lines, I), NEW m \in Nat \ {0}, NEW n \in Int, n <= Len(lines)
  PROVE  CleanAll(SubSeq(lines, m, n), I)
<1>1. IsSeq(SubSeq(lines, m, n)) /\ ToSet(SubSeq(lines, m, n)) \subseteq ToSet(lines)
  BY PartHolds DEF CleanAll
<1> QED BY <1>1 DEF CleanAll, ToSet

\* A packet that is decoded from a clean text is clean.
LEMMA CleanDecoded ==
  ASSUME NEW I, NEW text, Clean(text, I), NEW book, DecodeText(text, book).ok
  PROVE  CleanPacket(DecodeText(text, book).v, I)
<1> DEFINE lines == Lines(text)
           ends == {i \in 2..Len(lines) : lines[i] = Word("END")}
           end == Min(ends)
           bodies == {i \in 2..(end - 1) : lines[i] = Word("BODY")}
           start == Min(bodies)
           heads == SubSeq(lines, 2, start - 1)
           parts == SubSeq(lines, start + 1, end - 1)
           h == ParseHeaders(heads)
           packet == ParsePacket(h.v, parts, book)
<1>1. /\ ends # {} /\ Cardinality(bodies) = 1 /\ h.ok /\ packet.ok
      /\ DecodeText(text, book) = Got(packet.v)
  <2> HIDE DEF lines, ends, end, bodies, start, heads, parts, h, packet
  <2>1. \/ DecodeText(text, book) = Err
        \/ /\ ends # {} /\ Cardinality(bodies) = 1 /\ h.ok /\ packet.ok
           /\ DecodeText(text, book) = Got(packet.v)
    BY Zenon DEF DecodeText, Then, lines, ends, end, bodies, start, heads, parts, h, packet
  <2> QED BY <2>1, Readings, Zenon
<1>2. CleanAll(lines, I)
  BY CleanLines
<1> HIDE DEF lines
<1>3. Len(lines) \in Nat
  BY <1>2, SeqHolds DEF CleanAll
<1>4. end \in 2..Len(lines)
  <2>1. ends \subseteq 1..Len(lines) /\ ends \subseteq 2..Len(lines)
    OBVIOUS
  <2> HIDE DEF ends
  <2> QED BY <1>1, <1>3, <2>1, FirstLast
<1> HIDE DEF end
<1>5. start \in 2..(end - 1)
  <2>1. bodies \subseteq 1..Len(lines) /\ bodies \subseteq 2..(end - 1)
    BY <1>3, <1>4
  <2>2. bodies # {}
    <3>1. \A S : Cardinality(S) = 1 => S # {}
      BY FS_EmptySet
    <3> QED BY <1>1, <3>1, Zenon
  <2> HIDE DEF bodies
  <2> QED BY <1>3, <2>1, <2>2, FirstLast
<1> HIDE DEF start
<1>6. CleanAll(heads, I) /\ CleanAll(parts, I)
  <2>1. /\ 2 \in Nat \ {0} /\ start - 1 \in Int /\ start - 1 <= Len(lines)
        /\ start + 1 \in Nat \ {0} /\ end - 1 \in Int /\ end - 1 <= Len(lines)
    BY <1>3, <1>4, <1>5
  <2> QED BY <1>2, <2>1, CleanSomeLines
<1> HIDE DEF heads, parts
<1>7. HeaderKeys \subseteq DOMAIN h.v /\ \A k \in DOMAIN h.v : Clean(h.v[k], I)
  BY <1>1, <1>6, CleanHeaders
<1> HIDE DEF h
<1>8. CleanPacket(packet.v, I)
  BY <1>1, <1>6, <1>7, CleanParsed
<1> HIDE DEF packet
<1> QED BY <1>1, <1>8, Readings

(***************************************************************************)
(* Clean packets stay clean as expressions.                                *)
(***************************************************************************)

\* What expressions hold.
LEMMA Nodes1 ==
  /\ Nil.a = <<>> /\ Nil.t = "nil"
  /\ \A a : Text(a).a = a
  /\ \A s : SymbolExpr(s).ns = s.ns /\ SymbolExpr(s).a = s.name
  /\ \A items : Vector(items).items = items
  /\ \A entries : MapOf(entries).entries = entries /\ MapOf(entries).t = "map"
BY DEF Nil, Text, SymbolExpr, Vector, MapOf, Node

\* A field of a record whose fields have different names.
LEMMA FieldOfRecord ==
  ASSUME NEW n \in Nat, NEW fields, DOMAIN fields = 1..n, NEW k \in 1..n,
         \A j \in 1..n : fields[j][1] = fields[k][1] => j = k
  PROVE  Field(Record(fields), fields[k][1]) = fields[k][2]
<1> DEFINE e == Record(fields)
           name == fields[k][1]
           entries == [i \in DOMAIN fields |-> <<SymbolExpr(Plain(fields[i][1])), fields[i][2]>>]
<1>1. e.entries = entries
  BY Nodes1 DEF Record
<1>2. DOMAIN entries = 1..n
  OBVIOUS
<1>3. ASSUME NEW i \in 1..n
      PROVE  entries[i][1].a = Word(fields[i][1]) /\ entries[i][2] = fields[i][2]
  <2>1. entries[i][1] = SymbolExpr(Plain(fields[i][1])) /\ entries[i][2] = fields[i][2]
    OBVIOUS
  <2>2. SymbolExpr(Plain(fields[i][1])).a = Word(fields[i][1])
    BY Nodes1 DEF Plain, Symbol
  <2> QED BY <2>1, <2>2
<1> HIDE DEF e, entries
<1>4. \A x, y : Word(x) = Word(y) => x = y
  <2> SUFFICES ASSUME NEW x, NEW y, Word(x) = Word(y) PROVE x = y
    OBVIOUS
  <2>1. Word(x)[1].word = x /\ Word(y)[1].word = y
    BY DEF Word
  <2> QED BY <2>1
<1>5. Holding(e, name) = {k}
  <2>1. \A i \in 1..n : entries[i][1].a = Word(name) <=> i = k
    BY <1>3, <1>4
  <2> HIDE DEF name
  <2> QED BY <1>1, <1>2, <2>1 DEF Holding
<1>6. Min({k}) = k
  <2>1. \E x \in {k} : \A y \in {k} : x <= y
    OBVIOUS
  <2> QED BY <2>1 DEF Min
<1> QED BY <1>1, <1>3, <1>5, <1>6 DEF Field, e

\* The fields of a packet's record.
LEMMA PacketFieldsOf ==
  ASSUME NEW a, NEW b, NEW c, NEW d
  PROVE  LET e == Record(<< <<"bridge", a>>, <<"header", b>>, <<"body", c>>, <<"warrant", d>> >>)
         IN  Field(e, "header") = b /\ Field(e, "body") = c /\ Field(e, "warrant") = d
<1> DEFINE fs == << <<"bridge", a>>, <<"header", b>>, <<"body", c>>, <<"warrant", d>> >>
<1>1. DOMAIN fs = 1..4 /\ 4 \in Nat
  OBVIOUS
<1>2. /\ fs[1][1] = "bridge" /\ fs[2][1] = "header" /\ fs[3][1] = "body" /\ fs[4][1] = "warrant"
      /\ fs[2][2] = b /\ fs[3][2] = c /\ fs[4][2] = d
  OBVIOUS
<1> HIDE DEF fs
<1>3. \A j, k \in 1..4 : fs[j][1] = fs[k][1] => j = k
  BY <1>2
<1>4. \A k \in 1..4 : Field(Record(fs), fs[k][1]) = fs[k][2]
  BY <1>1, <1>3, FieldOfRecord
<1> QED BY <1>2, <1>4 DEF fs

\* The fields of a header's record.
LEMMA HeaderFieldsOf ==
  ASSUME NEW a, NEW b, NEW c, NEW d, NEW f, NEW g, NEW h, NEW i, NEW m, NEW n, NEW o
  PROVE  LET e == Record(<< <<"cid", a>>, <<"move", b>>, <<"from", c>>, <<"to", d>>, <<"role", f>>,
                            <<"parents", g>>, <<"task", h>>, <<"output", i>>, <<"ceiling", m>>,
                            <<"context", n>>, <<"provenance", o>> >>)
         IN  /\ Field(e, "cid") = a /\ Field(e, "move") = b /\ Field(e, "from") = c /\ Field(e, "to") = d
             /\ Field(e, "role") = f /\ Field(e, "parents") = g /\ Field(e, "task") = h
             /\ Field(e, "output") = i /\ Field(e, "ceiling") = m /\ Field(e, "context") = n
             /\ Field(e, "provenance") = o
<1> DEFINE fs == << <<"cid", a>>, <<"move", b>>, <<"from", c>>, <<"to", d>>, <<"role", f>>,
                    <<"parents", g>>, <<"task", h>>, <<"output", i>>, <<"ceiling", m>>,
                    <<"context", n>>, <<"provenance", o>> >>
<1>1. DOMAIN fs = 1..11 /\ 11 \in Nat
  OBVIOUS
<1>2. /\ fs[1][1] = "cid" /\ fs[2][1] = "move" /\ fs[3][1] = "from" /\ fs[4][1] = "to" /\ fs[5][1] = "role"
      /\ fs[6][1] = "parents" /\ fs[7][1] = "task" /\ fs[8][1] = "output" /\ fs[9][1] = "ceiling"
      /\ fs[10][1] = "context" /\ fs[11][1] = "provenance"
  OBVIOUS
<1>3. /\ fs[1][2] = a /\ fs[2][2] = b /\ fs[3][2] = c /\ fs[4][2] = d /\ fs[5][2] = f /\ fs[6][2] = g
      /\ fs[7][2] = h /\ fs[8][2] = i /\ fs[9][2] = m /\ fs[10][2] = n /\ fs[11][2] = o
  OBVIOUS
<1> HIDE DEF fs
<1>4. \A j, k \in 1..11 : fs[j][1] = fs[k][1] => j = k
  BY <1>2
<1>5. \A k \in 1..11 : Field(Record(fs), fs[k][1]) = fs[k][2]
  BY <1>1, <1>4, FieldOfRecord
<1>6. {1, 2, 3, 4, 5, 6, 7, 8, 9, 10, 11} \subseteq 1..11
  OBVIOUS
<1> QED BY <1>2, <1>3, <1>5, <1>6 DEF fs

\* Records of two fields and of three.
LEMMA TwoFields ==
  ASSUME NEW x, NEW y, x # y, NEW a, NEW b
  PROVE  Field(Record(<< <<x, a>>, <<y, b>> >>), x) = a /\ Field(Record(<< <<x, a>>, <<y, b>> >>), y) = b
<1> DEFINE fs == << <<x, a>>, <<y, b>> >>
<1>1. DOMAIN fs = 1..2 /\ fs[1][1] = x /\ fs[2][1] = y /\ fs[1][2] = a /\ fs[2][2] = b
  OBVIOUS
<1> HIDE DEF fs
<1>2. \A j, k \in 1..2 : fs[j][1] = fs[k][1] => j = k
  BY <1>1
<1>3. ASSUME NEW k \in 1..2 PROVE Field(Record(fs), fs[k][1]) = fs[k][2]
  <2>1. 2 \in Nat
    OBVIOUS
  <2> QED BY <1>1, <1>2, <2>1, FieldOfRecord
<1> QED BY <1>1, <1>3 DEF fs

\* The fields of a record of three.
LEMMA ThreeFields ==
  ASSUME NEW x, NEW y, NEW z, x # y, x # z, y # z, NEW a, NEW b, NEW c
  PROVE  LET e == Record(<< <<x, a>>, <<y, b>>, <<z, c>> >>)
         IN  Field(e, x) = a /\ Field(e, y) = b /\ Field(e, z) = c
<1> DEFINE fs == << <<x, a>>, <<y, b>>, <<z, c>> >>
<1>1. /\ DOMAIN fs = 1..3 /\ fs[1][1] = x /\ fs[2][1] = y /\ fs[3][1] = z
      /\ fs[1][2] = a /\ fs[2][2] = b /\ fs[3][2] = c
  OBVIOUS
<1> HIDE DEF fs
<1>2. \A j, k \in 1..3 : fs[j][1] = fs[k][1] => j = k
  BY <1>1
<1>3. ASSUME NEW k \in 1..3 PROVE Field(Record(fs), fs[k][1]) = fs[k][2]
  <2>1. 3 \in Nat
    OBVIOUS
  <2> QED BY <1>1, <1>2, <2>1, FieldOfRecord
<1> QED BY <1>1, <1>3 DEF fs

\* The fields of the records that a packet is made of.
LEMMA AuthorFieldsOf ==
  ASSUME NEW a, NEW b
  PROVE  LET e == Record(<< <<"author", a>>, <<"card", b>> >>) IN Field(e, "author") = a /\ Field(e, "card") = b
BY TwoFields

\* An entry of a warrant.
LEMMA EntryFieldsOf ==
  ASSUME NEW a, NEW b
  PROVE  LET e == Record(<< <<"kind", a>>, <<"cid", b>> >>) IN Field(e, "kind") = a /\ Field(e, "cid") = b
BY TwoFields

\* A part.
LEMMA PartFieldsOf ==
  ASSUME NEW a, NEW b, NEW c
  PROVE  LET e == Record(<< <<"id", a>>, <<"kind", b>>, <<"payload", c>> >>)
         IN  Field(e, "id") = a /\ Field(e, "kind") = b /\ Field(e, "payload") = c
BY ThreeFields

\* A warrant.
LEMMA WarrantFieldsOf ==
  ASSUME NEW a, NEW b, NEW c
  PROVE  LET e == Record(<< <<"moves", a>>, <<"frames", b>>, <<"parts", c>> >>)
         IN  Field(e, "moves") = a /\ Field(e, "frames") = b /\ Field(e, "parts") = c
BY ThreeFields

\* A clean name comes back from its expression clean.
LEMMA CleanToSymbol ==
  ASSUME NEW I, NEW s, CleanName(s, I)
  PROVE  CleanName(ToSymbol(SymbolExpr(s)), I)
<1>1. ToSymbol(SymbolExpr(s)) = Symbol(s.ns, s.name)
  BY Nodes1 DEF ToSymbol
<1> QED BY <1>1, CleanSymbols DEF CleanName

\* The names of a part come back from its expression clean.
LEMMA CleanPartHandedOn ==
  ASSUME NEW I, NEW part, CleanName(part.id, I), CleanName(part.kind, I), PartFromExpr(PartRecord(part)).ok
  PROVE  /\ CleanName(PartFromExpr(PartRecord(part)).v.id, I)
         /\ CleanName(PartFromExpr(PartRecord(part)).v.kind, I)
<1> DEFINE e == PartRecord(part)
           r == Part(ToSymbol(Field(e, "id")), ToSymbol(Field(e, "kind")), Field(e, "payload"))
<1>1. PartFromExpr(e) = Got(r)
  <2> HIDE DEF e, r
  <2>1. PartFromExpr(e) = Got(r) \/ PartFromExpr(e) = Err
    BY Zenon DEF PartFromExpr, r
  <2> QED BY <2>1, Readings, Zenon DEF e
<1>2. Field(e, "id") = SymbolExpr(part.id) /\ Field(e, "kind") = SymbolExpr(part.kind)
  BY PartFieldsOf DEF PartRecord
<1>3. CleanName(ToSymbol(Field(e, "id")), I) /\ CleanName(ToSymbol(Field(e, "kind")), I)
  BY <1>2, CleanToSymbol
<1>4. r.id = ToSymbol(Field(e, "id")) /\ r.kind = ToSymbol(Field(e, "kind"))
  BY DEF Part
<1> HIDE DEF r
<1> QED BY <1>1, <1>3, <1>4, Readings

\* A clean warrant comes back from its expression clean.
LEMMA CleanWarrantHandedOn ==
  ASSUME NEW I, NEW w, CleanWarrant(w, I), WarrantFromExpr(WarrantRecord(w)).ok
  PROVE  CleanWarrant(WarrantFromExpr(WarrantRecord(w)).v, I)
<1>1. CASE w = NoWarrant
  <2>1. WarrantRecord(w) = Nil
    BY <1>1 DEF WarrantRecord
  <2>2. WarrantFromExpr(Nil) = Got(NoWarrant)
    BY Nodes1 DEF WarrantFromExpr
  <2> QED BY <2>1, <2>2, Readings DEF CleanWarrant
<1>2. CASE w # NoWarrant
  <2> DEFINE entries == [i \in DOMAIN w.parts |->
                Record(<< <<"kind", SymbolExpr(w.parts[i][1])>>, <<"cid", Text(w.parts[i][2])>> >>)]
             e == Record(<< <<"moves", Text(w.moves)>>, <<"frames", Text(w.frames)>>, <<"parts", Vector(entries)>> >>)
             parts == Field(e, "parts").items
             moves == ParseContentId(Field(e, "moves").a)
             frames == ParseContentId(Field(e, "frames").a)
             each == [i \in DOMAIN parts |-> WarrantPartFromExpr(parts[i])]
             ids == All(each)
             r == [moves |-> moves.v, frames |-> frames.v, parts |-> ids.v]
  <2>1. WarrantRecord(w) = e
    BY <1>2 DEF WarrantRecord
  <2>2. e.t # "nil"
    <3>1. e.t = "map"
      BY Nodes1 DEF Record
    <3> QED BY <3>1
  <2>3. moves.ok /\ frames.ok /\ ids.ok /\ WarrantFromExpr(e) = Got(r)
    <3>1. WarrantFromExpr(e).ok
      BY <2>1
    <3> HIDE DEF e, moves, frames, ids, r
    <3>2. \/ WarrantFromExpr(e) = Err
          \/ moves.ok /\ frames.ok /\ ids.ok /\ WarrantFromExpr(e) = Got(r)
      BY <2>2, Zenon DEF WarrantFromExpr, Then, moves, frames, ids, r
    <3> QED BY <3>1, <3>2, Readings, Zenon
  <2>4. /\ Field(e, "moves") = Text(w.moves) /\ Field(e, "frames") = Text(w.frames)
        /\ Field(e, "parts") = Vector(entries)
    <3> HIDE DEF entries
    <3> QED BY WarrantFieldsOf
  <2> HIDE DEF e
  <2>5. Field(e, "moves").a = w.moves /\ Field(e, "frames").a = w.frames /\ parts = entries
    BY <2>4, Nodes1
  <2>6. /\ Clean(w.moves, I) /\ Clean(w.frames, I) /\ IsSeq(w.parts)
        /\ \A i \in DOMAIN w.parts : CleanName(w.parts[i][1], I) /\ Clean(w.parts[i][2], I)
    BY <1>2 DEF CleanWarrant, CleanEntry
  <2>7. Clean(moves.v, I) /\ Clean(frames.v, I)
    BY <2>3, <2>5, <2>6, CleanContentId
  <2>8. ASSUME NEW i \in DOMAIN w.parts, WarrantPartFromExpr(entries[i]).ok
        PROVE  CleanEntry(WarrantPartFromExpr(entries[i]).v, I)
    <3> DEFINE x == entries[i]
               id == ParseContentId(Field(x, "cid").a)
               y == <<ToSymbol(Field(x, "kind")), id.v>>
    <3>1. id.ok /\ WarrantPartFromExpr(x) = Got(y)
      <4> HIDE DEF x, id, y
      <4>1. \/ WarrantPartFromExpr(x) = Err
            \/ id.ok /\ WarrantPartFromExpr(x) = Got(y)
        BY Zenon DEF WarrantPartFromExpr, Then, id, y
      <4> QED BY <2>8, <4>1, Readings, Zenon DEF x
    <3>2. x = Record(<< <<"kind", SymbolExpr(w.parts[i][1])>>, <<"cid", Text(w.parts[i][2])>> >>)
      OBVIOUS
    <3> HIDE DEF x
    <3>3. Field(x, "kind") = SymbolExpr(w.parts[i][1]) /\ Field(x, "cid") = Text(w.parts[i][2])
      BY <3>2, EntryFieldsOf
    <3>4. Field(x, "cid").a = w.parts[i][2]
      BY <3>3, Nodes1
    <3>5. Clean(id.v, I) /\ CleanName(ToSymbol(Field(x, "kind")), I)
      BY <2>6, <3>1, <3>3, <3>4, CleanContentId, CleanToSymbol
    <3> HIDE DEF id
    <3>6. y[1] = ToSymbol(Field(x, "kind")) /\ y[2] = id.v
      OBVIOUS
    <3> HIDE DEF y
    <3> QED BY <3>1, <3>5, <3>6, Readings DEF CleanEntry, x
  <2>9. (\A i \in DOMAIN each : each[i].ok) /\ ids.v = [i \in DOMAIN each |-> each[i].v]
    <3> HIDE DEF each
    <3> QED BY <2>3, AllRead
  <2>10. IsSeq(ids.v) /\ \A i \in DOMAIN ids.v : CleanEntry(ids.v[i], I)
    <3>1. DOMAIN parts = DOMAIN w.parts /\ \A i \in DOMAIN w.parts : parts[i] = entries[i]
      BY <2>5
    <3> HIDE DEF parts, entries
    <3>2. DOMAIN each = DOMAIN w.parts /\ \A i \in DOMAIN w.parts : each[i] = WarrantPartFromExpr(entries[i])
      BY <3>1
    <3>3. \A i \in DOMAIN w.parts : CleanEntry(each[i].v, I)
      BY <2>8, <2>9, <3>2
    <3> HIDE DEF each, ids
    <3>4. ids.v = [i \in DOMAIN w.parts |-> ids.v[i]] /\ \A i \in DOMAIN w.parts : ids.v[i] = each[i].v
      BY <2>9, <3>2
    <3>5. IsSeq(ids.v) /\ DOMAIN ids.v = DOMAIN w.parts
      BY <2>6, <3>4, Mapped
    <3> QED BY <3>3, <3>4, <3>5
  <2> HIDE DEF moves, frames, ids
  <2>11. r.moves = moves.v /\ r.frames = frames.v /\ r.parts = ids.v
    OBVIOUS
  <2> HIDE DEF r
  <2> QED BY <2>1, <2>3, <2>7, <2>10, <2>11, Readings DEF CleanWarrant
<1> QED BY <1>1, <1>2

\* Lists of texts and of names come back.
LEMMA CleanVectors ==
  ASSUME NEW I
  PROVE  /\ \A texts : CleanAll(texts, I) => CleanAll(TextsOf(Strings(texts)), I)
         /\ \A names : CleanNames(names, I) => CleanNames(SymbolsOf(Symbols(names)), I)
<1>1. ASSUME NEW texts, CleanAll(texts, I) PROVE CleanAll(TextsOf(Strings(texts)), I)
  <2> DEFINE f == [i \in DOMAIN texts |-> Text(texts[i])]
             g == [i \in DOMAIN f |-> f[i].a]
  <2>1. TextsOf(Strings(texts)) = g
    BY Nodes1 DEF TextsOf, Strings
  <2>2. DOMAIN f = DOMAIN texts /\ \A i \in DOMAIN texts : f[i].a = texts[i]
    BY Nodes1
  <2> HIDE DEF f
  <2>3. g = [i \in DOMAIN texts |-> g[i]] /\ \A i \in DOMAIN texts : g[i] = texts[i]
    BY <2>2
  <2> HIDE DEF g
  <2>4. IsSeq(g) /\ DOMAIN g = DOMAIN texts
    BY <1>1, <2>3, Mapped DEF CleanAll
  <2> QED BY <1>1, <2>1, <2>3, <2>4 DEF CleanAll
<1>2. ASSUME NEW names, CleanNames(names, I) PROVE CleanNames(SymbolsOf(Symbols(names)), I)
  <2> DEFINE f == [i \in DOMAIN names |-> SymbolExpr(names[i])]
             g == [i \in DOMAIN f |-> ToSymbol(f[i])]
  <2>1. SymbolsOf(Symbols(names)) = g
    BY Nodes1 DEF SymbolsOf, Symbols
  <2>2. DOMAIN f = DOMAIN names /\ \A i \in DOMAIN names : f[i] = SymbolExpr(names[i])
    OBVIOUS
  <2> HIDE DEF f
  <2>3. g = [i \in DOMAIN names |-> g[i]] /\ \A i \in DOMAIN names : g[i] = ToSymbol(SymbolExpr(names[i]))
    BY <2>2
  <2> HIDE DEF g
  <2>4. IsSeq(g) /\ DOMAIN g = DOMAIN names
    BY <1>2, <2>3, Mapped DEF CleanNames
  <2>5. \A i \in DOMAIN names : CleanName(ToSymbol(SymbolExpr(names[i])), I)
    BY <1>2, CleanToSymbol DEF CleanNames
  <2> QED BY <2>1, <2>3, <2>4, <2>5 DEF CleanNames
<1> QED BY <1>1, <1>2

\* A clean packet comes back from its expression clean.
LEMMA CleanHandedOn ==
  ASSUME NEW I, NEW p, CleanPacket(p, I), PacketFromExpr(PacketToExpr(p)).ok
  PROVE  CleanPacket(PacketFromExpr(PacketToExpr(p)).v, I)
<1> DEFINE e == PacketToExpr(p)
           h == Field(e, "header")
           prov == Field(h, "provenance")
           records == [i \in DOMAIN p.body |-> PartRecord(p.body[i])]
           parts == Field(e, "body").items
           each == [i \in DOMAIN parts |-> PartFromExpr(parts[i])]
           body == All(each)
           warrant == WarrantFromExpr(Field(e, "warrant"))
           r == [cid |-> Field(h, "cid").a, move |-> ToSymbol(Field(h, "move")), from |-> Field(h, "from").a,
                 to |-> TextsOf(Field(h, "to")), role |-> ToSymbol(Field(h, "role")),
                 parents |-> TextsOf(Field(h, "parents")), task |-> ToSymbol(Field(h, "task")),
                 output |-> ToSymbol(Field(h, "output")), ceiling |-> SymbolsOf(Field(h, "ceiling")),
                 context |-> SymbolsOf(Field(h, "context")), author |-> ToSymbol(Field(prov, "author")),
                 card |-> Field(prov, "card").a, body |-> body.v, warrant |-> warrant.v]
<1>1. body.ok /\ warrant.ok /\ PacketFromExpr(e) = Got(r)
  <2> HIDE DEF e, body, warrant, r
  <2>1. \/ PacketFromExpr(e) = Err
        \/ body.ok /\ warrant.ok /\ PacketFromExpr(e) = Got(r)
    BY Zenon DEF PacketFromExpr, Then, body, warrant, r
  <2> QED BY <2>1, Readings, Zenon DEF e
<1>2. h = HeaderRecord(p) /\ Field(e, "body") = Vector(records) /\ Field(e, "warrant") = WarrantRecord(p.warrant)
  <2> DEFINE b == Text(Word("1"))
             c == HeaderRecord(p)
             d == Vector(records)
             f == WarrantRecord(p.warrant)
  <2>1. e = Record(<< <<"bridge", b>>, <<"header", c>>, <<"body", d>>, <<"warrant", f>> >>)
    BY DEF PacketToExpr
  <2> HIDE DEF b, c, d, f, e
  <2>2. Field(e, "header") = c /\ Field(e, "body") = d /\ Field(e, "warrant") = f
    BY <2>1, PacketFieldsOf
  <2> QED BY <2>2 DEF c, d, f
<1> HIDE DEF e
<1>3. /\ Field(h, "cid") = StringOrNil(p.cid) /\ Field(h, "move") = SymbolExpr(p.move)
      /\ Field(h, "from") = Text(p.from) /\ Field(h, "to") = Strings(p.to)
      /\ Field(h, "role") = SymbolExpr(p.role) /\ Field(h, "parents") = Strings(p.parents)
      /\ Field(h, "task") = SymbolExpr(p.task) /\ Field(h, "output") = SymbolExpr(p.output)
      /\ Field(h, "ceiling") = Symbols(p.ceiling) /\ Field(h, "context") = Symbols(p.context)
      /\ prov = Record(<< <<"author", SymbolExpr(p.author)>>, <<"card", StringOrNil(p.card)>> >>)
  <2>1. HeaderRecord(p) =
          Record(<< <<"cid", StringOrNil(p.cid)>>, <<"move", SymbolExpr(p.move)>>, <<"from", Text(p.from)>>,
            <<"to", Strings(p.to)>>, <<"role", SymbolExpr(p.role)>>, <<"parents", Strings(p.parents)>>,
            <<"task", SymbolExpr(p.task)>>, <<"output", SymbolExpr(p.output)>>, <<"ceiling", Symbols(p.ceiling)>>,
            <<"context", Symbols(p.context)>>,
            <<"provenance", Record(<< <<"author", SymbolExpr(p.author)>>, <<"card", StringOrNil(p.card)>> >>)>> >>)
    BY DEF HeaderRecord
  <2> HIDE DEF h
  <2> QED BY <1>2, <2>1, HeaderFieldsOf
<1> HIDE DEF h
<1>4. Field(prov, "author") = SymbolExpr(p.author) /\ Field(prov, "card") = StringOrNil(p.card)
  BY <1>3, AuthorFieldsOf
<1> HIDE DEF prov
<1>5. \A text : StringOrNil(text).a = text
  BY Nodes1 DEF StringOrNil
<1>6. /\ Field(h, "cid").a = p.cid /\ Field(h, "from").a = p.from /\ Field(prov, "card").a = p.card
  BY <1>3, <1>4, <1>5, Nodes1
<1>7. CleanBody(body.v, I)
  <2>1. (\A i \in DOMAIN each : each[i].ok) /\ body.v = [i \in DOMAIN each |-> each[i].v]
    <3> HIDE DEF each
    <3> QED BY <1>1, AllRead
  <2>2. parts = records
    BY <1>2, Nodes1
  <2>3. DOMAIN records = DOMAIN p.body /\ \A i \in DOMAIN p.body : records[i] = PartRecord(p.body[i])
    OBVIOUS
  <2> HIDE DEF parts, records
  <2>4. DOMAIN each = DOMAIN p.body /\ \A i \in DOMAIN p.body : each[i] = PartFromExpr(PartRecord(p.body[i]))
    BY <2>2, <2>3
  <2>5. IsSeq(p.body) /\ \A i \in DOMAIN p.body : CleanName(p.body[i].id, I) /\ CleanName(p.body[i].kind, I)
    BY DEF CleanPacket, CleanBody
  <2>6. ASSUME NEW i \in DOMAIN p.body PROVE CleanName(each[i].v.id, I) /\ CleanName(each[i].v.kind, I)
    <3>1. PICK part : part = p.body[i]
      OBVIOUS
    <3>2. each[i] = PartFromExpr(PartRecord(part)) /\ each[i].ok
      BY <2>1, <2>4, <3>1
    <3>3. CleanName(part.id, I) /\ CleanName(part.kind, I)
      BY <2>5, <3>1
    <3> HIDE DEF each
    <3> QED BY <3>2, <3>3, CleanPartHandedOn
  <2> HIDE DEF each, body
  <2>7. body.v = [i \in DOMAIN p.body |-> body.v[i]] /\ \A i \in DOMAIN p.body : body.v[i] = each[i].v
    BY <2>1, <2>4
  <2>8. IsSeq(body.v) /\ DOMAIN body.v = DOMAIN p.body
    BY <2>5, <2>7, Mapped
  <2> QED BY <2>6, <2>7, <2>8 DEF CleanBody
<1>8. CleanWarrant(warrant.v, I)
  BY <1>1, <1>2, CleanWarrantHandedOn DEF CleanPacket
<1> HIDE DEF body, warrant
<1>9. CleanPacket(r, I)
  <2>1. DOMAIN r = PacketFields
    BY DEF PacketFields
  <2>2. /\ r.cid = p.cid /\ r.from = p.from /\ r.card = p.card
        /\ r.move = ToSymbol(SymbolExpr(p.move)) /\ r.role = ToSymbol(SymbolExpr(p.role))
        /\ r.task = ToSymbol(SymbolExpr(p.task)) /\ r.output = ToSymbol(SymbolExpr(p.output))
        /\ r.author = ToSymbol(SymbolExpr(p.author))
        /\ r.to = TextsOf(Strings(p.to)) /\ r.parents = TextsOf(Strings(p.parents))
        /\ r.ceiling = SymbolsOf(Symbols(p.ceiling)) /\ r.context = SymbolsOf(Symbols(p.context))
        /\ r.body = body.v /\ r.warrant = warrant.v
    BY <1>3, <1>4, <1>6
  <2> HIDE DEF r
  <2>3. /\ Clean(p.cid, I) /\ Clean(p.from, I) /\ Clean(p.card, I)
        /\ CleanName(p.move, I) /\ CleanName(p.role, I) /\ CleanName(p.task, I) /\ CleanName(p.output, I)
        /\ CleanName(p.author, I)
        /\ CleanAll(p.to, I) /\ CleanAll(p.parents, I) /\ CleanNames(p.ceiling, I) /\ CleanNames(p.context, I)
    BY DEF CleanPacket
  <2>4. /\ CleanName(r.move, I) /\ CleanName(r.role, I) /\ CleanName(r.task, I) /\ CleanName(r.output, I)
        /\ CleanName(r.author, I)
    BY <2>2, <2>3, CleanToSymbol
  <2>5. CleanAll(r.to, I) /\ CleanAll(r.parents, I) /\ CleanNames(r.ceiling, I) /\ CleanNames(r.context, I)
    BY <2>2, <2>3, CleanVectors
  <2>6. Clean(r.cid, I) /\ Clean(r.from, I) /\ Clean(r.card, I) /\ CleanBody(r.body, I) /\ CleanWarrant(r.warrant, I)
    BY <1>7, <1>8, <2>2, <2>3
  <2> QED BY <2>1, <2>4, <2>5, <2>6 DEF CleanPacket
<1> HIDE DEF r
<1> QED BY <1>1, <1>9, Readings DEF e

(***************************************************************************)
(* What peers post, hand on and read is clean of all but stamped packets.  *)
(***************************************************************************)

\* The packets that peers stamped.
Stamped == {CanonicalDatum(f.packet) : f \in {g \in Authored : VerifyCid(g.packet)}}

\* More may be vouched for.
LEMMA CleanGrows ==
  ASSUME NEW I, NEW J, I \subseteq J
  PROVE  /\ \A s : Clean(s, I) => Clean(s, J)
         /\ \A p : CleanPacket(p, I) => CleanPacket(p, J)
<1>1. \A s : Clean(s, I) => Clean(s, J)
  BY DEF Clean, Vouched
<1>2. \A ss : CleanAll(ss, I) => CleanAll(ss, J)
  BY <1>1 DEF CleanAll
<1>3. \A n : CleanName(n, I) => CleanName(n, J)
  BY <1>1 DEF CleanName
<1>4. \A ns : CleanNames(ns, I) => CleanNames(ns, J)
  BY <1>3 DEF CleanNames
<1>5. \A body : CleanBody(body, I) => CleanBody(body, J)
  BY <1>3 DEF CleanBody
<1>6. \A w : CleanWarrant(w, I) => CleanWarrant(w, J)
  BY <1>1, <1>3 DEF CleanWarrant, CleanEntry
<1>7. ASSUME NEW p, CleanPacket(p, I) PROVE CleanPacket(p, J)
  BY <1>1, <1>2, <1>3, <1>4, <1>5, <1>6, <1>7, Zenon DEF CleanPacket
<1> QED BY <1>1, <1>7

\* A text without content ids of packets is clean.
LEMMA TextIsClean ==
  ASSUME NEW I
  PROVE  /\ \A s : IsText(s) => Clean(s, I)
         /\ \A n : IsName(n) => CleanName(n, I)
         /\ \A ns : AreNames(ns) => CleanNames(ns, I)
<1>1. ASSUME NEW s, IsText(s) PROVE Clean(s, I)
  <2>1. IsSeq(s) /\ \A i \in DOMAIN s : "hash" \in DOMAIN s[i] => ~IsPacketDatum(s[i].hash)
    BY <1>1 DEF IsText
  <2>2. ASSUME NEW t \in ToSet(s) PROVE Vouched(t, I)
    <3>1. PICK i \in DOMAIN s : t = s[i]
      BY <2>1, SeqHolds
    <3> HIDE DEF IsPacketDatum
    <3> QED BY <2>1, <3>1, Zenon DEF Vouched
  <2> QED BY <2>1, <2>2 DEF Clean
<1>2. ASSUME NEW n, IsName(n) PROVE CleanName(n, I)
  BY <1>1, <1>2 DEF IsName, CleanName
<1> QED BY <1>1, <1>2 DEF AreNames, CleanNames

\* What a host composes is clean.
LEMMA CleanDraft ==
  ASSUME NEW I, NEW p \in Peers, NEW i \in DOMAIN Drafts[p]
  PROVE  LET d == Drafts[p][i].packet
         IN  /\ Clean(d.cid, I) /\ Clean(d.card, I)
             /\ CleanName(d.move, I) /\ CleanName(d.role, I) /\ CleanName(d.task, I) /\ CleanName(d.output, I)
             /\ CleanName(d.author, I)
             /\ CleanNames(d.ceiling, I) /\ CleanNames(d.context, I)
             /\ CleanAll(d.to, I) /\ CleanBody(d.body, I)
<1> DEFINE d == Drafts[p][i].packet
<1>1. /\ IsText(d.cid) /\ IsText(d.card)
      /\ IsName(d.move) /\ IsName(d.role) /\ IsName(d.task) /\ IsName(d.output) /\ IsName(d.author)
      /\ AreNames(d.ceiling) /\ AreNames(d.context)
      /\ IsSeq(d.to) /\ \A j \in DOMAIN d.to : IsText(d.to[j])
      /\ IsSeq(d.body) /\ \A j \in DOMAIN d.body : IsName(d.body[j].id) /\ IsName(d.body[j].kind)
  <2> HIDE DEF PacketFields, NoWarrant, IsText, IsName, AreNames, IsSeq
  <2> QED BY DraftsAssumption
<1> HIDE DEF d
<1>2. /\ CleanAll(d.to, I) /\ CleanBody(d.body, I)
  BY <1>1, TextIsClean DEF CleanAll, CleanBody
<1> QED BY <1>1, <1>2, TextIsClean DEF d

\* The content ids of books are none of packets.
LEMMA CleanHash ==
  ASSUME NEW I, NEW x, ~IsPacketDatum(x) PROVE Clean(ContentId(x), I)
<1>1. [hash |-> x].hash = x
  OBVIOUS
<1>2. Vouched([hash |-> x], I)
  BY <1>1, Zenon DEF Vouched
<1>3. ContentId(x) = <<[hash |-> x]>>
  BY DEF ContentId
<1> QED BY <1>2, <1>3, CleanTokens

\* A warrant is clean.
LEMMA CleanWarrantFor ==
  ASSUME NEW I, NEW book, NEW body, CleanBody(body, I)
  PROVE  CleanWarrant(WarrantFor(book, body), I)
<1> DEFINE K == Kinds(body)
           kinds == SetToSeq(K)
           Spec1(k) == [kind |-> k, spec |-> PartBooks[book.parts][k]]
           parts == [i \in DOMAIN kinds |-> <<kinds[i], ContentId(Spec1(kinds[i]))>>]
           w == WarrantFor(book, body)
<1>1. w.moves = ContentId([moves |-> book.moves]) /\ w.frames = ContentId([frames |-> book.frames]) /\ w.parts = parts
  BY DEF WarrantFor
<1>2. IsFiniteSet(K)
  BY FiniteKinds DEF CleanBody
<1>3. \A k \in K : CleanName(k, I)
  BY DEF Kinds, CleanBody
<1> HIDE DEF K
<1>4. kinds \in Seq(K)
  BY <1>2, SetToSeqLemma
<1> HIDE DEF kinds
<1>5. IsSeq(kinds) /\ \A i \in DOMAIN kinds : kinds[i] \in K
  <2>1. IsSeq(kinds) /\ ToSet(kinds) \subseteq K
    BY <1>4, AnySeq
  <2> QED BY <2>1 DEF ToSet
<1>6. \A k : ~IsPacketDatum(Spec1(k))
  BY DEF IsPacketDatum, PacketFields
<1>7. ~IsPacketDatum([moves |-> book.moves]) /\ ~IsPacketDatum([frames |-> book.frames])
  BY DEF IsPacketDatum, PacketFields
<1>8. Clean(ContentId([moves |-> book.moves]), I) /\ Clean(ContentId([frames |-> book.frames]), I)
  BY <1>7, CleanHash
<1> HIDE DEF Spec1
<1>9. \A i \in DOMAIN kinds : CleanEntry(parts[i], I)
  <2> SUFFICES ASSUME NEW i \in DOMAIN kinds PROVE CleanEntry(parts[i], I)
    OBVIOUS
  <2>1. CleanName(kinds[i], I) /\ Clean(ContentId(Spec1(kinds[i])), I)
    BY <1>3, <1>5, <1>6, CleanHash
  <2>2. parts[i][1] = kinds[i] /\ parts[i][2] = ContentId(Spec1(kinds[i]))
    OBVIOUS
  <2> HIDE DEF parts
  <2> QED BY <2>1, <2>2 DEF CleanEntry
<1>10. IsSeq(parts) /\ DOMAIN parts = DOMAIN kinds
  <2>1. parts = [i \in DOMAIN kinds |-> parts[i]]
    OBVIOUS
  <2> HIDE DEF parts
  <2> QED BY <1>5, <2>1, Mapped
<1> HIDE DEF parts, w
<1> QED BY <1>1, <1>8, <1>9, <1>10 DEF CleanWarrant, w

\* What is cited of clean packets is clean.
LEMMA CleanCitations ==
  ASSUME NEW I, NEW p, \A q \in Seen(p) : CleanPacket(q, I),
         NEW S \in SUBSET Citations(p), IsFiniteSet(S)
  PROVE  CleanAll(SetToSeq(S), I)
<1>1. ASSUME NEW text \in S PROVE Clean(text, I)
  <2>0. PICK q \in Seen(p) : \E m \in {q.move} \cup Claims : text = Citation(q, m)
    BY DEF Citations
  <2>1. PICK m \in {q.move} \cup Claims : text = Citation(q, m)
    BY <2>0
  <2>2. Clean(q.cid, I) /\ CleanName(q.move, I)
    BY <2>1 DEF CleanPacket
  <2>3. CleanName(m, I)
    <3>1. \A move \in Claims : IsName(move)
      BY DraftsAssumption
    <3> QED BY <2>1, <2>2, <3>1, TextIsClean
  <2>4. Clean(SymbolText(m), I) /\ Clean(<<Evidence>>, I)
    BY <2>3, CleanSymbols, CleanTokens
  <2>5. Clean(q.cid \o <<Evidence>> \o SymbolText(m), I)
    BY <2>2, <2>4, CleanConcat
  <2> QED BY <2>1, <2>5 DEF Citation
<1> DEFINE s == SetToSeq(S)
<1>2. s \in Seq(S)
  BY SetToSeqLemma
<1> HIDE DEF s
<1>3. IsSeq(s) /\ ToSet(s) \subseteq S
  BY <1>2, AnySeq
<1>4. \A i \in DOMAIN s : s[i] \in S
  BY <1>3 DEF ToSet
<1> QED BY <1>1, <1>3, <1>4 DEF CleanAll, s

\* What is posted is clean when the packet is vouched for where it is stamped.
LEMMA CleanPosted ==
  ASSUME NEW I, NEW p \in Peers, NEW i \in DOMAIN Drafts[p], NEW parents, CleanAll(parents, I),
         VerifyCid(Posted(p, Drafts[p][i], parents)) => CanonicalDatum(Posted(p, Drafts[p][i], parents)) \in I
  PROVE  CleanPacket(Posted(p, Drafts[p][i], parents), I)
<1> DEFINE d == Drafts[p][i].packet
           packet == Posted(p, Drafts[p][i], parents)
<1>0. PostedOf(packet, d, p, parents)
  BY PostedFields
<1>1. /\ DOMAIN packet = PacketFields
      /\ packet.body = d.body
      /\ packet.from = Word(p) /\ packet.parents = parents
      /\ \A field \in PacketFields \ {"cid", "from", "parents", "warrant"} : packet[field] = d[field]
      /\ packet.warrant \in {NoWarrant, WarrantFor(books[p], packet.body)}
      /\ packet.cid = d.cid \/ packet.cid = PacketId(packet)
  <2> HIDE DEF d, packet
  <2> QED BY <1>0 DEF PostedOf
<1>2. /\ Clean(d.cid, I) /\ Clean(d.card, I)
      /\ CleanName(d.move, I) /\ CleanName(d.role, I) /\ CleanName(d.task, I) /\ CleanName(d.output, I)
      /\ CleanName(d.author, I)
      /\ CleanNames(d.ceiling, I) /\ CleanNames(d.context, I)
      /\ CleanAll(d.to, I) /\ CleanBody(d.body, I)
  BY CleanDraft
<1>3. VerifyCid(packet) => CanonicalDatum(packet) \in I
  OBVIOUS
<1> HIDE DEF d, packet
<1>4. /\ packet.card = d.card /\ packet.move = d.move /\ packet.role = d.role /\ packet.task = d.task
      /\ packet.output = d.output /\ packet.author = d.author /\ packet.ceiling = d.ceiling
      /\ packet.context = d.context /\ packet.to = d.to
  BY <1>1 DEF PacketFields
<1>5. Clean(packet.cid, I)
  <2>1. CASE packet.cid = PacketId(packet)
    <3>1. CanonicalDatum(packet) \in I
      BY <1>3, <2>1 DEF VerifyCid
    <3> DEFINE t == [hash |-> CanonicalDatum(packet)]
    <3>2. t.hash = CanonicalDatum(packet)
      OBVIOUS
    <3>3. PacketId(packet) = <<t>>
      BY DEF PacketId, ContentId
    <3> HIDE DEF t
    <3>4. Vouched(t, I)
      BY <3>1, <3>2, Zenon DEF Vouched
    <3> QED BY <2>1, <3>3, <3>4, CleanTokens
  <2> QED BY <1>1, <1>2, <2>1
<1>6. Clean(packet.from, I)
  BY <1>1, CleanTokens
<1>7. CleanWarrant(packet.warrant, I)
  <2>1. CleanWarrant(NoWarrant, I)
    BY DEF CleanWarrant
  <2>2. CleanWarrant(WarrantFor(books[p], packet.body), I)
    BY <1>1, <1>2, CleanWarrantFor
  <2> QED BY <1>1, <2>1, <2>2
<1>8. CleanPacket(packet, I)
  <2>1. /\ CleanAll(packet.parents, I) /\ CleanAll(packet.to, I) /\ CleanBody(packet.body, I)
        /\ CleanNames(packet.ceiling, I) /\ CleanNames(packet.context, I) /\ Clean(packet.card, I)
    BY <1>1, <1>2, <1>4
  <2>2. /\ CleanName(packet.move, I) /\ CleanName(packet.role, I) /\ CleanName(packet.task, I)
        /\ CleanName(packet.output, I) /\ CleanName(packet.author, I)
    BY <1>2, <1>4
  <2> QED BY <1>1, <1>5, <1>6, <1>7, <2>1, <2>2, Zenon DEF CleanPacket
<1> QED BY <1>8 DEF packet

\* Clean lines that are damaged by clean lines stay clean.
LEMMA CleanRewrites ==
  ASSUME NEW I, NEW lines, CleanAll(lines, I), NEW others, \A o \in others : CleanAll(o, I),
         NEW i \in DOMAIN lines, NEW r \in Rewrites(lines, others, i)
  PROVE  CleanAll(r, I)
<1>1. IsSeq(lines) /\ Len(lines) \in Nat /\ DOMAIN lines = 1..Len(lines) /\ i \in 1..Len(lines)
  BY SeqHolds DEF CleanAll
<1>2. \A s, t : CleanAll(s, I) /\ CleanAll(t, I) => CleanAll(s \o t, I)
  <2> SUFFICES ASSUME NEW s, NEW t, CleanAll(s, I), CleanAll(t, I) PROVE CleanAll(s \o t, I)
    OBVIOUS
  <2>1. IsSeq(s \o t) /\ ToSet(s \o t) \subseteq ToSet(s) \cup ToSet(t)
    BY ConcatHolds DEF CleanAll
  <2> QED BY <2>1 DEF CleanAll, ToSet
<1>3. /\ CleanAll(SubSeq(lines, 1, i - 1), I) /\ CleanAll(SubSeq(lines, i + 1, Len(lines)), I)
      /\ CleanAll(SubSeq(lines, 1, i), I) /\ CleanAll(SubSeq(lines, i, Len(lines)), I)
  <2>1. /\ 1 \in Nat \ {0} /\ i \in Nat \ {0} /\ i + 1 \in Nat \ {0}
        /\ i - 1 \in Int /\ i - 1 <= Len(lines) /\ i \in Int /\ i <= Len(lines)
        /\ Len(lines) \in Int /\ Len(lines) <= Len(lines)
    BY <1>1
  <2> QED BY <2>1, CleanSomeLines
<1>4. ASSUME NEW f, f = [k \in DOMAIN lines |-> f[k]], \A k \in DOMAIN lines : Clean(f[k], I)
      PROVE  CleanAll(f, I)
  <2>1. IsSeq(f) /\ DOMAIN f = DOMAIN lines
    BY <1>1, <1>4, Mapped
  <2> QED BY <1>4, <2>1 DEF CleanAll
<1>5. \A k \in DOMAIN lines : Clean(lines[k], I)
  BY DEF CleanAll
<1>6. CASE r = SubSeq(lines, 1, i - 1) \o SubSeq(lines, i + 1, Len(lines))
  BY <1>2, <1>3, <1>6
<1>7. CASE r = SubSeq(lines, 1, i) \o SubSeq(lines, i, Len(lines))
  BY <1>2, <1>3, <1>7
<1>8. ASSUME NEW k \in DOMAIN lines, r = [lines EXCEPT ![i] = lines[k], ![k] = lines[i]]
      PROVE  CleanAll(r, I)
  <2>1. r = [j \in DOMAIN lines |-> r[j]] /\ \A j \in DOMAIN lines : r[j] \in {lines[x] : x \in DOMAIN lines}
    BY <1>8
  <2>2. \A j \in DOMAIN lines : Clean(r[j], I)
    BY <1>5, <2>1
  <2> QED BY <1>4, <2>1, <2>2
<1>9. ASSUME NEW o \in others, i \in DOMAIN o, r = [lines EXCEPT ![i] = o[i]]
      PROVE  CleanAll(r, I)
  <2>1. r = [j \in DOMAIN lines |-> r[j]] /\ \A j \in DOMAIN lines : r[j] = IF j = i THEN o[i] ELSE lines[j]
    BY <1>9
  <2>2. Clean(o[i], I)
    BY <1>9 DEF CleanAll
  <2>3. \A j \in DOMAIN lines : Clean(r[j], I)
    BY <1>5, <2>1, <2>2
  <2> QED BY <1>4, <2>1, <2>3
<1> QED BY <1>6, <1>7, <1>8, <1>9 DEF Rewrites

\* A text of damaged lines.
LEMMA CleanDamage ==
  ASSUME NEW I, NEW lines, CleanAll(lines, I)
  PROVE  Clean(Joined(lines, Newline) \o <<Newline>>, I)
<1>1. Vouched(Newline, I)
  BY CleanTokens
<1> QED BY <1>1, CleanTokens, CleanJoined, CleanConcat

\* Every text in flight, whoever wrote it, and every packet that was posted or
\* accepted holds no content id of a packet but of those that peers stamped.
CleanInv ==
  /\ DOMAIN inbox = Peers
  /\ \A f \in faces : Clean(f.text, Stamped)
  /\ \A f \in Authored : CleanPacket(f.packet, Stamped)
  /\ \A p \in Peers : \A a \in inbox[p] : CleanPacket(a.packet, Stamped) /\ a.verified = VerifyCid(a.packet)

\* A text that is written with a clean packet, handed on or posted, keeps the
\* invariant.
LEMMA CleanWritten ==
  ASSUME CleanInv, NEW f, faces' = faces \cup {f}, UNCHANGED <<books, inbox, upgrades>>,
         \A J : Stamped \subseteq J /\ (f \in Authored' /\ VerifyCid(f.packet) => CanonicalDatum(f.packet) \in J) =>
                  Clean(f.text, J) /\ (f \in Authored' => CleanPacket(f.packet, J))
  PROVE  CleanInv'
<1>1. PICK J : J = Stamped'
  OBVIOUS
<1>2. Authored' \subseteq Authored \cup {f} /\ Authored \subseteq Authored'
  BY DEF Authored
<1>3. Stamped \subseteq J
  BY <1>1, <1>2 DEF Stamped
<1>4. f \in Authored' /\ VerifyCid(f.packet) => CanonicalDatum(f.packet) \in J
  BY <1>1 DEF Stamped
<1>5. Clean(f.text, J) /\ (f \in Authored' => CleanPacket(f.packet, J))
  BY <1>3, <1>4
<1>6. (\A s : Clean(s, Stamped) => Clean(s, J)) /\ \A q : CleanPacket(q, Stamped) => CleanPacket(q, J)
  BY <1>3, CleanGrows
<1>7. \A g \in faces' : Clean(g.text, J)
  BY <1>5, <1>6 DEF CleanInv
<1>8. \A g \in Authored' : CleanPacket(g.packet, J)
  BY <1>2, <1>5, <1>6 DEF CleanInv
<1>9. /\ DOMAIN inbox' = Peers
      /\ \A p \in Peers : \A a \in inbox'[p] : CleanPacket(a.packet, J) /\ a.verified = VerifyCid(a.packet)
  BY <1>6 DEF CleanInv
<1> QED BY <1>1, <1>7, <1>8, <1>9 DEF CleanInv

\* A peer that posts keeps the invariant,
LEMMA PostsClean ==
  ASSUME CleanInv, NEW p \in Peers, NEW i \in DOMAIN Drafts[p],
         NEW S \in SUBSET Citations(p), IsFiniteSet(S), Post(p, Drafts[p][i], SetToSeq(S))
  PROVE  CleanInv'
<1> DEFINE parents == SetToSeq(S)
           packet == Posted(p, Drafts[p][i], parents)
           text == EncodeText(packet, books[p])
           f == Face(packet, books[p], text.v, p)
<1>1. text.ok /\ faces' = faces \cup {f} /\ UNCHANGED <<books, inbox, upgrades>>
  BY PostsFace
<1>2. f.packet = packet /\ f.text = text.v /\ f.author = p
  BY DEF Face
<1>3. ASSUME NEW J, Stamped \subseteq J, VerifyCid(packet) => CanonicalDatum(packet) \in J
      PROVE  CleanPacket(packet, J) /\ Clean(text.v, J)
  <2>1. \A q \in Seen(p) : CleanPacket(q, J)
    <3>1. \A q \in Seen(p) : CleanPacket(q, Stamped)
      BY DEF Seen, CleanInv, Authored
    <3> QED BY <1>3, <3>1, CleanGrows
  <2>2. CleanAll(parents, J)
    BY <2>1, CleanCitations
  <2>3. CleanPacket(packet, J)
    BY <1>3, <2>2, CleanPosted
  <2> HIDE DEF packet
  <2>4. Clean(text.v, J)
    BY <1>1, <2>3, CleanEncoded
  <2> QED BY <2>3, <2>4
<1>4. f \in Authored'
  BY <1>1, <1>2 DEF Authored
<1> HIDE DEF f, packet, text, parents
<1>5. \A J : Stamped \subseteq J /\ (f \in Authored' /\ VerifyCid(f.packet) => CanonicalDatum(f.packet) \in J) =>
               Clean(f.text, J) /\ (f \in Authored' => CleanPacket(f.packet, J))
  BY <1>2, <1>3, <1>4
<1> QED BY <1>1, <1>5, CleanWritten

\* so does the codec that hands on what a peer accepted,
LEMMA ForwardsClean ==
  ASSUME CleanInv, NEW p \in Peers, NEW a \in inbox[p], Forward(p, a)
  PROVE  CleanInv'
<1> DEFINE packet == PacketFromExpr(PacketToExpr(a.packet))
           text == EncodeText(packet.v, StandardBook)
           f == Face(a.packet, StandardBook, text.v, "codec")
<1>1. /\ packet.ok /\ text.ok
      /\ faces' = faces \cup {f} /\ UNCHANGED <<books, inbox, upgrades>>
  <2>1. Err.ok = FALSE
    BY DEF Err
  <2> HIDE DEF packet
  <2> QED BY <2>1 DEF Forward, packet
<1>2. f.text = text.v /\ f.author = "codec"
  BY DEF Face
<1>3. f \notin Authored'
  BY <1>2, ExchangeAssumption DEF Authored
<1>4. CleanPacket(a.packet, Stamped)
  BY DEF CleanInv
<1>5. CleanPacket(packet.v, Stamped)
  BY <1>1, <1>4, CleanHandedOn
<1> HIDE DEF packet
<1>6. Clean(text.v, Stamped)
  BY <1>1, <1>5, CleanEncoded
<1> HIDE DEF text, f
<1>7. \A J : Stamped \subseteq J => Clean(f.text, J)
  BY <1>2, <1>6, CleanGrows
<1> QED BY <1>1, <1>3, <1>7, CleanWritten

\* and a peer that reads a clean text,
LEMMA ReceivesClean ==
  ASSUME CleanInv, NEW p \in Peers, NEW text, Clean(text, Stamped), Receive(p, text)
  PROVE  CleanInv'
<1> DEFINE packet == DecodeText(text, books[p])
           a == Accept(packet.v, books[p])
<1>1. /\ packet.ok
      /\ inbox' = [inbox EXCEPT ![p] = @ \cup {a}]
      /\ UNCHANGED <<books, faces, upgrades>>
  BY DEF Receive
<1>2. CleanPacket(packet.v, Stamped)
  BY <1>1, CleanDecoded
<1>3. a.packet = packet.v /\ a.verified = VerifyCid(a.packet)
  BY DEF Accept
<1> HIDE DEF a, packet
<1>4. DOMAIN inbox' = Peers /\ \A q \in Peers : inbox'[q] \subseteq inbox[q] \cup {a}
  BY <1>1 DEF CleanInv
<1>5. Authored' = Authored /\ Stamped' = Stamped
  BY <1>1 DEF Authored, Stamped
<1>6. \A q \in Peers : \A b \in inbox'[q] : CleanPacket(b.packet, Stamped) /\ b.verified = VerifyCid(b.packet)
  BY <1>2, <1>3, <1>4 DEF CleanInv
<1> QED BY <1>1, <1>4, <1>5, <1>6 DEF CleanInv

\* also one of damaged lines.
LEMMA DamageClean ==
  ASSUME CleanInv, NEW p \in Peers, NEW f \in faces, NEW i, ReceiveDamaged(p, Lines(f.text), i)
  PROVE  CleanInv'
<1> DEFINE others == {Lines(g.text) : g \in faces}
           lines == Lines(f.text)
<1>1. PICK r \in Rewrites(lines, others, i) : Receive(p, Joined(r, Newline) \o <<Newline>>)
  BY DEF ReceiveDamaged
<1>2. i \in DOMAIN lines
  BY DEF ReceiveDamaged
<1>3. CleanAll(lines, Stamped) /\ \A o \in others : CleanAll(o, Stamped)
  BY CleanLines DEF CleanInv
<1> HIDE DEF others, lines
<1>4. CleanAll(r, Stamped)
  BY <1>2, <1>3, CleanRewrites
<1>5. Clean(Joined(r, Newline) \o <<Newline>>, Stamped)
  BY <1>4, CleanDamage
<1> QED BY <1>1, <1>5, ReceivesClean

\* The invariant of texts, step by step.
LEMMA CleanStep == CleanInv /\ [Next]_vars => CleanInv'
<1> SUFFICES ASSUME CleanInv, [Next]_vars PROVE CleanInv'
  OBVIOUS
<1>1. ASSUME NEW p \in Peers, NEW i \in DOMAIN Drafts[p],
             NEW S \in {T \in SUBSET Citations(p) : IsFiniteSet(T) /\ Cardinality(T) <= 2},
             Post(p, Drafts[p][i], SetToSeq(S))
      PROVE  CleanInv'
  BY <1>1, PostsClean
<1>2. ASSUME NEW p \in Peers, NEW a \in inbox[p], Forward(p, a) PROVE CleanInv'
  BY <1>2, ForwardsClean
<1>3. ASSUME NEW p \in Peers, NEW f \in faces, Receive(p, f.text) PROVE CleanInv'
  <2>1. Clean(f.text, Stamped)
    BY DEF CleanInv
  <2> QED BY <1>3, <2>1, ReceivesClean
<1>4. ASSUME NEW p \in Peers, NEW f \in faces, NEW i, ReceiveDamaged(p, Lines(f.text), i) PROVE CleanInv'
  BY <1>4, DamageClean
<1>5. ASSUME NEW p \in Peers, NEW i, Upgrade(p, i) PROVE CleanInv'
  <2>1. UNCHANGED <<inbox, faces>>
    BY <1>5 DEF Upgrade
  <2> QED BY <2>1 DEF CleanInv, Authored, Stamped
<1>6. CASE UNCHANGED vars
  BY <1>6 DEF vars, CleanInv, Authored, Stamped
<1> QED BY <1>1, <1>2, <1>3, <1>4, <1>5, <1>6 DEF Next

\* Nothing is in flight at the start.
LEMMA CleanStart == Init => CleanInv
BY DEF Init, CleanInv, Authored

\* The invariant of texts holds in every state.
LEMMA CleanHold == Spec => []CleanInv
BY CleanStart, CleanStep, PTL DEF Spec

\* Packets with the same content id that carry it are the same.
LEMMA SameDatum ==
  ASSUME NEW p, NEW q, DOMAIN p = PacketFields, DOMAIN q = PacketFields,
         VerifyCid(p), VerifyCid(q), CanonicalDatum(p) = CanonicalDatum(q)
  PROVE  SamePacket(p, q)
<1>1. p.cid = q.cid
  BY DEF VerifyCid, PacketId
<1> DEFINE B(r) == [i \in DOMAIN r.body |-> [r.body[i] EXCEPT !.payload = ExprToJson(@)]]
           s == Settled(p)
           t == Settled(q)
<1>2. s = [p EXCEPT !.body = B(p)] /\ t = [q EXCEPT !.body = B(q)]
  BY DEF Settled
<1> HIDE DEF B
<1>3. /\ s = [x \in PacketFields |-> s[x]] /\ t = [x \in PacketFields |-> t[x]]
      /\ s.cid = p.cid /\ t.cid = q.cid
  BY <1>2 DEF PacketFields
<1>4. [s EXCEPT !.cid = <<>>] = [t EXCEPT !.cid = <<>>]
  BY DEF CanonicalDatum
<1> HIDE DEF s, t
<1>5. \A x \in PacketFields : x # "cid" => s[x] = t[x]
  <2> SUFFICES ASSUME NEW x \in PacketFields, x # "cid" PROVE s[x] = t[x]
    OBVIOUS
  <2>1. [s EXCEPT !.cid = <<>>][x] = s[x] /\ [t EXCEPT !.cid = <<>>][x] = t[x]
    BY <1>3
  <2> QED BY <1>4, <2>1
<1>6. s = t
  BY <1>1, <1>3, <1>5
<1> QED BY <1>6 DEF SamePacket, s, t

\* A received packet whose cid verifies is one that a peer posted and stamped,
\* header, body and warrant, for all books, drafts and claims and whatever line
\* of whatever text was lost, repeated, moved or replaced (stamp_packet_cid,
\* verify_packet_cid).
THEOREM CidTheorem == Spec => []CidBindsContent
<1>1. CleanInv => CidBindsContent
  <2> SUFFICES ASSUME CleanInv, NEW a \in Verified
               PROVE  \E f \in Authored : SamePacket(a.packet, f.packet)
    BY DEF CidBindsContent
  <2>1. CleanPacket(a.packet, Stamped) /\ VerifyCid(a.packet)
    BY DEF Verified, Accepted, CleanInv
  <2> DEFINE x == CanonicalDatum(a.packet)
             t == [hash |-> x]
  <2>2. a.packet.cid = <<t>> /\ t.hash = x /\ "hash" \in DOMAIN t
    BY <2>1 DEF VerifyCid, PacketId, ContentId
  <2>3. IsPacketDatum(x)
    <3>1. DOMAIN a.packet = PacketFields
      BY <2>1 DEF CleanPacket
    <3>2. DOMAIN Settled(a.packet) = PacketFields
      BY <3>1 DEF Settled
    <3> QED BY <3>2 DEF CanonicalDatum, IsPacketDatum
  <2> HIDE DEF t, x
  <2>4. x \in Stamped
    <3>1. Clean(<<t>>, Stamped)
      BY <2>1, <2>2 DEF CleanPacket
    <3>2. t \in ToSet(<<t>>)
      BY ShortSeqs
    <3> HIDE DEF IsPacketDatum
    <3>3. Vouched(t, Stamped)
      BY <3>1, <3>2 DEF Clean
    <3> QED BY <2>2, <2>3, <3>3, Zenon DEF Vouched
  <2>5. PICK f \in Authored : VerifyCid(f.packet) /\ x = CanonicalDatum(f.packet)
    BY <2>4 DEF Stamped
  <2>6. DOMAIN f.packet = PacketFields /\ DOMAIN a.packet = PacketFields
    BY <2>1 DEF CleanInv, CleanPacket
  <2> QED BY <2>1, <2>5, <2>6, SameDatum DEF x
<1> QED BY <1>1, CleanHold, PTL

(***************************************************************************)
(* Expressions: what they consist of are expressions.                      *)
(***************************************************************************)

\* The expressions of one level more than those of S.
Level(S) == ExprsOver(Seq(S), Seq(S \X S))

\* The recursion of Exprs.
Bottom == ExprsOver({<<>>}, {<<>>})
Deepens(f, n) == f = [i \in 0..n |-> IF i = 0 THEN Bottom ELSE Level(f[i - 1])]

\* More of the parts, more expressions.
LEMMA MoreExprs ==
  ASSUME NEW S, NEW T
  PROVE  /\ Bottom \subseteq Level(S)
         /\ S \subseteq T => Level(S) \subseteq Level(T)
<1>1. <<>> \in Seq(S) /\ <<>> \in Seq(S \X S)
  BY EmptySeq
<1>2. Bottom \subseteq Level(S)
  <2> DEFINE A == Seq(S)
             B == Seq(S \X S)
             C == Seq(Tokens)
  <2> HIDE DEF A, B, C
  <2>1. <<>> \in A /\ <<>> \in B
    BY <1>1 DEF A, B
  <2>2. \A e \in ExprsOver({<<>>}, {<<>>}) : e \in ExprsOver(A, B)
    BY <2>1 DEF ExprsOver
  <2> QED BY <2>2 DEF Bottom, Level, A, B
<1>3. ASSUME S \subseteq T PROVE Level(S) \subseteq Level(T)
  <2>1. (S \X S) \subseteq (T \X T)
    BY <1>3
  <2>2. Seq(S) \subseteq Seq(T) /\ Seq(S \X S) \subseteq Seq(T \X T)
    <3>1. \A A, B : A \subseteq B => Seq(A) \subseteq Seq(B)
      BY SeqMonotonic
    <3> QED BY <1>3, <2>1, <3>1
  <2> DEFINE A == Seq(S)
             B == Seq(S \X S)
             C == Seq(T)
             D == Seq(T \X T)
  <2> HIDE DEF A, B, C, D
  <2>3. A \subseteq C /\ B \subseteq D
    BY <2>2 DEF A, B, C, D
  <2>4. ExprsOver(A, B) \subseteq ExprsOver(C, D)
    BY <2>3 DEF ExprsOver
  <2> QED BY <2>4 DEF Level, A, B, C, D
<1> QED BY <1>2, <1>3

\* The levels are there.
LEMMA LevelsExist == \A n \in Nat : \E f : Deepens(f, n)
<1> DEFINE S == {n \in Nat : \E f : Deepens(f, n)}
<1>1. 0 \in S
  <2> DEFINE f == [i \in 0..0 |-> Bottom]
  <2>1. Deepens(f, 0)
    BY DEF Deepens
  <2> QED BY <2>1
<1>2. ASSUME NEW n \in Nat, n \in S PROVE n + 1 \in S
  <2>1. PICK f : Deepens(f, n)
    BY <1>2
  <2>2. PICK m : m = n + 1
    OBVIOUS
  <2> DEFINE g == [i \in 0..m |-> IF i = 0 THEN Bottom ELSE Level(f[i - 1])]
  <2>3. \A i \in 0..n : f[i] = IF i = 0 THEN Bottom ELSE Level(f[i - 1])
    BY <2>1 DEF Deepens
  <2>4. \A i \in 0..n : g[i] = f[i]
    BY <2>2, <2>3
  <2>5. \A i \in 0..m : g[i] = IF i = 0 THEN Bottom ELSE Level(g[i - 1])
    <3> SUFFICES ASSUME NEW i \in 0..m PROVE g[i] = IF i = 0 THEN Bottom ELSE Level(g[i - 1])
      OBVIOUS
    <3>1. g[i] = IF i = 0 THEN Bottom ELSE Level(f[i - 1])
      OBVIOUS
    <3>2. i # 0 => i - 1 \in 0..n
      BY <2>2
    <3> HIDE DEF g
    <3> QED BY <2>4, <3>1, <3>2
  <2>6. Deepens(g, m)
    <3>1. g = [i \in 0..m |-> g[i]]
      OBVIOUS
    <3> HIDE DEF g
    <3> QED BY <2>5, <3>1 DEF Deepens
  <2> QED BY <2>2, <2>6
<1> HIDE DEF S
<1>3. \A n \in Nat : n \in S
  BY <1>1, <1>2, SetInduction
<1> QED BY <1>3 DEF S

\* Texts, items and entries of an expression.
LEMMA ExprParts ==
  ASSUME NEW e \in Exprs
  PROVE  /\ e.a \in Seq(Tokens) /\ e.ns \in Seq(Tokens)
         /\ e.items \in Seq(Exprs) /\ e.entries \in Seq(Exprs \X Exprs)
<1> DEFINE n == Levels
<1>1. n \in Nat
  BY LimitsAssumption
<1>2. PICK f : f = CHOOSE u : u = [i \in 0..n |-> IF i = 0 THEN Bottom ELSE Level(u[i - 1])]
  OBVIOUS
<1>3. Deepens(f, n)
  BY <1>1, <1>2, LevelsExist DEF Deepens
<1>4. Exprs = f[n]
  <2>1. Exprs = (CHOOSE u : u = [i \in 0..n |-> IF i = 0 THEN Bottom ELSE Level(u[i - 1])])[n]
    BY DEF Exprs, Bottom, Level
  <2> QED BY <1>2, <2>1
<1> HIDE DEF n
<1>5. \A i \in 0..n : f[i] = IF i = 0 THEN Bottom ELSE Level(f[i - 1])
  BY <1>3 DEF Deepens
<1>6. \A i \in Nat : i \in 1..n => f[i - 1] \subseteq f[i]
  <2> DEFINE S == {i \in Nat : i + 1 \in 1..n => f[i] \subseteq f[i + 1]}
  <2>1. 0 \in S
    <3> SUFFICES ASSUME 1 \in 1..n PROVE f[0] \subseteq f[1]
      OBVIOUS
    <3>1. f[0] = Bottom
      BY <1>1, <1>5
    <3>2. f[1] = Level(f[0])
      BY <1>1, <1>5
    <3> QED BY <3>1, <3>2, MoreExprs
  <2>2. ASSUME NEW i \in Nat, i \in S PROVE i + 1 \in S
    <3> SUFFICES ASSUME (i + 1) + 1 \in 1..n PROVE f[i + 1] \subseteq f[(i + 1) + 1]
      OBVIOUS
    <3>1. f[i] \subseteq f[i + 1]
      BY <1>1, <2>2
    <3>2. f[i + 1] = Level(f[i])
      BY <1>1, <1>5
    <3>3. f[(i + 1) + 1] = Level(f[i + 1])
      BY <1>1, <1>5
    <3> QED BY <3>1, <3>2, <3>3, MoreExprs
  <2> HIDE DEF S
  <2>3. \A i \in Nat : i \in S
    BY <2>1, <2>2, SetInduction
  <2>4. ASSUME NEW i \in Nat, i \in 1..n PROVE f[i - 1] \subseteq f[i]
    <3>1. i - 1 \in Nat /\ (i - 1) + 1 = i
      BY <2>4
    <3>2. i - 1 \in S
      BY <2>3, <3>1
    <3> QED BY <2>4, <3>1, <3>2 DEF S
  <2> QED BY <2>4
<1>7. CASE n = 0
  <2>1. e \in Bottom
    BY <1>1, <1>4, <1>5, <1>7
  <2>2. e.a \in Seq(Tokens) /\ e.ns \in Seq(Tokens) /\ e.items = <<>> /\ e.entries = <<>>
    BY <2>1 DEF Bottom, ExprsOver
  <2> QED BY <2>2, EmptySeq
<1>8. CASE n # 0
  <2>1. PICK S : S = f[n - 1]
    OBVIOUS
  <2>2. f[n] = Level(S)
    BY <1>1, <1>5, <1>8, <2>1
  <2>3. S \subseteq Exprs
    BY <1>1, <1>4, <1>6, <1>8, <2>1
  <2>4. e \in ExprsOver(Seq(S), Seq(S \X S))
    BY <1>4, <2>2 DEF Level
  <2>5. e.a \in Seq(Tokens) /\ e.ns \in Seq(Tokens) /\ e.items \in Seq(S) /\ e.entries \in Seq(S \X S)
    BY <2>4 DEF ExprsOver
  <2>6. (S \X S) \subseteq (Exprs \X Exprs)
    BY <2>3
  <2> QED BY <2>3, <2>5, <2>6, SeqMonotonic
<1> QED BY <1>7, <1>8

(***************************************************************************)
(* Joining and replacing.                                                  *)
(***************************************************************************)

\* Sequences one behind the other hold what each of them holds.
LEMMA ConcatKeeps ==
  ASSUME NEW S, NEW s \in Seq(S), NEW t \in Seq(S)
  PROVE  ToSet(s) \subseteq ToSet(s \o t) /\ ToSet(t) \subseteq ToSet(s \o t)
<1> DEFINE r == s \o t
<1>1. /\ r \in Seq(S) /\ Len(r) = Len(s) + Len(t)
      /\ \A i \in 1..(Len(s) + Len(t)) : r[i] = IF i <= Len(s) THEN s[i] ELSE t[i - Len(s)]
  BY ConcatProperties
<1>2. /\ DOMAIN s = 1..Len(s) /\ DOMAIN t = 1..Len(t) /\ DOMAIN r = 1..Len(r)
      /\ Len(s) \in Nat /\ Len(t) \in Nat
  BY <1>1, LenProperties
<1> HIDE DEF r
<1>3. ASSUME NEW i \in DOMAIN s PROVE s[i] \in ToSet(r)
  <2>1. i \in DOMAIN r /\ r[i] = s[i]
    BY <1>1, <1>2
  <2> QED BY <2>1 DEF ToSet
<1>4. ASSUME NEW i \in DOMAIN t PROVE t[i] \in ToSet(r)
  <2>1. PICK j : j = Len(s) + i
    OBVIOUS
  <2>2. j \in DOMAIN r /\ r[j] = t[i]
    BY <1>1, <1>2, <2>1
  <2> QED BY <2>2 DEF ToSet
<1> QED BY <1>3, <1>4 DEF ToSet, r

\* Flat loses nothing.
LEMMA FlatHolds ==
  ASSUME NEW S, NEW ss, IsSeq(ss), \A i \in DOMAIN ss : ss[i] \in Seq(S)
  PROVE  Flat(ss) \in Seq(S) /\ \A i \in DOMAIN ss : ToSet(ss[i]) \subseteq ToSet(Flat(ss))
<1>1. PICK n : n = Len(ss) /\ n \in Nat /\ DOMAIN ss = 1..n
  BY SeqHolds
<1> DEFINE Q == [i \in 0..n |-> {s \in Seq(S) : \A k \in 1..i : ToSet(ss[k]) \subseteq ToSet(s)}]
<1>2. \A i \in 0..n : \A s : s \in Q[i] <=> s \in Seq(S) /\ \A k \in 1..i : ToSet(ss[k]) \subseteq ToSet(s)
  OBVIOUS
<1> HIDE DEF Q
<1>3. <<>> \in Q[0]
  <2>1. PICK x : x = <<>>
    OBVIOUS
  <2>2. x \in Seq(S) /\ 0 \in 0..n
    BY <1>1, <2>1, EmptySeq
  <2>3. x \in Q[0]
    BY <1>2, <2>2
  <2> QED BY <2>1, <2>3
<1>4. ASSUME NEW i \in 1..n, NEW y \in Q[i - 1] PROVE (y \o ss[i]) \in Q[i]
  <2>1. i - 1 \in 0..n /\ i \in 0..n
    BY <1>1
  <2>2. y \in Seq(S) /\ ss[i] \in Seq(S)
    BY <1>1, <1>2, <2>1
  <2>3. PICK r : r = y \o ss[i]
    OBVIOUS
  <2>4. r \in Seq(S) /\ ToSet(y) \subseteq ToSet(r) /\ ToSet(ss[i]) \subseteq ToSet(r)
    BY <2>2, <2>3, ConcatKeeps, ConcatProperties
  <2>5. ASSUME NEW k \in 1..i PROVE ToSet(ss[k]) \subseteq ToSet(r)
    <3>1. CASE k = i
      BY <2>4, <3>1
    <3>2. CASE k \in 1..(i - 1)
      <4>1. ToSet(ss[k]) \subseteq ToSet(y)
        BY <1>2, <2>1, <3>2
      <4> QED BY <2>4, <4>1
    <3> QED BY <3>1, <3>2
  <2>6. r \in Q[i]
    BY <1>2, <2>1, <2>4, <2>5
  <2> QED BY <2>3, <2>6
<1>5. Flat(ss) \in Q[n]
  BY <1>1, <1>3, <1>4, FlatIn
<1>6. n \in 0..n
  BY <1>1
<1> QED BY <1>1, <1>2, <1>5, <1>6

\* Replacing a token by a text keeps the other tokens, and adds only what the
\* text has.
LEMMA ReplacedHolds ==
  ASSUME NEW text, IsSeq(text), NEW marker, NEW by, IsSeq(by)
  PROVE  /\ IsSeq(Replaced(text, marker, by))
         /\ \A x \in ToSet(text) : x # marker => x \in ToSet(Replaced(text, marker, by))
         /\ \A x \in ToSet(Replaced(text, marker, by)) : x \in ToSet(by) \/ (x \in ToSet(text) /\ x # marker)
<1> DEFINE P(i) == IF text[i] = marker THEN by ELSE <<text[i]>>
           ss == [i \in DOMAIN text |-> P(i)]
           S == ToSet(by) \cup (ToSet(text) \ {marker})
<1>1. /\ DOMAIN text = 1..Len(text) /\ Len(text) \in Nat
      /\ \A i \in DOMAIN text : text[i] \in ToSet(text)
      /\ \A x \in ToSet(text) : \E i \in DOMAIN text : x = text[i]
  BY SeqHolds
<1>2. Replaced(text, marker, by) = Flat(ss)
  BY DEF Replaced
<1>3. \A i \in DOMAIN text : ss[i] = P(i)
  OBVIOUS
<1>4. IsSeq(ss) /\ DOMAIN ss = DOMAIN text
  <2>1. ss = [i \in 1..Len(text) |-> ss[i]]
    BY <1>1
  <2> HIDE DEF ss
  <2> QED BY <1>1, <2>1, FunSeq
<1> HIDE DEF ss
<1>5. ASSUME NEW i \in DOMAIN text PROVE ss[i] \in Seq(S)
  <2>1. CASE text[i] = marker
    <3>1. ss[i] = by
      BY <1>3, <2>1
    <3>2. by \in Seq(ToSet(by)) /\ ToSet(by) \subseteq S
      BY SeqHolds
    <3> HIDE DEF S
    <3> QED BY <3>1, <3>2, SeqMonotonic
  <2>2. CASE text[i] # marker
    <3>1. ss[i] = <<text[i]>> /\ text[i] \in S
      BY <1>1, <1>3, <2>2
    <3> HIDE DEF S
    <3> QED BY <3>1
  <2> QED BY <2>1, <2>2
<1> HIDE DEF S
<1>6. /\ Flat(ss) \in Seq(S)
      /\ \A i \in DOMAIN text : ToSet(ss[i]) \subseteq ToSet(Flat(ss))
  BY <1>4, <1>5, FlatHolds
<1>7. IsSeq(Flat(ss)) /\ ToSet(Flat(ss)) \subseteq S
  BY <1>6, AnySeq
<1>8. ASSUME NEW x \in ToSet(text), x # marker PROVE x \in ToSet(Flat(ss))
  <2>1. PICK i \in DOMAIN text : x = text[i]
    BY <1>1
  <2>2. ss[i] = <<x>>
    BY <1>3, <1>8, <2>1
  <2>3. x \in ToSet(ss[i])
    BY <2>2, ShortSeqs
  <2> QED BY <1>6, <2>3
<1> QED BY <1>2, <1>7, <1>8 DEF S

(***************************************************************************)
(* Frames.                                                                 *)
(***************************************************************************)

\* What goes into the place of a hole.
TextFor(frame, e, i) == HoleText(frame.holes[i].kind, Slot(e, frame.holes[i].name))

\* Every hole has a value that can be rendered.
Fillable(frame, e) ==
  \A i \in DOMAIN frame.holes :
    /\ frame.holes[i].name \in SlotNames(e)
    /\ Renderable(frame.holes[i].kind, Slot(e, frame.holes[i].name))
    /\ IsSeq(TextFor(frame, e, i))

\* The sentence after n holes: the markers of the holes that follow are there,
\* and one of an earlier hole only if a text that went in since has it.
Filled(frame, e, n, acc) ==
  /\ acc.ok /\ IsSeq(acc.v)
  /\ \A i \in DOMAIN frame.holes : i > n => MarkerOf(frame.holes[i]) \in ToSet(acc.v)
  /\ \A i \in 1..n : MarkerOf(frame.holes[i]) \in ToSet(acc.v) =>
       \E j \in i..n : MarkerOf(frame.holes[i]) \in ToSet(TextFor(frame, e, j))

\* Filling a hole.
LEMMA FillStep ==
  ASSUME NEW frame, WellMade(frame), NEW e, Fillable(frame, e),
         NEW n \in DOMAIN frame.holes, NEW acc, Filled(frame, e, n - 1, acc)
  PROVE  Filled(frame, e, n, FillHole(acc, frame.holes[n], e))
<1> DEFINE hole == frame.holes[n]
           M(i) == MarkerOf(frame.holes[i])
           text == TextFor(frame, e, n)
           r == Replaced(acc.v, M(n), text)
<1>1. DOMAIN frame.holes = 1..Len(frame.holes) /\ Len(frame.holes) \in Nat
  BY SeqHolds DEF WellMade
<1>2. hole.name \in SlotNames(e) /\ Renderable(hole.kind, Slot(e, hole.name)) /\ IsSeq(text)
  BY DEF Fillable
<1>3. acc.ok /\ IsSeq(acc.v) /\ M(n) \in ToSet(acc.v)
  BY <1>1 DEF Filled
<1>4. FillHole(acc, hole, e) = [ok |-> TRUE, v |-> r]
  <2> HIDE DEF M
  <2>1. MarkerOf(hole) = M(n) /\ HoleText(hole.kind, Slot(e, hole.name)) = text
    BY DEF M, TextFor
  <2> HIDE DEF text, hole, r
  <2>2. FillHole(acc, hole, e) =
          IF ~acc.ok \/ hole.name \notin SlotNames(e) THEN Unrendered
          ELSE IF ~Renderable(hole.kind, Slot(e, hole.name)) \/ M(n) \notin ToSet(acc.v) THEN Unrendered
               ELSE [ok |-> TRUE, v |-> Replaced(acc.v, M(n), text)]
    BY <2>1, Zenon DEF FillHole
  <2> QED BY <1>2, <1>3, <2>2 DEF r
<1>5. /\ IsSeq(r)
      /\ \A x \in ToSet(acc.v) : x # M(n) => x \in ToSet(r)
      /\ \A x \in ToSet(r) : x \in ToSet(text) \/ (x \in ToSet(acc.v) /\ x # M(n))
  <2> HIDE DEF M, text
  <2> QED BY <1>2, <1>3, ReplacedHolds
<1>6. \A i, j \in DOMAIN frame.holes : M(i) = M(j) => i = j
  BY DEF WellMade
<1>7. \A i \in DOMAIN frame.holes : i > n - 1 => M(i) \in ToSet(acc.v)
  BY DEF Filled
<1>8. \A i \in 1..(n - 1) : M(i) \in ToSet(acc.v) =>
        \E j \in i..(n - 1) : M(i) \in ToSet(TextFor(frame, e, j))
  BY DEF Filled
<1> HIDE DEF M, r, text, hole
<1>9. ASSUME NEW i \in DOMAIN frame.holes, i > n PROVE M(i) \in ToSet(r)
  <2>1. i > n - 1 /\ i # n
    BY <1>1, <1>9
  <2> QED BY <1>5, <1>6, <1>7, <2>1
<1>10. ASSUME NEW i \in 1..n, M(i) \in ToSet(r)
       PROVE  \E j \in i..n : M(i) \in ToSet(TextFor(frame, e, j))
  <2>1. CASE M(i) \in ToSet(text)
    <3>1. n \in i..n
      BY <1>1
    <3> QED BY <2>1, <3>1 DEF text
  <2>2. CASE M(i) \in ToSet(acc.v) /\ M(i) # M(n)
    <3>1. i \in 1..(n - 1)
      BY <1>1, <2>2
    <3>2. PICK j \in i..(n - 1) : M(i) \in ToSet(TextFor(frame, e, j))
      BY <1>8, <2>2, <3>1
    <3>3. j \in i..n
      BY <1>1, <3>1
    <3> QED BY <3>2, <3>3
  <2> QED BY <1>5, <1>10, <2>1, <2>2
<1>11. PICK s : s = [ok |-> TRUE, v |-> r]
  OBVIOUS
<1>12. s.ok /\ s.v = r
  BY <1>11
<1>13. Filled(frame, e, n, s)
  BY <1>5, <1>9, <1>10, <1>12 DEF Filled, M
<1> QED BY <1>4, <1>11, <1>13 DEF hole

\* The recursion of RenderFrame.
Fills(f, n, frame, e) ==
  f = [i \in 0..n |-> IF i = 0 THEN Unfilled(frame) ELSE FillHole(f[i - 1], frame.holes[i], e)]

\* It is there.
LEMMA FillsExist == ASSUME NEW frame, NEW e PROVE \A n \in Nat : \E f : Fills(f, n, frame, e)
<1> DEFINE S == {n \in Nat : \E f : Fills(f, n, frame, e)}
<1>1. 0 \in S
  <2> DEFINE f == [i \in 0..0 |-> Unfilled(frame)]
  <2>1. f = [i \in 0..0 |-> IF i = 0 THEN Unfilled(frame) ELSE FillHole(f[i - 1], frame.holes[i], e)]
    OBVIOUS
  <2> HIDE DEF f
  <2> QED BY <2>1 DEF Fills
<1>2. ASSUME NEW n \in Nat, n \in S PROVE n + 1 \in S
  <2>1. PICK f : Fills(f, n, frame, e)
    BY <1>2
  <2>2. PICK m : m = n + 1
    OBVIOUS
  <2> DEFINE g == [i \in 0..m |-> IF i = 0 THEN Unfilled(frame) ELSE FillHole(f[i - 1], frame.holes[i], e)]
  <2>3. \A i \in 0..n : f[i] = IF i = 0 THEN Unfilled(frame) ELSE FillHole(f[i - 1], frame.holes[i], e)
    BY <2>1 DEF Fills
  <2>4. \A i \in 0..n : g[i] = f[i]
    BY <2>2, <2>3
  <2>5. \A i \in 0..m : g[i] = IF i = 0 THEN Unfilled(frame) ELSE FillHole(g[i - 1], frame.holes[i], e)
    <3> SUFFICES ASSUME NEW i \in 0..m PROVE g[i] = IF i = 0 THEN Unfilled(frame) ELSE FillHole(g[i - 1], frame.holes[i], e)
      OBVIOUS
    <3>1. g[i] = IF i = 0 THEN Unfilled(frame) ELSE FillHole(f[i - 1], frame.holes[i], e)
      OBVIOUS
    <3>2. i # 0 => i - 1 \in 0..n
      BY <2>2
    <3> HIDE DEF g
    <3> QED BY <2>4, <3>1, <3>2
  <2>6. Fills(g, m, frame, e)
    <3>1. g = [i \in 0..m |-> g[i]]
      OBVIOUS
    <3> HIDE DEF g
    <3> QED BY <2>5, <3>1 DEF Fills
  <2> QED BY <2>2, <2>6
<1> HIDE DEF S
<1>3. \A n \in Nat : n \in S
  BY <1>1, <1>2, SetInduction
<1> QED BY <1>3 DEF S

\* A frame that is well made is rendered with values that can be.
LEMMA FilledFrame ==
  ASSUME NEW frame, WellMade(frame), NEW e, Fillable(frame, e)
  PROVE  RendersWhole(frame, e)
<1>1. PICK n : n = Len(frame.holes) /\ n \in Nat /\ DOMAIN frame.holes = 1..n
  BY SeqHolds DEF WellMade
<1>2. PICK f : f = CHOOSE h : h = [i \in 0..n |-> IF i = 0 THEN Unfilled(frame)
                                                 ELSE FillHole(h[i - 1], frame.holes[i], e)]
  OBVIOUS
<1>3. Fills(f, n, frame, e)
  <2>1. \E h : Fills(h, n, frame, e)
    BY <1>1, FillsExist
  <2> QED BY <1>2, <2>1, Zenon DEF Fills
<1>4. RenderFrame(frame, e) = f[n]
  BY <1>1, <1>2 DEF RenderFrame
<1> DEFINE S == {i \in Nat : i <= n => Filled(frame, e, i, f[i])}
<1>5. f[0] = Unfilled(frame)
  BY <1>1, <1>3 DEF Fills
<1>6. ASSUME NEW i \in 1..n PROVE f[i] = FillHole(f[i - 1], frame.holes[i], e)
  BY <1>1, <1>3 DEF Fills
<1>7. 0 \in S
  <2>1. f[0].ok /\ f[0].v = frame.template
    BY <1>5 DEF Unfilled
  <2>2. Filled(frame, e, 0, f[0])
    BY <1>1, <2>1 DEF Filled, WellMade
  <2> QED BY <2>2
<1>8. ASSUME NEW i \in Nat, i \in S PROVE i + 1 \in S
  <2> SUFFICES ASSUME i + 1 <= n PROVE Filled(frame, e, i + 1, f[i + 1])
    OBVIOUS
  <2>1. PICK k : k = i + 1
    OBVIOUS
  <2>2. k \in 1..n /\ k - 1 = i
    BY <1>1, <2>1
  <2>3. Filled(frame, e, k - 1, f[k - 1]) /\ k \in DOMAIN frame.holes
    BY <1>1, <1>8, <2>2
  <2>4. PICK acc : acc = f[k - 1]
    OBVIOUS
  <2>5. Filled(frame, e, k - 1, acc)
    BY <2>3, <2>4
  <2>6. Filled(frame, e, k, FillHole(acc, frame.holes[k], e))
    BY <2>3, <2>5, FillStep
  <2> QED BY <1>6, <2>1, <2>2, <2>4, <2>6
<1> HIDE DEF S
<1>9. Filled(frame, e, n, f[n])
  <2>1. \A i \in Nat : i \in S
    BY <1>7, <1>8, SetInduction
  <2> QED BY <1>1, <2>1 DEF S
<1>10. PICK acc : acc = f[n]
  OBVIOUS
<1>11. /\ acc.ok
       /\ \A i \in 1..n : MarkerOf(frame.holes[i]) \in ToSet(acc.v) =>
            \E j \in i..n : MarkerOf(frame.holes[i]) \in ToSet(TextFor(frame, e, j))
  BY <1>9, <1>10 DEF Filled
<1>12. RenderFrame(frame, e) = acc
  BY <1>4, <1>10
<1> QED BY <1>1, <1>11, <1>12 DEF RendersWhole, TextFor

(***************************************************************************)
(* Payloads.                                                               *)
(***************************************************************************)

\* A value that fits a hole can be rendered, and its text is a sequence.
LEMMA FittingValue ==
  ASSUME NEW e \in Exprs, NEW kind, FitsHole(kind, e)
  PROVE  Renderable(kind, e) /\ IsSeq(HoleText(kind, e))
<1>1. ASSUME NEW x \in Exprs PROVE IsSeq(TermText(x))
  <2>1. IsSeq(x.a) /\ IsSeq(x.ns)
    BY ExprParts, AnySeq
  <2>2. IsSeq(Word("/"))
    BY ShortSeqs DEF Word
  <2>3. IsSeq(x.ns \o Word("/") \o x.a)
    BY <2>1, <2>2, ConcatHolds
  <2> QED BY <2>1, <2>3 DEF TermText
<1>2. CASE kind = "Path"
  <2>1. IsVector(e) /\ \A i \in DOMAIN e.items : IsTerm(e.items[i])
    BY <1>2 DEF FitsHole, Items
  <2>2. Renderable(kind, e)
    <3>1. \A i \in DOMAIN e.items : e.items[i].t \in {"symbol", "string"}
      BY <2>1 DEF IsTerm
    <3> QED BY <1>2, <2>1, <3>1 DEF Renderable, Items
  <2> DEFINE T(i) == (IF i = 1 THEN <<>> ELSE Word(".")) \o TermText(e.items[i])
             ss == [i \in DOMAIN e.items |-> T(i)]
  <2>3. HoleText(kind, e) = FlattenSeq(ss)
    BY <1>2 DEF HoleText
  <2>4. /\ e.items \in Seq(Exprs) /\ DOMAIN e.items = 1..Len(e.items) /\ Len(e.items) \in Nat
    <3>1. e.items \in Seq(Exprs)
      BY ExprParts
    <3> QED BY <3>1, LenProperties
  <2>5. ASSUME NEW i \in DOMAIN e.items PROVE IsSeq(T(i))
    <3>1. IsSeq(TermText(e.items[i]))
      BY <1>1, <2>4, ElementOfSeq
    <3>2. IsSeq(IF i = 1 THEN <<>> ELSE Word("."))
      BY ShortSeqs DEF Word
    <3> QED BY <3>1, <3>2, ConcatHolds
  <2>6. IsSeq(ss) /\ ToSet(ss) = {ss[i] : i \in DOMAIN e.items}
    <3>1. ss = [i \in 1..Len(e.items) |-> ss[i]] /\ DOMAIN ss = DOMAIN e.items
      BY <2>4
    <3> HIDE DEF ss
    <3> QED BY <2>4, <3>1, FunSeq DEF ToSet
  <2>7. \A i \in DOMAIN e.items : ss[i] = T(i)
    OBVIOUS
  <2> HIDE DEF ss, T
  <2> DEFINE S == UNION {ToSet(ss[i]) : i \in DOMAIN e.items}
  <2>8. \A s \in ToSet(ss) : IsSeq(s) /\ ToSet(s) \subseteq S
    <3> SUFFICES ASSUME NEW i \in DOMAIN e.items PROVE IsSeq(ss[i]) /\ ToSet(ss[i]) \subseteq S
      BY <2>6
    <3> QED BY <2>5, <2>7
  <2> HIDE DEF S
  <2>9. IsSeq(FlattenSeq(ss))
    BY <2>6, <2>8, FlattenHolds
  <2> QED BY <2>2, <2>3, <2>9
<1>3. CASE kind # "Path"
  <2>1. Renderable(kind, e)
    BY <1>3 DEF FitsHole, Renderable, IsTerm
  <2>2. IsSeq(FencedProse(e.a))
    <3>1. IsSeq(e.a) /\ IsSeq(Fence) /\ IsSeq(FenceEnd)
      BY ExprParts, AnySeq, ShortSeqs DEF Fence, FenceEnd, Word
    <3>2. IsSeq(Fence \o e.a)
      BY <3>1, ConcatHolds
    <3> QED BY <3>1, <3>2, ConcatHolds DEF FencedProse
  <2>3. HoleText(kind, e) \in {FencedProse(e.a), TermText(e)}
    BY <1>3 DEF HoleText
  <2> QED BY <1>1, <2>1, <2>2, <2>3
<1> QED BY <1>2, <1>3

\* The slots of a frame payload.
LEMMA SlotsAreExprs ==
  ASSUME NEW e \in Exprs
  PROVE  /\ SlotEntries(e) \in Seq(Exprs \X Exprs)
         /\ \A name \in SlotNames(e) : Slot(e, name) \in Exprs
<1>1. e.entries \in Seq(Exprs \X Exprs)
  BY ExprParts
<1>2. SlotEntries(e) \in Seq(Exprs \X Exprs)
  <2>1. CASE Has(e, "slots")
    <3> DEFINE S == Holding(e, "slots")
    <3>1. S \subseteq 1..Len(e.entries) /\ S # {} /\ Len(e.entries) \in Nat
      BY <1>1, <2>1, LenProperties DEF Has, Holding
    <3> HIDE DEF S
    <3>2. Min(S) \in 1..Len(e.entries)
      BY <3>1, FirstLast
    <3>3. e.entries[Min(S)] \in Exprs \X Exprs
      BY <1>1, <3>2, ElementOfSeq
    <3>4. Field(e, "slots") \in Exprs
      BY <3>3 DEF Field, S
    <3> QED BY <2>1, <3>4, ExprParts DEF SlotEntries
  <2>2. CASE ~Has(e, "slots")
    BY <2>2, EmptySeq DEF SlotEntries
  <2> QED BY <2>1, <2>2
<1>3. ASSUME NEW name \in SlotNames(e) PROVE Slot(e, name) \in Exprs
  <2>1. PICK s : s = SlotEntries(e)
    OBVIOUS
  <2> DEFINE S == {i \in DOMAIN s : ToSymbol(s[i][1]) = name}
  <2>2. S \subseteq 1..Len(s) /\ S # {} /\ Len(s) \in Nat
    <3>1. DOMAIN s = 1..Len(s) /\ Len(s) \in Nat
      BY <1>2, <2>1, LenProperties
    <3>2. name \in {ToSymbol(s[i][1]) : i \in DOMAIN s}
      BY <2>1 DEF SlotNames
    <3> QED BY <3>1, <3>2
  <2>3. Slot(e, name) = s[Max(S)][2]
    BY <2>1 DEF Slot
  <2> HIDE DEF S
  <2>4. Max(S) \in 1..Len(s)
    BY <2>2, FirstLast
  <2>5. s[Max(S)] \in Exprs \X Exprs
    BY <1>2, <2>1, <2>4, ElementOfSeq
  <2> QED BY <2>3, <2>5
<1> QED BY <1>2, <1>3

\* A valid frame payload names a frame of the book and can be filled in.
LEMMA ValidFrameFills ==
  ASSUME NEW frames, NEW e \in Exprs, ValidFrame(frames, e)
  PROVE  FrameId(e) \in DOMAIN frames /\ Fillable(frames[FrameId(e)], e)
<1>1. PICK frame : frame = frames[FrameId(e)]
  OBVIOUS
<1>2. FrameId(e) \in DOMAIN frames /\ FillsHoles(frame, e)
  BY <1>1 DEF ValidFrame
<1>3. /\ SlotNames(e) = {frame.holes[i].name : i \in DOMAIN frame.holes}
      /\ \A i \in DOMAIN frame.holes : FitsHole(frame.holes[i].kind, Slot(e, frame.holes[i].name))
  BY <1>2 DEF FillsHoles
<1>4. ASSUME NEW i \in DOMAIN frame.holes
      PROVE  /\ frame.holes[i].name \in SlotNames(e)
             /\ Renderable(frame.holes[i].kind, Slot(e, frame.holes[i].name))
             /\ IsSeq(TextFor(frame, e, i))
  <2>1. PICK value, kind : value = Slot(e, frame.holes[i].name) /\ kind = frame.holes[i].kind
    OBVIOUS
  <2>2. frame.holes[i].name \in SlotNames(e)
    BY <1>3
  <2>3. value \in Exprs
    BY <2>1, <2>2, SlotsAreExprs
  <2>4. FitsHole(kind, value)
    BY <1>3, <2>1
  <2>5. Renderable(kind, value) /\ IsSeq(HoleText(kind, value))
    BY <2>3, <2>4, FittingValue
  <2> QED BY <2>1, <2>2, <2>5 DEF TextFor
<1>5. Fillable(frame, e)
  BY <1>4 DEF Fillable
<1> QED BY <1>1, <1>2, <1>5

\* What is read from a part line carries an expression.
LEMMA ParsedPayload ==
  ASSUME NEW line, NEW book, ParsePart(line, book).ok
  PROVE  ParsePart(line, book).v.payload \in Exprs
<1> DEFINE first == SplitOnce(line, Space)
           second == SplitOnce(first.v[2], Space)
           kind == KindOf(first.v[1])
           rest == second.v[2]
           payload == JsonToExpr(rest[2].json)
           part == Part(ParseSymbol(second.v[1]), kind, payload.v)
<1>1. payload.ok /\ ParsePart(line, book) = Got(part)
  <2> HIDE DEF first, second, kind, rest, payload, part
  <2>1. ParsePart(line, book) =
          IF first.ok
          THEN IF second.ok
               THEN IF kind \notin DOMAIN PartBooks[book.parts] \/ Len(rest) # 2 THEN Err
                    ELSE IF rest[1] # Word("payload=")[1] \/ "json" \notin DOMAIN rest[2] THEN Err
                    ELSE IF payload.ok THEN Got(part) ELSE Err
               ELSE Err
          ELSE Err
    BY Zenon DEF ParsePart, Then, first, second, kind, rest, payload, part
  <2> QED BY <2>1, Readings, Zenon
<1>2. payload.v \in Exprs
  <2>1. PICK j : j = rest[2].json
    OBVIOUS
  <2>2. JsonToExpr(j).ok => j \in Exprs /\ JsonToExpr(j).v = j
    BY DEF JsonToExpr
  <2> QED BY <1>1, <2>1, <2>2
<1>3. part.payload = payload.v
  BY DEF Part
<1> HIDE DEF part, payload
<1> QED BY <1>1, <1>2, <1>3, Readings

\* So does every part of a packet that is decoded.
LEMMA DecodedPayloads ==
  ASSUME NEW text, NEW book, DecodeText(text, book).ok
  PROVE  \A i \in DOMAIN DecodeText(text, book).v.body : DecodeText(text, book).v.body[i].payload \in Exprs
<1> DEFINE lines == Lines(text)
           end == Min({i \in 2..Len(lines) : lines[i] = Word("END")})
           start == Min({i \in 2..(end - 1) : lines[i] = Word("BODY")})
           h == ParseHeaders(SubSeq(lines, 2, start - 1))
           parts == SubSeq(lines, start + 1, end - 1)
           packet == ParsePacket(h.v, parts, book)
<1>1. packet.ok /\ DecodeText(text, book) = Got(packet.v)
  <2> HIDE DEF h, packet
  <2>1. \/ DecodeText(text, book) = Err
        \/ packet.ok /\ DecodeText(text, book) = Got(packet.v)
    <3> HIDE DEF ParseHeaders, ParsePacket, ValidPacket, WithinNodes, Err, Got
    <3> QED BY Zenon DEF DecodeText, Then, h, packet
  <2> QED BY <2>1, Readings, Zenon
<1> HIDE DEF parts
<1> DEFINE each == [i \in DOMAIN parts |-> ParsePart(parts[i], book)]
           body == All(each)
<1>2. body.ok /\ packet.v.body = body.v
  <2>1. PICK g : g = h.v
    OBVIOUS
  <2> DEFINE to == ParseList(g["TO"])
             parents == ParseList(g["PARENTS"])
             ceiling == ParseSymbolList(g["CEIL"])
             context == ParseSymbolList(g["CONTEXT"])
             prov == ParseItems(g["PROV"], {"author", "card"})
             warrant == IF "WARRANT" \in DOMAIN g THEN ParseWarrant(g["WARRANT"]) ELSE Got(NoWarrant)
             card == IF prov.v["card"] = Word("nil") THEN <<>> ELSE prov.v["card"]
             r == [cid |-> ParseCid(g["CID"]), move |-> ParseSymbol(g["MOVE"]), from |-> g["FROM"], to |-> to.v,
                   role |-> ParseSymbol(g["ROLE"]), parents |-> parents.v, task |-> ParseSymbol(g["TASK"]),
                   output |-> ParseSymbol(g["OUTPUT"]), ceiling |-> ceiling.v, context |-> context.v,
                   author |-> ParseSymbol(prov.v["author"]), card |-> card, body |-> body.v, warrant |-> warrant.v]
  <2>2. r.body = body.v
    OBVIOUS
  <2> HIDE DEF body, to, parents, ceiling, context, prov, warrant, r
  <2>3. ParsePacket(g, parts, book) =
          IF body.ok THEN IF to.ok THEN IF parents.ok THEN IF ceiling.ok THEN IF context.ok THEN IF prov.ok
          THEN IF warrant.ok THEN Got(r) ELSE Err ELSE Err ELSE Err ELSE Err ELSE Err ELSE Err ELSE Err
    BY Zenon DEF ParsePacket, Then, body, to, parents, ceiling, context, prov, warrant, r, card
  <2>4. packet = ParsePacket(g, parts, book)
    BY <2>1
  <2> HIDE DEF packet
  <2>5. body.ok /\ packet = Got(r)
    BY <1>1, <2>3, <2>4, Readings, Zenon
  <2> QED BY <2>2, <2>5, Readings
<1>3. (\A i \in DOMAIN each : each[i].ok) /\ body.v = [i \in DOMAIN each |-> each[i].v]
  <2> HIDE DEF each
  <2> QED BY <1>2, AllRead
<1>4. \A i \in DOMAIN each : each[i] = ParsePart(parts[i], book)
  OBVIOUS
<1> HIDE DEF each, body, packet
<1>5. \A i \in DOMAIN body.v : body.v[i].payload \in Exprs
  <2> SUFFICES ASSUME NEW i \in DOMAIN each PROVE each[i].v.payload \in Exprs
    BY <1>3
  <2> QED BY <1>3, <1>4, ParsedPayload
<1> QED BY <1>1, <1>2, <1>5, Readings

(***************************************************************************)
(* Accepted frames.                                                        *)
(***************************************************************************)

\* Every part that was accepted carries an expression and is valid under the
\* book that accepted it.
PartsInv ==
  /\ DOMAIN inbox = Peers
  /\ \A p \in Peers : \A a \in inbox[p] : \A i \in DOMAIN a.packet.body :
       /\ a.packet.body[i].payload \in Exprs
       /\ ValidPart(PartBooks[a.book.parts], FrameBooks[a.book.frames], a.packet.body[i])

\* Receiving is the only step that accepts, and it validates.
LEMMA ReceivesParts ==
  ASSUME NEW p \in Peers, NEW text, PartsInv, Receive(p, text) PROVE PartsInv'
<1> DEFINE packet == DecodeText(text, books[p])
           a == Accept(packet.v, books[p])
           Good(b) == \A i \in DOMAIN b.packet.body :
                        /\ b.packet.body[i].payload \in Exprs
                        /\ ValidPart(PartBooks[b.book.parts], FrameBooks[b.book.frames], b.packet.body[i])
<1>1. packet.ok /\ inbox' = [inbox EXCEPT ![p] = @ \cup {a}]
  BY DEF Receive
<1>2. Good(a)
  <2>1. PICK book : book = books[p]
    OBVIOUS
  <2>2. PICK q : q = packet.v
    OBVIOUS
  <2>3. ValidPacket(book, q)
    BY <1>1, <2>1, <2>2, DecodedIsValid
  <2>4. \A i \in DOMAIN q.body : q.body[i].payload \in Exprs
    BY <1>1, <2>1, <2>2, DecodedPayloads
  <2>5. \A i \in DOMAIN q.body : ValidPart(PartBooks[book.parts], FrameBooks[book.frames], q.body[i])
    BY <2>3 DEF ValidPacket
  <2>6. a.book = book /\ a.packet = q
    BY <2>1, <2>2 DEF Accept
  <2> HIDE DEF a
  <2> QED BY <2>4, <2>5, <2>6
<1> HIDE DEF a
<1>3. DOMAIN inbox' = Peers /\ \A q \in Peers : inbox'[q] \subseteq inbox[q] \cup {a}
  BY <1>1 DEF PartsInv
<1>4. \A q \in Peers : \A b \in inbox[q] : Good(b)
  BY DEF PartsInv
<1> HIDE DEF Good
<1>5. \A q \in Peers : \A b \in inbox'[q] : Good(b)
  BY <1>2, <1>3, <1>4
<1> QED BY <1>3, <1>5 DEF PartsInv, Good

\* The invariant of parts, step by step.
LEMMA PartsStep == PartsInv /\ [Next]_vars => PartsInv'
<1> SUFFICES ASSUME PartsInv, [Next]_vars PROVE PartsInv'
  OBVIOUS
<1>1. ASSUME UNCHANGED inbox PROVE PartsInv'
  BY <1>1 DEF PartsInv
<1>2. ASSUME NEW p \in Peers, NEW draft, NEW S, Post(p, draft, SetToSeq(S)) PROVE UNCHANGED inbox
  BY <1>2 DEF Post
<1>3. ASSUME NEW p \in Peers, NEW a, Forward(p, a) PROVE UNCHANGED inbox
  BY <1>3 DEF Forward
<1>4. ASSUME NEW p \in Peers, NEW text, Receive(p, text) PROVE PartsInv'
  BY <1>4, ReceivesParts
<1>5. ASSUME NEW p \in Peers, NEW lines, NEW i, ReceiveDamaged(p, lines, i) PROVE PartsInv'
  BY <1>4, <1>5 DEF ReceiveDamaged
<1>6. ASSUME NEW p \in Peers, NEW i, Upgrade(p, i) PROVE UNCHANGED inbox
  BY <1>6 DEF Upgrade
<1>7. CASE UNCHANGED vars
  BY <1>1, <1>7 DEF vars
<1> QED BY <1>1, <1>2, <1>3, <1>4, <1>5, <1>6, <1>7 DEF Next

\* Every Frame part that a peer accepted is rendered by the book it was accepted
\* with, whatever the frames, the values and the text it came in: no unreachable
\* arm of render_hole is reached, and a marker is left only where the value of
\* its hole or of a later one brought it (validate_hole, render_frame_with_prose).
THEOREM FramesTheorem == Spec => []AcceptedFramesRender
<1>1. Init => PartsInv
  BY DEF Init, PartsInv
<1>2. PartsInv => AcceptedFramesRender
  <2> SUFFICES ASSUME PartsInv, NEW a \in Accepted, NEW i \in DOMAIN a.packet.body,
                      a.packet.body[i].kind = Bridge("Frame"),
                      NEW e, e = a.packet.body[i].payload,
                      NEW frames, frames = FrameBooks[a.book.frames]
               PROVE  /\ FrameId(e) \in DOMAIN frames
                      /\ WellMade(frames[FrameId(e)]) => RendersWhole(frames[FrameId(e)], e)
    BY DEF AcceptedFramesRender
  <2>1. e \in Exprs /\ ValidPart(PartBooks[a.book.parts], frames, a.packet.body[i])
    BY DEF PartsInv, Accepted
  <2>2. ValidFrame(frames, e)
    BY <2>1 DEF ValidPart
  <2>3. PICK frame : frame = frames[FrameId(e)]
    OBVIOUS
  <2>4. FrameId(e) \in DOMAIN frames /\ Fillable(frame, e)
    BY <2>1, <2>2, <2>3, ValidFrameFills
  <2> QED BY <2>3, <2>4, FilledFrame
<1> QED BY <1>1, <1>2, PartsStep, PTL DEF Spec

(***************************************************************************)
(* Citations.                                                              *)
(***************************************************************************)

\* A text whose first token of a kind is at k is split there.
LEMMA SplitAt ==
  ASSUME NEW text, IsSeq(text), NEW token, NEW k \in 1..Len(text), text[k] = token,
         \A i \in 1..(k - 1) : text[i] # token
  PROVE  SplitOnce(text, token) = Got(<<SubSeq(text, 1, k - 1), SubSeq(text, k + 1, Len(text))>>)
<1> DEFINE at == Positions(text, token)
           S == {i \in DOMAIN text : text[i] = token}
<1>1. Len(text) \in Nat /\ DOMAIN text = 1..Len(text)
  BY SeqHolds
<1>2. k \in S /\ S \subseteq 1..Len(text) /\ \A i \in S : k <= i
  BY <1>1
<1>3. IsFiniteSet(S) /\ S \subseteq Nat
  <2>1. IsFiniteSet(1..Len(text)) /\ 1..Len(text) \subseteq Nat
    BY <1>1, FS_Interval
  <2> HIDE DEF S
  <2> QED BY <1>2, <2>1, FS_Subset
<1>4. at = Ascending(S)
  BY DEF Positions
<1> HIDE DEF S
<1>5. /\ Ascending(S) \in Seq(S)
      /\ \A i, j \in 1..Len(Ascending(S)) : i < j => Ascending(S)[i] < Ascending(S)[j]
      /\ \A x \in S : \E j \in 1..Len(Ascending(S)) : Ascending(S)[j] = x
  BY <1>3, AscendingHolds
<1>6. /\ at \in Seq(S)
      /\ \A i, j \in 1..Len(at) : i < j => at[i] < at[j]
      /\ \A x \in S : \E j \in 1..Len(at) : at[j] = x
  BY <1>4, <1>5
<1> HIDE DEF at
<1>7. PICK j \in 1..Len(at) : at[j] = k
  BY <1>2, <1>6
<1>8. Len(at) \in Nat /\ 1 \in 1..Len(at) /\ at[1] \in S
  BY <1>6, <1>7
<1>9. at[1] = k
  <2>1. j = 1 \/ 1 < j
    BY <1>7
  <2>2. k \in Nat /\ at[1] \in Nat /\ k <= at[1]
    <3>1. PICK m : m = at[1] /\ m \in S
      BY <1>8
    <3>2. k \in S /\ k <= m
      BY <1>2, <3>1
    <3>3. k \in Nat /\ m \in Nat
      BY <1>3, <3>1, <3>2
    <3> QED BY <3>1, <3>2, <3>3
  <2>3. CASE j = 1
    BY <1>7, <2>3
  <2>4. CASE 1 < j
    <3>1. at[1] < at[j]
      BY <1>6, <1>7, <1>8, <2>4
    <3> QED BY <1>7, <2>2, <3>1
  <2> QED BY <2>1, <2>3, <2>4
<1>10. at # <<>>
  BY <1>8
<1>11. SplitOnce(text, token)
         = IF at = <<>> THEN Err ELSE Got(<<SubSeq(text, 1, at[1] - 1), SubSeq(text, at[1] + 1, Len(text))>>)
  BY DEF SplitOnce, at
<1> QED BY <1>9, <1>10, <1>11, Zenon

\* A text without the token is not split.
LEMMA SplitNowhere ==
  ASSUME NEW text, IsSeq(text), NEW token, \A i \in 1..Len(text) : text[i] # token
  PROVE  SplitOnce(text, token) = Err
<1> DEFINE at == Positions(text, token)
<1>1. IsSeq(at) /\ \A i \in DOMAIN at : at[i] \in 1..Len(text)
  BY PlacesInText
<1>2. Len(text) \in Nat /\ DOMAIN text = 1..Len(text)
  BY SeqHolds
<1> DEFINE S == {i \in DOMAIN text : text[i] = token}
<1>3. S = {}
  BY <1>2
<1>4. at = <<>>
  <2>1. IsFiniteSet(S) /\ S \subseteq Nat
    BY <1>3, FS_EmptySet
  <2>2. at = Ascending(S)
    BY DEF Positions
  <2> HIDE DEF S
  <2>3. Len(at) = Cardinality(S)
    BY <2>1, <2>2, AscendingHolds
  <2>4. Len(at) = 0
    BY <1>3, <2>3, FS_EmptySet
  <2> QED BY <1>1, <2>4, StackBasics
<1>5. SplitOnce(text, token)
        = IF at = <<>> THEN Err ELSE Got(<<SubSeq(text, 1, at[1] - 1), SubSeq(text, at[1] + 1, Len(text))>>)
  BY DEF SplitOnce
<1> HIDE DEF at
<1> QED BY <1>4, <1>5, Zenon

\* A word is read as the plain symbol that it spells.
LEMMA WordRead == ASSUME NEW w PROVE ParseSymbol(Word(w)) = Plain(w)
<1>1. PICK text : text = Word(w)
  OBVIOUS
<1>2. IsSeq(text) /\ Len(text) = 1 /\ text[1] = [word |-> w]
  BY <1>1, ShortSeqs DEF Word
<1> DEFINE halves == SplitOnce(text, Slash)
<1>3. ~(halves.ok /\ <<>> \notin ToSet(halves.v))
  <2>1. CASE text[1] = Slash
    <3>1. PICK left, right : left = SubSeq(text, 1, 1 - 1) /\ right = SubSeq(text, 1 + 1, Len(text))
      OBVIOUS
    <3>2. halves = Got(<<left, right>>)
      <4>1. 1 \in 1..Len(text) /\ \A i \in 1..(1 - 1) : text[i] # Slash
        BY <1>2
      <4>2. halves = Got(<<SubSeq(text, 1, 1 - 1), SubSeq(text, 1 + 1, Len(text))>>)
        BY <1>2, <2>1, <4>1, SplitAt
      <4> QED BY <3>1, <4>2
    <3>3. left = <<>>
      BY <1>2, <3>1
    <3>4. PICK v : v = <<left, right>>
      OBVIOUS
    <3>5. halves.v = v
      BY <3>2, <3>4, Readings
    <3>6. v[1] = left /\ 1 \in DOMAIN v
      BY <3>4
    <3>7. v[1] \in ToSet(v)
      BY <3>6 DEF ToSet
    <3> QED BY <3>3, <3>5, <3>6, <3>7
  <2>2. CASE text[1] # Slash
    <3>1. \A i \in 1..Len(text) : text[i] # Slash
      BY <1>2, <2>2
    <3>2. halves = Err
      BY <1>2, <3>1, SplitNowhere
    <3> QED BY <3>2, Readings
  <2> QED BY <2>1, <2>2
<1>4. ParseSymbol(text) = IF halves.ok /\ <<>> \notin ToSet(halves.v)
                          THEN Symbol(halves.v[1], halves.v[2]) ELSE Symbol(<<>>, text)
  BY DEF ParseSymbol
<1>5. ParseSymbol(text) = Symbol(<<>>, text)
  BY <1>3, <1>4, Zenon
<1> QED BY <1>1, <1>5 DEF Plain

\* A citation of a content id is read as the move that it claims.
LEMMA CitationRead ==
  ASSUME NEW cid, IsSeq(cid), IsContentId(cid), NEW w
  PROVE  ParentMove(cid \o <<Evidence>> \o SymbolText(Plain(w))).v = Plain(w)
<1>1. PICK word : word = Word(w) /\ IsSeq(word) /\ Len(word) = 1
  <2>1. PICK x : x = [word |-> w]
    OBVIOUS
  <2>2. IsSeq(<<x>>) /\ Len(<<x>>) = 1
    BY ShortSeqs
  <2>3. Word(w) = <<x>>
    BY <2>1 DEF Word
  <2> QED BY <2>2, <2>3
<1>2. SymbolText(Plain(w)) = word
  <2>1. Plain(w) = Symbol(<<>>, word)
    BY <1>1 DEF Plain
  <2>2. PICK none : none = <<>>
    OBVIOUS
  <2>3. PICK s : s = Plain(w)
    OBVIOUS
  <2>4. s.ns = none /\ s.name = word
    BY <2>1, <2>2, <2>3 DEF Symbol
  <2>5. SymbolText(s) = word
    BY <2>2, <2>4 DEF SymbolText
  <2> QED BY <2>3, <2>5
<1>3. PICK text : text = cid \o <<Evidence>> \o word
  OBVIOUS
<1>4. PICK S : cid \in Seq(S) /\ <<Evidence>> \in Seq(S) /\ word \in Seq(S)
  <2>1. cid \in Seq(ToSet(cid)) /\ word \in Seq(ToSet(word))
    BY <1>1, SeqHolds
  <2>2. PICK S : S = ToSet(cid) \cup ToSet(word) \cup {Evidence}
    OBVIOUS
  <2> QED BY <2>1, <2>2
<1>5. Len(cid) = 1 /\ "hash" \in DOMAIN cid[1]
  BY DEF IsContentId
<1>6. IsSeq(text) /\ Len(text) = 3 /\ text[1] = cid[1] /\ text[2] = Evidence /\ text[3] = word[1]
  <2>1. text \in Seq(S)
    BY <1>3, <1>4
  <2>2. Len(text) = 3 /\ text[1] = cid[1] /\ text[2] = Evidence /\ text[3] = word[1]
    <3>1. PICK head : head = cid \o <<Evidence>>
      OBVIOUS
    <3>2. PICK mark : mark = <<Evidence>> /\ mark \in Seq(S)
      BY <1>4
    <3>3. Len(mark) = 1 /\ mark[1] = Evidence
      BY <3>2
    <3>4. /\ head \in Seq(S) /\ Len(head) = Len(cid) + Len(mark)
          /\ \A i \in 1..Len(cid) + Len(mark) : head[i] = IF i <= Len(cid) THEN cid[i] ELSE mark[i - Len(cid)]
      BY <1>4, <3>1, <3>2, ConcatProperties
    <3>5. Len(head) = 2 /\ head[1] = cid[1] /\ head[2] = Evidence
      BY <1>5, <3>3, <3>4
    <3>6. text = head \o word
      BY <1>3, <3>1
    <3>7. /\ Len(text) = Len(head) + Len(word)
          /\ \A i \in 1..Len(head) + Len(word) : text[i] = IF i <= Len(head) THEN head[i] ELSE word[i - Len(head)]
      <4>1. head \in Seq(S) /\ word \in Seq(S)
        BY <1>4, <3>4
      <4>2. /\ Len(head \o word) = Len(head) + Len(word)
            /\ \A i \in 1..Len(head) + Len(word) :
                 (head \o word)[i] = IF i <= Len(head) THEN head[i] ELSE word[i - Len(head)]
        BY <4>1, ConcatProperties
      <4> QED BY <3>6, <4>2
    <3>8. Len(text) = 3 /\ \A i \in 1..3 : text[i] = IF i <= 2 THEN head[i] ELSE word[i - 2]
      <4>1. Len(head) + Len(word) = 3
        BY <1>1, <3>5
      <4>2. Len(text) = 3 /\ \A i \in 1..3 : text[i] = IF i <= Len(head) THEN head[i] ELSE word[i - Len(head)]
        BY <3>7, <4>1
      <4> QED BY <3>5, <4>2
    <3>9. text[1] = head[1] /\ text[2] = head[2] /\ text[3] = word[1]
      BY <3>8
    <3> QED BY <3>5, <3>8, <3>9
  <2> QED BY <2>1, <2>2, SeqIsSeq
<1>7. cid[1] # Evidence
  <2>1. DOMAIN Evidence = {"word"}
    BY DEF Evidence
  <2> QED BY <1>5, <2>1
<1> DEFINE halves == <<SubSeq(text, 1, 2 - 1), SubSeq(text, 2 + 1, Len(text))>>
<1>8. SplitOnce(text, Evidence) = Got(halves)
  <2>1. 2 \in 1..Len(text) /\ \A i \in 1..(2 - 1) : text[i] # Evidence
    BY <1>6, <1>7
  <2> QED BY <1>6, <2>1, SplitAt
<1>9. halves[2] = word
  <2>1. halves[2] = SubSeq(text, 3, 3)
    BY <1>6
  <2>2. SubSeq(text, 3, 3) = word
    <3>1. PICK part : part = SubSeq(text, 3, 3)
      OBVIOUS
    <3>2. text[3] \in S
      <4>1. word[1] \in S
        <5>1. word \in Seq(S) /\ 1 \in 1..Len(word)
          BY <1>1, <1>4
        <5> QED BY <5>1, ElementOfSeq
      <4> QED BY <1>6, <4>1
    <3>3. part \in Seq(S) /\ Len(part) = 1 /\ part[1] = text[3]
      <4>1. PICK m, n : m = 3 /\ n = 3 /\ m \in Int /\ n \in Int
        OBVIOUS
      <4>2. ASSUME NEW i \in m..n PROVE text[i] \in S
        <5>1. i = 3
          BY <4>1
        <5> QED BY <3>2, <5>1
      <4>3. /\ SubSeq(text, m, n) \in Seq(S)
            /\ Len(SubSeq(text, m, n)) = IF m <= n THEN n - m + 1 ELSE 0
            /\ \A i \in 1..(n - m + 1) : SubSeq(text, m, n)[i] = text[m + i - 1]
        BY <4>1, <4>2, SubSeqProperties
      <4>4. part = SubSeq(text, m, n)
        BY <3>1, <4>1
      <4>5. part \in Seq(S) /\ Len(part) = 1 /\ part[1] = text[m]
        BY <4>1, <4>3, <4>4
      <4> QED BY <4>1, <4>5
    <3>4. part = word
      <4>1. Len(part) = Len(word) /\ \A i \in 1..Len(part) : part[i] = word[i]
        BY <1>1, <1>6, <3>3
      <4> QED BY <1>4, <3>3, <4>1, SeqEqual
    <3> QED BY <3>1, <3>4
  <2> QED BY <2>1, <2>2
<1>10. word # <<>>
  BY <1>1
<1> HIDE DEF halves
<1>11. ParentMove(text) = IF halves[2] = <<>> THEN Err ELSE Got(ParseSymbol(halves[2]))
  <2>1. ParentMove(text) = Then(Got(halves), LAMBDA h : IF h[2] = <<>> THEN Err ELSE Got(ParseSymbol(h[2])))
    BY <1>8, Zenon DEF ParentMove
  <2> QED BY <2>1, Readings, Zenon DEF Then
<1>12. ParentMove(text).v = ParseSymbol(word)
  BY <1>9, <1>10, <1>11, Readings
<1> QED BY <1>1, <1>2, <1>3, <1>12, WordRead
(***************************************************************************)
(* Moves.                                                                  *)
(***************************************************************************)

\* What a packet claims that it answers.
Claimed(packet) == ToSet(ParentMoves(packet).v)

\* What validation says of the move of a packet.
Allowed(moves, packet) == packet.move \in DOMAIN moves /\ MayAnswer(moves[packet.move], Claimed(packet))

\* A valid packet makes a move that the book allows in answer to its claims.
LEMMA ValidMove ==
  ASSUME NEW book, NEW packet, ValidPacket(book, packet)
  PROVE  ParentMoves(packet).ok /\ Allowed(MoveBooks[book.moves], packet)
<1> DEFINE moves == MoveBooks[book.moves]
<1>1. ParentMoves(packet).ok /\ CheckMove(moves, packet.move, Claimed(packet), Kinds(packet.body))
  BY DEF ValidPacket, Claimed
<1> HIDE DEF moves
<1>2. packet.move \in DOMAIN moves /\ MayAnswer(moves[packet.move], Claimed(packet))
  BY <1>1 DEF CheckMove, LegalReplyIntents
<1> QED BY <1>1, <1>2 DEF Allowed, moves

\* A packet without parents claims nothing, and in documented books only a
\* request does.
LEMMA OrphansRequest ==
  ASSUME NEW moves, Documented(moves), NEW packet, Allowed(moves, packet), ParentMoves(packet).ok,
         packet.parents = <<>>
  PROVE  packet.move = Plain("request")
<1>1. Claimed(packet) = {}
  <2> DEFINE readings == [i \in DOMAIN packet.parents |-> ParentMove(packet.parents[i])]
  <2>1. DOMAIN packet.parents = {}
    OBVIOUS
  <2>2. DOMAIN readings = {} /\ ParentMoves(packet) = All(readings)
    BY <2>1 DEF ParentMoves
  <2> HIDE DEF readings
  <2>3. ParentMoves(packet).v = [i \in DOMAIN readings |-> readings[i].v]
    BY <2>2, AllRead
  <2>4. DOMAIN ParentMoves(packet).v = {}
    BY <2>2, <2>3
  <2> QED BY <2>4 DEF Claimed, ToSet
<1>2. PICK m : m = packet.move /\ m \in DOMAIN moves
  BY DEF Allowed
<1>3. PICK spec : spec = moves[m]
  OBVIOUS
<1>4. MayAnswer(spec, {})
  BY <1>1, <1>2, <1>3 DEF Allowed
<1>5. spec.rule = "Opens"
  BY <1>4 DEF MayAnswer
<1>6. PICK word : word = m.name[1].word
  OBVIOUS
<1>7. m = Plain(word) /\ (spec.rule = "Opens" <=> word = "request")
  BY <1>2, <1>3, <1>6 DEF Documented
<1> QED BY <1>2, <1>5, <1>7

\* What a documented move may answer, as the documentation reads.
DialogueStep(move, answered) ==
  /\ move # "request"
  /\ move \in DOMAIN Answers => answered \in Answers[move]
  /\ answered = "receipt" => move \in {"patch", "attest", "error"}

\* Plain symbols of one name are of one word.
LEMMA PlainWord == ASSUME NEW x, NEW y, Plain(x) = Plain(y) PROVE x = y
<1>1. Word(x) = Word(y)
  BY DEF Plain, Symbol
<1>2. PICK s, t : s = [word |-> x] /\ t = [word |-> y]
  OBVIOUS
<1>3. <<s>> = <<t>>
  BY <1>1, <1>2 DEF Word
<1>4. s = t
  BY <1>3
<1> QED BY <1>2, <1>4

\* A packet that claims to answer a move makes a step of a dialogue.
LEMMA ClaimsFollow ==
  ASSUME NEW moves, Documented(moves), NEW packet, Allowed(moves, packet),
         NEW w, Plain(w) \in Claimed(packet)
  PROVE  DialogueStep(packet.move.name[1].word, w)
<1>1. PICK m : m = packet.move /\ m \in DOMAIN moves
  BY DEF Allowed
<1>2. PICK spec : spec = moves[m]
  OBVIOUS
<1>3. PICK claimed : claimed = Claimed(packet)
  OBVIOUS
<1>4. MayAnswer(spec, claimed) /\ Plain(w) \in claimed
  BY <1>1, <1>2, <1>3 DEF Allowed
<1>5. PICK word : word = m.name[1].word
  OBVIOUS
<1>6. /\ m = Plain(word)
      /\ spec.rule = "Opens" <=> word = "request"
      /\ word \in DOMAIN Answers => spec.rule = "Only" /\ spec.only \subseteq {Plain(x) : x \in Answers[word]}
      /\ spec.rule \in {"Opens", "AnyNonReceipt"} \/ (spec.rule = "Only" /\ Plain("receipt") \notin spec.only)
           \/ word \in {"patch", "attest", "error"}
  BY <1>1, <1>2, <1>5 DEF Documented
<1>7. /\ spec.rule # "Opens"
      /\ spec.rule = "AnyNonReceipt" => Plain("receipt") \notin claimed
      /\ spec.rule = "Only" => claimed \subseteq spec.only
  BY <1>4 DEF MayAnswer
<1>8. ASSUME word \in DOMAIN Answers PROVE w \in Answers[word]
  <2>1. Plain(w) \in {Plain(x) : x \in Answers[word]}
    BY <1>4, <1>6, <1>7, <1>8
  <2>2. PICK x \in Answers[word] : Plain(w) = Plain(x)
    BY <2>1
  <2>3. w = x
    BY <2>2, PlainWord
  <2> QED BY <2>2, <2>3
<1>9. w = "receipt" => word \in {"patch", "attest", "error"}
  BY <1>4, <1>6, <1>7
<1> QED BY <1>1, <1>5, <1>6, <1>7, <1>8, <1>9 DEF DialogueStep

\* A citation is one of the claims.
LEMMA CitationClaims ==
  ASSUME NEW packet, ParentMoves(packet).ok, NEW q, IsSeq(q.cid), NEW w, q.move = Plain(w), Cites(packet, q)
  PROVE  Plain(w) \in Claimed(packet)
<1> DEFINE readings == [i \in DOMAIN packet.parents |-> ParentMove(packet.parents[i])]
<1>1. PICK i \in DOMAIN packet.parents : packet.parents[i] = Citation(q, q.move)
  BY DEF Cites
<1>2. ParentMove(packet.parents[i]).v = Plain(w)
  <2>1. PICK cid : cid = q.cid
    OBVIOUS
  <2>2. IsSeq(cid) /\ IsContentId(cid)
    BY <2>1 DEF Cites
  <2>3. packet.parents[i] = cid \o <<Evidence>> \o SymbolText(Plain(w))
    BY <1>1, <2>1 DEF Citation
  <2> QED BY <2>2, <2>3, CitationRead
<1>3. i \in DOMAIN readings /\ readings[i].v = Plain(w) /\ ParentMoves(packet) = All(readings)
  BY <1>2 DEF ParentMoves
<1> HIDE DEF readings
<1>4. ParentMoves(packet).v = [k \in DOMAIN readings |-> readings[k].v]
  BY <1>3, AllRead
<1> QED BY <1>3, <1>4 DEF Claimed, ToSet

(***************************************************************************)
(* Threads.                                                                *)
(***************************************************************************)

\* A packet that a book of the peers let through.
Standing(x) == x.book.moves \in DOMAIN MoveBooks /\ ValidPacket(x.book, x.packet)

MovesInv ==
  /\ DOMAIN inbox = Peers
  /\ IsFiniteSet(faces)
  /\ books \in [Peers -> {Books[i] : i \in DOMAIN Books}]
  /\ \A p \in Peers : \A a \in inbox[p] : Standing(a)
  /\ \A f \in Authored : Standing(f)

\* Every book of a peer has its moves.
LEMMA BooksKnown ==
  ASSUME MovesInv, NEW p \in Peers PROVE books[p].moves \in DOMAIN MoveBooks
<1>1. PICK i \in DOMAIN Books : books[p] = Books[i]
  BY DEF MovesInv
<1> QED BY <1>1, ExchangeAssumption

\* Whoever accepts has validated.
LEMMA ReceivesStanding ==
  ASSUME NEW p \in Peers, NEW text, MovesInv, Receive(p, text) PROVE MovesInv'
<1> DEFINE packet == DecodeText(text, books[p])
           a == Accept(packet.v, books[p])
<1>1. packet.ok /\ inbox' = [inbox EXCEPT ![p] = @ \cup {a}] /\ UNCHANGED <<books, faces, upgrades>>
  BY DEF Receive
<1>2. Standing(a)
  <2>1. PICK book : book = books[p]
    OBVIOUS
  <2>2. PICK q : q = packet.v
    OBVIOUS
  <2>3. ValidPacket(book, q)
    BY <1>1, <2>1, <2>2, DecodedIsValid
  <2>4. book.moves \in DOMAIN MoveBooks
    BY <2>1, BooksKnown
  <2>5. a.book = book /\ a.packet = q
    BY <2>1, <2>2 DEF Accept
  <2> HIDE DEF a
  <2> QED BY <2>3, <2>4, <2>5 DEF Standing
<1> HIDE DEF a
<1>3. DOMAIN inbox' = Peers /\ \A q \in Peers : inbox'[q] \subseteq inbox[q] \cup {a}
  BY <1>1 DEF MovesInv
<1>4. \A q \in Peers : \A b \in inbox'[q] : Standing(b)
  BY <1>2, <1>3 DEF MovesInv
<1>5. Authored' = Authored
  BY <1>1 DEF Authored
<1> QED BY <1>1, <1>3, <1>4, <1>5 DEF MovesInv

\* Whoever posts has validated as well, and what the codec hands on has no author.
LEMMA WritesStanding ==
  ASSUME MovesInv, NEW f, faces' = faces \cup {f}, UNCHANGED <<books, inbox>>,
         f.author \in Peers => Standing(f)
  PROVE  MovesInv'
<1>1. IsFiniteSet(faces')
  BY FS_AddElement DEF MovesInv
<1>2. \A g \in Authored' : g \in Authored \/ (g = f /\ f.author \in Peers)
  BY DEF Authored
<1>3. \A g \in Authored' : Standing(g)
  BY <1>2 DEF MovesInv
<1> QED BY <1>1, <1>3 DEF MovesInv

\* The invariant of moves, step by step.
LEMMA MovesStep == MovesInv /\ [Next]_vars => MovesInv'
<1> SUFFICES ASSUME MovesInv, [Next]_vars PROVE MovesInv'
  OBVIOUS
<1>1. ASSUME NEW p \in Peers, NEW draft, NEW parents, Post(p, draft, parents) PROVE MovesInv'
  <2>1. PICK packet : packet = Posted(p, draft, parents)
    OBVIOUS
  <2>2. PICK book : book = books[p]
    OBVIOUS
  <2>3. PICK f : f = Face(packet, book, EncodeText(packet, book).v, p)
    OBVIOUS
  <2>4. EncodeText(packet, book).ok /\ faces' = faces \cup {f} /\ UNCHANGED <<books, inbox, upgrades>>
    BY <1>1, <2>1, <2>2, <2>3, PostsFace
  <2>5. f.packet = packet /\ f.book = book
    BY <2>3 DEF Face
  <2>6. ValidPacket(book, packet) /\ book.moves \in DOMAIN MoveBooks
    BY <2>2, <2>4, EncodedIsValid, BooksKnown
  <2>7. Standing(f)
    BY <2>5, <2>6 DEF Standing
  <2> QED BY <2>4, <2>7, WritesStanding
<1>2. ASSUME NEW p \in Peers, NEW a, Forward(p, a) PROVE MovesInv'
  <2>1. PICK f : faces' = faces \cup {f} /\ f.author = "codec" /\ UNCHANGED <<books, inbox, upgrades>>
    BY <1>2 DEF Forward, Face
  <2>2. f.author \notin Peers
    BY <2>1, ExchangeAssumption
  <2> QED BY <2>1, <2>2, WritesStanding
<1>3. ASSUME NEW p \in Peers, NEW text, Receive(p, text) PROVE MovesInv'
  BY <1>3, ReceivesStanding
<1>4. ASSUME NEW p \in Peers, NEW lines, NEW i, ReceiveDamaged(p, lines, i) PROVE MovesInv'
  BY <1>3, <1>4 DEF ReceiveDamaged
<1>5. ASSUME NEW p \in Peers, NEW i \in DOMAIN Books, Upgrade(p, i) PROVE MovesInv'
  <2>1. books' = [books EXCEPT ![p] = Books[i]] /\ UNCHANGED <<inbox, faces>>
    BY <1>5 DEF Upgrade
  <2>2. books' \in [Peers -> {Books[k] : k \in DOMAIN Books}]
    BY <2>1 DEF MovesInv
  <2> QED BY <2>1, <2>2 DEF MovesInv, Authored
<1>6. CASE UNCHANGED vars
  BY <1>6 DEF vars, MovesInv, Authored
<1> QED BY <1>1, <1>2, <1>3, <1>4, <1>5, <1>6 DEF Next

\* The invariant of moves holds in every state.
LEMMA MovesHold == Spec => []MovesInv
<1>1. Init => MovesInv
  <2> SUFFICES ASSUME Init PROVE MovesInv
    OBVIOUS
  <2>1. faces = {} /\ inbox = [p \in Peers |-> {}] /\ books \in FirstBooks
    BY DEF Init
  <2>2. books \in [Peers -> {Books[i] : i \in DOMAIN Books}]
    BY <2>1, ExchangeAssumption
  <2>3. IsFiniteSet(faces) /\ Authored = {}
    BY <2>1, FS_EmptySet DEF Authored
  <2> QED BY <2>1, <2>2, <2>3 DEF MovesInv
<1> QED BY <1>1, MovesStep, PTL DEF Spec
\* One step further back along the citations of honest packets.
Further(S) == S \cup UNION {ParentsOf(q) : q \in {r \in S : Honest(r)}}

\* The recursion of Rooted.
GoesBack(f, n, packet) ==
  f = [i \in 0..n |-> IF i = 0 THEN {packet} ELSE Further(f[i - 1])]

\* Going back stays among the packets that peers wrote.
LEMMA BackAmong ==
  ASSUME NEW n \in Nat, n = Cardinality(Authored), NEW packet, NEW K, packet \in K,
         {f.packet : f \in Authored} \subseteq K
  PROVE  \E f : /\ f[n] \subseteq K
                /\ Rooted(packet) <=> \A q \in f[n] : Honest(q) /\ q.parents = <<>> => q.move = Plain("request")
<1> DEFINE X == [i \in 0..n |-> SUBSET K]
           g == [i \in 1..n |-> [y \in SUBSET K |-> Further(y)]]
<1>1. /\ \A i \in 0..n : X[i] = SUBSET K
      /\ \A i \in 1..n : \A y \in SUBSET K : g[i][y] = Further(y)
  OBVIOUS
<1> HIDE DEF g, X
<1>2. \A y \in SUBSET K : Further(y) \in SUBSET K
  <2>1. \A q : ParentsOf(q) \subseteq K
    BY DEF ParentsOf
  <2> QED BY <2>1 DEF Further
<1>3. PICK x : x = {packet}
  OBVIOUS
<1>4. x \in X[0]
  BY <1>1, <1>3
<1>5. Leads(g, X, n)
  <2> SUFFICES ASSUME NEW i \in 1..n, NEW y \in X[i - 1] PROVE g[i][y] \in X[i]
    BY DEF Leads
  <2>1. i - 1 \in 0..n /\ i \in 0..n
    OBVIOUS
  <2>2. y \in SUBSET K
    BY <1>1, <2>1
  <2> QED BY <1>1, <1>2, <2>1, <2>2
<1>6. PICK h : Takes(h, g, x, n) /\ \A i \in 0..n : h[i] \in X[i]
  BY <1>4, <1>5, Iteration
<1>7. \A i \in 0..n : h[i] \in SUBSET K
  BY <1>1, <1>6
<1>8. GoesBack(h, n, packet)
  <2>1. ASSUME NEW i \in 0..n PROVE h[i] = IF i = 0 THEN x ELSE Further(h[i - 1])
    <3>1. CASE i = 0
      BY <1>6, <3>1 DEF Takes
    <3>2. CASE i \in 1..n
      <4>1. i - 1 \in 0..n /\ i # 0
        BY <3>2
      <4>2. h[i - 1] \in SUBSET K /\ h[i] = g[i][h[i - 1]]
        BY <1>6, <1>7, <3>2, <4>1 DEF Takes
      <4>3. g[i][h[i - 1]] = Further(h[i - 1])
        BY <1>1, <3>2, <4>2, Zenon
      <4> QED BY <4>1, <4>2, <4>3, Zenon
    <3> QED BY <3>1, <3>2
  <2>2. h = [i \in 0..n |-> h[i]]
    BY <1>6 DEF Takes
  <2> QED BY <1>3, <2>1, <2>2, Zenon DEF GoesBack
<1>9. PICK f : f = CHOOSE e : e = [i \in 0..n |->
                     IF i = 0 THEN {packet}
                     ELSE e[i - 1] \cup UNION {ParentsOf(q) : q \in {r \in e[i - 1] : Honest(r)}}]
  OBVIOUS
<1>10. GoesBack(f, n, packet)
  BY <1>8, <1>9 DEF GoesBack, Further
<1>11. InStep(f, h, n)
  <2>1. f[0] = h[0]
    BY <1>8, <1>10 DEF GoesBack
  <2>2. ASSUME NEW i \in 1..n, f[i - 1] = h[i - 1] PROVE f[i] = h[i]
    <3>1. i \in 0..n /\ i # 0
      OBVIOUS
    <3>2. f[i] = Further(f[i - 1])
      BY <1>10, <3>1 DEF GoesBack
    <3>3. h[i] = Further(h[i - 1])
      BY <1>8, <3>1 DEF GoesBack
    <3> QED BY <2>2, <3>2, <3>3
  <2> QED BY <2>1, <2>2 DEF InStep
<1>12. \A i \in 0..n : f[i] = h[i]
  BY <1>11, SameIteration
<1>13. n \in 0..n
  OBVIOUS
<1>14. f[n] \subseteq K
  BY <1>7, <1>12, <1>13
<1>15. Rooted(packet) <=> \A q \in f[n] : Honest(q) /\ q.parents = <<>> => q.move = Plain("request")
  BY <1>9 DEF Rooted
<1> QED BY <1>14, <1>15

\* In documented books, what peers accept and what it cites makes a dialogue:
\* threads descend from requests, a request answers nothing, and a move answers
\* what it may only, for all drafts, claims, texts and changes of books
\* (parent_move_evidence, check_move).
THEOREM ThreadsTheorem ==
  (\A b \in DOMAIN MoveBooks : Documented(MoveBooks[b])) => (Spec => []ThreadsAreDialogues)
<1> SUFFICES ASSUME \A b \in DOMAIN MoveBooks : Documented(MoveBooks[b])
             PROVE  Spec => []ThreadsAreDialogues
  OBVIOUS
<1>1. ASSUME NEW x, Standing(x)
      PROVE  /\ ParentMoves(x.packet).ok
             /\ Documented(MoveBooks[x.book.moves])
             /\ Allowed(MoveBooks[x.book.moves], x.packet)
  BY <1>1, ValidMove DEF Standing
<1>2. ASSUME NEW x, Standing(x), x.packet.parents = <<>> PROVE x.packet.move = Plain("request")
  BY <1>1, <1>2, OrphansRequest
<1>3. ASSUME MovesInv, CleanInv, NEW a \in Accepted
      PROVE  Rooted(a.packet)
  <2>1. Standing(a)
    BY <1>3 DEF Accepted, MovesInv
  <2>2. PICK K : K = {a.packet} \cup {f.packet : f \in Authored}
    OBVIOUS
  <2>3. \A q \in K : q.parents = <<>> => q.move = Plain("request")
    BY <1>2, <1>3, <2>1, <2>2 DEF MovesInv
  <2>4. PICK n : n = Cardinality(Authored) /\ n \in Nat
    <3>1. Authored \subseteq faces /\ IsFiniteSet(faces)
      BY <1>3 DEF MovesInv, Authored
    <3> QED BY <3>1, FS_Subset, FS_CardinalityType
  <2>5. PICK packet : packet = a.packet
    OBVIOUS
  <2>6. packet \in K /\ {f.packet : f \in Authored} \subseteq K
    BY <2>2, <2>5
  <2>7. PICK f : /\ f[n] \subseteq K
                 /\ Rooted(packet) <=> \A q \in f[n] : Honest(q) /\ q.parents = <<>> => q.move = Plain("request")
    BY <2>4, <2>6, BackAmong
  <2>8. Rooted(packet)
    BY <2>3, <2>7
  <2> QED BY <2>5, <2>8
<1>4. ASSUME MovesInv, CleanInv, NEW a \in Accepted, NEW q \in ParentsOf(a.packet)
      PROVE  DialogueStep(a.packet.move.name[1].word, q.move.name[1].word)
  <2>1. Standing(a)
    BY <1>4 DEF Accepted, MovesInv
  <2>2. PICK g \in Authored : q = g.packet /\ Cites(a.packet, q)
    BY <1>4 DEF ParentsOf
  <2>3. Standing(g) /\ IsSeq(q.cid)
    BY <1>4, <2>2 DEF MovesInv, CleanInv, CleanPacket, Clean
  <2>4. PICK w : w = q.move.name[1].word
    OBVIOUS
  <2>5. q.move = Plain(w)
    <3>1. Documented(MoveBooks[g.book.moves]) /\ q.move \in DOMAIN MoveBooks[g.book.moves]
      BY <1>1, <2>2, <2>3 DEF Allowed
    <3> QED BY <2>4, <3>1 DEF Documented
  <2>6. Plain(w) \in Claimed(a.packet)
    BY <1>1, <2>1, <2>2, <2>3, <2>5, CitationClaims
  <2> QED BY <1>1, <2>1, <2>4, <2>6, ClaimsFollow
<1>5. MovesInv /\ CleanInv => ThreadsAreDialogues
  <2> SUFFICES ASSUME MovesInv, CleanInv, NEW a \in Verified PROVE
                 /\ Rooted(a.packet)
                 /\ \A q \in ParentsOf(a.packet) :
                      DialogueStep(a.packet.move.name[1].word, q.move.name[1].word)
    BY DEF ThreadsAreDialogues, DialogueStep
  <2>1. a \in Accepted
    BY DEF Verified
  <2> QED BY <1>3, <1>4, <2>1
<1> QED BY <1>5, MovesHold, CleanHold, PTL
=============================================================================
