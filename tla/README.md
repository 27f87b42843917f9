# TLA+ verification of sim-codecs

sim-codecs is a set of Rust crates that read and write `sim_kernel::Expr` values: text surfaces (Lisp, Algol,
Lua, ...), binary frames, wire formats of model providers, Java class files, documents, and the host side of
wasm guests. This directory holds TLA+ modules that model the parts with real control flow, TLC configurations
that check them on small instances, and proofs that TLAPS checks for every value of the constants.

`PROJECT.json` is the index: components, runs, one mutant per checked property, the source lines behind every
definition, findings, hazards, theorems. Paths below are relative to `src/crates/`.

## 1. Inventory

Nearly every codec is a function from bytes to a value or an error, run on the caller's thread. What makes
them hard is recursion under limits, positions and counters kept by hand, two traversals that must agree, and
input that stops anywhere. The only shared mutable state with threads is the mutex in `sim-wasm-abi`.

| Component | State it keeps | Operations | Talks to | Hard part | Correct when |
|---|---|---|---|---|---|
| Limits and budget (`sim-codec/.../limits.rs`) | node counter, byte ceilings | `enter_node`, `check_*` | lent by every decoder to the parser it calls | counted in many places | nothing larger than the limits is built |
| Codec runtime (`sim-codec/.../runtime.rs`) | six optional capabilities | decode/encode in plain, located, tree form | kernel registry, every codec | fallbacks between forms | the richest form present is used, nothing is invented |
| Pratt parser (`sim-codec-pratt`) | token cursor, native stack, budget | `parse_tree*` | Algol and Lua give it tokens and a table | mutual recursion, spans, precedence | the tree is the reading the table gives, spans tile, recursion bounded |
| Algol codec (`sim-codec-algol`) | operator table | encode, tokenize, decode | Pratt parser | parentheses, maximal munch | what is written is read back |
| Lua codec (`sim-codec-lua`) | as Algol, own statement parser | encode, decode | Pratt parser | as Algol | as Algol |
| Binary codec (`sim-codec-binary`) | reader: index, node counter, tables; writer: tables | three encodes, decode, strict decode | base64 wrapper, vault, wasm frames | two traversals, canonical order, any cut | round trip, limits, one byte string per identity |
| Bitwise codec (`sim-codec-bitwise`) | bit cursor, numbered subtrees | plain, located, tree and dense encode, decode | base64 wrapper, codec runtime | back references, padding, origins by position | round trip, sharing bounded |
| Base64 wrappers (`sim-codec-binary-base64`, `sim-codec-bitwise-base64`) | none | encode, decode | the two frame codecs | padding, white space, the input limit | the frame comes through or is refused |
| Chat codecs (`sim-codec-chat`) | per stream: blocks, usage, stop reason, events | decode request, response, stream; encode request and response; SIMCHAT1 text | model runners, gateways, other chat codecs | chunk order, cut streams, errors in the middle; formats that cannot say the same things | the response is what the provider said, or an error; a conversation passed on says the same |
| Wasm runtime (`sim-wasm-abi`) | mutex over handles and instances, fuel | instantiate, manifest, exports, call | guest code through linear memory | lock held over guest code, traps, poison | a call touches one instance, with fresh fuel, inside its memory |
| BRIDGE (`sim-codec-bridge`) | books of parts, moves, frames, profiles; warrant policy | validate, warrant, stamp, verify, encode and decode the line face, render frames | peers with their own books, the runtime codec | threads of packets, books that differ, texts in any order | only legal replies, content ids bind packets, agreed books |
| Documents (`sim-codec-doc`) | document: blocks with span states, kept source | five readers, four writers, `apply_edit`, `invert_edit`, chunking | backends per language | undo, stale spans, two passes over HTML | nothing vanishes unreported; an undone journal restores the document |
| Class files (`sim-codec-classfile`) | constant pool slots, shell, instruction list | decode, validate, encode, edit instructions, replace a method body, project | - | two-slot constants, offsets, switch padding, relocation | decode and encode agree, branches keep their meaning |
| JSON, Lisp, JavaScript, TypeScript, Python, SQL, index, vault, config, feed, robots, search, MCP | none between calls | decode, encode | kernel | grammar detail | round trip on their domain |

The hazards that follow from this, each at its line, are listed in `PROJECT.json` under `hazards`.

## 2. Plan

| Step | Modules | Composes | States |
|---|---|---|---|
| done | `Pratt`, `PrattReading`, `PrattProofs` | `Lists` | recursion, charges, spans, precedence of the parser, for every table |
| done | `AlgolTable`, `AlgolCodec` | `Pratt` | what the Algol writer writes and the parser reads back |
| done | `BinaryReader`, `BinaryReaderProofs`, `BinaryCodec` | `Lists` | the SLB8 reader step by step, the writer, the strict decode |
| done | `ChatResponses`, `ChatStreams`, `ChatStreamsProofs`, `ChatRequests`, `ChatArchive`, `ChatGateway` | provider, connection, decoders, clients, gateways, archive | what an answer and a conversation still say after each of them |
| done | `WasmRuntime`, `GuestService`, `WasmRuntimeProofs` | host threads, guests | an abstract "one operation at a time" specification and its refinement, for every number of threads |
| done | `MarkupTables`, `MarkupReader`, `HtmlReader`, `MarkupSession`, `DocChunks`, `MarkupDocs`, `MarkupProofs`, `DocChunksProofs` | readers, authors, writers | what survives a language, what a reading accounts for, undo, stale spans, chunks; all but the first for every text |
| done | `ClassBytes`, `ClassPool`, `ClassAttributes`, `ClassCode`, `ClassFile`, `ClassSession` | compiler, caller | two-slot indices, decode against encode, relocation |
| done | `ExprRecords`, `BridgeBooks`, `BridgeLine`, `BridgeExchange`, `BridgeProofs` | peers with books, texts in flight | the line face; warrants across changed books, content ids, frames and threads for every text |
| done | `BitwiseCodec` | `BinaryCodec`, codec runtime, base64 text | bit-packed frames, back references, the number of a subtree on both sides |
| next | proofs | | the line face, transfers between languages, relocation in `ClassCode` |

Proofs worth having next: that the readers of the line face invert its writers (`FaceFaithful`), token by token, on
the lemmas of `BridgeProofs`; that a document handed to another language loses nothing silently
(`TransferExactlyFragment`), on those of `MarkupProofs`.

## 3. The modules

### Pratt, PrattReading, Lists

`parse_expr_tree`, `parse_nud_tree`, `parse_led_tree` and `parse_call_tree` call one another. In `Pratt` that
recursion is a variable `stack` of suspended activations, each with what it was building (`wait` is prefix,
group, led or arg); `min`, `depth`, `left` are the locals of the running one. One action per step of the code:
`Start` (token ceiling), `Enter` (charge and depth check), `Nud*`, `Loop*`, `Return*` for each kind of caller,
`Finish` (tokens left over). Token `i` stands between the offsets `i - 1` and `i`, so spans are exact; its
leading trivia is the item `i`. Names that an operator gives to the node it builds are left out. The operator
table is a constant, so everything proved holds for Lua's table too.

`PrattReading` holds the property of finished trees. The nodes of a tree, and the nodes on its left and right edge,
are collected by as many steps down as its span is wide (`Reached`), not by a recursive operator, so that the property
is also proved; `Lists` the sequence operators that several machines use (call stacks, the elements of a sequence that are
in a set, sequences joined, sums, the numbers of a set in their order), `DataLemmas` their lemmas.

### AlgolTable, AlgolCodec

The default table of `pratt/table.rs`; `Encode` is `encode_algol` (an expression to lexemes), `Tokenize` the
tokenizer's maximal munch of operator characters (two operators side by side merge into one token that no
table knows), and the composition runs the Pratt parser on the result. Token sequences that no writer made (`Foreign`)
are parsed in the same run.

### BinaryReader, BinaryCodec

A frame is a sequence of units, a unit being a byte or a whole variable-length integer, with a mark for
encodings that are longer than needed. The reader keeps a stack of activations, each with a list of what it
still has to read, taken from `Script` (one line per tag of `read_expr_with_depth`). One action per primitive
read, with its failure beside it, in the order of the code: depth, node counter, tag. `BinaryCodec` adds the
writer (tables, canonical order of maps and sets, origin tree), the strict decode, writers that are not ours
(`Rewritten`: other table orders, unsorted sets, both origin flags), damaged frames (`Mangled`), and `Recode`,
which writes again what was read.

### BitwiseCodec

The second frame format, on real bits. What the SLB8 reader accepted (`Decoded`), or the program's own tree with all
its origins, goes through the codec runtime (`ModeFor` says which encoder answers) or into a dense frame, is wrapped
as base64 text or not, and may be damaged: `PackIt`. `Unpack` reads it under the limits of the SLB8 reader. Both
are single steps, because the code is a function over data of its own; the reader is a record (place, nodes charged,
subtrees numbered, parts built) that each operator takes and gives on, by the `Script` of `BinaryReader`, and that
every failed check stops for good. The writer numbers a subtree before its parts (`PackExpr`), the reader keeps a slot
for it that is empty until it is finished (`TakeExpr`), and a back reference takes the slot and is charged with all
the nodes in it (`TakeRef`). Integers of more than `MaxBits` bits are read as one value.

### ChatResponses, ChatStreams, ChatRequests, ChatArchive, ChatGateway

`ChatStreams` has three actors: a provider that says one message (`Begin`, `SendBlock`, `Close`, `Stop`, or
`BreakOff` with an error chunk), a connection (`Carries` delivers a chunk, loses it, delivers it twice or under
the number of another block; `Cut` ends the body), and the decoder, which runs once the whole body is there, one
action per kind of chunk. The chunks are those all four formats share; `wire` says which decoder reads them. Text
and JSON are sequences of pieces, one per delta, and a piece sequence is a JSON document when `JsonTexts` has it,
which is all that the decoders ask of one. The Anthropic decoder turns thinking deltas into text of the response
but not into events; the Responses decoder ignores everything but the one terminal event; the chat-completions
decoder stops at an error chunk and the Ollama decoder reads an error line as an empty one; the limit on chunks
counts `[DONE]` for Anthropic only (as `message_stop`).

`ChatResponses` holds the pure half: reading the body of a provider that does not stream, and writing a response
for a client. `ChatRequests` is the writer and reader of a request in each format, with the tools in the shapes
the formats describe them in, the parameters of bridge calls, the output grammar, and what each refuses.
`ChatGateway` composes them: an answer is taken streamed or whole, relayed to a client in the client's format,
or continued by the host into a request that passes up to `MaxHops` gateways (`Forward` writes and reads); requests
of clients come in through `Ask`. `ChatArchive` is the SIMCHAT1 text: expressions to tokens, the recursive reader
under its four limits, and `validate_chat_transcript`, which both directions run; `Keep` and `Restore` write a
transcript, damage the text or not, and read it. A conversation is compared by what it says (`Turns`, `Texted`,
`Calls`, `Outcomes`, `Instructions`), not by its shape, because the formats join texts and move system messages.

### WasmRuntime, GuestService

Host threads share one `WasmiRuntime`, and `call_fresh` gives a thread a runtime of its own for one call.
`Instantiate`, `Load`, `CallFresh` and `CallHost` are what a thread may be asked; the others are the stretches of
code between two points where another thread can be noticed:

| Action | Code |
|---|---|
| `Compile` | `instantiate_bytes` up to the mutex: module, store, a memory over the limit refused, start function, exports |
| `Mint` | the second half: count the handle up, insert the instance |
| `Enter` | mutex, table lookup, `refuel` |
| `SendName`, `SendArguments` | `write_guest_bytes`: allocate in the guest, write |
| `Run` | one step of the guest function; only a loop has several |
| `Read` | `read_guest_frame`, release of the mutex; for the loader also the decode of the table |

Every error leaves through `Fail` or `Answer`, which release the mutex as dropping its guard does. Guests are the
modules the tests of the crate are written with: one counts its calls in memory, one returns what it was sent, one
loops, one grows its memory, one returns bad frames, one does not compile. A byte of memory records what was
last written there, fuel is one unit per guest function and per turn of a loop. The mutex is never poisoned here:
that takes a panic while it is held, and all the code under it returns errors. `validate_guest_frame`, which the
host imports call, always accepts what "echo" hands it, so it is not a step.

`GuestService` promises what a caller would like to rely on: handles number the modules in order, and each
operation happens at one instant. `Serves` maps the runtime onto it; the refinement mapping takes a counter back
by one while the frame of the call that moved it is still to be read.

### MarkupTables, MarkupReader, HtmlReader, MarkupSession, DocChunks, MarkupDocs

A text is a sequence of constructs of a language, a document a sequence of blocks with inlines and the state of
each span (`Preserved`, `Dirty`, none). The wording of a construct is an id, 0 for none; of code and mathematics the layout is
kept apart from it (a newline at the end, several lines), because the readers treat it differently: AsciiDoc makes each
newline of a listing a blank. `MarkupTables` says construct by construct what each reader makes of it and
what each writer makes of a block, with what it reports as lost. `MarkupReader` is the walk of the Markdown,
AsciiDoc and Typst readers over what their parser yields and the LaTeX line scanner with its paragraph buffer, with
the constructs that are passed over unreported: AsciiDoc `empty` blocks and `delimiter`s of compound blocks, the
LaTeX `rest` of a line or of a figure, Typst `argument`s, and the inlines a table reads as "silent".
AsciiDoc directives are cut out first and merged back by the start of their spans (`MergeDirectives`, `InPlace`): a
construct starts at its place in the text, at that of the one before it, or nowhere (`st` "own", "shared", "none"). One
without a span goes behind the others as soon as a directive was kept, and if it is kept raw its source is lost (id 0).
`HtmlReader` keeps the stack of open elements
and the counter `suppressed`, and extracts lists in a second pass over the same tokens. `MarkupSession` lets two
authors prepare edits, one from the document as it is and one from the document as it was read; `Undo` applies the
inverse of the last edit; a writer may keep raw fragments or not and may fail on loss; what was written is read
again.

`DocChunks` is the plain document. A line is its number signs, the widths of its characters and of its end; the
scanner goes line by line (`ScanLine`), and each of the three chunking functions is one step (`ChunkWith`), its loop
a cursor that `Advance` takes from boundary to boundary.

### ClassBytes, ClassPool, ClassAttributes, ClassCode, ClassFile, ClassSession

Files are real byte strings here: class files are small and their hazards are offsets. `ClassBytes` has the
reading lanes and modified UTF-8, `ClassPool` the constant pool as a function from physical indices with the
unusable slot after a Long or Double, `ClassAttributes` every structured attribute as a layout that one reader and
one writer walk, `ClassCode` instruction decoding, and encoding after edits (displacements by what each branch
meant, switch padding, the offset map, `invokedynamic` and `wide` rules), `ClassFile` the shell with its checks and
limits, `replace_method_code` and the projection. `ClassSession` is a caller: files come from a compiler that
numbers constants by itself (`Legal`), break a rule (`Irregular`), or lose or change a byte (`Damage`).

### ExprRecords, BridgeBooks, BridgeLine, BridgeExchange

`ExprRecords` takes expressions apart as the record readers do and is the canonical JSON projection with the
decode limits; readers and projection are recursive functions over `Exprs`, all expressions that nest at most `Levels`
deep and whose text consists of `Tokens`. `BridgeBooks` holds the standard part, move, frame and profile books,
every validator and the rendering of frames hole by hole (`FillHole`),
`BridgeLine` packets, content ids (a hash is the hashed data itself, so no collisions), the record form and the
BRIDGE/1 line face in tokens, `BridgeExchange` the peers: `Post` composes, warrants, stamps and writes, `Forward`
is the runtime codec handing a packet on, `Receive` and `ReceiveDamaged` read any text in flight at any time (late,
again, one line lost, repeated, swapped, or taken from another text), `Upgrade` loads other books in between.

## 4. Runs and bounds

| Run | Instance | Shows |
|---|---|---|
| `pratt_algol` | all sequences of up to 5 common tokens and up to 3 of all, chains of three infix operators over plain, prefixed, suffixed, called and grouped operands; every expression of height 2 over 3 fixities and calls, and the taller ones on top of those; three limit records | recursion, charges, tiling of spans, precedence, termination, exactly which expressions come back |
| `binary_codec` | thirteen trees that use every tag, on every lane, as written, by another writer, and one edit away; four limit records; what was read packed in every mode, as bytes and as text, and with one bit, byte or character changed | round trip with the exact condition for a refusal, depth limit, strict decode, recoding; packed frames come back, and damaged ones stay within the limits |
| `chat_gateway` | five messages on four formats, limits 20 and 5, one fault of the connection (`MaxFaults`), a cut or failure anywhere, or whole bodies; eleven client requests, six sets of fields, two hops (`MaxHops`); five archive limits | streams: faithful without faults, what survives a cut, events against result, provider errors; the relayed answer; the forwarded conversation; the archive |
| `wasm_runtime` | two threads, three operations, seven settings of guests, fuel, memory and argument lengths; page of 6 bytes, `Word` 16 for 2^32 | every operation starts with its own fuel; handles name their module; everything ends; refinement of `GuestService`, which says that each call is counted once and answered with its own count or arguments |
| `doc_session` | every construct of every language alone and before every other, inline constructs at both ends, all HTML sequences of four tokens; up to three edits by two authors; documents of up to four lines, chunk sizes 1 to 4 | what a language keeps and what is reported, active content, verbatim source, undo, chunks and heading paths |
| `class_file` | three legal classes, seven irregular ones, one small class with every byte cut or changed; 25 composed attribute values; two edits (`MaxEdits`) | names, byte-exact writing, relocation, projection rows, attribute views |
| `bridge_exchange` | two peers, four sets of books, 17 drafts, one of them with values that spell the markers of other holes, expressions of up to `Levels` 6, at most two texts and two accepted packets per peer, one change of books | the line face, content ids, warrants, threads, frame rendering |
| `chat_tool_calls` | as `chat_gateway`, without faults but with cuts | finding: a tool call nobody announced |
| `pratt_node_limit` | `a()()...()` with up to 4 calls, node ceiling 4 | finding: calls without arguments are free |
| `bitwise_origins` | as `binary_codec` | finding: origins that move to other entries |
| `doc_undo` | the edited texts of `doc_session` | finding: an edit that cannot be taken back |
| `class_ranges` | as `class_file` | finding: handlers that are not moved with their instructions |

Chains of three operators are the smallest in which an operator has to climb over a suspended activation and
regroup; five free tokens are enough for every error exit of the parser, the limit records make each ceiling
the first that bites. One edit of a frame reaches every failure action of the reader, because each primitive
read fails on its own. Frames are packed under the four limits they were read under; a byte limit
of 22 lets frames in whose packed text is too long, the blob of 14 bytes has a length of four bits, and a node limit of 5 is
what one flipped bit of a back reference goes beyond. Only `DamagedModes` are damaged, dense frames and those with an
origin tree: the others are parts of these.

One lost, repeated or misnumbered chunk together with a cut is the smallest combination
in which the block map and the events can disagree; limit 5 lies inside every longer message. Two hops are the
smallest chain in which a format that keeps system texts apart feeds one that does not, and the reverse. Only
answers of unbroken and of cut streams (`StreamFaults`) go on to clients, and only the conversations of two
messages (`KeptSources`, `KeptFields`) are archived, each damaged under the wide limits at every place; the tight
limits each lie inside the kept transcripts. Three wasm operations are one instantiation and two calls that meet
on it, or two instantiations that overlap and a call that tells them apart; six bytes hold two short calls and not
the name and arguments of two long ones. Fuel 3 is just enough for a call, 1 stops it inside the second allocation;
the memory limit is one page or two, so a guest that grows is refused or not.

Two blocks are enough for what readers and writers do at the border of blocks (lists that join, titles that come
first, paragraphs that a comment ends), and four HTML tokens for every order of opening, closing and text around
an active element; the longer ones are listed one by one. Three edits let an edit go stale between two others.
`ShortMax` 26 stands for 32767 and `MaxCode` 32 for 65535, so that a jump outgrows its short form and a method its
limit by one insertion; `Nesting` 2 stands for 256. One method is edited between reading and saving, attributes are
not viewed in a saved file, and a projection and a view are taken one at a time: they do not change the shell.
Damage of a file is a cut, a byte too many, or one byte set to 0, 1, 5 or 255. Two texts (`MaxFaces`) are a question
and its answer; in addition each peer may read both texts and damaged forms of them. Expressions go down six
levels (`MCExprs`), as deep as any record that is made of the drafts. Damaged texts are only read first, when both
texts are written and no books have changed; books change while texts are in flight.

`CHECK_DEADLOCK FALSE` stands where a session may end: nobody has to send, edit, save or ask again.

## 5. Fairness

`Pratt` (and `AlgolCodec` on top of it) and `BinaryReader` assume weak fairness of their step: the code is a function that runs on the
caller's thread and never waits for anything. `PackedSpec` asks for it only of the SLB8 reader; nobody has to write
or pack a value again. `WasmRuntime` asks for weak fairness of each thread's `Step`: the
scheduler runs a thread that can go on. Rust's mutex is not fair, so a thread that waits is not always enabled;
with a bounded number of operations it becomes so for good, because each one ends (fuel stops a loop) and frees
the mutex. Nobody has to ask for an operation. The chat, document, class file and BRIDGE
modules assume no fairness: their users may stop at any time, and their properties are about what must not happen.

## 6. Proofs

`PrattProofs` proves `TypeOK`, `RecursionBounded`, `SpansTile` and `ChargesBoundedByTokens` for every table,
input and limit, from `PrattAssumption` only. They are inductive together and not apart: that the depth
argument is the stack height needs the continuations to keep the depth they were suspended at; that charges
are bounded needs each suspended activation to owe one charge and its operator token to be consumed already;
tiling relates each continuation to the one above it. `Inductive` is the conjunction, proved action by action;
`DataLemmas` holds what push, pop and replace do to such a chain.

`PrecedenceTheorem` proves `PrecedenceRespected` on top of that, for every table, also one with equal or zero powers. A
finished tree says nothing about the comparisons that built it, so `MeaningInv` keeps what each activation knows: its
left tree is open to the left only through operators that bind at least as much as `min_bp` (`AboveLeft`), and an
operator that comes next finds everything open to the right binding tighter than itself (`Yields`). The second holds
because an activation only returns in front of an operator below its own `min_bp`, which is the right power its caller
passed to it (`CalleeMin`); the caller's frame remembers it for the tree it holds back. A group is closed on both sides
since its span is wider than its parts (`Shaped`). Statements about every node of a tree are statements about a set
that is closed under the steps down (`InOrder`, `ReachedIn`), so that no induction over trees is needed.

`BinaryReaderProofs` proves `TypeOK`, `RecursionBounded` and `NodesBounded` of the reader for every frame and
every limit, from `BinaryAssumption` only; the frames are arbitrary, not just damaged ones. What a stack entry
still has to read decides what can be pushed on it, so the invariant (`Place`) says for each activation where it
stands, at which depth, and which instructions its list may hold: origins and tables stand directly on the frame,
expressions anywhere above it. The walk over the origin tree unfolds a value the reader has built, so that all
these values belong to one set closed under children (`Closed`, an existential in the invariant), and the walk
finds an expression to start from because the frame always has it, is reading it, or has it ahead (`Fed`).
`ReplaceStep` and `CallStep` carry the invariant over the two things a running activation can do; each action
then only shows what it puts on the stack.

`WasmRuntimeProofs` proves `TypeOK`, `FuelIsPerOperation` and mutual exclusion (`MutualExclusion`) for every
number of threads, modules and operations, every page and word size and all limits, from `SizesAssumption` and
`ThreadsAssumption`. Of the limits the assumption asks only that a call has some fuel and a frame some byte (as
projection.rs:175 does): frames may be far longer than a page, as the default of 8 MiB (types.rs:51) lets them, and
memory limits may be smaller than the memory a module begins with. `TypeOK` alone is not inductive: `Owned` adds that a mutex is held by the thread inside and
by no other, `Asked` and `Placed` that a thread inside works on an instance that exists and (for `call_fresh`) was
made from the bytes it was asked about, `Fuelled` how much is left in the tank at each place, and `Explained`
what is known of each answer already given. A step inside rewrites one instance (`Rewrote`) and is invisible to
the other threads (`Undisturbed`), because nobody else is inside that runtime; the lemmas `GoesIn`, `GoesOn`,
`GoesOut`, `LoaderTurns` and `OutsideKeeps` carry the invariant over the ways a thread can move, and each action
is one or two of them.

The second half of `WasmRuntimeProofs` proves `HandleNamesItsModule` and the refinement `Serves` of `GuestService`,
from the same two assumptions. Its invariant `SInv` stands on the one above: an operation is known by its ticket
(`Ticketed`), what it was asked for decides which handle it holds (`Kinded`), and a call that has written its
arguments or its count finds them in linear memory when it reads the answer (`Carried`), which is where the mutex is
needed: the other threads do not see a step inside, so nobody writes there in between. The abstract operation takes
effect where the result is read from memory, or where the call fails; every other step maps to asking, answering or
to a stutter.

`ChatStreamsProofs` proves the four properties of the decoders, `FailureReported`, `EventsMatchResult`, `Faithful` and
`TruncationSafe`, for all messages, block orders, faults and limits, from `StreamsAssumption` (a message is a sequence
of text, thinking and tool blocks, and a tool is called with JSON or without arguments: what a provider that keeps to
its own format sends). The invariant `StreamsInv` has six parts, one per thing that has to be remembered:

- `StreamInv`, for failures: a body is decoded only once the provider is over, and the decoders of the formats that
  have errors of their own leave no error chunk behind them, so that one which arrives at the end has met none.
- `ProviderInv`, for the body itself: how many chunks of each block were sent (`sent`), and what a body looks like
  that was cut or lost chunks (`CalmBody`: every chunk is of the message, the stop is the last, a block starts before
  it goes on) and one that was only cut (`LosslessBody`: of each block it has the first chunks, in order).
- `TaleInv`, for the events: what was announced is in the blocks and the other way round but for thoughts (`Story`),
  a tool call is announced once its block is complete, and nothing touches that block later (`Tale`, `Kept`).
- `FramedInv`, for the Anthropic decoder on a body that was only cut: each block is what the chunks of it read so far
  make (`Folded`, `BlockAfter`), the sums are there once the close is (`Summing`).
- `ResultInv`, for OpenAI Responses: the terminal event holds the whole response, so there is no other answer,
  whatever was lost, repeated or misnumbered.
- `PlainInv`, for the other decoders: they have counted what they read, the text is what was said so far
  (`SaidSoFar`), and on a stream that nothing happened to they fail for the number of chunks only.

None of the last four is inductive without `ProviderInv`: that a block is complete at its stop, and that the text
of one block ends before the next one begins where a format does not number its blocks, are facts about the order
in which a provider sends.

`MarkupProofs` proves `NoActiveContent`, `VerbatimIsCurrent`, `ReadingAccounts` and the action property
`UndoRestores` for all texts, all edits and any number of authors' turns, from `TextsAssumption` only. The oracle for
active content is written on the tokens (`OpenBehind`, the elements open behind each one), the reader keeps frames and a counter; that the reader
hides whatever stands in an active element is an invariant of every step (`Simulates`: the frames mirror the open
elements, and `suppressed` is at least the number of active frames, however badly the tags nest). `DocsInv` says that
a preserved block is one that was read, `JournalInv` that every journal entry leads from its document to the next
one (`Chain`), and that an undo is refused only for the reason of finding 3 (`Stuck`).

`ReadingAccounts` speaks of a document that is open; what is inductive is the account of a reader in the middle of a
text (`Account`, `AccountInv`): what the constructs it has passed stand for is in its blocks, in the paragraph or list
it has not flushed, among the directives put aside, or counted as lost. Blocks lie before the pending paragraph or
list, and never are both pending; directives and other blocks are told apart by the constructs at their places. The merge is a permutation (`InPlaceAccount`), and a total does not
depend on the order (`TotalReordered`); the order it gives (`InPlaceOrdered`) is that of the starts, and blocks without
a span or with equal starts keep the order they came in. A construct counts once when it is kept or lost as a whole and
by its inlines otherwise. The constructs and inlines that leave nothing and are not reported (`UnnamedNodes`,
`UnnamedInlines`, section 7) count nothing: the theorem says that these are the only ones. HTML texts are left out: their
elements nest, and lists are extracted a second time.

`DocChunksProofs` proves `ChunksTile` and `PathsFollowHeadings` for every text, every size and every width of
character, from `DocumentsAssumption` only. `Scanning` relates the scanner to the text it has passed: the offset is
the start of its line, the blocks lie apart between boundaries, and the headings kept are one of each rank where no
rank was skipped. The loop of `fixed_range` is an induction on its cursor: each range begins where the last one
ended, ends on a boundary, and is longer than asked for only when it is a single character; `recursive_chunks`
joins these over the blocks.

`BridgeProofs` proves `VerifiedBooksAgree`, `CidBindsContent`, `AcceptedFramesRender` and `ThreadsAreDialogues` for all
peers, books, drafts, claims and lengths of a session, and for every damage to a text, from `ExchangeAssumption` ("codec" is the name of no peer) and
`DraftsAssumption` (a host composes without the content ids of packets and without a warrant: it asks for a warrant
and cites what it has seen). A content id is the hashed data itself, so two of them agree only when the data does.

- `BooksInv`, for the books: what was accepted was validated under its reader's books, and what a peer posted carries
  no warrant or the one its own books give. A reader that checks warrants has then compared its own with the
  author's (`WarrantsBind`).
- `CleanInv`, for the content ids: every text in flight and every packet accepted is clean of content ids of packets,
  but of those that peers stamped (`Stamped`). That a cid is bound is not inductive by itself: a text may be cut and
  mixed with others, handed on by the codec and cited before anyone reads it, so the invariant has to say of every
  token of every text what it may be. The lemmas follow a packet through all that happens to it: written as lines
  (`CleanEncoded`), read from lines (`CleanDecoded`), taken apart as an expression and put together again
  (`CleanHandedOn`), cited (`CleanCitations`), damaged (`CleanRewrites`). Whatever is then read with a cid that
  verifies, this cid is one a peer stamped, over the same header, body and warrant (`SameDatum`).
- `PartsInv`, for the frames: every accepted part is an expression and valid under the book that accepted it. That
  validation is enough for rendering is an induction along the holes (`FillStep`, `FilledFrame`): a value that fits its
  hole reaches none of the unreachable arms and is a text (`FittingValue`), the markers of the holes to come are still
  there, and a marker already filled is only there again if a later value brought it. This needs the frame to be well
  made, with one marker of its own for each hole in the template (`WellMade`), which nobody checks when a frame is
  registered; a frame that is not fails in `render_frame_with_prose` with an error. No other property of the
  frames, and none of the bounds of the run, is used.
- `MovesInv`, for the threads: what was accepted and what a peer posted was valid under a book that some peer loaded. A
  citation of a content id is read as the move it claims (`CitationRead`): nothing in the id or in the move can be
  taken for the separator before it. So the check of a move is a check against what the cited packets say they are
  (`ClaimsFollow`), only a request goes without parents (`OrphansRequest`), and going back along citations never
  leaves the packets that peers wrote (`BackAmong`). The theorem speaks of books that keep to the documentation of the
  moves (`Documented`): a peer may register any rule for any move, and then the documented sentences are not about
  its packets. TLC evaluates `Documented` on all books of the run, the standard one among them (`MovesDocumented`).

`DataLemmas` holds what these proofs share: stacks, sums of joined and of reordered numbers, filtered and joined
sequences, the numbers of a set in
their order, and `Iteration`, which says what a function defined by recursion along `0..n` computes. No installed
prover instantiates an induction theorem with an operator, so induction on a natural number is stated for a set
(`SetInduction`: a set that has 0 and with each number the next holds all), and every use defines the set of numbers
for which its claim is true. That is why the models write loops as functions on `0..n` wherever a theorem speaks of
them.

Only model-checked:

- The round trips of Algol and of both frame formats: they recurse over expressions and values.
- The gateway, the archive and `TransferExactlyFragment`: they compare whole results built with folds and
  `SelectSeq`, of which the library states nothing for the provers.
- Class files: byte layouts are taken apart by `RECURSIVE` operators, which the SMT backend does not accept.
- `FaceFaithful`: it needs every reader of the line face to invert its writer, and the round trip of the payloads, which
  recurses over expressions.
- Termination (`Terminates`, `EveryOperationEnds`): liveness is out of the prover's reach.

`TypeOK` of `Pratt`, `BinaryReader` and `WasmRuntime` and `NodesBounded` are proved and no longer run.

## 7. Findings

1. `sim-codec-pratt/src/builders.rs:84`: a call without arguments is not charged, so `a()()()` passes a node
   limit that its result exceeds (`pratt_node_limit`).
2. `sim-codec-chat/src/providers/anthropic/decode/stream.rs:230`: the comment at line 42 promises a `tool-call`
   event for tool-use blocks; a block whose `content_block_stop` never came is in the final response, without
   the arguments collected for it and without an event (`chat_tool_calls`).
3. `sim-codec-doc/src/edit.rs:145`: the module calls edits reversible; editing inside an inserted block and undoing
   that leaves its span dirty, and the inverse of the insertion no longer finds the block it expects (`doc_undo`).
4. `sim-codec-bitwise/src/writer.rs:322`: `encode_located_tree_frame` promises that the full located tree round-trips
   (codec.rs:158); the entries of maps and sets are sorted, their origins are not (`bitwise_origins`).
5. `sim-codec-classfile/src/shell/model.rs:435`: `replace_method_code` says that an edit that invalidates exception
   ranges is rejected (lines 397-399), and a test says that all exception boundaries are validated before such an edit
   is committed (edit_fidelity.rs:116); only numeric bounds are checked (attribute/code.rs:149-173). A jump inserted at the start
   of a method leaves the end of a handler's range, and its entry, inside a table switch (`class_ranges`).
   `validate_exception_handlers` (instruction.rs:277), which would refuse it, is not called. `EditsKeepMeaning` says on
   purpose that the table stays as it was: that is what the code does.

Two more disagreements have no run of their own, because a property of a passing run says exactly how far the
promise holds:

- Algol parentheses. `encode_algol` says that a looser operand is wrapped "so the text reparses to the same tree" and
  that the codec "round-trips every expression the kernel can hold" (encode.rs:14-18). Three things keep it from that.
  Only infix operands are ever parenthesised: `(-a)!` is written `-a!` and read as `-(a!)`. They are so by their left
  binding power alone (encode.rs:66): `(a ^ a) ^ a` is read as `a ^ (a ^ a)`. And an operator written against another
  is scanned as one (tokenize.rs:199-212): `-(-a)` is written `--a`, which is an unknown operator. In
  `RoundTripsExactlyFragment` the first two are `ReadsBack`, the third is `Munched`; each
  expression outside `Faithful` is shown not to come back.
- Unnamed losses. The brochure of the document codec says that it "names any loss" (BROCHURE.md:9). Neither in the
  document nor in the report are AsciiDoc index terms, anchors, callout numbers, spaced dashes and discarded inlines
  (inline.rs:74-80), empty blocks (asciidoc_decoder.rs:229), LaTeX comments, what follows a title, a heading or a document
  wrapper on its line and what stands beside the image and caption of a figure (latex.rs:134, 145, 350-371), and
  Typst links whose target is not a string (typst_backend.rs:301); of other arguments of Typst tables and figures
  there is a warning only. These are `UnnamedInlines` and `UnnamedNodes`; `ReadingAccounts` shows that all else is
  in the document or named.

Observed while modelling, without a run because no line of the repository promises otherwise or the promise is too
loose to check:

- Frames. A back reference is not checked against the depth limit, so an unpacked value may be deeper than
  `max_depth`; an integer is limited to 8 bits for every byte of the text limit, its decimal text may be longer than
  that limit. `CodecRuntime` has no way from a located expression to the tree encoder: a codec with that one alone
  would drop the origin.
- Chat. A streamed thinking block becomes text, an unstreamed one a raw part that no writer accepts, so that
  conversation cannot be continued. OpenAI and Ollama streams drop the tool calls that the unstreamed decoder keeps.
  `encode_openai_request` writes `"tools": null` or an empty list and drops the tools of the request; read back, the
  null makes the Responses and Anthropic writers refuse. `decode_anthropic_request` drops tool results of the last
  message; `decode_openai_request` ignores `tool_calls` of assistant messages; the OpenAI writers drop tool choice and
  max tokens. A relayed error response loses `shape-ok`. A denied tool result becomes an error.
- Documents. `DocChunks` gives `# A`, `### B`, `### C` the path A, B, C, though the comment says "enclosing".
  An AsciiDoc passthrough is kept although raw fragments are to be dropped; in Typst the
  number sign of raw text vanishes, a Typst list of several items is read as several lists;
  LaTeX text with a caret, tilde or backslash does not come back; raw fragments of any language are written verbatim
  by every writer. A self-closing active HTML tag leaves `suppressed` raised; lists of the second pass contain the
  text of active elements, and a close tag of an enclosing element inside a script ends the suppression.
- Class files. `replace_method_code` looks for the first "Code" constant while `inspect` accepts any; offsets inside a nested
  `StackMapTable` or `LineNumberTable` are not moved; spans are stale after an edit; `encode_element_value` writes
  constant tags and nestings that the decoder refuses.
- BRIDGE. The policy for unknown parts is never consulted, unknown kinds are always rejected; `terminal` is hashed but
  not enforced; no standard profile lets a fetch be sent; profiles are outside the warrant; payload maps are sorted
  when written while readers take the first of duplicate fields; cid, card and symbols are not checked as tokens;
  decoding does not verify the cid.

## 8. Not modelled

- Chat: the parsing of SSE lines and JSON and the errors for chunks that are not well-formed (each ends the decode
  with an error and nothing else), model cards, event transcripts, raw provider fields, model names, the provider
  stamp on responses. JSON `null` content is the empty list; the order of `canonical_key` is that of `Alphabet`.
- Documents: attribute envelopes and wiki links of the Markdown dialect, charset sniffing, tables of the second HTML
  pass, the `Expr` form of documents and edits. Attributes that a construct loses while it is kept (titles of links and
  blocks, alignments, the number a list starts with, attributions, author and revision lines of an AsciiDoc header), and
  Typst comments, which its parser does not yield, are outside the account; texts that touch count as one
  inline. Nested inlines are flattened, quotes and items hold one paragraph,
  AsciiDoc texts whose structure its parser settles by itself (`Settled`) are not read again.
- Class files: error kinds and offsets, attribute and constant rows of the projection, registration and shapes,
  `standard_attribute_min_major`, `validate_exception_handlers`, counts over 65535.
- BRIDGE: the input byte limit, error texts, library registration, shape and profile descriptor expressions, the
  tiling of owned spans.
- Frames: codecs that lack one of the six capabilities, `Prism`, the portable operation order, SLB8 frames as base64
  text (the same wrapper). `validate_expr_tree` accepts every tree here, whose children are the parts of the expression.
- Wasm: the in-memory stand-in for tests, the calls `WasmLib::load` makes to the linker, the import policy of
  `inspect_projection_module`, the model runtime of `model.rs`.
- Formatting and lexing of the text surfaces, the schema documents of the JSON codec, the SQL writer, the codecs
  without state between calls in the last row of the inventory, the development tools; `PROJECT.json` gives the
  reason for each. `sim_kernel` is not in the repository and is modelled from its use. Byte-level varuints are
  abstract (`hazards` says what that leaves out).
