---------------------------- MODULE WasmRuntime ----------------------------
(***************************************************************************)
(* WasmiRuntime of crates/sim-wasm-abi, with the loader of WasmLib and the *)
(* projection driver that uses a runtime of its own for every call.        *)
(*                                                                         *)
(* Host threads share one runtime.  Its mutex guards the table of module   *)
(* instances and is held while guest code runs; compiling and starting a   *)
(* module happens outside it.  Arguments go into the linear memory of the  *)
(* guest through its own allocator, and the answer is a packed pointer and *)
(* length that the host reads back.                                        *)
(*                                                                         *)
(* The guests are the hand-written ones of the crate's tests and of        *)
(* projection_boundary.rs, named for what they do.  A byte of memory is    *)
(* what was last written there.  Each guest function costs one unit of     *)
(* fuel, each turn of a loop one more.                                     *)
(***************************************************************************)
EXTENDS Integers, FiniteSets, Sequences

CONSTANTS
  Threads,    \* host threads
  NoThread,   \* holder of a free mutex
  Shared,     \* the runtime all threads use
  Settings,   \* bound: limits of a runtime, and what its users ask with
  FrameLimit, \* WasmFrameLimits::max_frame_bytes
  Word,       \* values of a u32
  Page,       \* bytes of a memory page
  HeapBase,   \* where the bump allocators start
  MaxTasks    \* bound: operations of all threads together

\* Nothing is assumed of how the limits compare with a page, nor that a module
\* can be started or called under them: only that a call has some fuel and a
\* frame some byte (with none, nothing is ever run or answered).
ASSUME SizesAssumption ==
  /\ Word \in Nat /\ Page \in Nat /\ HeapBase \in 2..Page /\ Page < Word
  /\ MaxTasks \in Nat /\ FrameLimit \in Nat \ {0}
  /\ \A s \in Settings :
       s.limits.fuel \in Nat \ {0} /\ s.limits.memory \in Nat /\ s.supply.lengths \subseteq Nat
ASSUME ThreadsAssumption == NoThread \notin Threads /\ Shared \notin Threads

VARIABLES
  limits,      \* fuel_per_call and max_memory_bytes of WasmFrameLimits
  supply,      \* the wasm bytes at hand, and the lengths of argument frames
  lock,        \* runtime -> the thread that holds its mutex
  next_handle, \* runtime -> WasmiRuntimeState::next_handle
  modules,     \* runtime -> handle -> instance
  tasks,       \* operations begun
  task,        \* thread -> what it was asked to do
  pc,          \* thread -> where it is
  refs,        \* thread -> pointers and packed result it holds
  log          \* operations answered, with their results

state == <<lock, next_handle, modules>>
vars == <<limits, supply, state, tasks, task, pc, refs, log>>

Runtimes == {Shared} \union Threads
Modules == UNION {s.supply.modules : s \in Settings}

-----------------------------------------------------------------------------
(* Guests. *)

Byte(what, n) == [what |-> what, n |-> n]
Zero == Byte("zero", 0)

Pack(ptr, len) == len * Word + ptr
Unpack(packed) == [ptr |-> packed % Word, len |-> packed \div Word]
AllOnes == Pack(Word - 1, Word - 1)

Data(bytes, address) ==
  CASE bytes = "echo" /\ address = 0 -> Byte("manifest", 0)
    [] bytes = "echo" /\ address = 1 -> Byte("exports", 0)
    [] OTHER -> Zero

Instance(bytes) ==
  [bytes |-> bytes, fuel |-> limits.fuel, heap |-> HeapBase, counter |-> 0,
   size |-> Page, memory |-> [a \in 0..(Page - 1) |-> Data(bytes, a)]]

\* sim_alloc: the bump allocators take memory and never give it back.
Bumps(guest) == guest.bytes \in {"counter", "echo"}
Allocated(guest, len) ==
  [guest EXCEPT !.fuel = @ - 1, !.heap = IF Bumps(guest) THEN (@ + len) % Word ELSE @]
AllocatedAt(guest) == IF Bumps(guest) THEN guest.heap ELSE 0

\* memory.grow within the limits of the store.
Grown(guest) ==
  [guest EXCEPT !.fuel = @ - 1, !.size = @ + Page,
                !.memory = [a \in 0..(guest.size + Page - 1) |->
                              IF a < guest.size THEN @[a] ELSE Zero]]

Counted(n) == <<Byte("count", n % 256)>>

\* What a guest function leaves behind, and the word it returns.
Ran(guest, doing) ==
  IF doing = "call" /\ guest.bytes = "counter"
  THEN [guest EXCEPT !.fuel = @ - 1, !.counter = @ + 1,
                     !.memory[0] = Counted(guest.counter + 1)[1]]
  ELSE [guest EXCEPT !.fuel = @ - 1]
Returned(bytes, doing, args) ==
  CASE bytes = "counter" /\ doing = "call" -> Pack(0, 1)
    [] bytes = "echo" -> CASE doing = "manifest" -> Pack(0, 1)
                           [] doing = "exports" -> Pack(1, 1)
                           [] OTHER -> Pack(args.ptr, args.len)
    [] bytes = "wild" /\ doing = "manifest" -> AllOnes
    [] bytes = "wild" /\ doing = "exports" -> Pack(Word - 1, 1)
    [] OTHER -> Pack(0, 0)

-----------------------------------------------------------------------------
(* Threads. *)

NoTask == [kind |-> "none", runtime |-> Shared, handle |-> 0, bytes |-> "none",
           length |-> 0, ticket |-> 0, doing |-> "none"]
NoRefs == [name |-> 0, args |-> 0, packed |-> 0]

Ok(frame) == [ok |-> TRUE, frame |-> frame, why |-> "none"]
Err(why) == [ok |-> FALSE, frame |-> <<>>, why |-> why]

Init ==
  /\ \E s \in Settings : limits = s.limits /\ supply = s.supply
  /\ lock = [r \in Runtimes |-> NoThread]
  /\ next_handle = [r \in Runtimes |-> 0]
  /\ modules = [r \in Runtimes |-> <<>>]
  /\ tasks = 0
  /\ task = [t \in Threads |-> NoTask]
  /\ pc = [t \in Threads |-> "idle"]
  /\ refs = [t \in Threads |-> NoRefs]
  /\ log = {}

Begin(t, asked, at) ==
  /\ pc[t] = "idle" /\ tasks < MaxTasks
  /\ tasks' = tasks + 1
  /\ task' = [task EXCEPT ![t] = [asked EXCEPT !.ticket = tasks + 1]]
  /\ pc' = [pc EXCEPT ![t] = at]
  /\ UNCHANGED <<limits, supply, lock, refs, log>>

\* WasmRuntime::instantiate_bytes.
Instantiate(t) ==
  \E bytes \in supply.modules :
    /\ Begin(t, [NoTask EXCEPT !.kind = "instantiate", !.bytes = bytes], "compile")
    /\ UNCHANGED <<next_handle, modules>>

\* load_wasm_lib_from_bytes, which goes on to read the two tables.
Load(t) ==
  \E bytes \in supply.modules :
    /\ Begin(t, [NoTask EXCEPT !.kind = "load", !.bytes = bytes, !.doing = "manifest"], "compile")
    /\ UNCHANGED <<next_handle, modules>>

\* WasmiProjectionRuntime::call_fresh, on a new runtime nobody else knows.
CallFresh(t) ==
  \E bytes \in supply.modules, length \in supply.lengths :
    /\ Begin(t, [NoTask EXCEPT !.kind = "fresh", !.runtime = t, !.bytes = bytes,
                               !.length = length, !.doing = "call"], "compile")
    /\ next_handle' = [next_handle EXCEPT ![t] = 0]
    /\ modules' = [modules EXCEPT ![t] = <<>>]

\* WasmHost::manifest_frame, exports_frame and call.  Handles are numbers, so
\* a thread can also name one too many.
CallHost(t) ==
  /\ \/ \E handle \in DOMAIN modules[Shared], kind \in {"manifest", "exports"} :
          Begin(t, [NoTask EXCEPT !.kind = kind, !.handle = handle, !.doing = kind], "enter")
     \/ \E handle \in 1..(next_handle[Shared] + 1), length \in supply.lengths :
          Begin(t, [NoTask EXCEPT !.kind = "call", !.handle = handle, !.length = length,
                                  !.doing = "call"], "enter")
  /\ UNCHANGED <<next_handle, modules>>

-----------------------------------------------------------------------------

Mine(t) == task[t].runtime
Guest(t) == modules[Mine(t)][task[t].handle]
Arguments(asked) == [i \in 1..asked.length |-> Byte("args", asked.ticket)]
Goes(t, at) == pc' = [pc EXCEPT ![t] = at]
Leaves(t) == lock' = [lock EXCEPT ![Mine(t)] = NoThread]
Becomes(t, guest) == modules' = [modules EXCEPT ![Mine(t)][task[t].handle] = guest]

\* The operation ends.
Answer(t, asked, result) ==
  /\ log' = log \union {[task |-> asked, result |-> result]}
  /\ refs' = [refs EXCEPT ![t] = NoRefs]
  /\ task' = [task EXCEPT ![t] = NoTask]
  /\ Goes(t, "idle")

\* Mutant: an error returns past the release.
FailHolding(t, guest, why) == Becomes(t, guest) /\ UNCHANGED lock /\ Answer(t, task[t], Err(why))

\* A trap or a bad frame: the guest stays as it is, the mutex is released.
Fail(t, guest, why) == Becomes(t, guest) /\ Leaves(t) /\ Answer(t, task[t], Err(why))

\* Module::new, the store, the start function and the exports: no mutex.
\* The limiter of the store refuses a memory that begins above its limit.
Compile(t) ==
  LET starts == task[t].bytes # "broken" /\ Page <= limits.memory
  IN /\ pc[t] = "compile"
     /\ \/ ~starts /\ Answer(t, task[t], Err("module"))
        \/ starts /\ Goes(t, "mint") /\ UNCHANGED <<task, refs, log>>
     /\ UNCHANGED <<limits, supply, state, tasks>>

\* BTreeMap::insert.
Inserted(map, key, value) ==
  [k \in DOMAIN map \union {key} |-> IF k = key THEN value ELSE map[k]]

\* Mutant: the handle counts the instances of the same bytes.
MintPerModule(t) ==
  LET same == {h \in DOMAIN modules[Mine(t)] : modules[Mine(t)][h].bytes = task[t].bytes}
      handle == Cardinality(same) + 1
      asked == [task[t] EXCEPT !.handle = handle]
  IN /\ pc[t] = "mint" /\ lock[Mine(t)] = NoThread
     /\ next_handle' = [next_handle EXCEPT ![Mine(t)] = handle]
     /\ modules' = [modules EXCEPT ![Mine(t)] = Inserted(@, handle, Instance(asked.bytes))]
     /\ \/ asked.kind = "instantiate" /\ Answer(t, asked, Ok(<<>>))
        \/ /\ asked.kind # "instantiate"
           /\ task' = [task EXCEPT ![t] = asked]
           /\ Goes(t, "enter") /\ UNCHANGED <<refs, log>>
     /\ UNCHANGED <<limits, supply, lock, tasks>>

\* The handle is counted up and the instance inserted, under the mutex.
Mint(t) ==
  LET handle == next_handle[Mine(t)] + 1
      asked == [task[t] EXCEPT !.handle = handle]
  IN /\ pc[t] = "mint" /\ lock[Mine(t)] = NoThread
     /\ next_handle' = [next_handle EXCEPT ![Mine(t)] = handle]
     /\ modules' = [modules EXCEPT ![Mine(t)] = Inserted(@, handle, Instance(asked.bytes))]
     /\ \/ asked.kind = "instantiate" /\ Answer(t, asked, Ok(<<>>))
        \/ /\ asked.kind # "instantiate"
           /\ task' = [task EXCEPT ![t] = asked]
           /\ Goes(t, "enter") /\ UNCHANGED <<refs, log>>
     /\ UNCHANGED <<limits, supply, lock, tasks>>

\* Mutant: the mutex is not waited for.
EnterUnlocked(t) ==
  /\ pc[t] = "enter"
  /\ \/ /\ task[t].handle \notin DOMAIN modules[Mine(t)]
        /\ Answer(t, task[t], Err("handle")) /\ UNCHANGED <<lock, modules>>
     \/ /\ task[t].handle \in DOMAIN modules[Mine(t)]
        /\ lock' = [lock EXCEPT ![Mine(t)] = t]
        /\ Becomes(t, [Guest(t) EXCEPT !.fuel = limits.fuel])
        /\ Goes(t, IF task[t].doing = "call" THEN "name" ELSE "run")
        /\ UNCHANGED <<task, refs, log>>
  /\ UNCHANGED <<limits, supply, next_handle, tasks>>

\* Mutant: no refuel.
EnterWithLeftovers(t) ==
  /\ pc[t] = "enter" /\ lock[Mine(t)] = NoThread
  /\ \/ /\ task[t].handle \notin DOMAIN modules[Mine(t)]
        /\ Answer(t, task[t], Err("handle")) /\ UNCHANGED <<lock, modules>>
     \/ /\ task[t].handle \in DOMAIN modules[Mine(t)]
        /\ lock' = [lock EXCEPT ![Mine(t)] = t]
        /\ Becomes(t, Guest(t))
        /\ Goes(t, IF task[t].doing = "call" THEN "name" ELSE "run")
        /\ UNCHANGED <<task, refs, log>>
  /\ UNCHANGED <<limits, supply, next_handle, tasks>>

\* The mutex, the table, a full tank.
Enter(t) ==
  /\ pc[t] = "enter" /\ lock[Mine(t)] = NoThread
  /\ \/ /\ task[t].handle \notin DOMAIN modules[Mine(t)]
        /\ Answer(t, task[t], Err("handle")) /\ UNCHANGED <<lock, modules>>
     \/ /\ task[t].handle \in DOMAIN modules[Mine(t)]
        /\ lock' = [lock EXCEPT ![Mine(t)] = t]
        /\ Becomes(t, [Guest(t) EXCEPT !.fuel = limits.fuel])
        /\ Goes(t, IF task[t].doing = "call" THEN "name" ELSE "run")
        /\ UNCHANGED <<task, refs, log>>
  /\ UNCHANGED <<limits, supply, next_handle, tasks>>

Written(guest, ptr, bytes) ==
  [guest EXCEPT !.memory = [a \in DOMAIN @ |-> IF a \in ptr..(ptr + Len(bytes) - 1)
                                               THEN bytes[a - ptr + 1] ELSE @[a]]]

WriteGuestBytes(t, field, bytes, at) ==
  LET guest == Guest(t)
      ptr == AllocatedAt(guest)
      taken == Allocated(guest, Len(bytes))
  IN \/ guest.fuel = 0 /\ Fail(t, guest, "fuel")
     \/ guest.fuel > 0 /\ ptr + Len(bytes) > guest.size /\ Fail(t, taken, "write")
     \/ /\ guest.fuel > 0 /\ ptr + Len(bytes) <= guest.size
        /\ Becomes(t, Written(taken, ptr, bytes))
        /\ refs' = [refs EXCEPT ![t][field] = ptr]
        /\ Goes(t, at) /\ UNCHANGED <<lock, task, log>>

SendName(t) ==
  /\ pc[t] = "name"
  /\ WriteGuestBytes(t, "name", <<Byte("name", task[t].ticket)>>, "args")
  /\ UNCHANGED <<limits, supply, next_handle, tasks>>

SendArguments(t) ==
  /\ pc[t] = "args"
  /\ WriteGuestBytes(t, "args", Arguments(task[t]), "run")
  /\ UNCHANGED <<limits, supply, next_handle, tasks>>

\* One step of guest code; only a loop has more than one.
Run(t) ==
  LET guest == Guest(t)
      doing == task[t].doing
      args == [ptr |-> refs[t].args, len |-> task[t].length]
      spins == doing = "call" /\ guest.bytes = "spinner"
      grows == doing = "call" /\ guest.bytes = "grower"
      returns(left) ==
        /\ Becomes(t, left)
        /\ refs' = [refs EXCEPT ![t].packed = Returned(guest.bytes, doing, args)]
        /\ Goes(t, "read") /\ UNCHANGED <<lock, task, log>>
  IN /\ pc[t] = "run"
     /\ \/ guest.fuel = 0 /\ Fail(t, guest, "fuel")
        \/ /\ guest.fuel > 0 /\ spins
           /\ Becomes(t, [guest EXCEPT !.fuel = @ - 1]) /\ UNCHANGED <<lock, task, pc, refs, log>>
        \/ guest.fuel > 0 /\ grows /\ guest.size + Page > limits.memory /\ Fail(t, guest, "grow")
        \/ guest.fuel > 0 /\ grows /\ guest.size + Page <= limits.memory /\ returns(Grown(guest))
        \/ guest.fuel > 0 /\ ~spins /\ ~grows /\ returns(Ran(guest, doing))
     /\ UNCHANGED <<limits, supply, next_handle, tasks>>

\* decode_manifest_frame and decode_exports_frame on what a guest returned.
Decodes(frame, doing) == frame = <<Byte(doing, 0)>>

\* read_guest_frame, the end of the critical section, and for the loader
\* the decoding and the way back in.
Read(t) ==
  LET guest == Guest(t)
      frame == Unpack(refs[t].packed)
      asked == task[t]
      held == [i \in 1..frame.len |-> guest.memory[frame.ptr + i - 1]]
      loading == asked.kind = "load"
  IN /\ pc[t] = "read"
     /\ \/ frame.len > FrameLimit /\ Fail(t, guest, "limit")
        \/ /\ frame.len <= FrameLimit /\ frame.ptr + frame.len > guest.size
           /\ Fail(t, guest, "range")
        \/ /\ frame.len <= FrameLimit /\ frame.ptr + frame.len <= guest.size
           /\ Leaves(t) /\ UNCHANGED modules
           /\ \/ loading /\ ~Decodes(held, asked.doing) /\ Answer(t, asked, Err("decode"))
              \/ /\ loading /\ Decodes(held, asked.doing) /\ asked.doing = "manifest"
                 /\ task' = [task EXCEPT ![t].doing = "exports"]
                 /\ Goes(t, "enter") /\ UNCHANGED <<refs, log>>
              \/ /\ loading => Decodes(held, asked.doing) /\ asked.doing = "exports"
                 /\ Answer(t, asked, Ok(held))
     /\ UNCHANGED <<limits, supply, next_handle, tasks>>

-----------------------------------------------------------------------------

Step(t) == \/ Compile(t) \/ Mint(t) \/ Enter(t)
           \/ SendName(t) \/ SendArguments(t) \/ Run(t) \/ Read(t)

Asks(t) == Instantiate(t) \/ Load(t) \/ CallFresh(t) \/ CallHost(t)

\* Nobody asks for more, at the bound of the model.
Rest == tasks = MaxTasks /\ (\A t \in Threads : pc[t] = "idle") /\ UNCHANGED vars

Next == Rest \/ \E t \in Threads : Asks(t) \/ Step(t)

\* A thread that has begun goes on, and the mutex is not held back from it
\* for ever while it is free; nobody has to ask for anything.
Fairness == \A t \in Threads : WF_vars(Step(t))
Spec == Init /\ [][Next]_vars /\ Fairness

-----------------------------------------------------------------------------
(* Properties. *)

Inside == {"name", "args", "run", "read"}
Bytes == [what : {"zero", "manifest", "exports", "name", "args", "count"}, n : Nat]
IsGuest(guest) ==
  /\ guest = [bytes |-> guest.bytes, fuel |-> guest.fuel, heap |-> guest.heap,
              counter |-> guest.counter, size |-> guest.size, memory |-> guest.memory]
  /\ guest.bytes \in Modules /\ guest.fuel \in 0..limits.fuel /\ guest.heap \in 0..(Word - 1)
  /\ guest.counter \in Nat /\ guest.size \in Nat /\ guest.size >= Page
  /\ guest.memory \in [0..(guest.size - 1) -> Bytes]
Tasks ==
  [kind : {"none", "instantiate", "load", "fresh", "manifest", "exports", "call"},
   runtime : Runtimes, handle : Nat, bytes : Modules \union {"none"}, length : Nat,
   ticket : Nat, doing : {"none", "manifest", "exports", "call"}]
Reasons == {"none", "module", "handle", "fuel", "write", "grow", "limit", "range", "decode"}
Results == [ok : BOOLEAN, frame : Seq(Bytes), why : Reasons]

\* Types of the state; handles are handed out without gaps, and guest code
\* runs in the thread that holds the mutex and nowhere else.
TypeOK ==
  /\ \E s \in Settings : limits = s.limits /\ supply = s.supply
  /\ lock \in [Runtimes -> Threads \union {NoThread}]
  /\ next_handle \in [Runtimes -> Nat]
  /\ DOMAIN modules = Runtimes
  /\ \A r \in Runtimes : DOMAIN modules[r] = 1..next_handle[r]
  /\ \A r \in Runtimes : \A h \in DOMAIN modules[r] : IsGuest(modules[r][h])
  /\ tasks \in 0..MaxTasks
  /\ task \in [Threads -> Tasks]
  /\ pc \in [Threads -> Inside \union {"idle", "compile", "mint", "enter"}]
  /\ \A t \in Threads : pc[t] \in Inside <=> lock[Mine(t)] = t
  /\ refs \in [Threads -> [name : Nat, args : Nat, packed : Nat]]
  /\ log \subseteq [task : Tasks, result : Results]

ModuleOf(asked) ==
  IF asked.kind = "fresh" THEN asked.bytes ELSE modules[Shared][asked.handle].bytes

\* Two instantiations never share a handle, and a handle stays with the bytes
\* it was given for, whatever was compiled at the same time.
HandleNamesItsModule ==
  \A e \in {e \in log : e.task.kind = "instantiate" /\ e.result.ok} :
    /\ modules[Shared][e.task.handle].bytes = e.task.bytes
    /\ \A f \in log \ {e} :
         f.task.kind \in {"instantiate", "load"} => f.task.handle # e.task.handle

\* An operation runs out of fuel by what it does itself (two allocations and
\* the call), never by what an earlier operation burnt; a loop always does.
FuelIsPerOperation ==
  \A e \in log :
    /\ e.result.why = "fuel" =>
         e.task.doing = "call" /\ (limits.fuel < 3 \/ ModuleOf(e.task) = "spinner")
    /\ e.task.doing = "call" /\ e.result.ok => limits.fuel >= 3

\* Every operation ends: a guest that loops is stopped, and whatever fails
\* inside releases the mutex for the threads that wait.
EveryOperationEnds == \A t \in Threads : pc[t] # "idle" ~> pc[t] = "idle"

\* The runtime, seen through its answers, serves one operation at a time.
\* A counter has moved before its frame is read, so that call is not counted.
Reading(h) == \E t \in Threads :
  pc[t] = "read" /\ task[t].kind = "call" /\ task[t].handle = h
Served ==
  [h \in 1..next_handle[Shared] |->
     LET guest == modules[Shared][h]
     IN [bytes |-> guest.bytes,
         calls |-> IF guest.bytes = "counter" /\ Reading(h) THEN guest.counter - 1
                  ELSE guest.counter]]
Service == INSTANCE GuestService WITH served <- Served
Serves == Service!Spec

=============================================================================
